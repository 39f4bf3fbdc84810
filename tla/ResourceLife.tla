---------------------------- MODULE ResourceLife ----------------------------
(***************************************************************************)
(* What the DoResource reconciler promises about external resources        *)
(* (internal/controller): when one may be ordered, destroyed, recorded,    *)
(* forgotten and let go.  There are no Jobs, waits, results, copies of the *)
(* object or retries here: a cloud operation is an order, which is carried *)
(* out at some later instant or never, by whoever finds it.                *)
(***************************************************************************)
EXTENDS Naturals

CONSTANTS
  Ids,        \* external resources
  NoId,       \* no resource
  Creations,  \* orders to create a resource
  Deletions   \* orders to destroy the resource .id

VARIABLES
  exists,     \* the object exists
  orphan,     \* its deletion policy is Orphan
  gen,        \* its generation
  consented,  \* generations at which a destruction was authorised
  work,       \* the generation under reconciliation, if there is one
  recorded,   \* the resource the status names
  orders,     \* what was ordered and is not carried out yet
  world,      \* the external resources
  exact       \* nothing on order can be about an earlier resource of the name

object == <<exists, orphan, gen, consented>>
vars == <<object, work, recorded, orders, world, exact>>

\* The generation under reconciliation permits the loss of the resource.
Consented == work \subseteq consented

Init ==
  /\ exists = TRUE /\ exact = TRUE
  /\ orphan = FALSE /\ gen = 1 /\ consented \in {{}, {1}}
  /\ work = {} /\ recorded = NoId /\ orders = {}
  /\ world \in [Ids -> {"unborn", "live", "vanished"}]

\* The object outlives its resource: it goes when nothing was recorded, when
\* what was recorded is gone, or when the policy says to leave it behind.
MayGo == orphan' \/ recorded = NoId \/ world[recorded] # "live"

\* The user writes the object; only his writes consent to anything.
Write ==
  /\ exists /\ (~exists' /\ exact => MayGo)
  /\ exists' \in BOOLEAN /\ orphan' \in BOOLEAN /\ gen' \in {gen, gen + 1}
  /\ consented' \in {consented, consented \cup {gen'}}
  /\ UNCHANGED <<work, recorded, orders, world, exact>>

Begin ==
  /\ exists /\ work = {} /\ work' = {gen}
  /\ UNCHANGED <<object, recorded, orders, world, exact>>

\* A reconcile ends: with an error, in a crash, or because it is done.
End ==
  /\ work # {} /\ work' = {}
  /\ exact' => exact
  /\ UNCHANGED <<object, recorded, orders, world>>

\* An answer was not waited for, not read, or not cleaned up.
Doubt ==
  /\ work # {} /\ ~exact'
  /\ UNCHANGED <<object, work, recorded, orders, world>>

\* A second resource is only made to replace the first, with consent.
OrderCreation(o) ==
  /\ work # {} /\ (recorded = NoId \/ Consented)
  /\ orders' = orders \cup {o}
  /\ UNCHANGED <<object, work, recorded, world, exact>>

\* Only the recorded resource is destroyed, and with consent.
OrderDeletion(o) ==
  /\ work # {} /\ o.id = recorded /\ Consented
  /\ orders' = orders \cup {o}
  /\ UNCHANGED <<object, work, recorded, world, exact>>

\* A resource that was born takes the place of none, or of one it replaces.
Record(i) ==
  /\ work # {} /\ work' = {}
  /\ recorded = NoId \/ Consented
  /\ exact => world[i] # "unborn"
  /\ recorded' = i
  /\ UNCHANGED <<object, orders, world, exact>>

\* A resource that is gone is forgotten; the next reconcile creates another.
Forget ==
  /\ work # {} /\ work' = {}
  /\ recorded # NoId /\ (exact => world[recorded] # "live")
  /\ recorded' = NoId
  /\ UNCHANGED <<object, orders, world, exact>>

\* The finalizer is released.
Release ==
  /\ exists /\ ~exists' /\ work # {} /\ work' = {}
  /\ exact => MayGo
  /\ UNCHANGED <<orphan, gen, consented, recorded, orders, world, exact>>

CarryOut(o) ==
  /\ o \in orders /\ orders' = orders \ {o}
  /\ \/ world' = world
     \/ /\ o \in Creations
        /\ \E i \in Ids : world[i] # "live" /\ world' = [world EXCEPT ![i] = "live"]
     \/ /\ o \in Deletions /\ world[o.id] = "live"
        /\ world' = [world EXCEPT ![o.id] = "destroyed"]
  /\ UNCHANGED <<object, work, recorded, exact>>

\* Somebody else removes the resource.
Drift(i) ==
  /\ world[i] = "live" /\ world' = [world EXCEPT ![i] = "vanished"]
  /\ UNCHANGED <<object, work, recorded, orders, exact>>

Next ==
  \/ Write \/ Begin \/ End \/ Doubt \/ Forget \/ Release
  \/ \E o \in Creations : OrderCreation(o)
  \/ \E o \in Deletions : OrderDeletion(o)
  \/ \E o \in Creations \cup Deletions : CarryOut(o)
  \/ \E i \in Ids : Record(i) \/ Drift(i)

Spec == Init /\ [][Next]_vars
=============================================================================
