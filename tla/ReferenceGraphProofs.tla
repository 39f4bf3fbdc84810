------------------------ MODULE ReferenceGraphProofs ------------------------
(* Proofs about ReferenceGraph for any number of resources, any graphs of  *)
(* references, and any number of user actions and failed reads.            *)
EXTENDS ReferenceGraph, TLAPS

-----------------------------------------------------------------------------
(* Types *)

\* Every record the actions write is an object.
LEMMA Updates ==
  ASSUME NEW o \in Objects
  PROVE  /\ \A reason \in {"CyclicReference", "InvalidReferences"} :
              [o EXCEPT !.fin = TRUE, !.synced = reason,
                        !.ready = IF o.id THEN @ ELSE reason] \in Objects
         /\ [o EXCEPT !.fin = TRUE, !.ready = "WaitingForDependency"] \in Objects
         /\ [o EXCEPT !.fin = TRUE, !.synced = "Synced", !.ready = "Available"] \in Objects
         /\ [o EXCEPT !.fin = TRUE] \in Objects
         /\ [o EXCEPT !.ready = "BlockedByDependents"] \in Objects
         /\ \A b \in BOOLEAN : [o EXCEPT !.exists = b] \in Objects
         /\ [o EXCEPT !.id = TRUE, !.synced = "Synced", !.ready = "Available"] \in Objects
         /\ \A S \in SUBSET Names : [o EXCEPT !.refs = S] \in Objects
         /\ \A b \in BOOLEAN : [o EXCEPT !.deleting = TRUE, !.exists = b] \in Objects
BY DEF Objects

\* What an action writes: at most one object, and one that is an object.
LEMMA WriteTypes ==
  ASSUME TypeOK, NEW r \in Names,
         Reconcile(r) \/ InvalidReferences(r) \/ Operation(r) \/ User(r)
  PROVE  api' \in [Names -> Objects]
<1>1. api \in [Names -> Objects] /\ api[r] \in Objects
  BY DEF TypeOK
<1>2. ASSUME NEW o \in Objects, Writes(r, o) PROVE api' \in [Names -> Objects]
  BY <1>1, <1>2 DEF Writes
<1>3. CASE CyclicReference(r) \/ InvalidReferences(r)
  BY <1>1, <1>2, <1>3, Updates DEF CyclicReference, InvalidReferences, Fails
<1>4. CASE WaitingForDependency(r) \/ Settled(r) \/ Create(r)
  BY <1>1, <1>2, <1>4, Updates DEF WaitingForDependency, Settled, Create
<1>5. CASE BlockedByDependents(r) \/ NothingToDelete(r)
  BY <1>1, <1>2, <1>5, Updates DEF BlockedByDependents, NothingToDelete
<1>6. CASE Record(r) \/ Release(r)
  BY <1>1, <1>2, <1>6, Updates DEF Record, Release
<1>7. CASE User(r)
  <2>1. api[r].fin \in BOOLEAN
    BY <1>1 DEF Objects
  <2> QED BY <1>1, <1>2, <1>7, <2>1, Updates
          DEF User, Apply, RequestDelete, ToggleUsage, EditReferences
<1>8. CASE Vanished(r) \/ Delete(r) \/ Operation(r)
  BY <1>1, <1>8 DEF Vanished, Delete, Operation, Provision, Destroy
<1> QED BY <1>3, <1>4, <1>5, <1>6, <1>7, <1>8 DEF Reconcile

\* The references of an object are names.
LEMMA RefTypes ==
  ASSUME NEW c \in [Names -> Objects], NEW r \in Names
  PROVE  c[r].refs \subseteq Names /\ refsOf(c, r) \subseteq Names /\ dependentsOf(c, r) \subseteq Names
BY DEF Objects, refsOf, dependentsOf

\* Every step keeps the types.
LEMMA TypeStep ==
  ASSUME TypeOK, [Next]_vars
  PROVE  TypeOK'
<1>1. CASE UNCHANGED vars
  BY <1>1 DEF TypeOK, vars, watched, bounds, ghosts
<1>2. ASSUME NEW r \in Names, Reconcile(r) PROVE TypeOK'
  <2>1. api' \in [Names -> Objects]
    BY <1>2, WriteTypes
  <2>2. /\ UNCHANGED <<watched, usage, cloud, bounds, rewired, torn>>
        /\ queued' \subseteq Names /\ dirty' \subseteq Names /\ late' \subseteq Names
        /\ pc' \in [Names -> {"idle", "create", "made", "delete", "gone"}]
    <3>1. dependentsOf(api, r) \subseteq Names
      BY RefTypes DEF TypeOK
    <3>2. CASE Record(r) \/ Release(r)
      BY <3>2 DEF Record, Release, TypeOK, bounds, ghosts
    <3>3. CASE Delete(r)
      BY <3>1, <3>3 DEF Delete, Terminating, Starts, Operates, TypeOK, bounds
    <3>4. CASE Vanished(r) \/ NothingToDelete(r) \/ BlockedByDependents(r)
      BY <3>4 DEF Vanished, NothingToDelete, BlockedByDependents, Terminating, Starts, Done, Again,
         TypeOK, bounds
    <3>5. CASE CyclicReference(r) \/ WaitingForDependency(r) \/ Settled(r) \/ Create(r)
      BY <3>5 DEF CyclicReference, Fails, WaitingForDependency, Settled, Create, Passes, Passing,
         Starts, Done, Again, Operates, TypeOK, bounds
    <3> QED BY <1>2, <3>2, <3>3, <3>4, <3>5 DEF Reconcile
  <2> QED BY <2>1, <2>2 DEF TypeOK, watched, bounds
<1>3. ASSUME NEW r \in Names, InvalidReferences(r) PROVE TypeOK'
  <2>1. api' \in [Names -> Objects]
    BY <1>3, WriteTypes
  <2> QED BY <1>3, <2>1 DEF InvalidReferences, Fails, Passing, Starts, Done, TypeOK, watched
<1>4. ASSUME NEW r \in Names, Operation(r) PROVE TypeOK'
  BY <1>4 DEF Operation, Provision, Destroy, TypeOK, watched, bounds, ghosts
<1>5. ASSUME NEW r \in Names, User(r) PROVE TypeOK'
  <2>1. api' \in [Names -> Objects]
    BY <1>5, WriteTypes
  <2>2. UserActs
    BY <1>5 DEF User, Apply, RequestDelete, ToggleUsage, EditReferences
  <2>3. dirty' \subseteq Names /\ usage' \subseteq Names /\ rewired' \in BOOLEAN
    BY <1>5 DEF User, Apply, RequestDelete, ToggleUsage, EditReferences, TypeOK
  <2> QED BY <2>1, <2>2, <2>3 DEF UserActs, TypeOK, watched
<1>6. ASSUME CacheSync PROVE TypeOK'
  <2>1. \A r \in Names : /\ mapGraphNeighbors(cache, r) \subseteq Names
                         /\ mapGraphNeighbors(api, r) \subseteq Names
    BY RefTypes DEF mapGraphNeighbors, TypeOK
  <2>2. queued' \subseteq Names
    BY <1>6, <2>1 DEF CacheSync, TypeOK
  <2> QED BY <1>6, <2>2 DEF CacheSync, TypeOK, bounds, ghosts
<1>7. ASSUME UsageSync PROVE TypeOK'
  BY <1>7 DEF UsageSync, TypeOK, bounds, ghosts
<1> QED BY <1>1, <1>2, <1>3, <1>4, <1>5, <1>6, <1>7 DEF Next

\* The first states are well typed.
LEMMA TypeInit == Init => TypeOK
<1> SUFFICES ASSUME Init PROVE TypeOK
  OBVIOUS
<1>1. PICK g \in Graphs, B \in Born, L \in Lates :
        /\ api = [r \in Names |-> IF r \in B THEN OldObject(g[r])
                     ELSE [NewObject(g[r]) EXCEPT !.exists = r \notin L]]
        /\ cloud = B
  BY DEF Init
<1>2. ASSUME NEW S \in SUBSET Names, NEW b \in BOOLEAN
      PROVE  OldObject(S) \in Objects /\ [NewObject(S) EXCEPT !.exists = b] \in Objects
  BY DEF OldObject, NewObject, Objects
<1>3. g \in [Names -> SUBSET Names] /\ B \subseteq Names
  BY GraphAssumption
<1>4. api \in [Names -> Objects]
  BY <1>1, <1>2, <1>3
<1> QED BY <1>1, <1>3, <1>4 DEF Init, TypeOK

\* ReferenceGraph is type correct: whatever the graph and the order of events,
\* every object keeps to the states the three moments of its life allow.
THEOREM TypeCorrect == Spec => []TypeOK
BY TypeInit, TypeStep, PTL DEF Spec

-----------------------------------------------------------------------------
(* The walks.  Closure is the least set that is closed under references, so   *)
(* a walk over fewer edges finds no more.                                     *)

\* reaches, a walk over the cached objects that never returns to where it
\* began, finds only what the graph of the specs connects.
LEMMA ReachesConnects ==
  ASSUME TypeOK, NEW r \in Names, NEW d \in Names, reaches(r, d),
         \A x \in Names : cache[x].refs = api[x].refs
  PROVE  Connects(r, d)
<1> DEFINE whole == [x \in Names |-> [api[x] EXCEPT !.exists = TRUE]]
<1>1. ASSUME NEW x \in Names PROVE refsOf(whole, x) = api[x].refs
  BY DEF refsOf, TypeOK, Objects
<1>2. ASSUME NEW x \in Names PROVE refsOf(cache, x) \subseteq refsOf(whole, x)
  BY <1>1 DEF refsOf
<1> HIDE DEF whole
<1>3. ASSUME NEW T \in SUBSET Names, api[r].refs \subseteq T,
             \A x \in T \ {} : refsOf(whole, x) \subseteq T
      PROVE  d \in T
  <2>1. \A x \in T \ {r} : refsOf(cache, x) \subseteq T
    BY <1>2, <1>3
  <2> QED BY <1>3, <2>1 DEF reaches, Closure
<1>4. d \in Closure(whole, api[r].refs, {})
  BY <1>3 DEF Closure
<1> QED BY <1>4 DEF Connects, whole

\* What is connected stays so as long as nobody edits references.
LEMMA ConnectsKept ==
  ASSUME TypeOK, TypeOK', NEW r \in Names, NEW d \in Names, Connects(r, d),
         \A x \in Names : api'[x].refs = api[x].refs
  PROVE  Connects(r, d)'
<1> DEFINE whole == [x \in Names |-> [api[x] EXCEPT !.exists = TRUE]]
           after == [x \in Names |-> [api'[x] EXCEPT !.exists = TRUE]]
<1>1. ASSUME NEW x \in Names PROVE refsOf(whole, x) = refsOf(after, x)
  BY DEF refsOf, TypeOK, Objects
<1>2. d \in Closure(whole, api[r].refs, {})
  BY DEF Connects
<1> HIDE DEF whole, after
<1>3. ASSUME NEW T \in SUBSET Names, api'[r].refs \subseteq T,
             \A x \in T \ {} : refsOf(after, x) \subseteq T
      PROVE  d \in T
  <2>1. api[r].refs \subseteq T /\ \A x \in T \ {} : refsOf(whole, x) \subseteq T
    BY <1>1, <1>3
  <2> QED BY <1>2, <2>1 DEF Closure
<1>4. d \in Closure(after, api'[r].refs, {})
  BY <1>3 DEF Closure
<1> QED BY <1>4 DEF Connects, after

-----------------------------------------------------------------------------
(* The order of a teardown.  It is decided when the delete starts, from a     *)
(* cache: what the cache shows of a dependent is older than the dependent,    *)
(* and a dependent that is recorded once its source is condemned is late.     *)

\* External resources a teardown has removed, or is about to.
Removed == torn \cup {r \in Names : pc[r] \in {"delete", "gone"}}

Steady == ~rewired => \A r \in Names : cache[r].refs = api[r].refs
Unborn == \A r \in Names : ~api[r].exists /\ ~api[r].deleting => ~api[r].id /\ pc[r] = "idle"
Condemned == \A s \in Removed : api[s].deleting
Aged == \A d \in Names : cache[d].deleting => api[d].deleting
Overtaken == \A d \in Names : cache[d].deleting /\ ~cache[d].id /\ api[d].id => d \in late
Ordered ==
  ~rewired => \A s \in Removed : \A d \in dependentsOf(api, s) \ late :
                api[d].id => s > d /\ Connects(s, d)

OrderInv == Steady /\ Unborn /\ Condemned /\ Aged /\ Overtaken /\ Ordered

\* What a step may do to an object: the deletion request stays, references
\* change by an edit, the id appears when the create is recorded, an object
\* that is gone does not return, and none goes without a deletion request.
Life(x) ==
  /\ api[x].deleting => api'[x].deleting
  /\ ~rewired' => ~rewired /\ api'[x].refs = api[x].refs
  /\ api'[x].id = api[x].id \/ Record(x)
  /\ api'[x].exists /\ ~api[x].exists => ~api[x].deleting /\ api'[x].id = api[x].id
  /\ api[x].exists /\ ~api'[x].exists => api'[x].deleting

\* A write of one object lets it live as long as that object's copy does.
LEMMA OneWrite ==
  ASSUME TypeOK, NEW r \in Names, NEW o \in Objects, Writes(r, o), NEW x \in Names,
         ~rewired' => ~rewired,
         x = r => /\ api[x].deleting => o.deleting
                  /\ ~rewired' => o.refs = api[x].refs
                  /\ o.id = api[x].id \/ Record(x)
                  /\ o.exists /\ ~api[x].exists => ~api[x].deleting /\ o.id = api[x].id
                  /\ api[x].exists /\ ~o.exists => o.deleting
  PROVE  Life(x)
<1>1. CASE x = r
  <2>1. api'[x] = o
    BY <1>1 DEF Writes, TypeOK
  <2> QED BY <1>1, <2>1 DEF Life
<1>2. CASE x # r
  <2>1. api'[x] = api[x]
    BY <1>2 DEF Writes, TypeOK
  <2> QED BY <2>1 DEF Life
<1> QED BY <1>1, <1>2

\* Conditions and the finalizer are all that a waiting reconcile writes.
LEMMA ConditionsOnly ==
  ASSUME NEW o \in Objects,
         NEW p \in {[o EXCEPT !.fin = TRUE, !.ready = "WaitingForDependency"],
                   [o EXCEPT !.fin = TRUE, !.synced = "Synced", !.ready = "Available"],
                   [o EXCEPT !.fin = TRUE], [o EXCEPT !.ready = "BlockedByDependents"]}
  PROVE  /\ p \in Objects /\ p.deleting = o.deleting /\ p.refs = o.refs
         /\ p.id = o.id /\ p.exists = o.exists
<1>1. p \in Objects
  BY Updates
<1>2. p.deleting = o.deleting /\ p.refs = o.refs /\ p.id = o.id /\ p.exists = o.exists
  BY DEF Objects
<1> QED BY <1>1, <1>2

\* Every object lives so in every step.
LEMMA Lives ==
  ASSUME TypeOK, Unborn, Condemned, [Next]_vars, NEW x \in Names
  PROVE  Life(x)
<1>1. CASE api' = api /\ rewired' = rewired
  BY <1>1 DEF Life
<1>2. ASSUME NEW r \in Names, CyclicReference(r) \/ InvalidReferences(r) PROVE Life(x)
  <2>1. PICK reason \in {"CyclicReference", "InvalidReferences"} : Fails(r, reason)
    BY <1>2 DEF CyclicReference, InvalidReferences
  <2> DEFINE o == [api[r] EXCEPT !.fin = TRUE, !.synced = reason,
                                 !.ready = IF api[r].id THEN @ ELSE reason]
  <2>2. o \in Objects /\ Writes(r, o) /\ rewired' = rewired
    BY <1>2, <2>1, Updates
       DEF Fails, CyclicReference, InvalidReferences, Passing, Starts, TypeOK
  <2>3. o.deleting = api[r].deleting /\ o.refs = api[r].refs /\ o.id = api[r].id
        /\ o.exists = api[r].exists
    BY DEF TypeOK, Objects
  <2> HIDE DEF o
  <2> QED BY <2>2, <2>3, OneWrite
<1>3. ASSUME NEW r \in Names,
             WaitingForDependency(r) \/ Settled(r) \/ Create(r) \/ BlockedByDependents(r)
      PROVE  Life(x)
  <2>1. PICK o \in Objects :
          /\ Writes(r, o) /\ o.deleting = api[r].deleting /\ o.refs = api[r].refs
          /\ o.id = api[r].id /\ o.exists = api[r].exists
    <3>1. api[r] \in Objects
      BY DEF TypeOK
    <3>2. PICK o \in {[api[r] EXCEPT !.fin = TRUE, !.ready = "WaitingForDependency"],
                     [api[r] EXCEPT !.fin = TRUE, !.synced = "Synced", !.ready = "Available"],
                     [api[r] EXCEPT !.fin = TRUE], [api[r] EXCEPT !.ready = "BlockedByDependents"]} :
            Writes(r, o)
      BY <1>3, Zenon DEF WaitingForDependency, Settled, Create, BlockedByDependents
    <3> QED BY <3>1, <3>2, ConditionsOnly
  <2>2. rewired' = rewired
    BY <1>3 DEF WaitingForDependency, Settled, Create, BlockedByDependents, Passes, Passing,
       Terminating, Starts
  <2> QED BY <2>1, <2>2, OneWrite
<1>4. ASSUME NEW r \in Names, NothingToDelete(r) \/ Release(r) PROVE Life(x)
  <2>1. api[r].deleting /\ rewired' = rewired
    BY <1>4 DEF NothingToDelete, Terminating, Starts, Release, ghosts, Condemned, Removed
  <2>2. CASE Writes(r, [api[r] EXCEPT !.exists = FALSE])
    <3> DEFINE o == [api[r] EXCEPT !.exists = FALSE]
    <3>1. api[r] \in Objects
      BY DEF TypeOK
    <3>2. o.deleting = api[r].deleting /\ o.refs = api[r].refs /\ o.id = api[r].id /\ ~o.exists
      BY <3>1 DEF Objects
    <3>3. o \in Objects
      BY <3>1, Updates
    <3>4. Writes(r, o)
      BY <2>2
    <3> HIDE DEF o
    <3> QED BY <2>1, <3>2, <3>3, <3>4, OneWrite
  <2> QED BY <1>1, <1>4, <2>1, <2>2 DEF NothingToDelete, Release
<1>5. ASSUME NEW r \in Names, Record(r) PROVE Life(x)
  <2> DEFINE o == [api[r] EXCEPT !.id = TRUE, !.synced = "Synced", !.ready = "Available"]
  <2>1. o.deleting = api[r].deleting /\ o.refs = api[r].refs /\ o.exists = api[r].exists
    BY DEF TypeOK, Objects
  <2>2. o \in Objects
    BY Updates DEF TypeOK
  <2>3. Writes(r, o) /\ rewired' = rewired
    BY <1>5 DEF Record
  <2> HIDE DEF o
  <2> QED BY <1>5, <2>1, <2>2, <2>3, OneWrite
<1>6. ASSUME NEW r \in Names, User(r) PROVE Life(x)
  <2>1. api[r] \in Objects
    BY DEF TypeOK
  <2>2. CASE Apply(r)
    <3> DEFINE o == [api[r] EXCEPT !.exists = TRUE]
    <3>1. o.deleting = api[r].deleting /\ o.refs = api[r].refs
          /\ o.exists /\ o.id = api[r].id
      BY <2>1 DEF Objects
    <3>3. o \in Objects
      BY <2>1, Updates
    <3>2. Writes(r, o) /\ rewired' = rewired /\ ~api[r].deleting
      BY <2>2 DEF Apply
    <3> HIDE DEF o
    <3> QED BY <3>1, <3>2, <3>3, OneWrite
  <2>3. CASE RequestDelete(r)
    <3> DEFINE o == [api[r] EXCEPT !.deleting = TRUE, !.exists = api[r].fin]
    <3>1. o.deleting /\ o.refs = api[r].refs /\ o.id = api[r].id
      BY <2>1 DEF Objects
    <3>4. api[r].fin \in BOOLEAN
      BY <2>1 DEF Objects
    <3>3. o \in Objects
      BY <2>1, <3>4, Updates
    <3>2. Writes(r, o) /\ rewired' = rewired /\ api[r].exists
      BY <2>3 DEF RequestDelete
    <3> HIDE DEF o
    <3> QED BY <3>1, <3>2, <3>3, OneWrite
  <2>4. ASSUME NEW S \in SUBSET Names, EditReferences(r, S) PROVE Life(x)
    <3> DEFINE o == [api[r] EXCEPT !.refs = S]
    <3>1. o.deleting = api[r].deleting /\ o.id = api[r].id
          /\ o.exists = api[r].exists
      BY <2>1 DEF Objects
    <3>3. o \in Objects
      BY <2>1, Updates
    <3>2. Writes(r, o) /\ rewired'
      BY <2>4 DEF EditReferences
    <3> HIDE DEF o
    <3> QED BY <3>1, <3>2, <3>3, OneWrite
  <2> QED BY <1>1, <1>6, <2>2, <2>3, <2>4 DEF User, ToggleUsage
<1>7. ASSUME \/ \E r \in Names : Vanished(r) \/ Delete(r) \/ Operation(r)
             \/ CacheSync \/ UsageSync \/ UNCHANGED vars
      PROVE  api' = api /\ rewired' = rewired
  BY <1>7 DEF Vanished, Delete, Terminating, Starts, Operation, Provision, Destroy, CacheSync,
     UsageSync, vars, ghosts
<1> QED BY <1>1, <1>2, <1>3, <1>4, <1>5, <1>6, <1>7 DEF Next, Reconcile

\* What a step does to the rest: late only grows, the cache stays or catches
\* up, only the start of a delete adds to Removed, and a reconcile leaves idle
\* only for an object that exists.
LEMMA Moves ==
  ASSUME TypeOK, [Next]_vars
  PROVE  /\ late \subseteq late'
         /\ cache' = cache \/ (cache' = api /\ api' = api)
         /\ \A s \in Removed' : s \in Removed \/ (s \in Names /\ Delete(s))
         /\ \A x \in Names : pc[x] = "idle" /\ ~api[x].exists => pc'[x] = "idle"
<1> DEFINE Goal == /\ late \subseteq late'
                   /\ cache' = cache \/ (cache' = api /\ api' = api)
                   /\ \A s \in Removed' : s \in Removed \/ (s \in Names /\ Delete(s))
                   /\ \A x \in Names : pc[x] = "idle" /\ ~api[x].exists => pc'[x] = "idle"
<1>1. CASE CacheSync \/ UsageSync \/ UNCHANGED vars
  BY <1>1 DEF CacheSync, UsageSync, vars, watched, ghosts, Removed
<1>2. ASSUME NEW r \in Names, Reconcile(r) \/ InvalidReferences(r) \/ Operation(r) \/ User(r)
      PROVE  Goal
  <2>1. CASE Vanished(r) \/ NothingToDelete(r) \/ BlockedByDependents(r)
    BY <2>1 DEF Vanished, NothingToDelete, BlockedByDependents, Terminating, Starts, Done, Again,
       watched, Removed
  <2>2. CASE CyclicReference(r) \/ InvalidReferences(r)
    BY <2>2 DEF CyclicReference, InvalidReferences, Fails, Passing, Starts, Done, watched, Removed
  <2>3. CASE WaitingForDependency(r) \/ Settled(r)
    BY <2>3 DEF WaitingForDependency, Settled, Passes, Passing, Starts, Again, watched, Removed
  <2>4. CASE Create(r)
    BY <2>4 DEF Create, Passes, Passing, Starts, Operates, watched, Removed, TypeOK
  <2>5. CASE Delete(r)
    <3>1. /\ late \subseteq late' /\ cache' = cache /\ torn' = torn /\ api[r].exists
          /\ pc' = [pc EXCEPT ![r] = "delete"]
      BY <2>5 DEF Delete, Terminating, Starts, Operates, watched
    <3>2. \A s \in Removed' : s \in Removed \/ s = r
      BY <3>1 DEF Removed, TypeOK
    <3>3. \A x \in Names : pc[x] = "idle" /\ ~api[x].exists => pc'[x] = "idle"
      BY <3>1 DEF TypeOK
    <3> QED BY <2>5, <3>1, <3>2, <3>3
  <2>6. CASE Record(r) \/ Release(r)
    BY <2>6 DEF Record, Release, watched, ghosts, Removed, TypeOK
  <2>7. CASE Operation(r)
    BY <2>7 DEF Operation, Provision, Destroy, watched, ghosts, Removed, TypeOK
  <2>8. CASE User(r)
    <3>1. UserActs
      BY <2>8 DEF User, Apply, RequestDelete, ToggleUsage, EditReferences
    <3> QED BY <3>1 DEF UserActs, watched, Removed
  <2> QED BY <1>2, <2>1, <2>2, <2>3, <2>4, <2>5, <2>6, <2>7, <2>8 DEF Reconcile
<1> QED BY <1>1, <1>2 DEF Next

\* A delete starts only when each recorded dependent that it does not make
\* late yields to it: the two reference each other and its name is the greater.
LEMMA StartOrdered ==
  ASSUME TypeOK, Steady, Overtaken, ~rewired, NEW s \in Names, Delete(s),
         NEW d \in dependentsOf(api, s) \ late', api[d].id
  PROVE  s > d /\ Connects(s, d)
<1>1. late' = late \cup {e \in dependentsOf(api, s) : ~cache[e].exists}
  BY DEF Delete
<1>2. d \in Names \ {s} /\ s \in api[d].refs /\ d \notin late /\ cache[d].exists
  BY <1>1 DEF dependentsOf, refsOf
<1>3. d \in dependentsOf(cache, s)
  BY <1>2 DEF dependentsOf, refsOf, Steady
<1>4. blockingDependents(s) = {}
  BY DEF Delete, Blocked
<1>5. cache[d].deleting /\ (~cache[d].id \/ (reaches(s, d) /\ s > d))
  BY <1>3, <1>4 DEF blockingDependents
<1>6. reaches(s, d) /\ s > d
  BY <1>2, <1>5 DEF Overtaken
<1> QED BY <1>2, <1>6, ReachesConnects DEF Steady

\* The first states are in order: nothing has been removed.
LEMMA OrderInit == Init => OrderInv
<1> SUFFICES ASSUME Init PROVE OrderInv
  OBVIOUS
<1>1. PICK g \in Graphs, B \in Born, L \in Lates :
        api = [r \in Names |-> IF r \in B THEN OldObject(g[r])
                  ELSE [NewObject(g[r]) EXCEPT !.exists = r \notin L]]
  BY DEF Init
<1>2. ASSUME NEW r \in Names PROVE /\ ~api[r].deleting
                                   /\ ~api[r].exists => ~api[r].id
  BY <1>1 DEF OldObject, NewObject
<1>3. cache = api /\ Removed = {} /\ \A r \in Names : pc[r] = "idle"
  BY DEF Init, Removed
<1> QED BY <1>2, <1>3 DEF OrderInv, Steady, Unborn, Condemned, Aged, Overtaken, Ordered

\* Every step keeps the order.
LEMMA OrderStep ==
  ASSUME TypeOK, TypeOK', OrderInv, [Next]_vars
  PROVE  OrderInv'
<1>1. Steady /\ Unborn /\ Condemned /\ Aged /\ Overtaken /\ Ordered
  BY DEF OrderInv
<1>2. \A x \in Names : Life(x)
  BY <1>1, Lives
<1>3. /\ late \subseteq late'
      /\ cache' = cache \/ (cache' = api /\ api' = api)
      /\ \A s \in Removed' : s \in Removed \/ (s \in Names /\ Delete(s))
      /\ \A x \in Names : pc[x] = "idle" /\ ~api[x].exists => pc'[x] = "idle"
  BY Moves
<1>4. Removed \subseteq Names /\ Removed' \subseteq Names
  BY DEF Removed, TypeOK
<1>5. Steady'
  BY <1>1, <1>2, <1>3 DEF Steady, Life
<1>6. Unborn'
  <2> SUFFICES ASSUME NEW x \in Names, ~api'[x].exists, ~api'[x].deleting
               PROVE  ~api'[x].id /\ pc'[x] = "idle"
    BY DEF Unborn
  <2>1. ~api[x].exists /\ ~api[x].deleting
    BY <1>2 DEF Life
  <2>2. ~api[x].id /\ pc[x] = "idle"
    BY <1>1, <2>1 DEF Unborn
  <2>3. ~Record(x)
    BY <2>2 DEF Record
  <2> QED BY <1>2, <1>3, <2>1, <2>2, <2>3 DEF Life
<1>7. Condemned'
  <2> SUFFICES ASSUME NEW s \in Removed' PROVE api'[s].deleting
    BY DEF Condemned
  <2>1. api[s].deleting
    BY <1>1, <1>3 DEF Condemned, Delete, Terminating
  <2> QED BY <1>2, <1>4, <2>1 DEF Life
<1>8. Aged'
  BY <1>1, <1>2, <1>3 DEF Aged, Life
<1>9. ASSUME NEW d \in Names, Record(d), Doomed(d) PROVE d \in late'
  BY <1>9 DEF Record
<1>10. Overtaken'
  <2> SUFFICES ASSUME NEW d \in Names, cache'[d].deleting, ~cache'[d].id, api'[d].id
               PROVE  d \in late'
    BY DEF Overtaken
  <2>1. cache' = cache
    BY <1>3
  <2>2. CASE api[d].id
    BY <1>1, <1>3, <2>1, <2>2 DEF Overtaken
  <2>3. CASE Record(d)
    BY <1>1, <1>9, <2>1, <2>3 DEF Aged, Doomed
  <2> QED BY <1>2, <2>2, <2>3 DEF Life
<1>11. Ordered'
  <2> SUFFICES ASSUME ~rewired', NEW s \in Removed', NEW d \in dependentsOf(api', s) \ late',
                      api'[d].id
               PROVE  s > d /\ Connects(s, d)'
    BY DEF Ordered
  <2>1. ~rewired /\ \A x \in Names : api'[x].refs = api[x].refs
    BY <1>2, <1>4 DEF Life
  <2>2. s \in Names /\ d \in Names \ {s} /\ s \in api[d].refs /\ api'[d].exists /\ d \notin late
    BY <1>3, <1>4, <2>1 DEF dependentsOf, refsOf
  <2>3. CASE Delete(s)
    <3>1. api' = api
      BY <2>3 DEF Delete
    <3>2. s > d /\ Connects(s, d)
      BY <1>1, <2>1, <2>2, <2>3, <3>1, StartOrdered
    <3> QED BY <2>1, <2>2, <3>2, ConnectsKept
  <2>4. CASE s \in Removed
    <3>1. ~Record(d)
      BY <1>1, <1>9, <2>2, <2>4 DEF Condemned, Doomed
    <3>2. api[d].id
      BY <1>2, <2>2, <3>1 DEF Life
    <3>3. api[d].exists
      BY <1>1, <1>2, <2>2, <3>2 DEF Life, Unborn
    <3>4. d \in dependentsOf(api, s)
      BY <2>2, <3>3 DEF dependentsOf, refsOf
    <3>5. s > d /\ Connects(s, d)
      BY <1>1, <2>1, <2>2, <2>4, <3>2, <3>4 DEF Ordered
    <3> QED BY <2>1, <2>2, <3>5, ConnectsKept
  <2> QED BY <1>3, <2>3, <2>4
<1> QED BY <1>5, <1>6, <1>7, <1>8, <1>10, <1>11 DEF OrderInv

\* Reverse-topological deletion: the teardown order that blockingDependents
\* decides from a lagging cache holds on the API server, for any graph and
\* any number of resources, with the exceptions DependentsGoFirst names.
THEOREM OrderTheorem == Spec => []DependentsGoFirst
<1>1. Init => TypeOK /\ OrderInv
  BY TypeInit, OrderInit
<1>2. (TypeOK /\ OrderInv) /\ [Next]_vars => (TypeOK /\ OrderInv)'
  BY TypeStep, OrderStep
<1>3. TypeOK /\ OrderInv => DependentsGoFirst
  BY DEF OrderInv, Ordered, Removed, DependentsGoFirst
<1> QED BY <1>1, <1>2, <1>3, PTL DEF Spec
=============================================================================
