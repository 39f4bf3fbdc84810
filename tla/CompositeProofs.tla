-------------------------- MODULE CompositeProofs --------------------------
(* Proofs about Composite for any composites, definitions, templates,      *)
(* children, history limit above one and number of edits and faults.       *)
EXTENDS Composite, FiniteSetTheorems, WellFoundedInduction, TLAPS

-----------------------------------------------------------------------------
(* Revision numbers.  Newest is defined by CHOOSE: that there is a highest    *)
(* number at all follows from the well-foundedness of the naturals.           *)

Less == {p \in Nat \X Nat : p[1] < p[2]}

\* A nonempty set of naturals has a least element.
LEMMA LeastNumber ==
  ASSUME NEW T, T \subseteq Nat, T # {}
  PROVE  \E x \in T : \A y \in T : x <= y
<1>1. IsWellFoundedOn(Less, Nat)
  <2>1. OpToRel(<, Nat) = Less
    BY Zenon DEF OpToRel, Less
  <2> QED BY <2>1, NatLessThanWellFounded, Zenon
<1>2. PICK x \in T : \A y \in T : ~(<<y, x>> \in Less)
  BY <1>1, WFMin, Zenon
<1>3. ASSUME NEW y \in T PROVE x <= y
  <2>1. <<y, x>> \in Nat \X Nat /\ ~(<<y, x>> \in Less)
    BY <1>2
  <2>2. ~(<<y, x>>[1] < <<y, x>>[2])
    BY <2>1, Zenon DEF Less
  <2> QED BY <2>2
<1> QED BY <1>3

\* A nonempty set of naturals up to m has a greatest element.
LEMMA GreatestNumber ==
  ASSUME NEW m \in Nat, NEW T, T \subseteq 0..m, T # {}
  PROVE  \E x \in T : \A y \in T : y <= x
<1> DEFINE U == {z \in Nat : m - z \in T}
<1>1. PICK z \in U : \A y \in U : z <= y
  <2>1. PICK x \in T : TRUE
    OBVIOUS
  <2>2. m - x \in U
    BY <2>1
  <2> HIDE DEF U
  <2> QED BY <2>2, LeastNumber DEF U
<1>2. m - z \in T /\ \A y \in T : y <= m - z
  BY <1>1
<1> QED BY <1>2

\* Newest returns the highest number in use, 0 if there is none.
LEMMA NewestIsHighest ==
  ASSUME NEW r \in [Revs -> AnyDef]
  PROVE  /\ Newest(r) \in 0..MaxRevs
         /\ Newest(r) # 0 => r[Newest(r)] # NoDef
         /\ \A v \in Revs : r[v] # NoDef => v <= Newest(r)
<1> DEFINE T == {0} \cup {v \in Revs : r[v] # NoDef}
<1>1. PICK x \in T : \A y \in T : y <= x
  <2>1. MaxRevs \in Nat /\ T \subseteq 0..MaxRevs /\ T # {}
    BY CompositeAssumption DEF Revs
  <2> HIDE DEF T
  <2> QED BY <2>1, GreatestNumber
<1>2. x \in 0..MaxRevs /\ (x = 0 \/ r[x] # NoDef) /\ \A y \in Revs : r[y] # NoDef => y <= x
  BY <1>1, CompositeAssumption DEF Revs
<1> QED BY <1>2, Zenon DEF Newest

-----------------------------------------------------------------------------
(* The invariant of the revisions.  Newer revisions are numbered from the     *)
(* cached list, which lags: at most one number is in use that the cache has   *)
(* not shown, and the newest one it shows is never pruned, because at least   *)
(* two revisions are kept.  So the revision a worker resolved to exists       *)
(* until it is recorded, and what it renders is the snapshot of that number.  *)

Busy == w.pc # "idle"
Rendering == w.pc \in {"apply", "write", "cull"}

\* What the worker has in its locals, phase by phase.
Locals ==
  /\ w.drop # {} => w.pc = "resolve"
  /\ w.child # {} => w.pc = "write"
  /\ w.pc = "revise" => w.def \in Defs
  /\ Busy => w.comp.rev = comps[w.c].rev

Numbered ==
  /\ Newest(rcache) # 0 => revs[Newest(rcache)] # NoDef
  /\ \A v \in Revs : revs[v] # NoDef => v <= Newest(rcache) + 1
  /\ \A v \in Revs : rcache[v] # NoDef => revs[v] \in {NoDef, rcache[v]}

Latest ==
  w.pc \in {"prune", "resolve"} =>
    /\ w.latest \in Revs /\ revs[w.latest] # NoDef
    /\ w.latest <= Newest(rcache) + 1
    /\ \A v \in w.drop : v <= w.latest - HistoryLimit

Spared == \A c \in Comps : comps[c].alive => comps[c].rev \notin w.drop

Chosen ==
  Rendering => /\ w.rev \in Revs /\ revs[w.rev] # NoDef
               /\ w.def = revs[w.rev]
               /\ Pinned # 0 => w.rev = Pinned

RevisionInv == Locals /\ Numbered /\ Latest /\ Spared /\ Chosen /\ RecordedRevisionSurvives
Inv == TypeOK /\ RevisionInv

\* A reconcile that ends in a failure condition, whatever the reason.
Fails == \E r \in Reasons : markCompositeFailed(r)

\* The disjuncts of Next by what they do to the worker and its revisions.
LEMMA StepKinds ==
  ASSUME Next
  PROVE  \/ \E c \in Comps : Get(c)
         \/ Fails /\ Busy /\ faults' \in {faults, faults + 1}
         \/ Retry /\ Busy /\ faults' \in {faults, faults + 1}
         \/ GetDefinition \/ UseLatestRevision \/ CreateRevision
         \/ PruneRevisions \/ (\E v \in Revs : DeleteRevision(v))
         \/ RenderComposite
         \/ \E n \in Names : \/ ReplaceChild(n) \/ CheckChild(n) \/ CreateChild(n)
                             \/ UpdateChild(n) \/ PruneChild(n)
         \/ ListChildren \/ WriteStatus
         \/ PruningFails \/ Crash \/ KidSync \/ RevSync \/ Kubernetes \/ User
<1> USE DEF Fails, Reasons, Busy
<1>1. CASE Reconcile
  BY <1>1, Zenon DEF Reconcile, DefinitionNotFound, RevisionNotFound, RevisionInvalid, RenderFailed,
    NameCollides, UpdateConflicts, ApplyFailed, OutputsFailed, Resolves, Resolving, Applying, Writing
<1>2. CASE Disturbed
  BY <1>2, Zenon DEF Disturbed, CallFails, WriteFails, Fault, Resolving
<1> QED BY <1>1, <1>2 DEF Next

-----------------------------------------------------------------------------
(* Types. *)

\* What a worker starts from, and what the children written have.
LEMMA Constructors ==
  /\ Idle \in Workers /\ NewComposite \in Composites
  /\ Absent \in Kids /\ Foreign \in Kids
  /\ \A k \in Kids : k # Absent <=> k.owner # "nobody"
<1> USE CompositeAssumption
<1>1. (CHOOSE c \in Comps : TRUE) \in Comps
  OBVIOUS
<1>2. NewComposite \in Composites
  BY DEF NewComposite, Composites, Reasons
<1>3. Idle \in Workers
  BY <1>1, <1>2 DEF Idle, Workers, AnyDef
<1>4. Absent \in Kids /\ Foreign \in Kids
  BY DEF Kids, Absent, Foreign, AnySpec
<1>5. \A k \in Kids : k # Absent <=> k.owner # "nobody"
  BY DEF Kids, Absent
<1> QED BY <1>2, <1>3, <1>4, <1>5

\* The updates of records that keep their types.
LEMMA Updates ==
  /\ \A c \in Comps : c # "nobody" /\ c # "foreign"
  /\ \A k \in Kids : k # Absent => /\ [k EXCEPT !.deleting = TRUE] \in Kids
                                  /\ [k EXCEPT !.ready = TRUE] \in Kids
  /\ \A k \in Kids, c \in Comps, s \in AnySpec :
       k # Absent => [k EXCEPT !.owner = c, !.spec = s] \in Kids
  /\ \A o \in Composites : /\ \A v \in -1..MaxRevs : [o EXCEPT !.ref = v] \in Composites
                           /\ \A m \in BOOLEAN : [o EXCEPT !.manual = m] \in Composites
                           /\ [o EXCEPT !.alive = FALSE] \in Composites
<1>1. \A c \in Comps : c # "nobody" /\ c # "foreign"
  BY CompositeAssumption
<1>2. \A k \in Kids : k # Absent => /\ [k EXCEPT !.deleting = TRUE] \in Kids
                                  /\ [k EXCEPT !.ready = TRUE] \in Kids
  BY DEF Kids
<1>3. \A k \in Kids, c \in Comps, s \in AnySpec :
       k # Absent => [k EXCEPT !.owner = c, !.spec = s] \in Kids
  BY DEF Kids
<1>4. ASSUME NEW o \in Composites
      PROVE  /\ \A v \in -1..MaxRevs : [o EXCEPT !.ref = v] \in Composites
             /\ \A m \in BOOLEAN : [o EXCEPT !.manual = m] \in Composites
             /\ [o EXCEPT !.alive = FALSE] \in Composites
  BY DEF Composites
<1> QED BY <1>1, <1>2, <1>3, <1>4

\* The invariant holds when the manager starts on a definition without
\* revisions.
LEMMA InvInit == Init => Inv
<1> SUFFICES ASSUME Init PROVE Inv
  OBVIOUS
<1> USE CompositeAssumption, Constructors
<1>1. TypeOK
  <2>1. comps \in [Comps -> Composites]
    <3>1. \A m \in Policies : [NewComposite EXCEPT !.manual = m] \in Composites
      BY Updates
    <3> QED BY <3>1 DEF Init
  <2>2. kids \in [Names -> Kids]
    BY DEF Init
  <2> QED BY <2>1, <2>2 DEF Init, TypeOK, AnyDef
<1>2. w.pc = "idle" /\ w.drop = {} /\ w.child = {}
  BY DEF Init, Idle
<1>3. Newest(rcache) = 0
  <2>1. rcache \in [Revs -> AnyDef] /\ \A v \in Revs : rcache[v] = NoDef
    BY <1>1 DEF Init, TypeOK
  <2>2. Newest(rcache) \in 0..MaxRevs /\ (Newest(rcache) # 0 => rcache[Newest(rcache)] # NoDef)
    BY <2>1, NewestIsHighest
  <2> QED BY <2>1, <2>2 DEF Revs
<1>4. \A c \in Comps : comps[c].rev = 0
  BY DEF Init, NewComposite
<1>5. Locals /\ Latest /\ Spared /\ Chosen
  BY <1>2 DEF Locals, Latest, Spared, Chosen, Busy, Rendering
<1>6. Numbered /\ RecordedRevisionSurvives
  BY <1>3, <1>4 DEF Init, Numbered, RecordedRevisionSurvives
<1> QED BY <1>1, <1>5, <1>6 DEF Inv, RevisionInv

\* Every step of the worker, the users and Kubernetes preserves the types;
\* what a child is rendered from is a spec of the definition.
LEMMA TypeNext == Inv /\ [Next]_vars => TypeOK'
<1> SUFFICES ASSUME Inv, [Next]_vars PROVE TypeOK'
  OBVIOUS
<1>0. TypeOK /\ Locals /\ Latest /\ Chosen
  BY DEF Inv, RevisionInv
<1>1. ASSUME NEW c \in Comps, Get(c) PROVE TypeOK'
  <2>1. w' \in Workers
    BY <1>0, <1>1, Constructors DEF Get, TypeOK, Workers, Idle
  <2> QED BY <1>0, <1>1, <2>1 DEF Get, TypeOK, api, caches, bounds
<1>2. ASSUME Fails, faults' \in {faults, faults + 1} PROVE TypeOK'
  <2>1. PICK r \in Reasons : markCompositeFailed(r)
    BY <1>2 DEF Fails
  <2>2. comps' \in [Comps -> Composites]
    <3>1. w.c \in Comps /\ comps[w.c] \in Composites /\ w.comp.rev \in 0..MaxRevs
      BY <1>0 DEF TypeOK, Workers, Composites
    <3>2. [comps[w.c] EXCEPT !.rev = w.comp.rev, !.synced = r, !.ready = "Failed"] \in Composites
      BY <3>1 DEF Composites
    <3> QED BY <1>0, <2>1, <3>1, <3>2 DEF markCompositeFailed, persistCompositeStatus, TypeOK
  <2> QED BY <1>0, <1>2, <2>1, <2>2, Constructors DEF markCompositeFailed, persistCompositeStatus, Return,
        TypeOK, Workers, caches
<1>3. ASSUME Retry, faults' \in {faults, faults + 1} PROVE TypeOK'
  BY <1>0, <1>3, Constructors DEF Retry, Return, TypeOK, Workers, api, caches
<1>4. CASE GetDefinition
  <2>1. usage' \in Nat
    BY <1>4, CompositeAssumption, FS_Subset, FS_CardinalityType DEF GetDefinition
  <2>2. w' \in Workers
    BY <1>0, <1>4 DEF GetDefinition, TypeOK, Workers
  <2> QED BY <1>0, <1>4, <2>1, <2>2 DEF GetDefinition, TypeOK, caches, bounds, ghosts, mapDefinition
<1>5. CASE UseLatestRevision
  <2>1. w' \in Workers
    BY <1>0, <1>5, NewestIsHighest DEF UseLatestRevision, Reads, TypeOK, Workers
  <2> QED BY <1>0, <1>5, <2>1 DEF UseLatestRevision, Reads, TypeOK, api, caches, bounds
<1>6. CASE CreateRevision
  <2>1. Newest(rcache) \in 0..MaxRevs
    BY <1>0, NewestIsHighest DEF TypeOK
  <2>2. Newest(rcache) + 1 \in Revs /\ Newest(rcache) + 1 \in 0..MaxRevs
    BY <1>6, <2>1 DEF CreateRevision, Revs
  <2>3. w' \in Workers
    BY <1>0, <1>6, <2>2 DEF CreateRevision, TypeOK, Workers
  <2>4. revs' \in [Revs -> AnyDef] /\ w.c \in Comps
    BY <1>0, <1>6, <2>2 DEF CreateRevision, TypeOK, Workers
  <2> QED BY <1>0, <1>6, <2>3, <2>4 DEF CreateRevision, TypeOK, caches, bounds
<1>7. CASE PruneRevisions
  <2>1. w' \in Workers
    BY <1>0, <1>7 DEF PruneRevisions, Reads, TypeOK, Workers, Prunable, Old
  <2> QED BY <1>0, <1>7, <2>1 DEF PruneRevisions, Reads, TypeOK, api, caches, bounds, ghosts
<1>8. ASSUME NEW v \in Revs, DeleteRevision(v) PROVE TypeOK'
  <2>1. w' \in Workers /\ revs' \in [Revs -> AnyDef]
    BY <1>0, <1>8 DEF DeleteRevision, TypeOK, Workers, AnyDef
  <2> QED BY <1>0, <1>8, <2>1 DEF DeleteRevision, TypeOK, caches, bounds, ghosts
<1>9. CASE RenderComposite
  <2>0. Resolved \in Revs /\ Wanted(w.c, Snapshot) \in SUBSET Names
    BY <1>9 DEF RenderComposite, Resolves, Wanted
  <2>1. Snapshot \in AnyDef
    BY <1>0, <2>0 DEF Snapshot, TypeOK
  <2>2. w' \in Workers
    <3>1. Resolved \in 0..MaxRevs
      BY <2>0 DEF Revs
    <3> QED BY <1>0, <1>9, <2>0, <2>1, <3>1 DEF RenderComposite, Reads, TypeOK, Workers
  <2> QED BY <1>0, <1>9, <2>2 DEF RenderComposite, Reads, TypeOK, api, caches, bounds, ghosts
<1>10. ASSUME NEW n \in Names, ReplaceChild(n) PROVE TypeOK'
  <2>1. w' \in Workers
    BY <1>0, <1>10 DEF ReplaceChild, TypeOK, Workers
  <2>2. kids' \in [Names -> Kids]
    <3>1. kids[n] \in Kids /\ kids[n] # Absent
      BY <1>0, <1>10, Updates, Constructors DEF ReplaceChild, TypeOK, Workers
    <3>2. [kids[n] EXCEPT !.deleting = TRUE] \in Kids
      BY <3>1, Updates
    <3> QED BY <1>0, <1>10, <3>2 DEF ReplaceChild, TypeOK
  <2> QED BY <1>0, <1>10, <2>1, <2>2 DEF ReplaceChild, TypeOK, caches, bounds, ghosts
<1>11. ASSUME NEW n \in Names, CheckChild(n) PROVE TypeOK'
  <2>1. w' \in Workers
    BY <1>0, <1>11 DEF CheckChild, Reads, TypeOK, Workers
  <2> QED BY <1>0, <1>11, <2>1 DEF CheckChild, Reads, TypeOK, api, caches, bounds, ghosts
<1>12. ASSUME NEW n \in Names, CreateChild(n) \/ UpdateChild(n) PROVE TypeOK'
  <2>1. Desired(n) \in AnySpec
    BY <1>0, <1>12, CompositeAssumption DEF CreateChild, UpdateChild, Writing, Chosen, Rendering, Desired, TypeOK,
      Workers, AnyDef
  <2>2. NewChild(n) \in Kids /\ NewChild(n).ready \in BOOLEAN
    BY <1>0, <2>1 DEF NewChild, Kids, TypeOK, Workers
  <2>3. Ownable(n) => Merged(n) \in Kids /\ Merged(n).ready \in BOOLEAN
    <3>1. kcache[n] \in Kids /\ w.c \in Comps
      BY <1>0 DEF TypeOK, Workers
    <3>2. Ownable(n) => Merged(n) \in Kids /\ Merged(n).owner # "nobody"
      <4> SUFFICES ASSUME Ownable(n) PROVE Merged(n) \in Kids /\ Merged(n).owner # "nobody"
        OBVIOUS
      <4>1. kcache[n] # Absent
        BY DEF Ownable
      <4>2. [kcache[n] EXCEPT !.owner = w.c, !.spec = Desired(n)].owner = w.c
        BY <3>1, <4>1 DEF Kids
      <4> QED BY <2>1, <3>1, <4>1, <4>2, Updates DEF Merged
    <3> QED BY <3>2 DEF Kids, Absent
  <2>4. kids' \in [Names -> Kids]
    BY <1>0, <1>12, <2>2, <2>3 DEF CreateChild, UpdateChild, TypeOK
  <2>5. PICK k : Applied(n, k) /\ k.ready \in BOOLEAN
    BY <1>12, <2>2, <2>3 DEF CreateChild, UpdateChild
  <2>6. w' \in Workers
    BY <1>0, <2>5 DEF Applied, TypeOK, Workers
  <2> QED BY <1>0, <2>4, <2>5, <2>6 DEF Applied, TypeOK, caches, bounds
<1>13. ASSUME NEW n \in Names, PruneChild(n) PROVE TypeOK'
  <2>1. w' \in Workers
    BY <1>0, <1>13 DEF PruneChild, TypeOK, Workers
  <2>2. kids' \in [Names -> Kids]
    <3>1. kids[n] # Absent => [kids[n] EXCEPT !.deleting = TRUE] \in Kids
      BY <1>0, Updates DEF TypeOK
    <3> QED BY <1>0, <1>13, <3>1 DEF PruneChild, DeleteByName, TypeOK
  <2> QED BY <1>0, <1>13, <2>1, <2>2 DEF PruneChild, TypeOK, caches, bounds
<1>14. CASE ListChildren
  <2>1. w' \in Workers
    BY <1>0, <1>14 DEF ListChildren, Reads, TypeOK, Workers, Superfluous
  <2> QED BY <1>0, <1>14, <2>1 DEF ListChildren, Reads, TypeOK, api, caches, bounds, ghosts
<1>15. CASE WriteStatus
  <2>1. comps' \in [Comps -> Composites]
    <3>1. setCompositeReadiness \in {"ReplacingChildren", "ChildrenNotReady", "Available"}
      BY DEF setCompositeReadiness
    <3>2. "Synced" \in Reasons /\ w.rev \in 0..MaxRevs
      BY <1>0 DEF Reasons, TypeOK, Workers
    <3>3. w.c \in Comps /\ comps[w.c] \in Composites
      BY <1>0 DEF TypeOK, Workers
    <3>4. [comps[w.c] EXCEPT !.rev = w.rev, !.synced = "Synced", !.ready = setCompositeReadiness]
            \in Composites
      BY <3>1, <3>2, <3>3 DEF Composites
    <3> QED BY <1>0, <1>15, <3>3, <3>4 DEF WriteStatus, persistCompositeStatus, TypeOK
  <2> QED BY <1>0, <1>15, <2>1, Constructors DEF WriteStatus, persistCompositeStatus, Return, TypeOK, Workers, caches
<1>16. CASE PruningFails
  <2>1. w' \in Workers
    <3>1. CASE w' = [w EXCEPT !.pc = "resolve"]
      BY <1>0, <3>1 DEF TypeOK, Workers
    <3>2. ASSUME NEW v \in w.drop, w' = [w EXCEPT !.drop = @ \ {v}] PROVE w' \in Workers
      BY <1>0, <3>2 DEF TypeOK, Workers
    <3> QED BY <1>16, <3>1, <3>2 DEF PruningFails
  <2> QED BY <1>0, <1>16, <2>1 DEF PruningFails, Fault, TypeOK, api, caches, ghosts
<1>17. CASE Crash
  BY <1>0, <1>17, Constructors DEF Crash, Fault, Return, TypeOK, api
<1>18. CASE KidSync \/ RevSync
  BY <1>0, <1>18 DEF KidSync, RevSync, OwnersOfChanged, TypeOK, api, bounds, ghosts
<1>19. CASE Kubernetes
  <2>1. PICK n \in Names : KidReady(n) \/ KidGone(n) \/ CollectGarbage(n)
    BY <1>19 DEF Kubernetes
  <2>2. kids' \in [Names -> Kids]
    <3>1. kids[n] # Absent => /\ [kids[n] EXCEPT !.deleting = TRUE] \in Kids
                              /\ [kids[n] EXCEPT !.ready = TRUE] \in Kids
      BY <1>0, Updates DEF TypeOK
    <3>2. kids[n].owner \in Comps => kids[n] # Absent
      BY <1>0, Updates, Constructors DEF TypeOK
    <3>3. PICK k \in Kids : KidChanges(n, k)
      BY <2>1, <3>1, <3>2, Constructors DEF KidReady, KidGone, CollectGarbage
    <3> QED BY <1>0, <3>3 DEF KidChanges, TypeOK
  <2> QED BY <1>0, <2>1, <2>2 DEF KidReady, KidGone, CollectGarbage, KidChanges, TypeOK, bounds
<1>20. CASE User
  <2>1. def' \in AnyDef /\ queued' \subseteq Comps
    BY <1>0, <1>20 DEF User, EditDefinition, SetPolicy, DeleteComposite, SetRevisionRef, UserWrites,
      DeleteResource, CreateForeign, TypeOK, AnyDef, mapDefinition
  <2>2. comps' \in [Comps -> Composites]
    <3>1. ASSUME NEW c \in Comps,
                 SetPolicy(c) \/ DeleteComposite(c) \/ \E v \in Pins : SetRevisionRef(c, v)
          PROVE  comps' \in [Comps -> Composites]
      <4>1. PICK o : UserWrites(c, o) /\ o \in Composites
        <5>1. comps[c] \in Composites /\ (~comps[c].manual) \in BOOLEAN
          BY <1>0 DEF TypeOK, Composites
        <5>2. [comps[c] EXCEPT !.manual = ~@] \in Composites
          BY <5>1 DEF Composites
        <5>3. Pins \subseteq -1..MaxRevs
          BY CompositeAssumption
        <5> QED BY <3>1, <5>1, <5>2, <5>3, Updates, Zenon
              DEF SetPolicy, DeleteComposite, SetRevisionRef
      <4> QED BY <1>0, <4>1 DEF UserWrites, TypeOK
    <3> QED BY <1>0, <1>20, <3>1 DEF User, EditDefinition, DeleteResource, CreateForeign, TypeOK
  <2>3. kids' \in [Names -> Kids]
    <3>1. ASSUME NEW n \in Names, DeleteResource(n) PROVE kids' \in [Names -> Kids]
      <4>1. [kids[n] EXCEPT !.deleting = TRUE] \in Kids
        BY <1>0, <3>1, Updates DEF DeleteResource, TypeOK
      <4> QED BY <1>0, <3>1, <4>1 DEF DeleteResource, TypeOK
    <3> QED BY <1>0, <1>20, <3>1, Constructors DEF User, EditDefinition, SetPolicy, DeleteComposite,
          SetRevisionRef, UserWrites, CreateForeign, TypeOK
  <2>4. UserActs
    BY <1>20 DEF User, EditDefinition, SetPolicy, DeleteComposite, SetRevisionRef, UserWrites,
      DeleteResource, CreateForeign
  <2> QED BY <1>0, <2>1, <2>2, <2>3, <2>4 DEF UserActs, TypeOK, caches, ghosts
<1>21. CASE UNCHANGED vars
  BY <1>0, <1>21 DEF vars, api, caches, bounds, ghosts, TypeOK
<1> QED BY <1>1, <1>2, <1>3, <1>4, <1>5, <1>6, <1>7, <1>8, <1>9, <1>10, <1>11, <1>12, <1>13,
       <1>14, <1>15, <1>16, <1>17, <1>18, <1>19, <1>20, <1>21, StepKinds

-----------------------------------------------------------------------------
(* The revisions. *)

\* Whoever leaves the revisions, the worker and what is recorded alone
\* preserves the invariant; deleted composites do not matter.
LEMMA Undisturbed ==
  ASSUME Inv, TypeOK', UNCHANGED <<revs, rcache, w>>,
         \A c \in Comps : comps'[c].rev = comps[c].rev /\ (comps'[c].alive => comps[c].alive)
  PROVE  RevisionInv'
<1>0. TypeOK /\ RevisionInv /\ w.c \in Comps
  BY DEF Inv, TypeOK, Workers
<1>1. Locals'
  BY <1>0 DEF RevisionInv, Locals, Busy
<1>2. Numbered'
  BY <1>0 DEF RevisionInv, Numbered
<1>3. Latest' /\ Chosen'
  BY <1>0 DEF RevisionInv, Latest, Chosen, Rendering, Pinned
<1>4. Spared' /\ RecordedRevisionSurvives'
  BY <1>0 DEF RevisionInv, Spared, RecordedRevisionSurvives
<1> QED BY <1>1, <1>2, <1>3, <1>4 DEF RevisionInv

\* A worker that returns leaves the revisions of a running reconcile behind.
LEMMA Returned ==
  ASSUME w' = Idle, Numbered', RecordedRevisionSurvives'
  PROVE  RevisionInv'
<1>1. w'.pc = "idle" /\ w'.drop = {} /\ w'.child = {}
  BY DEF Idle
<1> QED BY <1>1 DEF RevisionInv, Locals, Latest, Spared, Chosen, Busy, Rendering

\* An outcome of the worker that writes status: v is recorded for its composite.
LEMMA Recorded ==
  ASSUME Inv, NEW v, NEW synced, NEW ready, NEW again,
         persistCompositeStatus(v, synced, ready, again),
         comps[w.c].alive /\ v # 0 => revs[v] # NoDef
  PROVE  RevisionInv'
<1>1. Numbered'
  BY DEF Inv, RevisionInv, Numbered, persistCompositeStatus, caches
<1>2. \A c \in Comps : comps'[c] = comps[c] \/ (comps'[c].rev = v /\ comps[w.c].alive)
  BY DEF Inv, TypeOK, Composites, persistCompositeStatus
<1>3. \A c \in Comps : comps'[c].alive => comps[c].alive
  BY DEF Inv, TypeOK, Composites, persistCompositeStatus
<1>4. RecordedRevisionSurvives'
  BY <1>2, <1>3 DEF Inv, RevisionInv, RecordedRevisionSurvives, persistCompositeStatus
<1> QED BY <1>1, <1>4, Returned DEF persistCompositeStatus, Return

\* Between two steps of rendering the worker keeps what it resolved.
LEMMA StaysRendering ==
  ASSUME Inv, Rendering, Rendering', UNCHANGED <<revs, rcache, comps>>,
         w'.c = w.c, w'.comp = w.comp, w'.rev = w.rev, w'.def = w.def, w'.drop = w.drop,
         w'.child # {} => w'.pc = "write"
  PROVE  RevisionInv'
<1> USE DEF Inv, RevisionInv, Rendering
<1>1. w.drop = {} /\ Pinned' = Pinned
  BY DEF Locals, Pinned
<1>2. Locals' /\ Latest' /\ Spared'
  BY <1>1 DEF Locals, Latest, Spared, Busy
<1>3. Numbered' /\ RecordedRevisionSurvives' /\ Chosen'
  BY <1>1 DEF Numbered, RecordedRevisionSurvives, Chosen
<1> QED BY <1>2, <1>3

\* After a list the cache has every revision there is.
LEMMA CacheShowsAll ==
  ASSUME TypeOK, rcache' = revs, revs' = revs
  PROVE  Numbered'
<1>1. /\ Newest(revs) \in 0..MaxRevs
      /\ Newest(revs) # 0 => revs[Newest(revs)] # NoDef
      /\ \A v \in Revs : revs[v] # NoDef => v <= Newest(revs)
  BY NewestIsHighest DEF TypeOK
<1> QED BY <1>1 DEF Numbered, Revs

\* The invariant of the revisions is inductive: numbers are given from the
\* cache, pruning spares what is recorded and the two newest revisions, and
\* the worker records nothing it has not found.
LEMMA RevisionNext == Inv /\ TypeOK' /\ [Next]_vars => RevisionInv'
<1> SUFFICES ASSUME Inv, TypeOK', [Next]_vars PROVE RevisionInv'
  OBVIOUS
<1> USE DEF Inv, RevisionInv
<1>a. TypeOK /\ w.c \in Comps /\ Newest(rcache) \in 0..MaxRevs
  BY NewestIsHighest DEF TypeOK, Workers
<1>b. w.latest \in 0..MaxRevs /\ w.rev \in 0..MaxRevs /\ w.comp.ref \in -1..MaxRevs
       /\ w.comp.rev \in 0..MaxRevs /\ w.drop \subseteq Revs /\ w.def \in AnyDef
  BY <1>a DEF TypeOK, Workers, Composites
<1>1. ASSUME NEW c \in Comps, Get(c) PROVE RevisionInv'
  <2>1. w'.drop = {} /\ w'.child = {} /\ w'.pc \in {"idle", "define"}
    BY <1>1 DEF Get, Idle
  <2>2. Locals'
    BY <1>1, <2>1 DEF Get, Locals, Busy, Idle, api
  <2>3. Numbered' /\ RecordedRevisionSurvives'
    BY <1>1 DEF Get, Numbered, RecordedRevisionSurvives, api, caches
  <2> QED BY <2>1, <2>2, <2>3 DEF Latest, Spared, Chosen, Rendering
<1>2. ASSUME Fails, Busy PROVE RevisionInv'
  <2>1. PICK r \in Reasons : markCompositeFailed(r)
    BY <1>2 DEF Fails
  <2>2. comps[w.c].alive /\ w.comp.rev # 0 => revs[w.comp.rev] # NoDef
    BY <1>a, <1>2 DEF Locals, RecordedRevisionSurvives
  <2> QED BY <2>1, <2>2, Recorded DEF markCompositeFailed
<1>3. CASE Retry
  BY <1>3, Returned DEF Retry, Return, Numbered, RecordedRevisionSurvives, api, caches
<1>4. CASE GetDefinition
  <2>1. Locals' /\ Numbered' /\ RecordedRevisionSurvives'
    BY <1>4, <1>a DEF GetDefinition, Locals, Numbered, RecordedRevisionSurvives, Busy, caches,
      TypeOK, Workers, AnyDef
  <2>2. Latest' /\ Spared' /\ Chosen'
    BY <1>4, <1>a DEF GetDefinition, Latest, Spared, Chosen, Rendering, TypeOK, Workers
  <2> QED BY <2>1, <2>2
<1>5. CASE UseLatestRevision
  <2>1. Locals' /\ Numbered' /\ RecordedRevisionSurvives'
    BY <1>5, <1>a DEF UseLatestRevision, Reads, Locals, Numbered, RecordedRevisionSurvives, Busy,
      api, caches, TypeOK, Workers
  <2>2. w'.pc = "resolve" /\ w'.latest = Newest(rcache) /\ w'.drop = w.drop /\ w.drop = {}
    BY <1>5, <1>a DEF UseLatestRevision, Reads, Locals, TypeOK, Workers
  <2>3. Newest(rcache) \in Revs /\ UNCHANGED <<revs, rcache, comps>>
    BY <1>5, <1>a DEF UseLatestRevision, Reads, Current, Revs, api, caches
  <2>4. Latest'
    BY <1>a, <2>2, <2>3 DEF Latest, Numbered, Revs
  <2> QED BY <2>1, <2>2, <2>4 DEF Spared, Chosen, Rendering
<1>6. CASE CreateRevision
  <2> DEFINE next == Newest(rcache) + 1
  <2>1. next \in Revs /\ UNCHANGED <<rcache, comps>>
    BY <1>6, <1>a DEF CreateRevision, Revs, caches
  <2>2. w'.pc = "prune" /\ w'.latest = next /\ w'.drop = {} /\ w'.child = {}
          /\ w'.c = w.c /\ w'.comp = w.comp /\ w.def \in Defs /\ Busy
    BY <1>6, <1>a DEF CreateRevision, Locals, TypeOK, Workers, Busy
  <2>3. revs'[next] # NoDef
    BY <1>6, <1>a, <2>1, <2>2, CompositeAssumption DEF CreateRevision, TypeOK
  <2>4. \A v \in Revs : revs[v] # NoDef => revs'[v] = revs[v]
    BY <1>6, <1>a DEF CreateRevision, TypeOK
  <2>5. \A v \in Revs : revs'[v] # revs[v] => v = next
    BY <1>6, <1>a DEF CreateRevision, TypeOK
  <2> HIDE DEF next
  <2>6. Locals' /\ Spared' /\ Chosen'
    BY <2>1, <2>2 DEF Locals, Spared, Chosen, Rendering, Busy
  <2>7. RecordedRevisionSurvives'
    BY <1>a, <2>1, <2>4 DEF RecordedRevisionSurvives, TypeOK, Composites, Revs
  <2>8. Numbered'
    <3>1. Newest(rcache) # 0 => Newest(rcache) \in Revs
      BY <1>a DEF Revs
    <3>2. rcache[next] = NoDef
      BY <1>a, <2>1, NewestIsHighest DEF TypeOK, next
    <3> QED BY <1>a, <2>1, <2>4, <2>5, <3>1, <3>2 DEF Numbered, next
  <2>9. Latest'
    <3>1. Newest(rcache)' = Newest(rcache) /\ next <= Newest(rcache) + 1
      BY <1>a, <2>1 DEF next
    <3> QED BY <2>1, <2>2, <2>3, <3>1 DEF Latest
  <2> QED BY <2>6, <2>7, <2>8, <2>9
<1>7. CASE PruneRevisions
  <2>1. UNCHANGED <<revs, rcache, comps>>
    BY <1>7 DEF PruneRevisions, Reads, api, caches
  <2>2. w'.pc = "resolve" /\ w'.drop = Prunable /\ w'.latest = w.latest /\ w'.child = {}
          /\ w'.c = w.c /\ w'.comp = w.comp /\ Busy
    BY <1>7, <1>a DEF PruneRevisions, Reads, Locals, TypeOK, Workers, Busy
  <2>3. Locals' /\ Numbered' /\ Chosen' /\ RecordedRevisionSurvives'
    BY <2>1, <2>2 DEF Locals, Numbered, Chosen, RecordedRevisionSurvives, Rendering, Busy
  <2>4. Latest'
    BY <1>7, <2>1, <2>2 DEF PruneRevisions, Latest, Prunable, Old
  <2>5. Spared'
    BY <2>1, <2>2 DEF Spared, Prunable
  <2> QED BY <2>3, <2>4, <2>5
<1>8. ASSUME NEW v \in Revs, DeleteRevision(v) PROVE RevisionInv'
  <2>1. UNCHANGED <<rcache, comps>> /\ revs' = [revs EXCEPT ![v] = NoDef]
    BY <1>8 DEF DeleteRevision, caches
  <2>2. w'.pc = "resolve" /\ w'.drop \subseteq w.drop /\ w'.latest = w.latest
          /\ w'.child = w.child /\ w'.c = w.c /\ w'.comp = w.comp /\ w.pc = "resolve"
    BY <1>8, <1>a DEF DeleteRevision, TypeOK, Workers
  <2>3. v < Newest(rcache) /\ v < w.latest
    <3>1. HistoryLimit \in Nat /\ HistoryLimit >= 2
      BY CompositeAssumption
    <3>2. v <= w.latest - HistoryLimit /\ w.latest <= Newest(rcache) + 1
      BY <1>8 DEF DeleteRevision, Latest
    <3>3. v \in Nat
      BY DEF Revs
    <3> QED BY <1>a, <1>b, <3>1, <3>2, <3>3
  <2>4. \A x \in Revs : revs'[x] = IF x = v THEN NoDef ELSE revs[x]
    BY <1>a, <2>1 DEF TypeOK
  <2>5. Locals' /\ Spared' /\ Chosen'
    BY <2>1, <2>2 DEF Locals, Spared, Chosen, Rendering, Busy
  <2>6. Latest'
    BY <1>a, <1>b, <2>1, <2>2, <2>3, <2>4 DEF Latest
  <2>7. Numbered'
    <3>1. Newest(rcache) # 0 => Newest(rcache) \in Revs /\ Newest(rcache) # v
      BY <1>a, <2>3 DEF Revs
    <3> QED BY <1>a, <2>1, <2>4, <3>1 DEF Numbered
  <2>8. RecordedRevisionSurvives'
    <3>1. \A c \in Comps : comps[c].alive => comps[c].rev # v
      BY <1>8 DEF DeleteRevision, Spared
    <3> QED BY <1>a, <2>1, <2>4, <3>1 DEF RecordedRevisionSurvives, TypeOK, Composites, Revs
  <2> QED BY <2>5, <2>6, <2>7, <2>8
<1>9. CASE RenderComposite
  <2>1. UNCHANGED <<revs, rcache, comps>>
    BY <1>9 DEF RenderComposite, Reads, api, caches
  <2>2. w'.pc = "apply" /\ w'.drop = {} /\ w'.child = {} /\ w'.c = w.c /\ w'.comp = w.comp
          /\ w'.rev = Resolved /\ w'.def = Snapshot /\ w.pc = "resolve"
    BY <1>9, <1>a DEF RenderComposite, Resolves, Resolving, Reads, Locals, TypeOK, Workers
  <2>3. Resolved \in Revs /\ revs[Resolved] # NoDef
    BY <1>9, <2>2 DEF RenderComposite, Resolves, Latest
  <2>4. Snapshot = revs[Resolved]
    BY <2>3 DEF Snapshot, Numbered
  <2>5. Locals' /\ Numbered' /\ Latest' /\ Spared' /\ RecordedRevisionSurvives'
    BY <2>1, <2>2 DEF Locals, Numbered, Latest, Spared, RecordedRevisionSurvives, Busy
  <2>6. Pinned' = Pinned /\ (Pinned # 0 => Resolved = Pinned)
    BY <2>2 DEF Pinned, Resolved
  <2>7. Chosen'
    BY <2>1, <2>2, <2>3, <2>4, <2>6 DEF Chosen
  <2> QED BY <2>5, <2>7
<1>10. ASSUME NEW n \in Names,
              ReplaceChild(n) \/ CheckChild(n) \/ CreateChild(n) \/ UpdateChild(n) \/ PruneChild(n)
       PROVE RevisionInv'
  <2>1. w.pc \in {"apply", "write", "cull"} /\ w'.pc \in {"apply", "write", "cull"}
    BY <1>10, <1>a DEF ReplaceChild, CheckChild, CreateChild, UpdateChild, PruneChild, Applied,
      Applying, Writing, Reads, TypeOK, Workers
  <2>2. w'.c = w.c /\ w'.comp = w.comp /\ w'.rev = w.rev /\ w'.def = w.def /\ w'.drop = w.drop
    <3>1. CASE ReplaceChild(n) \/ CheckChild(n) \/ PruneChild(n)
      BY <1>a, <3>1 DEF ReplaceChild, CheckChild, PruneChild, Reads, TypeOK, Workers
    <3>2. ASSUME NEW k, Applied(n, k)
          PROVE  w'.c = w.c /\ w'.comp = w.comp /\ w'.rev = w.rev /\ w'.def = w.def /\ w'.drop = w.drop
      BY <1>a, <3>2 DEF Applied, TypeOK, Workers
    <3> QED BY <1>10, <3>1, <3>2 DEF CreateChild, UpdateChild
  <2>3. w'.child # {} => w'.pc = "write"
    BY <1>10, <1>a DEF ReplaceChild, CheckChild, CreateChild, UpdateChild, PruneChild, Applied,
      Applying, Writing, Reads, Locals, TypeOK, Workers
  <2>4. UNCHANGED <<revs, rcache, comps>>
    BY <1>10 DEF ReplaceChild, CheckChild, CreateChild, UpdateChild, PruneChild, Applied, Reads,
      api, caches
  <2> QED BY <2>1, <2>2, <2>3, <2>4, StaysRendering DEF Rendering
<1>11. CASE ListChildren
  <2>1. w.pc = "apply" /\ w'.pc = "cull" /\ w'.c = w.c /\ w'.comp = w.comp /\ w'.rev = w.rev
          /\ w'.def = w.def /\ w'.drop = w.drop /\ w'.child = w.child
    BY <1>11, <1>a DEF ListChildren, Reads, TypeOK, Workers
  <2>2. UNCHANGED <<revs, rcache, comps>> /\ w.child = {}
    BY <1>11, <2>1 DEF ListChildren, Reads, api, caches, Locals
  <2> QED BY <2>1, <2>2, StaysRendering DEF Rendering
<1>12. CASE WriteStatus
  <2>1. revs[w.rev] # NoDef
    BY <1>12 DEF WriteStatus, Chosen, Rendering
  <2> QED BY <1>12, <2>1, Recorded DEF WriteStatus
<1>13. CASE PruningFails
  <2>1. UNCHANGED <<revs, rcache, comps>>
    BY <1>13 DEF PruningFails, api, caches
  <2>2. w'.pc = "resolve" /\ w'.drop \subseteq w.drop /\ w'.latest = w.latest
          /\ w'.child = w.child /\ w'.c = w.c /\ w'.comp = w.comp /\ w.pc \in {"prune", "resolve"}
    BY <1>13, <1>a DEF PruningFails, TypeOK, Workers
  <2> QED BY <2>1, <2>2 DEF Locals, Numbered, Latest, Spared, Chosen, RecordedRevisionSurvives,
        Rendering, Busy
<1>14. CASE Crash
  <2>1. w' = Idle /\ rcache' = revs /\ revs' = revs /\ comps' = comps
    BY <1>14 DEF Crash, Return, api
  <2>2. Numbered'
    BY <1>a, <2>1, CacheShowsAll
  <2> QED BY <2>1, <2>2, Returned DEF RecordedRevisionSurvives
<1>15. CASE RevSync
  <2>1. UNCHANGED <<w, revs, comps>> /\ rcache' = revs
    BY <1>15 DEF RevSync, api
  <2>2. Numbered'
    BY <1>a, <2>1, CacheShowsAll
  <2>3. w.pc \in {"prune", "resolve"} => w.latest <= Newest(revs) + 1
    BY <1>a, <1>b, NewestIsHighest DEF Latest, TypeOK
  <2>4. Latest'
    BY <2>1, <2>3 DEF Latest
  <2> QED BY <2>1, <2>2, <2>4 DEF Locals, Spared, Chosen, RecordedRevisionSurvives, Rendering,
        Busy, Pinned
<1>16. CASE KidSync \/ Kubernetes \/ User \/ UNCHANGED vars
  <2>1. UNCHANGED <<revs, rcache, w>>
    BY <1>16 DEF KidSync, Kubernetes, KidReady, KidGone, CollectGarbage, KidChanges, User,
      EditDefinition, SetPolicy, DeleteComposite, SetRevisionRef, UserWrites, UserActs,
      DeleteResource, CreateForeign, vars, api, caches
  <2>2. \A c \in Comps : comps'[c].rev = comps[c].rev /\ (comps'[c].alive => comps[c].alive)
    BY <1>16, <1>a DEF KidSync, Kubernetes, KidReady, KidGone, CollectGarbage, KidChanges, User,
      EditDefinition, SetPolicy, DeleteComposite, SetRevisionRef, UserWrites, UserActs,
      DeleteResource, CreateForeign, vars, api, TypeOK, Composites
  <2> QED BY <2>1, <2>2, Undisturbed
<1> QED BY <1>1, <1>2, <1>3, <1>4, <1>5, <1>6, <1>7, <1>8, <1>9, <1>10, <1>11, <1>12, <1>13,
       <1>14, <1>15, <1>16, StepKinds

\* The invariant of types and revisions is inductive.
LEMMA InvNext == Inv /\ [Next]_vars => Inv'
BY TypeNext, RevisionNext DEF Inv

\* Every reachable state is well typed.
THEOREM TypeCorrect == Spec => []TypeOK
<1>1. Inv => TypeOK
  BY DEF Inv
<1> QED BY InvInit, InvNext, <1>1, PTL DEF Spec

\* pruneRevisions never deletes the revision a live composite has recorded,
\* however far the list of revisions it works from lags behind.
THEOREM RevisionTheorem == Spec => []RecordedRevisionSurvives
<1>1. Inv => RecordedRevisionSurvives
  BY DEF Inv, RevisionInv
<1> QED BY InvInit, InvNext, <1>1, PTL DEF Spec

-----------------------------------------------------------------------------
(* Foreign DoResources.  What the worker could know to be foreign when its    *)
(* reconcile began is foreign in the cluster and in the cache until it goes,  *)
(* so that it is neither passed by the check nor listed among the children.   *)

Apart ==
  /\ \A n \in known : kids[n].owner = "foreign" /\ kcache[n].owner = "foreign"
  /\ w.child \cap known = {}
  /\ w.pc = "cull" => w.todo \cap known = {}
ForeignInv == Apart /\ ForeignUntouched

\* Nothing is known or harmed before the first reconcile.
LEMMA ForeignInit == Init => ForeignInv
BY DEF Init, ForeignInv, Apart, ForeignUntouched

\* A reconcile that ends forgets what it knew.
LEMMA ForeignReturn ==
  ASSUME ForeignInv, \E S : Return(S), UNCHANGED harmed
  PROVE  ForeignInv'
BY DEF ForeignInv, Apart, ForeignUntouched, Return

\* No step writes or deletes what was known to be foreign.
LEMMA ForeignNext == Inv /\ ForeignInv /\ [Next]_vars => ForeignInv'
<1> SUFFICES ASSUME Inv, ForeignInv, [Next]_vars PROVE ForeignInv'
  OBVIOUS
<1>a. TypeOK /\ Locals /\ w.c \in Comps /\ w.c # "foreign" /\ w.c # "nobody"
  BY Updates DEF Inv, RevisionInv, TypeOK, Workers
<1>b. Absent.owner = "nobody" /\ Foreign.owner = "foreign"
  BY DEF Absent, Foreign
<1> USE DEF ForeignInv, Apart, ForeignUntouched
<1>1. ASSUME NEW c \in Comps, Get(c) PROVE ForeignInv'
  BY <1>a, <1>b, <1>1 DEF Get, Idle, api, caches
<1>2. CASE Fails \/ Retry \/ WriteStatus \/ Crash
  <2>1. UNCHANGED harmed /\ \E S : Return(S)
    BY <1>2 DEF Fails, Retry, WriteStatus, Crash, markCompositeFailed, persistCompositeStatus
  <2> QED BY <2>1, ForeignReturn
<1>3. CASE GetDefinition \/ UseLatestRevision \/ CreateRevision \/ PruneRevisions
             \/ (\E v \in Revs : DeleteRevision(v)) \/ RenderComposite \/ PruningFails
  <2>1. UNCHANGED <<kids, kcache, known, harmed>>
    BY <1>3 DEF GetDefinition, UseLatestRevision, CreateRevision, PruneRevisions, DeleteRevision,
      RenderComposite, PruningFails, Reads, api, caches, ghosts
  <2>2. w'.child = w.child /\ w'.pc # "cull"
    BY <1>a, <1>3 DEF GetDefinition, UseLatestRevision, CreateRevision, PruneRevisions,
      DeleteRevision, RenderComposite, PruningFails, Reads, TypeOK, Workers
  <2> QED BY <2>1, <2>2
<1>4. ASSUME NEW n \in Names, ReplaceChild(n) PROVE ForeignInv'
  <2>1. w'.child = w.child /\ w'.pc = "apply" /\ UNCHANGED <<kcache, known, harmed>>
    BY <1>a, <1>4 DEF ReplaceChild, Applying, TypeOK, Workers, caches, ghosts
  <2>2. \A x \in Names : kids'[x].owner = kids[x].owner
    BY <1>a, <1>4 DEF ReplaceChild, TypeOK, Kids, Absent
  <2> QED BY <1>a, <2>1, <2>2 DEF TypeOK
<1>5. ASSUME NEW n \in Names, CheckChild(n) PROVE ForeignInv'
  <2>1. w'.child = {n} /\ w'.pc = "write" /\ UNCHANGED <<kids, kcache, known, harmed>>
    BY <1>a, <1>5 DEF CheckChild, Reads, TypeOK, Workers, api, caches, ghosts
  <2>2. n \notin known
    BY <1>a, <1>b, <1>5 DEF CheckChild
  <2> QED BY <2>1, <2>2
<1>6. ASSUME NEW n \in Names, CreateChild(n) \/ UpdateChild(n) PROVE ForeignInv'
  <2>1. n \notin known
    BY <1>6 DEF CreateChild, UpdateChild, Writing
  <2>2. \A x \in Names \ {n} : kids'[x] = kids[x]
    BY <1>a, <1>6 DEF CreateChild, UpdateChild, TypeOK
  <2>3. PICK k : Applied(n, k)
    BY <1>6 DEF CreateChild, UpdateChild
  <2>4. w'.child = {} /\ w'.pc = "apply" /\ UNCHANGED <<kcache, known>> /\ harmed' = harmed
    BY <1>a, <2>1, <2>3 DEF Applied, TypeOK, Workers, caches
  <2> QED BY <1>a, <2>1, <2>2, <2>4 DEF TypeOK
<1>7. ASSUME NEW n \in Names, PruneChild(n) PROVE ForeignInv'
  <2>1. n \notin known /\ w.child = {}
    BY <1>a, <1>7 DEF PruneChild, Locals
  <2>2. \A x \in Names \ {n} : kids'[x] = kids[x]
    BY <1>a, <1>7 DEF PruneChild, DeleteByName, TypeOK
  <2>3. w'.child = {} /\ w'.todo \subseteq w.todo /\ w.pc = "cull"
          /\ UNCHANGED <<kcache, known>> /\ harmed' = harmed
    BY <1>a, <1>7, <2>1 DEF PruneChild, TypeOK, Workers, caches
  <2> QED BY <1>a, <2>1, <2>2, <2>3 DEF TypeOK
<1>8. CASE ListChildren
  <2>1. w'.child = w.child /\ w'.todo = Superfluous /\ UNCHANGED <<kids, kcache, known, harmed>>
    BY <1>a, <1>8 DEF ListChildren, Reads, TypeOK, Workers, api, caches, ghosts
  <2>2. Superfluous \cap known = {}
    BY <1>a DEF Superfluous
  <2> QED BY <2>1, <2>2
<1>9. CASE KidSync \/ RevSync \/ UNCHANGED vars
  BY <1>9 DEF KidSync, RevSync, vars, api, caches, ghosts
<1>10. CASE Kubernetes
  <2>1. PICK n \in Names : KidReady(n) \/ KidGone(n) \/ CollectGarbage(n)
    BY <1>10 DEF Kubernetes
  <2>2. UNCHANGED <<kcache, w, harmed>> /\ known' \subseteq known
    BY <2>1 DEF KidReady, KidGone, CollectGarbage, KidChanges
  <2>3. \A x \in Names : x \in known' => kids'[x].owner = kids[x].owner
    BY <1>a, <2>1 DEF KidReady, KidGone, CollectGarbage, KidChanges, TypeOK, Kids, Absent
  <2>4. known \subseteq Names
    BY <1>a DEF TypeOK
  <2> QED BY <2>2, <2>3, <2>4
<1>11. CASE User
  <2>1. UNCHANGED <<kcache, w, harmed, known>>
    BY <1>11 DEF User, EditDefinition, SetPolicy, DeleteComposite, SetRevisionRef, UserWrites,
      UserActs, DeleteResource, CreateForeign, caches, ghosts
  <2>2. \A x \in Names : kids'[x].owner = kids[x].owner \/ kids[x] = Absent
    <3>1. kids' = kids \/ \E n \in Names : DeleteResource(n) \/ CreateForeign(n)
      BY <1>11 DEF User, EditDefinition, SetPolicy, DeleteComposite, SetRevisionRef, UserWrites
    <3>2. ASSUME NEW n \in Names, DeleteResource(n)
          PROVE  \A x \in Names : kids'[x].owner = kids[x].owner
      BY <1>a, <3>2 DEF DeleteResource, TypeOK, Kids
    <3>3. ASSUME NEW n \in Names, CreateForeign(n)
          PROVE  \A x \in Names : kids'[x] = kids[x] \/ kids[x] = Absent
      BY <1>a, <3>3 DEF CreateForeign, TypeOK
    <3> QED BY <3>1, <3>2, <3>3
  <2> QED BY <1>a, <1>b, <2>1, <2>2 DEF TypeOK
<1> QED BY <1>1, <1>2, <1>3, <1>4, <1>5, <1>6, <1>7, <1>8, <1>9, <1>10, <1>11, StepKinds

\* applyChild and the pruning of children keep their promise: a DoResource of
\* somebody else that the cache had shown is neither overwritten nor deleted.
THEOREM ForeignTheorem == Spec => []ForeignUntouched
<1>1. Inv /\ ForeignInv /\ [Next]_vars => (Inv /\ ForeignInv)'
  BY InvNext, ForeignNext
<1>2. ForeignInv => ForeignUntouched
  BY DEF ForeignInv
<1> QED BY InvInit, ForeignInit, <1>1, <1>2, PTL DEF Spec

-----------------------------------------------------------------------------
(* What may happen to a DoResource. *)

\* It is marked for deletion, becomes ready, goes, is created or updated by the
\* worker, or created by somebody else; the cache does not move meanwhile.
LEMMA KidSteps ==
  ASSUME Inv, Next, NEW n \in Names, kids'[n] # kids[n]
  PROVE  /\ kcache' = kcache /\ queued' = queued
         /\ \/ /\ kids[n] # Absent /\ ~kids[n].deleting /\ gone' = gone
               /\ kids'[n] = [kids[n] EXCEPT !.deleting = TRUE]
            \/ KidReady(n) \/ KidGone(n) \/ CreateChild(n) \/ UpdateChild(n)
            \/ kids[n] = Absent /\ kids'[n] = Foreign /\ gone' = gone
<1> DEFINE Marks == /\ kids[n] # Absent /\ ~kids[n].deleting /\ gone' = gone
                    /\ kids'[n] = [kids[n] EXCEPT !.deleting = TRUE]
<1>a. TypeOK /\ w.c \in Comps /\ w.c # "nobody" /\ (kids[n] # Absent <=> kids[n].owner # "nobody")
  BY Updates, Constructors DEF Inv, TypeOK, Workers
<1>b. kids[n] # Absent => kids[n].deleting \in BOOLEAN
        /\ (kids[n].deleting => [kids[n] EXCEPT !.deleting = TRUE] = kids[n])
  BY <1>a DEF TypeOK, Kids
<1>1. ASSUME NEW x \in Names, ReplaceChild(x) PROVE kcache' = kcache /\ queued' = queued /\ Marks
  <2>1. x = n /\ kids'[n] = [kids[n] EXCEPT !.deleting = TRUE] /\ kids[n].owner = w.c
    BY <1>a, <1>1 DEF ReplaceChild, TypeOK
  <2> QED BY <1>a, <1>b, <1>1, <2>1 DEF ReplaceChild, caches
<1>2. ASSUME NEW x \in Names, PruneChild(x) PROVE kcache' = kcache /\ queued' = queued /\ Marks
  <2>1. x = n /\ kids'[n] = [kids[n] EXCEPT !.deleting = TRUE] /\ kids[n] # Absent
    BY <1>a, <1>2 DEF PruneChild, DeleteByName, TypeOK
  <2> QED BY <1>a, <1>b, <1>2, <2>1 DEF PruneChild, caches
<1>3. ASSUME NEW x \in Names, CreateChild(x) \/ UpdateChild(x)
      PROVE  kcache' = kcache /\ queued' = queued /\ x = n
  BY <1>a, <1>3 DEF CreateChild, UpdateChild, Applied, TypeOK, caches
<1>4. ASSUME NEW x \in Names, KidReady(x) \/ KidGone(x) \/ CollectGarbage(x)
      PROVE  kcache' = kcache /\ queued' = queued /\ x = n /\ (CollectGarbage(x) => Marks)
  <2>1. kcache' = kcache /\ queued' = queued /\ x = n
    BY <1>a, <1>4 DEF KidReady, KidGone, CollectGarbage, KidChanges, TypeOK
  <2>2. CollectGarbage(n) => Marks
    BY <1>a, Updates DEF CollectGarbage, KidChanges, TypeOK
  <2> QED BY <2>1, <2>2
<1>5. CASE User
  <2>1. PICK x \in Names : DeleteResource(x) \/ CreateForeign(x)
    BY <1>5 DEF User, EditDefinition, SetPolicy, DeleteComposite, SetRevisionRef, UserWrites
  <2>2. kcache' = kcache /\ gone' = gone /\ queued' = queued
    BY <2>1 DEF DeleteResource, CreateForeign, UserActs, caches
  <2>3. Marks \/ (kids[n] = Absent /\ kids'[n] = Foreign)
    <3>1. x = n
      BY <1>a, <2>1 DEF DeleteResource, CreateForeign, TypeOK
    <3>2. CASE DeleteResource(n)
      <4>1. kids' = [kids EXCEPT ![n].deleting = TRUE] /\ kids[n] # Absent /\ ~kids[n].deleting
        BY <3>2 DEF DeleteResource
      <4>2. kids'[n] = [kids[n] EXCEPT !.deleting = TRUE]
        BY <1>a, <4>1 DEF TypeOK
      <4> QED BY <2>2, <4>1, <4>2
    <3>3. CASE CreateForeign(n)
      BY <1>a, <3>3 DEF CreateForeign, TypeOK
    <3> QED BY <2>1, <3>1, <3>2, <3>3
  <2> QED BY <2>2, <2>3
<1>6. ~Retry /\ ~(\E x \in Comps : Get(x)) /\ ~Crash /\ ~KidSync /\ ~RevSync /\ ~PruningFails
        /\ ~Fails /\ ~WriteStatus
  BY DEF Retry, Get, Crash, KidSync, RevSync, PruningFails, Fails, WriteStatus,
    markCompositeFailed, persistCompositeStatus, api
<1>7. ~GetDefinition /\ ~UseLatestRevision /\ ~CreateRevision /\ ~PruneRevisions
        /\ ~(\E v \in Revs : DeleteRevision(v)) /\ ~RenderComposite /\ ~ListChildren
        /\ ~(\E x \in Names : CheckChild(x))
  BY DEF GetDefinition, UseLatestRevision, CreateRevision, PruneRevisions, DeleteRevision,
    RenderComposite, ListChildren, CheckChild, Reads, api
<1> QED BY <1>1, <1>2, <1>3, <1>4, <1>5, <1>6, <1>7, StepKinds DEF Kubernetes

-----------------------------------------------------------------------------
(* Manual composites. *)

\* The revision recorded for a composite changes only in its own reconcile, to
\* the one read at its start or the one it has rendered.
LEMMA RevisionChanges ==
  ASSUME Inv, Next, NEW c \in Comps, comps'[c].rev # comps[c].rev
  PROVE  w.c = c /\ Rendering /\ comps'[c].rev = w.rev
<1>a. TypeOK /\ Locals /\ w.c \in Comps
  BY DEF Inv, RevisionInv, TypeOK, Workers
<1>1. ~(Fails /\ Busy)
  <2> SUFFICES ASSUME NEW r, markCompositeFailed(r), Busy PROVE comps'[c].rev = comps[c].rev
    BY DEF Fails
  <2> QED BY <1>a DEF markCompositeFailed, persistCompositeStatus, TypeOK, Composites, Locals
<1>2. CASE WriteStatus
  <2>1. w.c = c /\ comps'[c].rev = w.rev
    BY <1>a, <1>2 DEF WriteStatus, persistCompositeStatus, TypeOK, Composites
  <2> QED BY <1>2, <2>1 DEF WriteStatus, Rendering
<1>3. ~User
  <2>1. User => comps' = comps \/ \E x \in Comps : SetPolicy(x) \/ DeleteComposite(x)
                                                  \/ \E v \in Pins : SetRevisionRef(x, v)
    BY DEF User, EditDefinition, DeleteResource, CreateForeign
  <2>2. ASSUME NEW x \in Comps, NEW v \in Pins,
               SetPolicy(x) \/ DeleteComposite(x) \/ SetRevisionRef(x, v)
        PROVE  comps'[c].rev = comps[c].rev
    BY <1>a, <2>2 DEF SetPolicy, DeleteComposite, SetRevisionRef, UserWrites, TypeOK, Composites
  <2>3. ASSUME NEW x \in Comps, SetPolicy(x) \/ DeleteComposite(x)
        PROVE  comps'[c].rev = comps[c].rev
    BY <1>a, <2>3 DEF SetPolicy, DeleteComposite, UserWrites, TypeOK, Composites
  <2> QED BY <2>1, <2>2, <2>3
<1>4. ~Retry /\ ~(\E x \in Comps : Get(x)) /\ ~Crash /\ ~KidSync /\ ~RevSync /\ ~Kubernetes
        /\ ~PruningFails
  BY DEF Retry, Get, Crash, KidSync, RevSync, Kubernetes, KidReady, KidGone, CollectGarbage,
    KidChanges, PruningFails, api
<1>5. ~GetDefinition /\ ~UseLatestRevision /\ ~CreateRevision /\ ~PruneRevisions
        /\ ~(\E v \in Revs : DeleteRevision(v)) /\ ~RenderComposite /\ ~ListChildren
  BY DEF GetDefinition, UseLatestRevision, CreateRevision, PruneRevisions, DeleteRevision,
    RenderComposite, ListChildren, Reads, api
<1>6. ~(\E n \in Names : \/ ReplaceChild(n) \/ CheckChild(n) \/ CreateChild(n)
                         \/ UpdateChild(n) \/ PruneChild(n))
  BY DEF ReplaceChild, CheckChild, CreateChild, UpdateChild, PruneChild, Applied, Reads, api
<1> QED BY <1>1, <1>2, <1>3, <1>4, <1>5, <1>6, StepKinds

\* What a DoResource of c says changes only in the reconcile of c, to what the
\* revision that it resolved renders.
LEMMA SpecChanges ==
  ASSUME Inv, Next, NEW c \in Comps, NEW n \in Names,
         kids'[n].owner = c, kids'[n].spec # kids[n].spec
  PROVE  w.c = c /\ Rendering /\ kids'[n].spec = Render[c][revs[w.rev]][n]
<1>a. TypeOK /\ Locals /\ w.c \in Comps /\ c # "foreign" /\ c # "nobody"
  BY Updates DEF Inv, RevisionInv, TypeOK, Workers
<1>b. Absent.owner = "nobody" /\ Foreign.owner = "foreign"
  BY DEF Absent, Foreign
<1>1. CreateChild(n) \/ UpdateChild(n)
  <2>1. ~KidReady(n) /\ ~KidGone(n)
    <3>1. ~KidGone(n)
      BY <1>a, <1>b DEF KidGone, KidChanges, TypeOK
    <3>2. KidReady(n) => kids'[n] = [kids[n] EXCEPT !.ready = TRUE] /\ kids[n].owner \in Comps
      BY <1>a DEF KidReady, KidChanges, TypeOK
    <3>3. kids[n].owner \in Comps => [kids[n] EXCEPT !.ready = TRUE].spec = kids[n].spec
      <4>1. kids[n].owner \in Comps => kids[n] # Absent /\ kids[n] \in Kids
        BY <1>a, <1>b, Updates DEF TypeOK
      <4> QED BY <4>1 DEF Kids
    <3> QED BY <3>1, <3>2, <3>3
  <2>2. kids[n] # Absent => [kids[n] EXCEPT !.deleting = TRUE].spec = kids[n].spec
    BY <1>a DEF TypeOK, Kids
  <2> QED BY <1>a, <1>b, <2>1, <2>2, KidSteps
<1>2. kids'[n].owner = w.c /\ kids'[n].spec = Desired(n)
  <2>1. CASE CreateChild(n)
    BY <1>a, <2>1 DEF CreateChild, NewChild, TypeOK
  <2>2. CASE UpdateChild(n)
    <3>1. kids'[n] = Merged(n) /\ kcache[n] \in Kids /\ kcache[n] # Absent
      BY <1>a, <2>2 DEF UpdateChild, Ownable, TypeOK
    <3> QED BY <3>1 DEF Merged, Kids
  <2> QED BY <1>1, <2>1, <2>2
<1>3. Rendering
  BY <1>1 DEF CreateChild, UpdateChild, Writing, Rendering
<1>4. w.def = revs[w.rev]
  BY <1>3 DEF Inv, RevisionInv, Chosen
<1> QED BY <1>2, <1>3, <1>4 DEF Desired

\* resolveRevision keeps a Manual composite on its recorded revision, and its
\* children on what that one renders, whatever happens to the definition.
THEOREM ManualTheorem == Spec => ManualStays
<1>1. Inv /\ [Next]_vars =>
        [\A c \in Comps : Manual(c) /\ InStep(c) =>
           /\ comps'[c].rev = comps[c].rev
           /\ \A n \in Names : kids'[n].owner = c /\ kids'[n].spec # kids[n].spec
                                 => kids'[n].spec = Render[c][revs[comps[c].rev]][n]]_vars
  <2> SUFFICES ASSUME Inv, Next, NEW c \in Comps, Manual(c), InStep(c)
               PROVE  /\ comps'[c].rev = comps[c].rev
                      /\ \A n \in Names : kids'[n].owner = c /\ kids'[n].spec # kids[n].spec
                                 => kids'[n].spec = Render[c][revs[comps[c].rev]][n]
    OBVIOUS
  <2>1. ASSUME Rendering, w.c = c PROVE w.rev = comps[c].rev
    <3>1. w.comp.manual /\ w.comp.ref = 0 /\ w.comp.rev = comps[c].rev /\ comps[c].rev # 0
      BY <2>1 DEF InStep, Manual, Rendering
    <3>2. Pinned = comps[c].rev
      BY <3>1 DEF Pinned
    <3> QED BY <2>1, <3>1, <3>2 DEF Inv, RevisionInv, Chosen
  <2>2. comps'[c].rev = comps[c].rev
    BY <2>1, RevisionChanges
  <2>3. ASSUME NEW n \in Names, kids'[n].owner = c, kids'[n].spec # kids[n].spec
        PROVE  kids'[n].spec = Render[c][revs[comps[c].rev]][n]
    BY <2>1, <2>3, SpecChanges
  <2> QED BY <2>2, <2>3
<1> QED BY InvInit, InvNext, <1>1, PTL DEF Spec, ManualStays

-----------------------------------------------------------------------------
(* Synced composites.  The invariant says why no stale decision can hide: as  *)
(* long as no event for c is queued or yet to come from the cache, each child *)
(* the worker is done with is as rendered, and so are all of them once the    *)
(* reconcile has ended with Synced.  The cache may lag, but what it shows of  *)
(* a child is an earlier state of it, or the removal is yet to be reported:   *)
(* hence a difference between the two cannot disappear unnoticed.             *)

Noticed(c) == c \in queued \/ c \in OwnersOfChanged

Evolved ==
  \A n \in Names :
    LET c == kcache[n].owner
    IN c \in Comps /\ c \notin gone /\ kids[n] # kcache[n] =>
         /\ kids[n].owner = c
         /\ kcache[n].ready => kids[n].ready
         /\ kcache[n].deleting => kids[n].deleting

Good(c, d, n) == kids[n].owner = c /\ ~kids[n].deleting /\ kids[n].spec = Render[c][d][n]
Todo == IF w.pc = "cull" THEN {} ELSE w.todo

AppliedSoFar ==
  Rendering => \/ w.replacing \/ Noticed(w.c)
               \/ \A n \in Wanted(w.c, w.def) \ Todo : Good(w.c, w.def, n)
CheckedChild ==
  w.pc = "write" => \A n \in w.child : /\ n \in w.todo
                                       /\ kids[n].owner = w.c /\ kids[n].deleting => Noticed(w.c)
PrunedSoFar ==
  w.pc = "cull" => \/ Noticed(w.c)
                   \/ \A n \in Names \ (Wanted(w.c, w.def) \cup w.todo) :
                        kids[n].owner = w.c => kids[n].deleting
Progress == AppliedSoFar /\ CheckedChild /\ PrunedSoFar

Settled ==
  \A c \in Comps :
    comps[c].alive /\ comps[c].synced = "Synced" /\ ~(Busy /\ w.c = c) => Noticed(c) \/ Rendered(c)

SyncInv == Evolved /\ Progress /\ Settled

\* At the start the cache is complete and nothing is synced.
LEMMA SyncInit == Init => SyncInv
<1> SUFFICES ASSUME Init PROVE SyncInv
  OBVIOUS
<1>1. w.pc = "idle" /\ \A c \in Comps : comps[c].synced = "None"
  BY DEF Init, Idle, NewComposite
<1> QED BY <1>1 DEF Init, SyncInv, Evolved, Progress, AppliedSoFar, CheckedChild, PrunedSoFar,
      Rendering, Settled

\* A step either brings the cache up to date, and queues whoever owns what
\* changed, or leaves it alone.
LEMMA CacheSteps ==
  ASSUME TypeOK, Next
  PROVE  \/ kcache' = kids /\ kids' = kids /\ OwnersOfChanged \subseteq queued'
         \/ kcache' = kcache /\ gone \subseteq gone'
<1>1. OwnersOfChanged \subseteq Comps
  BY DEF OwnersOfChanged, TypeOK
<1>2. CASE Crash \/ KidSync
  BY <1>1, <1>2 DEF Crash, KidSync, Return, api
<1>3. CASE (\E c \in Comps : Get(c)) \/ Fails \/ Retry \/ WriteStatus \/ PruningFails \/ RevSync
  BY <1>3 DEF Get, Fails, markCompositeFailed, persistCompositeStatus, Retry, WriteStatus,
    PruningFails, RevSync, caches
<1>4. CASE GetDefinition \/ UseLatestRevision \/ CreateRevision \/ PruneRevisions
             \/ (\E v \in Revs : DeleteRevision(v)) \/ RenderComposite \/ ListChildren
  BY <1>4 DEF GetDefinition, UseLatestRevision, CreateRevision, PruneRevisions, DeleteRevision,
    RenderComposite, ListChildren, Reads, caches
<1>5. ASSUME NEW n \in Names, \/ ReplaceChild(n) \/ CheckChild(n) \/ CreateChild(n)
                               \/ UpdateChild(n) \/ PruneChild(n)
      PROVE  kcache' = kcache /\ gone \subseteq gone'
  BY <1>5 DEF ReplaceChild, CheckChild, CreateChild, UpdateChild, PruneChild, Applied, Reads, caches
<1>6. CASE Kubernetes
  BY <1>6 DEF Kubernetes, KidReady, KidGone, CollectGarbage, KidChanges
<1>7. CASE User
  BY <1>7 DEF User, EditDefinition, SetPolicy, DeleteComposite, SetRevisionRef, UserWrites, UserActs,
    DeleteResource, CreateForeign, caches
<1> QED BY <1>2, <1>3, <1>4, <1>5, <1>6, <1>7, StepKinds

\* A request leaves the queue only when the worker takes it.
LEMMA QueueSteps ==
  ASSUME Next, NEW c \in queued, ~Get(c)
  PROVE  c \in queued'
<1>1. ASSUME NEW x \in Comps, Get(x) PROVE c \in queued'
  BY <1>1 DEF Get
<1>2. CASE Fails \/ Retry \/ WriteStatus \/ Crash \/ KidSync \/ RevSync \/ PruningFails
  BY <1>2 DEF Fails, markCompositeFailed, persistCompositeStatus, Retry, WriteStatus, Crash, KidSync,
    RevSync, PruningFails, Return
<1>3. CASE GetDefinition \/ UseLatestRevision \/ CreateRevision \/ PruneRevisions
             \/ (\E v \in Revs : DeleteRevision(v)) \/ RenderComposite \/ ListChildren
  BY <1>3 DEF GetDefinition, UseLatestRevision, CreateRevision, PruneRevisions, DeleteRevision,
    RenderComposite, ListChildren, Reads
<1>4. ASSUME NEW n \in Names, \/ ReplaceChild(n) \/ CheckChild(n) \/ CreateChild(n)
                               \/ UpdateChild(n) \/ PruneChild(n)
      PROVE  c \in queued'
  BY <1>4 DEF ReplaceChild, CheckChild, CreateChild, UpdateChild, PruneChild, Applied, Reads
<1>5. CASE Kubernetes
  BY <1>5 DEF Kubernetes, KidReady, KidGone, CollectGarbage, KidChanges
<1>6. CASE User
  BY <1>6 DEF User, EditDefinition, SetPolicy, DeleteComposite, SetRevisionRef, UserWrites,
    DeleteResource, CreateForeign
<1> QED BY <1>1, <1>2, <1>3, <1>4, <1>5, <1>6, StepKinds

\* How a child differs after a change, by field.
LEMMA KidFields ==
  ASSUME Inv, Next, NEW n \in Names, kids'[n] # kids[n]
  PROVE  \/ /\ kids'[n].owner = kids[n].owner /\ kids[n].deleting = FALSE /\ kids'[n].deleting
            /\ kids'[n].ready = kids[n].ready /\ gone' = gone
         \/ /\ kids'[n].owner = kids[n].owner /\ kids'[n].deleting = kids[n].deleting
            /\ kids[n].ready = FALSE /\ kids'[n].ready /\ gone' = gone
         \/ kids'[n] = Absent /\ gone' = gone \cup ({kids[n].owner} \cap Comps)
         \/ /\ kids[n] = Absent /\ gone' = gone
            /\ kids'[n].owner \in {"foreign", w.c}
            /\ kids'[n].owner = w.c => w.pc = "write" /\ w'.pc = "apply" /\ n \in w.child
         \/ /\ kids[n] = kcache[n] /\ gone' = gone /\ kids'[n].owner = w.c
            /\ kids[n].owner \in {w.c, "foreign"}
            /\ w.pc = "write" /\ w'.pc = "apply" /\ n \in w.child
            /\ kids'[n].ready = kids[n].ready /\ kids'[n].deleting = kids[n].deleting
<1>a. TypeOK /\ kids[n] \in Kids /\ kcache[n] \in Kids
  BY DEF Inv, TypeOK
<1>1. ASSUME kids[n] # Absent, ~kids[n].deleting, kids'[n] = [kids[n] EXCEPT !.deleting = TRUE]
      PROVE  /\ kids'[n].owner = kids[n].owner /\ kids[n].deleting = FALSE /\ kids'[n].deleting
             /\ kids'[n].ready = kids[n].ready
  BY <1>a, <1>1 DEF Kids
<1>2. ASSUME KidReady(n)
      PROVE  /\ kids'[n].owner = kids[n].owner /\ kids'[n].deleting = kids[n].deleting
             /\ kids[n].ready = FALSE /\ kids'[n].ready /\ gone' = gone
  <2>1. kids[n] # Absent /\ kids'[n] = [kids[n] EXCEPT !.ready = TRUE] /\ ~kids[n].ready /\ gone' = gone
    BY <1>a, <1>2, Updates, Constructors DEF KidReady, KidChanges, TypeOK
  <2> QED BY <1>a, <2>1 DEF Kids
<1>3. ASSUME KidGone(n) PROVE kids'[n] = Absent /\ gone' = gone \cup ({kids[n].owner} \cap Comps)
  BY <1>a, <1>3 DEF KidGone, KidChanges, TypeOK
<1>4. ASSUME CreateChild(n)
      PROVE  /\ kids[n] = Absent /\ gone' = gone /\ kids'[n].owner = w.c
             /\ w.pc = "write" /\ w'.pc = "apply" /\ n \in w.child
  BY <1>a, <1>4 DEF CreateChild, NewChild, Writing, Applied, TypeOK, Workers, caches
<1>5. ASSUME UpdateChild(n)
      PROVE  /\ kids[n] = kcache[n] /\ gone' = gone /\ kids'[n].owner = w.c
             /\ kids[n].owner \in {w.c, "foreign"}
             /\ w.pc = "write" /\ w'.pc = "apply" /\ n \in w.child
             /\ kids'[n].ready = kids[n].ready /\ kids'[n].deleting = kids[n].deleting
  <2>1. kids[n] = kcache[n] /\ kids'[n] = Merged(n) /\ kids[n] # Absent
          /\ kids[n].owner \in {w.c, "foreign"} /\ w.pc = "write" /\ n \in w.child /\ gone' = gone
          /\ w'.pc = "apply"
    BY <1>a, <1>5 DEF UpdateChild, Ownable, Writing, Applied, TypeOK, Workers, caches
  <2> QED BY <1>a, <2>1 DEF Merged, Kids
<1>6. ASSUME kids[n] = Absent, kids'[n] = Foreign
      PROVE  kids'[n].owner = "foreign" /\ kids'[n].owner # w.c
  <2>1. Foreign.owner = "foreign"
    BY DEF Foreign, Absent
  <2>2. w.c # "foreign"
    BY <1>a, Updates DEF TypeOK, Workers
  <2> QED BY <1>6, <2>1, <2>2
<1> QED BY <1>1, <1>2, <1>3, <1>4, <1>5, <1>6, KidSteps

\* What the cache shows stays an earlier state of the child.
LEMMA EvolvedNext == Inv /\ Evolved /\ [Next]_vars => Evolved'
<1> SUFFICES ASSUME Inv, Evolved, Next PROVE Evolved'
  BY DEF Evolved, vars, api, caches
<1>a. TypeOK /\ Absent.owner = "nobody" /\ (\A c \in Comps : c # "nobody" /\ c # "foreign")
  BY Updates DEF Inv, Absent
<1>1. CASE kcache' = kids /\ kids' = kids
  BY <1>1 DEF Evolved
<1>2. CASE kcache' = kcache /\ gone \subseteq gone'
  <2> SUFFICES ASSUME NEW n \in Names, kcache[n].owner \in Comps, kcache[n].owner \notin gone',
                      kids'[n] # kcache[n]
               PROVE  /\ kids'[n].owner = kcache[n].owner
                      /\ kcache[n].ready => kids'[n].ready
                      /\ kcache[n].deleting => kids'[n].deleting
    BY <1>2 DEF Evolved
  <2>1. CASE kids'[n] = kids[n]
    BY <1>2, <2>1 DEF Evolved
  <2>2. CASE kids'[n] # kids[n]
    <3>1. kids[n].owner = kcache[n].owner
      BY <1>2 DEF Evolved
    <3>2. kids[n] # Absent /\ kids[n].owner \in Comps /\ kids'[n] # Absent
      BY <1>a, <1>2, <2>2, <3>1, KidFields
    <3>3. (kcache[n].ready => kids[n].ready) /\ (kcache[n].deleting => kids[n].deleting)
      BY <1>2 DEF Evolved
    <3> QED BY <1>a, <2>2, <3>1, <3>2, <3>3, KidFields
  <2> QED BY <2>1, <2>2
<1> QED BY <1>a, <1>1, <1>2, CacheSteps

\* A difference between a child and its cached state is not undone by what
\* happens to the child: its owner remains to be told.
LEMMA OwnersGrow ==
  ASSUME Inv, Evolved, Next, kcache' = kcache, gone \subseteq gone',
         NEW c \in OwnersOfChanged
  PROVE  c \in OwnersOfChanged'
<1>a. TypeOK /\ Absent.owner = "nobody" /\ c \in Comps /\ c # "nobody" /\ c # "foreign"
  BY Updates DEF Inv, Absent, OwnersOfChanged, TypeOK
<1> SUFFICES ASSUME c \notin gone'
             PROVE  \E n \in Names : kids'[n] # kcache'[n] /\ c \in {kids'[n].owner, kcache'[n].owner}
  BY <1>a DEF OwnersOfChanged
<1>1. PICK n \in Names : kids[n] # kcache[n] /\ c \in {kids[n].owner, kcache[n].owner}
  BY DEF OwnersOfChanged
<1>2. CASE kids'[n] = kids[n]
  BY <1>1, <1>2
<1>3. CASE kids'[n] # kids[n]
  <2>1. kcache[n].owner = c => kids[n].owner = c
    BY <1>a, <1>1 DEF Evolved
  <2>2. kids[n].owner = c /\ kids[n] # Absent
    BY <1>a, <1>1, <2>1
  <2>3. kids'[n] # Absent /\ kids[n] # kcache[n]
    BY <1>a, <1>1, <1>3, <2>2, KidFields
  <2>4. kids'[n].owner = c
    BY <1>3, <2>2, <2>3, KidFields
  <2>5. kcache[n].owner = c => /\ kcache[n].ready => kids[n].ready
                               /\ kcache[n].deleting => kids[n].deleting
    BY <1>a, <1>1 DEF Evolved
  <2>6. kids'[n] # kcache[n]
    BY <1>3, <2>2, <2>3, <2>4, <2>5, KidFields
  <2> QED BY <2>4, <2>6
<1> QED BY <1>2, <1>3

\* An event for c stays pending until a reconcile of c begins.
LEMMA NoticedGrows ==
  ASSUME Inv, Evolved, Next, NEW c \in Comps, Noticed(c), ~Get(c)
  PROVE  Noticed(c)'
<1>1. CASE c \in queued
  BY <1>1, QueueSteps DEF Noticed
<1>2. CASE c \in OwnersOfChanged
  <2>1. TypeOK
    BY DEF Inv
  <2> QED BY <1>2, <2>1, CacheSteps, OwnersGrow DEF Noticed
<1> QED BY <1>1, <1>2 DEF Noticed

\* Whatever happens to a child of c is an event for c.
LEMMA ChangeIsNoticed ==
  ASSUME Inv, Evolved, Next, NEW c \in Comps, NEW n \in Names,
         kids[n].owner = c, kids'[n] # kids[n]
  PROVE  Noticed(c)'
<1>1. kcache' = kcache /\ gone \subseteq gone'
  BY KidFields, KidSteps
<1>2. CASE kids[n] = kcache[n]
  BY <1>1, <1>2 DEF Noticed, OwnersOfChanged
<1>3. CASE kids[n] # kcache[n]
  <2>1. c \in OwnersOfChanged
    BY <1>3 DEF OwnersOfChanged
  <2> QED BY <1>1, <2>1, OwnersGrow DEF Noticed
<1> QED BY <1>2, <1>3

\* Only the reconcile of c makes a DoResource a child of c.
LEMMA NewChildren ==
  ASSUME Inv, Next, NEW c \in Comps, NEW n \in Names, kids'[n].owner = c, kids[n].owner # c
  PROVE  w.c = c /\ w.pc = "write" /\ w'.pc = "apply" /\ n \in w.child
<1>1. Absent.owner = "nobody" /\ c # "nobody" /\ c # "foreign"
  BY Updates DEF Absent
<1> QED BY <1>1, KidFields

\* While others act, what the worker has done so far stays done or is noticed.
LEMMA ProgressKept ==
  ASSUME Inv, Evolved, Progress, Next, w' = w
  PROVE  Progress'
<1>a. TypeOK /\ w.c \in Comps
  BY DEF Inv, TypeOK, Workers
<1>b. Busy /\ Noticed(w.c) => Noticed(w.c)'
  BY <1>a, NoticedGrows DEF Get, Busy
<1>c. Wanted(w.c, w.def)' = Wanted(w.c, w.def) /\ Todo' = Todo /\ Wanted(w.c, w.def) \subseteq Names
  BY DEF Wanted, Todo
<1>d. \A n \in Names : kids'[n].owner = w.c => kids[n].owner = w.c
  BY <1>a, NewChildren
<1>e. \A n \in Names : kids[n].owner = w.c /\ kids'[n] # kids[n] => Noticed(w.c)'
  BY <1>a, ChangeIsNoticed
<1>1. AppliedSoFar'
  <2> SUFFICES ASSUME Rendering, ~w.replacing, ~Noticed(w.c)', NEW n \in Wanted(w.c, w.def) \ Todo
               PROVE  Good(w.c, w.def, n)'
    BY <1>c DEF AppliedSoFar, Rendering
  <2>1. Good(w.c, w.def, n)
    BY <1>b DEF Progress, AppliedSoFar, Rendering, Busy
  <2> QED BY <1>c, <1>e, <2>1 DEF Good
<1>2. CheckedChild'
  <2> SUFFICES ASSUME w.pc = "write", NEW n \in w.child
               PROVE  n \in w.todo /\ (kids'[n].owner = w.c /\ kids'[n].deleting => Noticed(w.c)')
    BY DEF CheckedChild
  <2>1. n \in w.todo /\ (kids[n].owner = w.c /\ kids[n].deleting => Noticed(w.c)) /\ n \in Names
    BY <1>a DEF Progress, CheckedChild, TypeOK, Workers
  <2> QED BY <1>b, <1>d, <1>e, <2>1 DEF Busy
<1>3. PrunedSoFar'
  <2> SUFFICES ASSUME w.pc = "cull", ~Noticed(w.c)',
                      NEW n \in Names \ (Wanted(w.c, w.def) \cup w.todo), kids'[n].owner = w.c
               PROVE  kids'[n].deleting
    BY <1>c DEF PrunedSoFar
  <2>1. kids[n].owner = w.c => kids[n].deleting
    BY <1>b DEF Progress, PrunedSoFar, Busy
  <2> QED BY <1>d, <1>e, <2>1
<1> QED BY <1>1, <1>2, <1>3 DEF Progress

\* The worker's own steps: a child is out of the worker's hands only when it is
\* as rendered, to be replaced, or an event about it is under way.
LEMMA ProgressNext == Inv /\ Evolved /\ Progress /\ [Next]_vars => Progress'
<1> SUFFICES ASSUME Inv, Evolved, Progress, Next PROVE Progress'
  <2>1. CASE UNCHANGED vars
    BY <2>1 DEF vars, api, caches, Progress, AppliedSoFar, CheckedChild, PrunedSoFar, Rendering,
      Noticed, OwnersOfChanged, Good, Wanted, Todo
  <2> QED BY <2>1
<1>a. TypeOK /\ w \in Workers /\ w.c \in Comps
  BY DEF Inv, TypeOK, Workers
<1>b. Busy /\ Noticed(w.c) => Noticed(w.c)' \/ w'.c # w.c
  <2> SUFFICES ASSUME Busy, Noticed(w.c), w'.c = w.c PROVE Noticed(w.c)'
    OBVIOUS
  <2>1. PICK c \in Comps : c = w.c
    BY <1>a
  <2>2. Noticed(c)'
    BY <2>1, NoticedGrows DEF Get, Busy
  <2> QED BY <2>1, <2>2 DEF Noticed
<1>1. CASE ~Rendering'
  BY <1>1 DEF Rendering, Progress, AppliedSoFar, CheckedChild, PrunedSoFar
<1>2. CASE w' = w
  BY <1>2, ProgressKept
<1>3. CASE RenderComposite
  <2>1. w'.pc = "apply" /\ w'.todo = Wanted(w.c, w.def)'
    BY <1>a, <1>3 DEF RenderComposite, Reads, Workers, Wanted
  <2> QED BY <2>1 DEF Progress, AppliedSoFar, CheckedChild, PrunedSoFar, Todo
<1>4. ASSUME NEW n \in Names, ReplaceChild(n) PROVE Progress'
  <2>1. w'.pc = "apply" /\ w'.replacing
    BY <1>a, <1>4 DEF ReplaceChild, Applying, Workers
  <2> QED BY <2>1 DEF Progress, AppliedSoFar, CheckedChild, PrunedSoFar
<1>5. ASSUME NEW n \in Names, CheckChild(n) PROVE Progress'
  <2>1. /\ w'.pc = "write" /\ w.pc = "apply" /\ w'.child = {n} /\ n \in w.todo /\ w'.todo = w.todo
        /\ w'.c = w.c /\ w'.def = w.def /\ w'.replacing = w.replacing
        /\ UNCHANGED <<kids, kcache, gone, queued>>
    BY <1>a, <1>5 DEF CheckChild, Applying, Reads, Workers, api, caches
  <2>2. ~(kids[n].owner = w.c /\ kids[n].deleting)
    <3>1. Absent.owner # w.c
      BY <1>a, Updates DEF Absent
    <3> QED BY <1>5, <3>1 DEF CheckChild
  <2>3. Noticed(w.c)' <=> Noticed(w.c)
    BY <2>1 DEF Noticed, OwnersOfChanged
  <2>4. AppliedSoFar'
    BY <2>1, <2>3 DEF Progress, AppliedSoFar, Rendering, Good, Wanted, Todo
  <2>5. CheckedChild' /\ PrunedSoFar'
    BY <2>1, <2>2 DEF CheckedChild, PrunedSoFar
  <2> QED BY <2>4, <2>5 DEF Progress
<1>6. ASSUME NEW n \in Names, CreateChild(n) \/ UpdateChild(n) PROVE Progress'
  <2>1. PICK k : Applied(n, k)
    BY <1>6 DEF CreateChild, UpdateChild
  <2>2. /\ w'.pc = "apply" /\ w.pc = "write" /\ w'.todo = w.todo \ {n} /\ n \in w.child
        /\ w'.c = w.c /\ w'.def = w.def /\ w'.replacing = w.replacing
        /\ UNCHANGED <<kcache, gone, queued>>
    BY <1>a, <1>6, <2>1 DEF CreateChild, UpdateChild, Writing, Applied, Workers, caches
  <2>3. \A x \in Names \ {n} : kids'[x] = kids[x]
    BY <1>a, <1>6 DEF CreateChild, UpdateChild, TypeOK
  <2>4. \/ Noticed(w.c)'
        \/ kids'[n].owner = w.c /\ ~kids'[n].deleting /\ kids'[n].spec = Desired(n)
    <3>1. CASE CreateChild(n)
      BY <1>a, <3>1 DEF CreateChild, NewChild, TypeOK
    <3>2. CASE UpdateChild(n) /\ kids' # kids
      <4>1. kids'[n] # kids[n] /\ kids[n] = kcache[n] /\ kids'[n] = Merged(n) /\ kcache[n] # Absent
        BY <1>a, <3>2 DEF UpdateChild, Ownable, TypeOK
      <4>2. kids'[n].owner = w.c
        BY <1>a, <4>1 DEF Merged, TypeOK, Kids
      <4>3. w.c \in OwnersOfChanged'
        BY <1>a, <2>2, <4>1, <4>2 DEF OwnersOfChanged
      <4> QED BY <2>2, <4>3 DEF Noticed
    <3>3. CASE UpdateChild(n) /\ kids' = kids
      <4>1. Noticed(w.c)' <=> Noticed(w.c)
        BY <2>2, <3>3 DEF Noticed, OwnersOfChanged
      <4>2. kcache[n] = Merged(n) /\ kcache[n] # Absent /\ kcache[n] \in Kids
        BY <1>a, <3>3 DEF UpdateChild, Ownable, TypeOK
      <4>3. kcache[n].owner = w.c /\ kcache[n].spec = Desired(n)
        BY <4>2 DEF Merged, Kids
      <4>4. kids[n] # kcache[n] => Noticed(w.c)
        BY <1>a, <4>3 DEF Noticed, OwnersOfChanged
      <4>5. kids[n].owner = w.c /\ kids[n].deleting => Noticed(w.c)
        BY <2>2 DEF Progress, CheckedChild
      <4> QED BY <3>3, <4>1, <4>3, <4>4, <4>5
    <3> QED BY <1>6, <3>1, <3>2, <3>3
  <2>5. AppliedSoFar'
    <3> SUFFICES ASSUME ~w.replacing, ~Noticed(w.c)', NEW x \in Wanted(w.c, w.def), x \notin w.todo \ {n}
                 PROVE  Good(w.c, w.def, x)'
      BY <2>2 DEF AppliedSoFar, Wanted, Todo
    <3>1. CASE x = n
      BY <2>2, <2>4, <3>1 DEF Good, Desired
    <3>2. CASE x # n
      <4>1. Good(w.c, w.def, x)
        BY <1>b, <2>2, <3>2 DEF Progress, AppliedSoFar, Rendering, Busy, Todo
      <4> QED BY <2>2, <2>3, <3>2, <4>1 DEF Good, Wanted
    <3> QED BY <3>1, <3>2
  <2> QED BY <2>2, <2>5 DEF Progress, CheckedChild, PrunedSoFar
<1>7. ASSUME NEW n \in Names, PruneChild(n) PROVE Progress'
  <2>1. /\ w'.pc = "cull" /\ w.pc = "cull" /\ w'.todo = w.todo \ {n}
        /\ w'.c = w.c /\ w'.def = w.def /\ w'.replacing = w.replacing
    BY <1>a, <1>7 DEF PruneChild, Workers
  <2>2. \A x \in Names \ {n} : kids'[x] = kids[x]
    BY <1>a, <1>7 DEF PruneChild, DeleteByName, TypeOK
  <2>3. kids'[n].owner = w.c => kids'[n].deleting
    <3>1. CASE kids[n] = Absent
      <4>1. Absent.owner # w.c
        BY <1>a, Updates DEF Absent
      <4> QED BY <1>7, <3>1, <4>1 DEF PruneChild, DeleteByName
    <3>2. CASE kids[n] # Absent
      BY <1>a, <1>7, <3>2 DEF PruneChild, DeleteByName, TypeOK, Kids
    <3> QED BY <3>1, <3>2
  <2>4. kids[n].owner = w.c /\ kids'[n] # kids[n] => Noticed(w.c)'
    <3>1. PICK c \in Comps : c = w.c
      BY <1>a
    <3>2. kids[n].owner = c /\ kids'[n] # kids[n] => Noticed(c)'
      BY ChangeIsNoticed
    <3> QED BY <2>1, <3>1, <3>2 DEF Noticed
  <2>5. AppliedSoFar'
    <3> SUFFICES ASSUME ~w.replacing, ~Noticed(w.c)', NEW x \in Wanted(w.c, w.def)
                 PROVE  Good(w.c, w.def, x)'
      BY <2>1 DEF AppliedSoFar, Wanted, Todo
    <3>1. Good(w.c, w.def, x) /\ x \in Names
      BY <1>b, <2>1 DEF Progress, AppliedSoFar, Rendering, Busy, Todo, Wanted
    <3> QED BY <2>1, <2>2, <2>4, <3>1 DEF Good
  <2>6. PrunedSoFar'
    <3> SUFFICES ASSUME ~Noticed(w.c)', NEW x \in Names \ (Wanted(w.c, w.def) \cup (w.todo \ {n})),
                        kids'[x].owner = w.c
                 PROVE  kids'[x].deleting
      BY <2>1 DEF PrunedSoFar, Wanted
    <3>1. x # n /\ kids[x].owner = w.c => kids[x].deleting
      BY <1>b, <2>1 DEF Progress, PrunedSoFar, Busy
    <3> QED BY <2>2, <2>3, <3>1
  <2> QED BY <2>1, <2>5, <2>6 DEF Progress, CheckedChild
<1>8. CASE ListChildren
  <2>1. /\ w'.pc = "cull" /\ w.pc = "apply" /\ w.todo = {} /\ w'.todo = Superfluous
        /\ w'.c = w.c /\ w'.def = w.def /\ w'.replacing = w.replacing
        /\ UNCHANGED <<kids, kcache, gone, queued>>
    BY <1>a, <1>8 DEF ListChildren, Reads, Workers, api, caches
  <2>2. Noticed(w.c)' <=> Noticed(w.c)
    BY <2>1 DEF Noticed, OwnersOfChanged
  <2>3. AppliedSoFar'
    BY <2>1, <2>2 DEF Progress, AppliedSoFar, Rendering, Good, Wanted, Todo
  <2>4. PrunedSoFar'
    <3> SUFFICES ASSUME ~Noticed(w.c), NEW n \in Names \ (Wanted(w.c, w.def) \cup Superfluous),
                        kids[n].owner = w.c
                 PROVE  kids[n].deleting
      BY <2>1, <2>2 DEF PrunedSoFar, Wanted
    <3>1. kids[n] = kcache[n]
      BY <1>a DEF Noticed, OwnersOfChanged
    <3> QED BY <3>1 DEF Superfluous
  <2> QED BY <2>1, <2>3, <2>4 DEF Progress, CheckedChild
<1>9. CASE (\E c \in Comps : Get(c)) \/ Fails \/ Retry \/ WriteStatus \/ Crash
  <2>1. w' = Idle \/ \E c \in Comps : Get(c)
    BY <1>9 DEF Fails, Retry, WriteStatus, Crash, markCompositeFailed, persistCompositeStatus, Return
  <2>2. Idle.pc = "idle" /\ [Idle EXCEPT !.pc = "define"].pc = "define"
    BY DEF Idle
  <2>3. ASSUME NEW c \in Comps, Get(c) PROVE w'.pc \in {"idle", "define"}
    BY <2>2, <2>3, Constructors DEF Get, Workers
  <2> QED BY <1>1, <2>1, <2>2, <2>3 DEF Rendering
<1>10. CASE GetDefinition \/ UseLatestRevision \/ CreateRevision \/ PruneRevisions \/ PruningFails
              \/ (\E v \in Revs : DeleteRevision(v))
  <2>1. w'.pc \in {"revise", "prune", "resolve"}
    BY <1>a, <1>10 DEF GetDefinition, UseLatestRevision, CreateRevision, PruneRevisions,
      PruningFails, DeleteRevision, Reads, Workers
  <2> QED BY <1>1, <2>1 DEF Rendering
<1>11. CASE KidSync \/ RevSync \/ Kubernetes \/ User
  <2>1. w' = w
    BY <1>11 DEF KidSync, RevSync, Kubernetes, KidReady, KidGone, CollectGarbage, KidChanges, User,
      EditDefinition, SetPolicy, DeleteComposite, SetRevisionRef, UserWrites, UserActs,
      DeleteResource, CreateForeign
  <2> QED BY <1>2, <2>1
<1> QED BY <1>3, <1>4, <1>5, <1>6, <1>7, <1>8, <1>9, <1>10, <1>11, StepKinds

\* A recorded revision keeps its snapshot.
LEMMA SnapshotsStay ==
  ASSUME Inv, Next, NEW c \in Comps, comps[c].alive, comps[c].rev # 0
  PROVE  revs'[comps[c].rev] = revs[comps[c].rev]
<1>a. TypeOK /\ comps[c].rev \in Revs /\ revs[comps[c].rev] # NoDef
  BY DEF Inv, RevisionInv, RecordedRevisionSurvives, TypeOK, Composites, Revs
<1>1. CASE CreateRevision
  BY <1>a, <1>1 DEF CreateRevision, TypeOK
<1>2. ASSUME NEW v \in Revs, DeleteRevision(v) PROVE revs'[comps[c].rev] = revs[comps[c].rev]
  <2>1. v # comps[c].rev
    BY <1>2 DEF DeleteRevision, Inv, RevisionInv, Spared
  <2> QED BY <1>a, <1>2, <2>1 DEF DeleteRevision, TypeOK
<1>3. CASE (\E x \in Comps : Get(x)) \/ Fails \/ Retry \/ WriteStatus \/ Crash \/ GetDefinition
             \/ UseLatestRevision \/ PruneRevisions \/ PruningFails \/ RenderComposite \/ ListChildren
  BY <1>3 DEF Get, Fails, Retry, WriteStatus, Crash, GetDefinition, UseLatestRevision, PruneRevisions,
    PruningFails, RenderComposite, ListChildren, markCompositeFailed, persistCompositeStatus, Reads, api
<1>4. ASSUME NEW n \in Names, \/ ReplaceChild(n) \/ CheckChild(n) \/ CreateChild(n)
                               \/ UpdateChild(n) \/ PruneChild(n)
      PROVE  revs' = revs
  BY <1>4 DEF ReplaceChild, CheckChild, CreateChild, UpdateChild, PruneChild, Applied, Reads, api
<1>5. CASE KidSync \/ RevSync \/ Kubernetes \/ User
  BY <1>5 DEF KidSync, RevSync, Kubernetes, KidReady, KidGone, CollectGarbage, KidChanges, User,
    EditDefinition, SetPolicy, DeleteComposite, SetRevisionRef, UserWrites, UserActs,
    DeleteResource, CreateForeign, api
<1> QED BY <1>1, <1>2, <1>3, <1>4, <1>5, StepKinds

\* A composite changes in its own reconcile, or by a user's hand, which is an
\* event on it.
LEMMA CompositeSteps ==
  ASSUME Inv, Next, NEW c \in Comps, comps'[c] # comps[c]
  PROVE  c \in queued'
<1>a. TypeOK /\ w.c \in Comps
  BY DEF Inv, TypeOK, Workers
<1>1. ASSUME NEW v, NEW synced, NEW ready, NEW again, persistCompositeStatus(v, synced, ready, again)
      PROVE  c \in queued'
  <2>1. c = w.c /\ comps' # comps
    BY <1>a, <1>1 DEF persistCompositeStatus, TypeOK
  <2> QED BY <1>1, <2>1 DEF persistCompositeStatus, Return
<1>2. CASE Fails \/ WriteStatus
  BY <1>1, <1>2 DEF Fails, WriteStatus, markCompositeFailed
<1>3. CASE User
  <2>1. PICK x \in Comps : \E o : UserWrites(x, o)
    BY <1>3 DEF User, EditDefinition, SetPolicy, DeleteComposite, SetRevisionRef, DeleteResource,
      CreateForeign
  <2> QED BY <1>a, <2>1 DEF UserWrites, TypeOK
<1>4. ~(\E x \in Comps : Get(x)) /\ ~Retry /\ ~Crash /\ ~GetDefinition /\ ~UseLatestRevision
        /\ ~CreateRevision /\ ~PruneRevisions /\ ~(\E v \in Revs : DeleteRevision(v)) /\ ~PruningFails
        /\ ~RenderComposite /\ ~ListChildren /\ ~KidSync /\ ~RevSync /\ ~Kubernetes
  BY DEF Get, Retry, Crash, GetDefinition, UseLatestRevision, CreateRevision, PruneRevisions,
    DeleteRevision, PruningFails, RenderComposite, ListChildren, KidSync, RevSync, Kubernetes,
    KidReady, KidGone, CollectGarbage, KidChanges, Reads, api
<1>5. ~(\E n \in Names : \/ ReplaceChild(n) \/ CheckChild(n) \/ CreateChild(n)
                         \/ UpdateChild(n) \/ PruneChild(n))
  BY DEF ReplaceChild, CheckChild, CreateChild, UpdateChild, PruneChild, Applied, Reads, api
<1> QED BY <1>2, <1>3, <1>4, <1>5, StepKinds

\* A reconcile of c that ends without another one being due has rendered c.
LEMMA EndsRendered ==
  ASSUME Inv, Evolved, Progress, Next, NEW c \in Comps, Busy, w.c = c, ~(Busy' /\ w'.c = c),
         comps'[c].alive, ~Noticed(c)'
  PROVE  Rendered(c)'
<1>a. TypeOK /\ w \in Workers
  BY DEF Inv, TypeOK
<1>1. ~Noticed(c)
  BY NoticedGrows DEF Get, Busy
<1>2. comps'[c] = comps[c]
  BY CompositeSteps DEF Noticed
<1>3. ~Fails /\ ~Retry /\ ~Crash
  BY DEF Fails, Retry, Crash, markCompositeFailed, persistCompositeStatus, Return, Noticed
<1>4. ~(\E x \in Comps : Get(x))
  BY DEF Get, Busy
<1>5. ~(GetDefinition \/ UseLatestRevision \/ CreateRevision \/ PruneRevisions \/ PruningFails
          \/ RenderComposite \/ ListChildren)
  <2>1. ASSUME GetDefinition \/ UseLatestRevision \/ CreateRevision \/ PruneRevisions \/ PruningFails
                 \/ RenderComposite \/ ListChildren
        PROVE  w'.pc # "idle" /\ w'.c = w.c
    BY <1>a, <2>1 DEF GetDefinition, UseLatestRevision, CreateRevision, PruneRevisions, PruningFails,
      RenderComposite, ListChildren, Reads, Workers
  <2> QED BY <2>1 DEF Busy
<1>6. ~(\E v \in Revs : DeleteRevision(v))
  BY <1>a DEF DeleteRevision, Workers, Busy
<1>7. ~(\E n \in Names : \/ ReplaceChild(n) \/ CheckChild(n) \/ CreateChild(n)
                         \/ UpdateChild(n) \/ PruneChild(n))
  <2>1. ASSUME NEW n \in Names, ReplaceChild(n) \/ CheckChild(n) \/ PruneChild(n)
        PROVE  w'.pc # "idle" /\ w'.c = w.c
    BY <1>a, <2>1 DEF ReplaceChild, CheckChild, PruneChild, Applying, Reads, Workers
  <2>2. ASSUME NEW n \in Names, NEW k, Applied(n, k) PROVE w'.pc # "idle" /\ w'.c = w.c
    BY <1>a, <2>2 DEF Applied, Workers
  <2> QED BY <2>1, <2>2 DEF CreateChild, UpdateChild, Busy
<1>8. ~(KidSync \/ RevSync \/ Kubernetes \/ User)
  <2>1. KidSync \/ RevSync \/ Kubernetes \/ User => w' = w
    BY DEF KidSync, RevSync, Kubernetes, KidReady, KidGone, CollectGarbage, KidChanges, User,
      EditDefinition, SetPolicy, DeleteComposite, SetRevisionRef, UserWrites, UserActs,
      DeleteResource, CreateForeign
  <2> QED BY <2>1 DEF Busy
<1>9. WriteStatus
  BY <1>3, <1>4, <1>5, <1>6, <1>7, <1>8, StepKinds
<1>10. /\ UNCHANGED <<kids, revs>> /\ ~w.replacing /\ w.pc = "cull" /\ w.todo = {}
       /\ comps[c].alive => comps'[c].rev = w.rev
  BY <1>a, <1>9 DEF WriteStatus, persistCompositeStatus, Return, Noticed, TypeOK, Composites
<1>11. w.rev \in Revs /\ revs[w.rev] # NoDef /\ w.def = revs[w.rev]
  BY <1>10 DEF Inv, RevisionInv, Chosen, Rendering
<1>12. comps'[c].rev = w.rev /\ w.rev # 0
  BY <1>2, <1>10, <1>11 DEF Revs
<1>13. \A n \in Wanted(c, w.def) : Good(c, w.def, n)
  BY <1>1, <1>10 DEF Progress, AppliedSoFar, Rendering, Todo
<1>14. \A n \in Names \ Wanted(c, w.def) : kids[n].owner = c => kids[n].deleting
  BY <1>1, <1>10 DEF Progress, PrunedSoFar
<1> QED BY <1>10, <1>11, <1>12, <1>13, <1>14 DEF Rendered, Good, Wanted

\* What is rendered stays so until an event says otherwise.
LEMMA StaysRendered ==
  ASSUME Inv, Evolved, Next, NEW c \in Comps, ~(Busy /\ w.c = c), Rendered(c), comps[c].alive,
         ~Noticed(c)'
  PROVE  Rendered(c)'
<1>1. comps'[c] = comps[c]
  BY CompositeSteps DEF Noticed
<1>2. comps[c].rev # 0 /\ revs'[comps[c].rev] = revs[comps[c].rev]
  BY SnapshotsStay DEF Rendered
<1>3. \A n \in Names : kids[n].owner = c => kids'[n] = kids[n]
  BY ChangeIsNoticed
<1>4. \A n \in Names : kids'[n].owner = c => kids[n].owner = c
  BY NewChildren DEF Busy
<1> QED BY <1>1, <1>2, <1>3, <1>4 DEF Rendered, Wanted

\* A composite at rest is rendered, or an event for it is under way.
LEMMA SettledNext == Inv /\ SyncInv /\ [Next]_vars => Settled'
<1> SUFFICES ASSUME Inv, SyncInv, [Next]_vars PROVE Settled'
  OBVIOUS
<1>1. CASE UNCHANGED vars
  BY <1>1 DEF SyncInv, Settled, vars, api, caches, Busy, Noticed, OwnersOfChanged, Rendered, Wanted
<1>2. CASE Next
  <2> SUFFICES ASSUME NEW c \in Comps, comps'[c].alive, comps'[c].synced = "Synced",
                      ~(Busy' /\ w'.c = c), ~Noticed(c)'
               PROVE  Rendered(c)'
    BY DEF Settled
  <2>1. CASE Busy /\ w.c = c
    BY <1>2, <2>1, EndsRendered DEF SyncInv
  <2>2. CASE ~(Busy /\ w.c = c)
    <3>1. comps'[c] = comps[c]
      BY <1>2, CompositeSteps DEF Noticed
    <3>2. ~Get(c)
      BY <3>1 DEF Get, Idle, Busy
    <3>3. ~Noticed(c)
      BY <1>2, <3>2, NoticedGrows DEF SyncInv
    <3>4. Rendered(c)
      BY <2>2, <3>1, <3>3 DEF SyncInv, Settled
    <3> QED BY <1>2, <2>2, <3>1, <3>4, StaysRendered DEF SyncInv
  <2> QED BY <2>1, <2>2
<1> QED BY <1>1, <1>2

\* A composite that says Synced and for which no event is under way has exactly
\* the children of its recorded revision, for any number of composites,
\* templates, children, conflicts, crashes and edits.
THEOREM SyncedTheorem == Spec => []SyncedIsRendered
<1>1. Inv /\ SyncInv /\ [Next]_vars => (Inv /\ SyncInv)'
  BY InvNext, EvolvedNext, ProgressNext, SettledNext DEF SyncInv
<1>2. Inv /\ SyncInv => SyncedIsRendered
  <2> SUFFICES ASSUME SyncInv, NEW c \in Comps, comps[c].alive, comps[c].synced = "Synced", ~Awaited(c)
               PROVE  Rendered(c)
    BY DEF SyncedIsRendered
  <2>1. OwnersOfChanged = {} /\ c \notin queued /\ ~(Busy /\ w.c = c)
    BY DEF Awaited, OwnersOfChanged, Busy
  <2> QED BY <2>1 DEF SyncInv, Settled, Noticed
<1> QED BY InvInit, SyncInit, <1>1, <1>2, PTL DEF Spec
=============================================================================
