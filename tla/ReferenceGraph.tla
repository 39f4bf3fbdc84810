--------------------------- MODULE ReferenceGraph ---------------------------
(***************************************************************************)
(* Several DoResources that reference each other: the gate that makes a    *)
(* resource wait for its sources, the check that makes a teardown wait for *)
(* its dependents and usages, and the events that wake the neighbours      *)
(* (internal/controller/references.go and mapGraphNeighbors).              *)
(*                                                                         *)
(* The life of one resource is the one of module DoResource, cut down to   *)
(* three moments: an operation starts, the provider has carried it out,    *)
(* its result is written.  What matters here is what happens between them  *)
(* to the others, and that the checks read the informer caches, which lag  *)
(* behind the API server.  The cache of a kind holds an earlier state of   *)
(* all its objects and catches up at once.                                 *)
(***************************************************************************)
EXTENDS Naturals, FiniteSets

CONSTANTS
  N,            \* number of resources; names are compared by order
  UsageTargets, \* resources that can be the target of a DoUsage
  Graphs,       \* initial reference graphs
  Lates,        \* sets of resources that do not exist initially
  Born,         \* which resources may be provisioned initially
  Rewiring,     \* may the user edit references?
  MaxEdits,     \* bound on the number of user actions
  MaxErrors     \* bound on the failed reads of a reference source

Names == 1..N

ASSUME GraphAssumption ==
  /\ N \in Nat /\ UsageTargets \subseteq Names /\ Lates \subseteq SUBSET Names
  /\ Graphs \subseteq [Names -> SUBSET Names]
  /\ \A g \in Graphs : \A r \in Names : r \notin g[r]
  /\ Born \subseteq SUBSET Names
  /\ Rewiring \in BOOLEAN /\ MaxEdits \in Nat /\ MaxErrors \in Nat

VARIABLES
  api,      \* the objects on the API server
  cache,    \* the manager's informer cache of them
  usage,    \* targets of the existing DoUsages
  ucache,   \* the informer cache of those
  queued,   \* requests in the workqueue
  pc,       \* where the reconcile of each resource is
  dirty,    \* resources the user changed since their reconcile read them
  cloud,    \* resources whose external resource exists
  edits, errors,
  rewired,  \* history: references were edited
  torn,     \* history: external resources removed by a teardown
  late      \* history: recorded when a deletion was already requested, or not
            \* in the cache when a source began its teardown

watched == <<cache, ucache>>
bounds == <<edits, errors>>
ghosts == <<rewired, torn, late>>
vars == <<api, watched, usage, queued, pc, dirty, cloud, bounds, ghosts>>

Objects == [exists : BOOLEAN, fin : BOOLEAN, deleting : BOOLEAN,
            refs : SUBSET Names, id : BOOLEAN,
            synced : {"None", "CyclicReference", "InvalidReferences", "Synced"},
            ready : {"None", "CyclicReference", "InvalidReferences",
                     "WaitingForDependency", "BlockedByDependents", "Available"}]

TypeOK ==
  /\ api \in [Names -> Objects] /\ cache \in [Names -> Objects]
  /\ usage \subseteq Names /\ ucache \subseteq Names /\ queued \subseteq Names
  /\ pc \in [Names -> {"idle", "create", "made", "delete", "gone"}]
  /\ dirty \subseteq Names /\ cloud \subseteq Names
  /\ edits \in Nat /\ errors \in Nat
  /\ rewired \in BOOLEAN /\ torn \subseteq Names /\ late \subseteq Names

NewObject(S) ==
  [exists |-> TRUE, fin |-> FALSE, deleting |-> FALSE, refs |-> S, id |-> FALSE,
   synced |-> "None", ready |-> "None"]
OldObject(S) ==
  [exists |-> TRUE, fin |-> TRUE, deleting |-> FALSE, refs |-> S, id |-> TRUE,
   synced |-> "Synced", ready |-> "Available"]

\* New objects, or provisioned ones whose references the user has edited since
\* (only so can provisioned resources be on a cycle).

Init ==
  /\ \E g \in Graphs, B \in Born, L \in Lates :
       /\ api = [r \in Names |-> IF r \in B THEN OldObject(g[r])
                    ELSE [NewObject(g[r]) EXCEPT !.exists = r \notin L]]
       /\ cloud = B
  /\ cache = api
  /\ usage = {} /\ ucache = {}
  /\ queued = {r \in Names : api[r].exists}
  /\ pc = [r \in Names |-> "idle"]
  /\ dirty = {} /\ edits = 0 /\ errors = 0
  /\ rewired = FALSE /\ torn = {} /\ late = {}

-----------------------------------------------------------------------------
(* The walks over the reference graph *)

refsOf(c, r) == IF c[r].exists THEN c[r].refs ELSE {}

\* All that is reachable from S through the objects in c, never through stop:
\* what is in every set that contains S and the references of its members.
Closure(c, S, stop) ==
  {y \in Names : \A T \in SUBSET Names :
     S \subseteq T /\ (\A x \in T \ stop : refsOf(c, x) \subseteq T) => y \in T}

dependentsOf(c, r) == {d \in Names \ {r} : r \in refsOf(c, d)}

reaches(r, target) == target \in Closure(cache, api[r].refs, {r})

detectCycle(r) == r \in Closure(cache, refsOf(cache, r), {})

\* Mutation: no tie-break for resources that reference each other.
NoTieBreak(r) ==
  {d \in dependentsOf(cache, r) : ~(cache[d].deleting /\ ~cache[d].id)}

\* Mutation: a terminating dependent never blocks.
IgnoresTerminating(r) ==
  {d \in dependentsOf(cache, r) : ~cache[d].deleting}

\* The dependents that must be torn down before r.
blockingDependents(r) ==
  {d \in dependentsOf(cache, r) :
     ~ /\ cache[d].deleting
       /\ ~cache[d].id \/ (reaches(r, d) /\ r > d)}

blockingUsages(r) == r \in ucache

Blocked(r) == blockingUsages(r) \/ blockingDependents(r) # {}

\* resolveReferences reads the sources from the API server.
Waiting(r) == \E s \in api[r].refs : ~api[s].exists \/ ~api[s].id

-----------------------------------------------------------------------------
(* Reconcile of one resource, up to its operation *)

Starts(r) ==
  /\ r \in queued /\ pc[r] = "idle"
  /\ dirty' = dirty \ {r}
  /\ UNCHANGED <<watched, usage, cloud, edits, rewired, torn>>

Writes(r, o) == api' = [api EXCEPT ![r] = o]

\* The request is done, or comes back after a delay.
Done(r) == queued' = queued \ {r} /\ UNCHANGED pc
Again(r) == queued' = queued \cup {r} /\ UNCHANGED pc
Operates(r, p) == queued' = queued \ {r} /\ pc' = [pc EXCEPT ![r] = p]

Vanished(r) ==
  /\ Starts(r) /\ ~api[r].exists
  /\ Done(r) /\ UNCHANGED <<api, errors, late>>

Passing(r) == Starts(r) /\ api[r].exists /\ ~api[r].deleting /\ UNCHANGED late

\* markSyncFailed without retry: Ready follows while there is no id.
Fails(r, reason) ==
  /\ Writes(r, [api[r] EXCEPT !.fin = TRUE, !.synced = reason,
                              !.ready = IF api[r].id THEN @ ELSE reason])
  /\ Done(r)

CyclicReference(r) ==
  /\ Passing(r) /\ api[r].refs # {} /\ detectCycle(r)
  /\ Fails(r, "CyclicReference") /\ UNCHANGED errors

\* Reading a source fails, for whatever reason.
InvalidReferences(r) ==
  /\ Passing(r) /\ api[r].refs # {} /\ ~detectCycle(r)
  /\ errors < MaxErrors /\ errors' = errors + 1
  /\ Fails(r, "InvalidReferences")

Passes(r) == Passing(r) /\ ~(api[r].refs # {} /\ detectCycle(r)) /\ UNCHANGED errors

WaitingForDependency(r) ==
  /\ Passes(r) /\ Waiting(r)
  /\ Writes(r, [api[r] EXCEPT !.fin = TRUE, !.ready = "WaitingForDependency"])
  /\ Again(r)

\* The finalizer is added in any case; a settled resource is only refreshed,
\* again and again.
Settled(r) ==
  /\ Passes(r) /\ ~Waiting(r) /\ api[r].id
  /\ Writes(r, [api[r] EXCEPT !.fin = TRUE, !.synced = "Synced", !.ready = "Available"])
  /\ Again(r)

Create(r) ==
  /\ Passes(r) /\ ~Waiting(r) /\ ~api[r].id
  /\ Writes(r, [api[r] EXCEPT !.fin = TRUE])
  /\ Operates(r, "create")

Terminating(r) == Starts(r) /\ api[r].exists /\ api[r].deleting /\ UNCHANGED errors

\* Mutation: the wrong condition is set.
BlockedInSynced(r) ==
  /\ Terminating(r) /\ Blocked(r)
  /\ Writes(r, [api[r] EXCEPT !.synced = "BlockedByDependents"])
  /\ Again(r) /\ UNCHANGED late

BlockedByDependents(r) ==
  /\ Terminating(r) /\ Blocked(r)
  /\ Writes(r, [api[r] EXCEPT !.ready = "BlockedByDependents"])
  /\ Again(r) /\ UNCHANGED late

Delete(r) ==
  /\ Terminating(r) /\ ~Blocked(r) /\ api[r].id
  /\ Operates(r, "delete")
  /\ late' = late \cup {d \in dependentsOf(api, r) : ~cache[d].exists}
  /\ UNCHANGED api

NothingToDelete(r) ==
  /\ Terminating(r) /\ ~Blocked(r) /\ ~api[r].id
  /\ Writes(r, [api[r] EXCEPT !.exists = FALSE])
  /\ Done(r) /\ UNCHANGED late

-----------------------------------------------------------------------------
(* The operation and its result *)

Provision(r) ==
  /\ pc[r] = "create"
  /\ pc' = [pc EXCEPT ![r] = "made"]
  /\ cloud' = cloud \cup {r}
  /\ UNCHANGED <<api, watched, usage, queued, dirty, bounds, ghosts>>

\* A deletion of r or of one of its sources was requested already.
Doomed(r) == api[r].deleting \/ \E s \in api[r].refs : ~api[s].exists \/ api[s].deleting

Record(r) ==
  /\ pc[r] = "made"
  /\ pc' = [pc EXCEPT ![r] = "idle"]
  /\ Writes(r, [api[r] EXCEPT !.id = TRUE, !.synced = "Synced", !.ready = "Available"])
  /\ late' = IF Doomed(r) THEN late \cup {r} ELSE late
  /\ queued' = queued \cup {r}
  /\ UNCHANGED <<watched, usage, dirty, cloud, bounds, rewired, torn>>

Destroy(r) ==
  /\ pc[r] = "delete"
  /\ pc' = [pc EXCEPT ![r] = "gone"]
  /\ cloud' = cloud \ {r}
  /\ torn' = torn \cup {r}
  /\ UNCHANGED <<api, watched, usage, queued, dirty, bounds, rewired, late>>

\* The Update that releases the finalizer; it fails if the object changed.
Release(r) ==
  /\ pc[r] = "gone"
  /\ pc' = [pc EXCEPT ![r] = "idle"]
  /\ \/ r \notin dirty /\ Writes(r, [api[r] EXCEPT !.exists = FALSE]) /\ UNCHANGED queued
     \/ r \in dirty /\ queued' = queued \cup {r} /\ UNCHANGED api
  /\ UNCHANGED <<watched, usage, dirty, cloud, bounds, ghosts>>

-----------------------------------------------------------------------------
(* The watches *)

SpecChanged(o, p) ==
  o.refs # p.refs \/ o.deleting # p.deleting \/ o.exists # p.exists

\* Mutation: only the object itself is woken.
NoNeighbors(c, r) == {}

\* Whom an event on r wakes, computed from either version of r.
mapGraphNeighbors(c, r) ==
  dependentsOf(api, r) \cup (IF c[r].deleting THEN c[r].refs \ {r} ELSE {})

\* The cache of DoResources catches up; every change is an event.
CacheSync ==
  /\ cache # api
  /\ cache' = api
  /\ LET changed == {r \in Names : api[r] # cache[r]}
     IN queued' = queued
          \cup {r \in changed : SpecChanged(cache[r], api[r])}
          \cup UNION {mapGraphNeighbors(cache, r) \cup mapGraphNeighbors(api, r)
                        : r \in changed}
  /\ UNCHANGED <<api, usage, ucache, pc, dirty, cloud, bounds, ghosts>>

\* The cache of DoUsages catches up; mapUsageTarget wakes the targets.
UsageSync ==
  /\ ucache # usage
  /\ ucache' = usage
  /\ queued' = queued \cup (usage \ ucache) \cup (ucache \ usage)
  /\ UNCHANGED <<api, cache, usage, pc, dirty, cloud, bounds, ghosts>>

-----------------------------------------------------------------------------
(* The user *)

UserActs ==
  /\ edits < MaxEdits /\ edits' = edits + 1
  /\ UNCHANGED <<watched, queued, pc, cloud, errors, torn, late>>

Apply(r) ==
  /\ UserActs /\ ~api[r].exists /\ ~api[r].deleting
  /\ Writes(r, [api[r] EXCEPT !.exists = TRUE])
  /\ UNCHANGED <<usage, dirty, rewired>>

EditReferences(r, S) ==
  /\ Rewiring /\ UserActs /\ api[r].exists /\ S # api[r].refs /\ r \notin S
  /\ Writes(r, [api[r] EXCEPT !.refs = S])
  /\ dirty' = dirty \cup {r} /\ rewired' = TRUE
  /\ UNCHANGED usage

\* Without finalizer the object goes at once.
RequestDelete(r) ==
  /\ UserActs /\ api[r].exists /\ ~api[r].deleting
  /\ Writes(r, [api[r] EXCEPT !.deleting = TRUE, !.exists = api[r].fin])
  /\ dirty' = dirty \cup {r}
  /\ UNCHANGED <<usage, rewired>>

ToggleUsage(r) ==
  /\ UserActs /\ r \in UsageTargets
  /\ usage' = IF r \in usage THEN usage \ {r} ELSE usage \cup {r}
  /\ UNCHANGED <<api, dirty, rewired>>

-----------------------------------------------------------------------------
Reconcile(r) ==
  \/ Vanished(r) \/ CyclicReference(r) \/ WaitingForDependency(r) \/ Settled(r)
  \/ Create(r) \/ BlockedByDependents(r) \/ Delete(r) \/ NothingToDelete(r)
  \/ Record(r) \/ Release(r)

Operation(r) == Provision(r) \/ Destroy(r)

User(r) ==
  \/ Apply(r) \/ RequestDelete(r) \/ ToggleUsage(r)
  \/ \E S \in SUBSET Names : EditReferences(r, S)

Next ==
  \/ \E r \in Names : Reconcile(r) \/ InvalidReferences(r) \/ Operation(r) \/ User(r)
  \/ CacheSync \/ UsageSync

Spec == Init /\ [][Next]_vars

\* Four workers serve the queue, the provider answers, the watches deliver.
FairSpec ==
  /\ Spec
  /\ \A r \in Names : WF_vars(Reconcile(r)) /\ WF_vars(Operation(r))
  /\ WF_vars(CacheSync) /\ WF_vars(UsageSync)

-----------------------------------------------------------------------------
(* Properties *)

\* Reachability in the graph of the specs, and among the objects that exist.
Connects(r, d) ==
  d \in Closure([x \in Names |-> [api[x] EXCEPT !.exists = TRUE]], api[r].refs, {})
Leads(r, d) == d \in Closure(api, refsOf(api, r), {})

\* Reverse-topological deletion: an external resource that a teardown removed
\* had no recorded dependent left, unless the two reference each other and its
\* name is the greater one, the dependent was recorded when a deletion of it
\* or of its source had been requested already, or the cache had not shown it
\* yet (a dependent that an event of a neighbour or a usage woke before its
\* own).  The check reads that cache, and other workers create and delete the
\* dependents meanwhile.
DependentsGoFirst ==
  ~rewired =>
    \A s \in torn : \A d \in (cloud \cap dependentsOf(api, s)) \ late :
      api[d].id => s > d /\ Connects(s, d)

\* Whoever keeps r from being torn down: a usage, or a resource that is not
\* being deleted and depends on r, directly or not.
Held(r) ==
  \/ r \in usage
  \/ \E h \in Names : /\ Leads(h, r) /\ api[h].exists
                      /\ ~api[h].deleting \/ h \in usage

\* A terminating resource disappears unless something that is not terminating
\* holds it: no cycle of references and no order of events leaves resources
\* waiting for each other.
TeardownCompletes == <>[](\A r \in Names : api[r].exists /\ api[r].deleting => Held(r))

\* Nothing stands in the way of r: no cycle, no missing or terminating source.
Clear(r) == api[r].exists /\ ~api[r].deleting /\ ~Leads(r, r)
Provisionable(r) ==
  Clear(r) /\ \A s \in Names : Connects(r, s) => Clear(s)

Provisioned(r) == api[r].id /\ api[r].synced = "Synced"
Invalid(r) == \E s \in Names : (s = r \/ Connects(r, s)) /\ api[s].synced = "InvalidReferences"

\* A resource whose sources can all be provisioned is provisioned and synced in
\* the end, unless it or a source was declared invalid.  CyclicReference is not
\* retried: once the user has broken a cycle, the events of the neighbours alone
\* must reach every resource that was on it, through caches that lag.
Provisions ==
  <>[](\A r \in Names : Provisionable(r) /\ ~Invalid(r) => Provisioned(r))
=============================================================================
