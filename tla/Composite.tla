------------------------------ MODULE Composite ------------------------------
(***************************************************************************)
(* DoComposites of one DoCompositeDefinition: the numbered revisions that  *)
(* snapshot its spec, the revision each composite renders from, and the    *)
(* child DoResources it applies, replaces and prunes                       *)
(* (internal/controller/docomposite_controller.go, composite_revision.go). *)
(*                                                                         *)
(* The controller has one worker, so there is one set of locals; between   *)
(* two calls to the API server the users, the DoResource controller and    *)
(* the informer caches move.  Composites, the definition and single        *)
(* objects are read live; lists of revisions and of children, and the Get  *)
(* inside CreateOrUpdate, come from caches that lag.  Events on composites *)
(* and on the definition reach the queue at once, events on children when  *)
(* their cache catches up; revisions are not watched.                      *)
(***************************************************************************)
EXTENDS Integers, FiniteSets

CONSTANTS
  Comps,         \* composites of the definition
  Defs,          \* specs of the definition
  NoDef,         \* no definition, no revision
  Names,         \* names of DoResources in the namespace
  Types,         \* resource types
  Params,        \* what a spec says besides its type
  NoSpec,        \* no such child
  Render,        \* Render[c][d][n]: the child n that c gets from d
  Broken,        \* specs that fail to render
  BrokenOutputs, \* specs whose outputs fail to render
  Firsts,        \* initial specs of the definition
  Policies,      \* initial update policies: is it Manual?
  Pins,          \* values users give to revisionRef
  Foreigners,    \* names a DoResource of somebody else may have initially
  HistoryLimit,  \* revisions kept beyond the referenced ones
  MaxRevs,       \* bound on the number of revisions
  MaxEdits,      \* bound on the number of user actions
  MaxFaults      \* bound on failed calls and crashes

Specs == [type : Types, params : Params]
AnySpec == Specs \cup {NoSpec}
AnyDef == Defs \cup {NoDef}
Revs == 1..MaxRevs

ASSUME CompositeAssumption ==
  /\ NoDef \notin Defs /\ NoSpec \notin Specs
  /\ Comps \cap {"nobody", "foreign"} = {} /\ Comps # {} /\ IsFiniteSet(Comps)
  /\ Render \in [Comps -> [Defs -> [Names -> AnySpec]]]
  /\ Broken \subseteq Defs /\ BrokenOutputs \subseteq Defs
  /\ Firsts \subseteq AnyDef /\ Foreigners \subseteq Names
  /\ Policies \subseteq BOOLEAN /\ Pins \subseteq -1..MaxRevs
  /\ HistoryLimit \in Nat \ {0, 1} /\ MaxRevs \in Nat
  /\ MaxEdits \in Nat /\ MaxFaults \in Nat

VARIABLES
  def,       \* spec of the definition
  usage,     \* its status.composites
  comps,     \* the composites: spec and status
  revs,      \* the revisions: number -> snapshot
  rcache,    \* the informer cache of revisions
  kids,      \* the DoResources
  kcache,    \* the informer cache of DoResources
  gone,      \* owners of DoResources whose removal the watch has yet to report
  queued,    \* requests in the workqueue
  w,         \* the worker's locals
  edits, faults,
  known,     \* history: foreign DoResources the worker could know of
  harmed,    \* history: those of them it overwrote or deleted
  misled     \* history: composites given an outdated revision as latest

api == <<def, usage, comps, revs, kids>>
caches == <<rcache, kcache, gone>>
bounds == <<edits, faults>>
ghosts == <<known, harmed, misled>>
vars == <<api, caches, queued, w, bounds, ghosts>>

-----------------------------------------------------------------------------
Reasons == {"None", "Synced", "DefinitionNotFound", "RevisionNotFound",
            "RevisionInvalid", "RenderFailed", "ApplyFailed"}
\* ref: 0 for none, -1 for a revision of another definition.
Composites == [alive : BOOLEAN, manual : BOOLEAN, ref : -1..MaxRevs,
               rev : 0..MaxRevs, synced : Reasons,
               ready : {"None", "Failed", "ReplacingChildren",
                        "ChildrenNotReady", "Available"}]
NewComposite == [alive |-> TRUE, manual |-> FALSE, ref |-> 0, rev |-> 0,
                 synced |-> "None", ready |-> "None"]
Absent == [owner |-> "nobody", spec |-> NoSpec, deleting |-> FALSE, ready |-> FALSE]
Foreign == [Absent EXCEPT !.owner = "foreign"]
Kids == {Absent} \cup [owner : Comps \cup {"foreign"}, spec : AnySpec,
                       deleting : BOOLEAN, ready : BOOLEAN]

\* comp: a copy of composite c; def: the spec to snapshot, later the one to
\* render; latest: the newest revision; rev: the one rendered; drop: revisions
\* to delete; todo: children to apply or prune; child: the one being written.
Workers ==
  [pc : {"idle", "define", "revise", "prune", "resolve", "apply", "write", "cull"},
   c : Comps, comp : Composites, def : AnyDef, latest : 0..MaxRevs,
   rev : 0..MaxRevs, drop : SUBSET Revs, todo : SUBSET Names, child : SUBSET Names,
   replacing : BOOLEAN, ready : BOOLEAN]
Idle == [pc |-> "idle", c |-> CHOOSE c \in Comps : TRUE, comp |-> NewComposite,
         def |-> NoDef, latest |-> 0, rev |-> 0, drop |-> {}, todo |-> {},
         child |-> {}, replacing |-> FALSE, ready |-> TRUE]

TypeOK ==
  /\ def \in AnyDef /\ usage \in Nat
  /\ comps \in [Comps -> Composites]
  /\ revs \in [Revs -> AnyDef] /\ rcache \in [Revs -> AnyDef]
  /\ kids \in [Names -> Kids] /\ kcache \in [Names -> Kids]
  /\ queued \subseteq Comps /\ gone \subseteq Comps
  /\ w \in Workers
  /\ edits \in Nat /\ faults \in Nat
  /\ known \subseteq Names /\ harmed \subseteq Names /\ misled \subseteq Comps

Init ==
  /\ def \in Firsts /\ usage = 0
  /\ comps \in [Comps -> {[NewComposite EXCEPT !.manual = m] : m \in Policies}]
  /\ revs = [v \in Revs |-> NoDef] /\ rcache = revs
  /\ \E F \in SUBSET Foreigners :
       kids = [n \in Names |-> IF n \in F THEN Foreign ELSE Absent]
  /\ kcache = kids /\ gone = {}
  /\ queued = Comps
  /\ w = Idle
  /\ edits = 0 /\ faults = 0
  /\ known = {} /\ harmed = {} /\ misled = {}

-----------------------------------------------------------------------------
(* Building blocks *)

\* A step of the worker that calls the API server only to read.
Reads(v) == w' = v /\ UNCHANGED <<api, caches, queued, bounds>>

\* Reconcile returns; S: composites that are to be reconciled again.
Return(S) == w' = Idle /\ known' = {} /\ queued' = queued \cup S

\* The status is written; a change of it is an event on the composite itself.
persistCompositeStatus(v, synced, ready, again) ==
  LET c == w.c
      o == [comps[c] EXCEPT !.rev = v, !.synced = synced, !.ready = ready]
  IN /\ comps' = IF comps[c].alive THEN [comps EXCEPT ![c] = o] ELSE comps
     /\ Return(IF again \/ comps' # comps THEN {c} ELSE {})
     /\ UNCHANGED <<def, usage, revs, kids, caches, edits, harmed, misled>>

\* Mutation: a failure is not looked at again.
NoBackstop(reason) == persistCompositeStatus(w.comp.rev, reason, "Failed", FALSE)

\* The status is written with the revision recorded before.
markCompositeFailed(reason) ==
  persistCompositeStatus(w.comp.rev, reason, "Failed", TRUE)

\* The error is returned and the reconcile retried.
Retry == Return({w.c}) /\ UNCHANGED <<api, caches, edits, harmed, misled>>

-----------------------------------------------------------------------------
(* Reconcile: composite, definition and revision *)

Get(c) ==
  /\ w.pc = "idle" /\ c \in queued
  /\ queued' = queued \ {c}
  /\ w' = IF comps[c].alive
          THEN [Idle EXCEPT !.pc = "define", !.c = c, !.comp = comps[c]] ELSE Idle
  /\ known' = IF comps[c].alive
              THEN {n \in Names : kids[n] = Foreign /\ kcache[n] = Foreign} ELSE {}
  /\ UNCHANGED <<api, caches, bounds, harmed, misled>>

DefinitionNotFound ==
  /\ w.pc = "define" /\ def = NoDef
  /\ markCompositeFailed("DefinitionNotFound") /\ UNCHANGED faults

\* Mutation: the definition is not watched.
NotWatched == {}

\* An event on the definition queues all its composites.
mapDefinition == Comps

\* updateDefinitionUsage writes the definition's status, which is an event too.
GetDefinition ==
  /\ w.pc = "define" /\ def # NoDef
  /\ w' = [w EXCEPT !.pc = "revise", !.def = def]
  /\ usage' = Cardinality({c \in Comps : comps[c].alive})
  /\ queued' = IF usage' # usage THEN queued \cup mapDefinition ELSE queued
  /\ UNCHANGED <<def, comps, revs, kids, caches, bounds, ghosts>>

\* The highest number in r, or 0.
Newest(r) ==
  CHOOSE v \in 0..MaxRevs : /\ v = 0 \/ r[v] # NoDef
                            /\ \A x \in Revs : r[x] # NoDef => x <= v

Current == Newest(rcache) # 0 /\ rcache[Newest(rcache)] = w.def

\* The newest revision in the cache snapshots the definition.
UseLatestRevision ==
  /\ w.pc = "revise" /\ Current
  /\ Reads([w EXCEPT !.pc = "resolve", !.latest = Newest(rcache)])
  /\ misled' = misled \ {w.c}
  /\ UNCHANGED <<known, harmed>>

\* Create the next revision, or read the one that has its name already.
CreateRevision ==
  /\ w.pc = "revise" /\ ~Current
  /\ LET next == Newest(rcache) + 1
     IN /\ next <= MaxRevs
        /\ revs' = [revs EXCEPT ![next] = IF @ = NoDef THEN w.def ELSE @]
        /\ w' = [w EXCEPT !.pc = "prune", !.latest = next]
        /\ misled' = IF revs'[next] = w.def THEN misled \ {w.c} ELSE misled \cup {w.c}
  /\ UNCHANGED <<def, usage, comps, kids, caches, queued, bounds, known, harmed>>

Old == {v \in Revs : rcache[v] # NoDef /\ v <= w.latest - HistoryLimit}

\* Mutation: only what composites pin by revisionRef is kept.
PrunesRecorded == Old \ {comps[c].ref : c \in Comps}

\* pruneRevisions: old revisions in the cache that no live composite refers to.
Prunable ==
  Old \ UNION {{comps[c].ref, comps[c].rev} : c \in {x \in Comps : comps[x].alive}}

\* Composites have been listed; the deletions follow.
PruneRevisions ==
  /\ w.pc = "prune"
  /\ Reads([w EXCEPT !.pc = "resolve", !.drop = Prunable])
  /\ UNCHANGED ghosts

DeleteRevision(v) ==
  /\ w.pc = "resolve" /\ v \in w.drop
  /\ w' = [w EXCEPT !.drop = @ \ {v}]
  /\ revs' = [revs EXCEPT ![v] = NoDef]
  /\ UNCHANGED <<def, usage, comps, kids, caches, queued, bounds, ghosts>>

\* Mutation: the update policy is ignored.
FollowsLatest == w.comp.ref

\* revisionRef wins; a Manual composite stays where it is.
Pinned == IF w.comp.ref # 0 THEN w.comp.ref
          ELSE IF w.comp.manual THEN w.comp.rev ELSE 0

Resolving == w.pc = "resolve" /\ w.drop = {}
Resolved == IF Pinned = 0 THEN w.latest ELSE Pinned

RevisionNotFound ==
  /\ Resolving /\ Pinned \in Revs \ {w.latest} /\ revs[Pinned] = NoDef
  /\ markCompositeFailed("RevisionNotFound") /\ UNCHANGED faults

RevisionInvalid ==
  /\ Resolving /\ Pinned = -1
  /\ markCompositeFailed("RevisionInvalid") /\ UNCHANGED faults

Resolves ==
  Resolving /\ Resolved \in Revs /\ (Resolved # w.latest => revs[Resolved] # NoDef)

\* The snapshot resolved; the newest one may come from the cache.
Snapshot == IF rcache[Resolved] # NoDef THEN rcache[Resolved] ELSE revs[Resolved]

RenderFailed ==
  /\ Resolves /\ Snapshot \in Broken
  /\ markCompositeFailed("RenderFailed") /\ UNCHANGED faults

Wanted(c, d) == {n \in Names : Render[c][d][n] # NoSpec}

RenderComposite ==
  /\ Resolves /\ Snapshot \notin Broken
  /\ Reads([w EXCEPT !.pc = "apply", !.rev = Resolved, !.def = Snapshot,
                     !.todo = Wanted(w.c, Snapshot)])
  /\ UNCHANGED ghosts

-----------------------------------------------------------------------------
(* applyChild *)

Desired(n) == Render[w.c][w.def][n]
Applying(n) == w.pc = "apply" /\ n \in w.todo

NameCollides(n) ==
  /\ Applying(n) /\ kids[n] # Absent /\ kids[n].owner # w.c
  /\ markCompositeFailed("ApplyFailed") /\ UNCHANGED faults

\* The child is on its way out, or its type changed: it is deleted, under a
\* precondition on its uid, and created again by a later reconcile.
ReplaceChild(n) ==
  /\ Applying(n) /\ kids[n].owner = w.c
  /\ kids[n].deleting \/ kids[n].spec.type # Desired(n).type
  /\ kids' = [kids EXCEPT ![n].deleting = TRUE]
  /\ w' = [w EXCEPT !.todo = @ \ {n}, !.replacing = TRUE, !.ready = FALSE]
  /\ UNCHANGED <<def, usage, comps, revs, caches, queued, bounds, ghosts>>

CheckChild(n) ==
  /\ Applying(n)
  /\ \/ kids[n] = Absent
     \/ /\ kids[n].owner = w.c /\ ~kids[n].deleting
        /\ kids[n].spec.type = Desired(n).type
  /\ Reads([w EXCEPT !.pc = "write", !.child = {n}])
  /\ UNCHANGED ghosts

Writing(n) == w.pc = "write" /\ n \in w.child

\* The child is as in k now.
Applied(n, k) ==
  /\ w' = [w EXCEPT !.pc = "apply", !.todo = @ \ {n}, !.child = {},
                    !.ready = @ /\ k.ready]
  /\ harmed' = IF kids' # kids /\ kids[n].owner = "foreign" /\ n \in known
               THEN harmed \cup {n} ELSE harmed
  /\ UNCHANGED <<def, usage, comps, revs, caches, queued, bounds, known, misled>>

NewChild(n) == [owner |-> w.c, spec |-> Desired(n), deleting |-> FALSE, ready |-> FALSE]

\* CreateOrUpdate finds nothing in the cache.
CreateChild(n) ==
  /\ Writing(n) /\ kcache[n] = Absent /\ kids[n] = Absent
  /\ kids' = [kids EXCEPT ![n] = NewChild(n)]
  /\ Applied(n, NewChild(n))

Merged(n) == [kcache[n] EXCEPT !.owner = w.c, !.spec = Desired(n)]

\* SetControllerReference accepts an object that has no other controller.
Ownable(n) == kcache[n] # Absent /\ kcache[n].owner \in {w.c, "foreign"}

\* It updates the cached object, unless nothing changes.
UpdateChild(n) ==
  /\ Writing(n) /\ Ownable(n)
  /\ kcache[n] = Merged(n) \/ kcache[n] = kids[n]
  /\ kids' = IF kcache[n] = Merged(n) THEN kids ELSE [kids EXCEPT ![n] = Merged(n)]
  /\ Applied(n, Merged(n))

Outdated(n) == Ownable(n) /\ kcache[n] # Merged(n) /\ kcache[n] # kids[n]

UpdateConflicts(n) ==
  /\ Writing(n) /\ Outdated(n) /\ kids[n] # Absent
  /\ Retry /\ UNCHANGED faults

\* AlreadyExists, AlreadyOwned or NotFound.
ApplyFailed(n) ==
  /\ Writing(n)
  /\ \/ kcache[n] = Absent /\ kids[n] # Absent
     \/ kcache[n] # Absent /\ ~Ownable(n)
     \/ Outdated(n) /\ kids[n] = Absent
  /\ markCompositeFailed("ApplyFailed") /\ UNCHANGED faults

-----------------------------------------------------------------------------
(* Outputs, pruning of children, status *)

OutputsFailed ==
  /\ w.pc = "apply" /\ w.todo = {} /\ w.def \in BrokenOutputs
  /\ markCompositeFailed("RenderFailed") /\ UNCHANGED faults

\* Mutation: whatever carries the label is pruned, whoever controls it.
PrunesByLabel ==
  {n \in Names \ Wanted(w.c, w.def) : kcache[n] # Absent /\ ~kcache[n].deleting}

\* The children in the cache that the definition no longer has.
Superfluous ==
  {n \in Names \ Wanted(w.c, w.def) : kcache[n].owner = w.c /\ ~kcache[n].deleting}

ListChildren ==
  /\ w.pc = "apply" /\ w.todo = {} /\ w.def \notin BrokenOutputs
  /\ Reads([w EXCEPT !.pc = "cull", !.todo = Superfluous])
  /\ UNCHANGED ghosts

\* Mutation: an object that is gone already is not told from one that is not.
DeletesGone(n) == [kids EXCEPT ![n].deleting = TRUE]

\* The delete is by name; NotFound is ignored.
DeleteByName(n) == IF kids[n] = Absent THEN kids ELSE [kids EXCEPT ![n].deleting = TRUE]

PruneChild(n) ==
  /\ w.pc = "cull" /\ n \in w.todo
  /\ w' = [w EXCEPT !.todo = @ \ {n}]
  /\ kids' = DeleteByName(n)
  /\ harmed' = IF kids[n].owner = "foreign" /\ n \in known THEN harmed \cup {n} ELSE harmed
  /\ UNCHANGED <<def, usage, comps, revs, caches, queued, bounds, known, misled>>

setCompositeReadiness ==
  IF w.replacing THEN "ReplacingChildren"
  ELSE IF w.ready THEN "Available" ELSE "ChildrenNotReady"

WriteStatus ==
  /\ w.pc = "cull" /\ w.todo = {}
  /\ persistCompositeStatus(w.rev, "Synced", setCompositeReadiness, w.replacing)
  /\ UNCHANGED faults

-----------------------------------------------------------------------------
(* Watches, the DoResource controller, garbage collection, faults *)

\* Mutation: the children are not watched.
NoOwns == {}

\* Owns: the composites that control a child that changed or went.
OwnersOfChanged ==
  gone \cup {c \in Comps :
     \E n \in Names : kids[n] # kcache[n] /\ c \in {kids[n].owner, kcache[n].owner}}

KidSync ==
  /\ kcache # kids \/ gone # {}
  /\ kcache' = kids /\ gone' = {}
  /\ queued' = queued \cup OwnersOfChanged
  /\ UNCHANGED <<api, rcache, w, bounds, ghosts>>

RevSync ==
  /\ rcache # revs
  /\ rcache' = revs
  /\ UNCHANGED <<api, kcache, gone, queued, w, bounds, ghosts>>

KidChanges(n, k) ==
  /\ kids' = [kids EXCEPT ![n] = k]
  /\ UNCHANGED <<def, usage, comps, revs, rcache, kcache, queued, w, bounds, harmed, misled>>

KidReady(n) ==
  /\ kids[n].owner \in Comps /\ ~kids[n].ready /\ ~kids[n].deleting
  /\ KidChanges(n, [kids[n] EXCEPT !.ready = TRUE]) /\ UNCHANGED <<gone, known>>

KidGone(n) ==
  /\ kids[n].deleting /\ KidChanges(n, Absent)
  /\ gone' = gone \cup ({kids[n].owner} \cap Comps)
  /\ known' = known \ {n}

CollectGarbage(n) ==
  /\ kids[n].owner \in Comps /\ ~kids[n].deleting /\ ~comps[kids[n].owner].alive
  /\ KidChanges(n, [kids[n] EXCEPT !.deleting = TRUE]) /\ UNCHANGED <<gone, known>>

Fault == faults < MaxFaults /\ faults' = faults + 1

\* A call to the API server fails and its error is returned.
CallFails == Fault /\ (w.pc \in {"define", "revise", "apply", "cull"} \/ Resolving) /\ Retry

\* In CreateOrUpdate it counts as ApplyFailed.
WriteFails == Fault /\ w.pc = "write" /\ markCompositeFailed("ApplyFailed")

\* Pruning of revisions is best effort.
PruningFails ==
  /\ Fault
  /\ \/ w.pc = "prune" /\ w' = [w EXCEPT !.pc = "resolve"]
     \/ w.pc = "resolve" /\ \E v \in w.drop : w' = [w EXCEPT !.drop = @ \ {v}]
  /\ UNCHANGED <<api, caches, queued, edits, ghosts>>

\* The manager restarts: everything is listed and queued again.
Crash ==
  /\ Fault /\ w.pc # "idle"
  /\ Return(Comps)
  /\ kcache' = kids /\ rcache' = revs /\ gone' = {}
  /\ UNCHANGED <<api, edits, harmed, misled>>

-----------------------------------------------------------------------------
(* The users *)

UserActs ==
  /\ edits < MaxEdits /\ edits' = edits + 1
  /\ UNCHANGED <<usage, revs, caches, w, faults, ghosts>>

EditDefinition(d) ==
  /\ UserActs /\ d # def
  /\ def' = d /\ queued' = queued \cup mapDefinition
  /\ UNCHANGED <<comps, kids>>

UserWrites(c, o) ==
  /\ UserActs /\ comps[c].alive /\ o # comps[c]
  /\ comps' = [comps EXCEPT ![c] = o]
  /\ queued' = queued \cup {c}
  /\ UNCHANGED <<def, kids>>

SetRevisionRef(c, v) == UserWrites(c, [comps[c] EXCEPT !.ref = v])
SetPolicy(c) == UserWrites(c, [comps[c] EXCEPT !.manual = ~@])
DeleteComposite(c) == UserWrites(c, [comps[c] EXCEPT !.alive = FALSE])

DeleteResource(n) ==
  /\ UserActs /\ kids[n] # Absent /\ ~kids[n].deleting
  /\ kids' = [kids EXCEPT ![n].deleting = TRUE]
  /\ UNCHANGED <<def, comps, queued>>

\* Somebody creates a DoResource under a name a composite uses.
CreateForeign(n) ==
  /\ UserActs /\ n \in Foreigners /\ kids[n] = Absent
  /\ kids' = [kids EXCEPT ![n] = Foreign]
  /\ UNCHANGED <<def, comps, queued>>

-----------------------------------------------------------------------------
Reconcile ==
  \/ \E c \in Comps : Get(c)
  \/ DefinitionNotFound \/ GetDefinition \/ UseLatestRevision \/ CreateRevision
  \/ PruneRevisions \/ (\E v \in Revs : DeleteRevision(v))
  \/ RevisionNotFound \/ RevisionInvalid \/ RenderFailed \/ RenderComposite
  \/ \E n \in Names : \/ NameCollides(n) \/ ReplaceChild(n) \/ CheckChild(n)
                      \/ CreateChild(n) \/ UpdateChild(n) \/ UpdateConflicts(n)
                      \/ ApplyFailed(n) \/ PruneChild(n)
  \/ OutputsFailed \/ ListChildren \/ WriteStatus

Disturbed == CallFails \/ WriteFails \/ PruningFails \/ Crash

Kubernetes == \E n \in Names : KidReady(n) \/ KidGone(n) \/ CollectGarbage(n)

User ==
  \/ \E d \in Defs : EditDefinition(d)
  \/ \E c \in Comps : \/ SetPolicy(c) \/ DeleteComposite(c)
                      \/ \E v \in Pins : SetRevisionRef(c, v)
  \/ \E n \in Names : DeleteResource(n) \/ CreateForeign(n)

Next == Reconcile \/ Disturbed \/ KidSync \/ RevSync \/ Kubernetes \/ User

Spec == Init /\ [][Next]_vars

\* The worker serves its queue, the watches deliver, Kubernetes collects
\* garbage, and a terminating DoResource is released in the end.
FairSpec ==
  /\ Spec /\ WF_vars(Reconcile) /\ WF_vars(KidSync) /\ WF_vars(RevSync)
  /\ \A n \in Names : WF_vars(KidGone(n)) /\ WF_vars(CollectGarbage(n))

-----------------------------------------------------------------------------
(* Properties *)

\* The children of c are exactly those its recorded revision renders.
Rendered(c) ==
  LET d == revs[comps[c].rev]
  IN /\ comps[c].rev # 0 /\ d # NoDef
     /\ \A n \in Wanted(c, d) : /\ kids[n].owner = c /\ ~kids[n].deleting
                               /\ kids[n].spec = Render[c][d][n]
     /\ \A n \in Names \ Wanted(c, d) : kids[n].owner = c => kids[n].deleting

\* An event that will make the worker look at c again.
Awaited(c) == c \in queued \/ (w.pc # "idle" /\ w.c = c) \/ kcache # kids \/ gone # {}

\* No stale decision goes unnoticed: a composite that says Synced, is not
\* queued and has no event coming has exactly the children its recorded
\* revision renders, although children were looked up in a lagging cache,
\* conflicts and crashes cut reconciles short, and children were deleted and
\* replaced meanwhile.  The composite is not requeued periodically.
SyncedIsRendered ==
  \A c \in Comps :
    comps[c].alive /\ comps[c].synced = "Synced" /\ ~Awaited(c) => Rendered(c)

\* pruneRevisions: a revision recorded in the status of a composite is never
\* deleted, so that a Manual composite can always be rendered again.
RecordedRevisionSurvives ==
  \A c \in Comps : comps[c].alive /\ comps[c].rev # 0 => revs[comps[c].rev] # NoDef

\* A DoResource somebody else had created, and the cache had shown, before a
\* reconcile began is neither overwritten nor deleted by it (applyChild and
\* the pruning of children both promise so).
ForeignUntouched == harmed = {}

Manual(c) == comps[c].alive /\ comps[c].manual /\ comps[c].ref = 0 /\ comps[c].rev # 0
InStep(c) == (w.pc # "idle" /\ w.c = c) => w.comp.manual /\ w.comp.ref = 0 /\ w.comp.rev = comps[c].rev

\* resolveRevision "keeps a definition edit from silently rewriting every
\* instance": a Manual composite stays on its recorded revision, and its
\* children are only ever written with what that revision renders, unless a
\* reconcile is under way that read the composite before it became Manual.
ManualStays ==
  [][\A c \in Comps : Manual(c) /\ InStep(c) =>
       /\ comps'[c].rev = comps[c].rev
       /\ \A n \in Names : kids'[n].owner = c /\ kids'[n].spec # kids[n].spec
                             => kids'[n].spec = Render[c][revs[comps[c].rev]][n]]_vars

Failing(c) ==
  \/ comps[c].synced = "DefinitionNotFound" /\ def = NoDef
  \/ comps[c].synced = "RevisionInvalid" /\ comps[c].ref = -1
  \/ comps[c].synced = "RevisionNotFound" /\ comps[c].ref \in Revs /\ revs[comps[c].ref] = NoDef
  \/ /\ comps[c].synced = "RenderFailed"
     /\ def \in Broken \cup BrokenOutputs \/ c \in misled \/ comps[c].ref # 0
  \/ comps[c].synced = "ApplyFailed" /\ \E n \in Names : kids[n].owner \notin {c, "nobody"}

\* Once the users and the faults stop, every composite comes to rest: synced
\* with exactly the children of its revision, or failed for a reason that
\* persists.  Replacement of a child waits for a deletion, conflicts and stale
\* reads are retried, and each of them must be followed by another reconcile.
Settles ==
  <>[](\A c \in Comps :
         comps[c].alive => Failing(c) \/ (comps[c].synced = "Synced" /\ Rendered(c)))

\* Automatic composites "track the latest" revision: they end on a snapshot of
\* the current definition, unless the list of revisions they last used lagged
\* and the next number was taken by an older snapshot.
TracksLatest ==
  <>[](\A c \in Comps :
         /\ comps[c].alive /\ comps[c].synced = "Synced" /\ c \notin misled
         /\ ~comps[c].manual /\ comps[c].ref = 0
         => revs[comps[c].rev] = def)
=============================================================================
