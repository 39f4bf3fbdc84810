----------------------------- MODULE Properties ------------------------------
(***************************************************************************)
(* The properties of one DoResource on their way to the provider: rendered *)
(* from a composite's template or written by a user, completed from the    *)
(* status of a source by references and from Secrets by valuesFrom, and    *)
(* stripped again for the delete operation                                 *)
(* (internal/controller/secret_inputs.go, delete_state.go, references.go,  *)
(* composite_render.go, composite_outputs.go; internal/pulumido/job.go,    *)
(* secretinput.go; internal/runnerops/secretinput.go).  What a template    *)
(* becomes is a constant here; Rendering defines it.                       *)
(*                                                                         *)
(* DoResource has the life cycle and its failures.  Here create and patch  *)
(* are one operation, apply, which makes the external resource what the    *)
(* operation document says; a provider echoes its inputs into its state.   *)
(* A reconcile up to the creation of its Job is one step: what it reads    *)
(* (sources, Secret versions) it reads once, and a Secret that changes     *)
(* before the pod starts is a Secret that changes after this step.         *)
(***************************************************************************)
EXTENDS Expressions, FiniteSets

CONSTANTS
  Templates,    \* templates of the one resource: props, externalName, outputs
  Parameters,   \* parameters of the composite
  NoTemplate,   \* the object is not part of a composite
  Specs,        \* specs users write
  Statuses,     \* statuses of the source "r", in their order
  Known,        \* outputs the schema of the source has
  Secrets,      \* names of Secrets
  Versions,     \* their resource versions, in order
  ChildOf(_, _),       \* the child of a template, as Rendering defines it
  OutputsOf(_, _, _),  \* the outputs of a composite, as Rendering defines them
  MaxEdits,     \* bound on edits of the spec, rotations and deletion
  MaxFaults     \* bound on crashes and failed reads

\* What the definition of a composite is rendered with, besides its children.
Context(p) == [params |-> p, names |-> {<<"r">>}]

\* Every entry of valuesFrom names a Secret; a composite renders none.
ASSUME SecretsAssumption ==
  /\ \A spec \in Specs :
       spec.kind = "spec" /\ \A v \in Range(spec.valuesFrom) : v.name \in Secrets
  /\ \A p \in Parameters : \A t \in Templates :
       ChildOf(Context(p), t) = Failed \/ ChildOf(Context(p), t).valuesFrom = <<>>

VARIABLES
  tpl, params,  \* the template and the parameters of the composite
  child,        \* the spec of the DoResource
  src,          \* the source
  outputs,      \* status.outputs of the composite, and the source they are from
  resolved,     \* history: the last resolution and the source it read
  vault,        \* version of each Secret, 0 while it does not exist
  worker,       \* what the DoResource controller waits for
  jobs,         \* apply Jobs
  live,         \* the external resource
  status,       \* status.outputs and status.appliedHash of the DoResource
  handed,       \* the state the delete Job was given, and whether the paths
                \* of valuesFrom had been edited since it was recorded
  edits, faults,
  overtaken     \* history: an operation began while another was running

composite == <<tpl, params, outputs>>
cluster == <<jobs, live, overtaken>>
object == <<child, status, handed>>
bounds == <<edits, faults>>
vars == <<composite, cluster, object, bounds, src, resolved, vault, worker>>

-----------------------------------------------------------------------------
Placeholder == Str(<<"doplane:secret-input">>)
NoVersion == 0
Idle == [kind |-> "idle"]
Deleted == [kind |-> "deleted"]

ToPaths(valuesFrom) == {v.toPath : v \in Range(valuesFrom)}

rc == Context(params)
observed == <<"r">> :> src

\* Faults are spent on specs with secrets; DoResource has them for the rest.
Init ==
  /\ \/ /\ tpl \in Templates /\ params \in Parameters /\ child = Missing
        /\ vault = [s \in Secrets |-> NoVersion] /\ faults = MaxFaults
     \/ /\ tpl = NoTemplate /\ params = Null /\ child \in Specs
        /\ vault \in [Secrets -> {NoVersion, 1}] /\ faults = 0
  /\ src = Statuses[1]
  /\ outputs = [values |-> Missing, from |-> src]
  /\ resolved = [props |-> Idle, from |-> src]
  /\ worker = Idle
  /\ jobs = {} /\ live = Missing
  /\ status = [outputs |-> Missing, hash |-> Missing, valuesFrom |-> <<>>]
  /\ handed = [state |-> Missing, edited |-> FALSE]
  /\ edits = 0 /\ overtaken = FALSE

-----------------------------------------------------------------------------
(* The composite controller, and the source *)

\* renderComposite, and the child it creates.
RenderChild ==
  /\ tpl # NoTemplate /\ child = Missing
  /\ child' = ChildOf(rc, tpl)
  /\ UNCHANGED <<composite, cluster, status, handed, bounds, src, resolved, vault, worker>>

\* publishOutputs; after an error the outputs published before stay.
PublishOutputs ==
  /\ tpl # NoTemplate /\ child.kind = "spec"
  /\ \E now \in {OutputsOf(rc, observed, tpl.outputs)} :
       outputs' = IF now = Failed THEN outputs ELSE [values |-> now, from |-> src]
  /\ UNCHANGED <<tpl, params, cluster, object, bounds, src, resolved, vault, worker>>

\* The source is created, gets its id and outputs, and changes.
SourceMoves ==
  /\ \E i, j \in DOMAIN Statuses : i < j /\ src = Statuses[i] /\ src' = Statuses[j]
  /\ UNCHANGED <<composite, cluster, object, bounds, resolved, vault, worker>>

-----------------------------------------------------------------------------
(* Secret inputs *)

\* A placeholder at every path; Failed for a path that cannot be set.
stageSecretInputs(props, valuesFrom) ==
  FoldLeft(LAMBDA d, v : IF d = Failed THEN d ELSE SetPath(d, v.toPath, Placeholder),
           props, valuesFrom)

\* The names and versions of the Secrets in the order they are written, without
\* those that cannot be read.
mixSecretVersions(valuesFrom, unread) ==
  LET read == {i \in DOMAIN valuesFrom :
                 vault[valuesFrom[i].name] # NoVersion /\ valuesFrom[i].name \notin unread}
  IN {[place |-> Cardinality({k \in read : k <= i}),
       name |-> valuesFrom[i].name, version |-> vault[valuesFrom[i].name]] : i \in read}

\* The applied hash: what the two arguments are, and no more.
HashOf(props, versions) == [kind |-> "hash", props |-> props, versions |-> versions]

\* Mutation: variables are numbered in the order of the spec.
PlansUnsorted(valuesFrom) ==
  [ordered |-> valuesFrom,
   mapping |-> [p \in ToPaths(valuesFrom) |->
                  1 + Cardinality({q \in ToPaths(valuesFrom) : Before(q, p)})]]

\* The variables in the order of their paths, and the variable of each path.
secretInputsPlan(valuesFrom) ==
  LET plan(ordered) == [ordered |-> ordered,
                        mapping |-> [p \in ToPaths(ordered) |->
                                       Max({i \in DOMAIN ordered : ordered[i].toPath = p})]]
  IN plan(SortSeq(valuesFrom, LAMBDA v, w : Before(v.toPath, w.toPath)))

\* What a Secret holds: every version has its own value of every key.
SecretValue(name, key, version) == Str(<<name, key, Versions[version]>>)

\* The kubelet sets a variable from the Secret as it is when the pod starts.
EnvOf(j) == [i \in DOMAIN j.ordered |->
  LET v == j.ordered[i]
  IN IF j.seen[v.name] = NoVersion THEN Missing ELSE SecretValue(v.name, v.key, j.seen[v.name])]

\* The properties of the operation with the values of the variables.
applySecretInputs(j) ==
  LET set(d, p, value) == IF Failed = d \/ value = Missing THEN Failed ELSE SetPath(d, p, value)
      step(d, p) == set(d, p, EnvOf(j)[j.name.mapping[p]])
  IN FoldLeft(step, j.name.props, SetToSortSeq(DOMAIN j.name.mapping, Before))

\* The recorded state without the values of valuesFrom.
deleteState(state, valuesFrom) ==
  IF state = Missing THEN Missing
  ELSE FoldLeft(LAMBDA d, v : DeletePath(d, v.toPath), state, valuesFrom)

-----------------------------------------------------------------------------
(* The DoResource controller *)

\* Mutation: the Job of an earlier version of a Secret is adopted.
NotSalted(verb, props, plan, salt) ==
  [verb |-> verb, props |-> props, mapping |-> plan.mapping, salt |-> {}]

\* A Job is known by its operation document and the versions of its Secrets.
jobName(verb, props, plan, salt) ==
  [verb |-> verb, props |-> props, mapping |-> plan.mapping, salt |-> salt]

AdoptJob(name) ==
  \E j \in jobs :
    /\ j.name = name
    /\ overtaken' = (overtaken \/ j.outdated)
    /\ UNCHANGED jobs

CreateJob(name, ordered) ==
  /\ \A j \in jobs : j.name # name
  /\ jobs' = jobs \cup
       {[name |-> name, ordered |-> ordered, state |-> "new", seen |-> vault,
         result |-> Missing, outdated |-> FALSE, valuesFrom |-> child.valuesFrom]}
  /\ overtaken' = (overtaken \/ \E j \in jobs : j.state # "done")

\* The Job of the operation is adopted if there is one, else created.
executeOp(props, versions) ==
  \E plan \in {secretInputsPlan(child.valuesFrom)} :
  \E name \in {jobName(IF status.hash = Missing THEN "create" ELSE "patch", props, plan, versions)} :
    /\ worker' = [kind |-> "waits", name |-> name, hash |-> HashOf(props, versions)]
    /\ AdoptJob(name) \/ CreateJob(name, plan.ordered)
    /\ UNCHANGED live

\* The properties with placeholders, if the references are resolved.
Staged(props, valuesFrom) ==
  IF props.kind = "object" THEN stageSecretInputs(props, valuesFrom) ELSE props

\* A reconcile up to its Job: references, secret inputs, the applied hash.
\* known: what the schema of the source says, if it can be had; unread: the
\* Secrets that could not be read.
Reconcile ==
  /\ worker = Idle /\ child.kind = "spec"
  /\ \E known \in {Known, {}}, unread \in SUBSET {v.name : v \in Range(child.valuesFrom)} :
     \E props \in {resolveReferences(child, observed, known)} :
     \E staged \in {Staged(props, child.valuesFrom)},
        versions \in {mixSecretVersions(child.valuesFrom, unread)} :
       /\ faults' = faults + (IF unread = {} THEN 0 ELSE 1) /\ faults' <= MaxFaults
       /\ resolved' = [props |-> props, from |-> src]
       /\ \/ /\ staged.kind = "object" /\ status.hash # HashOf(staged, versions)
             /\ executeOp(staged, versions)
          \/ /\ staged.kind # "object" \/ status.hash = HashOf(staged, versions)
             /\ UNCHANGED <<cluster, worker>>
  /\ UNCHANGED <<composite, object, edits, src, vault>>

\* The Job's pod starts.
StartPod ==
  /\ \E j \in jobs :
       /\ j.state = "new"
       /\ jobs' = (jobs \ {j}) \cup {[j EXCEPT !.state = "running", !.seen = vault]}
  /\ UNCHANGED <<composite, live, overtaken, object, bounds, src, resolved, vault, worker>>

\* The runner substitutes the secret inputs and calls the provider.
RunOperation ==
  /\ \E j \in jobs :
       /\ j.state = "running"
       /\ \E result \in {applySecretInputs(j)} :
            /\ live' = IF result = Failed THEN live ELSE result
            /\ jobs' = {[k EXCEPT !.outdated = @ \/ result # Failed] : k \in jobs \ {j}}
                         \cup {[j EXCEPT !.state = "done", !.result = result]}
  /\ UNCHANGED <<composite, overtaken, object, bounds, src, resolved, vault, worker>>

\* The result is recorded (markSynced, markSyncFailed) and the Job deleted.
FinishOp ==
  /\ worker.kind = "waits"
  /\ \E j \in jobs :
       /\ j.name = worker.name /\ j.state = "done"
       /\ status' = IF j.result = Failed THEN status
                    ELSE [outputs |-> j.result, hash |-> worker.hash, valuesFrom |-> j.valuesFrom]
       /\ jobs' = jobs \ {j}
  /\ worker' = Idle
  /\ UNCHANGED <<composite, live, overtaken, child, handed, bounds, src, resolved, vault>>

\* The manager dies, the wait times out or the logs cannot be read: the Job
\* is left for the next reconcile.
Interrupted ==
  /\ worker.kind = "waits" /\ faults < MaxFaults
  /\ worker' = Idle /\ faults' = faults + 1
  /\ UNCHANGED <<composite, cluster, object, edits, src, resolved, vault>>

\* The object is deleted: the delete Job gets the recorded state.
ReconcileDelete ==
  /\ tpl = NoTemplate /\ child.kind = "spec" /\ worker = Idle
  /\ child' = Deleted
  /\ handed' = [state |-> deleteState(status.outputs, child.valuesFrom),
                edited |-> ~(ToPaths(status.valuesFrom) \subseteq ToPaths(child.valuesFrom))]
  /\ UNCHANGED <<composite, cluster, status, bounds, src, resolved, vault, worker>>

-----------------------------------------------------------------------------
(* Users *)

EditSpec ==
  /\ tpl = NoTemplate /\ child.kind = "spec" /\ edits < MaxEdits
  /\ child' \in Specs \ {child}
  /\ edits' = edits + 1
  /\ UNCHANGED <<composite, cluster, status, handed, faults, src, resolved, vault, worker>>

\* A Secret is created or rotated.
Rotate ==
  /\ child.kind = "spec" /\ child.valuesFrom # <<>> /\ edits < MaxEdits
  /\ \E s \in Secrets :
       /\ vault[s] < Len(Versions)
       /\ vault' = [vault EXCEPT ![s] = @ + 1]
  /\ edits' = edits + 1
  /\ UNCHANGED <<composite, cluster, object, faults, src, resolved, worker>>

Next ==
  \/ RenderChild \/ PublishOutputs \/ SourceMoves
  \/ Reconcile \/ StartPod \/ RunOperation \/ FinishOp \/ Interrupted \/ ReconcileDelete
  \/ EditSpec \/ Rotate

Spec == Init /\ [][Next]_vars

-----------------------------------------------------------------------------
\* Two paths to the same place.
SamePlace(v, w) == parsePath(v.toPath) = parsePath(w.toPath)
\* The entries of valuesFrom that are alone in their place.
Alone(valuesFrom) ==
  {valuesFrom[i] : i \in {x \in DOMAIN valuesFrom :
     \A y \in DOMAIN valuesFrom \ {x} : ~SamePlace(valuesFrom[x], valuesFrom[y])}}

\* doc has the values of valuesFrom, of the Secrets in the versions of seen.
Holds(doc, valuesFrom, seen) ==
  \A v \in Alone(valuesFrom) : GetPath(doc, v.toPath) = SecretValue(v.name, v.key, seen[v.name])

\* The provider was called, and accepted the properties.
Reached(j) == j.state = "done" /\ j.result # Failed

\* An operation that reaches the provider has every secret at its own path.
SecretsPlaced == \A j \in jobs : Reached(j) => Holds(j.result, j.valuesFrom, j.seen)

\* The object counts as applied, and every Secret can be read.
Settled ==
  /\ child.kind = "spec" /\ worker = Idle
  /\ status.hash = HashOf(Staged(resolveReferences(child, observed, {}), child.valuesFrom),
                          mixSecretVersions(child.valuesFrom, {}))
SecretsApplied ==
  \A v \in Alone(child.valuesFrom) :
    vault[v.name] # NoVersion =>
      GetPath(live, v.toPath) = SecretValue(v.name, v.key, vault[v.name])

\* The last operation that reached the provider was interrupted before it was
\* recorded, and valuesFrom has been edited since.
Unrecorded == \E j \in jobs :
  Reached(j) /\ ~j.outdated /\ j.valuesFrom # child.valuesFrom

\* When the applied hash says that nothing is to be done, the external
\* resource holds the present version of every Secret: a rotation is applied,
\* also when a Job of the version before was left behind.  Excepted: edits of
\* valuesFrom that the hash does not show, an operation that ran beside another
\* or whose Job was adopted after another one had run, and one that was never
\* recorded.
SecretsCurrent ==
  (Settled /\ ~overtaken /\ ~Unrecorded /\ status.valuesFrom = child.valuesFrom)
    => SecretsApplied

\* doresource_controller.go: "The applied hash covers spec edits", so an object
\* that counts as applied has the secrets its spec names.
SpecEditsReachResource == (Settled /\ ~overtaken /\ ~Unrecorded) => SecretsApplied
==============================================================================
