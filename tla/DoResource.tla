----------------------------- MODULE DoResource -----------------------------
(***************************************************************************)
(* The life of one DoResource object: the reconciler that drives its       *)
(* external resource (internal/controller), the runner Jobs that carry out *)
(* the cloud operations (internal/pulumido), the provider behind them, the *)
(* user who edits the object, and the faults all of them meet.             *)
(*                                                                         *)
(* One step of the reconciler is one call to the API server: between two   *)
(* calls the code only looks at its own copy of the object.  A property    *)
(* document is represented by the hash the code computes of it, so         *)
(* spec.properties, status.appliedHash and the state of an external        *)
(* resource are all members of Props.                                      *)
(***************************************************************************)
EXTENDS Naturals, FiniteSets

CONSTANTS
  Ids,         \* ids a provider can assign
  NoId,        \* the empty id
  Props,       \* property documents
  NoProps,     \* no document recorded
  Valid,       \* documents the provider schema accepts
  InPlace,     \* pairs <<p, q>>: p can be patched to q without replacement
  SecretIds,   \* documents that route a secret into the id
  Oversize,    \* documents larger than MaxDeleteStateBytes
  FixedId,     \* the id of a resource whose name the client chooses
  ImportId,    \* the id in the external-name annotation of a new object
  Imports,     \* what that annotation names: "none", "live" or "wrong"
  Providers,   \* provider behaviours: [clientNamed, canRead, canFallBack]
  Faults,      \* the kinds of fault that may occur
  MaxFaults,   \* bound on the number of faults
  MaxEdits     \* bound on the number of user actions

FaultKinds == {"crash", "timeout", "unreadable", "garbled", "keepJob",
               "jobLost", "expire", "provider", "schema", "references",
               "profile", "drift"}

ProviderKinds ==
  [clientNamed : BOOLEAN, canRead : BOOLEAN, canFallBack : BOOLEAN]

ASSUME IdAssumption ==
  NoId \notin Ids /\ FixedId \in Ids /\ ImportId \in Ids

ASSUME PropsAssumption ==
  /\ NoProps \notin Props /\ Props # {}
  /\ Props \cap {"unborn", "deleted", "vanished"} = {}
  /\ Valid \subseteq Props /\ SecretIds \subseteq Props
  /\ Oversize \subseteq Props
  /\ InPlace \subseteq Props \X Props

ASSUME EnvAssumption ==
  /\ Imports \subseteq {"none", "live", "wrong"}
  /\ Providers \subseteq ProviderKinds
  /\ Faults \subseteq FaultKinds
  /\ MaxFaults \in Nat /\ MaxEdits \in Nat

VARIABLES
  obj,        \* spec and metadata of the object on the API server
  status,     \* its status subresource
  queued,     \* the workqueue holds a request for the object
  pc, cont,   \* where the reconciler is, and which operation it waits for
  me, st,     \* the reconciler's copy of the object and of its status
  op, out,    \* the operation it runs and the outcome it observed
  made,       \* the external resource it has just created
  jobs,       \* the runner Job of every operation
  cloud,      \* the external resources
  provider,   \* how this resource type behaves; never changes
  edits,      \* user actions so far
  faults,     \* faults so far
  seen,       \* history: the kinds of fault so far
  consented,  \* history: generations at which destruction was authorised
  forsaken,   \* history: resources given up with a condition or an event
  refused     \* history: generations that failed with SecretInputInID

object == <<obj, status>>
local  == <<pc, cont, me, st, op, out, made>>
fault  == <<faults, seen>>
ghosts == <<consented, forsaken, refused>>
vars   == <<object, queued, local, jobs, cloud, provider, edits, fault, ghosts>>

-----------------------------------------------------------------------------
(* Types *)

AnyId == Ids \cup {NoId}
AnyProps == Props \cup {NoProps}
Codes == {"OK", "NotFound", "ReadNotSupported", "ReplacementRequired",
          "AlreadyExists", "SecretInputInID", "Error"}
Reasons == {"None", "Synced", "ReconcilePaused", "SecretInputInID",
            "Terminal", "Retrying"}
Results == [code : Codes, id : AnyId, state : AnyProps]

\* The operation documents; the Job name is a hash of owner and document.
CreateOp(p)    == [verb |-> "create", id |-> NoId, props |-> p]
ReadOp(i)      == [verb |-> "read", id |-> i, props |-> NoProps]
PatchOp(i, p)  == [verb |-> "patch", id |-> i, props |-> p]
DeleteOp(i, s) == [verb |-> "delete", id |-> i, props |-> s]
NoOp == [verb |-> "none", id |-> NoId, props |-> NoProps]

Ops == {CreateOp(p) : p \in Props}
       \cup {ReadOp(i) : i \in Ids}
       \cup {PatchOp(i, p) : i \in Ids, p \in Props}
       \cup {DeleteOp(i, s) : i \in Ids, s \in AnyProps}

NoResult == [code |-> "Error", id |-> NoId, state |-> NoProps]
NoJob == [phase |-> "none", res |-> NoResult]
Jobs == [phase : {"none", "running", "complete", "failed"}, res : Results]

Objects == [exists : BOOLEAN, gen : Nat, props : Props, protect : BOOLEAN,
            orphan : BOOLEAN, deleting : BOOLEAN, finalizer : BOOLEAN,
            paused : BOOLEAN, extName : AnyId, approved : Nat]
Statuses == [id : AnyId, outputs : AnyProps, hash : AnyProps,
             synced : Reasons, syncedGen : Nat]
Made == [id : AnyId, state : AnyProps]

PCs == {"idle", "check", "wait", "cleanup", "handle", "named"}
Conts == {"none", "adopt", "create", "patch", "refresh", "swap", "clear",
          "swapAgain", "retire", "delete"}

TypeOK ==
  /\ obj \in Objects /\ status \in Statuses
  /\ queued \in BOOLEAN
  /\ pc \in PCs /\ cont \in Conts
  /\ me \in Objects /\ st \in Statuses
  /\ op \in Ops \cup {NoOp} /\ out \in Results /\ made \in Made
  /\ jobs \in [Ops -> Jobs]
  /\ cloud \in [Ids -> Props \cup {"unborn", "deleted", "vanished"}]
  /\ provider \in ProviderKinds
  /\ edits \in Nat /\ faults \in Nat
  /\ seen \subseteq FaultKinds
  /\ consented \subseteq Nat /\ forsaken \subseteq Ids /\ refused \subseteq Nat

-----------------------------------------------------------------------------
(* Predicates of the code *)

Live(i) == i \in Ids /\ cloud[i] \in Props

Fault(f) ==
  /\ f \in Faults /\ faults < MaxFaults
  /\ faults' = faults + 1
  /\ seen' = seen \cup {f}

\* What the user may do to the external resource of o: replace or delete it.
Consents(o) == ~o.protect \/ o.approved = o.gen \/ (o.deleting /\ ~o.orphan)

\* Mutation: any approval authorises every later change.
StaleApproval(o) == o.approved # 0

replacementApproved(o) == o.approved = o.gen
protected(o) == o.protect

\* Mutation: the recorded failure is taken for one of an earlier generation.
NeverTerminal(s, o) == s.synced = "SecretInputInID" /\ s.syncedGen > o.gen

secretIDTerminal(s, o) == s.synced = "SecretInputInID" /\ s.syncedGen = o.gen

\* The recorded state a delete carries: one that is too large is left out.
deleteState(s) == IF s \in Oversize THEN NoProps ELSE s

-----------------------------------------------------------------------------
(* Initial states: a new object, possibly annotated for adoption *)

NewObject(p, prot, ext) ==
  [exists |-> TRUE, gen |-> 1, props |-> p, protect |-> prot, orphan |-> FALSE,
   deleting |-> FALSE, finalizer |-> FALSE, paused |-> FALSE,
   extName |-> ext, approved |-> 0]
NewStatus == [id |-> NoId, outputs |-> NoProps, hash |-> NoProps,
              synced |-> "None", syncedGen |-> 0]

\* The locals of a reconciler that is not running.
NoCopy == NewObject(CHOOSE p \in Props : TRUE, TRUE, NoId)
NoneMade == [id |-> NoId, state |-> NoProps]

Init ==
  /\ \E p \in Props, q \in Props, prot \in BOOLEAN, imp \in Imports :
       /\ obj = NewObject(p, prot, IF imp = "none" THEN NoId ELSE ImportId)
       /\ forsaken = IF imp = "live" THEN {ImportId} ELSE {}
       /\ cloud = [i \in Ids |->
            IF i # ImportId \/ imp = "none" THEN "unborn"
            ELSE IF imp = "live" THEN q ELSE "vanished"]
  /\ status = NewStatus
  /\ queued = TRUE
  /\ pc = "idle" /\ cont = "none" /\ me = NoCopy /\ st = NewStatus
  /\ op = NoOp /\ out = NoResult /\ made = NoneMade
  /\ jobs = [o \in Ops |-> NoJob]
  /\ provider \in Providers
  /\ edits = 0 /\ faults = 0 /\ seen = {}
  /\ consented = IF Consents(obj) THEN {1} ELSE {}
  /\ refused = {}

-----------------------------------------------------------------------------
(* Building blocks of the reconciler's steps *)

\* Reconcile returns; again: it asked for another attempt.
Return(again) ==
  /\ pc' = "idle" /\ cont' = "none" /\ me' = NoCopy /\ st' = NewStatus
  /\ op' = NoOp /\ out' = NoResult /\ made' = NoneMade
  /\ queued' = (queued \/ again)

\* ensureJob creates the Job of operation o or adopts the one of that name.
ensureJob(o) ==
  jobs' = [jobs EXCEPT ![o] =
            IF @.phase = "none" THEN [phase |-> "running", res |-> NoResult]
            ELSE @]

\* executeOp up to its wait for the Job.
RunOp(o, c) ==
  /\ ensureJob(o)
  /\ op' = o /\ cont' = c /\ pc' = "wait"
  /\ UNCHANGED <<object, queued, me, st, out, made, ghosts>>

\* persistStatus replaces the whole status, unless the object is gone.
persistStatus(s) ==
  /\ status' = IF obj.exists THEN s ELSE status
  /\ UNCHANGED <<obj, jobs>>

persistSyncFailure(reason) ==
  persistStatus([st EXCEPT !.synced = reason, !.syncedGen = me.gen])

markSyncFailed(reason, again) ==
  /\ persistSyncFailure(reason)
  /\ Return(again)
  /\ UNCHANGED ghosts

\* Mutation: the hash is taken from the object as it is now.
HashesLatest(id, state) ==
  /\ persistStatus([id |-> id,
                    outputs |-> IF state = NoProps THEN st.outputs ELSE state,
                    hash |-> obj.props, synced |-> "Synced",
                    syncedGen |-> me.gen])
  /\ Return(TRUE)

\* markSynced: a nil state leaves the outputs; requeued after the poll interval.
markSynced(id, state) ==
  /\ persistStatus([id |-> id,
                    outputs |-> IF state = NoProps THEN st.outputs ELSE state,
                    hash |-> me.props, synced |-> "Synced",
                    syncedGen |-> me.gen])
  /\ Return(TRUE)

\* Mutation: the vanished resource keeps its id.
KeepsMissingId ==
  /\ persistStatus([st EXCEPT !.outputs = NoProps, !.hash = NoProps])
  /\ Return(TRUE)
  /\ UNCHANGED ghosts

\* The external resource vanished: forget it, so that the retry recreates it.
markMissing ==
  /\ persistStatus([st EXCEPT !.id = NoId, !.outputs = NoProps,
                              !.hash = NoProps])
  /\ Return(TRUE)
  /\ UNCHANGED ghosts

\* The part of reconcileCreate after the adoption attempt.
CreateUnlessTerminal ==
  \/ /\ secretIDTerminal(st, me)
     /\ Return(FALSE)
     /\ UNCHANGED <<object, jobs, ghosts>>
  \/ /\ ~secretIDTerminal(st, me)
     /\ RunOp(CreateOp(me.props), "create")

\* An Update of the object fails when it changed since it was read.
Conflict ==
  /\ obj # me
  /\ Return(TRUE)
  /\ UNCHANGED <<object, jobs, ghosts>>

\* RemoveFinalizer and Update: the object disappears.
ReleaseFinalizer ==
  \/ /\ obj = me
     /\ obj' = [obj EXCEPT !.finalizer = FALSE, !.exists = FALSE]
     /\ forsaken' = forsaken \cup
          (IF me.orphan THEN {status.id, obj.extName} \cap Ids ELSE {})
     /\ Return(FALSE)
     /\ UNCHANGED <<status, jobs, consented, refused>>
  \/ Conflict

-----------------------------------------------------------------------------
(* Reconcile, up to its first cloud operation *)

Get ==
  /\ pc = "idle" /\ queued
  /\ queued' = FALSE
  /\ IF obj.exists
     THEN pc' = "check" /\ me' = obj /\ st' = status
     ELSE UNCHANGED <<pc, me, st>>
  /\ UNCHANGED <<object, cont, op, out, made, jobs, ghosts>>

ReconcilePaused ==
  /\ pc = "check" /\ me.paused
  /\ markSyncFailed("ReconcilePaused", FALSE)

\* Mutation: the delete does not check that an id was recorded.
DeletesUnrecorded ==
  /\ pc = "check" /\ ~me.paused /\ me.deleting /\ me.finalizer
  /\ ~me.orphan
  /\ RunOp(DeleteOp(st.id, deleteState(st.outputs)), "delete")

DeleteExternal ==
  /\ pc = "check" /\ ~me.paused /\ me.deleting /\ me.finalizer
  /\ ~me.orphan /\ st.id # NoId
  /\ RunOp(DeleteOp(st.id, deleteState(st.outputs)), "delete")

NothingToDelete ==
  /\ pc = "check" /\ ~me.paused /\ me.deleting /\ me.finalizer
  /\ me.orphan \/ st.id = NoId
  /\ ReleaseFinalizer

AddFinalizer ==
  /\ pc = "check" /\ ~me.paused /\ ~me.deleting /\ ~me.finalizer
  /\ \/ /\ obj = me
        /\ obj' = [obj EXCEPT !.finalizer = TRUE]
        /\ me' = [me EXCEPT !.finalizer = TRUE]
        /\ UNCHANGED <<status, queued, pc, cont, st, op, out, made, jobs, ghosts>>
     \/ Conflict

Checking == pc = "check" /\ ~me.paused /\ ~me.deleting /\ me.finalizer

\* The provider profile is missing, pins another package or does not allow the
\* type.  The code looks before it adds the finalizer; here it may also look
\* right after, as the next reconcile would.  Terminal until something wakes it.
ProfileFails ==
  /\ pc = "check" /\ ~me.paused /\ ~me.deleting
  /\ Fault("profile")
  /\ markSyncFailed("Terminal", FALSE)

\* The references form a cycle, do not resolve, carry a value the schema
\* rejects, or the read of one source failed: recorded without a retry.
ReferencesFail ==
  /\ Checking /\ Fault("references")
  /\ markSyncFailed("Terminal", FALSE)

\* The schema fetch fails; the reconcile is retried with backoff.
SchemaUnavailable ==
  /\ Checking /\ Fault("schema")
  /\ markSyncFailed("Retrying", TRUE)

ValidationFailed ==
  /\ Checking /\ me.props \notin Valid
  /\ markSyncFailed("Terminal", FALSE)

Passed == Checking /\ me.props \in Valid

AdoptExternal ==
  /\ Passed /\ st.id = NoId /\ me.extName # NoId
  /\ RunOp(ReadOp(me.extName), "adopt")

Create ==
  /\ Passed /\ st.id = NoId /\ me.extName = NoId
  /\ CreateUnlessTerminal

Patch ==
  /\ Passed /\ st.id # NoId /\ st.hash # me.props
  /\ RunOp(PatchOp(st.id, me.props), "patch")

Refresh ==
  /\ Passed /\ st.id # NoId /\ st.hash = me.props
  /\ RunOp(ReadOp(st.id), "refresh")

-----------------------------------------------------------------------------
(* executeOp: waiting for the Job and securing its outcome *)

Waiting == pc = "wait" /\ UNCHANGED <<object, queued, cont, me, st, op, made,
                                      jobs, ghosts>>

\* The Job finished and its envelope was read; a failed Job has none.
Observe ==
  /\ Waiting /\ jobs[op].phase \in {"complete", "failed"}
  /\ out' = IF jobs[op].phase = "complete" THEN jobs[op].res ELSE NoResult
  /\ pc' = "cleanup"

\* The pod log holds no envelope although the Job completed.
ObserveGarbled ==
  /\ Waiting /\ jobs[op].phase = "complete" /\ Fault("garbled")
  /\ out' = NoResult /\ pc' = "cleanup"

\* Mutation: the Job whose log was unreadable is cleaned up.
DropsUnreadable ==
  /\ Waiting /\ jobs[op].phase = "complete" /\ Fault("unreadable")
  /\ out' = NoResult /\ pc' = "cleanup"

\* ErrOutputUnavailable: the Job is kept for the next attempt.
ObserveUnreadable ==
  /\ Waiting /\ jobs[op].phase = "complete" /\ Fault("unreadable")
  /\ out' = NoResult /\ pc' = "handle"

\* The wait ran into the operation timeout; the Job is kept.
WaitTimeout ==
  /\ Waiting /\ Fault("timeout")
  /\ out' = NoResult /\ pc' = "handle"

\* The Job disappeared while it was polled.
JobDisappeared ==
  /\ Waiting /\ jobs[op].phase = "none"
  /\ out' = NoResult /\ pc' = "handle"

\* The deferred delete of the consumed Job.
Cleanup ==
  /\ pc = "cleanup" /\ pc' = "handle"
  /\ jobs' = [jobs EXCEPT ![op] = NoJob]
  /\ UNCHANGED <<object, queued, cont, me, st, op, out, made, ghosts>>

\* That delete failed; its error is ignored.
CleanupFails ==
  /\ pc = "cleanup" /\ pc' = "handle" /\ Fault("keepJob")
  /\ UNCHANGED <<object, queued, cont, me, st, op, out, made, jobs, ghosts>>

-----------------------------------------------------------------------------
(* What Reconcile does with the outcome of an operation *)

Handling(c) == pc = "handle" /\ cont = c
Failed == out.code \notin {"OK", "NotFound", "ReadNotSupported"}

AdoptHandled ==
  /\ Handling("adopt")
  /\ \/ out.code = "NotFound" /\ CreateUnlessTerminal
     \/ /\ out.code \in {"OK", "ReadNotSupported"}
        /\ markSynced(me.extName, out.state) /\ UNCHANGED ghosts
     \/ Failed /\ markSyncFailed("Retrying", TRUE)

\* persistExternalName after a successful create or replacement create.
PersistExternalName ==
  /\ pc = "handle" /\ cont \in {"create", "swap", "swapAgain"}
  /\ out.code = "OK"
  /\ obj' = IF obj.exists THEN [obj EXCEPT !.extName = out.id] ELSE obj
  /\ me' = [me EXCEPT !.extName = out.id]
  /\ queued' = (queued \/ me.extName # out.id)
  /\ made' = [id |-> out.id, state |-> out.state]
  /\ pc' = "named"
  /\ UNCHANGED <<status, cont, st, op, out, jobs, ghosts>>

CreateFailed ==
  /\ pc = "handle" /\ cont \in {"create", "swap", "swapAgain"}
  /\ \/ /\ out.code = "SecretInputInID"
        /\ persistSyncFailure("SecretInputInID") /\ Return(FALSE)
        /\ refused' = refused \cup {me.gen}
        /\ UNCHANGED <<consented, forsaken>>
     \/ /\ out.code \notin {"OK", "SecretInputInID"}
        /\ ~(cont = "swap" /\ out.code = "AlreadyExists")
        /\ markSyncFailed("Retrying", TRUE)

Created ==
  /\ pc = "named" /\ cont = "create"
  /\ markSynced(made.id, made.state) /\ UNCHANGED ghosts

\* Mutation: the record of a secret in the id does not stop a replacement.
ReplacesRegardless ==
  \/ /\ protected(me) /\ ~replacementApproved(me)
     /\ markSyncFailed("Terminal", FALSE)
  \/ /\ ~protected(me) \/ replacementApproved(me)
     /\ RunOp(CreateOp(me.props), "swap")

reconcileReplacement ==
  \/ /\ protected(me) /\ ~replacementApproved(me)
     /\ markSyncFailed("Terminal", FALSE)
  \/ /\ ~protected(me) \/ replacementApproved(me)
     /\ \/ /\ secretIDTerminal(st, me)
           /\ Return(FALSE) /\ UNCHANGED <<object, jobs, ghosts>>
        \/ /\ ~secretIDTerminal(st, me)
           /\ RunOp(CreateOp(me.props), "swap")

PatchHandled ==
  /\ Handling("patch")
  /\ \/ out.code = "OK" /\ markSynced(st.id, out.state) /\ UNCHANGED ghosts
     \/ out.code = "ReplacementRequired" /\ reconcileReplacement
     \/ out.code = "ReadNotSupported" /\ markSyncFailed("Terminal", FALSE)
     \/ out.code = "NotFound" /\ markMissing
     \/ /\ Failed /\ out.code # "ReplacementRequired"
        /\ markSyncFailed("Retrying", TRUE)

\* Mutation: a read that failed is taken for one that found nothing.
ForgetsOnFailure ==
  /\ Handling("refresh")
  /\ \/ /\ out.code \in {"OK", "ReadNotSupported"}
        /\ markSynced(st.id, out.state) /\ UNCHANGED ghosts
     \/ out.code \notin {"OK", "ReadNotSupported"} /\ markMissing

RefreshHandled ==
  /\ Handling("refresh")
  /\ \/ /\ out.code \in {"OK", "ReadNotSupported"}
        /\ markSynced(st.id, out.state) /\ UNCHANGED ghosts
     \/ out.code = "NotFound" /\ markMissing
     \/ Failed /\ markSyncFailed("Retrying", TRUE)

\* The identity is taken: delete the old resource first.
SwapCollided ==
  /\ Handling("swap") /\ out.code = "AlreadyExists"
  /\ RunOp(DeleteOp(st.id, deleteState(st.outputs)), "clear")

ClearHandled ==
  /\ Handling("clear")
  /\ \/ /\ out.code \in {"OK", "NotFound"}
        /\ RunOp(CreateOp(me.props), "swapAgain")
     \/ /\ out.code \notin {"OK", "NotFound"}
        /\ markSyncFailed("Retrying", TRUE)

\* The replacement is named; the old resource goes, unless it is the same.
RetireOld ==
  /\ pc = "named" /\ cont \in {"swap", "swapAgain"} /\ made.id # st.id
  /\ RunOp(DeleteOp(st.id, deleteState(st.outputs)), "retire")

SwapInPlace ==
  /\ pc = "named" /\ cont \in {"swap", "swapAgain"} /\ made.id = st.id
  /\ markSynced(made.id, made.state) /\ UNCHANGED ghosts

\* A failed delete of the old resource only leaves an OrphanedOldResource event.
RetireHandled ==
  /\ Handling("retire")
  /\ markSynced(made.id, made.state)
  /\ forsaken' = forsaken \cup
       (IF out.code \in {"OK", "NotFound"} THEN {} ELSE {st.id} \cap Ids)
  /\ UNCHANGED <<consented, refused>>

\* Mutations: the finalizer is released whatever the delete reported; a
\* failed delete is not retried.
ReleasesAnyway ==
  /\ Handling("delete")
  /\ ReleaseFinalizer

NoDeleteRetry ==
  /\ Handling("delete")
  /\ \/ out.code \in {"OK", "NotFound"} /\ ReleaseFinalizer
     \/ /\ out.code \notin {"OK", "NotFound"}
        /\ Return(FALSE) /\ UNCHANGED <<object, jobs, ghosts>>

DeleteHandled ==
  /\ Handling("delete")
  /\ \/ out.code \in {"OK", "NotFound"} /\ ReleaseFinalizer
     \/ /\ out.code \notin {"OK", "NotFound"}
        /\ Return(TRUE) /\ UNCHANGED <<object, jobs, ghosts>>

-----------------------------------------------------------------------------
(* The provider, through the runner in the Job's pod *)

Fresh == {i \in Ids : cloud[i] = "unborn"}
NewId == IF provider.clientNamed THEN FixedId ELSE CHOOSE i \in Fresh : TRUE
Collides == provider.clientNamed /\ Live(FixedId)
Result(code, id, state) == [code |-> code, id |-> id, state |-> state]

CreateResult(o) ==
  IF Collides THEN Result("AlreadyExists", NoId, NoProps)
  ELSE IF o.props \in SecretIds THEN Result("SecretInputInID", NoId, NoProps)
  ELSE Result("OK", NewId, o.props)

ReadResult(o) ==
  IF ~provider.canRead THEN Result("ReadNotSupported", NoId, NoProps)
  ELSE IF ~Live(o.id) THEN Result("NotFound", NoId, NoProps)
  ELSE Result("OK", o.id, cloud[o.id])

\* pulumi do patch reads before it patches.
PatchResult(o) ==
  IF ~provider.canRead THEN Result("ReadNotSupported", NoId, NoProps)
  ELSE IF ~Live(o.id) THEN Result("NotFound", NoId, NoProps)
  ELSE IF <<cloud[o.id], o.props>> \notin InPlace
       THEN Result("ReplacementRequired", NoId, NoProps)
  ELSE Result("OK", o.id, o.props)

\* Without read support the delete falls back to the recorded state, if the
\* operation carries it and the package is not a git or private-registry one.
DeleteResult(o) ==
  IF ~provider.canRead /\ (~provider.canFallBack \/ o.props = NoProps)
  THEN Result("ReadNotSupported", NoId, NoProps)
  ELSE IF ~Live(o.id) THEN Result("NotFound", NoId, NoProps)
  ELSE Result("OK", o.id, NoProps)

Outcome(o) ==
  CASE o.verb = "create" -> CreateResult(o)
    [] o.verb = "read"   -> ReadResult(o)
    [] o.verb = "patch"  -> PatchResult(o)
    [] OTHER             -> DeleteResult(o)

CloudAfter(o) ==
  CASE o.verb = "create" /\ ~Collides -> [cloud EXCEPT ![NewId] = o.props]
    [] o.verb = "patch" /\ Outcome(o).code = "OK" ->
         [cloud EXCEPT ![o.id] = o.props]
    [] o.verb = "delete" /\ Outcome(o).code = "OK" ->
         [cloud EXCEPT ![o.id] = "deleted"]
    [] OTHER -> cloud

CanRun(o) ==
  /\ jobs[o].phase = "running"
  /\ o.verb = "create" /\ ~provider.clientNamed => Fresh # {}

\* The runner carries out the operation and prints its envelope.  A resource
\* whose id embeds a secret is given up: its id must not be recorded.
JobRuns(o) ==
  /\ CanRun(o)
  /\ jobs' = [jobs EXCEPT ![o] = [phase |-> "complete", res |-> Outcome(o)]]
  /\ cloud' = CloudAfter(o)
  /\ forsaken' = forsaken \cup
       (IF Outcome(o).code = "SecretInputInID" THEN {NewId} ELSE {})
  /\ UNCHANGED <<object, queued, local, consented, refused>>

\* The provider reports a failure and has changed nothing.
JobErrs(o) ==
  /\ jobs[o].phase = "running" /\ Fault("provider")
  /\ jobs' = [jobs EXCEPT ![o] = [phase |-> "complete", res |-> NoResult]]
  /\ UNCHANGED <<object, queued, local, cloud, ghosts>>

\* The pod is lost, before or after the operation; backoffLimit is 0.
JobLost(o) ==
  /\ CanRun(o) /\ Fault("jobLost")
  /\ jobs' = [jobs EXCEPT ![o] = [phase |-> "failed", res |-> NoResult]]
  /\ cloud' \in {cloud, CloudAfter(o)}
  /\ UNCHANGED <<object, queued, local, ghosts>>

\* ttlSecondsAfterFinished passed before anybody consumed the Job.
JobExpires(o) ==
  /\ jobs[o].phase \in {"complete", "failed"} /\ Fault("expire")
  /\ jobs' = [jobs EXCEPT ![o] = NoJob]
  /\ UNCHANGED <<object, queued, local, cloud, ghosts>>

\* Somebody removes the external resource behind the operator's back.
Vanish(i) ==
  /\ Live(i) /\ Fault("drift")
  /\ cloud' = [cloud EXCEPT ![i] = "vanished"]
  /\ UNCHANGED <<object, queued, local, jobs, ghosts>>

-----------------------------------------------------------------------------
(* The manager crashes, or a write fails for good: the locals are lost and *)
(* the object is queued again (on restart every object is listed).         *)

Crash ==
  /\ pc # "idle" /\ Fault("crash")
  /\ Return(TRUE)
  /\ UNCHANGED <<object, jobs, ghosts>>

-----------------------------------------------------------------------------
(* The user, through the API server *)

UserWrites(o) ==
  /\ obj.exists /\ edits < MaxEdits
  /\ obj' = o /\ edits' = edits + 1
  /\ queued' = TRUE
  /\ consented' = consented \cup (IF Consents(o) THEN {o.gen} ELSE {})

EditProps(p) ==
  /\ p # obj.props
  /\ UserWrites([obj EXCEPT !.props = p, !.gen = @ + 1])

EditPolicy ==
  \/ UserWrites([obj EXCEPT !.protect = ~@, !.gen = @ + 1])
  \/ UserWrites([obj EXCEPT !.orphan = ~@, !.gen = @ + 1])

\* Deleting an object without finalizer removes it at once.
Delete ==
  /\ ~obj.deleting
  /\ UserWrites([obj EXCEPT !.deleting = TRUE, !.gen = @ + 1,
                            !.exists = obj.finalizer])

TogglePause == UserWrites([obj EXCEPT !.paused = ~@])

Approve ==
  /\ obj.approved # obj.gen
  /\ UserWrites([obj EXCEPT !.approved = obj.gen])

\* reconcile-requested-at, a neighbour's event, a profile edit, a resync.
Wake ==
  /\ obj.exists /\ ~queued
  /\ queued' = TRUE
  /\ UNCHANGED <<object, consented, edits>>

-----------------------------------------------------------------------------
(* The specification *)

Quiet ==
  \/ Get \/ ReconcilePaused \/ DeleteExternal \/ NothingToDelete
  \/ AddFinalizer \/ ValidationFailed \/ AdoptExternal \/ Create \/ Patch
  \/ Refresh \/ Observe \/ JobDisappeared \/ Cleanup \/ AdoptHandled
  \/ PersistExternalName \/ CreateFailed \/ Created \/ PatchHandled
  \/ RefreshHandled \/ SwapCollided \/ ClearHandled \/ RetireOld
  \/ SwapInPlace \/ RetireHandled \/ DeleteHandled

\* The reconciler's own steps, and the ones a fault imposes on it.
Reconcile == Quiet /\ UNCHANGED <<cloud, provider, edits, fault>>

Disturbed ==
  /\ \/ ProfileFails \/ ReferencesFail \/ SchemaUnavailable
     \/ ObserveGarbled \/ ObserveUnreadable \/ WaitTimeout
     \/ CleanupFails \/ Crash
  /\ UNCHANGED <<cloud, provider, edits>>

Runner ==
  /\ \E o \in Ops : JobRuns(o)
  /\ UNCHANGED <<provider, edits, fault>>

Environment ==
  /\ \/ \E o \in Ops : JobErrs(o) \/ JobLost(o) \/ JobExpires(o)
     \/ \E i \in Ids : Vanish(i)
  /\ UNCHANGED <<provider, edits>>

User ==
  /\ \/ (\E p \in Props : EditProps(p)) /\ UNCHANGED status
     \/ (EditPolicy \/ Delete \/ TogglePause \/ Approve) /\ UNCHANGED status
     \/ Wake
  /\ UNCHANGED <<local, jobs, cloud, provider, fault, forsaken, refused>>

Next == Reconcile \/ Disturbed \/ Runner \/ Environment \/ User

Spec == Init /\ [][Next]_vars

\* The workqueue keeps serving requests, and Kubernetes keeps running Jobs.
FairSpec == Spec /\ WF_vars(Reconcile) /\ WF_vars(Runner)

-----------------------------------------------------------------------------
(* Properties *)

\* While the reconciler carries out a delete, in a teardown or in a
\* replacement, the user had authorised the loss of the external resource at
\* the very generation the reconciler is working on: by protect=false, by
\* approving that generation, or by deleting the object under policy Delete.
\* (replacement.go: "an old approval never authorizes a later change".)
DestroyNeedsConsent ==
  (pc \in {"wait", "cleanup", "handle"} /\ op.verb = "delete")
    => me.gen \in consented

\* A Job that was lost, expired or printed no envelope, and a manager that
\* crashed, take the result of a mutation with them.
LossyFaults == {"crash", "jobLost", "garbled", "expire"}

\* These leave a Job behind that a later operation of the same name adopts.
\* Its outcome can be about an earlier resource when the client chooses the id.
StaleFaults == {"crash", "timeout", "unreadable", "keepJob"}
AdoptionIsExact == provider.clientNamed => seen \cap StaleFaults = {}

\* reconcileDelete releases the finalizer only when the resource in status.id
\* is gone or the policy is Orphan.  For ids the provider assigns this holds
\* under every fault, adopted and re-run Jobs included.
FinalizerOutlivesResource ==
  (~obj.exists /\ Live(status.id) /\ AdoptionIsExact) => obj.orphan

\* The resource i is named by a record a later reconcile can act on.
Recorded(i) ==
  \/ obj.exists /\ i \in {status.id, obj.extName}
  \/ \E p \in Props : /\ jobs[CreateOp(p)].phase = "complete"
                      /\ jobs[CreateOp(p)].res.id = i
  \/ /\ pc \in {"cleanup", "handle"} /\ op.verb = "create"
     /\ out.code = "OK" /\ out.id = i

\* Timeouts, unreadable logs, failed cleanups, provider errors, edits, pauses
\* and drift never make doplane lose a resource it created: until a lossy
\* fault has happened every live one is in status.id, in the external-name
\* annotation, in an unconsumed Job or in the reconciler's hands, unless it
\* was given up with a condition or an event.
EveryResourceRecorded ==
  (seen \cap LossyFaults = {} /\ AdoptionIsExact) =>
     \A i \in Ids : Live(i) /\ i \notin forsaken => Recorded(i)

\* Failures ahead of the first operation, which cause no Job to be created.
GateFaults == {"schema", "references", "profile"}

\* The API documents status.appliedHash as the hash of the last successfully
\* applied properties: while the object claims to be synced, the external
\* resource in status.id has exactly those properties.  Stated for objects
\* that met no fault but drift, provider errors and failures ahead of the first
\* operation.
AppliedHashIsApplied ==
  (/\ seen \subseteq {"drift", "provider"} \cup GateFaults
   /\ pc = "idle" /\ obj.exists /\ status.synced = "Synced" /\ Live(status.id))
     => cloud[status.id] = status.hash

\* annotations.go calls a SecretInputInID failure "hard-terminal until the spec
\* changes", since each create orphans another resource.  The code keeps less
\* than that: its record is the Synced condition, and everything else that
\* reports through the condition overwrites the record at the same generation.
\* What it does keep: an object without an external name runs no create again
\* at the generation of the failure, whatever wakes, crashes, timeouts, lost,
\* expired and re-adopted Jobs and late answers follow, unless one of these
\* wrote the condition in between: pausing and resuming (two user actions), a
\* missing or refusing provider profile, references that do not resolve, or a
\* failed fetch of the schema.  Objects with an external name, replacements
\* among them, are left out: a failed read or patch overwrites their record
\* (for replacements see ReplacementIsFinal).
SecretFailureIsTerminal ==
  (/\ edits <= 1 /\ seen \cap GateFaults = {}
   /\ me.extName = NoId /\ pc = "wait" /\ op.verb = "create")
     => me.gen \notin refused

\* The same of a replacement (replacement.go: "Stay terminal exactly as the
\* create path does"), as long as no patch, read or gate fails: a replacement
\* whose create failed with SecretInputInID is not tried again at that
\* generation, whatever crashes, wakes and vanished resources follow.
ReplacementIsFinal ==
  (/\ edits <= 1 /\ seen \subseteq {"crash", "drift"}
   /\ pc = "wait" /\ cont \in {"swap", "swapAgain"})
     => me.gen \notin refused

\* The object has come to rest (see Converges).
Settled ==
  \/ ~obj.exists \/ obj.deleting
  \/ obj.paused /\ status.synced = "ReconcilePaused"
  \/ status.synced \in {"SecretInputInID", "Terminal"} /\ status.syncedGen = obj.gen
  \/ /\ status.synced = "Synced" /\ status.syncedGen = obj.gen
     /\ status.hash = obj.props /\ (provider.canRead => Live(status.id))
  \/ /\ status.synced = "Retrying" /\ status.id = NoId
     /\ Collides /\ obj.extName # FixedId

\* The user and the faults stop eventually (both are bounded): from then on
\* the object comes to rest and stays there: deleted, paused, terminally failed
\* for its current generation, or synced to its current spec with an external
\* resource that is live as far as the provider can tell.  The exception the
\* README documents: when the client chose the name, a create that meets the
\* unrecorded resource of an earlier attempt fails loudly for ever.
Converges == <>[]Settled

\* A deleted object that is not paused disappears in the end, unless its type
\* cannot be read and the delete cannot do without: the package comes from git
\* or a private registry (documented: "have no fallback"), or no state was
\* recorded, or more than the operation can carry.  Such an object stays in
\* Terminating until its deletion policy becomes Orphan.
DeletionCompletes ==
  obj.deleting ~> \/ ~obj.exists \/ obj.paused
                  \/ /\ ~provider.canRead
                     /\ \/ ~provider.canFallBack
                        \/ deleteState(status.outputs) = NoProps

-----------------------------------------------------------------------------
(* The life of the external resource, without Jobs, waits and copies *)

Creations == {CreateOp(p) : p \in Props}
Deletions == {DeleteOp(i, s) : i \in Ids, s \in AnyProps}

\* What was ordered: a Job that is running; one that finished is a report.
Orders == {o \in Creations \cup Deletions : jobs[o].phase = "running"}

Fate(i) ==
  CASE cloud[i] \in Props   -> "live"
    [] cloud[i] = "unborn"  -> "unborn"
    [] cloud[i] = "deleted" -> "destroyed"
    [] OTHER                -> "vanished"
World == [i \in Ids |-> Fate(i)]

Life == INSTANCE ResourceLife WITH
  exists <- obj.exists, orphan <- obj.orphan, gen <- obj.gen,
  work <- IF pc = "idle" THEN {} ELSE {me.gen},
  recorded <- status.id, orders <- Orders, world <- World,
  exact <- AdoptionIsExact

\* The whole of the reconciler, its Jobs and its faults implements the life
\* cycle of one external resource: at every step, whatever was edited, retried,
\* adopted or lost in between, a resource is destroyed only while it is the
\* recorded one and at a generation that consented, a second one is made only to
\* replace it, a record changes only to a resource that was born, is given up
\* only for one that is gone, and the object goes last.
ImplementsLife == Life!Spec
=============================================================================
