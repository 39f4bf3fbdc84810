-------------------------- MODULE DoResourceProofs --------------------------
(***************************************************************************)
(* Proofs about DoResource, for every value of its constants: its types,   *)
(* and what the object allows.  Whatever is destroyed was authorised at    *)
(* the generation under reconciliation, a create that failed for good is   *)
(* not run again in its generation, and the object outlives its resource.  *)
(***************************************************************************)
EXTENDS DoResource, TLAPS

(***************************************************************************)
(* Type correctness.  TypeOK is inductive only together with what the      *)
(* reconciler's position says about its locals: an operation is under way, *)
(* and the branches that patch, replace or delete have a recorded id.      *)
(***************************************************************************)

Busy == {"wait", "cleanup", "handle", "named"}
NeedsId == {"patch", "refresh", "swap", "clear", "swapAgain", "retire", "delete"}

LocalsFit ==
  /\ pc \in Busy => op \in Ops
  /\ pc \in Busy /\ cont \in NeedsId => st.id # NoId

TypeInv == TypeOK /\ LocalsFit

\* The operation documents the reconciler builds are operations.
LEMMA OpTypes ==
  /\ \A p \in Props : CreateOp(p) \in Ops
  /\ \A i \in Ids : ReadOp(i) \in Ops
  /\ \A i \in Ids, p \in Props : PatchOp(i, p) \in Ops
  /\ \A i \in Ids, s \in AnyProps :
       DeleteOp(i, s) \in Ops /\ DeleteOp(i, deleteState(s)) \in Ops
<1>1. \A s \in AnyProps : deleteState(s) \in AnyProps
  BY DEF deleteState, AnyProps
<1> QED
  BY <1>1 DEF Ops

\* Every operation is one of the four kinds.
LEMMA OpKinds ==
  ASSUME NEW o \in Ops
  PROVE  /\ o.verb \in {"create", "read", "patch", "delete"}
         /\ o.verb = "create" => o.props \in Props /\ o = CreateOp(o.props)
         /\ o.verb = "read" => o.id \in Ids
         /\ o.verb = "patch" => o.id \in Ids /\ o.props \in Props
         /\ o.verb = "delete" =>
              o.id \in Ids /\ o.props \in AnyProps /\ o = DeleteOp(o.id, o.props)
BY DEF Ops, CreateOp, ReadOp, PatchOp, DeleteOp

\* The blank locals have their types.
LEMMA BlankTypes ==
  /\ NoCopy \in Objects /\ NewStatus \in Statuses
  /\ NoResult \in Results /\ NoneMade \in Made /\ NoJob \in Jobs
BY PropsAssumption
   DEF NoCopy, NewObject, Objects, AnyId, NewStatus, Statuses, AnyProps,
       Reasons, NoResult, Results, Codes, NoneMade, Made, NoJob, Jobs

-----------------------------------------------------------------------------
(* What each building block of a step does to the types *)

Locals ==
  /\ pc \in PCs /\ cont \in Conts /\ me \in Objects /\ st \in Statuses
  /\ op \in Ops \cup {NoOp} /\ out \in Results /\ made \in Made
  /\ queued \in BOOLEAN

\* A reconcile that returns leaves blank locals.
LEMMA ReturnTypes ==
  ASSUME TypeOK, NEW b \in BOOLEAN, Return(b)
  PROVE  Locals' /\ LocalsFit' /\ pc' = "idle"
BY BlankTypes DEF Return, Locals, LocalsFit, TypeOK, PCs, Conts, Busy

\* Starting an operation leaves well-typed locals and Jobs.
LEMMA RunOpTypes ==
  ASSUME TypeOK, NEW o \in Ops, NEW c \in Conts, RunOp(o, c),
         c \in NeedsId => st.id # NoId
  PROVE  /\ Locals' /\ LocalsFit'
         /\ jobs' \in [Ops -> Jobs] /\ UNCHANGED <<object, ghosts>>
<1>1. [phase |-> "running", res |-> NoResult] \in Jobs
  BY BlankTypes DEF Jobs
<1>2. jobs' \in [Ops -> Jobs]
  BY <1>1 DEF TypeOK, RunOp, ensureJob
<1> QED
  BY <1>2 DEF RunOp, Locals, LocalsFit, TypeOK, PCs, Busy

\* persistStatus writes a well-typed status.
LEMMA PersistTypes ==
  ASSUME TypeOK, NEW s \in Statuses, persistStatus(s)
  PROVE  obj' \in Objects /\ status' \in Statuses /\ jobs' \in [Ops -> Jobs]
BY DEF persistStatus, TypeOK


\* All that a step of the reconciler can change.
Core ==
  /\ obj \in Objects /\ status \in Statuses /\ Locals /\ LocalsFit
  /\ jobs \in [Ops -> Jobs]
  /\ consented \subseteq Nat /\ forsaken \subseteq Ids /\ refused \subseteq Nat

\* What a step of the reconciler can change is all that the types need.
LEMMA CoreIsType ==
  /\ TypeInv => Core
  /\ Core' /\ TypeInv /\ UNCHANGED <<cloud, provider, edits, faults, seen>>
       => TypeInv'
BY DEF TypeInv, TypeOK, Core, Locals

\* markSyncFailed preserves the types.
LEMMA FailedTypes ==
  ASSUME TypeInv, NEW r \in Reasons, NEW b \in BOOLEAN, markSyncFailed(r, b)
  PROVE  Core'
<1>1. [st EXCEPT !.synced = r, !.syncedGen = me.gen] \in Statuses
  BY DEF TypeInv, TypeOK, Statuses, Objects
<1>2. obj' \in Objects /\ status' \in Statuses /\ jobs' \in [Ops -> Jobs]
  BY <1>1, PersistTypes DEF markSyncFailed, persistSyncFailure, TypeInv
<1>3. Locals' /\ LocalsFit'
  BY ReturnTypes DEF markSyncFailed, TypeInv
<1> QED
  BY <1>2, <1>3 DEF Core, markSyncFailed, ghosts, TypeInv, TypeOK

\* markSynced preserves the types.
LEMMA SyncedTypes ==
  ASSUME TypeInv, NEW i \in AnyId, NEW s \in AnyProps, markSynced(i, s)
  PROVE  /\ obj' \in Objects /\ status' \in Statuses /\ jobs' \in [Ops -> Jobs]
         /\ Locals' /\ LocalsFit'
<1>1. [id |-> i, outputs |-> IF s = NoProps THEN st.outputs ELSE s,
       hash |-> me.props, synced |-> "Synced", syncedGen |-> me.gen] \in Statuses
  BY DEF TypeInv, TypeOK, Statuses, Objects, AnyProps, Reasons
<1> QED
  BY <1>1, PersistTypes, ReturnTypes DEF markSynced, TypeInv

\* Forgetting a vanished resource preserves the types.
LEMMA MissingTypes ==
  ASSUME TypeInv, markMissing
  PROVE  Core'
<1>1. [st EXCEPT !.id = NoId, !.outputs = NoProps, !.hash = NoProps] \in Statuses
  BY DEF TypeInv, TypeOK, Statuses, AnyId, AnyProps
<1>2. obj' \in Objects /\ status' \in Statuses /\ jobs' \in [Ops -> Jobs]
  BY <1>1, PersistTypes DEF markMissing, TypeInv
<1>3. Locals' /\ LocalsFit'
  BY ReturnTypes DEF markMissing, TypeInv
<1> QED
  BY <1>2, <1>3 DEF Core, markMissing, ghosts, TypeInv, TypeOK

\* Starting an operation preserves the types.
LEMMA RunTypes ==
  ASSUME TypeInv, NEW o \in Ops, NEW c \in Conts, RunOp(o, c),
         c \in NeedsId => st.id # NoId
  PROVE  Core'
BY RunOpTypes DEF Core, TypeInv, TypeOK, object, ghosts

\* Returning without a write preserves the types.
LEMMA IdleTypes ==
  ASSUME TypeInv, NEW b \in BOOLEAN, Return(b), UNCHANGED <<object, jobs, ghosts>>
  PROVE  Core'
BY ReturnTypes DEF Core, TypeInv, TypeOK, object, ghosts

\* The create of reconcileCreate preserves the types.
LEMMA CreateTypes ==
  ASSUME TypeInv, CreateUnlessTerminal
  PROVE  Core'
<1>1. CreateOp(me.props) \in Ops
  BY OpTypes DEF TypeInv, TypeOK, Objects
<1> QED
  BY <1>1, RunTypes, IdleTypes DEF CreateUnlessTerminal, Conts, NeedsId

\* Releasing the finalizer, or failing to, preserves the types.
LEMMA ReleaseTypes ==
  ASSUME TypeInv, ReleaseFinalizer
  PROVE  Core'
<1>1. CASE Conflict
  BY <1>1, IdleTypes DEF Conflict
<1>2. CASE ~Conflict
  <2>1. obj' \in Objects
    BY <1>2 DEF ReleaseFinalizer, TypeInv, TypeOK, Objects
  <2>2. forsaken' \subseteq Ids
    BY <1>2 DEF ReleaseFinalizer, TypeInv, TypeOK
  <2>3. Locals' /\ LocalsFit'
    BY <1>2, ReturnTypes DEF ReleaseFinalizer, TypeInv
  <2> QED
    BY <1>2, <2>1, <2>2, <2>3 DEF Core, ReleaseFinalizer, TypeInv, TypeOK
<1> QED
  BY <1>1, <1>2

\* reconcileReplacement preserves the types.
LEMMA ReplaceTypes ==
  ASSUME TypeInv, st.id # NoId, reconcileReplacement
  PROVE  Core'
<1>1. CreateOp(me.props) \in Ops
  BY OpTypes DEF TypeInv, TypeOK, Objects
<1>2. CASE markSyncFailed("Terminal", FALSE)
  BY <1>2, FailedTypes DEF Reasons
<1>3. CASE ~markSyncFailed("Terminal", FALSE)
  BY <1>1, <1>3, RunTypes, IdleTypes DEF reconcileReplacement, Conts
<1> QED
  BY <1>2, <1>3

-----------------------------------------------------------------------------
(* One lemma per group of actions *)

\* Every step of the reconciler preserves the types.
LEMMA QuietTypes ==
  ASSUME TypeInv, Quiet
  PROVE  Core'
<1> USE DEF TypeInv
<1>1. CASE Get
  BY <1>1 DEF Get, Core, Locals, LocalsFit, TypeOK, PCs, Busy, object, ghosts
<1>2. CASE ReconcilePaused
  BY <1>2, FailedTypes DEF ReconcilePaused, Reasons
<1>3. CASE DeleteExternal
  <2>1. DeleteOp(st.id, deleteState(st.outputs)) \in Ops
    BY <1>3, OpTypes DEF DeleteExternal, TypeOK, Statuses, AnyId
  <2> QED
    BY <1>3, <2>1, RunTypes DEF DeleteExternal, Conts
<1>4. CASE NothingToDelete
  BY <1>4, ReleaseTypes DEF NothingToDelete
<1>5. CASE AddFinalizer
  <2>1. CASE Conflict
    BY <2>1, IdleTypes DEF Conflict
  <2>2. CASE ~Conflict
    <3>1. obj' \in Objects /\ me' \in Objects
      BY <1>5, <2>2 DEF AddFinalizer, TypeOK, Objects
    <3> QED
      BY <1>5, <2>2, <3>1
         DEF AddFinalizer, Core, Locals, LocalsFit, TypeOK, ghosts
  <2> QED
    BY <2>1, <2>2
<1>6. CASE ValidationFailed
  BY <1>6, FailedTypes DEF ValidationFailed, Reasons
<1>7. CASE AdoptExternal
  <2>1. ReadOp(me.extName) \in Ops
    BY <1>7, OpTypes DEF AdoptExternal, TypeOK, Objects, AnyId
  <2> QED
    BY <1>7, <2>1, RunTypes DEF AdoptExternal, Conts, NeedsId
<1>8. CASE Create
  BY <1>8, CreateTypes DEF Create
<1>9. CASE Patch
  <2>1. PatchOp(st.id, me.props) \in Ops
    BY <1>9, OpTypes DEF Patch, TypeOK, Statuses, Objects, AnyId
  <2> QED
    BY <1>9, <2>1, RunTypes DEF Patch, Conts
<1>10. CASE Refresh
  <2>1. ReadOp(st.id) \in Ops
    BY <1>10, OpTypes DEF Refresh, TypeOK, Statuses, AnyId
  <2> QED
    BY <1>10, <2>1, RunTypes DEF Refresh, Conts
<1>11. CASE Observe
  <2>1. jobs[op].res \in Results
    BY <1>11 DEF Observe, Waiting, TypeOK, LocalsFit, Busy, Jobs
  <2> QED
    BY <1>11, <2>1, BlankTypes
       DEF Observe, Waiting, Core, Locals, LocalsFit, TypeOK, PCs, Busy,
           object, ghosts
<1>12. CASE JobDisappeared
  BY <1>12, BlankTypes
     DEF JobDisappeared, Waiting, Core, Locals, LocalsFit, TypeOK, PCs, Busy,
         object, ghosts
<1>13. CASE Cleanup
  BY <1>13, BlankTypes
     DEF Cleanup, Core, Locals, LocalsFit, TypeOK, PCs, Busy, object, ghosts
<1>14. CASE AdoptHandled
  <2>1. CASE CreateUnlessTerminal
    BY <2>1, CreateTypes
  <2>2. CASE markSynced(me.extName, out.state) /\ UNCHANGED ghosts
    <3>1. me.extName \in AnyId /\ out.state \in AnyProps
      BY DEF TypeOK, Objects, Results
    <3> QED
      BY <2>2, <3>1, SyncedTypes DEF Core, TypeOK, ghosts
  <2>3. CASE markSyncFailed("Retrying", TRUE)
    BY <2>3, FailedTypes DEF Reasons
  <2> QED
    BY <1>14, <2>1, <2>2, <2>3 DEF AdoptHandled
<1>15. CASE PersistExternalName
  <2>1. out.id \in AnyId /\ out.state \in AnyProps
    BY DEF TypeOK, Results
  <2>2. obj' \in Objects /\ me' \in Objects
    BY <1>15, <2>1 DEF PersistExternalName, TypeOK, Objects
  <2>3. made' \in Made
    BY <1>15, <2>1 DEF PersistExternalName, Made
  <2> QED
    BY <1>15, <2>2, <2>3
       DEF PersistExternalName, Core, Locals, LocalsFit, TypeOK, PCs, Busy, ghosts
<1>16. CASE CreateFailed
  <2>1. CASE markSyncFailed("Retrying", TRUE)
    BY <2>1, FailedTypes DEF Reasons
  <2>2. CASE /\ persistSyncFailure("SecretInputInID") /\ Return(FALSE)
             /\ refused' = refused \cup {me.gen}
             /\ UNCHANGED <<consented, forsaken>>
    <3>1. [st EXCEPT !.synced = "SecretInputInID", !.syncedGen = me.gen] \in Statuses
      BY DEF TypeOK, Statuses, Objects, Reasons
    <3>2. obj' \in Objects /\ status' \in Statuses /\ jobs' \in [Ops -> Jobs]
      BY <2>2, <3>1, PersistTypes DEF persistSyncFailure
    <3>3. refused' \subseteq Nat
      BY <2>2 DEF TypeOK, Objects
    <3> QED
      BY <2>2, <3>2, <3>3, ReturnTypes DEF Core, TypeOK
  <2> QED
    BY <1>16, <2>1, <2>2 DEF CreateFailed
<1>17. CASE Created
  <2>1. made.id \in AnyId /\ made.state \in AnyProps
    BY DEF TypeOK, Made
  <2> QED
    BY <1>17, <2>1, SyncedTypes DEF Created, Core, TypeOK, ghosts
<1>18. CASE PatchHandled
  <2>1. st.id # NoId /\ st.id \in AnyId /\ out.state \in AnyProps
    BY <1>18
       DEF PatchHandled, Handling, LocalsFit, Busy, NeedsId, TypeOK, Statuses, Results
  <2>2. CASE markSynced(st.id, out.state) /\ UNCHANGED ghosts
    BY <2>1, <2>2, SyncedTypes DEF Core, TypeOK, ghosts
  <2>3. CASE reconcileReplacement
    BY <2>1, <2>3, ReplaceTypes
  <2>4. CASE markSyncFailed("Terminal", FALSE)
    BY <2>4, FailedTypes DEF Reasons
  <2>5. CASE markMissing
    BY <2>5, MissingTypes
  <2>6. CASE markSyncFailed("Retrying", TRUE)
    BY <2>6, FailedTypes DEF Reasons
  <2> QED
    BY <1>18, <2>2, <2>3, <2>4, <2>5, <2>6 DEF PatchHandled
<1>19. CASE RefreshHandled
  <2>1. st.id \in AnyId /\ out.state \in AnyProps
    BY DEF TypeOK, Statuses, Results
  <2>2. CASE markSynced(st.id, out.state) /\ UNCHANGED ghosts
    BY <2>1, <2>2, SyncedTypes DEF Core, TypeOK, ghosts
  <2>3. CASE markMissing
    BY <2>3, MissingTypes
  <2>4. CASE markSyncFailed("Retrying", TRUE)
    BY <2>4, FailedTypes DEF Reasons
  <2> QED
    BY <1>19, <2>2, <2>3, <2>4 DEF RefreshHandled
<1>20. CASE SwapCollided
  <2>1. st.id # NoId /\ DeleteOp(st.id, deleteState(st.outputs)) \in Ops
    BY <1>20, OpTypes
       DEF SwapCollided, Handling, LocalsFit, Busy, NeedsId, TypeOK, Statuses, AnyId
  <2> QED
    BY <1>20, <2>1, RunTypes DEF SwapCollided, Conts
<1>21. CASE ClearHandled
  <2>1. st.id # NoId /\ CreateOp(me.props) \in Ops
    BY <1>21, OpTypes
       DEF ClearHandled, Handling, LocalsFit, Busy, NeedsId, TypeOK, Objects
  <2>2. CASE RunOp(CreateOp(me.props), "swapAgain")
    BY <2>1, <2>2, RunTypes DEF Conts
  <2>3. CASE markSyncFailed("Retrying", TRUE)
    BY <2>3, FailedTypes DEF Reasons
  <2> QED
    BY <1>21, <2>2, <2>3 DEF ClearHandled
<1>22. CASE RetireOld
  <2>1. st.id # NoId /\ DeleteOp(st.id, deleteState(st.outputs)) \in Ops
    BY <1>22, OpTypes
       DEF RetireOld, LocalsFit, Busy, NeedsId, TypeOK, Statuses, AnyId
  <2> QED
    BY <1>22, <2>1, RunTypes DEF RetireOld, Conts
<1>23. CASE SwapInPlace
  <2>1. made.id \in AnyId /\ made.state \in AnyProps
    BY DEF TypeOK, Made
  <2> QED
    BY <1>23, <2>1, SyncedTypes DEF SwapInPlace, Core, TypeOK, ghosts
<1>24. CASE RetireHandled
  <2>1. made.id \in AnyId /\ made.state \in AnyProps
    BY DEF TypeOK, Made
  <2>2. forsaken' \subseteq Ids
    BY <1>24 DEF RetireHandled, TypeOK
  <2> QED
    BY <1>24, <2>1, <2>2, SyncedTypes DEF RetireHandled, Core, TypeOK
<1>25. CASE DeleteHandled
  <2>1. CASE ReleaseFinalizer
    BY <2>1, ReleaseTypes
  <2>2. CASE Return(TRUE) /\ UNCHANGED <<object, jobs, ghosts>>
    BY <2>2, IdleTypes
  <2> QED
    BY <1>25, <2>1, <2>2 DEF DeleteHandled
<1> QED
  BY <1>1, <1>2, <1>3, <1>4, <1>5, <1>6, <1>7, <1>8, <1>9, <1>10, <1>11,
     <1>12, <1>13, <1>14, <1>15, <1>16, <1>17, <1>18, <1>19, <1>20, <1>21,
     <1>22, <1>23, <1>24, <1>25
     DEF Quiet

\* A fault is counted and remembered.
LEMMA FaultTypes ==
  ASSUME TypeOK, NEW f \in FaultKinds, Fault(f)
  PROVE  faults' \in Nat /\ seen' \subseteq FaultKinds
BY DEF Fault, TypeOK

\* The faults of the reconciler preserve the types.
LEMMA DisturbedTypes ==
  ASSUME TypeInv, Disturbed
  PROVE  TypeInv'
<1> USE DEF TypeInv
<1>1. Core'
  <2>1. CASE ProfileFails \/ ReferencesFail \/ SchemaUnavailable
    BY <2>1, FailedTypes DEF ProfileFails, ReferencesFail, SchemaUnavailable, Reasons
  <2>2. CASE ObserveGarbled \/ ObserveUnreadable \/ WaitTimeout
    BY <2>2, BlankTypes
       DEF ObserveGarbled, ObserveUnreadable, WaitTimeout, Waiting, Core, Locals,
           LocalsFit, TypeOK, PCs, Busy, object, ghosts
  <2>3. CASE CleanupFails
    BY <2>3 DEF CleanupFails, Core, Locals, LocalsFit, TypeOK, PCs, Busy,
                object, ghosts
  <2>4. CASE Crash
    BY <2>4, IdleTypes DEF Crash
  <2> QED
    BY <2>1, <2>2, <2>3, <2>4 DEF Disturbed
<1>2. faults' \in Nat /\ seen' \subseteq FaultKinds
  BY FaultTypes
     DEF Disturbed, ProfileFails, ReferencesFail, SchemaUnavailable, ObserveGarbled, ObserveUnreadable,
         WaitTimeout, CleanupFails, Crash, FaultKinds
<1> QED
  BY <1>1, <1>2 DEF Disturbed, Core, Locals, TypeOK

\* What the provider does is well typed.
LEMMA ProviderTypes ==
  ASSUME TypeOK, NEW o \in Ops, CanRun(o)
  PROVE  /\ Outcome(o) \in Results
         /\ CloudAfter(o) \in [Ids -> Props \cup {"unborn", "deleted", "vanished"}]
         /\ o.verb = "create" => NewId \in Ids
         /\ o.verb = "create" /\ ~provider.clientNamed => NewId \in Fresh
<1>1. o.verb = "create" /\ ~provider.clientNamed => NewId \in Fresh
  BY DEF CanRun, NewId
<1>2. o.verb = "create" => NewId \in Ids
  BY <1>1, IdAssumption DEF NewId, Fresh
<1>3. o.verb = "create" => CreateResult(o) \in Results
  BY <1>2, OpKinds DEF CreateResult, Result, Results, Codes, AnyId, AnyProps
<1>4. o.verb = "read" => ReadResult(o) \in Results
  BY OpKinds DEF ReadResult, Result, Results, Codes, AnyId, AnyProps, Live
<1>5. o.verb = "patch" => PatchResult(o) \in Results
  BY OpKinds DEF PatchResult, Result, Results, Codes, AnyId, AnyProps
<1>6. o.verb = "delete" => DeleteResult(o) \in Results
  BY OpKinds DEF DeleteResult, Result, Results, Codes, AnyId, AnyProps
<1>7. Outcome(o) \in Results
  BY <1>3, <1>4, <1>5, <1>6, OpKinds DEF Outcome
<1>8. CloudAfter(o) \in [Ids -> Props \cup {"unborn", "deleted", "vanished"}]
  BY <1>2, OpKinds DEF CloudAfter, TypeOK
<1> QED
  BY <1>1, <1>2, <1>7, <1>8

\* A Job that runs preserves the types.
LEMMA RunnerTypes ==
  ASSUME TypeInv, Runner
  PROVE  TypeInv'
<1> USE DEF TypeInv
<1>1. PICK o \in Ops : JobRuns(o)
  BY DEF Runner
<1>2. /\ Outcome(o) \in Results
      /\ cloud' \in [Ids -> Props \cup {"unborn", "deleted", "vanished"}]
      /\ o.verb = "create" => NewId \in Ids
  BY <1>1, ProviderTypes DEF JobRuns
<1>3. jobs' \in [Ops -> Jobs]
  BY <1>1, <1>2 DEF JobRuns, TypeOK, Jobs
<1>4. Outcome(o).code = "SecretInputInID" => o.verb = "create"
  BY OpKinds DEF Outcome, ReadResult, PatchResult, DeleteResult, Result
<1>5. forsaken' \subseteq Ids
  BY <1>1, <1>2, <1>4 DEF JobRuns, TypeOK
<1> QED
  BY <1>1, <1>2, <1>3, <1>5
     DEF Runner, JobRuns, TypeOK, LocalsFit, object, local, fault

\* Lost Jobs, provider errors and drift preserve the types.
LEMMA EnvironmentTypes ==
  ASSUME TypeInv, Environment
  PROVE  TypeInv'
<1> USE DEF TypeInv
<1>1. ASSUME NEW o \in Ops, JobErrs(o) \/ JobLost(o) \/ JobExpires(o)
      PROVE  TypeInv'
  <2>1. faults' \in Nat /\ seen' \subseteq FaultKinds
    BY <1>1, FaultTypes DEF JobErrs, JobLost, JobExpires, FaultKinds
  <2>2. jobs' \in [Ops -> Jobs]
    BY <1>1, BlankTypes DEF JobErrs, JobLost, JobExpires, TypeOK, Jobs
  <2>3. cloud' \in [Ids -> Props \cup {"unborn", "deleted", "vanished"}]
    BY <1>1, ProviderTypes DEF JobErrs, JobLost, JobExpires, TypeOK
  <2> QED
    BY <1>1, <2>1, <2>2, <2>3
       DEF Environment, JobErrs, JobLost, JobExpires, TypeOK, LocalsFit,
           object, local, ghosts
<1>2. ASSUME NEW i \in Ids, Vanish(i)
      PROVE  TypeInv'
  <2>1. faults' \in Nat /\ seen' \subseteq FaultKinds
    BY <1>2, FaultTypes DEF Vanish, FaultKinds
  <2>2. cloud' \in [Ids -> Props \cup {"unborn", "deleted", "vanished"}]
    BY <1>2 DEF Vanish, TypeOK
  <2> QED
    BY <1>2, <2>1, <2>2
       DEF Environment, Vanish, TypeOK, LocalsFit, object, local, ghosts
<1> QED
  BY <1>1, <1>2 DEF Environment

\* An object the user writes differs from the present one in well typed fields.
LEMMA ObjectUpdates ==
  ASSUME obj \in Objects
  PROVE  /\ \A p \in Props : [obj EXCEPT !.props = p, !.gen = @ + 1] \in Objects
         /\ [obj EXCEPT !.protect = ~@, !.gen = @ + 1] \in Objects
         /\ [obj EXCEPT !.orphan = ~@, !.gen = @ + 1] \in Objects
         /\ [obj EXCEPT !.deleting = TRUE, !.gen = @ + 1,
                        !.exists = obj.finalizer] \in Objects
         /\ [obj EXCEPT !.paused = ~@] \in Objects
         /\ [obj EXCEPT !.approved = obj.gen] \in Objects
<1>1. obj.gen + 1 \in Nat
  BY DEF Objects
<1>2. \A n \in Nat, b \in BOOLEAN :
        /\ [obj EXCEPT !.protect = b, !.gen = n] \in Objects
        /\ [obj EXCEPT !.orphan = b, !.gen = n] \in Objects
        /\ [obj EXCEPT !.paused = b] \in Objects
  BY DEF Objects
<1>3. \A n \in Nat, p \in Props : [obj EXCEPT !.props = p, !.gen = n] \in Objects
  BY DEF Objects
<1>4. [obj EXCEPT !.approved = obj.gen] \in Objects
  BY DEF Objects
<1>5. \A n \in Nat, b \in BOOLEAN :
        [obj EXCEPT !.deleting = TRUE, !.gen = n, !.exists = b] \in Objects
  BY DEF Objects
<1>6. /\ obj.finalizer \in BOOLEAN /\ (~obj.protect) \in BOOLEAN
      /\ (~obj.orphan) \in BOOLEAN /\ (~obj.paused) \in BOOLEAN
  BY DEF Objects
<1> QED
  BY <1>1, <1>2, <1>3, <1>4, <1>5, <1>6, Zenon

\* The actions of the user preserve the types.
LEMMA UserTypes ==
  ASSUME TypeInv, User
  PROVE  TypeInv'
<1> USE DEF TypeInv
<1>1. UNCHANGED <<local, jobs, cloud, provider, fault, forsaken, refused>>
  BY DEF User
<1>2. ASSUME NEW o \in Objects, UserWrites(o), UNCHANGED status
      PROVE  TypeInv'
  <2>1. o.gen \in Nat
    BY DEF Objects
  <2>2. edits' \in Nat /\ consented' \subseteq Nat
    <3>1. edits' = edits + 1 /\ edits \in Nat
      BY <1>2 DEF UserWrites, TypeOK
    <3>2. consented' \subseteq consented \cup {o.gen} /\ consented \subseteq Nat
      BY <1>2 DEF UserWrites, TypeOK
    <3> QED
      BY <2>1, <3>1, <3>2
  <2> QED
    BY <1>1, <1>2, <2>2 DEF UserWrites, TypeOK, LocalsFit, local, fault
<1>3. obj \in Objects
  BY DEF TypeOK
<1>4. ASSUME NEW p \in Props, EditProps(p), UNCHANGED status
      PROVE  TypeInv'
  BY <1>2, <1>3, <1>4, ObjectUpdates DEF EditProps
<1>5. CASE (EditPolicy \/ Delete \/ TogglePause \/ Approve) /\ UNCHANGED status
  BY <1>2, <1>3, <1>5, ObjectUpdates DEF EditPolicy, Delete, TogglePause, Approve
<1>6. CASE Wake
  BY <1>1, <1>6 DEF Wake, TypeOK, LocalsFit, local, fault, object
<1> QED
  BY <1>4, <1>5, <1>6 DEF User

\* The types hold for a new object.
LEMMA TypeInit == Init => TypeInv
<1> SUFFICES ASSUME Init PROVE TypeInv
  OBVIOUS
<1>1. PICK p \in Props, q \in Props, prot \in BOOLEAN, imp \in Imports :
        /\ obj = NewObject(p, prot, IF imp = "none" THEN NoId ELSE ImportId)
        /\ forsaken = IF imp = "live" THEN {ImportId} ELSE {}
        /\ cloud = [i \in Ids |->
             IF i # ImportId \/ imp = "none" THEN "unborn"
             ELSE IF imp = "live" THEN q ELSE "vanished"]
  BY DEF Init
<1>2. obj \in Objects
  BY <1>1, IdAssumption DEF NewObject, Objects, AnyId
<1>3. /\ cloud \in [Ids -> Props \cup {"unborn", "deleted", "vanished"}]
      /\ forsaken \subseteq Ids
  BY <1>1, IdAssumption
<1> QED
  BY <1>2, <1>3, BlankTypes, EnvAssumption
     DEF Init, TypeInv, TypeOK, LocalsFit, Busy, PCs, Conts

\* Every step of the system preserves the types.
LEMMA TypeStep == TypeInv /\ [Next]_vars => TypeInv'
<1> SUFFICES ASSUME TypeInv, [Next]_vars PROVE TypeInv'
  OBVIOUS
<1>1. CASE Reconcile
  BY <1>1, QuietTypes, CoreIsType DEF Reconcile, fault
<1>2. CASE Disturbed
  BY <1>2, DisturbedTypes
<1>3. CASE Runner
  BY <1>3, RunnerTypes
<1>4. CASE Environment
  BY <1>4, EnvironmentTypes
<1>5. CASE User
  BY <1>5, UserTypes
<1>6. CASE UNCHANGED vars
  BY <1>6 DEF vars, object, local, fault, ghosts, TypeInv, TypeOK, LocalsFit
<1> QED
  BY <1>1, <1>2, <1>3, <1>4, <1>5, <1>6 DEF Next

\* Every variable keeps its type: in particular every operation the reconciler
\* hands to the runner is a well formed document, so no patch, replacement or
\* delete is ever issued for the empty id.
THEOREM TypeCorrect == Spec => []TypeOK
<1>1. Spec => []TypeInv
  BY TypeInit, TypeStep, PTL DEF Spec
<1>2. TypeInv => TypeOK
  BY DEF TypeInv
<1> QED
  BY <1>1, <1>2, PTL

-----------------------------------------------------------------------------
(***************************************************************************)
(* DestroyNeedsConsent.  The history of authorisations only grows, and the *)
(* reconciler's copy of the object was authorised when the object was; so  *)
(* it is enough that the copy authorises whatever delete is under way, and *)
(* that a replacement under way was permitted by that same copy.           *)
(***************************************************************************)

Swaps == {"swap", "clear", "swapAgain", "retire"}
Permitted(o) == ~o.protect \/ o.approved = o.gen

ConsentInv ==
  /\ Consents(obj) => obj.gen \in consented
  /\ pc # "idle" /\ Consents(me) => me.gen \in consented
  /\ pc \in Busy /\ op.verb = "delete" => Consents(me)
  /\ pc \in Busy /\ cont \in Swaps => Permitted(me)

\* An object with the same generation, policy and approval consents alike.
SameConsent(o, p) ==
  /\ o.gen = p.gen /\ o.protect = p.protect /\ o.approved = p.approved
  /\ o.deleting = p.deleting /\ o.orphan = p.orphan

\* A reconcile that returns leaves nothing under way to be authorised.
LEMMA ReturnConsent ==
  ASSUME ConsentInv, NEW b, Return(b), SameConsent(obj', obj),
         consented' = consented
  PROVE  ConsentInv'
BY DEF ConsentInv, Return, Busy, SameConsent, Consents

\* Starting an operation is safe when the copy of the object that Reconcile
\* works on authorises it.
LEMMA RunConsent ==
  ASSUME ConsentInv, pc # "idle", NEW o, NEW c, RunOp(o, c),
         o.verb = "delete" => Consents(me), c \in Swaps => Permitted(me)
  PROVE  ConsentInv'
<1>1. /\ obj' = obj /\ me' = me /\ consented' = consented
      /\ op' = o /\ cont' = c /\ pc' = "wait"
  BY DEF RunOp, object, ghosts
<1>2. (Consents(obj) => obj.gen \in consented)'
  BY <1>1 DEF ConsentInv, Consents
<1>3. Consents(me)' <=> Consents(me)
  BY <1>1 DEF Consents
<1>4. (pc # "idle" /\ Consents(me) => me.gen \in consented)'
  BY <1>1, <1>3 DEF ConsentInv
<1>5. (pc \in Busy /\ op.verb = "delete" => Consents(me))'
  BY <1>1, <1>3
<1>6. (pc \in Busy /\ cont \in Swaps => Permitted(me))'
  BY <1>1 DEF Swaps, Permitted
<1> QED
  BY <1>2, <1>4, <1>5, <1>6 DEF ConsentInv

\* The create of reconcileCreate destroys nothing.
LEMMA CreateConsent ==
  ASSUME ConsentInv, pc # "idle", CreateUnlessTerminal
  PROVE  ConsentInv'
<1>1. CASE Return(FALSE) /\ UNCHANGED <<object, jobs, ghosts>>
  BY <1>1, ReturnConsent DEF SameConsent, object, ghosts
<1>2. CASE RunOp(CreateOp(me.props), "create")
  <2>1. CreateOp(me.props).verb # "delete" /\ "create" \notin Swaps
    BY DEF CreateOp, Swaps
  <2> QED
    BY <1>2, <2>1, RunConsent
<1> QED
  BY <1>1, <1>2 DEF CreateUnlessTerminal

\* markSyncFailed ends the reconcile and changes no authorisation.
LEMMA FailedConsent ==
  ASSUME ConsentInv, NEW r, NEW b, markSyncFailed(r, b)
  PROVE  ConsentInv'
BY ReturnConsent
   DEF markSyncFailed, persistSyncFailure, persistStatus, SameConsent, ghosts

\* markSynced ends the reconcile and changes no authorisation.
LEMMA SyncedConsent ==
  ASSUME ConsentInv, NEW i, NEW s, markSynced(i, s), consented' = consented
  PROVE  ConsentInv'
BY ReturnConsent DEF markSynced, persistStatus, SameConsent

\* Forgetting a vanished resource changes no authorisation.
LEMMA MissingConsent ==
  ASSUME ConsentInv, markMissing
  PROVE  ConsentInv'
BY ReturnConsent DEF markMissing, persistStatus, SameConsent, ghosts

\* Releasing the finalizer changes no policy and no approval.
LEMMA ReleaseConsent ==
  ASSUME TypeOK, ConsentInv, ReleaseFinalizer
  PROVE  ConsentInv'
<1>1. SameConsent([obj EXCEPT !.finalizer = FALSE, !.exists = FALSE], obj)
  BY DEF TypeOK, Objects, SameConsent
<1>2. SameConsent(obj, obj)
  BY DEF SameConsent
<1> QED
  BY <1>1, <1>2, ReturnConsent DEF ReleaseFinalizer, Conflict, object, ghosts

\* reconcileReplacement starts a replacement only if the copy permits it.
LEMMA ReplaceConsent ==
  ASSUME ConsentInv, pc # "idle", reconcileReplacement
  PROVE  ConsentInv'
<1>1. CASE markSyncFailed("Terminal", FALSE)
  BY <1>1, FailedConsent
<1>2. CASE ~markSyncFailed("Terminal", FALSE)
  BY <1>2, ReturnConsent, RunConsent
     DEF reconcileReplacement, protected, replacementApproved, Permitted,
         SameConsent, object, ghosts, CreateOp
<1> QED
  BY <1>1, <1>2

\* Every step of the reconciler preserves the authorisation of what it does.
LEMMA QuietConsent ==
  ASSUME TypeInv, ConsentInv, Quiet
  PROVE  ConsentInv'
<1> USE DEF TypeInv
<1>1. CASE Get
  BY <1>1 DEF Get, ConsentInv, Busy, object, ghosts, Consents
<1>2. CASE ReconcilePaused \/ ValidationFailed
  BY <1>2, FailedConsent DEF ReconcilePaused, ValidationFailed
<1>3. CASE DeleteExternal
  BY <1>3, RunConsent DEF DeleteExternal, Consents, Swaps
<1>4. CASE NothingToDelete
  BY <1>4, ReleaseConsent DEF NothingToDelete
<1>5. CASE AddFinalizer
  <2>1. /\ SameConsent([obj EXCEPT !.finalizer = TRUE], obj)
        /\ SameConsent([me EXCEPT !.finalizer = TRUE], me)
        /\ SameConsent(obj, obj)
    BY DEF TypeOK, Objects, SameConsent
  <2>2. CASE Conflict
    BY <2>1, <2>2, ReturnConsent DEF Conflict, object, ghosts
  <2>3. CASE ~Conflict
    BY <1>5, <2>1, <2>3
       DEF AddFinalizer, ConsentInv, Consents, SameConsent, Busy, ghosts
  <2> QED
    BY <2>2, <2>3
<1>6. CASE AdoptExternal
  BY <1>6, RunConsent
     DEF AdoptExternal, Passed, Checking, ReadOp, Swaps
<1>7. CASE Create
  BY <1>7, CreateConsent DEF Create, Passed, Checking
<1>8. CASE Patch \/ Refresh
  BY <1>8, RunConsent
     DEF Patch, Refresh, Passed, Checking, PatchOp, ReadOp, Swaps
<1>9. CASE Observe \/ JobDisappeared
  BY <1>9 DEF Observe, JobDisappeared, Waiting, ConsentInv, Consents, Permitted, Busy,
              object, ghosts
<1>10. CASE Cleanup
  BY <1>10 DEF Cleanup, ConsentInv, Consents, Permitted, Busy, object, ghosts
<1>11. CASE AdoptHandled
  BY <1>11, CreateConsent, SyncedConsent, FailedConsent
     DEF AdoptHandled, Handling, ghosts
<1>12. CASE PersistExternalName
  <2>1. /\ SameConsent(obj', obj) /\ SameConsent(me', me)
    BY <1>12 DEF PersistExternalName, TypeOK, Objects, SameConsent
  <2> QED
    BY <1>12, <2>1
       DEF PersistExternalName, ConsentInv, Consents, Permitted, SameConsent, Busy, ghosts
<1>13. CASE CreateFailed
  BY <1>13, FailedConsent, ReturnConsent
     DEF CreateFailed, persistSyncFailure, persistStatus, SameConsent
<1>14. CASE Created \/ SwapInPlace
  BY <1>14, SyncedConsent DEF Created, SwapInPlace, ghosts
<1>15. CASE PatchHandled
  BY <1>15, SyncedConsent, ReplaceConsent, FailedConsent, MissingConsent
     DEF PatchHandled, Handling, ghosts
<1>16. CASE RefreshHandled
  BY <1>16, SyncedConsent, FailedConsent, MissingConsent
     DEF RefreshHandled, ghosts
<1>17. CASE SwapCollided
  <2>1. Permitted(me)
    BY <1>17 DEF SwapCollided, Handling, ConsentInv, Busy, Swaps
  <2> QED
    BY <1>17, <2>1, RunConsent
       DEF SwapCollided, Handling, Permitted, Consents
<1>18. CASE ClearHandled
  <2>1. Permitted(me)
    BY <1>18 DEF ClearHandled, Handling, ConsentInv, Busy, Swaps
  <2> QED
    BY <1>18, <2>1, RunConsent, FailedConsent
       DEF ClearHandled, Handling, CreateOp
<1>19. CASE RetireOld
  <2>1. Permitted(me)
    BY <1>19 DEF RetireOld, ConsentInv, Busy, Swaps
  <2> QED
    BY <1>19, <2>1, RunConsent DEF RetireOld, Permitted, Consents
<1>20. CASE RetireHandled
  BY <1>20, SyncedConsent DEF RetireHandled
<1>21. CASE DeleteHandled
  <2>1. CASE ReleaseFinalizer
    BY <2>1, ReleaseConsent
  <2>2. CASE Return(TRUE) /\ UNCHANGED <<object, jobs, ghosts>>
    BY <2>2, ReturnConsent DEF SameConsent, object, ghosts
  <2> QED
    BY <1>21, <2>1, <2>2 DEF DeleteHandled
<1> QED
  BY <1>1, <1>2, <1>3, <1>4, <1>5, <1>6, <1>7, <1>8, <1>9, <1>10, <1>11,
     <1>12, <1>13, <1>14, <1>15, <1>16, <1>17, <1>18, <1>19, <1>20, <1>21
     DEF Quiet

\* Every step of the system preserves the authorisation of what is under way.
LEMMA ConsentStep == TypeInv /\ ConsentInv /\ [Next]_vars => ConsentInv'
<1> SUFFICES ASSUME TypeInv, ConsentInv, [Next]_vars PROVE ConsentInv'
  OBVIOUS
<1>1. CASE Reconcile
  BY <1>1, QuietConsent DEF Reconcile
<1>2. CASE Disturbed
  <2>1. CASE ProfileFails \/ ReferencesFail \/ SchemaUnavailable
    BY <2>1, FailedConsent DEF ProfileFails, ReferencesFail, SchemaUnavailable
  <2>2. CASE ObserveGarbled \/ ObserveUnreadable \/ WaitTimeout \/ CleanupFails
    BY <2>2
       DEF ObserveGarbled, ObserveUnreadable, WaitTimeout, CleanupFails, Waiting,
           ConsentInv, Consents, Permitted, Busy, object, ghosts
  <2>3. CASE Crash
    BY <2>3, ReturnConsent DEF Crash, SameConsent, object, ghosts
  <2> QED
    BY <1>2, <2>1, <2>2, <2>3 DEF Disturbed
<1>3. CASE Runner \/ Environment
  <2>1. UNCHANGED <<object, local, consented>>
    BY <1>3 DEF Runner, Environment, JobRuns, JobErrs, JobLost, JobExpires,
                Vanish, ghosts
  <2> QED
    BY <2>1 DEF ConsentInv, Consents, Permitted, object, local
<1>4. CASE User
  <2>1. UNCHANGED local
    BY <1>4 DEF User
  <2>2. ASSUME NEW o, UserWrites(o) PROVE ConsentInv'
    <3>1. Consents(o) => o.gen \in consented'
      BY <2>2 DEF UserWrites
    <3>2. obj' = o /\ consented \subseteq consented'
      BY <2>2 DEF UserWrites
    <3> QED
      BY <2>1, <3>1, <3>2 DEF ConsentInv, Consents, Permitted, local
  <2>3. CASE Wake
    BY <2>1, <2>3 DEF Wake, ConsentInv, Consents, Permitted, local, object
  <2> QED
    BY <1>4, <2>2, <2>3
       DEF User, EditProps, EditPolicy, Delete, TogglePause, Approve
<1>5. CASE UNCHANGED vars
  BY <1>5 DEF vars, object, local, ghosts, ConsentInv, Consents, Permitted
<1> QED
  BY <1>1, <1>2, <1>3, <1>4, <1>5 DEF Next

\* A new object consents to what its policy says.
LEMMA ConsentInit == Init => ConsentInv
<1>1. Init => (Consents(obj) => obj.gen \in consented)
  BY DEF Init, NewObject
<1> QED
  BY <1>1 DEF Init, ConsentInv, Busy

\* No external resource is deleted, in a teardown or in a replacement, without
\* an authorisation given at the generation being reconciled, whatever the
\* faults, the edits and the interleaving of both with the reconciler.
THEOREM ConsentTheorem == Spec => []DestroyNeedsConsent
<1>1. Spec => [](TypeInv /\ ConsentInv)
  BY ConsentInit, TypeInit, TypeStep, ConsentStep, PTL DEF Spec
<1>2. TypeInv /\ ConsentInv => DestroyNeedsConsent
  BY DEF ConsentInv, DestroyNeedsConsent, Busy
<1> QED
  BY <1>1, <1>2, PTL

-----------------------------------------------------------------------------
(***************************************************************************)
(* SecretFailureIsTerminal.  The record of the failure is a condition, and *)
(* any later write of the condition erases it; so the proof is about who   *)
(* can still write once a generation is refused.  The reconciler's copy is *)
(* of that generation (RefusedPast, CopyCurrent), its document is the one  *)
(* that passed the schema (Kept), without an external name nothing but a   *)
(* create is left for it (Named), and pausing takes an edit (PausedOnce).  *)
(***************************************************************************)

Undisturbed == edits <= 1 /\ seen \cap GateFaults = {}
Creates == {"create", "swap", "swapAgain"}

RefusedPast == \A g \in refused : g <= obj.gen

CopyCurrent ==
  pc # "idle" =>
    /\ me.gen <= obj.gen /\ \A g \in refused : g <= me.gen
    /\ me.gen = obj.gen => me.props = obj.props
    /\ obj.exists => me.extName = obj.extName /\ st = status

PausedOnce ==
  /\ obj.paused => edits >= 1
  /\ pc # "idle" /\ me.paused /\ edits <= 1 => obj.paused

\* A recorded id has a name, and so has one that is about to be recorded.
Named ==
  /\ obj.exists /\ status.id # NoId => obj.extName # NoId
  /\ pc # "idle" /\ st.id # NoId => me.extName # NoId
  /\ pc = "named" => me.extName # NoId
  /\ pc \in {"wait", "cleanup", "handle"} /\ cont \in Creates => op.verb = "create"
  /\ pc \in Busy /\ cont # "delete" => me.props \in Valid

OutcomeNamed ==
  pc \in {"cleanup", "handle"} /\ op.verb = "create" /\ out.code = "OK" => out.id # NoId

JobsNamed ==
  \A o \in Ops : o.verb = "create" /\ jobs[o].res.code = "OK" => jobs[o].res.id # NoId

Kept ==
  /\ obj.exists /\ obj.gen \in refused => obj.props \in Valid
  /\ Undisturbed /\ obj.exists /\ obj.extName = NoId /\ obj.gen \in refused
       => obj.paused \/ secretIDTerminal(status, obj)
  /\ Undisturbed /\ pc # "idle" /\ me.extName = NoId /\ me.gen \in refused
       => pc = "check" /\ (me.paused \/ secretIDTerminal(st, me))

TerminalInv ==
  /\ RefusedPast /\ CopyCurrent /\ PausedOnce /\ Named /\ OutcomeNamed /\ JobsNamed /\ Kept

\* No user acts, and no fault is undone.
Still == edits' = edits /\ seen \subseteq seen'

\* A reconcile that returns, with the object as it was and a status that does
\* not unmake a refusal.
LEMMA ReturnTerminal ==
  ASSUME TerminalInv, Still, NEW b, Return(b), UNCHANGED <<obj, jobs, refused>>,
         obj.exists /\ status'.id # NoId => obj.extName # NoId,
         Undisturbed' /\ obj.exists /\ obj.extName = NoId /\ obj.gen \in refused
           => obj.paused \/ secretIDTerminal(status', obj)
  PROVE  TerminalInv'
<1>1. RefusedPast' /\ CopyCurrent' /\ PausedOnce' /\ Named' /\ OutcomeNamed' /\ JobsNamed'
  BY DEF TerminalInv, Still, Return, RefusedPast, CopyCurrent, PausedOnce, Named, OutcomeNamed,
         JobsNamed, Busy
<1>2. Kept'
  BY DEF TerminalInv, Return, Kept
<1> QED
  BY <1>1, <1>2 DEF TerminalInv

\* It returns without having written anything.
LEMMA IdleTerminal ==
  ASSUME TerminalInv, Still, NEW b, Return(b), UNCHANGED <<object, jobs, refused>>
  PROVE  TerminalInv'
<1>1. Undisturbed' => Undisturbed
  BY DEF Still, Undisturbed
<1> QED
  BY <1>1, ReturnTerminal DEF object, TerminalInv, Named, Kept

\* The copy is of the refused generation whenever the object is.
LEMMA RefusedCopy ==
  ASSUME TypeInv, TerminalInv, pc # "idle", obj.exists, obj.gen \in refused
  PROVE  me.gen = obj.gen /\ me.props = obj.props /\ obj.props \in Valid
BY DEF TypeInv, TypeOK, Objects, TerminalInv, CopyCurrent, Kept

\* After the checks a refused generation has a name, and the write is harmless.
LEMMA PersistTerminal ==
  ASSUME TypeInv, TerminalInv, Still, NEW b, Return(b), refused' = refused,
         NEW s, persistStatus(s), s.id # NoId => me.extName # NoId,
         pc # "idle",
         pc = "check" =>
           me.paused \/ me.props \notin Valid \/ seen' \cap GateFaults # {}
  PROVE  TerminalInv'
<1>1. obj' = obj /\ jobs' = jobs /\ status' = IF obj.exists THEN s ELSE status
  BY DEF persistStatus
<1>2. obj.exists /\ status'.id # NoId => obj.extName # NoId
  BY <1>1 DEF TerminalInv, CopyCurrent
<1>3. ASSUME Undisturbed', obj.exists, obj.extName = NoId, obj.gen \in refused
      PROVE  obj.paused
  <2>1. Undisturbed /\ me.extName = NoId /\ seen' \cap GateFaults = {}
    BY <1>3 DEF Still, Undisturbed, TerminalInv, CopyCurrent
  <2>2. me.gen \in refused /\ me.props \in Valid
    BY <1>3, RefusedCopy
  <2>3. pc = "check"
    BY <2>1, <2>2 DEF TerminalInv, Kept
  <2> QED
    BY <2>1, <2>2, <2>3 DEF TerminalInv, PausedOnce, Undisturbed
<1> QED
  BY <1>1, <1>2, <1>3, ReturnTerminal

\* It starts an operation: a create only for a generation that is not refused.
LEMMA RunTerminal ==
  ASSUME TypeInv, TerminalInv, Still, pc # "idle", NEW o \in Ops, NEW c, RunOp(o, c),
         c \in Creates => o.verb = "create",
         c # "delete" => me.props \in Valid,
         Undisturbed /\ me.extName = NoId => me.gen \notin refused
  PROVE  TerminalInv'
<1>1. /\ UNCHANGED <<obj, status, me, st, refused>>
      /\ op' = o /\ cont' = c /\ pc' = "wait"
  BY DEF RunOp, object, ghosts
<1>2. Undisturbed' => Undisturbed
  BY DEF Still, Undisturbed
<1>3. RefusedPast' /\ CopyCurrent' /\ PausedOnce'
  BY <1>1 DEF TerminalInv, Still, RefusedPast, CopyCurrent, PausedOnce
<1>4. Named' /\ OutcomeNamed'
  BY <1>1 DEF TerminalInv, Named, OutcomeNamed
<1>5. JobsNamed'
  <2> SUFFICES ASSUME NEW x \in Ops, x.verb = "create", jobs'[x].res.code = "OK"
               PROVE  jobs'[x].res.id # NoId
    BY DEF JobsNamed
  <2>1. jobs'[x] = jobs[x] \/ jobs'[x] = [phase |-> "running", res |-> NoResult]
    BY DEF RunOp, ensureJob, TypeInv, TypeOK
  <2> QED
    BY <2>1 DEF NoResult, TerminalInv, JobsNamed
<1>6. Kept'
  BY <1>1, <1>2 DEF TerminalInv, Kept
<1> QED
  BY <1>3, <1>4, <1>5, <1>6 DEF TerminalInv

\* The create of reconcileCreate consults the record.
LEMMA CreateTerminal ==
  ASSUME TypeInv, TerminalInv, Still, pc # "idle", ~me.paused, me.props \in Valid,
         CreateUnlessTerminal
  PROVE  TerminalInv'
<1>1. CreateOp(me.props) \in Ops /\ CreateOp(me.props).verb = "create"
  BY OpTypes DEF TypeInv, TypeOK, Objects, CreateOp
<1>2. ~secretIDTerminal(st, me) => (Undisturbed /\ me.extName = NoId => me.gen \notin refused)
  BY DEF TerminalInv, Kept
<1> QED
  BY <1>1, <1>2, IdleTerminal, RunTerminal DEF CreateUnlessTerminal, ghosts

\* markSyncFailed writes back the id the reconciler read.
LEMMA FailedTerminal ==
  ASSUME TypeInv, TerminalInv, Still, NEW r, NEW b, markSyncFailed(r, b), pc # "idle",
         pc = "check" =>
           me.paused \/ me.props \notin Valid \/ seen' \cap GateFaults # {}
  PROVE  TerminalInv'
<1>1. [st EXCEPT !.synced = r, !.syncedGen = me.gen].id = st.id
  BY DEF TypeInv, TypeOK, Statuses
<1>2. st.id # NoId => me.extName # NoId
  BY DEF TerminalInv, Named
<1> QED
  BY <1>1, <1>2, PersistTerminal DEF markSyncFailed, persistSyncFailure, ghosts

\* markSynced records a name.
LEMMA SyncedTerminal ==
  ASSUME TypeInv, TerminalInv, Still, NEW i, NEW s, markSynced(i, s), refused' = refused,
         pc \in Busy, i # NoId => me.extName # NoId
  PROVE  TerminalInv'
BY PersistTerminal DEF markSynced, Busy

\* Forgetting a vanished resource writes no id.
LEMMA MissingTerminal ==
  ASSUME TypeInv, TerminalInv, Still, markMissing, pc \in Busy
  PROVE  TerminalInv'
<1>1. [st EXCEPT !.id = NoId, !.outputs = NoProps, !.hash = NoProps].id = NoId
  BY DEF TypeInv, TypeOK, Statuses
<1> QED
  BY <1>1, PersistTerminal DEF markMissing, Busy, ghosts

\* An object that is released has nothing left to refuse.
LEMMA ReleaseTerminal ==
  ASSUME TypeInv, TerminalInv, Still, ReleaseFinalizer
  PROVE  TerminalInv'
<1>1. CASE Conflict
  BY <1>1, IdleTerminal DEF Conflict, ghosts
<1>2. CASE ~Conflict
  <2>1. /\ Return(FALSE) /\ UNCHANGED <<status, jobs, refused>>
        /\ obj' = [obj EXCEPT !.finalizer = FALSE, !.exists = FALSE]
    BY <1>2 DEF ReleaseFinalizer
  <2>2. obj'.gen = obj.gen /\ obj'.paused = obj.paused /\ ~obj'.exists
    BY <2>1 DEF TypeInv, TypeOK, Objects
  <2>3. RefusedPast' /\ CopyCurrent' /\ PausedOnce' /\ Named' /\ OutcomeNamed' /\ JobsNamed'
    BY <2>1, <2>2 DEF TerminalInv, Still, Return, RefusedPast, CopyCurrent, PausedOnce, Named,
                      OutcomeNamed, JobsNamed, Busy
  <2>4. Kept'
    BY <2>1, <2>2 DEF Kept, Return
  <2> QED
    BY <2>3, <2>4 DEF TerminalInv
<1> QED
  BY <1>1, <1>2

\* An outcome is observed, or the Job is cleaned up.
LEMMA ObservedTerminal ==
  ASSUME TerminalInv, Still, pc \in {"wait", "cleanup"}, pc' \in {"cleanup", "handle"},
         UNCHANGED <<object, cont, me, st, op, refused>>, OutcomeNamed', JobsNamed'
  PROVE  TerminalInv'
<1>1. RefusedPast' /\ CopyCurrent' /\ PausedOnce' /\ Named'
  BY DEF TerminalInv, Still, RefusedPast, CopyCurrent, PausedOnce, Named, Busy, object
<1>2. Kept'
  BY DEF TerminalInv, Still, Undisturbed, Kept, object
<1> QED
  BY <1>1, <1>2 DEF TerminalInv

\* The Job is deleted, or kept.
LEMMA CleanupTerminal ==
  ASSUME TypeInv, TerminalInv, Still, pc = "cleanup", pc' = "handle",
         UNCHANGED <<object, cont, me, st, op, out, refused>>,
         jobs' = jobs \/ jobs' = [jobs EXCEPT ![op] = NoJob]
  PROVE  TerminalInv'
<1>1. OutcomeNamed'
  BY DEF TerminalInv, OutcomeNamed
<1>2. JobsNamed'
  <2> SUFFICES ASSUME NEW x \in Ops, x.verb = "create", jobs'[x].res.code = "OK"
               PROVE  jobs'[x].res.id # NoId
    BY DEF JobsNamed
  <2>1. jobs'[x] = jobs[x] \/ jobs'[x] = NoJob
    BY DEF TypeInv, TypeOK
  <2> QED
    BY <2>1 DEF NoJob, NoResult, TerminalInv, JobsNamed
<1> QED
  BY <1>1, <1>2, ObservedTerminal

\* What the reconciler starts before its first operation.
LEMMA StartTerminal ==
  ASSUME TypeInv, TerminalInv, Still,
         \/ Get \/ ReconcilePaused \/ DeleteExternal \/ NothingToDelete
         \/ AddFinalizer \/ ValidationFailed \/ AdoptExternal \/ Create
         \/ Patch \/ Refresh
  PROVE  TerminalInv'
<1> USE DEF TypeInv
<1>a. pc # "idle" /\ st.id # NoId => me.extName # NoId
  BY DEF TerminalInv, Named
<1>1. CASE Get
  <2>1. UNCHANGED <<object, cont, op, out, made, jobs, ghosts>>
    BY <1>1 DEF Get
  <2>2. \/ pc' = "check" /\ me' = obj /\ st' = status /\ obj.exists
        \/ pc' = "idle"
    BY <1>1 DEF Get
  <2>3. RefusedPast' /\ CopyCurrent' /\ PausedOnce'
    BY <2>1, <2>2 DEF TypeOK, Objects, TerminalInv, Still, RefusedPast, CopyCurrent, PausedOnce,
                      object, ghosts
  <2>4. Named' /\ OutcomeNamed' /\ JobsNamed'
    BY <2>1, <2>2 DEF TerminalInv, Named, OutcomeNamed, JobsNamed, Busy, object
  <2>5. Kept'
    BY <2>1, <2>2 DEF TerminalInv, Still, Undisturbed, Kept, object, ghosts
  <2> QED
    BY <2>3, <2>4, <2>5 DEF TerminalInv
<1>2. CASE ReconcilePaused \/ ValidationFailed
  BY <1>2, FailedTerminal DEF ReconcilePaused, ValidationFailed, Checking
<1>3. CASE DeleteExternal
  <2>1. DeleteOp(st.id, deleteState(st.outputs)) \in Ops
    BY <1>3, OpTypes DEF DeleteExternal, TypeOK, Statuses, AnyId
  <2> QED
    BY <1>3, <1>a, <2>1, RunTerminal DEF DeleteExternal, Creates
<1>4. CASE NothingToDelete
  BY <1>4, ReleaseTerminal DEF NothingToDelete
<1>5. CASE AddFinalizer
  <2>1. CASE Conflict
    BY <2>1, IdleTerminal DEF Conflict, ghosts
  <2>2. CASE ~Conflict
    <3>1. /\ pc = "check" /\ pc' = "check" /\ refused' = refused
          /\ obj' = [obj EXCEPT !.finalizer = TRUE]
          /\ me' = [me EXCEPT !.finalizer = TRUE]
          /\ UNCHANGED <<status, cont, st, op, out, made, jobs>>
      BY <1>5, <2>2 DEF AddFinalizer, ghosts
    <3>2. /\ obj'.exists = obj.exists /\ obj'.gen = obj.gen /\ obj'.props = obj.props
          /\ obj'.paused = obj.paused /\ obj'.extName = obj.extName
          /\ me'.gen = me.gen /\ me'.props = me.props
          /\ me'.paused = me.paused /\ me'.extName = me.extName
      BY <3>1 DEF TypeOK, Objects
    <3>3. RefusedPast' /\ CopyCurrent' /\ PausedOnce'
      BY <3>1, <3>2 DEF TerminalInv, Still, RefusedPast, CopyCurrent, PausedOnce
    <3>4. Named' /\ OutcomeNamed' /\ JobsNamed'
      BY <3>1, <3>2 DEF TerminalInv, Named, OutcomeNamed, JobsNamed, Busy
    <3>5. Kept'
      BY <3>1, <3>2 DEF TerminalInv, Still, Undisturbed, Kept, secretIDTerminal
    <3> QED
      BY <3>3, <3>4, <3>5 DEF TerminalInv
  <2> QED
    BY <2>1, <2>2
<1>6. CASE AdoptExternal
  <2>1. ReadOp(me.extName) \in Ops
    BY <1>6, OpTypes DEF AdoptExternal, TypeOK, Objects, AnyId
  <2> QED
    BY <1>6, <2>1, RunTerminal DEF AdoptExternal, Passed, Checking, Creates
<1>7. CASE Create
  BY <1>7, CreateTerminal DEF Create, Passed, Checking
<1>8. CASE Patch
  <2>1. PatchOp(st.id, me.props) \in Ops
    BY <1>8, OpTypes DEF Patch, TypeOK, Statuses, Objects, AnyId
  <2> QED
    BY <1>8, <1>a, <2>1, RunTerminal DEF Patch, Passed, Checking, Creates
<1>9. CASE Refresh
  <2>1. ReadOp(st.id) \in Ops
    BY <1>9, OpTypes DEF Refresh, TypeOK, Statuses, AnyId
  <2> QED
    BY <1>9, <1>a, <2>1, RunTerminal DEF Refresh, Passed, Checking, Creates
<1> QED
  BY <1>1, <1>2, <1>3, <1>4, <1>5, <1>6, <1>7, <1>8, <1>9

\* A generation is refused once the record of it is written.
LEMMA RefusedTerminal ==
  ASSUME TypeInv, TerminalInv, Still, pc = "handle", cont \in Creates,
         persistSyncFailure("SecretInputInID"), Return(FALSE),
         refused' = refused \cup {me.gen}
  PROVE  TerminalInv'
<1> DEFINE s == [st EXCEPT !.synced = "SecretInputInID", !.syncedGen = me.gen]
<1>1. obj' = obj /\ jobs' = jobs /\ status' = IF obj.exists THEN s ELSE status
  BY DEF persistSyncFailure, persistStatus
<1>2. s.id = st.id /\ s.synced = "SecretInputInID" /\ s.syncedGen = me.gen
  BY DEF TypeInv, TypeOK, Statuses
<1> HIDE DEF s
<1>3. me.props \in Valid /\ me.gen <= obj.gen
  BY DEF TerminalInv, Named, CopyCurrent, Busy, Creates
<1>4. RefusedPast' /\ CopyCurrent' /\ PausedOnce' /\ OutcomeNamed' /\ JobsNamed'
  BY <1>1, <1>3 DEF TerminalInv, Still, Return, RefusedPast, CopyCurrent, PausedOnce,
                    OutcomeNamed, JobsNamed
<1>5. Named'
  BY <1>1, <1>2 DEF TerminalInv, Return, Named, CopyCurrent, Busy
<1>6. ASSUME obj.exists, obj.gen \in refused' PROVE obj.gen = me.gen /\ obj.props \in Valid
  <2>1. CASE obj.gen \in refused
    BY <1>6, <2>1, RefusedCopy
  <2>2. CASE obj.gen = me.gen
    BY <1>3, <2>2 DEF TerminalInv, CopyCurrent
  <2> QED
    BY <1>6, <2>1, <2>2
<1>7. Kept'
  BY <1>1, <1>2, <1>6 DEF Return, Kept, secretIDTerminal
<1> QED
  BY <1>4, <1>5, <1>7 DEF TerminalInv

\* How the reconciler goes on once an operation is under way.
LEMMA GoOnTerminal ==
  ASSUME TypeInv, TerminalInv, Still,
         \/ Observe \/ JobDisappeared \/ Cleanup \/ AdoptHandled
         \/ PersistExternalName \/ CreateFailed \/ Created \/ PatchHandled
         \/ RefreshHandled \/ SwapCollided \/ ClearHandled \/ RetireOld
         \/ SwapInPlace \/ RetireHandled \/ DeleteHandled
  PROVE  TerminalInv'
<1> USE DEF TypeInv
<1>0. pc \in Busy /\ pc # "idle" /\ pc # "check"
  BY DEF Observe, JobDisappeared, Waiting, Cleanup, AdoptHandled,
         PersistExternalName, CreateFailed, Created, PatchHandled,
         RefreshHandled, SwapCollided, ClearHandled, RetireOld, SwapInPlace,
         RetireHandled, DeleteHandled, Handling, Busy
<1>a. /\ st.id # NoId => me.extName # NoId
      /\ Undisturbed /\ me.extName = NoId => me.gen \notin refused
      /\ cont # "delete" => me.props \in Valid
      /\ cont \in NeedsId => st.id # NoId
  BY <1>0 DEF TerminalInv, Named, Kept, LocalsFit
<1>b. st.id # NoId => DeleteOp(st.id, deleteState(st.outputs)) \in Ops
  BY OpTypes DEF TypeOK, Statuses, AnyId
<1>c. CreateOp(me.props) \in Ops /\ CreateOp(me.props).verb = "create"
  BY OpTypes DEF TypeOK, Objects, CreateOp
<1>1. CASE Observe
  <2>1. op \in Ops /\ pc = "wait"
    BY <1>0, <1>1 DEF Observe, Waiting, LocalsFit
  <2>2. OutcomeNamed'
    BY <1>1, <2>1 DEF Observe, Waiting, OutcomeNamed, TerminalInv, JobsNamed, NoResult
  <2>3. JobsNamed'
    BY <1>1 DEF Observe, Waiting, TerminalInv, JobsNamed
  <2> QED
    BY <1>1, <2>1, <2>2, <2>3, ObservedTerminal DEF Observe, Waiting, ghosts
<1>2. CASE JobDisappeared
  <2>1. OutcomeNamed' /\ JobsNamed'
    BY <1>2 DEF JobDisappeared, Waiting, OutcomeNamed, NoResult, TerminalInv, JobsNamed
  <2> QED
    BY <1>2, <2>1, ObservedTerminal DEF JobDisappeared, Waiting, ghosts
<1>3. CASE Cleanup
  BY <1>3, CleanupTerminal DEF Cleanup, ghosts
<1>4. CASE AdoptHandled
  <2>1. CASE out.code = "NotFound" /\ CreateUnlessTerminal
    <3>1. ~secretIDTerminal(st, me) => (Undisturbed /\ me.extName = NoId => me.gen \notin refused)
      BY <1>a
    <3> QED
      BY <1>0, <1>4, <1>a, <1>c, <2>1, <3>1, IdleTerminal, RunTerminal
         DEF CreateUnlessTerminal, AdoptHandled, Handling, ghosts
  <2>2. CASE markSynced(me.extName, out.state) /\ UNCHANGED ghosts
    BY <1>0, <2>2, SyncedTerminal DEF ghosts
  <2>3. CASE markSyncFailed("Retrying", TRUE)
    BY <1>0, <2>3, FailedTerminal
  <2> QED
    BY <1>4, <2>1, <2>2, <2>3 DEF AdoptHandled
<1>5. CASE PersistExternalName
  <2>1. /\ pc' = "named" /\ pc = "handle" /\ UNCHANGED <<status, cont, st, op, out, jobs, refused>>
        /\ me' = [me EXCEPT !.extName = out.id]
        /\ obj' = IF obj.exists THEN [obj EXCEPT !.extName = out.id] ELSE obj
    BY <1>5 DEF PersistExternalName, ghosts
  <2>2. out.id # NoId
    BY <1>5 DEF PersistExternalName, TerminalInv, Named, OutcomeNamed, Creates
  <2>3. /\ obj'.exists = obj.exists /\ obj'.gen = obj.gen /\ obj'.props = obj.props
        /\ obj'.paused = obj.paused /\ (obj.exists => obj'.extName = out.id)
        /\ me'.gen = me.gen /\ me'.props = me.props
        /\ me'.paused = me.paused /\ me'.extName = out.id
    BY <2>1 DEF TypeOK, Objects
  <2>4. RefusedPast' /\ CopyCurrent' /\ PausedOnce'
    BY <2>1, <2>3 DEF TerminalInv, Still, RefusedPast, CopyCurrent, PausedOnce
  <2>5. Named' /\ OutcomeNamed' /\ JobsNamed'
    BY <1>a, <1>5, <2>1, <2>2, <2>3
       DEF TerminalInv, Named, OutcomeNamed, JobsNamed, Busy, PersistExternalName
  <2>6. Kept'
    BY <2>1, <2>2, <2>3 DEF TerminalInv, Kept
  <2> QED
    BY <2>4, <2>5, <2>6 DEF TerminalInv
<1>6. CASE CreateFailed
  BY <1>0, <1>6, RefusedTerminal, FailedTerminal DEF CreateFailed, Creates
<1>7. CASE Created \/ SwapInPlace
  BY <1>0, <1>7, SyncedTerminal DEF Created, SwapInPlace, TerminalInv, Named, ghosts
<1>8. CASE PatchHandled
  <2>1. CASE reconcileReplacement
    BY <1>0, <1>8, <1>a, <1>c, <2>1, FailedTerminal, IdleTerminal, RunTerminal
       DEF reconcileReplacement, PatchHandled, Handling, NeedsId, ghosts
  <2>2. CASE markSynced(st.id, out.state) /\ UNCHANGED ghosts
    BY <1>0, <1>a, <2>2, SyncedTerminal DEF ghosts
  <2>3. CASE markMissing
    BY <1>0, <2>3, MissingTerminal
  <2>4. CASE markSyncFailed("Terminal", FALSE) \/ markSyncFailed("Retrying", TRUE)
    BY <1>0, <2>4, FailedTerminal
  <2> QED
    BY <1>8, <2>1, <2>2, <2>3, <2>4 DEF PatchHandled
<1>9. CASE RefreshHandled
  BY <1>0, <1>9, <1>a, SyncedTerminal, MissingTerminal, FailedTerminal DEF RefreshHandled, ghosts
<1>10. CASE SwapCollided
  BY <1>0, <1>10, <1>a, <1>b, RunTerminal DEF SwapCollided, Handling, NeedsId, Creates
<1>11. CASE ClearHandled
  BY <1>0, <1>11, <1>a, <1>c, RunTerminal, FailedTerminal DEF ClearHandled, Handling, NeedsId
<1>12. CASE RetireOld
  BY <1>0, <1>12, <1>a, <1>b, RunTerminal DEF RetireOld, NeedsId, Creates
<1>13. CASE RetireHandled
  BY <1>0, <1>13, <1>a, SyncedTerminal DEF RetireHandled, Handling, NeedsId
<1>14. CASE DeleteHandled
  BY <1>14, ReleaseTerminal, IdleTerminal DEF DeleteHandled, ghosts
<1> QED
  BY <1>1, <1>2, <1>3, <1>4, <1>5, <1>6, <1>7, <1>8, <1>9, <1>10, <1>11,
     <1>12, <1>13, <1>14

\* The faults of the reconciler either leave the record or are excepted.
LEMMA DisturbedTerminal ==
  ASSUME TypeInv, TerminalInv, Disturbed
  PROVE  TerminalInv'
<1> USE DEF TypeInv
<1>1. CASE ProfileFails \/ ReferencesFail \/ SchemaUnavailable
  <2>1. pc = "check" /\ Still /\ seen' \cap GateFaults # {}
    BY <1>1 DEF ProfileFails, ReferencesFail, SchemaUnavailable, Checking, Fault, Disturbed,
                Still, GateFaults
  <2> QED
    BY <1>1, <2>1, FailedTerminal DEF ProfileFails, ReferencesFail, SchemaUnavailable
<1>2. CASE ObserveGarbled \/ ObserveUnreadable \/ WaitTimeout
  <2>1. /\ Waiting /\ out' = NoResult /\ pc' \in {"cleanup", "handle"} /\ Still
    BY <1>2 DEF ObserveGarbled, ObserveUnreadable, WaitTimeout, Fault, Disturbed, Still
  <2>2. OutcomeNamed' /\ JobsNamed'
    BY <2>1 DEF Waiting, OutcomeNamed, NoResult, TerminalInv, JobsNamed
  <2> QED
    BY <2>1, <2>2, ObservedTerminal DEF Waiting, ghosts
<1>3. CASE CleanupFails
  BY <1>3, CleanupTerminal DEF CleanupFails, Fault, Disturbed, Still, ghosts
<1>4. CASE Crash
  BY <1>4, IdleTerminal DEF Crash, Fault, Disturbed, Still, ghosts
<1> QED
  BY <1>1, <1>2, <1>3, <1>4 DEF Disturbed

\* The provider names what it creates.
LEMMA WorldTerminal ==
  ASSUME TypeInv, TerminalInv, Runner \/ Environment
  PROVE  TerminalInv'
<1> USE DEF TypeInv
<1>1. UNCHANGED <<object, local, refused, edits>> /\ seen \subseteq seen'
  BY DEF Runner, Environment, JobRuns, JobErrs, JobLost, JobExpires, Vanish, Fault, fault, ghosts
<1>2. JobsNamed'
  <2>1. ASSUME NEW o \in Ops, JobRuns(o) PROVE JobsNamed'
    <3>1. CanRun(o) /\ jobs' = [jobs EXCEPT ![o] = [phase |-> "complete", res |-> Outcome(o)]]
      BY <2>1 DEF JobRuns
    <3>2. o.verb = "create" /\ Outcome(o).code = "OK" => Outcome(o).id # NoId
      BY <3>1, ProviderTypes, IdAssumption DEF Outcome, CreateResult, Result
    <3> QED
      BY <3>1, <3>2 DEF TypeOK, TerminalInv, JobsNamed
  <2>2. ASSUME NEW o \in Ops, JobErrs(o) \/ JobLost(o) \/ JobExpires(o) PROVE JobsNamed'
    <3>1. PICK j \in {[phase |-> "complete", res |-> NoResult],
                      [phase |-> "failed", res |-> NoResult], NoJob} :
            jobs' = [jobs EXCEPT ![o] = j]
      BY <2>2 DEF JobErrs, JobLost, JobExpires
    <3>2. j.res.code = "Error"
      BY DEF NoJob, NoResult
    <3> QED
      BY <3>1, <3>2 DEF TypeOK, TerminalInv, JobsNamed
  <2>3. ASSUME NEW i \in Ids, Vanish(i) PROVE JobsNamed'
    BY <2>3 DEF Vanish, TerminalInv, JobsNamed
  <2> QED
    BY <2>1, <2>2, <2>3 DEF Runner, Environment
<1>3. RefusedPast' /\ CopyCurrent' /\ PausedOnce'
  BY <1>1 DEF TerminalInv, RefusedPast, CopyCurrent, PausedOnce, object, local
<1>4. Named' /\ OutcomeNamed'
  BY <1>1 DEF TerminalInv, Named, OutcomeNamed, object, local
<1>5. Kept'
  BY <1>1 DEF TerminalInv, Undisturbed, Kept, object, local
<1> QED
  BY <1>2, <1>3, <1>4, <1>5 DEF TerminalInv

\* The user's edits open a new generation; only the pause and the approval
\* leave the generation as it is, and the pause counts.
LEMMA UserTerminal ==
  ASSUME TypeInv, TerminalInv, User
  PROVE  TerminalInv'
<1> USE DEF TypeInv
<1>1. UNCHANGED <<local, jobs, refused, seen, status>>
  BY DEF User, Wake, object, fault
<1>2. ASSUME NEW o, UserWrites(o), o.extName = obj.extName, o.exists => obj.exists,
             \/ o.gen = obj.gen + 1
             \/ o.gen = obj.gen /\ o.props = obj.props,
             o.gen = obj.gen => o.paused = obj.paused \/ o.paused = ~obj.paused,
             o.gen # obj.gen => o.paused = obj.paused
      PROVE  TerminalInv'
  <2>1. obj' = o /\ edits' = edits + 1 /\ obj.exists /\ edits \in Nat /\ obj.gen \in Nat
        /\ me.gen \in Nat /\ refused \subseteq Nat /\ obj.paused \in BOOLEAN
    BY <1>2 DEF UserWrites, TypeOK, Objects
  <2>2. Undisturbed' => Undisturbed /\ edits = 0
    BY <1>1, <2>1 DEF Undisturbed
  <2>3. RefusedPast' /\ CopyCurrent'
    BY <1>1, <1>2, <2>1 DEF TerminalInv, RefusedPast, CopyCurrent, local
  <2>4. PausedOnce'
    BY <1>1, <1>2, <2>1 DEF TerminalInv, PausedOnce, local
  <2>5. Named' /\ OutcomeNamed' /\ JobsNamed'
    BY <1>1, <1>2, <2>1 DEF TerminalInv, Named, OutcomeNamed, JobsNamed, local
  <2>6. obj.gen + 1 \notin refused
    BY <2>1 DEF TerminalInv, RefusedPast
  <2>7. edits = 0 => ~obj.paused
    BY <2>1 DEF TerminalInv, PausedOnce
  <2>8. Kept'
    BY <1>1, <1>2, <2>1, <2>2, <2>6, <2>7 DEF TerminalInv, Kept, secretIDTerminal, local
  <2> QED
    BY <2>3, <2>4, <2>5, <2>8 DEF TerminalInv
<1>3. CASE Wake
  <2>1. UNCHANGED <<obj, edits>>
    BY <1>3 DEF Wake, object
  <2>2. RefusedPast' /\ CopyCurrent' /\ PausedOnce'
    BY <1>1, <2>1 DEF TerminalInv, RefusedPast, CopyCurrent, PausedOnce, local
  <2>3. Named' /\ OutcomeNamed' /\ JobsNamed'
    BY <1>1, <2>1 DEF TerminalInv, Named, OutcomeNamed, JobsNamed, local
  <2>4. Kept'
    BY <1>1, <2>1 DEF TerminalInv, Undisturbed, Kept, local
  <2> QED
    BY <2>2, <2>3, <2>4 DEF TerminalInv
<1>4. ASSUME NEW p \in Props, EditProps(p) PROVE TerminalInv'
  <2>1. PICK o : UserWrites(o) /\ o = [obj EXCEPT !.props = p, !.gen = @ + 1]
    BY <1>4 DEF EditProps
  <2>2. o.extName = obj.extName /\ o.exists = obj.exists /\ o.gen = obj.gen + 1
        /\ o.paused = obj.paused
    BY <2>1 DEF TypeOK, Objects
  <2> QED
    BY <1>2, <2>1, <2>2
<1>5. CASE EditPolicy
  <2>1. PICK o : UserWrites(o) /\ o \in {[obj EXCEPT !.protect = ~@, !.gen = @ + 1],
                                         [obj EXCEPT !.orphan = ~@, !.gen = @ + 1]}
    BY <1>5 DEF EditPolicy
  <2>2. o.extName = obj.extName /\ o.exists = obj.exists /\ o.gen = obj.gen + 1
        /\ o.paused = obj.paused
    BY <2>1 DEF TypeOK, Objects
  <2> QED
    BY <1>2, <2>1, <2>2
<1>6. CASE Delete
  <2>1. PICK o : UserWrites(o) /\ o = [obj EXCEPT !.deleting = TRUE, !.gen = @ + 1,
                                                  !.exists = obj.finalizer]
    BY <1>6 DEF Delete
  <2>2. o.extName = obj.extName /\ o.gen = obj.gen + 1 /\ o.paused = obj.paused
    BY <2>1 DEF TypeOK, Objects
  <2>3. obj.exists
    BY <2>1 DEF UserWrites
  <2> QED
    BY <1>2, <2>1, <2>2, <2>3
<1>7. CASE TogglePause \/ Approve
  <2>1. PICK o : UserWrites(o) /\ o \in {[obj EXCEPT !.paused = ~@],
                                         [obj EXCEPT !.approved = obj.gen]}
    BY <1>7 DEF TogglePause, Approve
  <2>2. o.extName = obj.extName /\ o.exists = obj.exists /\ o.gen = obj.gen
        /\ o.props = obj.props
        /\ (o.paused = obj.paused \/ o.paused = ~obj.paused)
    BY <2>1 DEF TypeOK, Objects
  <2> QED
    BY <1>2, <2>1, <2>2
<1> QED
  BY <1>3, <1>4, <1>5, <1>6, <1>7 DEF User

\* Every step of the system keeps the record of a refusal.
LEMMA TerminalStep == TypeInv /\ TerminalInv /\ [Next]_vars => TerminalInv'
<1> SUFFICES ASSUME TypeInv, TerminalInv, [Next]_vars PROVE TerminalInv'
  OBVIOUS
<1>1. CASE Reconcile
  <2>1. Still /\ Quiet
    BY <1>1 DEF Reconcile, Still, fault
  <2> QED
    BY <2>1, StartTerminal, GoOnTerminal DEF Quiet
<1>2. CASE UNCHANGED vars
  <2>1. /\ RefusedPast' /\ CopyCurrent' /\ PausedOnce'
    BY <1>2 DEF vars, object, local, ghosts, TerminalInv, RefusedPast, CopyCurrent, PausedOnce
  <2>2. Named' /\ OutcomeNamed' /\ JobsNamed'
    BY <1>2 DEF vars, object, local, TerminalInv, Named, OutcomeNamed, JobsNamed
  <2>3. Kept'
    BY <1>2 DEF vars, object, local, fault, ghosts, TerminalInv, Undisturbed, Kept
  <2> QED
    BY <2>1, <2>2, <2>3 DEF TerminalInv
<1> QED
  BY <1>1, <1>2, DisturbedTerminal, WorldTerminal, UserTerminal DEF Next

\* In a new object nothing was refused and nothing is recorded.
LEMMA TerminalInit == Init => TerminalInv
<1> SUFFICES ASSUME Init PROVE TerminalInv
  OBVIOUS
<1>1. refused = {} /\ pc = "idle" /\ status.id = NoId /\ ~obj.paused
  BY DEF Init, NewStatus, NewObject
<1>2. JobsNamed
  BY DEF Init, JobsNamed, NoJob, NoResult
<1> QED
  BY <1>1, <1>2 DEF TerminalInv, RefusedPast, CopyCurrent, PausedOnce, Named, OutcomeNamed,
                    Kept, Busy

\* Without an external name, a create that failed with SecretInputInID is not
\* run again in its generation, for every provider and every history of at most
\* one user action in which no gate ahead of the create failed (GateFaults): a
\* failure there, like pausing and resuming, overwrites what secretIDTerminal
\* looks at.
THEOREM TerminalTheorem == Spec => []SecretFailureIsTerminal
<1>1. Spec => [](TypeInv /\ TerminalInv)
  BY TerminalInit, TypeInit, TypeStep, TerminalStep, PTL DEF Spec
<1>2. TerminalInv => SecretFailureIsTerminal
  BY DEF TerminalInv, Kept, Undisturbed, SecretFailureIsTerminal
<1> QED
  BY <1>1, <1>2, PTL

-----------------------------------------------------------------------------
(***************************************************************************)
(* FinalizerOutlivesResource.  An id the provider assigns is               *)
(* never reused, so a resource that was found gone stays gone, and an      *)
(* adopted Job that reports a delete tells the truth whenever it is read.  *)
(* A name the client chooses is used again; but as long as no fault has    *)
(* left a Job behind (AdoptionIsExact) there is one Job at most, and the   *)
(* report of a delete is consumed before a create can make it untrue.  The *)
(* finalizer is released only after such a report about the id in the      *)
(* status, which the reconciler's copy still agrees with.                  *)
(***************************************************************************)

\* An id the operator can know of has been assigned; a dead one stays dead.
Born(i) == i = NoId \/ cloud[i] # "unborn"
Dead(i) == i \in Ids /\ cloud[i] \in {"deleted", "vanished"}
Gone == {"OK", "NotFound"}

KnownBorn ==
  /\ Born(status.id) /\ Born(obj.extName)
  /\ Born(st.id) /\ Born(me.extName)
  /\ Born(op.id) /\ Born(out.id) /\ Born(made.id)

JobsHonest ==
  \A o \in Ops :
    /\ Born(jobs[o].res.id)
    /\ jobs[o].phase # "none" => Born(o.id)
    /\ o.verb = "delete" /\ jobs[o].phase = "complete"
         /\ jobs[o].res.code \in Gone => Dead(o.id)

OutcomeHonest ==
  pc \in {"cleanup", "handle"} /\ op.verb = "delete" /\ out.code \in Gone
    => Dead(op.id)

CopyAgrees ==
  /\ pc # "idle" => me.exists /\ st.id = status.id
  /\ pc # "idle" /\ me.finalizer => obj.exists /\ obj.finalizer
  /\ pc \in Busy => me.finalizer
  /\ pc \in Busy /\ cont = "delete" => op.verb = "delete" /\ op.id = st.id

FinalizerGuards ==
  /\ obj.exists /\ ~obj.finalizer => status.id = NoId
  /\ ~obj.exists => obj.orphan \/ status.id = NoId \/ Dead(status.id)

FinalizerInv ==
  /\ KnownBorn /\ JobsHonest /\ OutcomeHonest /\ CopyAgrees /\ FinalizerGuards

\* There is one Job at most, the one the reconciler waits for.
Alone ==
  /\ \A o \in Ops : jobs[o].phase # "none" => pc \in {"wait", "cleanup"} /\ op = o
  /\ pc = "cleanup" => jobs[op].phase # "running"

-----------------------------------------------------------------------------
(* Steps of the reconciler: they do not touch the external resources *)

\* The reconciler returns, having changed neither the Jobs nor what they know.
LEMMA ReturnFinal ==
  ASSUME FinalizerInv, NEW b, Return(b), UNCHANGED <<cloud, jobs>>,
         Born(status'.id), Born(obj'.extName), FinalizerGuards'
  PROVE  FinalizerInv'
<1>1. KnownBorn'
  BY DEF Return, KnownBorn, Born, NewStatus, NoCopy, NewObject, NoOp, NoResult,
         NoneMade
<1>2. JobsHonest'
  BY DEF FinalizerInv, JobsHonest, Born, Dead
<1>3. OutcomeHonest' /\ CopyAgrees'
  BY DEF Return, OutcomeHonest, CopyAgrees, Busy
<1> QED
  BY <1>1, <1>2, <1>3 DEF FinalizerInv

\* It returns without having written anything.
LEMMA IdleFinal ==
  ASSUME FinalizerInv, NEW b, Return(b), UNCHANGED <<cloud, jobs, object>>
  PROVE  FinalizerInv'
<1>1. Born(status'.id) /\ Born(obj'.extName)
  BY DEF FinalizerInv, KnownBorn, object
<1>2. FinalizerGuards'
  BY DEF FinalizerInv, FinalizerGuards, Dead, object
<1> QED
  BY <1>1, <1>2, ReturnFinal

\* It writes the status and returns: an id appears only under the finalizer.
LEMMA PersistFinal ==
  ASSUME FinalizerInv, UNCHANGED cloud, pc # "idle", NEW b, Return(b),
         NEW s, persistStatus(s), Born(s.id), s.id = st.id \/ me.finalizer
  PROVE  FinalizerInv'
<1>1. Born(status'.id) /\ Born(obj'.extName)
  BY DEF FinalizerInv, KnownBorn, persistStatus
<1>2. FinalizerGuards'
  BY DEF FinalizerInv, FinalizerGuards, CopyAgrees, Dead, persistStatus
<1>3. jobs' = jobs
  BY DEF persistStatus
<1> QED
  BY <1>1, <1>2, <1>3, ReturnFinal

\* It starts an operation on an id it knows.
LEMMA RunFinal ==
  ASSUME TypeInv, FinalizerInv, UNCHANGED cloud, pc # "idle", me.finalizer,
         NEW o \in Ops, Born(o.id), NEW c, RunOp(o, c),
         c = "delete" => o.verb = "delete" /\ o.id = st.id
  PROVE  FinalizerInv'
<1>1. /\ op' = o /\ cont' = c /\ pc' = "wait"
      /\ UNCHANGED <<obj, status, me, st, out, made>>
  BY DEF RunOp, object
<1>2. KnownBorn'
  BY <1>1 DEF FinalizerInv, KnownBorn, Born
<1>3. JobsHonest'
  <2> SUFFICES ASSUME NEW x \in Ops
               PROVE  /\ Born(jobs'[x].res.id)
                      /\ jobs'[x].phase # "none" => Born(x.id)
                      /\ x.verb = "delete" /\ jobs'[x].phase = "complete"
                           /\ jobs'[x].res.code \in Gone => Dead(x.id)
    BY DEF JobsHonest, Born, Dead
  <2>1. /\ x # o => jobs'[x] = jobs[x]
        /\ x = o => \/ jobs'[x] = jobs[x]
                    \/ jobs'[x] = [phase |-> "running", res |-> NoResult]
    BY DEF RunOp, ensureJob, TypeInv, TypeOK
  <2>2. CASE jobs'[x] = jobs[x]
    BY <2>2 DEF FinalizerInv, JobsHonest
  <2>3. CASE x = o /\ jobs'[x] = [phase |-> "running", res |-> NoResult]
    BY <2>3 DEF NoResult, Born
  <2> QED
    BY <2>1, <2>2, <2>3
<1>4. OutcomeHonest'
  BY <1>1 DEF OutcomeHonest
<1>5. CopyAgrees'
  BY <1>1 DEF FinalizerInv, CopyAgrees
<1>6. FinalizerGuards'
  BY <1>1 DEF FinalizerInv, FinalizerGuards, Dead
<1> QED
  BY <1>2, <1>3, <1>4, <1>5, <1>6 DEF FinalizerInv

\* The create of reconcileCreate preserves the invariant.
LEMMA CreateFinal ==
  ASSUME TypeInv, FinalizerInv, UNCHANGED cloud, pc # "idle", me.finalizer,
         CreateUnlessTerminal
  PROVE  FinalizerInv'
<1>1. CreateOp(me.props) \in Ops /\ Born(CreateOp(me.props).id)
  BY OpTypes DEF TypeInv, TypeOK, Objects, CreateOp, Born
<1> QED
  BY <1>1, IdleFinal, RunFinal DEF CreateUnlessTerminal

\* markSyncFailed writes back the id the reconciler read.
LEMMA FailedFinal ==
  ASSUME TypeInv, FinalizerInv, UNCHANGED cloud, pc # "idle",
         NEW r, NEW b, markSyncFailed(r, b)
  PROVE  FinalizerInv'
<1>1. [st EXCEPT !.synced = r, !.syncedGen = me.gen].id = st.id
  BY DEF TypeInv, TypeOK, Statuses
<1>2. Born(st.id)
  BY DEF FinalizerInv, KnownBorn
<1> QED
  BY <1>1, <1>2, PersistFinal DEF markSyncFailed, persistSyncFailure

\* markSynced records an id that a provider has assigned.
LEMMA SyncedFinal ==
  ASSUME FinalizerInv, UNCHANGED cloud, pc \in Busy,
         NEW i, Born(i), NEW s, markSynced(i, s)
  PROVE  FinalizerInv'
<1>1. pc # "idle" /\ me.finalizer
  BY DEF FinalizerInv, CopyAgrees, Busy
<1> QED
  BY <1>1, PersistFinal DEF markSynced

\* Forgetting the id of a vanished resource preserves the invariant.
LEMMA MissingFinal ==
  ASSUME TypeInv, FinalizerInv, UNCHANGED cloud, pc \in Busy, markMissing
  PROVE  FinalizerInv'
<1>1. pc # "idle" /\ me.finalizer
  BY DEF FinalizerInv, CopyAgrees, Busy
<1>2. Born([st EXCEPT !.id = NoId, !.outputs = NoProps, !.hash = NoProps].id)
  BY DEF TypeInv, TypeOK, Statuses, Born
<1> QED
  BY <1>1, <1>2, PersistFinal DEF markMissing

\* The release of the finalizer, once there is nothing left to delete.
LEMMA ReleaseFinal ==
  ASSUME TypeInv, FinalizerInv, UNCHANGED cloud, pc # "idle", ReleaseFinalizer,
         me.orphan \/ st.id = NoId \/ Dead(st.id)
  PROVE  FinalizerInv'
<1>1. CASE Conflict
  BY <1>1, IdleFinal DEF Conflict
<1>2. CASE ~Conflict
  <2>1. /\ obj = me /\ Return(FALSE) /\ UNCHANGED <<status, jobs>>
        /\ obj' = [obj EXCEPT !.finalizer = FALSE, !.exists = FALSE]
    BY <1>2 DEF ReleaseFinalizer
  <2>2. /\ obj'.extName = obj.extName /\ obj'.orphan = obj.orphan
        /\ ~obj'.exists
    BY <2>1 DEF TypeInv, TypeOK, Objects
  <2>3. st.id = status.id
    BY DEF FinalizerInv, CopyAgrees
  <2>4. FinalizerGuards'
    BY <2>1, <2>2, <2>3 DEF FinalizerGuards, Dead
  <2>5. Born(status'.id) /\ Born(obj'.extName)
    BY <2>1, <2>2 DEF FinalizerInv, KnownBorn
  <2> QED
    BY <2>1, <2>4, <2>5, ReturnFinal
<1> QED
  BY <1>1, <1>2

\* A step that only moves the reconciler on, to an outcome that is honest.
LEMMA ObservedFinal ==
  ASSUME FinalizerInv, pc = "wait",
         UNCHANGED <<cloud, jobs, object, cont, me, st, op, made>>,
         pc' \in {"cleanup", "handle"}, Born(out'.id),
         op.verb = "delete" /\ out'.code \in Gone => Dead(op.id)
  PROVE  FinalizerInv'
<1>1. KnownBorn'
  BY DEF FinalizerInv, KnownBorn, Born, object
<1>2. JobsHonest'
  BY DEF FinalizerInv, JobsHonest, Born, Dead
<1>3. OutcomeHonest'
  BY DEF OutcomeHonest, Dead
<1>4. CopyAgrees'
  BY DEF FinalizerInv, CopyAgrees, Busy, object
<1>5. FinalizerGuards'
  BY DEF FinalizerInv, FinalizerGuards, Dead, object
<1> QED
  BY <1>1, <1>2, <1>3, <1>4, <1>5 DEF FinalizerInv

\* Leaving the wait empty-handed.
LEMMA EmptyHandedFinal ==
  ASSUME FinalizerInv, Waiting, out' = NoResult, pc' \in {"cleanup", "handle"},
         UNCHANGED cloud
  PROVE  FinalizerInv'
<1>1. Born(out'.id) /\ out'.code \notin Gone
  BY DEF NoResult, Born, Gone
<1> QED
  BY <1>1, ObservedFinal DEF Waiting

\* The consumed Job is deleted, or its deletion fails.
LEMMA CleanupFinal ==
  ASSUME TypeInv, FinalizerInv, pc = "cleanup", pc' = "handle",
         UNCHANGED <<cloud, object, cont, me, st, op, out, made>>,
         jobs' = jobs \/ jobs' = [jobs EXCEPT ![op] = NoJob]
  PROVE  FinalizerInv'
<1>1. KnownBorn'
  BY DEF FinalizerInv, KnownBorn, Born, object
<1>2. JobsHonest'
  <2> SUFFICES ASSUME NEW x \in Ops
               PROVE  /\ Born(jobs'[x].res.id)
                      /\ jobs'[x].phase # "none" => Born(x.id)
                      /\ x.verb = "delete" /\ jobs'[x].phase = "complete"
                           /\ jobs'[x].res.code \in Gone => Dead(x.id)
    BY DEF JobsHonest, Born, Dead
  <2>1. jobs'[x] = jobs[x] \/ jobs'[x] = NoJob
    BY DEF TypeInv, TypeOK
  <2>2. CASE jobs'[x] = jobs[x]
    BY <2>2 DEF FinalizerInv, JobsHonest
  <2>3. CASE jobs'[x] = NoJob
    BY <2>3 DEF NoJob, NoResult, Born
  <2> QED
    BY <2>1, <2>2, <2>3
<1>3. OutcomeHonest'
  BY DEF FinalizerInv, OutcomeHonest, Dead
<1>4. CopyAgrees'
  BY DEF FinalizerInv, CopyAgrees, Busy, object
<1>5. FinalizerGuards'
  BY DEF FinalizerInv, FinalizerGuards, Dead, object
<1> QED
  BY <1>1, <1>2, <1>3, <1>4, <1>5 DEF FinalizerInv

\* reconcileReplacement preserves the invariant.
LEMMA ReplaceFinal ==
  ASSUME TypeInv, FinalizerInv, UNCHANGED cloud, pc \in Busy,
         reconcileReplacement
  PROVE  FinalizerInv'
<1>1. pc # "idle" /\ me.finalizer
  BY DEF FinalizerInv, CopyAgrees, Busy
<1>2. CreateOp(me.props) \in Ops /\ Born(CreateOp(me.props).id)
  BY OpTypes DEF TypeInv, TypeOK, Objects, CreateOp, Born
<1>3. CASE markSyncFailed("Terminal", FALSE)
  BY <1>1, <1>3, FailedFinal
<1>4. CASE Return(FALSE) /\ UNCHANGED <<object, jobs, ghosts>>
  BY <1>4, IdleFinal
<1>5. CASE RunOp(CreateOp(me.props), "swap")
  BY <1>1, <1>2, <1>5, RunFinal
<1> QED
  BY <1>3, <1>4, <1>5 DEF reconcileReplacement

\* What the reconciler starts before its first operation.
LEMMA StartFinal ==
  ASSUME TypeInv, FinalizerInv, UNCHANGED cloud,
         \/ Get \/ ReconcilePaused \/ DeleteExternal \/ NothingToDelete
         \/ AddFinalizer \/ ValidationFailed \/ AdoptExternal \/ Create
         \/ Patch \/ Refresh
  PROVE  FinalizerInv'
<1> USE DEF TypeInv
<1>1. CASE Get
  <2>1. UNCHANGED <<object, cont, op, out, made, jobs>>
    BY <1>1 DEF Get
  <2>2. \/ pc' = "check" /\ me' = obj /\ st' = status /\ obj.exists
        \/ UNCHANGED <<pc, me, st>>
    BY <1>1 DEF Get
  <2>3. KnownBorn'
    BY <2>1, <2>2 DEF FinalizerInv, KnownBorn, Born, object
  <2>4. JobsHonest' /\ FinalizerGuards'
    BY <2>1 DEF FinalizerInv, JobsHonest, FinalizerGuards, Born, Dead, object
  <2>5. OutcomeHonest' /\ CopyAgrees'
    BY <1>1, <2>1, <2>2 DEF Get, OutcomeHonest, CopyAgrees, Busy, object
  <2> QED
    BY <2>3, <2>4, <2>5 DEF FinalizerInv
<1>2. CASE ReconcilePaused \/ ValidationFailed
  BY <1>2, FailedFinal DEF ReconcilePaused, ValidationFailed, Checking
<1>3. CASE DeleteExternal
  <2>1. DeleteOp(st.id, deleteState(st.outputs)) \in Ops
    BY <1>3, OpTypes DEF DeleteExternal, TypeOK, Statuses, AnyId
  <2>2. /\ DeleteOp(st.id, deleteState(st.outputs)).id = st.id
        /\ DeleteOp(st.id, deleteState(st.outputs)).verb = "delete"
        /\ Born(st.id)
    BY DEF DeleteOp, FinalizerInv, KnownBorn
  <2> QED
    BY <1>3, <2>1, <2>2, RunFinal DEF DeleteExternal
<1>4. CASE NothingToDelete
  BY <1>4, ReleaseFinal DEF NothingToDelete
<1>5. CASE AddFinalizer
  <2>1. CASE Conflict
    BY <2>1, IdleFinal DEF Conflict
  <2>2. CASE ~Conflict
    <3>1. /\ obj = me /\ pc = "check"
          /\ obj' = [obj EXCEPT !.finalizer = TRUE]
          /\ me' = [me EXCEPT !.finalizer = TRUE]
          /\ UNCHANGED <<status, pc, cont, st, op, out, made, jobs>>
      BY <1>5, <2>2 DEF AddFinalizer
    <3>2. /\ obj'.exists = obj.exists /\ obj'.finalizer /\ obj'.orphan = obj.orphan
          /\ obj'.extName = obj.extName /\ me'.extName = me.extName
          /\ me'.exists = me.exists
      BY <3>1 DEF TypeOK, Objects
    <3>3. obj.exists
      BY <3>1 DEF FinalizerInv, CopyAgrees
    <3> QED
      BY <3>1, <3>2, <3>3
         DEF FinalizerInv, KnownBorn, JobsHonest, OutcomeHonest, CopyAgrees,
             FinalizerGuards, Born, Dead, Busy
  <2> QED
    BY <2>1, <2>2
<1>6. CASE AdoptExternal
  <2>1. ReadOp(me.extName) \in Ops /\ Born(ReadOp(me.extName).id)
    BY <1>6, OpTypes
       DEF AdoptExternal, TypeOK, Objects, AnyId, ReadOp, FinalizerInv, KnownBorn
  <2> QED
    BY <1>6, <2>1, RunFinal DEF AdoptExternal, Passed, Checking
<1>7. CASE Create
  BY <1>7, CreateFinal DEF Create, Passed, Checking
<1>8. CASE Patch
  <2>1. PatchOp(st.id, me.props) \in Ops /\ Born(PatchOp(st.id, me.props).id)
    BY <1>8, OpTypes DEF Patch, TypeOK, Statuses, Objects, AnyId, PatchOp,
                         FinalizerInv, KnownBorn
  <2> QED
    BY <1>8, <2>1, RunFinal DEF Patch, Passed, Checking
<1>9. CASE Refresh
  <2>1. ReadOp(st.id) \in Ops /\ Born(ReadOp(st.id).id)
    BY <1>9, OpTypes DEF Refresh, TypeOK, Statuses, AnyId, ReadOp,
                         FinalizerInv, KnownBorn
  <2> QED
    BY <1>9, <2>1, RunFinal DEF Refresh, Passed, Checking
<1> QED
  BY <1>1, <1>2, <1>3, <1>4, <1>5, <1>6, <1>7, <1>8, <1>9

\* How the reconciler goes on once an operation is under way.
LEMMA GoOnFinal ==
  ASSUME TypeInv, FinalizerInv, UNCHANGED cloud,
         \/ Observe \/ JobDisappeared \/ Cleanup \/ AdoptHandled
         \/ PersistExternalName \/ CreateFailed \/ Created \/ PatchHandled
         \/ RefreshHandled \/ SwapCollided \/ ClearHandled \/ RetireOld
         \/ SwapInPlace \/ RetireHandled \/ DeleteHandled
  PROVE  FinalizerInv'
<1> USE DEF TypeInv
<1>0. pc \in Busy /\ me.finalizer /\ pc # "idle"
  BY DEF Observe, JobDisappeared, Waiting, Cleanup, AdoptHandled,
         PersistExternalName, CreateFailed, Created, PatchHandled,
         RefreshHandled, SwapCollided, ClearHandled, RetireOld, SwapInPlace,
         RetireHandled, DeleteHandled, Handling, Busy, FinalizerInv, CopyAgrees
<1>a. Born(st.id) /\ Born(me.extName) /\ Born(made.id) /\ Born(out.id)
  BY DEF FinalizerInv, KnownBorn
<1>b. st.id # NoId => /\ DeleteOp(st.id, deleteState(st.outputs)) \in Ops
                      /\ Born(DeleteOp(st.id, deleteState(st.outputs)).id)
  BY <1>a, OpTypes DEF DeleteOp, TypeOK, Statuses, AnyId
<1>c. CreateOp(me.props) \in Ops /\ Born(CreateOp(me.props).id)
  BY OpTypes DEF TypeOK, Objects, CreateOp, Born
<1>1. CASE Observe
  <2>1. op \in Ops /\ pc = "wait"
    BY <1>1, <1>0 DEF Observe, Waiting, LocalsFit
  <2>2. /\ Born(jobs[op].res.id)
        /\ op.verb = "delete" /\ jobs[op].phase = "complete"
             /\ jobs[op].res.code \in Gone => Dead(op.id)
    BY <2>1 DEF FinalizerInv, JobsHonest
  <2>3. Born(NoResult.id) /\ NoResult.code \notin Gone
    BY DEF NoResult, Born, Gone
  <2>4. /\ Born(out'.id)
        /\ op.verb = "delete" /\ out'.code \in Gone => Dead(op.id)
    BY <1>1, <2>2, <2>3 DEF Observe
  <2> QED
    BY <1>1, <2>4, ObservedFinal DEF Observe, Waiting
<1>2. CASE JobDisappeared
  BY <1>2, EmptyHandedFinal DEF JobDisappeared
<1>3. CASE Cleanup
  BY <1>3, CleanupFinal DEF Cleanup
<1>4. CASE AdoptHandled
  BY <1>0, <1>a, <1>4, CreateFinal, SyncedFinal, FailedFinal DEF AdoptHandled
<1>5. CASE PersistExternalName
  <2>1. /\ UNCHANGED <<status, cont, st, op, out, jobs>>
        /\ pc = "handle" /\ pc' = "named"
        /\ cont \in {"create", "swap", "swapAgain"}
        /\ made' = [id |-> out.id, state |-> out.state]
    BY <1>5 DEF PersistExternalName
  <2>2. /\ obj'.extName \in {out.id, obj.extName} /\ obj'.exists = obj.exists
        /\ obj'.finalizer = obj.finalizer /\ obj'.orphan = obj.orphan
    BY <1>5 DEF PersistExternalName, TypeOK, Objects
  <2>3. /\ me'.extName = out.id /\ me'.finalizer = me.finalizer
        /\ me'.exists = me.exists
    BY <1>5 DEF PersistExternalName, TypeOK, Objects
  <2>4. KnownBorn'
    BY <2>1, <2>2, <2>3 DEF FinalizerInv, KnownBorn, Born
  <2>5. JobsHonest' /\ FinalizerGuards' /\ OutcomeHonest'
    BY <2>1, <2>2
       DEF FinalizerInv, JobsHonest, FinalizerGuards, OutcomeHonest, Born, Dead
  <2>6. CopyAgrees'
    BY <2>1, <2>2, <2>3 DEF FinalizerInv, CopyAgrees, Busy
  <2> QED
    BY <2>4, <2>5, <2>6 DEF FinalizerInv
<1>6. CASE CreateFailed
  <2>1. [st EXCEPT !.synced = "SecretInputInID", !.syncedGen = me.gen].id = st.id
    BY DEF TypeOK, Statuses
  <2>2. CASE persistSyncFailure("SecretInputInID") /\ Return(FALSE)
    BY <1>0, <1>a, <2>1, <2>2, PersistFinal DEF persistSyncFailure
  <2>3. CASE markSyncFailed("Retrying", TRUE)
    BY <1>0, <2>3, FailedFinal
  <2> QED
    BY <1>6, <2>2, <2>3 DEF CreateFailed
<1>7. CASE Created \/ SwapInPlace \/ RetireHandled
  BY <1>0, <1>a, <1>7, SyncedFinal DEF Created, SwapInPlace, RetireHandled
<1>8. CASE PatchHandled
  BY <1>0, <1>a, <1>8, SyncedFinal, ReplaceFinal, FailedFinal, MissingFinal
     DEF PatchHandled
<1>9. CASE RefreshHandled
  BY <1>0, <1>a, <1>9, SyncedFinal, FailedFinal, MissingFinal DEF RefreshHandled
<1>10. CASE SwapCollided
  <2>1. st.id # NoId
    BY <1>10 DEF SwapCollided, Handling, LocalsFit, Busy, NeedsId
  <2> QED
    BY <1>0, <1>b, <1>10, <2>1, RunFinal DEF SwapCollided
<1>11. CASE ClearHandled
  BY <1>0, <1>c, <1>11, RunFinal, FailedFinal DEF ClearHandled
<1>12. CASE RetireOld
  <2>1. st.id # NoId
    BY <1>12 DEF RetireOld, LocalsFit, Busy, NeedsId
  <2> QED
    BY <1>0, <1>b, <1>12, <2>1, RunFinal DEF RetireOld
<1>13. CASE DeleteHandled
  <2>1. CASE out.code \in {"OK", "NotFound"} /\ ReleaseFinalizer
    <3>1. op.verb = "delete" /\ op.id = st.id
      BY <1>0, <1>13 DEF DeleteHandled, Handling, FinalizerInv, CopyAgrees
    <3>2. Dead(st.id)
      BY <1>13, <2>1, <3>1
         DEF DeleteHandled, Handling, FinalizerInv, OutcomeHonest, Gone
    <3> QED
      BY <1>0, <2>1, <3>2, ReleaseFinal
  <2>2. CASE Return(TRUE) /\ UNCHANGED <<object, jobs, ghosts>>
    BY <2>2, IdleFinal
  <2> QED
    BY <1>13, <2>1, <2>2 DEF DeleteHandled
<1> QED
  BY <1>1, <1>2, <1>3, <1>4, <1>5, <1>6, <1>7, <1>8, <1>9, <1>10, <1>11,
     <1>12, <1>13

-----------------------------------------------------------------------------
(* Steps of the provider *)

\* A server-named id is assigned once: what was born stays so, and what died
\* stays dead.  Only the create of a name the client chose revives anything.
LEMMA CloudGrows ==
  ASSUME TypeOK, NEW o \in Ops, provider.clientNamed => o.verb # "create",
         CanRun(o), NEW i \in Ids
  PROVE  /\ cloud[i] # "unborn" => CloudAfter(o)[i] # "unborn"
         /\ Dead(i) => CloudAfter(o)[i] \in {"deleted", "vanished"}
<1>1. o.verb = "create" =>
        /\ NewId \in Fresh /\ o.props \in Props /\ ~Collides
        /\ CloudAfter(o) = [cloud EXCEPT ![NewId] = o.props]
  BY OpKinds, ProviderTypes DEF Collides, CloudAfter
<1>2. o.verb = "patch" =>
        \/ CloudAfter(o) = cloud
        \/ /\ o.id \in Ids /\ o.props \in Props /\ cloud[o.id] \in Props
           /\ CloudAfter(o) = [cloud EXCEPT ![o.id] = o.props]
  BY OpKinds DEF CloudAfter, Outcome, PatchResult, Result, Live
<1>3. o.verb = "delete" =>
        \/ CloudAfter(o) = cloud
        \/ o.id \in Ids /\ CloudAfter(o) = [cloud EXCEPT ![o.id] = "deleted"]
  BY OpKinds DEF CloudAfter
<1>4. o.verb = "read" => CloudAfter(o) = cloud
  BY DEF CloudAfter
<1>5. CASE o.verb = "create"
  BY <1>1, <1>5, PropsAssumption DEF Fresh, TypeOK, Dead
<1>6. CASE o.verb = "patch"
  BY <1>2, <1>6, PropsAssumption DEF TypeOK, Dead
<1>7. CASE o.verb = "delete"
  BY <1>3, <1>7 DEF TypeOK, Dead
<1> QED
  BY <1>4, <1>5, <1>6, <1>7, OpKinds DEF Dead

\* The envelope of a finished operation is honest about the state it left.
LEMMA OutcomeIsHonest ==
  ASSUME TypeOK, NEW o \in Ops, provider.clientNamed => o.verb # "create",
         CanRun(o), Born(o.id)
  PROVE  /\ Outcome(o).id # NoId => CloudAfter(o)[Outcome(o).id] # "unborn"
         /\ o.verb = "delete" /\ Outcome(o).code \in Gone =>
              CloudAfter(o)[o.id] \in {"deleted", "vanished"}
<1>1. CASE o.verb = "create"
  <2>1. NewId \in Ids /\ o.props \in Props /\ ~Collides
    BY <1>1, OpKinds, ProviderTypes DEF Collides
  <2>2. CloudAfter(o)[NewId] = o.props
    BY <1>1, <2>1 DEF CloudAfter, TypeOK
  <2>3. Outcome(o).id \in {NoId, NewId}
    BY <1>1, <2>1 DEF Outcome, CreateResult, Result
  <2> QED
    BY <1>1, <2>1, <2>2, <2>3, PropsAssumption
<1>2. CASE o.verb # "create"
  <2>1. o.id \in Ids /\ o.id # NoId
    BY <1>2, OpKinds, IdAssumption
  <2>2. Outcome(o).id \in {NoId, o.id}
    BY <1>2 DEF Outcome, ReadResult, PatchResult, DeleteResult, Result
  <2>3. CloudAfter(o)[o.id] # "unborn"
    BY <2>1, CloudGrows DEF Born
  <2>4. ASSUME o.verb = "delete", Outcome(o).code \in Gone
        PROVE  CloudAfter(o)[o.id] \in {"deleted", "vanished"}
    <3>1. CASE Outcome(o).code = "OK"
      BY <2>1, <2>4, <3>1 DEF CloudAfter, TypeOK
    <3>2. CASE Outcome(o).code = "NotFound"
      <4>1. ~Live(o.id)
        BY <2>4, <3>2 DEF Outcome, DeleteResult, Result
      <4>2. Dead(o.id)
        BY <2>1, <4>1 DEF Live, Dead, Born, TypeOK
      <4> QED
        BY <2>1, <4>2, CloudGrows
    <3> QED
      BY <2>4, <3>1, <3>2 DEF Gone
  <2> QED
    BY <2>1, <2>2, <2>3, <2>4
<1> QED
  BY <1>1, <1>2

Grown(c) ==
  \A i \in Ids :
    /\ cloud[i] # "unborn" => c[i] # "unborn"
    /\ Dead(i) => c[i] \in {"deleted", "vanished"}

\* The world moves while the object and the reconciler stand still.
LEMMA WorldFinal ==
  ASSUME TypeInv, FinalizerInv, UNCHANGED <<object, local>>, Grown(cloud'),
         JobsHonest'
  PROVE  FinalizerInv'
<1>1. /\ status.id \in AnyId /\ obj.extName \in AnyId /\ st.id \in AnyId
      /\ me.extName \in AnyId /\ out.id \in AnyId /\ made.id \in AnyId
  BY DEF TypeInv, TypeOK, Objects, Statuses, Results, Made
<1>2. op.id \in AnyId
  BY DEF TypeInv, TypeOK, Ops, NoOp, CreateOp, ReadOp, PatchOp, DeleteOp, AnyId
<1>3. \A i \in AnyId : Born(i) => Born(i)'
  BY DEF Grown, Born, AnyId
<1>4. \A i : Dead(i) => Dead(i)'
  BY DEF Grown, Dead
<1>5. KnownBorn'
  BY <1>1, <1>2, <1>3 DEF FinalizerInv, KnownBorn, object, local
<1>6. OutcomeHonest'
  BY <1>4 DEF FinalizerInv, OutcomeHonest, local
<1>7. CopyAgrees'
  BY DEF FinalizerInv, CopyAgrees, object, local
<1>8. FinalizerGuards'
  BY <1>4 DEF FinalizerInv, FinalizerGuards, object
<1> QED
  BY <1>5, <1>6, <1>7, <1>8 DEF FinalizerInv

\* One Job changes, to one that is honest; the others stay honest.
LEMMA JobFinal ==
  ASSUME TypeInv, FinalizerInv, UNCHANGED <<object, local>>, Grown(cloud'),
         NEW o \in Ops, NEW j, jobs' = [jobs EXCEPT ![o] = j],
         j.phase # "none" => jobs[o].phase # "none",
         j.res.id # NoId => cloud'[j.res.id] # "unborn",
         o.verb = "delete" /\ j.phase = "complete" /\ j.res.code \in Gone
           => cloud'[o.id] \in {"deleted", "vanished"}
  PROVE  FinalizerInv'
<1>1. JobsHonest'
  <2> SUFFICES ASSUME NEW x \in Ops
               PROVE  /\ Born(jobs[x].res.id)'
                      /\ jobs'[x].phase # "none" => Born(x.id)'
                      /\ x.verb = "delete" /\ jobs'[x].phase = "complete"
                           /\ jobs'[x].res.code \in Gone => Dead(x.id)'
    BY DEF JobsHonest
  <2>1. x.id \in AnyId /\ jobs[x].res.id \in AnyId
    BY DEF TypeInv, TypeOK, Jobs, Results, Ops, CreateOp, ReadOp, PatchOp,
           DeleteOp, AnyId
  <2>2. /\ \A i \in AnyId : Born(i) => Born(i)'
        /\ \A i : Dead(i) => Dead(i)'
    BY DEF Grown, Born, Dead, AnyId
  <2>3. /\ Born(jobs[x].res.id)
        /\ jobs[x].phase # "none" => Born(x.id)
        /\ x.verb = "delete" /\ jobs[x].phase = "complete"
             /\ jobs[x].res.code \in Gone => Dead(x.id)
    BY DEF FinalizerInv, JobsHonest
  <2>4. /\ x # o => jobs'[x] = jobs[x]
        /\ x = o => jobs'[x] = j
    BY DEF TypeInv, TypeOK
  <2>5. CASE x = o
    <3>1. jobs'[x] = j
      BY <2>4, <2>5
    <3>2. Born(jobs[x].res.id)'
      BY <3>1 DEF Born
    <3>3. o.verb = "delete" => o.id \in Ids
      BY OpKinds
    <3> QED
      BY <2>1, <2>2, <2>3, <2>5, <3>1, <3>2, <3>3 DEF Dead
  <2>6. CASE x # o
    <3>1. jobs'[x] = jobs[x]
      BY <2>4, <2>6
    <3>2. Born(jobs[x].res.id)'
      BY <2>1, <2>2, <2>3, <3>1 DEF Born
    <3> QED
      BY <2>1, <2>2, <2>3, <3>1, <3>2
  <2> QED
    BY <2>5, <2>6
<1> QED
  BY <1>1, WorldFinal

\* The only Job there is, is the one the reconciler waits for.
LEMMA OnlyJob ==
  ASSUME Alone, NEW o \in Ops, jobs[o].phase = "running"
  PROVE  /\ pc = "wait" /\ op = o
         /\ \A x \in Ops : x # o => jobs[x].phase = "none"
BY DEF Alone

\* The create of a name the client chose can revive a dead resource; nobody
\* holds the report of its delete then.
LEMMA RevivalFinal ==
  ASSUME TypeInv, FinalizerInv, Alone, UNCHANGED <<object, local>>,
         NEW o \in Ops, o.verb = "create", CanRun(o), cloud' \in {cloud, CloudAfter(o)},
         NEW j, jobs' = [jobs EXCEPT ![o] = j],
         j.res.id # NoId => cloud'[j.res.id] # "unborn"
  PROVE  FinalizerInv'
<1> USE DEF TypeInv
<1>1. jobs[o].phase = "running"
  BY DEF CanRun
<1>2. /\ pc = "wait" /\ op = o
      /\ \A x \in Ops : x # o => jobs[x].phase = "none"
  BY <1>1, OnlyJob
<1>3. \A i \in AnyId : Born(i) => Born(i)'
  <2>1. NewId \in Ids /\ o.props \in Props /\ o.props # "unborn"
    BY OpKinds, ProviderTypes, PropsAssumption
  <2>2. cloud' = cloud \/ cloud' = [cloud EXCEPT ![NewId] = o.props]
    BY DEF CloudAfter
  <2> QED
    BY <2>1, <2>2 DEF Born, AnyId, TypeOK
<1>4. /\ status.id \in AnyId /\ obj.extName \in AnyId /\ st.id \in AnyId
      /\ me.extName \in AnyId /\ out.id \in AnyId /\ made.id \in AnyId
  BY DEF TypeOK, Objects, Statuses, Results, Made
<1>5. \A x \in Ops : x.id \in AnyId /\ jobs[x].res.id \in AnyId
  BY DEF TypeOK, Jobs, Results, Ops, CreateOp, ReadOp, PatchOp, DeleteOp, AnyId
<1>6. KnownBorn'
  BY <1>2, <1>3, <1>4, <1>5 DEF FinalizerInv, KnownBorn, object, local
<1>7. JobsHonest'
  <2> SUFFICES ASSUME NEW x \in Ops
               PROVE  /\ Born(jobs[x].res.id)'
                      /\ jobs'[x].phase # "none" => Born(x.id)'
                      /\ x.verb = "delete" /\ jobs'[x].phase = "complete"
                           /\ jobs'[x].res.code \in Gone => Dead(x.id)'
    BY DEF JobsHonest
  <2>1. CASE x = o
    <3>1. jobs'[x] = j
      BY <2>1 DEF TypeOK
    <3>2. Born(jobs[x].res.id)'
      BY <3>1 DEF Born
    <3>3. Born(o.id)'
      BY <1>1, <1>3, <1>5 DEF FinalizerInv, JobsHonest
    <3> QED
      BY <2>1, <3>2, <3>3
  <2>2. CASE x # o
    <3>1. jobs'[x] = jobs[x] /\ jobs[x].phase = "none"
      BY <1>2, <2>2 DEF TypeOK
    <3>2. Born(jobs[x].res.id)'
      BY <1>3, <1>5, <3>1 DEF FinalizerInv, JobsHonest, Born
    <3> QED
      BY <3>1, <3>2
  <2> QED
    BY <2>1, <2>2
<1>8. OutcomeHonest'
  BY <1>2 DEF OutcomeHonest, local
<1>9. CopyAgrees'
  BY DEF FinalizerInv, CopyAgrees, object, local
<1>10. FinalizerGuards'
  BY <1>2 DEF FinalizerInv, FinalizerGuards, CopyAgrees, Busy, object
<1> QED
  BY <1>6, <1>7, <1>8, <1>9, <1>10 DEF FinalizerInv

\* A Job that runs to its end reports a delete as done only for a dead id.
LEMMA RunnerFinal ==
  ASSUME TypeInv, FinalizerInv, provider.clientNamed => Alone, Runner
  PROVE  FinalizerInv'
<1> USE DEF TypeInv
<1>1. PICK o \in Ops : JobRuns(o)
  BY DEF Runner
<1>2. CanRun(o) /\ cloud' = CloudAfter(o) /\ UNCHANGED <<object, local>>
  BY <1>1 DEF JobRuns
<1> DEFINE j == [phase |-> "complete", res |-> Outcome(o)]
<1>3. jobs' = [jobs EXCEPT ![o] = j] /\ j.res = Outcome(o) /\ j.phase = "complete"
  BY <1>1 DEF JobRuns
<1> HIDE DEF j
<1>4. CASE provider.clientNamed /\ o.verb = "create"
  <2>1. NewId \in Ids /\ o.props \in Props /\ o.props # "unborn"
    BY <1>2, <1>4, OpKinds, ProviderTypes, PropsAssumption
  <2>2. Outcome(o).id # NoId => ~Collides /\ Outcome(o).id = NewId
    BY <1>4 DEF Outcome, CreateResult, Result
  <2>3. Outcome(o).id # NoId => cloud'[Outcome(o).id] # "unborn"
    BY <1>2, <1>4, <2>1, <2>2 DEF CloudAfter, TypeOK
  <2> QED
    BY <1>2, <1>3, <1>4, <2>3, RevivalFinal
<1>5. CASE provider.clientNamed => o.verb # "create"
  <2>1. Grown(cloud')
    BY <1>2, <1>5, CloudGrows DEF Grown
  <2>2. Born(o.id) /\ jobs[o].phase # "none"
    BY <1>2 DEF CanRun, FinalizerInv, JobsHonest
  <2>3. /\ Outcome(o).id # NoId => cloud'[Outcome(o).id] # "unborn"
        /\ o.verb = "delete" /\ Outcome(o).code \in Gone =>
             cloud'[o.id] \in {"deleted", "vanished"}
    BY <1>2, <1>5, <2>2, OutcomeIsHonest
  <2> QED
    BY <1>2, <1>3, <2>1, <2>2, <2>3, JobFinal
<1> QED
  BY <1>4, <1>5

\* Nor do a lost or an expired Job, a provider error or drift make a report
\* untrue.
LEMMA EnvironmentFinal ==
  ASSUME TypeInv, FinalizerInv, provider.clientNamed => Alone, Environment
  PROVE  FinalizerInv'
<1> USE DEF TypeInv
<1>1. Grown(cloud)
  BY DEF Grown, Dead
<1>2. /\ NoResult.id = NoId /\ NoResult.code \notin Gone
      /\ NoJob.phase = "none" /\ NoJob.res = NoResult
  BY DEF NoResult, NoJob, Gone
<1>3. ASSUME NEW o \in Ops, JobErrs(o)
      PROVE  FinalizerInv'
  <2> DEFINE j == [phase |-> "complete", res |-> NoResult]
  <2>1. /\ jobs' = [jobs EXCEPT ![o] = j] /\ j.res = NoResult
        /\ UNCHANGED <<object, local>> /\ Grown(cloud')
        /\ jobs[o].phase # "none"
    BY <1>1, <1>3 DEF JobErrs
  <2> HIDE DEF j
  <2> QED
    BY <1>2, <2>1, JobFinal
<1>4. ASSUME NEW o \in Ops, JobLost(o)
      PROVE  FinalizerInv'
  <2> DEFINE j == [phase |-> "failed", res |-> NoResult]
  <2>1. /\ jobs' = [jobs EXCEPT ![o] = j] /\ j.res = NoResult
        /\ UNCHANGED <<object, local>> /\ CanRun(o)
        /\ cloud' \in {cloud, CloudAfter(o)}
        /\ jobs[o].phase # "none"
    BY <1>4 DEF JobLost, CanRun
  <2>2. j.phase = "failed"
    OBVIOUS
  <2> HIDE DEF j
  <2>3. CASE provider.clientNamed /\ o.verb = "create"
    BY <1>2, <2>1, <2>3, RevivalFinal
  <2>4. CASE provider.clientNamed => o.verb # "create"
    <3>1. Grown(cloud')
      BY <1>1, <2>1, <2>4, CloudGrows DEF Grown
    <3> QED
      BY <1>2, <2>1, <2>2, <3>1, JobFinal
  <2> QED
    BY <2>3, <2>4
<1>5. ASSUME NEW o \in Ops, JobExpires(o)
      PROVE  FinalizerInv'
  <2>1. /\ jobs' = [jobs EXCEPT ![o] = NoJob]
        /\ UNCHANGED <<object, local>> /\ Grown(cloud')
    BY <1>1, <1>5 DEF JobExpires
  <2> QED
    BY <1>2, <2>1, JobFinal
<1>6. ASSUME NEW i \in Ids, Vanish(i)
      PROVE  FinalizerInv'
  <2>1. /\ cloud' = [cloud EXCEPT ![i] = "vanished"]
        /\ UNCHANGED <<object, local, jobs>>
    BY <1>6 DEF Vanish
  <2>2. Grown(cloud')
    BY <2>1 DEF Grown, Dead, TypeOK
  <2>3. /\ \A k \in AnyId : Born(k) => Born(k)'
        /\ \A k : Dead(k) => Dead(k)'
    BY <2>2 DEF Grown, Born, Dead, AnyId
  <2>4. \A x \in Ops : x.id \in AnyId /\ jobs[x].res.id \in AnyId
    BY DEF TypeOK, Jobs, Results, Ops, CreateOp, ReadOp, PatchOp, DeleteOp, AnyId
  <2>5. JobsHonest'
    BY <2>1, <2>3, <2>4 DEF FinalizerInv, JobsHonest
  <2> QED
    BY <2>1, <2>2, <2>5, WorldFinal
<1> QED
  BY <1>3, <1>4, <1>5, <1>6 DEF Environment

-----------------------------------------------------------------------------
(* Steps of the user and the theorem *)

\* A user's write keeps the annotation and the finalizer; the object goes at
\* once only when it has no finalizer, and then there is no id.
LEMMA WriteFinal ==
  ASSUME TypeInv, FinalizerInv, UNCHANGED <<status, local, jobs, cloud>>,
         obj.exists, obj'.extName = obj.extName, obj'.finalizer = obj.finalizer,
         obj'.exists \/ ~obj.finalizer
  PROVE  FinalizerInv'
<1>1. KnownBorn' /\ JobsHonest' /\ OutcomeHonest'
  BY DEF FinalizerInv, KnownBorn, JobsHonest, OutcomeHonest, Born, Dead, local
<1>2. CopyAgrees'
  BY DEF FinalizerInv, CopyAgrees, local
<1>3. FinalizerGuards'
  BY DEF FinalizerInv, FinalizerGuards
<1> QED
  BY <1>1, <1>2, <1>3 DEF FinalizerInv

\* The user changes neither the recorded id nor the external resources.
LEMMA UserFinal ==
  ASSUME TypeInv, FinalizerInv, User
  PROVE  FinalizerInv'
<1> USE DEF TypeInv
<1>1. UNCHANGED <<local, jobs, cloud>>
  BY DEF User
<1>2. ASSUME NEW p \in Props, EditProps(p), UNCHANGED status
      PROVE  FinalizerInv'
  <2>1. /\ obj.exists /\ obj'.extName = obj.extName
        /\ obj'.finalizer = obj.finalizer /\ obj'.exists = obj.exists
    BY <1>2 DEF EditProps, UserWrites, TypeOK, Objects
  <2> QED
    BY <1>1, <1>2, <2>1, WriteFinal
<1>3. CASE (EditPolicy \/ TogglePause \/ Approve) /\ UNCHANGED status
  <2>1. /\ obj.exists /\ obj'.extName = obj.extName
        /\ obj'.finalizer = obj.finalizer /\ obj'.exists = obj.exists
    BY <1>3 DEF EditPolicy, TogglePause, Approve, UserWrites, TypeOK, Objects
  <2> QED
    BY <1>1, <1>3, <2>1, WriteFinal
<1>4. CASE Delete /\ UNCHANGED status
  <2>1. /\ obj.exists /\ obj'.extName = obj.extName
        /\ obj'.finalizer = obj.finalizer /\ obj'.exists = obj.finalizer
    BY <1>4 DEF Delete, UserWrites, TypeOK, Objects
  <2> QED
    BY <1>1, <1>4, <2>1, WriteFinal
<1>5. CASE Wake
  <2>1. UNCHANGED object /\ obj.exists
    BY <1>5 DEF Wake
  <2> QED
    BY <1>1, <2>1, WriteFinal DEF object
<1> QED
  BY <1>2, <1>3, <1>4, <1>5 DEF User

\* The faults of the reconciler lose its locals but forge no outcome.
LEMMA DisturbedFinal ==
  ASSUME TypeInv, FinalizerInv, Disturbed
  PROVE  FinalizerInv'
<1>1. UNCHANGED cloud
  BY DEF Disturbed
<1>2. CASE ProfileFails \/ ReferencesFail \/ SchemaUnavailable
  BY <1>1, <1>2, FailedFinal DEF ProfileFails, ReferencesFail, SchemaUnavailable, Checking
<1>3. CASE ObserveGarbled \/ ObserveUnreadable \/ WaitTimeout
  BY <1>1, <1>3, EmptyHandedFinal
     DEF ObserveGarbled, ObserveUnreadable, WaitTimeout
<1>4. CASE CleanupFails
  BY <1>1, <1>4, CleanupFinal DEF CleanupFails
<1>5. CASE Crash
  BY <1>1, <1>5, IdleFinal DEF Crash
<1> QED
  BY <1>2, <1>3, <1>4, <1>5 DEF Disturbed

\* Faults and resources given up are never forgotten.
History == seen \subseteq seen' /\ forsaken \subseteq forsaken'

\* No step forgets a fault or a resource that was given up.
LEMMA HistoryGrows == [Next]_vars => History
<1> SUFFICES ASSUME [Next]_vars PROVE History
  OBVIOUS
<1>1. ASSUME NEW f, Fault(f) PROVE seen \subseteq seen'
  BY <1>1 DEF Fault
<1>2. CASE Reconcile
  <2>1. seen' = seen
    BY <1>2 DEF Reconcile, fault
  <2>2. \/ ReleaseFinalizer \/ RetireHandled \/ UNCHANGED forsaken
    BY <1>2
       DEF Reconcile, Quiet, Get, ReconcilePaused, DeleteExternal, NothingToDelete,
           AddFinalizer, Conflict, ValidationFailed, AdoptExternal, Create, Patch, Refresh,
           Observe, Waiting, JobDisappeared, Cleanup, AdoptHandled, PersistExternalName,
           CreateFailed, Created, PatchHandled, RefreshHandled, SwapCollided, ClearHandled,
           RetireOld, SwapInPlace, DeleteHandled, CreateUnlessTerminal,
           reconcileReplacement, markSyncFailed, markMissing, RunOp, ghosts
  <2>3. forsaken \subseteq forsaken'
    BY <2>2 DEF ReleaseFinalizer, Conflict, RetireHandled, ghosts
  <2> QED
    BY <2>1, <2>3 DEF History
<1>3. CASE Disturbed
  BY <1>1, <1>3
     DEF Disturbed, ProfileFails, ReferencesFail, SchemaUnavailable, ObserveGarbled, ObserveUnreadable, WaitTimeout,
         CleanupFails, Crash, markSyncFailed, Waiting, ghosts, History
<1>4. CASE Runner
  BY <1>4 DEF Runner, JobRuns, fault, History
<1>5. CASE Environment
  BY <1>1, <1>5 DEF Environment, JobErrs, JobLost, JobExpires, Vanish, ghosts, History
<1>6. CASE User
  BY <1>6 DEF User, fault, History
<1>7. CASE UNCHANGED vars
  BY <1>7 DEF vars, fault, ghosts, History
<1> QED
  BY <1>2, <1>3, <1>4, <1>5, <1>6, <1>7 DEF Next

\* Only a fault that leaves a Job behind brings a second Job about.
LEMMA AloneStep ==
  ASSUME TypeInv, Alone, [Next]_vars, seen' \cap StaleFaults = {}
  PROVE  Alone'
<1> USE DEF TypeInv
<1>a. pc \notin {"wait", "cleanup"} => \A o \in Ops : jobs[o].phase = "none"
  BY DEF Alone
<1>b. ASSUME NEW b, Return(b), jobs' = jobs, pc \notin {"wait", "cleanup"}
      PROVE  Alone'
  BY <1>a, <1>b DEF Alone, Return
<1>c. ASSUME NEW o \in Ops, NEW c, RunOp(o, c), pc \notin {"wait", "cleanup"}
      PROVE  Alone'
  <2>1. /\ pc' = "wait" /\ op' = o
        /\ \A x \in Ops : x # o => jobs'[x] = jobs[x]
    BY <1>c DEF RunOp, ensureJob, TypeOK
  <2> QED
    BY <1>a, <1>c, <2>1 DEF Alone
<1>d. /\ CreateOp(me.props) \in Ops
      /\ me.extName # NoId => ReadOp(me.extName) \in Ops
      /\ st.id # NoId => /\ ReadOp(st.id) \in Ops /\ PatchOp(st.id, me.props) \in Ops
                         /\ DeleteOp(st.id, deleteState(st.outputs)) \in Ops
      /\ pc \in Busy /\ cont \in NeedsId => st.id # NoId
  BY OpTypes DEF TypeOK, Objects, Statuses, AnyId, LocalsFit
<1>1. CASE Get \/ AddFinalizer \/ PersistExternalName
  <2>1. CASE Conflict /\ AddFinalizer
    BY <1>b, <2>1 DEF Conflict, AddFinalizer
  <2>2. CASE ~(Conflict /\ AddFinalizer)
    <3>1. pc \notin {"wait", "cleanup"} /\ pc' \notin {"wait", "cleanup"} /\ jobs' = jobs
      BY <1>1, <2>2 DEF Get, AddFinalizer, PersistExternalName
    <3> QED
      BY <1>a, <3>1 DEF Alone
  <2> QED
    BY <2>1, <2>2
<1>2. CASE ReconcilePaused \/ ValidationFailed \/ ProfileFails \/ ReferencesFail \/ SchemaUnavailable
  BY <1>2, <1>b DEF ReconcilePaused, ValidationFailed, ProfileFails, ReferencesFail, SchemaUnavailable, Checking,
                    markSyncFailed, persistSyncFailure, persistStatus
<1>3. CASE DeleteExternal \/ AdoptExternal \/ Patch \/ Refresh
  BY <1>3, <1>c, <1>d DEF DeleteExternal, AdoptExternal, Patch, Refresh, Passed, Checking
<1>4. CASE NothingToDelete
  BY <1>4, <1>b DEF NothingToDelete, ReleaseFinalizer, Conflict
<1>5. CASE Create
  BY <1>5, <1>b, <1>c, <1>d DEF Create, CreateUnlessTerminal, Passed, Checking
<1>6. CASE Observe \/ ObserveGarbled
  <2>1. /\ pc = "wait" /\ pc' = "cleanup" /\ UNCHANGED <<op, jobs>>
        /\ jobs[op].phase \in {"complete", "failed"}
    BY <1>6 DEF Observe, ObserveGarbled, Waiting
  <2> QED
    BY <2>1 DEF Alone
<1>7. CASE JobDisappeared
  <2>1. /\ pc = "wait" /\ pc' = "handle" /\ UNCHANGED <<op, jobs>> /\ jobs[op].phase = "none"
    BY <1>7 DEF JobDisappeared, Waiting
  <2> QED
    BY <2>1 DEF Alone
<1>8. CASE Cleanup
  <2>1. /\ pc = "cleanup" /\ pc' = "handle" /\ op' = op /\ jobs' = [jobs EXCEPT ![op] = NoJob]
    BY <1>8 DEF Cleanup
  <2>2. \A x \in Ops : jobs'[x].phase = "none"
    BY <2>1 DEF Alone, TypeOK, NoJob
  <2> QED
    BY <2>1, <2>2 DEF Alone
<1>9. CASE AdoptHandled
  BY <1>9, <1>b, <1>c, <1>d
     DEF AdoptHandled, Handling, CreateUnlessTerminal, markSynced, markSyncFailed,
         persistSyncFailure, persistStatus
<1>10. CASE CreateFailed \/ Created \/ SwapInPlace \/ RetireHandled
  BY <1>10, <1>b
     DEF CreateFailed, Created, SwapInPlace, RetireHandled, Handling, markSynced,
         markSyncFailed, persistSyncFailure, persistStatus
<1>11. CASE PatchHandled
  BY <1>11, <1>b, <1>c, <1>d
     DEF PatchHandled, Handling, reconcileReplacement, markMissing, markSynced,
         markSyncFailed, persistSyncFailure, persistStatus
<1>12. CASE RefreshHandled
  BY <1>12, <1>b
     DEF RefreshHandled, Handling, markMissing, markSynced, markSyncFailed,
         persistSyncFailure, persistStatus
<1>13. CASE SwapCollided \/ RetireOld
  BY <1>13, <1>c, <1>d DEF SwapCollided, RetireOld, Handling, NeedsId, Busy
<1>14. CASE ClearHandled
  BY <1>14, <1>b, <1>c, <1>d
     DEF ClearHandled, Handling, markSyncFailed, persistSyncFailure, persistStatus
<1>15. CASE DeleteHandled
  BY <1>15, <1>b DEF DeleteHandled, Handling, ReleaseFinalizer, Conflict
<1>16. CASE Reconcile
  BY <1>16, <1>1, <1>2, <1>3, <1>4, <1>5, <1>6, <1>7, <1>8, <1>9, <1>10, <1>11, <1>12,
     <1>13, <1>14, <1>15 DEF Reconcile, Quiet
<1>17. CASE Disturbed
  <2>1. \A f \in StaleFaults : ~Fault(f)
    BY DEF Fault
  <2>2. ~ObserveUnreadable /\ ~WaitTimeout /\ ~CleanupFails /\ ~Crash
    BY <2>1 DEF ObserveUnreadable, WaitTimeout, CleanupFails, Crash, StaleFaults
  <2> QED
    BY <1>17, <1>2, <1>6, <2>2 DEF Disturbed
<1>18. ASSUME NEW o \in Ops, jobs[o].phase # "none", UNCHANGED local,
              NEW j, jobs' = [jobs EXCEPT ![o] = j], j.phase # "running"
       PROVE  Alone'
  <2>1. /\ pc \in {"wait", "cleanup"} /\ op = o /\ pc' = pc /\ op' = op
        /\ jobs'[o] = j /\ \A x \in Ops : x # o => jobs'[x] = jobs[x]
    BY <1>18 DEF Alone, TypeOK, local
  <2> QED
    BY <1>18, <2>1 DEF Alone
<1>19. CASE Runner
  <2>1. PICK o \in Ops : JobRuns(o)
    BY <1>19 DEF Runner
  <2> DEFINE j == [phase |-> "complete", res |-> Outcome(o)]
  <2>2. /\ jobs[o].phase # "none" /\ UNCHANGED local /\ j.phase # "running"
        /\ jobs' = [jobs EXCEPT ![o] = j]
    BY <2>1 DEF JobRuns, CanRun
  <2> HIDE DEF j
  <2> QED
    BY <1>18, <2>2
<1>20. CASE Environment
  <2>1. ASSUME NEW o \in Ops, JobErrs(o) \/ JobLost(o) \/ JobExpires(o)
        PROVE  Alone'
    <3>1. PICK j \in {NoJob, [phase |-> "complete", res |-> NoResult],
                      [phase |-> "failed", res |-> NoResult]} : jobs' = [jobs EXCEPT ![o] = j]
      BY <2>1 DEF JobErrs, JobLost, JobExpires
    <3>2. j.phase # "running" /\ jobs[o].phase # "none" /\ UNCHANGED local
      BY <2>1 DEF JobErrs, JobLost, JobExpires, CanRun, NoJob
    <3> QED
      BY <1>18, <3>1, <3>2
  <2>2. ASSUME NEW i \in Ids, Vanish(i)
        PROVE  Alone'
    BY <2>2 DEF Vanish, Alone, local
  <2> QED
    BY <1>20, <2>1, <2>2 DEF Environment
<1>21. CASE User
  BY <1>21 DEF User, Alone, local
<1>22. CASE UNCHANGED vars
  BY <1>22 DEF vars, Alone, local
<1> QED
  BY <1>16, <1>17, <1>19, <1>20, <1>21, <1>22 DEF Next

\* An adopted Job is about the resource the reconciler means: the provider
\* assigns the ids, or there is no Job to adopt.
Inv ==
  /\ TypeInv
  /\ AdoptionIsExact => FinalizerInv /\ (provider.clientNamed => Alone)

\* The invariant holds for a new object.
LEMMA FinalizerInit == Init => Inv
<1> SUFFICES ASSUME Init PROVE FinalizerInv
  <2>1. Init => Alone
    BY DEF Init, Alone, NoJob
  <2> QED
    BY <2>1, TypeInit DEF Inv
<1>1. PICK p \in Props, q \in Props, prot \in BOOLEAN, imp \in Imports :
        /\ obj = NewObject(p, prot, IF imp = "none" THEN NoId ELSE ImportId)
        /\ cloud = [i \in Ids |->
             IF i # ImportId \/ imp = "none" THEN "unborn"
             ELSE IF imp = "live" THEN q ELSE "vanished"]
  BY DEF Init
<1>2. Born(obj.extName) /\ obj.exists
  BY <1>1, IdAssumption, PropsAssumption DEF NewObject, Born
<1>3. KnownBorn
  BY <1>2 DEF Init, KnownBorn, Born, NewStatus, NoCopy, NewObject, NoOp,
              NoResult, NoneMade
<1>4. JobsHonest
  BY DEF Init, JobsHonest, NoJob, NoResult, Born
<1>5. OutcomeHonest /\ CopyAgrees /\ FinalizerGuards
  BY <1>2 DEF Init, OutcomeHonest, CopyAgrees, FinalizerGuards, Busy, NewStatus
<1> QED
  BY <1>3, <1>4, <1>5 DEF FinalizerInv

\* Every step of the system preserves the invariant.
LEMMA FinalizerStep == Inv /\ [Next]_vars => Inv'
<1> SUFFICES ASSUME Inv, [Next]_vars PROVE Inv'
  OBVIOUS
<1>1. TypeInv /\ TypeInv'
  BY TypeStep DEF Inv
<1>2. provider' = provider
  BY DEF Next, Reconcile, Disturbed, Runner, Environment, User, vars
<1>a. AdoptionIsExact' => AdoptionIsExact
  BY <1>2, HistoryGrows DEF AdoptionIsExact, History
<1>b. AdoptionIsExact' /\ provider'.clientNamed => Alone'
  BY <1>1, <1>2, <1>a, AloneStep DEF Inv, AdoptionIsExact
<1> SUFFICES ASSUME FinalizerInv, provider.clientNamed => Alone PROVE FinalizerInv'
  BY <1>1, <1>a, <1>b DEF Inv
<1>3. CASE Reconcile
  BY <1>1, <1>3, StartFinal, GoOnFinal DEF Reconcile, Quiet
<1>4. CASE Disturbed
  BY <1>1, <1>4, DisturbedFinal
<1>5. CASE Runner
  BY <1>1, <1>5, RunnerFinal
<1>6. CASE Environment
  BY <1>1, <1>6, EnvironmentFinal
<1>7. CASE User
  BY <1>1, <1>7, UserFinal
<1>8. CASE UNCHANGED vars
  <2>1. UNCHANGED <<object, local, jobs, cloud>>
    BY <1>8 DEF vars
  <2>2. Grown(cloud') /\ JobsHonest'
    BY <2>1 DEF Grown, FinalizerInv, JobsHonest, Born, Dead
  <2> QED
    BY <1>1, <2>1, <2>2, WorldFinal
<1> QED
  BY <1>3, <1>4, <1>5, <1>6, <1>7, <1>8 DEF Next

\* An object disappears only once the resource in its status is gone or was to
\* be orphaned: under every fault, with adopted and re-run Jobs, and whatever
\* the user does meanwhile, if the provider assigns the ids; and when the
\* client chooses the name, until a fault leaves a Job behind.
THEOREM FinalizerTheorem == Spec => []FinalizerOutlivesResource
<1>1. Spec => []Inv
  BY FinalizerInit, FinalizerStep, PTL DEF Spec
<1>2. Inv => FinalizerOutlivesResource
  <2> SUFFICES ASSUME FinalizerInv, ~obj.exists, Live(status.id)
               PROVE  obj.orphan
    BY DEF Inv, FinalizerOutlivesResource
  <2>1. status.id # NoId /\ ~Dead(status.id)
    BY IdAssumption, PropsAssumption DEF Live, Dead
  <2> QED
    BY <2>1 DEF FinalizerInv, FinalizerGuards
<1> QED
  BY <1>1, <1>2, PTL
=============================================================================
