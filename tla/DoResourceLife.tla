--------------------------- MODULE DoResourceLife ---------------------------
(***************************************************************************)
(* The records of DoResource and the life of its resource, for every value *)
(* of the constants.  No resource is lost: the first part follows the      *)
(* record of an id from hand to hand.  The record is true: the second part *)
(* relates the applied hash to the properties the resource has.  And       *)
(* DoResource implements ResourceLife.                                     *)
(***************************************************************************)
EXTENDS DoResourceProofs

-----------------------------------------------------------------------------
(***************************************************************************)
(* EveryResourceRecorded.  The argument follows the record from hand to    *)
(* hand: a Job reports the new id and is consumed only by the reconciler   *)
(* that then holds the report, the annotation takes it over before the     *)
(* status does, and the status gives up an old id only after an honest     *)
(* report that it is gone.  An annotation that differs from the id in the  *)
(* status, or that stands alone, therefore names nothing that could be     *)
(* lost (NameFits), unless the name is the client's own choice and the     *)
(* create under way has just revived what it names (Reviving).             *)
(***************************************************************************)

\* No result of a mutation has been lost to a fault yet.
Lossless == seen \cap LossyFaults = {}
Under(c) == pc \in {"wait", "cleanup", "handle"} /\ cont \in c

\* A Job that found nothing tells the truth; one that names an id created it.
JobsReport ==
  \A o \in Ops :
    /\ o.verb # "create" /\ jobs[o].phase = "complete" /\ jobs[o].res.code = "NotFound"
         => Dead(o.id)
    /\ o.verb = "create" /\ jobs[o].res.id # NoId => jobs[o].res.code = "OK"

\* So does the outcome, which is that of the Job until the Job is cleaned up.
OutcomeReports ==
  /\ pc \in {"cleanup", "handle"} /\ op.verb # "create" /\ out.code = "NotFound" => Dead(op.id)
  /\ Lossless /\ pc = "cleanup" =>
       /\ jobs[op].phase # "running"
       /\ jobs[op].phase = "complete" => out = jobs[op].res

\* What an operation is about, by the continuation that waits for it.
OpFits ==
  /\ Under(Creates) => op.verb = "create"
  /\ Under({"patch", "refresh", "clear", "retire", "delete"}) =>
       op.verb # "create" /\ op.id = st.id
  /\ Under({"clear", "retire", "delete"}) => op.verb = "delete"
  /\ Under({"adopt"}) => op.verb # "create"
  /\ pc \in Busy /\ cont \in {"adopt", "create"} => st.id = NoId

CopyNamed ==
  /\ pc # "idle" /\ obj.exists => me.extName = obj.extName
  /\ pc = "named" \/ Under({"retire"}) => made.id = me.extName

\* The report of a create that nobody has written down yet.
Holding == pc \in {"cleanup", "handle"} /\ op.verb = "create" /\ out.code = "OK"

\* The create under way reports the name of the annotation as its resource's.
Reviving ==
  /\ provider.clientNamed
  /\ \/ /\ pc = "wait" /\ op.verb = "create" /\ jobs[op].phase = "complete"
        /\ jobs[op].res.id = obj.extName
     \/ Holding /\ out.id = obj.extName

\* Outside a swap the annotation and the status name the same resource.
NameFits ==
  Lossless /\ obj.exists /\ pc # "named" /\ ~Under({"retire"}) =>
    IF status.id = NoId
    THEN Live(obj.extName) => obj.extName \in forsaken \/ Reviving
    ELSE obj.extName = status.id

AllRecorded ==
  Lossless => \A i \in Ids : Live(i) /\ i \notin forsaken => Recorded(i)

RecordInv ==
  /\ JobsReport /\ OutcomeReports /\ OpFits /\ CopyNamed /\ NameFits /\ AllRecorded

\* The reconciler waits for no report and holds none, and no swap is between
\* two names.
Free == pc \notin {"wait", "cleanup", "named"} /\ ~Holding /\ ~Under({"retire"})

\* What is dead is not live.
LEMMA DeadNotLive ==
  ASSUME NEW i, Dead(i)
  PROVE  ~Live(i)
BY PropsAssumption DEF Dead, Live

\* Records stay when the finished creates, the two fields of the object and
\* the report in hand stay, or what they name is gone or given up.
LEMMA RecordsStay ==
  ASSUME TypeInv, RecordInv, UNCHANGED cloud, History,
         \A i \in Ids :
           /\ Lossless' /\ Live(i) /\ i \notin forsaken'
           /\ \/ obj.exists /\ i \in {status.id, obj.extName}
              \/ Holding /\ i = out.id
              \/ \E p \in Props : /\ jobs[CreateOp(p)].phase = "complete"
                                 /\ jobs[CreateOp(p)].res.id = i
                                 /\ jobs'[CreateOp(p)] # jobs[CreateOp(p)]
           => Recorded(i)'
  PROVE  AllRecorded'
<1> SUFFICES ASSUME Lossless', NEW i \in Ids, Live(i)', i \notin forsaken' PROVE Recorded(i)'
  BY DEF AllRecorded
<1>1. Lossless /\ Live(i) /\ i \notin forsaken
  BY DEF Lossless, Live, History
<1>2. Recorded(i)
  BY <1>1 DEF RecordInv, AllRecorded
<1>3. CASE obj.exists /\ i \in {status.id, obj.extName}
  BY <1>1, <1>3
<1>4. ASSUME NEW p \in Props, jobs[CreateOp(p)].phase = "complete",
             jobs[CreateOp(p)].res.id = i
      PROVE  Recorded(i)'
  <2>1. CASE jobs'[CreateOp(p)] = jobs[CreateOp(p)]
    BY <1>4, <2>1 DEF Recorded
  <2> QED
    BY <1>1, <1>4, <2>1
<1>5. CASE Holding /\ out.id = i
  BY <1>1, <1>5
<1> QED
  BY <1>2, <1>3, <1>4, <1>5 DEF Recorded, Holding

\* A reconcile that returns, with names and records in order.
LEMMA ReturnRecord ==
  ASSUME RecordInv, NEW b, Return(b), UNCHANGED <<cloud, jobs>>, NameFits', AllRecorded'
  PROVE  RecordInv'
<1>1. JobsReport'
  BY DEF RecordInv, JobsReport, Dead
<1>2. OutcomeReports' /\ OpFits' /\ CopyNamed'
  BY DEF Return, OutcomeReports, OpFits, CopyNamed, Under, Busy
<1> QED
  BY <1>1, <1>2 DEF RecordInv

\* It returns without having written anything, and with nothing in hand.
LEMMA IdleRecord ==
  ASSUME TypeInv, RecordInv, NEW b, Return(b), UNCHANGED <<cloud, jobs, object>>, History,
         Lossless' => Free
  PROVE  RecordInv'
<1>1. Lossless' => Lossless
  BY DEF Lossless, History
<1>2. NameFits'
  BY <1>1 DEF RecordInv, NameFits, Reviving, Live, Free, object, History
<1>3. \A i \in Ids : obj.exists /\ i \in {status.id, obj.extName} => Recorded(i)'
  BY DEF Recorded, object
<1>4. AllRecorded'
  BY <1>3, RecordsStay DEF Free
<1> QED
  BY <1>2, <1>4, ReturnRecord

\* It writes the status and returns: an id is given up only if it is not live.
LEMMA PersistRecord ==
  ASSUME TypeInv, RecordInv, FinalizerInv, UNCHANGED cloud, pc # "idle", ~Holding, History,
         NEW b, Return(b), NEW s, persistStatus(s),
         Lossless' => (Live(st.id) /\ st.id \notin forsaken' => s.id = st.id),
         Lossless' /\ obj.exists =>
           IF s.id = NoId THEN ~Live(obj.extName) \/ obj.extName \in forsaken'
           ELSE obj.extName = s.id
  PROVE  RecordInv'
<1>1. obj' = obj /\ jobs' = jobs /\ (obj.exists => status' = s)
  BY DEF persistStatus
<1>2. NameFits'
  BY <1>1 DEF NameFits, Live
<1>3. ASSUME Lossless', NEW i \in Ids, Live(i), i \notin forsaken', obj.exists,
             i \in {status.id, obj.extName}
      PROVE  Recorded(i)'
  <2>1. st.id = status.id
    BY DEF FinalizerInv, CopyAgrees
  <2>2. i \in {status'.id, obj'.extName}
    BY <1>1, <1>3, <2>1
  <2> QED
    BY <1>1, <1>3, <2>2 DEF Recorded
<1>4. AllRecorded'
  BY <1>1, <1>3, RecordsStay
<1> QED
  BY <1>1, <1>2, <1>4, ReturnRecord

\* It writes the status back under the id it read.
LEMMA SameIdRecord ==
  ASSUME TypeInv, RecordInv, FinalizerInv, UNCHANGED cloud, pc # "idle", Free, History,
         NEW b, Return(b), NEW s, persistStatus(s), s.id = st.id
  PROVE  RecordInv'
<1>1. Lossless' => Lossless
  BY DEF Lossless, History
<1>2. st.id = status.id
  BY DEF FinalizerInv, CopyAgrees
<1>3. Lossless' /\ obj.exists =>
        IF s.id = NoId THEN ~Live(obj.extName) \/ obj.extName \in forsaken'
        ELSE obj.extName = s.id
  BY <1>1, <1>2 DEF RecordInv, NameFits, Reviving, Free, History
<1> QED
  BY <1>3, PersistRecord DEF Free

\* markSyncFailed writes back the id the reconciler read.
LEMMA FailedRecord ==
  ASSUME TypeInv, RecordInv, FinalizerInv, UNCHANGED cloud, pc # "idle", Free, History,
         NEW r, NEW b, markSyncFailed(r, b)
  PROVE  RecordInv'
<1>1. [st EXCEPT !.synced = r, !.syncedGen = me.gen].id = st.id
  BY DEF TypeInv, TypeOK, Statuses
<1> QED
  BY <1>1, SameIdRecord DEF markSyncFailed, persistSyncFailure

\* Forgetting the id of a resource that was found gone loses nothing.
LEMMA MissingRecord ==
  ASSUME TypeInv, RecordInv, FinalizerInv, UNCHANGED cloud, pc # "idle", Free, History,
         markMissing, Dead(st.id)
  PROVE  RecordInv'
<1> DEFINE s == [st EXCEPT !.id = NoId, !.outputs = NoProps, !.hash = NoProps]
<1>1. persistStatus(s) /\ Return(TRUE)
  BY DEF markMissing
<1>2. s.id = NoId
  BY DEF TypeInv, TypeOK, Statuses
<1> HIDE DEF s
<1>3. ~Live(st.id) /\ st.id # NoId /\ st.id = status.id
  BY DeadNotLive, IdAssumption DEF Dead, FinalizerInv, CopyAgrees
<1>4. Lossless' => Lossless
  BY DEF Lossless, History
<1>5. Lossless' /\ obj.exists => ~Live(obj.extName)
  BY <1>3, <1>4 DEF RecordInv, NameFits, Free
<1> QED
  BY <1>1, <1>2, <1>3, <1>5, PersistRecord DEF Free

\* It starts an operation on what it knows.
LEMMA RunRecord ==
  ASSUME TypeInv, RecordInv, UNCHANGED cloud, pc \notin {"idle", "wait", "cleanup"}, ~Holding,
         History,
         NEW o \in Ops, NEW c, RunOp(o, c),
         c \in Creates => o.verb = "create",
         c \in {"patch", "refresh", "clear", "retire", "delete"} =>
           o.verb # "create" /\ o.id = st.id,
         c \in {"clear", "retire", "delete"} => o.verb = "delete",
         c = "adopt" => o.verb # "create",
         c \in {"adopt", "create"} => st.id = NoId,
         c = "retire" => made.id = me.extName,
         c # "retire" => pc # "named" /\ ~Under({"retire"})
  PROVE  RecordInv'
<1>1. /\ op' = o /\ cont' = c /\ pc' = "wait"
      /\ UNCHANGED <<obj, status, me, st, out, made, forsaken>>
  BY DEF RunOp, object, ghosts
<1>2. \A x \in Ops : \/ jobs'[x] = jobs[x]
                     \/ /\ jobs[x].phase = "none"
                        /\ jobs'[x] = [phase |-> "running", res |-> NoResult]
  BY DEF RunOp, ensureJob, TypeInv, TypeOK
<1>3. JobsReport'
  <2> SUFFICES ASSUME NEW x \in Ops
               PROVE  /\ x.verb # "create" /\ jobs'[x].phase = "complete"
                           /\ jobs'[x].res.code = "NotFound" => Dead(x.id)
                      /\ x.verb = "create" /\ jobs'[x].res.id # NoId => jobs'[x].res.code = "OK"
    BY DEF JobsReport, Dead
  <2> QED
    BY <1>2 DEF RecordInv, JobsReport, NoResult
<1>4. OutcomeReports' /\ OpFits' /\ CopyNamed'
  BY <1>1 DEF RecordInv, OutcomeReports, OpFits, CopyNamed, Under, Busy, Creates
<1>5. Lossless' => Lossless
  BY DEF Lossless, History
<1>6. NameFits'
  BY <1>1, <1>5 DEF RecordInv, NameFits, Reviving, Under, Live
<1>7. \A p \in Props : jobs[CreateOp(p)].phase = "complete" =>
        jobs'[CreateOp(p)] = jobs[CreateOp(p)]
  BY <1>2, OpTypes
<1>8. \A i \in Ids : obj.exists /\ i \in {status.id, obj.extName} => Recorded(i)'
  BY <1>1 DEF Recorded
<1>9. AllRecorded'
  BY <1>7, <1>8, RecordsStay
<1> QED
  BY <1>3, <1>4, <1>6, <1>9 DEF RecordInv

\* It leaves the wait with the Job's outcome, or empty-handed.
LEMMA ObservedRecord ==
  ASSUME TypeInv, RecordInv, UNCHANGED <<cloud, provider, object, forsaken, cont, me, st, op, made, jobs>>,
         History, pc = "wait", pc' \in {"cleanup", "handle"}, OutcomeReports',
         Lossless' /\ Reviving /\ Live(obj.extName) => Reviving'
  PROVE  RecordInv'
<1>1. JobsReport' /\ OpFits' /\ CopyNamed'
  BY DEF RecordInv, JobsReport, OpFits, CopyNamed, Under, Busy, Dead, object
<1>2. Lossless' => Lossless
  BY DEF Lossless, History
<1>3. NameFits'
  BY <1>2 DEF RecordInv, NameFits, Under, Live, object
<1>4. \A i \in Ids : obj.exists /\ i \in {status.id, obj.extName} => Recorded(i)'
  BY DEF Recorded, object
<1>5. AllRecorded'
  BY <1>4, RecordsStay DEF Holding
<1> QED
  BY <1>1, <1>3, <1>5 DEF RecordInv

\* The Job goes, and its report is in hand; or the Job is kept.
LEMMA CleanupRecord ==
  ASSUME TypeInv, RecordInv, History, pc = "cleanup", pc' = "handle",
         UNCHANGED <<cloud, provider, object, forsaken, cont, me, st, op, out, made>>,
         jobs' = jobs \/ jobs' = [jobs EXCEPT ![op] = NoJob]
  PROVE  RecordInv'
<1>1. JobsReport'
  <2> SUFFICES ASSUME NEW x \in Ops
               PROVE  /\ x.verb # "create" /\ jobs'[x].phase = "complete"
                           /\ jobs'[x].res.code = "NotFound" => Dead(x.id)
                      /\ x.verb = "create" /\ jobs'[x].res.id # NoId => jobs'[x].res.code = "OK"
    BY DEF JobsReport, Dead
  <2>1. jobs'[x] = jobs[x] \/ jobs'[x] = NoJob
    BY DEF TypeInv, TypeOK
  <2> QED
    BY <2>1 DEF RecordInv, JobsReport, NoJob, NoResult
<1>2. OutcomeReports' /\ OpFits' /\ CopyNamed'
  BY DEF RecordInv, OutcomeReports, OpFits, CopyNamed, Under, Busy, Dead, object
<1>3. Lossless' => Lossless
  BY DEF Lossless, History
<1>r. Reviving => Reviving'
  BY DEF Reviving, Holding, object
<1>4. NameFits'
  BY <1>3, <1>r DEF RecordInv, NameFits, Under, Live, object
<1>5. \A i \in Ids : obj.exists /\ i \in {status.id, obj.extName} => Recorded(i)'
  BY DEF Recorded, object
<1>6. \A i \in Ids : Holding /\ i = out.id => Recorded(i)'
  BY DEF Holding, Recorded
<1>7. ASSUME Lossless', NEW i \in Ids, NEW p \in Props, jobs[CreateOp(p)].phase = "complete",
             jobs[CreateOp(p)].res.id = i, jobs'[CreateOp(p)] # jobs[CreateOp(p)]
      PROVE  Recorded(i)'
  <2>1. CreateOp(p) \in Ops /\ CreateOp(p).verb = "create"
    BY OpTypes DEF CreateOp
  <2>2. op = CreateOp(p)
    BY <1>7, <2>1 DEF TypeInv, TypeOK
  <2>3. out = jobs[CreateOp(p)].res
    BY <1>3, <1>7, <2>2 DEF RecordInv, OutcomeReports
  <2>4. out.code = "OK" /\ out.id = i
    BY <1>7, <2>1, <2>3, IdAssumption DEF RecordInv, JobsReport
  <2> QED
    BY <1>6, <2>1, <2>2, <2>4 DEF Holding
<1>8. AllRecorded'
  BY <1>5, <1>6, <1>7, RecordsStay
<1> QED
  BY <1>1, <1>2, <1>4, <1>8 DEF RecordInv

\* The object disappears when nothing it names can be lost.
LEMMA ReleaseRecord ==
  ASSUME TypeInv, RecordInv, FinalizerInv, UNCHANGED cloud, pc # "idle", Free, History,
         ReleaseFinalizer, me.orphan \/ st.id = NoId \/ Dead(st.id)
  PROVE  RecordInv'
<1>1. CASE Conflict
  BY <1>1, IdleRecord DEF Conflict, ghosts
<1>2. CASE ~Conflict
  <2>1. /\ Return(FALSE) /\ UNCHANGED <<status, jobs>>
        /\ obj' = [obj EXCEPT !.finalizer = FALSE, !.exists = FALSE]
        /\ me.orphan => {status.id, obj.extName} \cap Ids \subseteq forsaken'
    BY <1>2 DEF ReleaseFinalizer
  <2>2. ~obj'.exists
    BY <2>1 DEF TypeInv, TypeOK, Objects
  <2>3. NameFits'
    BY <2>2 DEF NameFits
  <2>4. Lossless' => Lossless
    BY DEF Lossless, History
  <2>5. ASSUME Lossless', NEW i \in Ids, Live(i), i \notin forsaken', obj.exists,
               i \in {status.id, obj.extName}
        PROVE  FALSE
    <3>1. st.id = status.id /\ ~me.orphan
      BY <2>1, <2>5 DEF FinalizerInv, CopyAgrees
    <3>2. IF status.id = NoId THEN ~Live(obj.extName) \/ obj.extName \in forsaken
          ELSE obj.extName = status.id
      BY <2>4, <2>5 DEF RecordInv, NameFits, Reviving, Free
    <3>3. CASE st.id = NoId
      BY <2>5, <3>1, <3>2, <3>3, IdAssumption DEF History
    <3>4. CASE Dead(st.id)
      <4>1. ~Live(st.id) /\ st.id # NoId
        BY <3>4, DeadNotLive, IdAssumption DEF Dead
      <4> QED
        BY <2>5, <3>1, <3>2, <4>1
    <3> QED
      BY <3>1, <3>3, <3>4
  <2>6. AllRecorded'
    BY <2>1, <2>5, RecordsStay DEF Free
  <2> QED
    BY <2>1, <2>3, <2>6, ReturnRecord
<1> QED
  BY <1>1, <1>2

\* What the reconciler starts before its first operation.
LEMMA StartRecord ==
  ASSUME TypeInv, RecordInv, FinalizerInv, UNCHANGED <<cloud, provider>>, History,
         \/ Get \/ ReconcilePaused \/ DeleteExternal \/ NothingToDelete
         \/ AddFinalizer \/ ValidationFailed \/ AdoptExternal \/ Create
         \/ Patch \/ Refresh
  PROVE  RecordInv'
<1> USE DEF TypeInv
<1>a. pc = "check" => pc # "idle" /\ Free /\ ~Holding /\ pc # "named" /\ ~Under({"retire"})
  BY DEF Free, Holding, Under
<1>1. CASE Get
  <2>1. UNCHANGED <<object, cont, op, out, made, jobs, forsaken>>
    BY <1>1 DEF Get, ghosts
  <2>2. \/ pc' = "check" /\ me' = obj /\ st' = status
        \/ pc' = "idle"
    BY <1>1 DEF Get
  <2>3. pc = "idle"
    BY <1>1 DEF Get
  <2>4. JobsReport' /\ OutcomeReports' /\ OpFits' /\ CopyNamed'
    BY <2>1, <2>2 DEF RecordInv, JobsReport, OutcomeReports, OpFits, CopyNamed, Under, Busy,
                      Dead, object
  <2>5. NameFits'
    BY <2>1, <2>3 DEF RecordInv, NameFits, Reviving, Holding, Under, Live, Lossless, History,
                      object
  <2>6. \A i \in Ids : obj.exists /\ i \in {status.id, obj.extName} => Recorded(i)'
    BY <2>1 DEF Recorded, object
  <2>7. AllRecorded'
    BY <2>1, <2>3, <2>6, RecordsStay DEF Holding
  <2> QED
    BY <2>4, <2>5, <2>7 DEF RecordInv
<1>2. CASE ReconcilePaused \/ ValidationFailed
  BY <1>a, <1>2, FailedRecord DEF ReconcilePaused, ValidationFailed, Checking
<1>3. CASE DeleteExternal
  <2>1. DeleteOp(st.id, deleteState(st.outputs)) \in Ops
    BY <1>3, OpTypes DEF DeleteExternal, TypeOK, Statuses, AnyId
  <2>2. /\ DeleteOp(st.id, deleteState(st.outputs)).id = st.id
        /\ DeleteOp(st.id, deleteState(st.outputs)).verb = "delete"
    BY DEF DeleteOp
  <2> QED
    BY <1>a, <1>3, <2>1, <2>2, RunRecord DEF DeleteExternal, Creates
<1>4. CASE NothingToDelete
  BY <1>a, <1>4, ReleaseRecord DEF NothingToDelete
<1>5. CASE AddFinalizer
  <2>1. CASE Conflict
    BY <1>a, <1>5, <2>1, IdleRecord DEF Conflict, AddFinalizer
  <2>2. CASE ~Conflict
    <3>1. /\ pc = "check" /\ obj' = [obj EXCEPT !.finalizer = TRUE]
          /\ me' = [me EXCEPT !.finalizer = TRUE]
          /\ UNCHANGED <<status, pc, cont, st, op, out, made, jobs, forsaken>>
      BY <1>5, <2>2 DEF AddFinalizer, ghosts
    <3>2. /\ obj'.exists = obj.exists /\ obj'.extName = obj.extName
          /\ me'.extName = me.extName
      BY <3>1 DEF TypeOK, Objects
    <3>3. JobsReport' /\ OutcomeReports' /\ OpFits' /\ CopyNamed'
      BY <3>1, <3>2 DEF RecordInv, JobsReport, OutcomeReports, OpFits, CopyNamed, Under, Busy, Dead
    <3>4. NameFits'
      BY <3>1, <3>2 DEF RecordInv, NameFits, Reviving, Holding, Under, Live, Lossless, History
    <3>5. \A i \in Ids : obj.exists /\ i \in {status.id, obj.extName} => Recorded(i)'
      BY <3>1, <3>2 DEF Recorded
    <3>6. AllRecorded'
      BY <3>1, <3>5, RecordsStay DEF Holding
    <3> QED
      BY <3>3, <3>4, <3>6 DEF RecordInv
  <2> QED
    BY <2>1, <2>2
<1>6. CASE AdoptExternal
  <2>1. ReadOp(me.extName) \in Ops /\ ReadOp(me.extName).verb = "read"
    BY <1>6, OpTypes DEF AdoptExternal, TypeOK, Objects, AnyId, ReadOp
  <2> QED
    BY <1>a, <1>6, <2>1, RunRecord DEF AdoptExternal, Passed, Checking, Creates
<1>7. CASE Create
  <2>1. CreateOp(me.props) \in Ops /\ CreateOp(me.props).verb = "create"
    BY OpTypes DEF TypeOK, Objects, CreateOp
  <2> QED
    BY <1>a, <1>7, <2>1, RunRecord, IdleRecord
       DEF Create, CreateUnlessTerminal, Passed, Checking, ghosts
<1>8. CASE Patch
  <2>1. PatchOp(st.id, me.props) \in Ops /\ PatchOp(st.id, me.props).id = st.id
        /\ PatchOp(st.id, me.props).verb = "patch"
    BY <1>8, OpTypes DEF Patch, TypeOK, Statuses, Objects, AnyId, PatchOp
  <2> QED
    BY <1>a, <1>8, <2>1, RunRecord DEF Patch, Passed, Checking, Creates
<1>9. CASE Refresh
  <2>1. ReadOp(st.id) \in Ops /\ ReadOp(st.id).id = st.id /\ ReadOp(st.id).verb = "read"
    BY <1>9, OpTypes DEF Refresh, TypeOK, Statuses, AnyId, ReadOp
  <2> QED
    BY <1>a, <1>9, <2>1, RunRecord DEF Refresh, Passed, Checking, Creates
<1> QED
  BY <1>1, <1>2, <1>3, <1>4, <1>5, <1>6, <1>7, <1>8, <1>9

\* The report of a create passes to the annotation.
LEMMA NamedRecord ==
  ASSUME TypeInv, RecordInv, FinalizerInv, UNCHANGED cloud, History, PersistExternalName
  PROVE  RecordInv'
<1>1. /\ pc = "handle" /\ cont \in Creates /\ out.code = "OK" /\ pc' = "named"
      /\ UNCHANGED <<status, cont, st, op, out, jobs, forsaken>>
      /\ me' = [me EXCEPT !.extName = out.id]
      /\ made' = [id |-> out.id, state |-> out.state]
      /\ obj' = IF obj.exists THEN [obj EXCEPT !.extName = out.id] ELSE obj
  BY DEF PersistExternalName, Creates, ghosts
<1>2. obj.exists
  BY <1>1 DEF FinalizerInv, CopyAgrees, Busy
<1>3. obj'.exists /\ obj'.extName = out.id /\ me'.extName = out.id /\ made'.id = out.id
  BY <1>1, <1>2 DEF TypeInv, TypeOK, Objects
<1>4. JobsReport' /\ OutcomeReports' /\ OpFits' /\ CopyNamed' /\ NameFits'
  BY <1>1, <1>3 DEF RecordInv, JobsReport, OutcomeReports, OpFits, CopyNamed, NameFits, Under,
                    Busy, Dead
<1>5. Lossless' => Lossless
  BY DEF Lossless, History
<1>6. ASSUME Lossless', NEW i \in Ids, Live(i), i \notin forsaken', i \in {status.id, obj.extName}
      PROVE  i = status.id \/ i = out.id
  BY <1>1, <1>2, <1>5, <1>6, IdAssumption
     DEF RecordInv, NameFits, Reviving, Holding, Under, Creates
<1>7. \A i \in Ids : i = status.id \/ i = out.id => Recorded(i)'
  BY <1>1, <1>3 DEF Recorded
<1>8. AllRecorded'
  BY <1>1, <1>6, <1>7, RecordsStay
<1> QED
  BY <1>4, <1>8 DEF RecordInv

\* markSynced makes the annotation and the status agree; the id the status
\* gives up is gone, or has been given up.
LEMMA SyncedRecord ==
  ASSUME TypeInv, RecordInv, FinalizerInv, UNCHANGED cloud, History, pc \in Busy, ~Holding,
         NEW i, NEW s, markSynced(i, s), i = me.extName,
         i = st.id \/ (Live(st.id) => st.id \in forsaken')
  PROVE  RecordInv'
<1>1. obj.exists /\ obj.extName = i /\ pc # "idle"
  BY DEF FinalizerInv, CopyAgrees, RecordInv, CopyNamed, Busy
<1>2. i = NoId => ~Live(i)
  BY IdAssumption DEF Live
<1> DEFINE t == [id |-> i, outputs |-> IF s = NoProps THEN st.outputs ELSE s,
                 hash |-> me.props, synced |-> "Synced", syncedGen |-> me.gen]
<1>3. persistStatus(t) /\ Return(TRUE) /\ t.id = i
  BY DEF markSynced
<1> HIDE DEF t
<1> QED
  BY <1>1, <1>2, <1>3, PersistRecord

\* How the reconciler goes on once an operation is under way.
LEMMA GoOnRecord ==
  ASSUME TypeInv, RecordInv, FinalizerInv, UNCHANGED <<cloud, provider>>, History,
         \/ Observe \/ JobDisappeared \/ Cleanup \/ AdoptHandled
         \/ PersistExternalName \/ CreateFailed \/ Created \/ PatchHandled
         \/ RefreshHandled \/ SwapCollided \/ ClearHandled \/ RetireOld
         \/ SwapInPlace \/ RetireHandled \/ DeleteHandled
  PROVE  RecordInv'
<1> USE DEF TypeInv
<1>0. pc \in Busy /\ pc # "idle"
  BY DEF Observe, JobDisappeared, Waiting, Cleanup, AdoptHandled,
         PersistExternalName, CreateFailed, Created, PatchHandled,
         RefreshHandled, SwapCollided, ClearHandled, RetireOld, SwapInPlace,
         RetireHandled, DeleteHandled, Handling, Busy
<1>a. /\ cont \in NeedsId => st.id # NoId
      /\ st.id # NoId => /\ DeleteOp(st.id, deleteState(st.outputs)) \in Ops
                         /\ DeleteOp(st.id, deleteState(st.outputs)).id = st.id
                         /\ DeleteOp(st.id, deleteState(st.outputs)).verb = "delete"
      /\ CreateOp(me.props) \in Ops /\ CreateOp(me.props).verb = "create"
  BY <1>0, OpTypes DEF LocalsFit, TypeOK, Statuses, AnyId, Objects, CreateOp, DeleteOp
<1>b. pc = "handle" /\ cont \notin Creates \cup {"none"} => ~Holding
  BY DEF RecordInv, OpFits, Under, Holding, Creates, TypeOK, Conts
<1>c. pc = "handle" /\ cont \notin Creates \cup {"none", "retire"} => Free
  BY <1>b DEF Free, Under
<1>d. pc = "handle" /\ cont \in {"patch", "refresh"} /\ out.code = "NotFound" => Dead(st.id)
  BY DEF RecordInv, OpFits, OutcomeReports, Under
<1>1. CASE Observe
  <2>1. op \in Ops /\ pc = "wait" /\ pc' = "cleanup"
        /\ UNCHANGED <<object, cont, me, st, op, made, jobs, forsaken>>
        /\ jobs[op].phase \in {"complete", "failed"}
        /\ out' = IF jobs[op].phase = "complete" THEN jobs[op].res ELSE NoResult
    BY <1>0, <1>1 DEF Observe, Waiting, LocalsFit, ghosts
  <2>2. OutcomeReports'
    BY <2>1 DEF OutcomeReports, RecordInv, JobsReport, NoResult, Dead
  <2>3. Reviving /\ Live(obj.extName) => Reviving'
    BY <2>1, IdAssumption DEF Reviving, Holding, RecordInv, JobsReport, Live, object
  <2> QED
    BY <2>1, <2>2, <2>3, ObservedRecord
<1>2. CASE JobDisappeared
  <2>1. pc = "wait" /\ pc' = "handle" /\ out' = NoResult
        /\ UNCHANGED <<object, cont, me, st, op, made, jobs, forsaken>>
    BY <1>2 DEF JobDisappeared, Waiting, ghosts
  <2>2. OutcomeReports' /\ ~Reviving
    BY <1>2, <2>1 DEF OutcomeReports, NoResult, JobDisappeared, Reviving, Holding
  <2> QED
    BY <2>1, <2>2, ObservedRecord
<1>3. CASE Cleanup
  BY <1>3, CleanupRecord DEF Cleanup, ghosts
<1>4. CASE AdoptHandled
  <2>1. pc = "handle" /\ cont = "adopt" /\ st.id = NoId /\ Free /\ ~Live(st.id)
    BY <1>0, <1>4, <1>c, IdAssumption DEF AdoptHandled, Handling, RecordInv, OpFits, Live, Creates
  <2>2. CASE CreateUnlessTerminal
    BY <1>0, <1>a, <2>1, <2>2, RunRecord, IdleRecord DEF CreateUnlessTerminal, Free, ghosts
  <2>3. CASE markSynced(me.extName, out.state)
    BY <1>0, <2>1, <2>3, SyncedRecord DEF Free
  <2>4. CASE markSyncFailed("Retrying", TRUE)
    BY <1>0, <2>1, <2>4, FailedRecord
  <2> QED
    BY <1>4, <2>2, <2>3, <2>4 DEF AdoptHandled
<1>5. CASE PersistExternalName
  BY <1>5, NamedRecord
<1>6. CASE CreateFailed
  <2>1. Free
    BY <1>6 DEF CreateFailed, Free, Holding, Under
  <2>2. [st EXCEPT !.synced = "SecretInputInID", !.syncedGen = me.gen].id = st.id
    BY DEF TypeOK, Statuses
  <2> QED
    BY <1>0, <1>6, <2>1, <2>2, SameIdRecord, FailedRecord DEF CreateFailed, persistSyncFailure
<1>7. CASE Created \/ SwapInPlace
  <2>1. ~Holding /\ made.id = me.extName /\ (made.id = st.id \/ ~Live(st.id))
    BY <1>0, <1>7, IdAssumption
       DEF Created, SwapInPlace, Holding, RecordInv, CopyNamed, OpFits, Live
  <2> QED
    BY <1>0, <1>7, <2>1, SyncedRecord DEF Created, SwapInPlace
<1>8. CASE PatchHandled
  <2>1. pc = "handle" /\ cont = "patch" /\ Free /\ st.id # NoId
    BY <1>8, <1>a, <1>c DEF PatchHandled, Handling, Creates, NeedsId
  <2>2. CASE reconcileReplacement
    BY <1>0, <1>a, <2>1, <2>2, FailedRecord, IdleRecord, RunRecord
       DEF reconcileReplacement, Free, ghosts
  <2>3. CASE markSynced(st.id, out.state)
    BY <1>0, <2>1, <2>3, SameIdRecord DEF markSynced
  <2>4. CASE markMissing /\ out.code = "NotFound"
    BY <1>0, <1>d, <2>1, <2>4, MissingRecord
  <2>5. CASE markSyncFailed("Terminal", FALSE) \/ markSyncFailed("Retrying", TRUE)
    BY <1>0, <2>1, <2>5, FailedRecord
  <2> QED
    BY <1>8, <2>2, <2>3, <2>4, <2>5 DEF PatchHandled
<1>9. CASE RefreshHandled
  <2>1. pc = "handle" /\ cont = "refresh" /\ Free
    BY <1>9, <1>c DEF RefreshHandled, Handling, Creates
  <2>2. CASE markSynced(st.id, out.state)
    BY <1>0, <2>1, <2>2, SameIdRecord DEF markSynced
  <2> QED
    BY <1>0, <1>9, <1>d, <2>1, <2>2, MissingRecord, FailedRecord DEF RefreshHandled
<1>10. CASE SwapCollided
  <2>1. ~Holding /\ pc = "handle" /\ cont = "swap"
    BY <1>10 DEF SwapCollided, Handling, Holding
  <2> QED
    BY <1>0, <1>10, <1>a, <2>1, RunRecord DEF SwapCollided, Under, NeedsId, Creates
<1>11. CASE ClearHandled
  <2>1. pc = "handle" /\ cont = "clear" /\ Free
    BY <1>11, <1>c DEF ClearHandled, Handling, Creates
  <2> QED
    BY <1>0, <1>11, <1>a, <2>1, RunRecord, FailedRecord DEF ClearHandled, Free, NeedsId
<1>12. CASE RetireOld
  <2>1. ~Holding /\ made.id = me.extName /\ cont \in NeedsId
    BY <1>12 DEF RetireOld, Holding, RecordInv, CopyNamed, NeedsId
  <2> QED
    BY <1>0, <1>12, <1>a, <2>1, RunRecord DEF RetireOld, Creates
<1>13. CASE RetireHandled
  <2>1. /\ pc = "handle" /\ cont = "retire" /\ markSynced(made.id, made.state)
        /\ out.code \notin {"OK", "NotFound"} => {st.id} \cap Ids \subseteq forsaken'
    BY <1>13 DEF RetireHandled, Handling
  <2>2. ~Holding /\ made.id = me.extName /\ op.verb = "delete" /\ op.id = st.id
    BY <1>b, <2>1 DEF RecordInv, CopyNamed, OpFits, Under, Creates
  <2>3. Live(st.id) => st.id \in forsaken'
    <3>1. CASE out.code \in {"OK", "NotFound"}
      BY <2>1, <2>2, <3>1, DeadNotLive DEF FinalizerInv, OutcomeHonest, Gone
    <3>2. CASE out.code \notin {"OK", "NotFound"}
      BY <2>1, <3>2 DEF Live
    <3> QED
      BY <3>1, <3>2
  <2> QED
    BY <1>0, <2>1, <2>2, <2>3, SyncedRecord
<1>14. CASE DeleteHandled
  <2>1. pc = "handle" /\ cont = "delete" /\ Free
    BY <1>14, <1>c DEF DeleteHandled, Handling, Creates
  <2>2. CASE ReleaseFinalizer /\ out.code \in {"OK", "NotFound"}
    <3>1. Dead(st.id)
      BY <1>0, <2>1, <2>2 DEF FinalizerInv, CopyAgrees, OutcomeHonest, Gone
    <3> QED
      BY <1>0, <2>1, <2>2, <3>1, ReleaseRecord
  <2>3. CASE Return(TRUE) /\ UNCHANGED <<object, jobs, ghosts>>
    BY <2>1, <2>3, IdleRecord
  <2> QED
    BY <1>14, <2>2, <2>3 DEF DeleteHandled
<1> QED
  BY <1>1, <1>2, <1>3, <1>4, <1>5, <1>6, <1>7, <1>8, <1>9, <1>10, <1>11,
     <1>12, <1>13, <1>14

\* The faults of the reconciler: what it held is lost only to a lossy one.
LEMMA DisturbedRecord ==
  ASSUME TypeInv, RecordInv, FinalizerInv, Disturbed, History, AdoptionIsExact'
  PROVE  RecordInv'
<1>1. UNCHANGED <<cloud, provider>>
  BY DEF Disturbed
<1>2. CASE ProfileFails \/ ReferencesFail \/ SchemaUnavailable
  <2>1. pc = "check" /\ Free
    BY <1>2 DEF ProfileFails, ReferencesFail, SchemaUnavailable, Checking, Free, Holding, Under
  <2> QED
    BY <1>1, <1>2, <2>1, FailedRecord DEF ProfileFails, ReferencesFail, SchemaUnavailable
<1>3. CASE ObserveGarbled \/ ObserveUnreadable \/ WaitTimeout
  <2>1. /\ pc = "wait" /\ pc' \in {"cleanup", "handle"} /\ out' = NoResult
        /\ UNCHANGED <<object, forsaken, cont, me, st, op, made, jobs>>
    BY <1>3 DEF ObserveGarbled, ObserveUnreadable, WaitTimeout, Waiting, ghosts
  <2>2. pc' = "cleanup" => ~Lossless'
    BY <1>3 DEF ObserveGarbled, ObserveUnreadable, WaitTimeout, Fault, Lossless, LossyFaults
  <2>3. OutcomeReports'
    BY <2>1, <2>2 DEF OutcomeReports, NoResult
  <2>4. pc' = "handle" => ~provider.clientNamed
    BY <1>1, <1>3 DEF ObserveGarbled, ObserveUnreadable, WaitTimeout, Fault, AdoptionIsExact,
                      StaleFaults
  <2> QED
    BY <1>1, <2>1, <2>2, <2>3, <2>4, ObservedRecord DEF Reviving
<1>4. CASE CleanupFails
  BY <1>1, <1>4, CleanupRecord DEF CleanupFails, ghosts
<1>5. CASE Crash
  <2>1. ~Lossless'
    BY <1>5 DEF Crash, Fault, Lossless, LossyFaults
  <2> QED
    BY <1>1, <1>5, <2>1, IdleRecord DEF Crash
<1> QED
  BY <1>2, <1>3, <1>4, <1>5 DEF Disturbed

-----------------------------------------------------------------------------
(* Records under the steps of the provider and of the user *)

\* The world moves while the object and the reconciler stand still: whatever
\* comes to life is new, and reported or given up.
LEMMA WorldRecord ==
  ASSUME TypeInv, RecordInv, FinalizerInv, UNCHANGED <<provider, object, local>>,
         Grown(cloud') \/ pc = "wait", History, JobsReport',
         Lossless' => \A x \in Ops : jobs[x].phase # "running" => jobs'[x] = jobs[x],
         Lossless' => \A i \in Ids : Live(i)' /\ ~Live(i) =>
           /\ i # obj.extName \/ i \in forsaken' \/ Reviving'
           /\ \/ i \in forsaken'
              \/ \E p \in Props : /\ jobs'[CreateOp(p)].phase = "complete"
                                  /\ jobs'[CreateOp(p)].res.id = i
  PROVE  RecordInv'
<1>1. Lossless' => Lossless
  BY DEF Lossless, History
<1>2. pc # "wait" => \A i : Dead(i) => Dead(i)'
  BY DEF Grown, Dead
<1>o. pc \in {"wait", "cleanup"} => op \in Ops
  BY DEF TypeInv, LocalsFit, Busy
<1>3. OutcomeReports'
  BY <1>1, <1>2, <1>o DEF RecordInv, OutcomeReports, local
<1>4. OpFits' /\ CopyNamed'
  BY DEF RecordInv, OpFits, CopyNamed, Under, object, local
<1>5. NameFits'
  <2>1. UNCHANGED <<obj, status, pc, cont, op, out>>
    BY DEF object, local
  <2>2. Lossless' /\ Reviving => Reviving'
    BY <1>o, <2>1 DEF Reviving, Holding
  <2> DEFINE e == obj.extName
  <2>3. ASSUME Lossless', Live(e)' PROVE Live(e) \/ e \in forsaken' \/ Reviving'
    BY <2>1, <2>3 DEF Live
  <2>4. Live(obj.extName)' => Live(e)'
    BY <2>1 DEF Live
  <2> HIDE DEF e
  <2>5. e = obj.extName
    BY DEF e
  <2> QED
    BY <1>1, <2>1, <2>2, <2>3, <2>4, <2>5 DEF RecordInv, NameFits, Under, History
<1>6. AllRecorded'
  <2> SUFFICES ASSUME Lossless', NEW i \in Ids, Live(i)', i \notin forsaken'
               PROVE  Recorded(i)'
    BY DEF AllRecorded
  <2>1. CASE ~Live(i)
    BY <2>1 DEF Recorded
  <2>2. CASE Live(i)
    <3>1. Recorded(i)
      BY <1>1, <2>2 DEF RecordInv, AllRecorded, History
    <3>2. \A p \in Props : jobs[CreateOp(p)].phase = "complete" =>
            jobs'[CreateOp(p)] = jobs[CreateOp(p)]
      BY OpTypes
    <3> QED
      BY <3>1, <3>2 DEF Recorded, object, local
  <2> QED
    BY <2>1, <2>2
<1> QED
  BY <1>3, <1>4, <1>5, <1>6 DEF RecordInv

\* One Job changes, to one that reports the truth.
LEMMA JobReport ==
  ASSUME TypeInv, RecordInv, NEW o \in Ops, NEW j, jobs' = [jobs EXCEPT ![o] = j],
         Grown(cloud') \/ \A x \in Ops : x # o => jobs[x].phase = "none",
         o.verb # "create" /\ j.phase = "complete" /\ j.res.code = "NotFound"
           => cloud'[o.id] \in {"deleted", "vanished"},
         o.verb = "create" /\ j.res.id # NoId => j.res.code = "OK"
  PROVE  JobsReport'
<1> SUFFICES ASSUME NEW x \in Ops
             PROVE  /\ x.verb # "create" /\ jobs'[x].phase = "complete"
                         /\ jobs'[x].res.code = "NotFound" => Dead(x.id)'
                    /\ x.verb = "create" /\ jobs'[x].res.id # NoId => jobs'[x].res.code = "OK"
  BY DEF JobsReport
<1>1. /\ x # o => jobs'[x] = jobs[x]
      /\ x = o => jobs'[x] = j
  BY DEF TypeInv, TypeOK
<1>2. x # o /\ jobs[x].phase # "none" => \A i : Dead(i) => Dead(i)'
  BY DEF Grown, Dead
<1>3. CASE x = o
  <2>1. o.verb # "create" => o.id \in Ids
    BY OpKinds
  <2> QED
    BY <1>1, <1>3, <2>1 DEF Dead
<1>4. CASE x # o
  BY <1>1, <1>2, <1>4 DEF RecordInv, JobsReport
<1> QED
  BY <1>3, <1>4

\* A Job that runs to its end reports the id it created, and finds nothing
\* only where nothing lives.
LEMMA RunnerRecord ==
  ASSUME TypeInv, RecordInv, FinalizerInv, provider.clientNamed => Alone, Runner, History
  PROVE  RecordInv'
<1>t. TypeOK
  BY DEF TypeInv
<1>1. PICK o \in Ops : JobRuns(o)
  BY DEF Runner
<1> DEFINE j == [phase |-> "complete", res |-> Outcome(o)]
<1>2. /\ CanRun(o) /\ cloud' = CloudAfter(o) /\ UNCHANGED <<provider, object, local>>
      /\ jobs' = [jobs EXCEPT ![o] = j] /\ j.phase = "complete" /\ j.res = Outcome(o)
      /\ Outcome(o).code = "SecretInputInID" => NewId \in forsaken'
      /\ jobs[o].phase = "running"
  BY <1>1 DEF Runner, JobRuns, CanRun
<1> HIDE DEF j
<1>3. /\ provider.clientNamed => /\ pc = "wait" /\ op = o
                                 /\ \A x \in Ops : x # o => jobs[x].phase = "none"
      /\ (provider.clientNamed => o.verb # "create") => Grown(cloud')
  BY <1>t, <1>2, CloudGrows, OnlyJob DEF Grown
<1>4. o.verb # "create" /\ j.res.code = "NotFound" => cloud'[o.id] \in {"deleted", "vanished"}
  <2> SUFFICES ASSUME o.verb # "create", Outcome(o).code = "NotFound"
               PROVE  cloud'[o.id] \in {"deleted", "vanished"}
    BY <1>2
  <2>1. o.id \in Ids /\ ~Live(o.id)
    BY OpKinds DEF Outcome, ReadResult, PatchResult, DeleteResult, Result
  <2>2. Born(o.id) /\ o.id # NoId
    BY <1>2, <2>1, IdAssumption DEF FinalizerInv, JobsHonest
  <2>3. Dead(o.id)
    BY <1>t, <2>1, <2>2 DEF Live, Dead, Born, TypeOK
  <2> QED
    BY <1>3, <2>1, <2>3 DEF Grown
<1>5. o.verb = "create" =>
        /\ o = CreateOp(o.props) /\ o.props \in Props /\ NewId \in Ids
        /\ ~provider.clientNamed => cloud[NewId] = "unborn" /\ ~Collides
        /\ Collides => cloud' = cloud /\ Outcome(o).id = NoId
        /\ ~Collides =>
             /\ cloud' = [cloud EXCEPT ![NewId] = o.props]
             /\ \/ Outcome(o).code = "SecretInputInID" /\ Outcome(o).id = NoId
                \/ Outcome(o).code = "OK" /\ Outcome(o).id = NewId
  <2> SUFFICES ASSUME o.verb = "create"
               PROVE  /\ o = CreateOp(o.props) /\ o.props \in Props /\ NewId \in Ids
                      /\ ~provider.clientNamed => cloud[NewId] = "unborn" /\ ~Collides
                      /\ Collides => cloud' = cloud /\ Outcome(o).id = NoId
                      /\ ~Collides =>
                           /\ cloud' = [cloud EXCEPT ![NewId] = o.props]
                           /\ \/ Outcome(o).code = "SecretInputInID" /\ Outcome(o).id = NoId
                              \/ Outcome(o).code = "OK" /\ Outcome(o).id = NewId
    OBVIOUS
  <2>1. o = CreateOp(o.props) /\ o.props \in Props
    BY OpKinds
  <2>2. NewId \in Ids /\ (~provider.clientNamed => cloud[NewId] = "unborn" /\ ~Collides)
    BY <1>t, <1>2, ProviderTypes DEF Fresh, Collides
  <2>3. Outcome(o) = CreateResult(o)
    BY DEF Outcome
  <2>4. Collides => cloud' = cloud /\ Outcome(o).id = NoId
    BY <1>2, <2>3 DEF CloudAfter, CreateResult, Result
  <2>5. ~Collides => cloud' = [cloud EXCEPT ![NewId] = o.props]
    BY <1>2 DEF CloudAfter
  <2>6. ~Collides => \/ Outcome(o).code = "SecretInputInID" /\ Outcome(o).id = NoId
                     \/ Outcome(o).code = "OK" /\ Outcome(o).id = NewId
    BY <2>3 DEF CreateResult, Result
  <2> QED
    BY <2>1, <2>2, <2>4, <2>5, <2>6
<1>6. JobsReport'
  <2>1. o.verb = "create" /\ j.res.id # NoId => j.res.code = "OK"
    BY <1>2, <1>5
  <2> QED
    BY <1>2, <1>3, <1>4, <2>1, JobReport
<1>7. \A x \in Ops : jobs[x].phase # "running" => jobs'[x] = jobs[x]
  BY <1>t, <1>2 DEF TypeOK
<1>8. ASSUME NEW i \in Ids, Live(i)', ~Live(i)
      PROVE  /\ i # obj.extName \/ i \in forsaken' \/ Reviving'
             /\ \/ i \in forsaken'
                \/ \E p \in Props : /\ jobs'[CreateOp(p)].phase = "complete"
                                    /\ jobs'[CreateOp(p)].res.id = i
  <2>1. CASE o.verb = "create"
    <3>1. ~Collides /\ i = NewId
      BY <1>t, <1>5, <1>8, <2>1 DEF Live, TypeOK
    <3>2. jobs'[o] = j
      BY <1>t, <1>2 DEF TypeOK
    <3>3. CASE Outcome(o).code = "SecretInputInID"
      BY <1>2, <3>1, <3>3
    <3>4. CASE Outcome(o).id = NewId
      <4>1. provider.clientNamed /\ i = obj.extName => Reviving'
        BY <1>2, <1>3, <2>1, <3>1, <3>2, <3>4 DEF Reviving, object, local
      <4>2. ~provider.clientNamed => i # obj.extName
        BY <1>5, <2>1, <3>1, IdAssumption DEF FinalizerInv, KnownBorn, Born
      <4> QED
        BY <1>2, <1>5, <2>1, <3>1, <3>2, <3>4, <4>1, <4>2
    <3> QED
      BY <1>5, <2>1, <3>1, <3>3, <3>4
  <2>2. CASE o.verb # "create"
    <3>1. \/ cloud' = cloud
          \/ cloud' = [cloud EXCEPT ![o.id] = "deleted"]
          \/ cloud' = [cloud EXCEPT ![o.id] = o.props] /\ Live(o.id)
      BY <1>2, <2>2, OpKinds DEF CloudAfter, Outcome, PatchResult, Result
    <3> QED
      BY <1>t, <1>8, <3>1, PropsAssumption DEF Live, TypeOK
  <2> QED
    BY <2>1, <2>2
<1> QED
  BY <1>2, <1>3, <1>6, <1>7, <1>8, WorldRecord

\* Provider errors and drift create nothing; what a lost or expired Job takes
\* with it is excepted.
LEMMA EnvironmentRecord ==
  ASSUME TypeInv, RecordInv, FinalizerInv, provider.clientNamed => Alone, Environment,
         History
  PROVE  RecordInv'
<1>t. TypeOK
  BY DEF TypeInv
<1>1. Grown(cloud)
  BY DEF Grown, Dead
<1>2. /\ NoResult.id = NoId /\ NoResult.code # "NotFound"
      /\ NoJob.phase = "none" /\ NoJob.res = NoResult
  BY DEF NoResult, NoJob
<1>3. ASSUME NEW o \in Ops, JobErrs(o)
      PROVE  RecordInv'
  <2> DEFINE j == [phase |-> "complete", res |-> NoResult]
  <2>1. /\ jobs' = [jobs EXCEPT ![o] = j] /\ j.res = NoResult
        /\ UNCHANGED <<provider, object, local, cloud>> /\ jobs[o].phase = "running"
    BY <1>3 DEF JobErrs, Environment
  <2> HIDE DEF j
  <2>2. JobsReport' /\ Grown(cloud')
    BY <1>1, <1>2, <2>1, JobReport
  <2>3. \A x \in Ops : jobs[x].phase # "running" => jobs'[x] = jobs[x]
    BY <1>t, <2>1 DEF TypeOK
  <2>4. \A i \in Ids : Live(i)' => Live(i)
    BY <2>1 DEF Live
  <2> QED
    BY <2>1, <2>2, <2>3, <2>4, WorldRecord
<1>4. ASSUME NEW o \in Ops, JobLost(o) \/ JobExpires(o)
      PROVE  RecordInv'
  <2>1. PICK j : /\ jobs' = [jobs EXCEPT ![o] = j]
                 /\ j.phase # "complete" /\ j.res = NoResult
    BY <1>2, <1>4 DEF JobLost, JobExpires
  <2>2. /\ UNCHANGED <<provider, object, local>>
        /\ \/ Grown(cloud')
           \/ pc = "wait" /\ \A x \in Ops : x # o => jobs[x].phase = "none"
    BY <1>t, <1>1, <1>4, CloudGrows, OnlyJob
       DEF Environment, JobLost, JobExpires, CanRun, Grown
  <2>3. ~Lossless'
    BY <1>4 DEF JobLost, JobExpires, Fault, Lossless, LossyFaults
  <2>4. JobsReport'
    BY <1>2, <2>1, <2>2, JobReport
  <2> QED
    BY <2>2, <2>3, <2>4, WorldRecord
<1>5. ASSUME NEW i \in Ids, Vanish(i)
      PROVE  RecordInv'
  <2>1. /\ cloud' = [cloud EXCEPT ![i] = "vanished"]
        /\ UNCHANGED <<provider, object, local, jobs>>
    BY <1>5 DEF Vanish, Environment
  <2>2. Grown(cloud')
    BY <1>t, <2>1 DEF Grown, Dead, TypeOK
  <2>3. \A k : Dead(k) => Dead(k)'
    BY <2>2 DEF Grown, Dead
  <2>4. JobsReport'
    BY <2>1, <2>3 DEF RecordInv, JobsReport
  <2>5. \A k \in Ids : Live(k)' => Live(k)
    BY <1>t, <2>1, PropsAssumption DEF Live, TypeOK
  <2> QED
    BY <2>1, <2>2, <2>4, <2>5, WorldRecord
<1> QED
  BY <1>3, <1>4, <1>5 DEF Environment

\* The user renames nothing; what goes at once had no finalizer, and nothing
\* had been created for it.
LEMMA UserRecord ==
  ASSUME TypeInv, RecordInv, FinalizerInv, User, History
  PROVE  RecordInv'
<1>t. TypeOK
  BY DEF TypeInv
<1>1. UNCHANGED <<status, local, jobs, cloud, provider, forsaken, seen>>
  BY DEF User, Wake, object, fault
<1>2. /\ obj.exists /\ obj'.extName = obj.extName
      /\ obj'.exists \/ ~obj.finalizer
  <2>1. CASE \E p \in Props : EditProps(p)
    BY <1>t, <2>1 DEF EditProps, UserWrites, TypeOK, Objects
  <2>2. CASE EditPolicy \/ TogglePause \/ Approve
    BY <1>t, <2>2 DEF EditPolicy, TogglePause, Approve, UserWrites, TypeOK, Objects
  <2>3. CASE Delete
    BY <1>t, <2>3 DEF Delete, UserWrites, TypeOK, Objects
  <2>4. CASE Wake
    BY <2>4 DEF Wake, object
  <2> QED
    BY <2>1, <2>2, <2>3, <2>4 DEF User
<1>3. JobsReport' /\ OutcomeReports' /\ OpFits' /\ CopyNamed' /\ NameFits'
  BY <1>1, <1>2 DEF RecordInv, JobsReport, OutcomeReports, OpFits, CopyNamed, NameFits, Under,
                    Reviving, Holding, Dead, Live, Lossless, local
<1>4. ASSUME Lossless', NEW i \in Ids, Live(i), i \notin forsaken', obj.exists,
             i \in {status.id, obj.extName}
      PROVE  Recorded(i)'
  <2>1. CASE obj'.exists
    BY <1>1, <1>2, <1>4, <2>1 DEF Recorded
  <2>2. CASE ~obj'.exists
    <3>1. status.id = NoId
      BY <1>2, <2>2 DEF FinalizerInv, FinalizerGuards
    <3>2. pc # "named" /\ ~Under({"retire"}) /\ ~Reviving
      BY <1>2, <2>2 DEF FinalizerInv, CopyAgrees, Busy, Under, Reviving, Holding
    <3>3. ~Live(obj.extName) \/ obj.extName \in forsaken
      BY <1>1, <1>4, <3>1, <3>2 DEF RecordInv, NameFits, Lossless
    <3> QED
      BY <1>1, <1>4, <3>1, <3>3, IdAssumption
  <2> QED
    BY <2>1, <2>2
<1>5. \A i \in Ids : Holding /\ i = out.id => Recorded(i)'
  BY <1>1 DEF Holding, Recorded, local
<1>6. AllRecorded'
  BY <1>1, <1>4, <1>5, RecordsStay
<1> QED
  BY <1>3, <1>6 DEF RecordInv

FullInv == Inv /\ (AdoptionIsExact => RecordInv)

\* A new object has lost nothing: an imported resource is not doplane's own
\* until it is adopted.
LEMMA RecordInit == Init => FullInv
<1> SUFFICES ASSUME Init PROVE RecordInv
  BY FinalizerInit DEF FullInv
<1>1. PICK p \in Props, q \in Props, prot \in BOOLEAN, imp \in Imports :
        /\ obj = NewObject(p, prot, IF imp = "none" THEN NoId ELSE ImportId)
        /\ forsaken = IF imp = "live" THEN {ImportId} ELSE {}
        /\ cloud = [i \in Ids |->
             IF i # ImportId \/ imp = "none" THEN "unborn"
             ELSE IF imp = "live" THEN q ELSE "vanished"]
  BY DEF Init
<1>2. \A i \in Ids : Live(i) => i \in forsaken
  BY <1>1, PropsAssumption DEF Live
<1>3. NameFits /\ AllRecorded
  BY <1>2 DEF Init, NameFits, AllRecorded, NewStatus, Live
<1>4. JobsReport
  BY DEF Init, JobsReport, NoJob, NoResult
<1>5. OutcomeReports /\ OpFits /\ CopyNamed
  BY DEF Init, OutcomeReports, OpFits, CopyNamed, Under, Busy
<1> QED
  BY <1>3, <1>4, <1>5 DEF RecordInv

\* Every step of the system preserves the records.
LEMMA RecordStep == FullInv /\ [Next]_vars => FullInv'
<1> SUFFICES ASSUME FullInv, [Next]_vars PROVE FullInv'
  OBVIOUS
<1>1. Inv /\ Inv' /\ History
  BY FinalizerStep, HistoryGrows DEF FullInv
<1>2. provider' = provider
  BY DEF Next, Reconcile, Disturbed, Runner, Environment, User, vars
<1>a. AdoptionIsExact' => AdoptionIsExact
  BY <1>1, <1>2 DEF AdoptionIsExact, History
<1> SUFFICES ASSUME AdoptionIsExact', TypeInv, FinalizerInv, provider.clientNamed => Alone,
                    RecordInv
             PROVE  RecordInv'
  BY <1>1, <1>a DEF FullInv, Inv
<1>3. CASE Reconcile
  BY <1>1, <1>2, <1>3, StartRecord, GoOnRecord DEF Reconcile, Quiet
<1>4. CASE Disturbed
  BY <1>1, <1>4, DisturbedRecord
<1>5. CASE Runner
  BY <1>1, <1>5, RunnerRecord
<1>6. CASE Environment
  BY <1>1, <1>6, EnvironmentRecord
<1>7. CASE User
  BY <1>1, <1>7, UserRecord
<1>8. CASE UNCHANGED vars
  <2>1. UNCHANGED <<provider, object, local, jobs, cloud>> /\ \A i : Live(i)' => Live(i)
    BY <1>8 DEF vars, Live
  <2>2. Grown(cloud') /\ JobsReport'
    BY <2>1 DEF Grown, RecordInv, JobsReport, Dead
  <2> QED
    BY <1>1, <2>1, <2>2, WorldRecord
<1> QED
  BY <1>3, <1>4, <1>5, <1>6, <1>7, <1>8 DEF Next

\* Every live external resource doplane created is named by a record a later
\* reconcile can act on, or was given up with a condition or an event, until a
\* fault has destroyed the result of a mutation: whatever timeouts, unreadable
\* logs, failed cleanups, provider errors, drift and edits interrupt creates,
\* swaps and deletes.  For a name the client chose the first three are excepted:
\* they leave a Job behind, and its report may be about an earlier resource.
THEOREM RecordedTheorem == Spec => []EveryResourceRecorded
<1>1. Spec => []FullInv
  BY RecordInit, RecordStep, PTL DEF Spec
<1>2. FullInv => EveryResourceRecorded
  BY DEF FullInv, RecordInv, AllRecorded, Lossless, EveryResourceRecorded
<1> QED
  BY <1>1, <1>2, PTL

-----------------------------------------------------------------------------
(***************************************************************************)
(* AppliedHashIsApplied.  Without faults that leave Jobs behind there is   *)
(* one Job at most, the one the reconciler waits for, so between two       *)
(* reconciles the resource in status.id has the properties of the recorded *)
(* hash: a patch or a create changes them and the hash follows before the  *)
(* reconcile ends.  A new resource is reached through the annotation: if   *)
(* there is no id in the status, what the annotation names is not live,    *)
(* so that the read that precedes a create never adopts it.                *)
(***************************************************************************)

\* No fault so far leaves a Job behind or takes its result away.
Benign == seen \subseteq {"drift", "provider"} \cup GateFaults

\* A client-chosen name never embeds a secret; nothing live is imported.
Plain == "live" \notin Imports /\ (provider.clientNamed => SecretIds = {})

\* The answer to the operation under way, once there is one.
Answered == (pc = "wait" /\ jobs[op].phase = "complete") \/ pc \in {"cleanup", "handle"}
Answer == IF pc = "wait" THEN jobs[op].res ELSE out
Answers(c, code) == Under(c) /\ Answered /\ Answer.code = code

Patched == Answers({"patch"}, "OK")
Swapping == Answers(Creates, "OK") \/ pc = "named" \/ Under({"retire"})
NewOne == IF Under(Creates) THEN Answer.id ELSE made.id

Working ==
  /\ pc # "idle" => st = status /\ (obj.exists => me.extName = obj.extName)
  /\ ~Under({"none"})
  /\ Under(Creates) => op = CreateOp(me.props)
  /\ Under({"patch"}) => op = PatchOp(st.id, me.props)
  /\ Under({"refresh"}) => op = ReadOp(st.id) /\ st.hash = me.props
  /\ Under({"adopt"}) => op.verb = "read" /\ st.id = NoId
  /\ Under({"clear", "retire", "delete"}) => op.verb = "delete" /\ op.id = st.id
  /\ Under({"retire"}) => made.id # st.id
  /\ pc = "named" \/ Under({"retire"}) => made.id = me.extName

AtRest ==
  /\ Live(status.id) => cloud[status.id] = status.hash
  /\ IF status.id = NoId THEN ~Live(obj.extName) ELSE obj.extName = status.id

Truthful ==
  /\ ~Patched /\ ~Swapping => AtRest
  /\ Patched => /\ Live(st.id) => cloud[st.id] = me.props
                /\ obj.extName = st.id
  /\ Swapping /\ Live(NewOne) => cloud[NewOne] = me.props
  /\ Answers({"patch", "refresh"}, "NotFound") => ~Live(st.id)

AppliedInv == Alone /\ Working /\ (obj.exists => Truthful)

\* Before an operation nothing is patched or swapped.
LEMMA CheckRests ==
  ASSUME pc \in {"idle", "check"}
  PROVE  ~Patched /\ ~Swapping
BY DEF Patched, Swapping, Answers, Under

\* A reconcile that returns, having left a true record.
LEMMA ReturnApplied ==
  ASSUME AppliedInv, pc \notin {"wait", "cleanup"}, NEW b, Return(b),
         UNCHANGED <<cloud, jobs>>, obj'.exists => AtRest'
  PROVE  AppliedInv'
<1>1. Alone' /\ Working'
  BY DEF AppliedInv, Alone, Working, Return, Under
<1>2. obj'.exists => Truthful'
  BY DEF Return, Truthful, Patched, Swapping, Answers, Under
<1> QED
  BY <1>1, <1>2 DEF AppliedInv

\* It writes a true status and returns.
LEMMA PersistApplied ==
  ASSUME AppliedInv, pc \notin {"wait", "cleanup"}, UNCHANGED cloud, NEW b, Return(b),
         NEW s, persistStatus(s),
         obj.exists => /\ Live(s.id) => cloud[s.id] = s.hash
                       /\ IF s.id = NoId THEN ~Live(obj.extName) ELSE obj.extName = s.id
  PROVE  AppliedInv'
<1>1. obj' = obj /\ jobs' = jobs /\ (obj.exists => status' = s)
  BY DEF persistStatus
<1>2. obj'.exists => AtRest'
  BY <1>1 DEF AtRest, Live
<1> QED
  BY <1>1, <1>2, ReturnApplied

\* It returns without having written anything.
LEMMA IdleApplied ==
  ASSUME AppliedInv, pc \notin {"wait", "cleanup"}, UNCHANGED <<cloud, jobs, object>>,
         NEW b, Return(b), ~Patched, ~Swapping
  PROVE  AppliedInv'
<1>1. obj'.exists => AtRest'
  BY DEF AppliedInv, Truthful, AtRest, Live, object
<1> QED
  BY <1>1, ReturnApplied

\* It writes back the id and the hash it read.
LEMMA SameApplied ==
  ASSUME AppliedInv, pc \notin {"idle", "wait", "cleanup"}, UNCHANGED cloud,
         NEW b, Return(b), ~Patched, ~Swapping,
         NEW s, persistStatus(s), s.id = st.id, s.hash = st.hash
  PROVE  AppliedInv'
<1>1. st = status
  BY DEF AppliedInv, Working
<1> QED
  BY <1>1, PersistApplied DEF AppliedInv, Truthful, AtRest

\* So does markSyncFailed.
LEMMA FailedApplied ==
  ASSUME TypeInv, AppliedInv, pc \notin {"idle", "wait", "cleanup"}, UNCHANGED cloud,
         NEW r, NEW b, markSyncFailed(r, b), ~Patched, ~Swapping
  PROVE  AppliedInv'
<1> DEFINE s == [st EXCEPT !.synced = r, !.syncedGen = me.gen]
<1>1. s.id = st.id /\ s.hash = st.hash
  BY DEF TypeInv, TypeOK, Statuses
<1>2. persistStatus(s) /\ Return(b)
  BY DEF markSyncFailed, persistSyncFailure
<1> HIDE DEF s
<1> QED
  BY <1>1, <1>2, SameApplied

\* A resource found gone is forgotten, under both its names.
LEMMA MissingApplied ==
  ASSUME TypeInv, AppliedInv, pc \notin {"idle", "wait", "cleanup"}, UNCHANGED cloud,
         markMissing, ~Patched, ~Swapping, Answers({"patch", "refresh"}, "NotFound")
  PROVE  AppliedInv'
<1> DEFINE s == [st EXCEPT !.id = NoId, !.outputs = NoProps, !.hash = NoProps]
<1>1. s.id = NoId
  BY DEF TypeInv, TypeOK, Statuses
<1>2. persistStatus(s) /\ Return(TRUE)
  BY DEF markMissing
<1> HIDE DEF s
<1>3. obj.exists => ~Live(obj.extName)
  BY DEF AppliedInv, Working, Truthful, AtRest
<1>4. ~Live(s.id)
  BY <1>1, IdAssumption DEF Live
<1> QED
  BY <1>1, <1>2, <1>3, <1>4, PersistApplied

\* markSynced records the hash of the properties the resource has.
LEMMA SyncedApplied ==
  ASSUME AppliedInv, pc \notin {"wait", "cleanup"}, UNCHANGED cloud,
         NEW i, NEW s, markSynced(i, s),
         obj.exists => /\ Live(i) => cloud[i] = me.props
                       /\ IF i = NoId THEN ~Live(obj.extName) ELSE obj.extName = i
  PROVE  AppliedInv'
<1> DEFINE t == [id |-> i, outputs |-> IF s = NoProps THEN st.outputs ELSE s,
                 hash |-> me.props, synced |-> "Synced", syncedGen |-> me.gen]
<1>1. persistStatus(t) /\ Return(TRUE) /\ t.id = i /\ t.hash = me.props
  BY DEF markSynced
<1> HIDE DEF t
<1> QED
  BY <1>1, PersistApplied

\* It starts an operation on what it read.
LEMMA RunApplied ==
  ASSUME TypeInv, AppliedInv, pc \notin {"idle", "wait", "cleanup"}, UNCHANGED cloud,
         NEW o \in Ops, NEW c \in Conts \ {"none"}, RunOp(o, c),
         c # "retire" => ~Patched /\ ~Swapping,
         c \in Creates => o = CreateOp(me.props),
         c = "patch" => o = PatchOp(st.id, me.props),
         c = "refresh" => o = ReadOp(st.id) /\ st.hash = me.props,
         c = "adopt" => o.verb = "read" /\ st.id = NoId,
         c \in {"clear", "retire", "delete"} => o.verb = "delete" /\ o.id = st.id,
         c = "retire" => pc = "named" /\ made.id # st.id
  PROVE  AppliedInv'
<1>1. /\ op' = o /\ cont' = c /\ pc' = "wait"
      /\ UNCHANGED <<obj, status, me, st, out, made>>
  BY DEF RunOp, object
<1>2. \A x \in Ops : jobs[x].phase = "none"
  BY DEF AppliedInv, Alone
<1>3. jobs' = [jobs EXCEPT ![o] = [phase |-> "running", res |-> NoResult]]
  BY <1>2 DEF RunOp, ensureJob, TypeInv, TypeOK
<1>4. Alone' /\ jobs'[o].phase = "running"
  BY <1>1, <1>2, <1>3 DEF Alone, TypeInv, TypeOK
<1>5. Working'
  BY <1>1 DEF AppliedInv, Working, Under, Creates
<1>6. ~Patched' /\ ~Answers(Creates, "OK")' /\ ~Answers({"patch", "refresh"}, "NotFound")'
  BY <1>1, <1>4 DEF Patched, Answers, Answered
<1>7. ASSUME obj.exists PROVE Truthful'
  <2>1. CASE c = "retire"
    <3>1. Swapping' /\ NewOne' = made.id
      BY <1>1, <2>1 DEF Swapping, Under, NewOne, Creates
    <3>2. Swapping /\ NewOne = made.id
      BY <2>1 DEF Swapping, Under, NewOne
    <3> QED
      BY <1>1, <1>6, <1>7, <3>1, <3>2 DEF AppliedInv, Truthful, Live
  <2>2. CASE c # "retire"
    <3>1. ~Swapping'
      BY <1>1, <1>6, <2>2 DEF Swapping, Under
    <3>2. AtRest'
      BY <1>1, <1>7, <2>2 DEF AppliedInv, Truthful, AtRest, Live
    <3> QED
      BY <1>6, <3>1, <3>2 DEF Truthful
  <2> QED
    BY <2>1, <2>2
<1> QED
  BY <1>1, <1>4, <1>5, <1>7 DEF AppliedInv

\* What the reconciler starts before its first operation.
LEMMA StartApplied ==
  ASSUME TypeInv, AppliedInv, UNCHANGED cloud,
         \/ Get \/ ReconcilePaused \/ DeleteExternal \/ NothingToDelete
         \/ AddFinalizer \/ ValidationFailed \/ AdoptExternal \/ Create
         \/ Patch \/ Refresh
  PROVE  AppliedInv'
<1> USE DEF TypeInv
<1>a. pc \in {"idle", "check"} => ~Patched /\ ~Swapping
  BY CheckRests
<1>1. CASE Get
  <2>1. UNCHANGED <<object, jobs>> /\ pc = "idle"
    BY <1>1 DEF Get
  <2>2. \/ pc' = "check" /\ me' = obj /\ st' = status
        \/ pc' = "idle"
    BY <1>1 DEF Get
  <2>3. Alone' /\ Working'
    BY <2>1, <2>2 DEF AppliedInv, Alone, Working, Under, object
  <2>4. ~Patched' /\ ~Swapping' /\ ~Answers({"patch", "refresh"}, "NotFound")'
    BY <2>2 DEF Patched, Swapping, Answers, Under
  <2>5. obj'.exists => AtRest'
    BY <1>a, <2>1 DEF AppliedInv, Truthful, AtRest, Live, object
  <2> QED
    BY <2>3, <2>4, <2>5 DEF AppliedInv, Truthful
<1>2. CASE ReconcilePaused \/ ValidationFailed
  BY <1>a, <1>2, FailedApplied DEF ReconcilePaused, ValidationFailed, Checking
<1>3. CASE DeleteExternal
  <2>1. DeleteOp(st.id, deleteState(st.outputs)) \in Ops
    BY <1>3, OpTypes DEF DeleteExternal, TypeOK, Statuses, AnyId
  <2>2. /\ DeleteOp(st.id, deleteState(st.outputs)).id = st.id
        /\ DeleteOp(st.id, deleteState(st.outputs)).verb = "delete"
    BY DEF DeleteOp
  <2> QED
    BY <1>a, <1>3, <2>1, <2>2, RunApplied DEF DeleteExternal, Creates, Conts
<1>4. CASE NothingToDelete
  <2>1. CASE Conflict
    BY <1>a, <1>4, <2>1, IdleApplied DEF Conflict, NothingToDelete
  <2>2. CASE ~Conflict
    <3>1. ~obj'.exists /\ Return(FALSE) /\ jobs' = jobs /\ pc = "check"
      BY <1>4, <2>2 DEF NothingToDelete, ReleaseFinalizer, TypeOK, Objects
    <3> QED
      BY <3>1, ReturnApplied
  <2> QED
    BY <2>1, <2>2
<1>5. CASE AddFinalizer
  <2>1. CASE Conflict
    BY <1>a, <1>5, <2>1, IdleApplied DEF Conflict, AddFinalizer
  <2>2. CASE ~Conflict
    <3>1. /\ pc = "check" /\ obj' = [obj EXCEPT !.finalizer = TRUE]
          /\ me' = [me EXCEPT !.finalizer = TRUE]
          /\ UNCHANGED <<status, pc, cont, st, op, out, made, jobs>>
      BY <1>5, <2>2 DEF AddFinalizer
    <3>2. /\ obj'.exists = obj.exists /\ obj'.extName = obj.extName
          /\ me'.extName = me.extName
      BY <3>1 DEF TypeOK, Objects
    <3>3. Alone' /\ Working'
      BY <3>1, <3>2 DEF AppliedInv, Alone, Working, Under
    <3>4. ~Patched' /\ ~Swapping' /\ ~Answers({"patch", "refresh"}, "NotFound")'
      BY <3>1 DEF Patched, Swapping, Answers, Under
    <3>5. obj'.exists => AtRest'
      BY <1>a, <3>1, <3>2 DEF AppliedInv, Truthful, AtRest, Live
    <3> QED
      BY <3>3, <3>4, <3>5 DEF AppliedInv, Truthful
  <2> QED
    BY <2>1, <2>2
<1>6. CASE AdoptExternal
  <2>1. ReadOp(me.extName) \in Ops /\ ReadOp(me.extName).verb = "read"
    BY <1>6, OpTypes DEF AdoptExternal, TypeOK, Objects, AnyId, ReadOp
  <2> QED
    BY <1>a, <1>6, <2>1, RunApplied DEF AdoptExternal, Passed, Checking, Creates, Conts
<1>7. CASE Create
  <2>1. CreateOp(me.props) \in Ops
    BY OpTypes DEF TypeOK, Objects
  <2> QED
    BY <1>a, <1>7, <2>1, RunApplied, IdleApplied
       DEF Create, CreateUnlessTerminal, Passed, Checking, Conts
<1>8. CASE Patch
  <2>1. PatchOp(st.id, me.props) \in Ops
    BY <1>8, OpTypes DEF Patch, TypeOK, Statuses, Objects, AnyId
  <2> QED
    BY <1>a, <1>8, <2>1, RunApplied DEF Patch, Passed, Checking, Creates, Conts
<1>9. CASE Refresh
  <2>1. ReadOp(st.id) \in Ops
    BY <1>9, OpTypes DEF Refresh, TypeOK, Statuses, AnyId
  <2> QED
    BY <1>a, <1>9, <2>1, RunApplied DEF Refresh, Passed, Checking, Creates, Conts
<1> QED
  BY <1>1, <1>2, <1>3, <1>4, <1>5, <1>6, <1>7, <1>8, <1>9

\* The answer passes from the Job to the reconciler, and the Job goes.
LEMMA PassedOn ==
  ASSUME AppliedInv, pc \in {"wait", "cleanup"}, pc' \in {"cleanup", "handle"},
         UNCHANGED <<cloud, object, cont, me, st, op, made>>, Alone',
         IF Answered THEN out' = Answer ELSE out'.code = "Error"
  PROVE  AppliedInv'
<1>1. Working'
  BY DEF AppliedInv, Working, Under, object
<1>2. Answer' = out' /\ Answered'
  BY DEF Answer, Answered
<1>3. \A c, k : k # "Error" => (Answers(c, k)' <=> Answers(c, k))
  BY <1>2 DEF Answers, Answered, Under
<1>4. (Patched' <=> Patched) /\ (Swapping' <=> Swapping)
  BY <1>3 DEF Patched, Swapping, Under
<1>5. ASSUME Swapping, Live(NewOne)' PROVE Live(NewOne) /\ NewOne' = NewOne
  <2>1. NewOne' = NewOne
    BY <1>2, <1>5 DEF NewOne, Swapping, Answers, Under, Creates
  <2> QED
    BY <1>5, <2>1 DEF Live
<1>6. AtRest => AtRest'
  BY DEF AtRest, Live, object
<1>7. obj.exists => Truthful'
  BY <1>3, <1>4, <1>5, <1>6 DEF AppliedInv, Truthful, Live, object
<1> QED
  BY <1>1, <1>7 DEF AppliedInv, object

\* How the reconciler goes on once an operation is under way.
LEMMA GoOnApplied ==
  ASSUME TypeInv, AppliedInv, UNCHANGED cloud,
         \/ Observe \/ JobDisappeared \/ Cleanup \/ AdoptHandled
         \/ PersistExternalName \/ CreateFailed \/ Created \/ PatchHandled
         \/ RefreshHandled \/ SwapCollided \/ ClearHandled \/ RetireOld
         \/ SwapInPlace \/ RetireHandled \/ DeleteHandled
  PROVE  AppliedInv'
<1> USE DEF TypeInv
<1>a. /\ pc \in Busy /\ cont \in NeedsId => st.id # NoId
      /\ st.id # NoId => /\ DeleteOp(st.id, deleteState(st.outputs)) \in Ops
                         /\ DeleteOp(st.id, deleteState(st.outputs)).id = st.id
                         /\ DeleteOp(st.id, deleteState(st.outputs)).verb = "delete"
      /\ CreateOp(me.props) \in Ops
  BY OpTypes DEF LocalsFit, TypeOK, Statuses, AnyId, Objects, DeleteOp
<1>b. pc = "handle" => /\ \A c, k : Answers(c, k) <=> cont \in c /\ out.code = k
                       /\ Answer = out
  BY DEF Answers, Answered, Answer, Under
<1>c. pc = "handle" =>
        /\ Patched <=> cont = "patch" /\ out.code = "OK"
        /\ Swapping <=> (cont \in Creates /\ out.code = "OK") \/ cont = "retire"
        /\ cont \in Creates => NewOne = out.id
        /\ cont = "retire" => NewOne = made.id
  BY <1>b DEF Patched, Swapping, NewOne, Under, Creates
<1>d. pc = "handle" => cont # "none"
  BY DEF AppliedInv, Working, Under
<1>1. CASE Observe
  <2>1. /\ pc = "wait" /\ pc' = "cleanup" /\ jobs[op].phase \in {"complete", "failed"}
        /\ UNCHANGED <<object, cont, me, st, op, made, jobs>>
        /\ out' = IF jobs[op].phase = "complete" THEN jobs[op].res ELSE NoResult
    BY <1>1 DEF Observe, Waiting
  <2>2. Alone'
    BY <2>1 DEF AppliedInv, Alone
  <2>3. IF Answered THEN out' = Answer ELSE out'.code = "Error"
    BY <2>1 DEF Answered, Answer, NoResult
  <2> QED
    BY <2>1, <2>2, <2>3, PassedOn
<1>2. CASE JobDisappeared
  <2>1. /\ pc = "wait" /\ pc' = "handle" /\ jobs[op].phase = "none" /\ out' = NoResult
        /\ UNCHANGED <<object, cont, me, st, op, made, jobs>>
    BY <1>2 DEF JobDisappeared, Waiting
  <2>2. Alone'
    BY <2>1 DEF AppliedInv, Alone
  <2>3. out'.code = "Error" /\ ~Answered
    BY <2>1 DEF Answered, NoResult
  <2> QED
    BY <2>1, <2>2, <2>3, PassedOn
<1>3. CASE Cleanup
  <2>1. /\ pc = "cleanup" /\ pc' = "handle" /\ jobs' = [jobs EXCEPT ![op] = NoJob]
        /\ UNCHANGED <<object, cont, me, st, op, out, made>>
    BY <1>3 DEF Cleanup
  <2>2. Alone'
    BY <2>1 DEF AppliedInv, Alone, TypeOK, NoJob
  <2>3. Answered /\ out' = Answer
    BY <2>1 DEF Answered, Answer
  <2> QED
    BY <2>1, <2>2, <2>3, PassedOn
<1>4. CASE AdoptHandled
  <2>1. pc = "handle" /\ cont = "adopt" /\ st.id = NoId /\ ~Patched /\ ~Swapping
    BY <1>4, <1>c DEF AdoptHandled, Handling, AppliedInv, Working, Under, Creates
  <2>2. CASE CreateUnlessTerminal
    BY <1>a, <2>1, <2>2, RunApplied, IdleApplied DEF CreateUnlessTerminal, Conts
  <2>3. CASE markSynced(me.extName, out.state)
    <3>1. obj.exists => ~Live(me.extName) /\ me.extName = obj.extName
      BY <2>1 DEF AppliedInv, Working, Truthful, AtRest
    <3> QED
      BY <2>1, <2>3, <3>1, SyncedApplied
  <2>4. CASE markSyncFailed("Retrying", TRUE)
    BY <2>1, <2>4, FailedApplied
  <2> QED
    BY <1>4, <2>2, <2>3, <2>4 DEF AdoptHandled
<1>5. CASE PersistExternalName
  <2>1. /\ pc = "handle" /\ cont \in Creates /\ out.code = "OK" /\ pc' = "named"
        /\ UNCHANGED <<status, cont, st, op, out, jobs>>
        /\ made' = [id |-> out.id, state |-> out.state]
    BY <1>5 DEF PersistExternalName, Creates
  <2>2. /\ me'.extName = out.id /\ obj'.exists = obj.exists
        /\ obj.exists => obj'.extName = out.id
    BY <1>5 DEF PersistExternalName, TypeOK, Objects
  <2>3. Alone'
    BY <2>1 DEF AppliedInv, Alone
  <2>4. Working'
    BY <2>1, <2>2 DEF AppliedInv, Working, Under
  <2>5. ~Patched' /\ ~Answers({"patch", "refresh"}, "NotFound")' /\ Swapping' /\ NewOne' = out.id
    BY <2>1 DEF Patched, Answers, Under, Swapping, NewOne
  <2>6. ASSUME obj.exists, Live(out.id) PROVE cloud[out.id] = me.props
    BY <1>c, <2>1, <2>6 DEF AppliedInv, Truthful
  <2>7. me'.props = me.props
    BY <1>5 DEF PersistExternalName, TypeOK, Objects
  <2>8. obj'.exists => Truthful'
    BY <2>2, <2>5, <2>6, <2>7 DEF Truthful, Live
  <2> QED
    BY <2>3, <2>4, <2>8 DEF AppliedInv
<1>6. CASE CreateFailed
  <2>1. pc = "handle" /\ ~Patched /\ ~Swapping
    BY <1>6, <1>c DEF CreateFailed
  <2> DEFINE s == [st EXCEPT !.synced = "SecretInputInID", !.syncedGen = me.gen]
  <2>2. s.id = st.id /\ s.hash = st.hash
    BY DEF TypeOK, Statuses
  <2>3. \/ persistStatus(s) /\ Return(FALSE)
        \/ markSyncFailed("Retrying", TRUE)
    BY <1>6 DEF CreateFailed, persistSyncFailure
  <2> HIDE DEF s
  <2> QED
    BY <2>1, <2>2, <2>3, SameApplied, FailedApplied
<1>7. CASE Created \/ SwapInPlace \/ RetireHandled
  <2>1. /\ markSynced(made.id, made.state)
        /\ pc = "named" \/ (pc = "handle" /\ cont = "retire")
    BY <1>7 DEF Created, SwapInPlace, RetireHandled, Handling
  <2>2. Swapping /\ NewOne = made.id /\ made.id = me.extName
    BY <1>c, <2>1 DEF Swapping, NewOne, Under, AppliedInv, Working
  <2>3. obj.exists => (Live(made.id) => cloud[made.id] = me.props) /\ obj.extName = made.id
    BY <2>1, <2>2 DEF AppliedInv, Truthful, Working
  <2>4. made.id = NoId => ~Live(made.id)
    BY IdAssumption DEF Live
  <2> QED
    BY <2>1, <2>3, <2>4, SyncedApplied
<1>8. CASE PatchHandled
  <2>1. pc = "handle" /\ cont = "patch" /\ ~Swapping
    BY <1>8, <1>c DEF PatchHandled, Handling, Creates
  <2>2. CASE markSynced(st.id, out.state) /\ out.code = "OK"
    <3>1. obj.exists => (Live(st.id) => cloud[st.id] = me.props) /\ obj.extName = st.id
      BY <1>c, <2>1, <2>2 DEF AppliedInv, Truthful
    <3>2. st.id = NoId => ~Live(st.id)
      BY IdAssumption DEF Live
    <3> QED
      BY <2>1, <2>2, <3>1, <3>2, SyncedApplied
  <2>3. CASE out.code = "ReplacementRequired" /\ reconcileReplacement
    BY <1>a, <1>c, <2>1, <2>3, FailedApplied, IdleApplied, RunApplied
       DEF reconcileReplacement, Conts
  <2>4. CASE out.code = "NotFound" /\ markMissing
    BY <1>b, <1>c, <2>1, <2>4, MissingApplied
  <2>5. CASE out.code # "OK" /\ \/ markSyncFailed("Terminal", FALSE)
                                \/ markSyncFailed("Retrying", TRUE)
    BY <1>c, <2>1, <2>5, FailedApplied
  <2> QED
    BY <1>8, <2>2, <2>3, <2>4, <2>5 DEF PatchHandled, Failed
<1>9. CASE RefreshHandled
  <2>1. pc = "handle" /\ cont = "refresh" /\ ~Swapping /\ ~Patched /\ st = status
        /\ st.hash = me.props
    BY <1>9, <1>c DEF RefreshHandled, Handling, Creates, AppliedInv, Working, Under
  <2>2. CASE markSynced(st.id, out.state)
    BY <2>1, <2>2, SyncedApplied DEF AppliedInv, Truthful, AtRest
  <2>3. CASE out.code = "NotFound" /\ markMissing
    BY <1>b, <2>1, <2>3, MissingApplied
  <2> QED
    BY <1>9, <2>1, <2>2, <2>3, FailedApplied DEF RefreshHandled
<1>10. CASE SwapCollided
  <2>1. pc = "handle" /\ cont = "swap" /\ ~Swapping /\ ~Patched
    BY <1>10, <1>c DEF SwapCollided, Handling
  <2> QED
    BY <1>10, <1>a, <2>1, RunApplied DEF SwapCollided, NeedsId, Creates, Conts, Busy
<1>11. CASE ClearHandled
  <2>1. pc = "handle" /\ cont = "clear" /\ ~Swapping /\ ~Patched
    BY <1>11, <1>c DEF ClearHandled, Handling, Creates
  <2> QED
    BY <1>11, <1>a, <2>1, RunApplied, FailedApplied DEF ClearHandled, Conts
<1>12. CASE RetireOld
  <2>1. pc = "named" /\ st.id # NoId
    BY <1>12, <1>a DEF RetireOld, Busy, NeedsId
  <2> QED
    BY <1>12, <1>a, <2>1, RunApplied DEF RetireOld, Creates, Conts
<1>13. CASE DeleteHandled
  <2>1. pc = "handle" /\ cont = "delete" /\ ~Swapping /\ ~Patched
    BY <1>13, <1>c DEF DeleteHandled, Handling, Creates
  <2>2. CASE ReleaseFinalizer /\ ~Conflict
    <3>1. ~obj'.exists /\ Return(FALSE) /\ jobs' = jobs
      BY <2>2 DEF ReleaseFinalizer, TypeOK, Objects
    <3> QED
      BY <2>1, <3>1, ReturnApplied
  <2>3. CASE Conflict \/ (Return(TRUE) /\ UNCHANGED <<object, jobs, ghosts>>)
    BY <2>1, <2>3, IdleApplied DEF Conflict
  <2> QED
    BY <1>13, <2>2, <2>3 DEF DeleteHandled
<1> QED
  BY <1>1, <1>2, <1>3, <1>4, <1>5, <1>6, <1>7, <1>8, <1>9, <1>10, <1>11,
     <1>12, <1>13

\* The only Job there is gets its answer: what it says and what it did to the
\* external resource agree.
LEMMA RunnerApplied ==
  ASSUME TypeInv, AppliedInv, FinalizerInv,
         provider.clientNamed => SecretIds = {}, Runner
  PROVE  AppliedInv'
<1> USE DEF TypeInv
<1>1. PICK o \in Ops : JobRuns(o)
  BY DEF Runner
<1>2. /\ CanRun(o) /\ cloud' = CloudAfter(o) /\ UNCHANGED <<object, local>>
      /\ jobs' = [jobs EXCEPT ![o] = [phase |-> "complete", res |-> Outcome(o)]]
  BY <1>1 DEF JobRuns
<1>3. pc = "wait" /\ op = o /\ cont \in Conts /\ cont # "none"
  BY <1>2 DEF CanRun, AppliedInv, Alone, Working, Under, TypeOK
<1>4. /\ jobs'[o] = [phase |-> "complete", res |-> Outcome(o)]
      /\ \A x \in Ops : x # o => jobs'[x] = jobs[x]
  BY <1>2 DEF TypeOK
<1>5. Alone' /\ Working'
  BY <1>2, <1>3, <1>4 DEF AppliedInv, Alone, Working, Under, object, local
<1>6. ~Answered /\ ~Patched /\ (Swapping <=> cont = "retire")
  BY <1>2, <1>3 DEF CanRun, Answered, Patched, Swapping, Answers, Under
<1>7. /\ \A c, k : Answers(c, k)' <=> cont \in c /\ Outcome(o).code = k
      /\ Answer' = Outcome(o)
  BY <1>2, <1>3, <1>4 DEF Answers, Answered, Answer, Under, local
<1>8. /\ Patched' <=> cont = "patch" /\ Outcome(o).code = "OK"
      /\ Swapping' <=> (cont \in Creates /\ Outcome(o).code = "OK") \/ cont = "retire"
      /\ NewOne' = IF cont \in Creates THEN Outcome(o).id ELSE made.id
  BY <1>2, <1>3, <1>7 DEF Patched, Swapping, NewOne, Under, local
<1>9. UNCHANGED <<obj, status, me, st, made>>
  BY <1>2 DEF object, local
<1>10. ASSUME obj.exists PROVE Truthful'
  <2>1. cont # "retire" => AtRest
    BY <1>6, <1>10 DEF AppliedInv, Truthful
  <2>2. CASE cloud' = cloud /\ cont \notin Creates /\ ~Patched'
    <3>1. cont # "retire" => AtRest'
      BY <1>9, <2>1, <2>2 DEF AtRest, Live
    <3>2. cont = "retire" /\ Live(made.id) => cloud[made.id] = me.props
      BY <1>3, <1>6, <1>10 DEF AppliedInv, Truthful, NewOne, Under, Creates
    <3>3. Answers({"patch", "refresh"}, "NotFound")' => ~Live(st.id)
      <4> SUFFICES ASSUME cont \in {"patch", "refresh"}, Outcome(o).code = "NotFound"
                   PROVE  ~Live(st.id)
        BY <1>7
      <4>1. o.verb \in {"read", "patch"} /\ o.id = st.id
        BY <1>3 DEF AppliedInv, Working, Under, ReadOp, PatchOp
      <4> QED
        BY <4>1 DEF Outcome, ReadResult, PatchResult, Result
    <3> QED
      BY <1>8, <1>9, <2>2, <3>1, <3>2, <3>3 DEF Truthful, Live
  <2>3. CASE cont = "patch"
    <3>1. o.verb = "patch" /\ o.id = st.id /\ o.props = me.props /\ st.id # NoId /\ st = status
      BY <1>3, <2>3 DEF AppliedInv, Working, Under, PatchOp, LocalsFit, NeedsId, Busy
    <3>2. CASE Outcome(o).code = "OK"
      <4>1. st.id \in Ids /\ cloud'[st.id] = me.props
        BY <1>2, <3>1, <3>2, OpKinds DEF CloudAfter, TypeOK
      <4>2. obj.extName = st.id
        BY <2>1, <2>3, <3>1 DEF AtRest
      <4>3. ~Swapping' /\ ~Answers({"patch", "refresh"}, "NotFound")'
        BY <1>7, <1>8, <2>3, <3>2 DEF Creates
      <4> QED
        BY <1>8, <1>9, <2>3, <3>2, <4>1, <4>2, <4>3 DEF Truthful
    <3>3. CASE Outcome(o).code # "OK"
      BY <1>2, <1>8, <2>2, <2>3, <3>1, <3>3 DEF CloudAfter, Creates
    <3> QED
      BY <3>2, <3>3
  <2>4. CASE cont \in {"adopt", "refresh"}
    <3>1. o.verb = "read"
      BY <1>3, <2>4 DEF AppliedInv, Working, Under, ReadOp
    <3> QED
      BY <1>2, <1>8, <2>2, <2>4, <3>1 DEF CloudAfter, Creates
  <2>5. CASE cont \in {"clear", "retire", "delete"}
    <3>1. o.verb = "delete" /\ o.id = st.id /\ (cont = "retire" => made.id # st.id) /\ st = status
      BY <1>3, <2>5 DEF AppliedInv, Working, Under
    <3>2. CASE Outcome(o).code = "OK"
      <4>1. cloud' = [cloud EXCEPT ![st.id] = "deleted"]
        BY <1>2, <3>1, <3>2 DEF CloudAfter
      <4>2. \A i : Live(i)' => Live(i) /\ cloud'[i] = cloud[i]
        BY <4>1, PropsAssumption DEF Live, TypeOK
      <4>3. cont # "retire" => AtRest'
        BY <1>9, <2>1, <4>2 DEF AtRest, Live
      <4>4. cont = "retire" /\ Live(made.id) => cloud[made.id] = me.props
        BY <1>3, <1>6, <1>10 DEF AppliedInv, Truthful, NewOne, Under, Creates
      <4>5. ~Patched' /\ ~Answers({"patch", "refresh"}, "NotFound")'
        BY <1>7, <1>8, <2>5
      <4>6. Swapping' => cont = "retire" /\ NewOne' = made.id
        BY <1>8, <2>5 DEF Creates
      <4> QED
        BY <1>8, <1>9, <4>2, <4>3, <4>4, <4>5, <4>6 DEF Truthful, Live
    <3>3. CASE Outcome(o).code # "OK"
      BY <1>2, <1>8, <2>2, <2>5, <3>1, <3>3 DEF CloudAfter, Creates
    <3> QED
      BY <3>2, <3>3
  <2>6. CASE cont \in Creates
    <3>1. o.verb = "create" /\ o.props = me.props /\ NewId \in Ids
      BY <1>2, <1>3, <2>6, ProviderTypes DEF AppliedInv, Working, Under, CreateOp
    <3>2. ~Patched' /\ ~Answers({"patch", "refresh"}, "NotFound")'
      BY <1>7, <1>8, <2>6 DEF Creates
    <3>3. CASE Outcome(o).code = "OK"
      <4>1. Swapping' /\ NewOne' = NewId /\ cloud'[NewId] = me.props
        BY <1>2, <1>8, <2>6, <3>1, <3>3
           DEF Outcome, CreateResult, CloudAfter, Result, TypeOK
      <4> QED
        BY <1>9, <3>2, <4>1 DEF Truthful
    <3>4. CASE Collides
      <4>1. cloud' = cloud /\ ~Swapping'
        BY <1>2, <1>8, <2>6, <3>1, <3>4
           DEF Outcome, CreateResult, CloudAfter, Result, Creates
      <4>2. AtRest'
        BY <1>9, <2>1, <2>6, <4>1 DEF AtRest, Live, Creates
      <4> QED
        BY <3>2, <4>1, <4>2 DEF Truthful
    <3>5. CASE ~Collides /\ o.props \in SecretIds
      <4>1. /\ FinalizerInv /\ NewId \in Fresh /\ Outcome(o).code # "OK"
            /\ cloud' = [cloud EXCEPT ![NewId] = o.props]
        BY <1>2, <3>1, <3>5, ProviderTypes
           DEF Outcome, CreateResult, CloudAfter, Result
      <4>2. \A i : Born(i) /\ Live(i)' => Live(i) /\ cloud'[i] = cloud[i]
        BY <4>1, IdAssumption DEF Born, Live, Fresh, TypeOK
      <4>3. Born(status.id) /\ Born(obj.extName)
        BY <4>1 DEF FinalizerInv, KnownBorn
      <4>4. AtRest'
        BY <1>9, <2>1, <2>6, <4>2, <4>3 DEF AtRest, Live, Creates
      <4>5. ~Swapping'
        BY <1>8, <2>6, <4>1 DEF Creates
      <4> QED
        BY <3>2, <4>4, <4>5 DEF Truthful
    <3> QED
      BY <3>1, <3>3, <3>4, <3>5 DEF Outcome, CreateResult, Result
  <2> QED
    BY <1>3, <2>3, <2>4, <2>5, <2>6 DEF Conts, Creates
<1> QED
  BY <1>5, <1>9, <1>10 DEF AppliedInv

\* An error of the provider changes nothing, and drift only takes away.
LEMMA EnvironmentApplied ==
  ASSUME TypeInv, AppliedInv, Environment, Benign'
  PROVE  AppliedInv'
<1> USE DEF TypeInv
<1>1. ASSUME NEW o \in Ops, JobErrs(o)
      PROVE  AppliedInv'
  <2>1. /\ jobs' = [jobs EXCEPT ![o] = [phase |-> "complete", res |-> NoResult]]
        /\ UNCHANGED <<object, local, cloud>> /\ jobs[o].phase = "running"
    BY <1>1 DEF JobErrs
  <2>2. /\ jobs'[o] = [phase |-> "complete", res |-> NoResult]
        /\ \A x \in Ops : x # o => jobs'[x] = jobs[x]
    BY <2>1 DEF TypeOK
  <2>3. pc = "wait" /\ op = o
    BY <2>1 DEF AppliedInv, Alone
  <2>4. Alone' /\ Working'
    BY <2>1, <2>2, <2>3 DEF AppliedInv, Alone, Working, Under, object, local
  <2>5. ~Patched /\ (Swapping <=> Under({"retire"}))
    BY <2>1, <2>3 DEF Patched, Swapping, Answers, Answered
  <2>6. Answer'.code = "Error"
    BY <2>1, <2>2, <2>3 DEF Answer, NoResult, local
  <2>7. /\ ~Patched' /\ (Swapping' <=> Under({"retire"}))
        /\ ~Answers({"patch", "refresh"}, "NotFound")'
    BY <2>1, <2>3, <2>6 DEF Patched, Swapping, Answers, Under, local
  <2>8. Under({"retire"}) => NewOne = made.id /\ NewOne' = made.id
    BY <2>1 DEF NewOne, Under, Creates, local
  <2>9. obj.exists => Truthful'
    BY <2>1, <2>5, <2>7, <2>8 DEF AppliedInv, Truthful, AtRest, Live, object, local
  <2> QED
    BY <2>1, <2>4, <2>9 DEF AppliedInv, object
<1>2. ASSUME NEW o \in Ops, JobLost(o) \/ JobExpires(o)
      PROVE  FALSE
  BY <1>2 DEF JobLost, JobExpires, Fault, Benign, GateFaults
<1>3. ASSUME NEW k \in Ids, Vanish(k)
      PROVE  AppliedInv'
  <2>1. /\ cloud' = [cloud EXCEPT ![k] = "vanished"]
        /\ UNCHANGED <<object, local, jobs>>
    BY <1>3 DEF Vanish
  <2>2. \A i : Live(i)' => Live(i) /\ cloud'[i] = cloud[i]
    BY <2>1, PropsAssumption DEF Live, TypeOK
  <2>3. Alone' /\ Working'
    BY <2>1 DEF AppliedInv, Alone, Working, Under, object, local
  <2>4. /\ \A c, x : Answers(c, x)' <=> Answers(c, x)
        /\ Answer' = Answer
    BY <2>1 DEF Answers, Answered, Answer, Under, local
  <2>5. (Patched' <=> Patched) /\ (Swapping' <=> Swapping) /\ NewOne' = NewOne
    BY <2>1, <2>4 DEF Patched, Swapping, NewOne, Under, local
  <2>6. AtRest => AtRest'
    <3>1. UNCHANGED <<status, obj>>
      BY <2>1 DEF object
    <3> QED
      BY <2>2, <3>1 DEF AtRest, Live
  <2>7. obj.exists => Truthful'
    <3>1. UNCHANGED <<obj, me, st>>
      BY <2>1 DEF object, local
    <3>2. Live(st.id)' => Live(st.id) /\ cloud'[st.id] = cloud[st.id]
      BY <2>2, <3>1 DEF Live
    <3>3. Live(NewOne)' => Live(NewOne) /\ cloud'[NewOne] = cloud[NewOne]
      BY <2>2, <2>5 DEF Live
    <3> QED
      BY <2>4, <2>5, <2>6, <3>1, <3>2, <3>3 DEF AppliedInv, Truthful
  <2> QED
    BY <2>1, <2>3, <2>7 DEF AppliedInv, object
<1> QED
  BY <1>1, <1>2, <1>3 DEF Environment

\* The user renames nothing and writes no status.
LEMMA UserApplied ==
  ASSUME TypeInv, AppliedInv, User
  PROVE  AppliedInv'
<1>t. TypeOK
  BY DEF TypeInv
<1>1. UNCHANGED <<status, local, jobs, cloud>>
  BY DEF User, Wake, object
<1>2. obj.exists /\ obj'.extName = obj.extName
  <2>1. CASE \E p \in Props : EditProps(p)
    BY <1>t, <2>1 DEF EditProps, UserWrites, TypeOK, Objects
  <2>2. CASE EditPolicy \/ TogglePause \/ Approve \/ Delete
    BY <1>t, <2>2 DEF EditPolicy, TogglePause, Approve, Delete, UserWrites, TypeOK, Objects
  <2>3. CASE Wake
    BY <2>3 DEF Wake, object
  <2> QED
    BY <2>1, <2>2, <2>3 DEF User
<1>3. Alone' /\ Working'
  BY <1>1, <1>2 DEF AppliedInv, Alone, Working, Under, local
<1>4. /\ \A c, x : Answers(c, x)' <=> Answers(c, x)
      /\ Answer' = Answer
  BY <1>1 DEF Answers, Answered, Answer, Under, local
<1>5. (Patched' <=> Patched) /\ (Swapping' <=> Swapping) /\ NewOne' = NewOne
  BY <1>1, <1>4 DEF Patched, Swapping, NewOne, Under, local
<1>6. AtRest => AtRest'
  BY <1>1, <1>2 DEF AtRest, Live
<1>7. Truthful'
  BY <1>1, <1>2, <1>4, <1>5, <1>6 DEF AppliedInv, Truthful, Live, local
<1> QED
  BY <1>3, <1>7 DEF AppliedInv

AllInv == Inv /\ (Plain /\ Benign => AppliedInv)

\* A new object names nothing that is live.
LEMMA AppliedInit == Init => AllInv
<1> SUFFICES ASSUME Init, Plain PROVE AppliedInv
  BY FinalizerInit DEF AllInv
<1>1. PICK imp \in Imports :
        /\ obj.extName = IF imp = "none" THEN NoId ELSE ImportId
        /\ imp # "live" /\ imp # "none" => cloud[ImportId] = "vanished"
  BY IdAssumption DEF Init, NewObject, Plain
<1>2. imp # "live"
  BY DEF Plain
<1>3. ~Live(obj.extName)
  BY <1>1, <1>2, IdAssumption, PropsAssumption DEF Live
<1>4. ~Live(NoId)
  BY IdAssumption DEF Live
<1>5. Alone /\ Working
  BY DEF Init, Alone, Working, NoJob, Under
<1>6. Truthful
  BY <1>3, <1>4, CheckRests DEF Init, Truthful, AtRest, NewStatus, Answers, Under
<1> QED
  BY <1>5, <1>6 DEF AppliedInv

\* Every step preserves it, until a fault leaves a Job behind.
LEMMA AppliedStep == AllInv /\ [Next]_vars => AllInv'
<1> SUFFICES ASSUME AllInv, [Next]_vars PROVE AllInv'
  OBVIOUS
<1>1. Inv /\ Inv' /\ History
  BY FinalizerStep, HistoryGrows DEF AllInv
<1>2. provider' = provider
  BY DEF Next, Reconcile, Disturbed, Runner, Environment, User, vars
<1>3. (Plain' => Plain) /\ (Benign' => Benign) /\ (Benign => AdoptionIsExact)
  BY <1>1, <1>2 DEF Plain, Benign, GateFaults, History, AdoptionIsExact, StaleFaults
<1> SUFFICES ASSUME TypeInv, Plain, Benign', AppliedInv PROVE AppliedInv'
  BY <1>1, <1>3 DEF AllInv, Inv
<1>4. CASE Reconcile
  BY <1>4, StartApplied, GoOnApplied DEF Reconcile, Quiet
<1>5. CASE Disturbed
  <2>1. ~Fault("garbled") /\ ~Fault("unreadable") /\ ~Fault("timeout") /\ ~Fault("keepJob")
        /\ ~Fault("crash")
    BY DEF Fault, Benign, GateFaults
  <2>2. (ProfileFails \/ ReferencesFail \/ SchemaUnavailable) /\ UNCHANGED cloud
    BY <1>5, <2>1 DEF Disturbed, ObserveGarbled, ObserveUnreadable, WaitTimeout,
                      CleanupFails, Crash
  <2> QED
    BY <2>2, CheckRests, FailedApplied
       DEF ProfileFails, ReferencesFail, SchemaUnavailable, Checking
<1>6. CASE Runner
  BY <1>1, <1>3, <1>6, RunnerApplied DEF Inv, Plain
<1>7. CASE Environment
  BY <1>7, EnvironmentApplied
<1>8. CASE User
  BY <1>8, UserApplied
<1>9. CASE UNCHANGED vars
  BY <1>9 DEF vars, object, local, AppliedInv, Alone, Working, Truthful, Patched, Swapping,
              Answers, Answered, Answer, Under, NewOne, AtRest, Live
<1> QED
  BY <1>4, <1>5, <1>6, <1>7, <1>8, <1>9 DEF Next

\* Unless a live resource is imported, which the operator records without
\* applying the spec to it, or a client-chosen name embeds a secret,
\* status.appliedHash is the hash of what was last applied to the resource in
\* status.id: whatever drift, provider errors and schema failures occur, for
\* every sequence of edits, patches, replacements and re-creations.
THEOREM AppliedTheorem == Spec => [](Plain => AppliedHashIsApplied)
<1>1. Spec => []AllInv
  BY AppliedInit, AppliedStep, PTL DEF Spec
<1>2. AllInv => (Plain => AppliedHashIsApplied)
  <2> SUFFICES ASSUME AllInv, Plain, Benign, pc = "idle", obj.exists, Live(status.id)
               PROVE  cloud[status.id] = status.hash
    BY DEF AppliedHashIsApplied, Benign
  <2> QED
    BY CheckRests DEF AllInv, AppliedInv, Truthful, AtRest
<1> QED
  BY <1>1, <1>2, PTL

-----------------------------------------------------------------------------
(***************************************************************************)
(* Each step of the reconciler, its Jobs, the user and the faults is one   *)
(* step in the life of the external resource, or none.                     *)
(*                                                                         *)
(* What the mapping needs beyond the invariants proved so far is LifeInv:  *)
(* the copy of the status names the recorded resource until the reconcile  *)
(* ends, whatever the faults, since nobody else writes the status.         *)
(***************************************************************************)

LifeInv ==
  /\ pc # "idle" => me.exists /\ st.id = status.id
  /\ pc \in Busy /\ cont \in {"adopt", "create"} => st.id = NoId
  /\ pc \in Busy /\ cont = "adopt" => me.extName # NoId
  /\ pc = "named" \/ (pc \in Busy /\ cont = "retire") => made.id # NoId
  /\ pc = "cleanup" => jobs[op].phase # "running"

\* A reconcile that returns has no copy.
LEMMA ReturnCopy ==
  ASSUME NEW b, Return(b)
  PROVE  LifeInv'
BY DEF Return, LifeInv, Busy

\* Starting an operation keeps the copy.
LEMMA RunCopy ==
  ASSUME LifeInv, pc # "idle", NEW o, NEW c, RunOp(o, c),
         c \in {"adopt", "create"} => st.id = NoId,
         c = "adopt" => me.extName # NoId,
         c = "retire" => made.id # NoId
  PROVE  LifeInv'
BY DEF RunOp, LifeInv, Busy, object

\* The create of reconcileCreate keeps the copy.
LEMMA CreateCopy ==
  ASSUME LifeInv, pc # "idle", st.id = NoId, CreateUnlessTerminal
  PROVE  LifeInv'
BY ReturnCopy, RunCopy DEF CreateUnlessTerminal

\* The reconciler's own steps keep the copy.
LEMMA QuietCopy ==
  ASSUME TypeInv, TerminalInv, LifeInv, Quiet
  PROVE  LifeInv'
<1> USE DEF TypeInv
<1>1. CASE Get
  BY <1>1 DEF Get, LifeInv, Busy, object
<1>2. CASE ReconcilePaused \/ ValidationFailed \/ NothingToDelete \/ CreateFailed
           \/ Created \/ RefreshHandled \/ SwapInPlace \/ RetireHandled
           \/ DeleteHandled
  BY <1>2, ReturnCopy
     DEF ReconcilePaused, ValidationFailed, NothingToDelete, CreateFailed,
         Created, RefreshHandled, SwapInPlace, RetireHandled, DeleteHandled,
         ReleaseFinalizer, Conflict, markSyncFailed, markSynced, markMissing
<1>3. CASE DeleteExternal \/ AdoptExternal \/ Patch \/ Refresh
  BY <1>3, RunCopy DEF DeleteExternal, AdoptExternal, Patch, Refresh, Passed, Checking
<1>4. CASE AddFinalizer
  <2>1. me.exists => [me EXCEPT !.finalizer = TRUE].exists
    BY DEF TypeOK, Objects
  <2> QED
    BY <1>4, <2>1, ReturnCopy DEF AddFinalizer, Conflict, LifeInv, Busy
<1>5. CASE Create
  BY <1>5, CreateCopy DEF Create, Passed, Checking
<1>6. CASE Observe \/ JobDisappeared
  BY <1>6 DEF Observe, JobDisappeared, Waiting, LifeInv, Busy, object
<1>7. CASE Cleanup
  BY <1>7 DEF Cleanup, LifeInv, Busy, object
<1>8. CASE AdoptHandled
  <2>1. pc = "handle" /\ st.id = NoId
    BY <1>8 DEF AdoptHandled, Handling, LifeInv, Busy
  <2> QED
    BY <1>8, <2>1, CreateCopy, ReturnCopy DEF AdoptHandled, markSynced, markSyncFailed
<1>9. CASE PersistExternalName
  <2>1. [me EXCEPT !.extName = out.id].exists = me.exists
    BY DEF TypeOK, Objects
  <2>2. out.id # NoId
    BY <1>9 DEF PersistExternalName, TerminalInv, Named, OutcomeNamed, Creates
  <2> QED
    BY <1>9, <2>1, <2>2 DEF PersistExternalName, LifeInv, Busy
<1>10. CASE PatchHandled
  BY <1>10, ReturnCopy, RunCopy
     DEF PatchHandled, Handling, reconcileReplacement, markSyncFailed, markSynced,
         markMissing
<1>11. CASE SwapCollided \/ ClearHandled
  <2>1. CASE SwapCollided
    BY <2>1, RunCopy DEF SwapCollided, Handling
  <2>2. CASE ClearHandled
    BY <2>2, ReturnCopy, RunCopy DEF ClearHandled, Handling, markSyncFailed
  <2> QED
    BY <1>11, <2>1, <2>2
<1>12. CASE RetireOld
  <2>1. made.id # NoId
    BY <1>12 DEF RetireOld, LifeInv
  <2> QED
    BY <1>12, <2>1, RunCopy DEF RetireOld
<1> QED
  BY <1>1, <1>2, <1>3, <1>4, <1>5, <1>6, <1>7, <1>8, <1>9, <1>10, <1>11, <1>12
     DEF Quiet

\* So does every other step: Jobs only start in the hands of the reconciler.
LEMMA CopyStep == TypeInv /\ TerminalInv /\ LifeInv /\ [Next]_vars => LifeInv'
<1> SUFFICES ASSUME TypeInv, TerminalInv, LifeInv, [Next]_vars PROVE LifeInv'
  OBVIOUS
<1>1. CASE Reconcile
  BY <1>1, QuietCopy DEF Reconcile
<1>2. CASE Disturbed
  <2>1. CASE ProfileFails \/ ReferencesFail \/ SchemaUnavailable \/ Crash
    BY <2>1, ReturnCopy DEF ProfileFails, ReferencesFail, SchemaUnavailable, Crash, markSyncFailed
  <2>2. CASE ObserveGarbled \/ ObserveUnreadable \/ WaitTimeout \/ CleanupFails
    BY <2>2 DEF ObserveGarbled, ObserveUnreadable, WaitTimeout, CleanupFails,
                Waiting, LifeInv, Busy, object
  <2> QED
    BY <1>2, <2>1, <2>2 DEF Disturbed
<1>3. CASE Runner \/ Environment
  <2>1. UNCHANGED <<object, local>>
    BY <1>3 DEF Runner, Environment, JobRuns, JobErrs, JobLost, JobExpires, Vanish
  <2>2. \A x \in Ops : jobs'[x].phase = "running" => jobs[x].phase = "running"
    BY <1>3 DEF Runner, Environment, JobRuns, JobErrs, JobLost, JobExpires, Vanish,
                NoJob, TypeInv, TypeOK
  <2>3. pc = "cleanup" => op \in Ops
    BY DEF TypeInv, LocalsFit, Busy
  <2> QED
    BY <2>1, <2>2, <2>3 DEF LifeInv, object, local
<1>4. CASE User
  BY <1>4 DEF User, Wake, object, local, LifeInv
<1>5. CASE UNCHANGED vars
  BY <1>5 DEF vars, object, local, LifeInv
<1> QED
  BY <1>1, <1>2, <1>3, <1>4, <1>5 DEF Next

-----------------------------------------------------------------------------
(* The mapped variables, and what leaves them alone *)

Work == IF pc = "idle" THEN {} ELSE {me.gen}

\* The object as the life cycle sees it, and the world around it.
SameObject == /\ obj'.exists = obj.exists /\ obj'.orphan = obj.orphan
              /\ obj'.gen = obj.gen /\ consented' = consented
SameWorld == World' = World /\ AdoptionIsExact' = AdoptionIsExact

\* The world is the cloud, and the doubts come with the faults.
LEMMA WorldStays ==
  /\ UNCHANGED cloud => World' = World
  /\ UNCHANGED <<provider, seen>> => AdoptionIsExact' = AdoptionIsExact
BY DEF World, Fate, AdoptionIsExact

\* Most faults leave no Job behind.
LEMMA ExactStays ==
  ASSUME NEW f, Fault(f), f \notin StaleFaults, provider' = provider
  PROVE  AdoptionIsExact' = AdoptionIsExact
<1>1. seen' \cap StaleFaults = seen \cap StaleFaults
  BY DEF Fault
<1> QED
  BY <1>1 DEF AdoptionIsExact

\* No fault takes a doubt away.
LEMMA ExactFalls ==
  ASSUME NEW f, Fault(f), provider' = provider
  PROVE  AdoptionIsExact' => AdoptionIsExact
BY DEF Fault, AdoptionIsExact

\* The orders are the running Jobs of creates and deletes.
LEMMA OrderKinds ==
  /\ Creations = {o \in Ops : o.verb = "create"}
  /\ Deletions = {o \in Ops : o.verb = "delete"}
<1>1. Creations \subseteq Ops /\ Deletions \subseteq Ops
  BY OpTypes DEF Creations, Deletions
<1>2. (\A o \in Creations : o.verb = "create") /\ \A o \in Deletions : o.verb = "delete"
  BY DEF Creations, Deletions, CreateOp, DeleteOp
<1>3. \A o \in Ops : o.verb = "create" => o \in Creations
  BY OpKinds DEF Creations
<1>4. \A o \in Ops : o.verb = "delete" => o \in Deletions
  BY OpKinds DEF Deletions
<1> QED
  BY <1>1, <1>2, <1>3, <1>4

\* ensureJob places an order, unless there is a Job of the name.
LEMMA OrderPlaced ==
  ASSUME TypeInv, NEW o \in Ops, ensureJob(o)
  PROVE  /\ Orders' = Orders \/ Orders' = Orders \cup {o}
         /\ o \notin Creations \cup Deletions => Orders' = Orders
<1>1. /\ \A x \in Ops : x # o => jobs'[x] = jobs[x]
      /\ jobs'[o] = jobs[o] \/ jobs'[o].phase = "running"
  BY DEF ensureJob, TypeInv, TypeOK
<1>2. Creations \cup Deletions \subseteq Ops
  BY OrderKinds
<1>3. CASE jobs'[o] = jobs[o]
  BY <1>1, <1>2, <1>3 DEF Orders
<1>4. CASE jobs'[o].phase = "running"
  BY <1>1, <1>2, <1>4 DEF Orders
<1> QED
  BY <1>1, <1>3, <1>4

-----------------------------------------------------------------------------
(* The reconciler's steps in the life of the resource *)

\* A reconcile that writes nothing the life cycle sees has ended.
LEMMA EndLife ==
  ASSUME pc # "idle", NEW b, Return(b), SameObject, status'.id = status.id,
         Orders' = Orders, World' = World, AdoptionIsExact' => AdoptionIsExact
  PROVE  Life!End
BY DEF Life!End, Life!object, Return, SameObject

\* A step that shows nothing of itself.
LEMMA StillLife ==
  ASSUME SameObject, Work' = Work, status'.id = status.id, Orders' = Orders, SameWorld
  PROVE  UNCHANGED Life!vars
BY DEF Life!vars, Life!object, SameObject, SameWorld, Work

\* markSyncFailed keeps the record.
LEMMA FailedLife ==
  ASSUME TypeInv, LifeInv, pc # "idle", NEW r, NEW b, markSyncFailed(r, b),
         World' = World, AdoptionIsExact' => AdoptionIsExact
  PROVE  Life!End
<1>1. [st EXCEPT !.synced = r, !.syncedGen = me.gen].id = status.id
  BY DEF TypeInv, TypeOK, Statuses, LifeInv
<1>2. SameObject /\ status'.id = status.id /\ Orders' = Orders
  BY <1>1 DEF markSyncFailed, persistSyncFailure, persistStatus, SameObject, ghosts, Orders
<1> QED
  BY <1>2, EndLife DEF markSyncFailed

\* markSynced records a born resource, in the place of none or with consent.
LEMMA SyncedLife ==
  ASSUME LifeInv, pc # "idle", NEW i \in Ids, NEW s, markSynced(i, s),
         consented' = consented, SameWorld,
         AdoptionIsExact => cloud[i] # "unborn",
         st.id = NoId \/ i = st.id \/ me.gen \in consented
  PROVE  Life!Next
<1>1. SameObject /\ Orders' = Orders
  BY DEF markSynced, persistStatus, SameObject, Orders
<1>2. Return(TRUE) /\ st.id = status.id
  BY DEF markSynced, LifeInv
<1>3. status'.id = status.id \/ status'.id = i
  BY DEF markSynced, persistStatus
<1>4. CASE status'.id = status.id
  <2>1. Life!End
    BY <1>1, <1>2, <1>4, EndLife DEF SameWorld
  <2> QED
    BY <2>1 DEF Life!Next
<1>5. CASE status'.id # status.id
  <2>1. AdoptionIsExact => World[i] # "unborn"
    BY PropsAssumption DEF World, Fate
  <2>2. Life!Record(i)
    BY <1>1, <1>2, <1>3, <1>5, <2>1
       DEF Life!Record, Life!Consented, Life!object, Return, SameObject, SameWorld
  <2> QED
    BY <2>2 DEF Life!Next
<1> QED
  BY <1>4, <1>5

\* markMissing forgets a resource that is gone.
LEMMA MissingLife ==
  ASSUME TypeInv, LifeInv, pc # "idle", markMissing, SameWorld,
         st.id # NoId, AdoptionIsExact => Dead(st.id)
  PROVE  Life!Next
<1>1. SameObject /\ Orders' = Orders /\ Return(TRUE) /\ st.id = status.id
  BY DEF markMissing, persistStatus, SameObject, Orders, ghosts, LifeInv
<1>2. [st EXCEPT !.id = NoId, !.outputs = NoProps, !.hash = NoProps].id = NoId
  BY DEF TypeInv, TypeOK, Statuses
<1>3. status'.id = status.id \/ status'.id = NoId
  BY <1>2 DEF markMissing, persistStatus
<1>4. CASE status'.id = status.id
  <2>1. Life!End
    BY <1>1, <1>4, EndLife DEF SameWorld
  <2> QED
    BY <2>1 DEF Life!Next
<1>5. CASE status'.id = NoId
  <2>1. AdoptionIsExact => World[st.id] # "live"
    BY PropsAssumption DEF Dead, World, Fate
  <2>2. Life!Forget
    BY <1>1, <1>5, <2>1 DEF Life!Forget, Life!object, Return, SameObject, SameWorld
  <2> QED
    BY <2>2 DEF Life!Next
<1> QED
  BY <1>3, <1>4, <1>5

\* The finalizer is released when there is nothing left to delete.
LEMMA ReleaseLife ==
  ASSUME TypeInv, LifeInv, pc # "idle", ReleaseFinalizer, SameWorld,
         AdoptionIsExact => me.orphan \/ st.id = NoId \/ Dead(st.id)
  PROVE  Life!Next
<1>1. CASE Conflict
  <2>1. SameObject /\ status'.id = status.id /\ Orders' = Orders /\ Return(TRUE)
    BY <1>1 DEF Conflict, object, ghosts, SameObject, Orders
  <2>2. Life!End
    BY <2>1, EndLife DEF SameWorld
  <2> QED
    BY <2>2 DEF Life!Next
<1>2. CASE ~Conflict
  <2>1. /\ obj = me /\ Return(FALSE) /\ UNCHANGED <<status, jobs, consented>>
        /\ obj' = [obj EXCEPT !.finalizer = FALSE, !.exists = FALSE]
    BY <1>2 DEF ReleaseFinalizer
  <2>2. /\ obj.exists /\ ~obj'.exists /\ obj'.exists = FALSE
        /\ obj'.orphan = obj.orphan /\ obj'.gen = obj.gen
    BY <2>1 DEF TypeInv, TypeOK, Objects, LifeInv
  <2>3. Orders' = Orders
    BY <2>1 DEF Orders
  <2>4. AdoptionIsExact => obj.orphan \/ status.id = NoId \/ World[status.id] # "live"
    BY <2>1, PropsAssumption DEF LifeInv, Dead, World, Fate
  <2>5. Life!Release
    BY <2>1, <2>2, <2>3, <2>4 DEF Life!Release, Life!MayGo, Return, SameWorld
  <2> QED
    BY <2>5 DEF Life!Next
<1> QED
  BY <1>1, <1>2

\* A Job is started for the recorded resource, with consent if it destroys, or
\* creates a second one.
LEMMA RunLife ==
  ASSUME TypeInv, LifeInv, pc # "idle", NEW o \in Ops, NEW c, RunOp(o, c), SameWorld,
         o.verb = "create" => st.id = NoId \/ me.gen \in consented,
         o.verb = "delete" => o.id = st.id /\ me.gen \in consented
  PROVE  Life!Next \/ UNCHANGED Life!vars
<1>1. SameObject /\ Work' = Work /\ status'.id = status.id /\ st.id = status.id
  BY DEF RunOp, object, ghosts, SameObject, Work, LifeInv
<1>2. /\ Orders' = Orders \/ Orders' = Orders \cup {o}
      /\ o \notin Creations \cup Deletions => Orders' = Orders
  BY OrderPlaced DEF RunOp
<1>3. CASE Orders' = Orders
  BY <1>1, <1>3, StillLife
<1>4. CASE Orders' = Orders \cup {o} /\ o \in Creations
  <2>1. Life!OrderCreation(o)
    BY <1>1, <1>4, OrderKinds
       DEF Life!OrderCreation, Life!Consented, Life!object, SameObject, SameWorld, Work
  <2> QED
    BY <1>4, <2>1 DEF Life!Next
<1>5. CASE Orders' = Orders \cup {o} /\ o \in Deletions
  <2>1. Life!OrderDeletion(o)
    BY <1>1, <1>5, OrderKinds
       DEF Life!OrderDeletion, Life!Consented, Life!object, SameObject, SameWorld, Work
  <2> QED
    BY <1>5, <2>1 DEF Life!Next
<1> QED
  BY <1>2, <1>3, <1>4, <1>5

-----------------------------------------------------------------------------
(* Every step *)

\* Everything that is known of a state of the system.
LifeAll == FullInv /\ ConsentInv /\ TerminalInv /\ LifeInv

\* The create of reconcileCreate orders the first resource.
LEMMA CreateLife ==
  ASSUME TypeInv, LifeInv, pc # "idle", st.id = NoId, CreateUnlessTerminal, SameWorld
  PROVE  Life!Next \/ UNCHANGED Life!vars
<1>1. CreateOp(me.props) \in Ops /\ CreateOp(me.props).verb = "create"
  BY OpTypes DEF TypeInv, TypeOK, Objects, CreateOp
<1>2. CASE RunOp(CreateOp(me.props), "create")
  BY <1>1, <1>2, RunLife
<1>3. CASE Return(FALSE) /\ UNCHANGED <<object, jobs, ghosts>>
  <2>1. Life!End
    BY <1>3, EndLife DEF object, ghosts, SameObject, Orders, SameWorld
  <2> QED
    BY <2>1 DEF Life!Next
<1> QED
  BY <1>2, <1>3 DEF CreateUnlessTerminal

\* Until its first operation a reconcile reads the object and checks it.
LEMMA StartLife ==
  ASSUME LifeAll, SameWorld,
         \/ Get \/ ReconcilePaused \/ DeleteExternal \/ NothingToDelete
         \/ AddFinalizer \/ ValidationFailed \/ AdoptExternal \/ Create
         \/ Patch \/ Refresh
  PROVE  Life!Next \/ UNCHANGED Life!vars
<1> USE DEF LifeAll, FullInv, Inv, TypeInv
<1>a. AdoptionIsExact' => AdoptionIsExact
  BY DEF SameWorld
<1>1. CASE Get
  <2>1. SameObject /\ status'.id = status.id /\ Orders' = Orders
    BY <1>1 DEF Get, object, ghosts, SameObject, Orders
  <2>2. CASE obj.exists
    <3>1. Life!Begin
      BY <1>1, <2>1, <2>2 DEF Get, Life!Begin, Life!object, SameObject, SameWorld
    <3> QED
      BY <3>1 DEF Life!Next
  <2>3. CASE ~obj.exists
    <3>1. Work' = Work
      BY <1>1, <2>3 DEF Get, Work
    <3> QED
      BY <2>1, <3>1, StillLife
  <2> QED
    BY <2>2, <2>3
<1>2. CASE ReconcilePaused \/ ValidationFailed
  <2>1. Life!End
    BY <1>2, <1>a, FailedLife DEF ReconcilePaused, ValidationFailed, Checking, SameWorld
  <2> QED
    BY <2>1 DEF Life!Next
<1>3. CASE DeleteExternal
  <2>1. DeleteOp(st.id, deleteState(st.outputs)) \in Ops
    BY <1>3, OpTypes DEF DeleteExternal, TypeOK, Statuses, AnyId
  <2>2. me.gen \in consented
    BY <1>3 DEF DeleteExternal, ConsentInv, Consents
  <2> QED
    BY <1>3, <2>1, <2>2, RunLife DEF DeleteExternal, DeleteOp
<1>4. CASE NothingToDelete
  BY <1>4, ReleaseLife DEF NothingToDelete
<1>5. CASE AddFinalizer
  <2>1. CASE Conflict
    <3>1. Life!End
      BY <1>5, <1>a, <2>1, EndLife
         DEF AddFinalizer, Conflict, object, ghosts, SameObject, Orders, SameWorld
    <3> QED
      BY <3>1 DEF Life!Next
  <2>2. CASE ~Conflict
    <3>1. /\ obj' = [obj EXCEPT !.finalizer = TRUE] /\ me' = [me EXCEPT !.finalizer = TRUE]
          /\ UNCHANGED <<status, pc, jobs, ghosts>>
      BY <1>5, <2>2 DEF AddFinalizer
    <3>2. SameObject /\ me'.gen = me.gen
      BY <3>1 DEF TypeOK, Objects, SameObject, ghosts
    <3>3. Work' = Work /\ Orders' = Orders
      BY <3>1, <3>2 DEF Work, Orders
    <3> QED
      BY <3>1, <3>2, <3>3, StillLife
  <2> QED
    BY <2>1, <2>2
<1>6. CASE AdoptExternal
  <2>1. ReadOp(me.extName) \in Ops /\ ReadOp(me.extName).verb = "read"
    BY <1>6, OpTypes DEF AdoptExternal, TypeOK, Objects, AnyId, ReadOp
  <2> QED
    BY <1>6, <2>1, RunLife DEF AdoptExternal, Passed, Checking
<1>7. CASE Create
  BY <1>7, CreateLife DEF Create, Passed, Checking
<1>8. CASE Patch
  <2>1. PatchOp(st.id, me.props) \in Ops /\ PatchOp(st.id, me.props).verb = "patch"
    BY <1>8, OpTypes DEF Patch, TypeOK, Statuses, Objects, AnyId, PatchOp
  <2> QED
    BY <1>8, <2>1, RunLife DEF Patch, Passed, Checking
<1>9. CASE Refresh
  <2>1. ReadOp(st.id) \in Ops /\ ReadOp(st.id).verb = "read"
    BY <1>9, OpTypes DEF Refresh, TypeOK, Statuses, AnyId, ReadOp
  <2> QED
    BY <1>9, <2>1, RunLife DEF Refresh, Passed, Checking
<1> QED
  BY <1>1, <1>2, <1>3, <1>4, <1>5, <1>6, <1>7, <1>8, <1>9

\* After it the outcome decides, and the copy of the status is still the record.
LEMMA GoOnLife ==
  ASSUME LifeAll, SameWorld,
         \/ Observe \/ JobDisappeared \/ Cleanup \/ AdoptHandled
         \/ PersistExternalName \/ CreateFailed \/ Created \/ PatchHandled
         \/ RefreshHandled \/ SwapCollided \/ ClearHandled \/ RetireOld
         \/ SwapInPlace \/ RetireHandled \/ DeleteHandled
  PROVE  Life!Next \/ UNCHANGED Life!vars
<1> USE DEF LifeAll, FullInv, Inv, TypeInv
<1>a. AdoptionIsExact' => AdoptionIsExact
  BY DEF SameWorld
<1>b. CreateOp(me.props) \in Ops /\ CreateOp(me.props).verb = "create"
  BY OpTypes DEF TypeOK, Objects, CreateOp
<1>c. st.id # NoId => /\ DeleteOp(st.id, deleteState(st.outputs)) \in Ops
                      /\ DeleteOp(st.id, deleteState(st.outputs)).id = st.id
                      /\ DeleteOp(st.id, deleteState(st.outputs)).verb = "delete"
  BY OpTypes DEF TypeOK, Statuses, AnyId, DeleteOp
<1>d. st.id # NoId => st.id \in Ids
  BY DEF TypeOK, Statuses, AnyId
<1>e. AdoptionIsExact => \A i \in {st.id, me.extName, made.id} \cap Ids : cloud[i] # "unborn"
  BY IdAssumption DEF FinalizerInv, KnownBorn, Born
<1>f. pc \in Busy /\ cont \in Swaps => me.gen \in consented
  BY DEF ConsentInv, Permitted, Consents, Busy
<1>1. CASE Observe \/ JobDisappeared
  <2>1. SameObject /\ Work' = Work /\ status'.id = status.id /\ Orders' = Orders
    BY <1>1 DEF Observe, JobDisappeared, Waiting, object, ghosts, SameObject, Work, Orders
  <2> QED
    BY <2>1, StillLife
<1>2. CASE Cleanup
  <2>1. SameObject /\ Work' = Work /\ status'.id = status.id
    BY <1>2 DEF Cleanup, object, ghosts, SameObject, Work
  <2>2. op \in Ops /\ jobs[op].phase # "running"
    BY <1>2 DEF Cleanup, LifeInv, LocalsFit, Busy
  <2>3. Creations \cup Deletions \subseteq Ops
    BY OrderKinds
  <2>4. \A x \in Ops : jobs'[x].phase = "running" <=> jobs[x].phase = "running"
    BY <1>2, <2>2 DEF Cleanup, TypeOK, NoJob
  <2>5. Orders' = Orders
    BY <2>3, <2>4 DEF Orders
  <2> QED
    BY <2>1, <2>5, StillLife
<1>3. CASE AdoptHandled
  <2>1. pc # "idle" /\ st.id = NoId /\ me.extName \in Ids
    BY <1>3 DEF AdoptHandled, Handling, LifeInv, Busy, TypeOK, Objects, AnyId
  <2>2. CASE CreateUnlessTerminal
    BY <2>1, <2>2, CreateLife
  <2>3. CASE markSynced(me.extName, out.state) /\ UNCHANGED ghosts
    BY <1>e, <2>1, <2>3, SyncedLife DEF ghosts
  <2>4. CASE markSyncFailed("Retrying", TRUE)
    BY <1>a, <2>1, <2>4, FailedLife DEF Life!Next, SameWorld
  <2> QED
    BY <1>3, <2>2, <2>3, <2>4 DEF AdoptHandled
<1>4. CASE PersistExternalName
  <2>1. [obj EXCEPT !.extName = out.id].exists = obj.exists
        /\ [obj EXCEPT !.extName = out.id].orphan = obj.orphan
        /\ [obj EXCEPT !.extName = out.id].gen = obj.gen
        /\ [me EXCEPT !.extName = out.id].gen = me.gen
    BY DEF TypeOK, Objects
  <2>2. SameObject /\ Work' = Work /\ status'.id = status.id /\ Orders' = Orders
    BY <1>4, <2>1 DEF PersistExternalName, ghosts, SameObject, Work, Orders
  <2> QED
    BY <2>2, StillLife
<1>5. CASE CreateFailed
  <2>1. CASE markSyncFailed("Retrying", TRUE)
    BY <1>5, <1>a, <2>1, FailedLife DEF CreateFailed, Life!Next, SameWorld
  <2>2. CASE /\ persistSyncFailure("SecretInputInID") /\ Return(FALSE)
             /\ UNCHANGED <<consented, forsaken>>
    <3>1. [st EXCEPT !.synced = "SecretInputInID", !.syncedGen = me.gen].id = status.id
      BY <1>5 DEF CreateFailed, TypeOK, Statuses, LifeInv
    <3>2. SameObject /\ status'.id = status.id /\ Orders' = Orders
      BY <2>2, <3>1 DEF persistSyncFailure, persistStatus, SameObject, Orders
    <3>3. Life!End
      BY <1>5, <1>a, <2>2, <3>2, EndLife DEF CreateFailed, SameWorld
    <3> QED
      BY <3>3 DEF Life!Next
  <2> QED
    BY <1>5, <2>1, <2>2 DEF CreateFailed
<1>6. CASE Created \/ SwapInPlace
  <2>1. pc # "idle" /\ pc \in Busy /\ made.id \in Ids
    BY <1>6 DEF Created, SwapInPlace, Busy, LifeInv, TypeOK, Made, AnyId
  <2>2. st.id = NoId \/ made.id = st.id \/ me.gen \in consented
    BY <1>6, <1>f, <2>1 DEF Created, SwapInPlace, LifeInv, Swaps
  <2> QED
    BY <1>6, <1>e, <2>1, <2>2, SyncedLife DEF Created, SwapInPlace, ghosts
<1>7. CASE PatchHandled
  <2>1. pc = "handle" /\ cont = "patch" /\ pc # "idle" /\ st.id # NoId
    BY <1>7 DEF PatchHandled, Handling, LocalsFit, Busy, NeedsId
  <2>2. CASE markSynced(st.id, out.state) /\ UNCHANGED ghosts
    BY <1>d, <1>e, <2>1, <2>2, SyncedLife DEF ghosts
  <2>3. CASE reconcileReplacement
    <3>1. CASE markSyncFailed("Terminal", FALSE)
      BY <1>a, <2>1, <3>1, FailedLife DEF Life!Next, SameWorld
    <3>2. CASE Return(FALSE) /\ UNCHANGED <<object, jobs, ghosts>>
      <4>1. Life!End
        BY <1>a, <2>1, <3>2, EndLife DEF object, ghosts, SameObject, Orders, SameWorld
      <4> QED
        BY <4>1 DEF Life!Next
    <3>3. CASE RunOp(CreateOp(me.props), "swap") /\ (~protected(me) \/ replacementApproved(me))
      <4>1. me.gen \in consented
        BY <2>1, <3>3 DEF protected, replacementApproved, ConsentInv, Consents
      <4> QED
        BY <1>b, <2>1, <3>3, <4>1, RunLife
    <3> QED
      BY <2>3, <3>1, <3>2, <3>3 DEF reconcileReplacement
  <2>4. CASE out.code = "NotFound" /\ markMissing
    <3>1. AdoptionIsExact => Dead(st.id)
      BY <2>1, <2>4 DEF RecordInv, OutcomeReports, OpFits, Under
    <3> QED
      BY <2>1, <2>4, <3>1, MissingLife
  <2>5. CASE \E r \in {"Terminal", "Retrying"}, b \in BOOLEAN : markSyncFailed(r, b)
    BY <1>a, <2>1, <2>5, FailedLife DEF Life!Next, SameWorld
  <2> QED
    BY <1>7, <2>2, <2>3, <2>4, <2>5 DEF PatchHandled
<1>8. CASE RefreshHandled
  <2>1. pc = "handle" /\ cont = "refresh" /\ pc # "idle" /\ st.id # NoId
    BY <1>8 DEF RefreshHandled, Handling, LocalsFit, Busy, NeedsId
  <2>2. CASE markSynced(st.id, out.state) /\ UNCHANGED ghosts
    BY <1>d, <1>e, <2>1, <2>2, SyncedLife DEF ghosts
  <2>3. CASE out.code = "NotFound" /\ markMissing
    <3>1. AdoptionIsExact => Dead(st.id)
      BY <2>1, <2>3 DEF RecordInv, OutcomeReports, OpFits, Under
    <3> QED
      BY <2>1, <2>3, <3>1, MissingLife
  <2>4. CASE markSyncFailed("Retrying", TRUE)
    BY <1>a, <2>1, <2>4, FailedLife DEF Life!Next, SameWorld
  <2> QED
    BY <1>8, <2>2, <2>3, <2>4 DEF RefreshHandled
<1>9. CASE SwapCollided \/ RetireOld
  <2>1. pc # "idle" /\ pc \in Busy /\ cont \in Swaps /\ st.id # NoId
    BY <1>9 DEF SwapCollided, RetireOld, Handling, Busy, Swaps, LocalsFit, NeedsId
  <2> QED
    BY <1>9, <1>c, <1>f, <2>1, RunLife DEF SwapCollided, RetireOld
<1>10. CASE ClearHandled
  <2>1. pc # "idle" /\ me.gen \in consented
    BY <1>10, <1>f DEF ClearHandled, Handling, Busy, Swaps
  <2>2. CASE RunOp(CreateOp(me.props), "swapAgain")
    BY <1>b, <2>1, <2>2, RunLife
  <2>3. CASE markSyncFailed("Retrying", TRUE)
    BY <1>a, <2>1, <2>3, FailedLife DEF Life!Next, SameWorld
  <2> QED
    BY <1>10, <2>2, <2>3 DEF ClearHandled
<1>11. CASE RetireHandled
  <2>1. pc # "idle" /\ made.id \in Ids /\ me.gen \in consented
    BY <1>11, <1>f DEF RetireHandled, Handling, Busy, Swaps, LifeInv, TypeOK, Made, AnyId
  <2> QED
    BY <1>11, <1>e, <2>1, SyncedLife DEF RetireHandled
<1>12. CASE DeleteHandled
  <2>1. pc # "idle"
    BY <1>12 DEF DeleteHandled, Handling
  <2>2. CASE out.code \in Gone /\ ReleaseFinalizer
    <3>1. AdoptionIsExact => Dead(st.id)
      BY <1>12, <2>2
         DEF DeleteHandled, Handling, Busy, FinalizerInv, OutcomeHonest, CopyAgrees
    <3> QED
      BY <2>1, <2>2, <3>1, ReleaseLife
  <2>3. CASE Return(TRUE) /\ UNCHANGED <<object, jobs, ghosts>>
    <3>1. Life!End
      BY <1>a, <2>1, <2>3, EndLife DEF object, ghosts, SameObject, Orders, SameWorld
    <3> QED
      BY <3>1 DEF Life!Next
  <2> QED
    BY <1>12, <2>2, <2>3 DEF DeleteHandled, Gone
<1> QED
  BY <1>1, <1>2, <1>3, <1>4, <1>5, <1>6, <1>7, <1>8, <1>9, <1>10, <1>11, <1>12

\* A fault of the reconciler ends the reconcile, casts a doubt or shows nothing.
LEMMA DisturbedLife ==
  ASSUME LifeAll, Disturbed
  PROVE  Life!Next \/ UNCHANGED Life!vars
<1> USE DEF LifeAll, FullInv, Inv, TypeInv
<1>1. World' = World /\ provider' = provider
  BY WorldStays DEF Disturbed
<1>2. AdoptionIsExact' => AdoptionIsExact
  BY <1>1, ExactFalls
     DEF Disturbed, ProfileFails, ReferencesFail, SchemaUnavailable,
         ObserveGarbled, ObserveUnreadable, WaitTimeout,
         CleanupFails, Crash
<1>3. CASE ProfileFails \/ ReferencesFail \/ SchemaUnavailable
  <2>1. Life!End
    BY <1>1, <1>2, <1>3, FailedLife DEF ProfileFails, ReferencesFail, SchemaUnavailable, Checking
  <2> QED
    BY <2>1 DEF Life!Next
<1>4. CASE Crash
  <2>1. Life!End
    BY <1>1, <1>2, <1>4, EndLife DEF Crash, object, ghosts, SameObject, Orders
  <2> QED
    BY <2>1 DEF Life!Next
<1>5. CASE ObserveGarbled \/ ObserveUnreadable \/ WaitTimeout \/ CleanupFails
  <2>1. SameObject /\ Work' = Work /\ Work # {} /\ status'.id = status.id /\ Orders' = Orders
    BY <1>5
       DEF ObserveGarbled, ObserveUnreadable, WaitTimeout, CleanupFails, Waiting, object,
           ghosts, SameObject, Work, Orders
  <2>2. CASE AdoptionIsExact'
    <3>1. AdoptionIsExact' = AdoptionIsExact
      BY <1>2, <2>2
    <3> QED
      BY <1>1, <2>1, <3>1, StillLife DEF SameWorld
  <2>3. CASE ~AdoptionIsExact'
    <3>1. Life!Doubt
      BY <1>1, <2>1, <2>3 DEF Life!Doubt, Life!object, SameObject, Work
    <3> QED
      BY <3>1 DEF Life!Next
  <2> QED
    BY <2>2, <2>3
<1> QED
  BY <1>3, <1>4, <1>5 DEF Disturbed

\* What carrying out an operation does to the world: a create brings something
\* to life that is not alive, a delete destroys what it names.
LEMMA WorldMoves ==
  ASSUME TypeOK, NEW o \in Ops, CanRun(o), cloud' = CloudAfter(o)
  PROVE  \/ World' = World
         \/ /\ o.verb = "create"
            /\ \E i \in Ids : World[i] # "live" /\ World' = [World EXCEPT ![i] = "live"]
         \/ /\ o.verb = "delete" /\ o.id \in Ids /\ World[o.id] = "live"
            /\ World' = [World EXCEPT ![o.id] = "destroyed"]
<1>1. CASE o.verb = "create" /\ ~Collides
  <2>1. NewId \in Ids /\ o.props \in Props /\ cloud' = [cloud EXCEPT ![NewId] = o.props]
    BY <1>1, OpKinds, ProviderTypes DEF CloudAfter
  <2>2. ~(cloud[NewId] \in Props)
    BY <1>1, <2>1, PropsAssumption, ProviderTypes DEF Collides, Live, NewId, Fresh
  <2>3. World[NewId] # "live"
    BY <2>1, <2>2 DEF World, Fate
  <2>4. \A i \in Ids : Fate(i)' = IF i = NewId THEN "live" ELSE Fate(i)
    <3>1. cloud'[NewId] \in Props /\ \A i \in Ids : i # NewId => cloud'[i] = cloud[i]
      BY <2>1 DEF TypeOK
    <3> QED
      BY <3>1, PropsAssumption DEF Fate
  <2>5. World' = [World EXCEPT ![NewId] = "live"]
    BY <2>4 DEF World
  <2> QED
    BY <1>1, <2>1, <2>3, <2>5
<1>2. CASE o.verb = "patch" /\ Outcome(o).code = "OK"
  <2>1. /\ o.id \in Ids /\ o.props \in Props /\ cloud[o.id] \in Props
        /\ cloud' = [cloud EXCEPT ![o.id] = o.props]
    BY <1>2, OpKinds DEF CloudAfter, Outcome, PatchResult, Result, Live
  <2>2. \A i \in Ids : Fate(i)' = Fate(i)
    <3>1. cloud'[o.id] \in Props /\ \A i \in Ids : i # o.id => cloud'[i] = cloud[i]
      BY <2>1 DEF TypeOK
    <3> QED
      BY <2>1, <3>1, PropsAssumption DEF Fate
  <2> QED
    BY <2>2 DEF World
<1>3. CASE o.verb = "delete" /\ Outcome(o).code = "OK"
  <2>1. /\ o.id \in Ids /\ cloud[o.id] \in Props
        /\ cloud' = [cloud EXCEPT ![o.id] = "deleted"]
    BY <1>3, OpKinds DEF CloudAfter, Outcome, DeleteResult, Result, Live
  <2>2. World[o.id] = "live" /\ World' = [World EXCEPT ![o.id] = "destroyed"]
    BY <2>1, PropsAssumption DEF World, Fate, TypeOK
  <2> QED
    BY <1>3, <2>1, <2>2
<1>4. CASE cloud' = cloud
  BY <1>4, WorldStays
<1> QED
  BY <1>1, <1>2, <1>3, <1>4 DEF CloudAfter

\* A running Job of a create or a delete is an order until it has finished.
LEMMA OrderLeaves ==
  ASSUME TypeOK, NEW o \in Ops, jobs[o].phase = "running",
         NEW j, j.phase # "running", jobs' = [jobs EXCEPT ![o] = j]
  PROVE  /\ Orders' = Orders \ {o}
         /\ o \in Orders \/ o.verb \notin {"create", "delete"}
<1>1. \A x \in Ops : jobs'[x].phase = "running" <=> x # o /\ jobs[x].phase = "running"
  BY DEF TypeOK
<1>2. Orders = {x \in Ops : x.verb \in {"create", "delete"} /\ jobs[x].phase = "running"}
  BY OrderKinds DEF Orders
<1>3. Orders' = {x \in Ops : x.verb \in {"create", "delete"} /\ jobs'[x].phase = "running"}
  BY OrderKinds DEF Orders
<1>4. Orders' = Orders \ {o}
  BY <1>1, <1>2, <1>3
<1>5. o \in Orders \/ o.verb \notin {"create", "delete"}
  BY <1>2
<1> QED
  BY <1>4, <1>5

\* A Job is carried out, fails or is lost.
LEMMA CarryLife ==
  ASSUME LifeAll, NEW o \in Ops, JobRuns(o) \/ JobErrs(o) \/ JobLost(o),
         AdoptionIsExact' = AdoptionIsExact
  PROVE  Life!Next \/ UNCHANGED Life!vars
<1> USE DEF LifeAll, FullInv, Inv, TypeInv
<1>1. SameObject /\ Work' = Work /\ status'.id = status.id
  BY DEF JobRuns, JobErrs, JobLost, object, local, ghosts, SameObject, Work
<1>2. /\ jobs[o].phase = "running"
      /\ \E j : j.phase # "running" /\ jobs' = [jobs EXCEPT ![o] = j]
  <2>1. \A r : /\ [phase |-> "complete", res |-> r].phase # "running"
               /\ [phase |-> "failed", res |-> r].phase # "running"
    OBVIOUS
  <2> QED
    BY <2>1 DEF JobRuns, JobErrs, JobLost, CanRun
<1>3. /\ Orders' = Orders \ {o}
      /\ o \in Orders \/ o.verb \notin {"create", "delete"}
  BY <1>2, OrderLeaves
<1>4. \/ World' = World
      \/ /\ o.verb = "create"
         /\ \E i \in Ids : World[i] # "live" /\ World' = [World EXCEPT ![i] = "live"]
      \/ /\ o.verb = "delete" /\ o.id \in Ids /\ World[o.id] = "live"
         /\ World' = [World EXCEPT ![o.id] = "destroyed"]
  BY WorldMoves, WorldStays DEF JobRuns, JobErrs, JobLost
<1>5. CASE o \in Orders
  <2>1. o \in Creations \cup Deletions
    BY <1>5 DEF Orders
  <2>2. Life!CarryOut(o)
    BY <1>1, <1>3, <1>4, <1>5, OrderKinds
       DEF Life!CarryOut, Life!object, SameObject, Work
  <2> QED
    BY <2>1, <2>2 DEF Life!Next
<1>6. CASE o \notin Orders
  <2>1. Orders \ {o} = Orders
    BY <1>6
  <2> QED
    BY <1>1, <1>3, <1>4, <1>6, <2>1, StillLife DEF SameWorld
<1> QED
  BY <1>5, <1>6

\* The world moves on its own: Jobs are carried out or expire, resources vanish.
LEMMA WorldLife ==
  ASSUME LifeAll, Runner \/ Environment
  PROVE  Life!Next \/ UNCHANGED Life!vars
<1> USE DEF LifeAll, FullInv, Inv, TypeInv
<1>1. provider' = provider
  BY DEF Runner, Environment
<1>2. \A f \in FaultKinds \ StaleFaults : Fault(f) => AdoptionIsExact' = AdoptionIsExact
  BY <1>1, ExactStays
<1>3. {"provider", "jobLost", "expire", "drift"} \subseteq FaultKinds \ StaleFaults
  BY DEF FaultKinds, StaleFaults
<1>4. AdoptionIsExact' = AdoptionIsExact
  <2>1. CASE Runner
    BY <1>1, <2>1, WorldStays DEF Runner, fault
  <2>2. CASE Environment
    BY <1>2, <1>3, <2>2 DEF Environment, JobErrs, JobLost, JobExpires, Vanish
  <2> QED
    BY <2>1, <2>2
<1>5. CASE \E o \in Ops : JobRuns(o) \/ JobErrs(o) \/ JobLost(o)
  BY <1>4, <1>5, CarryLife
<1>6. CASE \E o \in Ops : JobExpires(o)
  <2>1. PICK o \in Ops : JobExpires(o)
    BY <1>6
  <2>2. SameObject /\ Work' = Work /\ status'.id = status.id
    BY <2>1 DEF JobExpires, object, local, ghosts, SameObject, Work
  <2>3. \A x \in Ops : jobs'[x].phase = "running" <=> jobs[x].phase = "running"
    BY <2>1 DEF JobExpires, NoJob, TypeOK
  <2>4. Orders' = Orders
    BY <2>3, OrderKinds DEF Orders
  <2>5. World' = World
    BY <2>1, WorldStays DEF JobExpires
  <2> QED
    BY <1>4, <2>2, <2>4, <2>5, StillLife DEF SameWorld
<1>7. CASE \E i \in Ids : Vanish(i)
  <2>1. PICK i \in Ids : Vanish(i)
    BY <1>7
  <2>2. SameObject /\ Work' = Work /\ status'.id = status.id /\ Orders' = Orders
    BY <2>1 DEF Vanish, object, local, ghosts, SameObject, Work, Orders
  <2>3. World[i] = "live"
    BY <2>1, PropsAssumption DEF Vanish, Live, World, Fate
  <2>4. \A x \in Ids : Fate(x)' = IF x = i THEN "vanished" ELSE Fate(x)
    BY <2>1, PropsAssumption DEF Vanish, Fate, TypeOK
  <2>5. World' = [World EXCEPT ![i] = "vanished"]
    BY <2>4 DEF World
  <2>6. Life!Drift(i)
    BY <1>4, <2>2, <2>3, <2>5 DEF Life!Drift, Life!object, SameObject, Work
  <2> QED
    BY <2>6 DEF Life!Next
<1> QED
  BY <1>5, <1>6, <1>7 DEF Runner, Environment

\* The user writes: a deletion takes the object away at once only when no
\* resource is recorded under its finalizer.
LEMMA UserLife ==
  ASSUME LifeAll, FullInv', User
  PROVE  Life!Next \/ UNCHANGED Life!vars
<1> USE DEF LifeAll, FullInv, Inv, TypeInv
<1>1. Work' = Work /\ Orders' = Orders /\ SameWorld
  BY WorldStays DEF User, local, fault, Work, Orders, SameWorld
<1>2. CASE Wake
  <2>1. SameObject /\ status'.id = status.id
    BY <1>2 DEF Wake, object, SameObject
  <2> QED
    BY <1>1, <2>1, StillLife
<1>3. CASE ~Wake
  <2>1. PICK o : /\ UserWrites(o) /\ o.gen \in {obj.gen, obj.gen + 1}
                 /\ o.exists \in BOOLEAN /\ o.orphan \in BOOLEAN
                 /\ UNCHANGED status
    <3>1. \A p \in Props : LET o == [obj EXCEPT !.props = p, !.gen = @ + 1]
                          IN  /\ o.gen = obj.gen + 1 /\ o.exists = obj.exists
                              /\ o.orphan = obj.orphan
      BY DEF TypeOK, Objects
    <3>2. CASE \E p \in Props : EditProps(p)
      BY <1>3, <3>1, <3>2 DEF User, EditProps, TypeOK, Objects
    <3>3. CASE EditPolicy
      BY <1>3, <3>3 DEF User, EditPolicy, TypeOK, Objects
    <3>4. CASE Delete
      BY <1>3, <3>4 DEF User, Delete, TypeOK, Objects
    <3>5. CASE TogglePause \/ Approve
      BY <1>3, <3>5 DEF User, TogglePause, Approve, TypeOK, Objects
    <3> QED
      BY <1>3, <3>2, <3>3, <3>4, <3>5 DEF User
  <2>2. /\ obj.exists /\ obj' = o
        /\ consented' = consented \/ consented' = consented \cup {obj'.gen}
    BY <2>1 DEF UserWrites
  <2>3. ~obj'.exists /\ AdoptionIsExact =>
          obj'.orphan \/ status.id = NoId \/ World[status.id] # "live"
    <3> SUFFICES ASSUME ~obj'.exists, AdoptionIsExact
                 PROVE  obj'.orphan \/ status.id = NoId \/ World[status.id] # "live"
      OBVIOUS
    <3>1. FinalizerGuards'
      BY <1>1 DEF SameWorld, FinalizerInv
    <3>2. obj'.orphan \/ status.id = NoId \/ Dead(status.id)
      BY <2>1, <3>1 DEF FinalizerGuards, Dead, User
    <3> QED
      BY <3>2, PropsAssumption DEF Dead, World, Fate
  <2>4. Life!Write
    BY <1>1, <2>1, <2>2, <2>3 DEF Life!Write, Life!MayGo, SameWorld, Work
  <2> QED
    BY <2>4 DEF Life!Next
<1> QED
  BY <1>2, <1>3

\* A new object starts a life.
LEMMA LifeStart == Init => LifeAll /\ Life!Init
<1> SUFFICES ASSUME Init PROVE LifeInv /\ Life!Init
  BY RecordInit, ConsentInit, TerminalInit DEF LifeAll
<1>1. LifeInv
  BY DEF Init, LifeInv, Busy
<1>2. AdoptionIsExact
  BY DEF Init, AdoptionIsExact
<1>3. Orders = {}
  BY OrderKinds DEF Init, Orders, NoJob
<1>4. World \in [Ids -> {"unborn", "live", "vanished"}]
  <2>1. \A i \in Ids : cloud[i] \in Props \cup {"unborn", "vanished"}
    BY DEF Init
  <2> QED
    BY <2>1, PropsAssumption DEF World, Fate
<1>5. /\ obj.exists = TRUE /\ obj.orphan = FALSE /\ obj.gen = 1
      /\ status.id = NoId /\ pc = "idle" /\ consented \in {{}, {1}}
  BY DEF Init, NewObject, NewStatus
<1>6. Life!Init
  BY <1>2, <1>3, <1>4, <1>5 DEF Life!Init
<1> QED
  BY <1>1, <1>6

\* Every step of the system is one step of the life cycle, or none.
LEMMA LifeStep == LifeAll /\ FullInv' /\ [Next]_vars => [Life!Next]_(Life!vars)
<1> SUFFICES ASSUME LifeAll, FullInv', [Next]_vars PROVE [Life!Next]_(Life!vars)
  OBVIOUS
<1>1. CASE Reconcile
  <2>1. SameWorld
    BY <1>1, WorldStays DEF Reconcile, fault, SameWorld
  <2> QED
    BY <1>1, <2>1, StartLife, GoOnLife DEF Reconcile, Quiet
<1>2. CASE Disturbed
  BY <1>2, DisturbedLife
<1>3. CASE Runner \/ Environment
  BY <1>3, WorldLife
<1>4. CASE User
  BY <1>4, UserLife
<1>5. CASE UNCHANGED vars
  <2>1. SameObject /\ Work' = Work /\ status'.id = status.id /\ Orders' = Orders /\ SameWorld
    BY <1>5, WorldStays
       DEF vars, object, local, fault, ghosts, SameObject, Work, Orders, SameWorld
  <2> QED
    BY <2>1, StillLife
<1> QED
  BY <1>1, <1>2, <1>3, <1>4, <1>5 DEF Next

\* For any ids, documents, providers, faults and edits, the reconciler with its
\* Jobs implements the life cycle of one external resource: it is destroyed only
\* while it is the recorded one and with consent, replaced with consent only,
\* recorded once it was born, forgotten when it is gone, and outlived by the
\* object.
THEOREM LifeTheorem == Spec => ImplementsLife
<1>1. LifeAll /\ [Next]_vars => LifeAll'
  BY RecordStep, ConsentStep, TerminalStep, CopyStep DEF LifeAll, FullInv, Inv
<1>2. LifeAll => FullInv
  BY DEF LifeAll
<1> QED
  BY <1>1, <1>2, LifeStart, LifeStep, PTL DEF Spec, ImplementsLife, Life!Spec
=============================================================================
