------------------------------ MODULE TypedAPI ------------------------------
(***************************************************************************)
(* Typed platform APIs: one generated CustomResourceDefinition that        *)
(* several sources (DoCompositeDefinitions, and the tokens of a            *)
(* DoProvider's typedResources) may claim, the registration of the dynamic *)
(* controller that serves it, and the mirrors this controller keeps for    *)
(* typed objects (internal/controller/docompositedefinition_controller.go, *)
(* typed_controllers.go, typed_crd.go, doprovider_controller.go).          *)
(*                                                                         *)
(* The definition controller and the provider controller have one worker   *)
(* each; every registered typed controller has one, and a superseded one   *)
(* may still be in the middle of a reconcile.  Definitions, typed objects  *)
(* and mirrors are read from caches that lag, CRDs and counts are live.    *)
(* A write conflicts when the object differs from the copy it is based on. *)
(***************************************************************************)
EXTENDS Integers, FiniteSets

CONSTANTS
  Defs,       \* definitions whose spec.api names the CRD
  Tokens,     \* provider tokens whose kind has the same CRD name, of one
              \* DoProvider each
  NoOwner,    \* no owner annotation
  Versions,
  TypedVersion,  \* the version of provider CRDs (v1alpha1)
  APIs,       \* spec.api of a definition: version and deprecatedVersions
  FirstAPIs,  \* initial ones
  Malformed,  \* the ones typedCompositeCRD or checkTemplateParams refuses
  Rejected,   \* the ones the API server refuses
  Strangers,  \* initial CRDs: "none", "unmanaged", "legacy"
  Objects,    \* names of typed objects
  Params,     \* what the spec of a typed object says
  FirstParams, \* initially
  NoParams,
  MaxUids,    \* bound on the number of typed objects ever created
  MaxEvents   \* bound on the number of user actions, failed calls and crashes

Sources == Defs \cup Tokens
KindOf(s) == IF s \in Tokens THEN "DoResource" ELSE "DoComposite"
Mirrors == {KindOf(s) : s \in Sources} \X Objects
AnyParams == Params \cup {NoParams}

ASSUME TypedAPIAssumption ==
  /\ NoOwner \notin Sources /\ Defs \cap Tokens = {}
  /\ TypedVersion \in Versions /\ NoParams \notin Params
  /\ FirstParams \subseteq Params
  /\ APIs \subseteq [ver : Versions, dep : SUBSET Versions]
  /\ FirstAPIs \subseteq APIs /\ FirstAPIs # {}
  /\ Malformed \subseteq APIs /\ Rejected \subseteq APIs
  /\ Strangers \subseteq {"none", "unmanaged", "legacy"}
  /\ Defs # {} /\ IsFiniteSet(Objects)
  /\ Defs \cap Objects = {} /\ Mirrors \cap (Defs \cup Objects) = {}
  /\ MaxUids \in Nat /\ MaxEvents \in Nat /\ ("legacy" \in Strangers => MaxUids >= 2)

VARIABLES
  defs,      \* the definitions
  dcache,    \* the informer cache of definitions
  crd,       \* the CRD
  objs,      \* the typed objects
  ocache,    \* the cache of the registered controller's informer
  mirrors,   \* DoComposites and DoResources under the names of typed objects
  mcache,    \* the informer caches of these two kinds
  unseen,    \* what differs from its cached copy in resourceVersion
  reg,       \* TypedRegistrar.registrations[crd]: at most one entry
  dq, dw,    \* queue and worker of the definition controller
  ready,     \* TypedAPIsReady of the provider of each token
  tq, tws,   \* queue of the current typed controller, and reconciles in flight
  uids, edits, faults,
  late,      \* history: objects stored in a version after prepareVersionDrop
             \* had looked for any
  lost,      \* history: objects deleted with the CRD, though there when counted
  doomed     \* history: definitions that claimed a terminating CRD

cluster == <<defs, crd, objs, mirrors>>
caches  == <<dcache, ocache, mcache>>
typed   == <<reg, tq, tws>>
bounds  == <<uids, edits, faults>>
ghosts  == <<late, lost, doomed>>
vars    == <<cluster, caches, unseen, typed, dq, dw, ready, bounds, ghosts>>

-----------------------------------------------------------------------------
(* Types *)

Reasons == {"None", "Served", "InvalidSchema", "CRDConflict",
            "StoredVersionInUse", "DeletionBlocked"}
Definitions == [state : {"absent", "live", "deleting"}, api : APIs,
                fin : BOOLEAN, cond : Reasons]
CRDs == [state : {"none", "live", "terminating"}, managed : BOOLEAN,
         owner : Sources \cup {NoOwner}, vers : SUBSET Versions,
         storage : Versions, stored : SUBSET Versions]
\* uid 0: no such object; sver: the version it is stored in; st: its status.
TypedObjects == [uid : 0..MaxUids, p : AnyParams, sver : Versions,
                 st : AnyParams, deleting : BOOLEAN]
\* ctl: the uid of the controlling typed object, 0 for a mirror somebody made
\* by hand, -1 for none.
MirrorObjects == [ctl : -1..MaxUids, src : Sources \cup {NoOwner},
                  p : AnyParams, st : AnyParams]
Registrations == [owner : Sources \cup {NoOwner}, ver : Versions, heard : BOOLEAN]
\* copy: the CRD as prepareVersionDrop read it; seen: the objects listed.
DefWorkers == [pc : {"idle", "prepare", "list", "prune", "apply", "start",
                     "count", "drop", "forget", "unhook", "release"},
               d : Defs, me : Definitions, fresh : BOOLEAN, ver : Versions,
               copy : CRDs, seen : SUBSET (1..MaxUids)]
\* cur: of the current registration; c: the copy of the object, fresh as long
\* as its resourceVersion is the object's; st: the mirror's status.
Reconciles == [cur : BOOLEAN, pc : {"write", "status"}, src : Sources,
               ver : Versions, o : Objects, c : TypedObjects, fresh : BOOLEAN,
               st : AnyParams]

NoDefinition == [state |-> "absent", api |-> CHOOSE a \in APIs : TRUE,
                 fin |-> FALSE, cond |-> "None"]
NoCRD == [state |-> "none", managed |-> FALSE, owner |-> NoOwner,
          vers |-> {}, storage |-> TypedVersion, stored |-> {}]
NoObject == [uid |-> 0, p |-> NoParams, sver |-> TypedVersion, st |-> NoParams,
             deleting |-> FALSE]
NoMirror == [ctl |-> -1, src |-> NoOwner, p |-> NoParams, st |-> NoParams]
HandMade == [NoMirror EXCEPT !.ctl = 0]
NoRegistration == [owner |-> NoOwner, ver |-> TypedVersion, heard |-> FALSE]
Idle == [pc |-> "idle", d |-> CHOOSE d \in Defs : TRUE, me |-> NoDefinition,
         fresh |-> FALSE, ver |-> TypedVersion, copy |-> NoCRD, seen |-> {}]

TypeOK ==
  /\ defs \in [Defs -> Definitions] /\ dcache \in [Defs -> Definitions]
  /\ crd \in CRDs
  /\ objs \in [Objects -> TypedObjects] /\ ocache \in [Objects -> TypedObjects]
  /\ mirrors \in [Mirrors -> MirrorObjects] /\ mcache \in [Mirrors -> MirrorObjects]
  /\ unseen \subseteq Defs \cup Objects \cup Mirrors
  /\ reg \in Registrations
  /\ dq \subseteq Defs /\ dw \in DefWorkers
  /\ ready \in [Tokens -> {"None", "TypedAPIsReady", "TypedAPIFailed"}]
  /\ tq \subseteq Objects /\ tws \subseteq Reconciles
  /\ uids \in 0..MaxUids /\ edits \in Nat /\ faults \in Nat
  /\ late \subseteq 1..MaxUids
  /\ lost \subseteq [uid : 1..MaxUids, served : BOOLEAN]
  /\ doomed \subseteq Defs

\* A CRD of another operator, or one of a release without owner annotations,
\* with an object made again, in one event, while the manager was down: the
\* DoComposite of its predecessor is not collected yet.
FirstCRD(s) ==
  IF s = "none" THEN NoCRD
  ELSE [state |-> "live", managed |-> s = "legacy", owner |-> NoOwner,
        vers |-> {TypedVersion}, storage |-> TypedVersion, stored |-> {TypedVersion}]

Init ==
  /\ \E a \in FirstAPIs :
       defs = [d \in Defs |-> [NoDefinition EXCEPT !.state = "live", !.api = a]]
  /\ dcache = defs
  /\ \E s \in Strangers, first \in Objects, p \in FirstParams :
       LET again == IF s = "legacy" THEN {first} ELSE {} IN
       /\ crd = FirstCRD(s)
       /\ uids = 2 * Cardinality(again) /\ edits = Cardinality(again)
       /\ objs = [o \in Objects |-> IF o \in again
                    THEN [NoObject EXCEPT !.uid = 2, !.p = p] ELSE NoObject]
       /\ mirrors = [m \in Mirrors |-> IF m[1] = "DoComposite" /\ m[2] \in again
                       THEN [NoMirror EXCEPT !.ctl = 1, !.p = p] ELSE NoMirror]
  /\ ocache = objs /\ mcache = mirrors
  /\ unseen = {}
  /\ reg = NoRegistration
  /\ dq = Defs /\ dw = Idle /\ ready = [t \in Tokens |-> "None"]
  /\ tq = {} /\ tws = {}
  /\ faults = 0
  /\ late = {} /\ lost = {} /\ doomed = {}

-----------------------------------------------------------------------------
(* CRDs and resource versions *)

\* Every change of an object gives it a new resourceVersion.
Touched == {d \in Defs : defs'[d] # defs[d]} \cup {o \in Objects : objs'[o] # objs[o]}
             \cup {m \in Mirrors : mirrors'[m] # mirrors[m]}

\* A new registration has a new informer.
Noted == unseen' = (unseen \cup Touched) \ (IF reg' = reg THEN {} ELSE Objects)

Outdated(ts) ==
  {IF objs'[t.o] # objs[t.o] THEN [t EXCEPT !.fresh = FALSE] ELSE t : t \in ts}

Existing == {objs[o].uid : o \in Objects} \ {0}
Kept(a) == {a.ver} \cup a.dep

\* Mutation: the owner annotation is not compared.
OwnsAnyManaged(s) == crd.managed

checkCRDOwnership(s) == crd.managed /\ crd.owner \in {NoOwner, s}

\* The API server refuses to drop a version that is in storedVersions.
Accepted(vers) == crd.state = "none" \/ crd.stored \subseteq vers

\* applyCRD, once nothing stands in its way; the API server adds the storage
\* version to storedVersions.
Applied(s, vers, ver) ==
  IF crd.state = "none"
  THEN [state |-> "live", managed |-> TRUE, owner |-> s, vers |-> vers,
        storage |-> ver, stored |-> {ver}]
  ELSE [crd EXCEPT !.owner = s, !.vers = vers, !.storage = ver, !.stored = @ \cup {ver}]

\* Mutation: a registration is kept whatever version it watches.
KeepsVersion(s, ver) ==
  IF reg.owner = s
  THEN UNCHANGED <<typed, ocache>>
  ELSE /\ reg' = [owner |-> s, ver |-> ver, heard |-> TRUE]
       /\ ocache' = objs
       /\ tq' = {o \in Objects : objs[o].uid # 0}
       /\ tws' = {[t EXCEPT !.cur = FALSE] : t \in tws}

\* startController: the registration of s for this version stays; any other
\* is superseded, and its reconciles in flight go on.
startController(s, ver) ==
  IF reg.owner = s /\ reg.ver = ver
  THEN UNCHANGED <<typed, ocache>>
  ELSE /\ reg' = [owner |-> s, ver |-> ver, heard |-> TRUE]
       /\ ocache' = objs
       /\ tq' = {o \in Objects : objs[o].uid # 0}
       /\ tws' = {[t EXCEPT !.cur = FALSE] : t \in tws}

-----------------------------------------------------------------------------
(* DoCompositeDefinitionReconciler *)

\* Reconcile returns; again: with an error or RequeueAfter.
Return(again) ==
  /\ dw' = Idle
  /\ dq' = IF again THEN dq \cup {dw.d} ELSE dq

\* persistDefinitionStatus: to whatever object has the name now.
Condition(d, reason) ==
  defs' = IF defs[d].state = "absent" THEN defs ELSE [defs EXCEPT ![d].cond = reason]

Goto(pc) == dw' = [dw EXCEPT !.pc = pc] /\ UNCHANGED dq

\* Reconcile up to the finalizer.
Nothing(d) ==
  LET me == dcache[d] IN
  /\ me.state = "absent" \/ (me.state = "deleting" /\ ~me.fin)
  /\ UNCHANGED <<defs, dw>>

\* Mutation: the reason has no name of its own.
InvalidUnnamed(d) ==
  /\ dcache[d].state = "live" /\ dcache[d].api \in Malformed
  /\ Condition(d, "Invalid")
  /\ UNCHANGED dw

\* typedCompositeCRD or checkTemplateParams fails; a group that is not on the
\* install-time list ends the same way, for good.
Invalid(d) ==
  /\ dcache[d].state = "live" /\ dcache[d].api \in Malformed
  /\ Condition(d, "InvalidSchema")
  /\ UNCHANGED dw

\* Mutation: the API is served without the finalizer.
ServesUnguarded(d) ==
  /\ dcache[d].state = "live" /\ dcache[d].api \notin Malformed
  /\ dw' = [Idle EXCEPT !.pc = "prepare", !.d = d, !.me = dcache[d]]
  /\ UNCHANGED defs

Serve(d) ==
  LET me == dcache[d]
      ok == [me EXCEPT !.fin = TRUE]
  IN /\ me.state = "live" /\ me.api \notin Malformed
     /\ me.fin \/ d \notin unseen
     /\ defs' = IF me.fin THEN defs ELSE [defs EXCEPT ![d] = ok]
     /\ dw' = [Idle EXCEPT !.pc = "prepare", !.d = d, !.me = ok]

finalizeDefinition(d) ==
  /\ dcache[d].state = "deleting" /\ dcache[d].fin
  /\ dw' = [Idle EXCEPT !.pc = "count", !.d = d, !.me = dcache[d], !.fresh = d \notin unseen]
  /\ UNCHANGED defs

Reconcile(d) ==
  /\ dw.pc = "idle" /\ d \in dq
  /\ dq' = dq \ {d}
  /\ Nothing(d) \/ Invalid(d) \/ Serve(d) \/ finalizeDefinition(d)
  /\ UNCHANGED <<crd, objs, mirrors, caches, typed, ghosts>>

\* The finalizer cannot be added to an object that has changed: retried.
FinalizerConflict(d) ==
  LET me == dcache[d] IN
  /\ dw.pc = "idle" /\ d \in dq
  /\ me.state = "live" /\ me.api \notin Malformed /\ ~me.fin /\ d \in unseen
  /\ UNCHANGED <<cluster, caches, typed, dq, dw, ghosts>>

\* prepareVersionDrop, its Get: no CRD, or no stored version to drop, leaves
\* nothing to prepare.
prepareVersionDrop ==
  /\ dw.pc = "prepare"
  /\ \/ /\ crd.stored \subseteq Kept(dw.me.api)
        /\ Goto("apply")
     \/ /\ ~(crd.stored \subseteq Kept(dw.me.api))
        /\ dw' = [dw EXCEPT !.pc = "list", !.copy = crd] /\ UNCHANGED dq
  /\ UNCHANGED <<cluster, caches, typed, ghosts>>

\* Mutation: a version is dropped whatever objects there are.
DropsUnchecked ==
  /\ dw.pc = "list"
  /\ dw' = [dw EXCEPT !.pc = "prune", !.seen = Existing]
  /\ UNCHANGED <<cluster, caches, typed, dq, ghosts>>

\* Its List, in the storage version of the CRD it has read, which is an error
\* when that is no longer served.
listBeforeDrop ==
  LET served == dw.copy.storage \in crd.vers IN
  /\ dw.pc = "list"
  /\ \/ /\ ~served
        /\ Return(TRUE) /\ UNCHANGED defs
     \/ /\ served /\ Existing # {}
        /\ Condition(dw.d, "StoredVersionInUse") /\ Return(TRUE)
     \/ /\ served /\ Existing = {}
        /\ dw' = [dw EXCEPT !.pc = "prune", !.seen = Existing]
        /\ UNCHANGED <<defs, dq>>
  /\ UNCHANGED <<crd, objs, mirrors, caches, typed, ghosts>>

\* Its Status().Update: a conflict when the CRD is not the one it has read.
\* What was stored since the List in a version that goes is late.
pruneStoredVersions ==
  LET dropped == dw.copy.stored \ Kept(dw.me.api)
      missed == {o \in Objects : objs[o].uid \notin dw.seen /\ objs[o].sver \in dropped}
  IN /\ dw.pc = "prune"
     /\ \/ /\ crd = dw.copy
           /\ crd' = [crd EXCEPT !.stored = @ \ dropped]
           /\ late' = late \cup ({objs[o].uid : o \in missed} \ {0})
           /\ dw' = [dw EXCEPT !.pc = "apply", !.copy = NoCRD] /\ UNCHANGED dq
        \/ /\ crd # dw.copy
           /\ Return(TRUE) /\ UNCHANGED <<crd, late>>
     /\ UNCHANGED <<defs, objs, mirrors, caches, typed, lost, doomed>>

applyCRD ==
  LET a == dw.me.api IN
  /\ dw.pc = "apply"
  /\ \/ /\ crd.state = "none" \/ checkCRDOwnership(dw.d)
        /\ Accepted(Kept(a)) /\ a \notin Rejected
        /\ crd' = Applied(dw.d, Kept(a), a.ver)
        /\ doomed' = IF crd.state = "terminating" THEN doomed \cup {dw.d} ELSE doomed \ {dw.d}
        /\ Goto("start") /\ UNCHANGED defs
     \/ /\ crd.state = "none" \/ checkCRDOwnership(dw.d)
        /\ ~Accepted(Kept(a)) \/ a \in Rejected
        /\ Condition(dw.d, "InvalidSchema") /\ Return(FALSE) /\ UNCHANGED <<crd, doomed>>
     \/ /\ crd.state # "none" /\ ~checkCRDOwnership(dw.d)
        /\ Condition(dw.d, "CRDConflict") /\ Return(FALSE) /\ UNCHANGED <<crd, doomed>>
  /\ UNCHANGED <<objs, mirrors, caches, typed, late, lost>>

\* The rest of EnsureCompositeAPI and of Reconcile; again in a minute.
serveCompositeAPI ==
  /\ dw.pc = "start"
  /\ startController(dw.d, dw.me.api.ver)
  /\ Condition(dw.d, "Served") /\ Return(TRUE)
  /\ UNCHANGED <<crd, objs, mirrors, dcache, mcache, ghosts>>

\* totalTypedObjects lists the version of the definition; a version that is
\* not served has no objects.
ServedTo(me) == crd.state # "none" /\ me.api.ver \in crd.vers

\* Mutation: the objects are counted in the cache of the typed controller.
CountsCached ==
  /\ dw.pc = "count"
  /\ \/ /\ \E o \in Objects : ocache[o].uid # 0
        /\ Condition(dw.d, "DeletionBlocked") /\ Return(TRUE)
     \/ /\ \A o \in Objects : ocache[o].uid = 0
        /\ dw' = [dw EXCEPT !.pc = "drop", !.seen = Existing]
        /\ UNCHANGED <<defs, dq>>
  /\ UNCHANGED <<crd, objs, mirrors, caches, typed, ghosts>>

\* Mutation: a blocked deletion is not looked at again.
BlocksForGood ==
  /\ dw.pc = "count"
  /\ \/ /\ ServedTo(dw.me) /\ Existing # {}
        /\ Condition(dw.d, "DeletionBlocked") /\ Return(FALSE)
     \/ /\ ~(ServedTo(dw.me) /\ Existing # {})
        /\ dw' = [dw EXCEPT !.pc = "drop", !.seen = Existing]
        /\ UNCHANGED <<defs, dq>>
  /\ UNCHANGED <<crd, objs, mirrors, caches, typed, ghosts>>

countObjects ==
  /\ dw.pc = "count"
  /\ \/ /\ ServedTo(dw.me) /\ Existing # {}
        /\ Condition(dw.d, "DeletionBlocked") /\ Return(TRUE)
     \/ /\ ~(ServedTo(dw.me) /\ Existing # {})
        /\ dw' = [dw EXCEPT !.pc = "drop", !.seen = Existing]
        /\ UNCHANGED <<defs, dq>>
  /\ UNCHANGED <<crd, objs, mirrors, caches, typed, ghosts>>

\* deleteServedCRD: the CRD is left alone unless it is this definition's.
deleteServedCRD ==
  LET ours == crd.state # "none" /\ crd.managed /\ crd.owner = dw.d IN
  /\ dw.pc = "drop"
  /\ \/ /\ ours
        /\ crd' = [crd EXCEPT !.state = "terminating"]
        /\ lost' = lost \cup [uid : Existing \cap dw.seen, served : {ServedTo(dw.me)}]
        /\ Goto("forget")
     \/ /\ ~ours
        /\ Goto("release") /\ UNCHANGED <<crd, lost>>
  /\ UNCHANGED <<defs, objs, mirrors, caches, typed, late, doomed>>

\* Forget: the entry goes under the lock, whoever owns it; its informer is
\* removed after the unlock.
Forget ==
  /\ dw.pc = "forget"
  /\ \/ /\ reg.owner = NoOwner
        /\ Goto("release") /\ UNCHANGED typed
     \/ /\ reg.owner # NoOwner
        /\ dw' = [dw EXCEPT !.pc = "unhook", !.ver = reg.ver] /\ UNCHANGED dq
        /\ reg' = NoRegistration /\ tq' = {}
        /\ tws' = {[t EXCEPT !.cur = FALSE] : t \in tws}
  /\ UNCHANGED <<cluster, caches, ghosts>>

removeInformer ==
  /\ dw.pc = "unhook"
  /\ reg' = [reg EXCEPT !.heard = @ /\ reg.ver # dw.ver]
  /\ Goto("release")
  /\ UNCHANGED <<cluster, caches, tq, tws, ghosts>>

\* RemoveFinalizer and Update.
releaseDefinition ==
  /\ dw.pc = "release"
  /\ \/ /\ dw.fresh
        /\ defs' = [defs EXCEPT ![dw.d] = NoDefinition]
        /\ Return(FALSE)
     \/ /\ ~dw.fresh
        /\ Return(TRUE) /\ UNCHANGED defs
  /\ UNCHANGED <<crd, objs, mirrors, caches, typed, ghosts>>

DefinitionStep ==
  /\ \/ prepareVersionDrop \/ listBeforeDrop \/ pruneStoredVersions
     \/ applyCRD \/ serveCompositeAPI \/ countObjects
     \/ deleteServedCRD \/ Forget \/ removeInformer \/ releaseDefinition
  /\ UNCHANGED <<ready, bounds>>
  /\ Noted

-----------------------------------------------------------------------------
(* DoProviderReconciler.ensureTypedResources, repeated every ten minutes.  *)
(* One step: a CRD that this provider owns is nobody else's to change but  *)
(* for its storedVersions, so what happens before startController may as   *)
(* well happen before applyCRD.                                            *)

ensureTypedResources(t) ==
  LET ok == /\ crd.state = "none" \/ checkCRDOwnership(t)
            /\ Accepted({TypedVersion})
  IN \/ /\ ok
        /\ crd' = Applied(t, {TypedVersion}, TypedVersion)
        /\ startController(t, TypedVersion)
        /\ ready' = [ready EXCEPT ![t] = "TypedAPIsReady"]
     \/ /\ ~ok
        /\ ready' = [ready EXCEPT ![t] = "TypedAPIFailed"] /\ UNCHANGED <<crd, typed, ocache>>

ProviderStep(t) ==
  /\ ensureTypedResources(t)
  /\ UNCHANGED <<defs, objs, mirrors, dcache, mcache, dq, dw, bounds, ghosts>>
  /\ Noted

-----------------------------------------------------------------------------
(* TypedCompositeReconciler and TypedResourceReconciler *)

\* isCurrent holds for the registered reconciler only.  Without its informer
\* the Get starts a new one and returns the present object.
Translate(o) ==
  LET c == IF reg.heard THEN ocache[o] ELSE objs[o]
      job == [cur |-> TRUE, pc |-> "write", src |-> reg.owner, ver |-> reg.ver,
              o |-> o, c |-> c, fresh |-> reg.heard => o \notin unseen,
              st |-> NoParams]
  IN /\ reg.owner # NoOwner /\ o \in tq /\ \A t \in tws : ~t.cur
     /\ tq' = tq \ {o}
     /\ tws' = IF c.uid = 0 \/ c.deleting THEN tws ELSE tws \cup {job}
     /\ UNCHANGED <<cluster, caches, reg, ghosts>>

\* An error: the request returns to the queue of t's controller, which is
\* fenced off when it is not the current one.
Fails(t) == tws' = tws \ {t} /\ tq' = IF t.cur THEN tq \cup {t.o} ELSE tq

MirrorOf(t) == <<KindOf(t.src), t.o>>

\* Mutation: a mirror is taken over whoever controls it.
TakesOver(t) == TRUE

ensureControlled(t) == mcache[MirrorOf(t)].ctl \in {-1, t.c.uid}

\* CreateOrUpdate works on the cached mirror; a create of one that exists and
\* an update of one that has changed fail.
CreateOrUpdate(t) ==
  LET m == MirrorOf(t)
      old == mcache[m]
      new == [old EXCEPT !.ctl = t.c.uid, !.src = t.src, !.p = t.c.p]
      next == [t EXCEPT !.pc = "status", !.st = new.st]
  IN /\ t.pc = "write"
     /\ \/ /\ ensureControlled(t) /\ (new = old \/ m \notin unseen)
           /\ mirrors' = [mirrors EXCEPT ![m] = IF new = old THEN @ ELSE new]
           /\ tws' = (tws \ {t}) \cup {next} /\ UNCHANGED tq
        \/ /\ ~(ensureControlled(t) /\ (new = old \/ m \notin unseen))
           /\ Fails(t) /\ UNCHANGED mirrors
     /\ UNCHANGED <<defs, crd, objs, caches, reg, ghosts>>

\* Every write stores an object in the storage version.
Stored(o, obj) ==
  /\ objs' = [objs EXCEPT ![o] = [obj EXCEPT !.sver = crd.storage]]
  /\ late' = IF crd.storage \in crd.stored THEN late \ {obj.uid} ELSE late \cup {obj.uid}

\* Nothing to write, or nowhere to write it (NotFound is ignored), the status
\* of the copy read at the start, or a conflict.
mirrorStatusBack(t) ==
  LET gone == objs[t.o].uid = 0 \/ t.ver \notin crd.vers
      done == t.c.st = t.st \/ gone
  IN /\ t.pc = "status"
     /\ \/ /\ done
           /\ tws' = tws \ {t} /\ UNCHANGED <<objs, late, tq>>
        \/ /\ ~done /\ t.fresh
           /\ Stored(t.o, [t.c EXCEPT !.st = t.st])
           /\ tws' = Outdated(tws \ {t}) /\ UNCHANGED tq
        \/ /\ ~done /\ ~t.fresh
           /\ Fails(t) /\ UNCHANGED <<objs, late>>
     /\ UNCHANGED <<defs, crd, mirrors, caches, reg, lost, doomed>>

TypedStep(cur) ==
  /\ \E t \in tws : t.cur = cur /\ (CreateOrUpdate(t) \/ mirrorStatusBack(t))
  /\ UNCHANGED <<dq, dw, ready, bounds>>
  /\ Noted

-----------------------------------------------------------------------------
(* Kubernetes *)

\* A definition's events reach the queue with the cache.
SyncDefinition(d) ==
  /\ d \in unseen /\ unseen' = unseen \ {d}
  /\ dcache' = [dcache EXCEPT ![d] = defs[d]]
  /\ dq' = dq \cup {d}
  /\ UNCHANGED <<cluster, ocache, mcache, typed>>

SyncObject(o) ==
  /\ reg.heard /\ o \in unseen /\ unseen' = unseen \ {o}
  /\ ocache' = [ocache EXCEPT ![o] = objs[o]]
  /\ tq' = tq \cup {o}
  /\ UNCHANGED <<cluster, dcache, mcache, reg, tws, dq>>

\* Mutation: the mirrors are not watched.
NotWatched(m) ==
  /\ m \in unseen /\ unseen' = unseen \ {m}
  /\ mcache' = [mcache EXCEPT ![m] = mirrors[m]]
  /\ UNCHANGED <<cluster, dcache, ocache, reg, tq, tws, dq>>

\* The controller of a mirror, before or after the event, is enqueued.
SyncMirror(m) ==
  /\ m \in unseen /\ unseen' = unseen \ {m}
  /\ mcache' = [mcache EXCEPT ![m] = mirrors[m]]
  /\ tq' = IF /\ reg.owner # NoOwner /\ KindOf(reg.owner) = m[1]
              /\ mcache[m].ctl > 0 \/ mirrors[m].ctl > 0
           THEN tq \cup {m[2]} ELSE tq
  /\ UNCHANGED <<cluster, dcache, ocache, reg, tws, dq>>

HearDefinition(d) == SyncDefinition(d) /\ UNCHANGED <<dw, ready, bounds, ghosts>>
HearObject(o) == SyncObject(o) /\ UNCHANGED <<dw, ready, bounds, ghosts>>
HearMirror(m) == SyncMirror(m) /\ UNCHANGED <<dw, ready, bounds, ghosts>>

\* A terminating CRD takes all objects with it.
CRDCleanup ==
  /\ crd.state = "terminating"
  /\ crd' = NoCRD
  /\ objs' = [o \in Objects |-> NoObject]
  /\ UNCHANGED <<defs, mirrors>>

\* Garbage collection of mirrors, and of an object deleted in the foreground.
CollectMirror(m) ==
  LET o == objs[m[2]] IN
  /\ mirrors[m].ctl > 0 /\ (o.uid # mirrors[m].ctl \/ o.deleting)
  /\ mirrors' = [mirrors EXCEPT ![m] = NoMirror]
  /\ UNCHANGED <<defs, crd, objs>>

CollectObject(o) ==
  /\ objs[o].deleting
  /\ \A m \in Mirrors : mirrors[m].ctl # objs[o].uid
  /\ objs' = [objs EXCEPT ![o] = NoObject]
  /\ UNCHANGED <<defs, crd, mirrors>>

\* The controller of the mirror's own kind reports on what it was asked for.
MirrorReports(m) ==
  /\ mirrors[m].ctl > 0 /\ mirrors[m].st # mirrors[m].p
  /\ mirrors' = [mirrors EXCEPT ![m].st = mirrors[m].p]
  /\ UNCHANGED <<defs, crd, objs>>

Kubernetes ==
  /\ \/ CRDCleanup
     \/ \E m \in Mirrors : CollectMirror(m) \/ MirrorReports(m)
     \/ \E o \in Objects : CollectObject(o)
  /\ tws' = Outdated(tws)
  /\ UNCHANGED <<caches, reg, tq, dq, dw, ready, bounds, ghosts>>
  /\ Noted

-----------------------------------------------------------------------------
(* Users and faults *)

CreateDefinition(d) ==
  /\ defs[d].state = "absent"
  /\ \E a \in FirstAPIs :
       defs' = [defs EXCEPT ![d] = [NoDefinition EXCEPT !.state = "live", !.api = a]]
  /\ UNCHANGED <<crd, objs, mirrors, uids, late>>

\* Kind, plural and group are immutable, versions are not.
EditAPI(d) ==
  /\ defs[d].state # "absent"
  /\ \E a \in APIs \ {defs[d].api} : defs' = [defs EXCEPT ![d].api = a]
  /\ UNCHANGED <<crd, objs, mirrors, uids, late>>

DeleteDefinition(d) ==
  /\ defs[d].state = "live"
  /\ defs' = [defs EXCEPT ![d] = IF defs[d].fin THEN [@ EXCEPT !.state = "deleting"]
                                 ELSE NoDefinition]
  /\ UNCHANGED <<crd, objs, mirrors, uids, late>>

CreateObject(o) ==
  /\ crd.state = "live" /\ objs[o].uid = 0 /\ uids < MaxUids
  /\ uids' = uids + 1
  /\ \E p \in FirstParams : Stored(o, [NoObject EXCEPT !.uid = uids + 1, !.p = p])
  /\ UNCHANGED <<defs, crd, mirrors>>

EditObject(o) ==
  /\ crd.state = "live" /\ objs[o].uid # 0
  /\ \E p \in Params \ {objs[o].p} : Stored(o, [objs[o] EXCEPT !.p = p])
  /\ UNCHANGED <<defs, crd, mirrors, uids>>

DeleteObject(o) ==
  /\ objs[o].uid # 0 /\ ~objs[o].deleting
  /\ \/ objs' = [objs EXCEPT ![o] = NoObject]
     \/ objs' = [objs EXCEPT ![o].deleting = TRUE]
  /\ UNCHANGED <<defs, crd, mirrors, uids, late>>

\* Somebody makes a DoComposite or DoResource of that name, or deletes it.
CreateByHand(m) ==
  /\ mirrors[m] = NoMirror
  /\ mirrors' = [mirrors EXCEPT ![m] = HandMade]
  /\ UNCHANGED <<defs, crd, objs, uids, late>>

DeleteByHand(m) ==
  /\ mirrors[m].ctl = 0
  /\ mirrors' = [mirrors EXCEPT ![m] = NoMirror]
  /\ UNCHANGED <<defs, crd, objs, uids, late>>

User ==
  /\ edits + faults < MaxEvents /\ edits' = edits + 1
  /\ \/ \E d \in Defs : CreateDefinition(d) \/ EditAPI(d) \/ DeleteDefinition(d)
     \/ \E o \in Objects : CreateObject(o) \/ EditObject(o) \/ DeleteObject(o)
     \/ \E m \in Mirrors : CreateByHand(m) \/ DeleteByHand(m)
  /\ tws' = Outdated(tws)
  /\ dw' = IF defs'[dw.d] # defs[dw.d] THEN [dw EXCEPT !.fresh = FALSE] ELSE dw
  /\ UNCHANGED <<caches, reg, tq, dq, ready, faults, lost, doomed>>
  /\ Noted

Fault == edits + faults < MaxEvents /\ faults' = faults + 1

\* totalTypedObjects counts 1 when the list fails.
ListFails ==
  /\ Fault /\ dw.pc = "count"
  /\ Condition(dw.d, "DeletionBlocked") /\ Return(TRUE)
  /\ UNCHANGED <<crd, objs, mirrors, caches, typed, ready, uids, edits, ghosts>>
  /\ Noted

\* A call fails and Reconcile returns the error.
CallFails ==
  /\ Fault /\ dw.pc \in {"prepare", "list", "prune", "apply", "drop", "release"}
  /\ Return(TRUE)
  /\ UNCHANGED <<cluster, caches, unseen, typed, ready, uids, edits, ghosts>>

\* The API is served, and persistDefinitionStatus fails.
StatusFails ==
  /\ Fault /\ dw.pc = "start"
  /\ startController(dw.d, dw.me.api.ver) /\ Return(TRUE)
  /\ UNCHANGED <<cluster, dcache, mcache, ready, uids, edits, ghosts>>
  /\ Noted

\* The manager restarts: registrations are lost, caches are filled again.
Restart ==
  /\ Fault
  /\ dcache' = defs /\ ocache' = objs /\ mcache' = mirrors /\ unseen' = {}
  /\ reg' = NoRegistration /\ tq' = {} /\ tws' = {}
  /\ dq' = Defs /\ dw' = Idle
  /\ UNCHANGED <<cluster, ready, uids, edits, ghosts>>

Begin(d) ==
  /\ Reconcile(d) \/ FinalizerConflict(d)
  /\ UNCHANGED <<ready, bounds>>
  /\ Noted
BeginTyped(o) == Translate(o) /\ UNCHANGED <<unseen, dq, dw, ready, bounds>>

Next ==
  \/ \E d \in Defs : Begin(d)
  \/ DefinitionStep
  \/ \E t \in Tokens : ProviderStep(t)
  \/ \E o \in Objects : BeginTyped(o)
  \/ TypedStep(TRUE) \/ TypedStep(FALSE)
  \/ \E d \in Defs : HearDefinition(d)
  \/ \E o \in Objects : HearObject(o)
  \/ \E m \in Mirrors : HearMirror(m)
  \/ Kubernetes \/ User
  \/ ListFails \/ CallFails \/ StatusFails \/ Restart

Spec == Init /\ [][Next]_vars

\* Workqueues serve every request, informers catch up, and Kubernetes
\* finishes what it has started.
FairSpec ==
  /\ Spec
  /\ \A d \in Defs : SF_vars(Begin(d))
  /\ WF_vars(DefinitionStep)
  /\ \A t \in Tokens : WF_vars(ProviderStep(t))
  /\ \A o \in Objects : SF_vars(BeginTyped(o))
  /\ WF_vars(TypedStep(TRUE)) /\ WF_vars(TypedStep(FALSE))
  /\ \A d \in Defs : WF_vars(HearDefinition(d))
  /\ \A o \in Objects : WF_vars(HearObject(o))
  /\ \A m \in Mirrors : WF_vars(HearMirror(m))
  /\ WF_vars(Kubernetes)

-----------------------------------------------------------------------------
(* Properties *)

\* A generated CRD is never left behind: as long as it is owned by a
\* definition (annTypedOwner) and not terminating, that definition exists and
\* carries the typed-api finalizer, whatever restarts, conflicts and stale
\* reads happen between the finalizer, the CRD and the release.
CRDHasDefinition ==
  crd.state = "live" /\ crd.owner \in Defs =>
     defs[crd.owner].state # "absent" /\ defs[crd.owner].fin

\* Two definitions never both report Served for the one CRD, and none does
\* while a provider serves it: a definition loses its CRD only when it is
\* being deleted, or when the CRD it claimed was already terminating (updates
\* of such a CRD succeed).
ServedOnce ==
  \A d \in Defs :
    defs[d].state = "live" /\ defs[d].cond = "Served" /\ d \notin doomed =>
      \A s \in Sources \ {d} : crd.owner # s

\* typedAPIFinalizer blocks definition deletion while typed objects of its
\* API still exist.
DeletionWaitsForObjects == lost = {}

\* The same, when the version of spec.api is one that the CRD serves: no
\* object that was there when they were counted goes with the CRD.
DeletionWaitsWhenServed == \A l \in lost : ~l.served

\* prepareVersionDrop: no version is dropped while an object exists that is
\* stored in it.  platform-apis.md states it of every object; the code does not
\* keep it for one stored after the List (between it and the pruning of
\* storedVersions, or between that and applyCRD), which is excepted (late).
ObjectsStayReadable ==
  \A o \in Objects :
    objs[o].uid # 0 /\ objs[o].uid \notin late => objs[o].sver \in crd.vers

\* What somebody else owns stays as it is, whoever claims its name: a mirror no
\* typed object controls is changed by users only, a CRD goes over to no other
\* owner while it exists, and one without doplane's label keeps everything but
\* the entries of storedVersions that prepareVersionDrop prunes before
\* checkCRDOwnership has looked at it.  That pruning contradicts the comment of
\* annTypedOwner, by which a foreign CRD is never overwritten.
ForeignKept ==
  [][edits' = edits =>
      /\ crd.state = "live" /\ ~crd.managed =>
           crd' = [crd EXCEPT !.stored = crd'.stored] /\ crd'.stored \subseteq crd.stored
      /\ crd.state # "none" /\ crd.owner # NoOwner => crd'.owner \in {crd.owner, NoOwner}
      /\ \A m \in Mirrors : mirrors[m].ctl = 0 => mirrors'[m] = mirrors[m]]_vars

Claimed(d) ==
  /\ crd.state = "live" /\ crd.owner = d
  /\ crd.vers = Kept(defs[d].api) /\ crd.storage = defs[d].api.ver
  /\ reg.owner = d /\ reg.ver = crd.storage

\* A definition comes to rest in a condition that is true: Served with the
\* CRD and the controller of its present versions, refused for its own
\* faults, or waiting for objects; CRDConflict is final.  And a provider ends
\* up TypedAPIsReady exactly when it owns the CRD and its controller runs.
APISettles ==
  /\ <>[](\A d \in Defs : defs[d].state = "live" =>
            \/ defs[d].cond = "Served" /\ Claimed(d)
            \/ defs[d].cond = "InvalidSchema" /\ defs[d].api \in Malformed \cup Rejected
            \/ defs[d].cond = "StoredVersionInUse" /\ Existing # {}
            \/ defs[d].cond = "CRDConflict")
  /\ <>[](\A t \in Tokens : ready[t] = "TypedAPIsReady" <=> crd.owner = t /\ reg.owner = t)

\* A deleted definition disappears once no typed object is left.
DefinitionsGo == <>[](\A d \in Defs : defs[d].state = "deleting" => Existing # {})

\* A registered controller whose informer a concurrent Forget has removed.
Deaf == reg.owner # NoOwner /\ ~reg.heard

\* Every typed object of a served API ends up with a mirror of its spec, made
\* for the source that owns the CRD, and with the mirror's status; across
\* superseded controllers, recreated objects and lagging caches.  A mirror
\* somebody made by hand keeps the name, and a Deaf controller hears nothing.
ObjectsTranslated ==
  <>[](\A o \in Objects :
         LET m == <<KindOf(reg.owner), o>> IN
         (/\ objs[o].uid # 0 /\ ~objs[o].deleting /\ objs[o].sver \in crd.vers
          /\ reg.owner # NoOwner /\ ~Deaf /\ mirrors[m].ctl # 0)
           => /\ mirrors[m].ctl = objs[o].uid /\ mirrors[m].src = crd.owner
              /\ mirrors[m].p = objs[o].p /\ objs[o].st = objs[o].p)
=============================================================================
