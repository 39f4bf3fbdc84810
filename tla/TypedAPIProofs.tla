--------------------------- MODULE TypedAPIProofs ---------------------------
(* Proofs about TypedAPI for any definitions, provider tokens, versions,   *)
(* typed objects and number of edits and faults.                           *)
EXTENDS TypedAPI, FiniteSetTheorems, TLAPS

-----------------------------------------------------------------------------
(* Types.  An object that was there when its reconcile began has a uid, which *)
(* is what mirrorStatusBack needs to be well typed.                           *)

Held == \A t \in tws : t.c.uid # 0

TypeInv == TypeOK /\ Held

\* The values a variable starts from, or returns to, have its type.
LEMMA Shapes ==
  /\ NoDefinition \in Definitions /\ NoCRD \in CRDs /\ NoObject \in TypedObjects
  /\ NoMirror \in MirrorObjects /\ HandMade \in MirrorObjects
  /\ NoRegistration \in Registrations /\ Idle \in DefWorkers
<1>1. (CHOOSE a \in APIs : TRUE) \in APIs
  BY TypedAPIAssumption
<1>2. NoDefinition \in Definitions
  BY <1>1 DEF NoDefinition, Definitions, Reasons
<1>3. (CHOOSE d \in Defs : TRUE) \in Defs
  BY TypedAPIAssumption
<1>4. NoCRD \in CRDs
  BY TypedAPIAssumption DEF NoCRD, CRDs
<1>5. Idle \in DefWorkers
  BY <1>2, <1>3, <1>4, TypedAPIAssumption DEF Idle, DefWorkers
<1>6. NoObject \in TypedObjects /\ NoMirror \in MirrorObjects
  BY TypedAPIAssumption DEF NoObject, NoMirror, TypedObjects, MirrorObjects, AnyParams
<1>7. HandMade \in MirrorObjects
  BY <1>6, TypedAPIAssumption DEF HandMade, MirrorObjects
<1>8. NoRegistration \in Registrations
  BY TypedAPIAssumption DEF NoRegistration, Registrations
<1> QED BY <1>2, <1>4, <1>5, <1>6, <1>7, <1>8

\* Resource versions are noted for objects of the model only.
LEMMA NotedType ==
  ASSUME TypeOK, Noted
  PROVE  unseen' \subseteq Defs \cup Objects \cup Mirrors
<1>1. Touched \subseteq Defs \cup Objects \cup Mirrors
  BY DEF Touched
<1> QED BY <1>1 DEF TypeOK, Noted

\* A reconcile whose copy goes out of date is still one.
LEMMA OutdatedType ==
  ASSUME NEW ts, ts \subseteq Reconciles, \A t \in ts : t.c.uid # 0
  PROVE  Outdated(ts) \subseteq Reconciles /\ \A t \in Outdated(ts) : t.c.uid # 0
<1>1. ASSUME NEW t \in ts
      PROVE  [t EXCEPT !.fresh = FALSE] \in Reconciles /\ [t EXCEPT !.fresh = FALSE].c.uid # 0
  BY DEF Reconciles
<1> QED BY <1>1 DEF Outdated

\* A superseded reconcile is still one.
LEMMA SupersededType ==
  ASSUME NEW ts, ts \subseteq Reconciles, \A t \in ts : t.c.uid # 0
  PROVE  /\ {[t EXCEPT !.cur = FALSE] : t \in ts} \subseteq Reconciles
         /\ \A t \in {[u EXCEPT !.cur = FALSE] : u \in ts} : t.c.uid # 0
<1>1. ASSUME NEW t \in ts
      PROVE  [t EXCEPT !.cur = FALSE] \in Reconciles /\ [t EXCEPT !.cur = FALSE].c.uid # 0
  BY DEF Reconciles
<1> QED BY <1>1

\* startController changes the registration and what belongs to it.
LEMMA StartType ==
  ASSUME TypeInv, NEW s \in Sources, NEW ver \in Versions, startController(s, ver)
  PROVE  /\ reg' \in Registrations /\ ocache' \in [Objects -> TypedObjects]
         /\ tq' \subseteq Objects /\ tws' \subseteq Reconciles /\ Held'
<1>1. CASE reg.owner = s /\ reg.ver = ver
  BY <1>1 DEF TypeInv, TypeOK, Held, startController, typed
<1>2. CASE ~(reg.owner = s /\ reg.ver = ver)
  <2>1. /\ reg' = [owner |-> s, ver |-> ver, heard |-> TRUE] /\ ocache' = objs
        /\ tq' = {o \in Objects : objs[o].uid # 0}
        /\ tws' = {[t EXCEPT !.cur = FALSE] : t \in tws}
    BY <1>2 DEF startController
  <2>2. tws' \subseteq Reconciles /\ Held'
    BY <2>1, SupersededType DEF TypeInv, TypeOK, Held
  <2>3. reg' \in Registrations
    BY <2>1 DEF Registrations
  <2> QED BY <2>1, <2>2, <2>3 DEF TypeInv, TypeOK
<1> QED BY <1>1, <1>2

\* persistDefinitionStatus writes a definition's condition only.
LEMMA ConditionType ==
  ASSUME TypeOK, NEW d \in Defs, NEW reason \in Reasons, Condition(d, reason)
  PROVE  defs' \in [Defs -> Definitions]
<1>1. [defs[d] EXCEPT !.cond = reason] \in Definitions
  BY DEF TypeOK, Definitions
<1> QED BY <1>1 DEF TypeOK, Condition

\* The worker moves on, or is done and its request may be queued again.
LEMMA WorkerType ==
  ASSUME TypeOK
  PROVE  /\ \A again \in BOOLEAN : Return(again) => dw' \in DefWorkers /\ dq' \subseteq Defs
         /\ \A pc \in {"apply", "start", "forget", "release"} :
              Goto(pc) => dw' \in DefWorkers /\ dq' \subseteq Defs
<1>1. dw.d \in Defs /\ dw \in DefWorkers /\ dq \subseteq Defs
  BY DEF TypeOK, DefWorkers
<1>2. ASSUME NEW again \in BOOLEAN, Return(again) PROVE dw' \in DefWorkers /\ dq' \subseteq Defs
  BY <1>1, <1>2, Shapes DEF Return
<1>3. ASSUME NEW pc \in {"apply", "start", "forget", "release"}, Goto(pc)
      PROVE  dw' \in DefWorkers /\ dq' \subseteq Defs
  <2>1. [dw EXCEPT !.pc = pc] \in DefWorkers
    BY <1>1 DEF DefWorkers
  <2> QED BY <1>1, <1>3, <2>1 DEF Goto
<1> QED BY <1>2, <1>3

\* The versions of spec.api.
LEMMA APIType ==
  ASSUME NEW a \in APIs
  PROVE  a.ver \in Versions /\ Kept(a) \subseteq Versions
<1>1. a \in [ver : Versions, dep : SUBSET Versions]
  BY TypedAPIAssumption
<1> QED BY <1>1 DEF Kept

\* applyCRD writes a CRD.
LEMMA AppliedType ==
  ASSUME TypeOK, NEW s \in Sources, NEW vers \in SUBSET Versions, NEW ver \in Versions
  PROVE  Applied(s, vers, ver) \in CRDs
<1>1. [state |-> "live", managed |-> TRUE, owner |-> s, vers |-> vers,
       storage |-> ver, stored |-> {ver}] \in CRDs
  BY DEF CRDs
<1>2. [crd EXCEPT !.owner = s, !.vers = vers, !.storage = ver, !.stored = @ \cup {ver}] \in CRDs
  BY DEF TypeOK, CRDs
<1> QED BY <1>1, <1>2 DEF Applied

\* A write of a typed object keeps the types.
LEMMA StoredType ==
  ASSUME TypeOK, NEW o \in Objects, NEW obj \in TypedObjects, obj.uid # 0, Stored(o, obj)
  PROVE  objs' \in [Objects -> TypedObjects] /\ late' \subseteq 1..MaxUids
<1>1. [obj EXCEPT !.sver = crd.storage] \in TypedObjects
  BY DEF TypeOK, CRDs, TypedObjects
<1>2. MaxUids \in Nat /\ obj.uid \in 0..MaxUids
  BY TypedAPIAssumption DEF TypedObjects
<1>3. obj.uid \in 1..MaxUids
  BY <1>2
<1> QED BY <1>1, <1>3 DEF TypeOK, Stored

-----------------------------------------------------------------------------
(* Type correctness, action by action *)

\* Reconcile up to the finalizer keeps the types.
LEMMA TypeBegin ==
  ASSUME TypeInv, NEW d \in Defs, Begin(d)
  PROVE  TypeInv'
<1> USE DEF TypeInv
<1>1. unseen' \subseteq Defs \cup Objects \cup Mirrors
  BY NotedType DEF Begin
<1>2. dcache[d] \in Definitions
  BY DEF TypeOK
<1>3. CASE FinalizerConflict(d)
  BY <1>1, <1>3 DEF Begin, FinalizerConflict, TypeOK, Held, cluster, caches, typed, bounds, ghosts
<1>4. CASE Reconcile(d)
  <2>1. defs' \in [Defs -> Definitions] /\ dw' \in DefWorkers
    <3>1. CASE Nothing(d)
      BY <3>1 DEF Nothing, TypeOK
    <3>2. CASE Invalid(d)
      BY <3>2, ConditionType DEF Invalid, TypeOK, Reasons
    <3>3. CASE Serve(d)
      <4>1. [dcache[d] EXCEPT !.fin = TRUE] \in Definitions
        BY <1>2 DEF Definitions
      <4>2. [Idle EXCEPT !.pc = "prepare", !.d = d, !.me = [dcache[d] EXCEPT !.fin = TRUE]]
              \in DefWorkers
        BY <4>1, Shapes DEF DefWorkers
      <4> QED BY <3>3, <4>1, <4>2 DEF Serve, TypeOK
    <3>4. CASE finalizeDefinition(d)
      <4>1. [Idle EXCEPT !.pc = "count", !.d = d, !.me = dcache[d], !.fresh = d \notin unseen]
              \in DefWorkers
        BY <1>2, Shapes DEF DefWorkers
      <4> QED BY <3>4, <4>1 DEF finalizeDefinition, TypeOK
    <3> QED BY <1>4, <3>1, <3>2, <3>3, <3>4 DEF Reconcile
  <2>2. /\ dq' \subseteq Defs
        /\ UNCHANGED <<crd, objs, mirrors, caches, typed, ghosts, ready, bounds>>
    BY <1>4 DEF Reconcile, Begin, TypeOK
  <2> QED BY <1>1, <2>1, <2>2 DEF TypeOK, Held, caches, typed, bounds, ghosts
<1> QED BY <1>3, <1>4 DEF Begin

\* The steps of prepareVersionDrop.
Preparing == prepareVersionDrop \/ listBeforeDrop \/ pruneStoredVersions

\* prepareVersionDrop keeps the types.
LEMMA TypePrepare ==
  ASSUME TypeInv, Preparing, UNCHANGED <<ready, bounds>>, Noted
  PROVE  TypeInv'
<1> USE DEF TypeInv
<1>1. unseen' \subseteq Defs \cup Objects \cup Mirrors
  BY NotedType
<1>2. dw.d \in Defs /\ dw \in DefWorkers /\ crd \in CRDs
  BY DEF TypeOK, DefWorkers
<1>3. CASE prepareVersionDrop
  <2>1. [dw EXCEPT !.pc = "list", !.copy = crd] \in DefWorkers
    BY <1>2 DEF DefWorkers
  <2>2. dw' \in DefWorkers /\ dq' \subseteq Defs
    BY <1>3, <2>1, WorkerType DEF prepareVersionDrop, TypeOK
  <2> QED BY <1>1, <1>3, <2>2
          DEF prepareVersionDrop, TypeOK, Held, cluster, caches, typed, bounds, ghosts
<1>4. CASE listBeforeDrop
  <2>1. Existing \subseteq 1..MaxUids
    BY TypedAPIAssumption DEF Existing, TypeOK, TypedObjects
  <2>2. [dw EXCEPT !.pc = "prune", !.seen = Existing] \in DefWorkers
    BY <1>2, <2>1 DEF DefWorkers
  <2>3. dw' \in DefWorkers /\ dq' \subseteq Defs
    BY <1>4, <2>2, WorkerType DEF listBeforeDrop, TypeOK
  <2>4. defs' \in [Defs -> Definitions]
    BY <1>2, <1>4, ConditionType DEF listBeforeDrop, TypeOK, Reasons
  <2> QED BY <1>1, <1>4, <2>3, <2>4
          DEF listBeforeDrop, TypeOK, Held, caches, typed, bounds, ghosts
<1>5. CASE pruneStoredVersions
  <2>1. [crd EXCEPT !.stored = @ \ (dw.copy.stored \ Kept(dw.me.api))] \in CRDs
    BY <1>2 DEF CRDs
  <2>2. crd' \in CRDs
    BY <1>5, <2>1 DEF pruneStoredVersions, TypeOK
  <2>3. \A o \in Objects : objs[o].uid \in 1..MaxUids \cup {0}
    BY TypedAPIAssumption DEF TypeOK, TypedObjects
  <2>4. late' \subseteq 1..MaxUids
    <3>1. \A os \in SUBSET Objects : {objs[o].uid : o \in os} \ {0} \subseteq 1..MaxUids
      BY <2>3
    <3>2. \/ late' = late
          \/ \E os \in SUBSET Objects : late' = late \cup ({objs[o].uid : o \in os} \ {0})
      BY <1>5 DEF pruneStoredVersions
    <3> QED BY <3>1, <3>2 DEF TypeOK
  <2>5. [dw EXCEPT !.pc = "apply", !.copy = NoCRD] \in DefWorkers
    BY <1>2, Shapes DEF DefWorkers
  <2>6. dw' \in DefWorkers /\ dq' \subseteq Defs
    BY <1>5, <2>5, WorkerType DEF pruneStoredVersions, TypeOK
  <2>7. UNCHANGED <<defs, objs, mirrors, caches, typed, lost, doomed>>
    BY <1>5 DEF pruneStoredVersions
  <2> QED BY <1>1, <2>2, <2>4, <2>6, <2>7 DEF TypeOK, Held, caches, typed, bounds
<1> QED BY <1>3, <1>4, <1>5 DEF Preparing

\* applyCRD keeps the types.
LEMMA TypeApply ==
  ASSUME TypeInv, applyCRD, UNCHANGED <<ready, bounds>>, Noted
  PROVE  TypeInv'
<1> USE DEF TypeInv
<1>1. unseen' \subseteq Defs \cup Objects \cup Mirrors
  BY NotedType
<1>2. dw.d \in Defs /\ dw.me.api \in APIs /\ dw.d \in Sources
  BY DEF TypeOK, DefWorkers, Definitions, Sources
<1>3. crd' \in CRDs /\ doomed' \subseteq Defs
  <2>1. Kept(dw.me.api) \in SUBSET Versions /\ dw.me.api.ver \in Versions
    BY <1>2, APIType
  <2>2. Applied(dw.d, Kept(dw.me.api), dw.me.api.ver) \in CRDs
    BY <1>2, <2>1, AppliedType
  <2> QED BY <1>2, <2>2 DEF applyCRD, TypeOK
<1>4. defs' \in [Defs -> Definitions]
  BY <1>2, ConditionType DEF applyCRD, TypeOK, Reasons
<1>5. dw' \in DefWorkers /\ dq' \subseteq Defs
  BY WorkerType DEF applyCRD
<1>6. UNCHANGED <<objs, mirrors, caches, typed, late, lost>>
  BY DEF applyCRD
<1> QED BY <1>1, <1>3, <1>4, <1>5, <1>6 DEF TypeOK, Held, caches, typed, bounds

\* serveCompositeAPI and countObjects keep the types.
LEMMA TypeServe ==
  ASSUME TypeInv, serveCompositeAPI \/ countObjects, UNCHANGED <<ready, bounds>>, Noted
  PROVE  TypeInv'
<1> USE DEF TypeInv
<1>1. unseen' \subseteq Defs \cup Objects \cup Mirrors
  BY NotedType
<1>2. dw.d \in Defs /\ dw.me.api \in APIs /\ dw.d \in Sources
  BY DEF TypeOK, DefWorkers, Definitions, Sources
<1>3. CASE serveCompositeAPI
  <2>1. /\ reg' \in Registrations /\ ocache' \in [Objects -> TypedObjects]
        /\ tq' \subseteq Objects /\ tws' \subseteq Reconciles /\ Held'
    BY <1>2, <1>3, APIType, StartType DEF serveCompositeAPI
  <2>2. defs' \in [Defs -> Definitions]
    BY <1>2, <1>3, ConditionType DEF serveCompositeAPI, Reasons
  <2>3. dw' \in DefWorkers /\ dq' \subseteq Defs
    BY <1>3, WorkerType DEF serveCompositeAPI
  <2>4. UNCHANGED <<crd, objs, mirrors, dcache, mcache, ghosts>>
    BY <1>3 DEF serveCompositeAPI
  <2> QED BY <1>1, <2>1, <2>2, <2>3, <2>4 DEF TypeOK, bounds, ghosts
<1>4. CASE countObjects
  <2>1. defs' \in [Defs -> Definitions]
    BY <1>2, <1>4, ConditionType DEF countObjects, TypeOK, Reasons
  <2>2. Existing \subseteq 1..MaxUids
    BY TypedAPIAssumption DEF Existing, TypeOK, TypedObjects
  <2>3. [dw EXCEPT !.pc = "drop", !.seen = Existing] \in DefWorkers
    BY <2>2 DEF TypeOK, DefWorkers
  <2>4. dw' \in DefWorkers /\ dq' \subseteq Defs
    BY <1>4, <2>3, WorkerType DEF countObjects, TypeOK
  <2>5. UNCHANGED <<crd, objs, mirrors, caches, typed, ghosts>>
    BY <1>4 DEF countObjects
  <2> QED BY <1>1, <2>1, <2>4, <2>5 DEF TypeOK, Held, caches, typed, bounds, ghosts
<1> QED BY <1>3, <1>4

\* The steps of finalizeDefinition from the CRD to the release keep the types.
LEMMA TypeDrop ==
  ASSUME TypeInv, deleteServedCRD \/ Forget \/ removeInformer \/ releaseDefinition,
         UNCHANGED <<ready, bounds>>, Noted
  PROVE  TypeInv'
<1> USE DEF TypeInv
<1>1. unseen' \subseteq Defs \cup Objects \cup Mirrors
  BY NotedType
<1>2. dw \in DefWorkers /\ dw.d \in Defs /\ dw.seen \subseteq 1..MaxUids
  BY DEF TypeOK, DefWorkers
<1>3. CASE deleteServedCRD
  <2>1. [crd EXCEPT !.state = "terminating"] \in CRDs
    BY DEF TypeOK, CRDs
  <2>2. ServedTo(dw.me) \in BOOLEAN
    BY DEF ServedTo
  <2>3. [uid : Existing \cap dw.seen, served : {ServedTo(dw.me)}]
          \subseteq [uid : 1..MaxUids, served : BOOLEAN]
    BY <1>2, <2>2
  <2>4. crd' \in CRDs /\ lost' \subseteq [uid : 1..MaxUids, served : BOOLEAN]
    BY <1>3, <2>1, <2>3 DEF deleteServedCRD, TypeOK
  <2>5. dw' \in DefWorkers /\ dq' \subseteq Defs
    BY <1>3, WorkerType DEF deleteServedCRD
  <2>6. UNCHANGED <<defs, objs, mirrors, caches, typed, late, doomed>>
    BY <1>3 DEF deleteServedCRD
  <2> QED BY <1>1, <2>4, <2>5, <2>6 DEF TypeOK, Held, caches, typed, bounds
<1>4. CASE Forget
  <2>1. reg.ver \in Versions /\ [dw EXCEPT !.pc = "unhook", !.ver = reg.ver] \in DefWorkers
    BY DEF TypeOK, Registrations, DefWorkers
  <2>2. dw' \in DefWorkers /\ dq' \subseteq Defs
    BY <1>4, <2>1, WorkerType DEF Forget, TypeOK
  <2>3. reg' \in Registrations /\ tq' \subseteq Objects
    BY <1>4, Shapes DEF Forget, TypeOK, typed
  <2>4. tws' \subseteq Reconciles /\ Held'
    BY <1>4, SupersededType DEF Forget, TypeOK, Held, typed
  <2>5. UNCHANGED <<cluster, caches, ghosts>>
    BY <1>4 DEF Forget
  <2> QED BY <1>1, <2>2, <2>3, <2>4, <2>5 DEF TypeOK, cluster, caches, bounds, ghosts
<1>5. CASE removeInformer
  <2>1. reg' \in Registrations
    BY <1>5 DEF removeInformer, TypeOK, Registrations
  <2>2. dw' \in DefWorkers /\ dq' \subseteq Defs
    BY <1>5, WorkerType DEF removeInformer
  <2> QED BY <1>1, <1>5, <2>1, <2>2
          DEF removeInformer, TypeOK, Held, cluster, caches, bounds, ghosts
<1>6. CASE releaseDefinition
  <2>1. defs' \in [Defs -> Definitions]
    BY <1>2, <1>6, Shapes DEF releaseDefinition, TypeOK
  <2>2. dw' \in DefWorkers /\ dq' \subseteq Defs
    BY <1>6, WorkerType DEF releaseDefinition
  <2>3. UNCHANGED <<crd, objs, mirrors, caches, typed, ghosts>>
    BY <1>6 DEF releaseDefinition
  <2> QED BY <1>1, <2>1, <2>2, <2>3 DEF TypeOK, Held, caches, typed, bounds, ghosts
<1> QED BY <1>3, <1>4, <1>5, <1>6

\* The provider's reconcile keeps the types.
LEMMA TypeProvider ==
  ASSUME TypeInv, NEW t \in Tokens, ProviderStep(t)
  PROVE  TypeInv'
<1> USE DEF TypeInv
<1>1. unseen' \subseteq Defs \cup Objects \cup Mirrors
  BY NotedType DEF ProviderStep
<1>2. ensureTypedResources(t)
  BY DEF ProviderStep
<1>3. t \in Sources /\ TypedVersion \in Versions
  BY TypedAPIAssumption DEF Sources
<1>4. /\ crd' \in CRDs
      /\ ready' \in [Tokens -> {"None", "TypedAPIsReady", "TypedAPIFailed"}]
  BY <1>2, <1>3, AppliedType DEF ensureTypedResources, TypeOK
<1>5. /\ reg' \in Registrations /\ ocache' \in [Objects -> TypedObjects]
      /\ tq' \subseteq Objects /\ tws' \subseteq Reconciles /\ Held'
  BY <1>2, <1>3, StartType DEF ensureTypedResources, TypeOK, Held, typed
<1>6. UNCHANGED <<defs, objs, mirrors, dcache, mcache, dq, dw, bounds, ghosts>>
  BY DEF ProviderStep
<1> QED BY <1>1, <1>4, <1>5, <1>6 DEF TypeOK, bounds, ghosts

\* The typed controllers keep the types.
LEMMA TypeTyped ==
  ASSUME TypeInv, (\E o \in Objects : BeginTyped(o)) \/ (\E cur \in BOOLEAN : TypedStep(cur))
  PROVE  TypeInv'
<1> USE DEF TypeInv
<1>1. ASSUME NEW o \in Objects, BeginTyped(o) PROVE TypeInv'
  <2> DEFINE c == IF reg.heard THEN ocache[o] ELSE objs[o]
             job == [cur |-> TRUE, pc |-> "write", src |-> reg.owner, ver |-> reg.ver,
                     o |-> o, c |-> c, fresh |-> reg.heard => o \notin unseen, st |-> NoParams]
  <2>1. c \in TypedObjects
    BY DEF TypeOK
  <2>2. reg.owner \in Sources /\ reg.ver \in Versions
    BY <1>1 DEF BeginTyped, Translate, TypeOK, Registrations
  <2> HIDE DEF c
  <2>3. job \in Reconciles /\ job.c = c
    BY <2>1, <2>2 DEF Reconciles, AnyParams
  <2> HIDE DEF job
  <2>4. tws' = IF c.uid = 0 \/ c.deleting THEN tws ELSE tws \cup {job}
    BY <1>1, Zenon DEF BeginTyped, Translate, c, job
  <2>5. tws' \subseteq Reconciles /\ Held'
    BY <2>3, <2>4 DEF TypeOK, Held
  <2>6. /\ tq' \subseteq Objects
        /\ UNCHANGED <<cluster, caches, reg, ghosts, unseen, dq, dw, ready, bounds>>
    BY <1>1 DEF BeginTyped, Translate, TypeOK
  <2> QED BY <2>5, <2>6 DEF TypeOK, cluster, caches, ghosts, bounds
<1>2. ASSUME NEW cur \in BOOLEAN, TypedStep(cur) PROVE TypeInv'
  <2>1. unseen' \subseteq Defs \cup Objects \cup Mirrors
    BY <1>2, NotedType DEF TypedStep
  <2>2. PICK t \in tws : CreateOrUpdate(t) \/ mirrorStatusBack(t)
    BY <1>2 DEF TypedStep
  <2>3. /\ t \in Reconciles /\ t.c \in TypedObjects /\ t.c.uid # 0
        /\ t.src \in Sources /\ t.o \in Objects /\ t.st \in AnyParams
    BY DEF TypeOK, Held, Reconciles
  <2>4. Fails(t) => tws' \subseteq Reconciles /\ Held' /\ tq' \subseteq Objects
    BY <2>3 DEF Fails, TypeOK, Held
  <2>5. UNCHANGED <<dq, dw, ready, bounds>>
    BY <1>2 DEF TypedStep
  <2>6. CASE CreateOrUpdate(t)
    <3> DEFINE m == MirrorOf(t)
               new == [mcache[m] EXCEPT !.ctl = t.c.uid, !.src = t.src, !.p = t.c.p]
               next == [t EXCEPT !.pc = "status", !.st = new.st]
    <3>1. m \in Mirrors
      BY <2>3 DEF MirrorOf, Mirrors
    <3>2. mcache[m] \in MirrorObjects
      BY <3>1 DEF TypeOK
    <3>3. t.c.uid \in -1..MaxUids /\ t.c.p \in AnyParams
      BY <2>3, TypedAPIAssumption DEF TypedObjects
    <3> HIDE DEF m
    <3>4. new \in MirrorObjects /\ new.st \in AnyParams
      BY <2>3, <3>2, <3>3 DEF MirrorObjects
    <3> HIDE DEF new
    <3>5. next \in Reconciles /\ next.c.uid # 0
      BY <2>3, <3>4 DEF Reconciles
    <3> HIDE DEF next
    <3>6. \/ /\ mirrors' = [mirrors EXCEPT ![m] = IF new = mcache[m] THEN @ ELSE new]
             /\ tws' = (tws \ {t}) \cup {next} /\ tq' = tq
          \/ Fails(t) /\ mirrors' = mirrors
      BY <2>6 DEF CreateOrUpdate, m, new, next
    <3>7. mirrors' \in [Mirrors -> MirrorObjects]
      BY <3>4, <3>6 DEF TypeOK
    <3>8. tws' \subseteq Reconciles /\ Held' /\ tq' \subseteq Objects
      BY <2>4, <3>5, <3>6 DEF TypeOK, Held
    <3>9. UNCHANGED <<defs, crd, objs, caches, reg, ghosts>>
      BY <2>6 DEF CreateOrUpdate
    <3> QED BY <2>1, <2>5, <3>7, <3>8, <3>9 DEF TypeOK, caches, ghosts, bounds
  <2>7. CASE mirrorStatusBack(t)
    <3>1. [t.c EXCEPT !.st = t.st] \in TypedObjects /\ [t.c EXCEPT !.st = t.st].uid # 0
      BY <2>3 DEF TypedObjects
    <3>2. objs' \in [Objects -> TypedObjects] /\ late' \subseteq 1..MaxUids
      BY <2>3, <2>7, <3>1, StoredType DEF mirrorStatusBack, TypeOK
    <3>3. Outdated(tws \ {t}) \subseteq Reconciles /\ \A x \in Outdated(tws \ {t}) : x.c.uid # 0
      BY OutdatedType DEF TypeOK, Held
    <3>4. tws' \subseteq Reconciles /\ Held' /\ tq' \subseteq Objects
      BY <2>4, <2>7, <3>3 DEF mirrorStatusBack, TypeOK, Held
    <3>5. UNCHANGED <<defs, crd, mirrors, caches, reg, lost, doomed>>
      BY <2>7 DEF mirrorStatusBack
    <3> QED BY <2>1, <2>5, <3>2, <3>4, <3>5 DEF TypeOK, caches, bounds
  <2> QED BY <2>2, <2>6, <2>7
<1> QED BY <1>1, <1>2

\* What informers and Kubernetes do keeps the types.
LEMMA TypeCluster ==
  ASSUME TypeInv,
         \/ \E d \in Defs : HearDefinition(d)
         \/ \E o \in Objects : HearObject(o)
         \/ \E m \in Mirrors : HearMirror(m)
         \/ Kubernetes
  PROVE  TypeInv'
<1> USE DEF TypeInv
<1>1. ASSUME NEW d \in Defs, HearDefinition(d) PROVE TypeInv'
  BY <1>1 DEF HearDefinition, SyncDefinition, TypeOK, Held, cluster, typed, bounds, ghosts
<1>2. ASSUME NEW o \in Objects, HearObject(o) PROVE TypeInv'
  BY <1>2 DEF HearObject, SyncObject, TypeOK, Held, cluster, bounds, ghosts
<1>3. ASSUME NEW m \in Mirrors, HearMirror(m) PROVE TypeInv'
  <2>1. m[2] \in Objects
    BY DEF Mirrors
  <2> QED BY <1>3, <2>1 DEF HearMirror, SyncMirror, TypeOK, Held, cluster, bounds, ghosts
<1>4. ASSUME Kubernetes PROVE TypeInv'
  <2>1. unseen' \subseteq Defs \cup Objects \cup Mirrors
    BY <1>4, NotedType DEF Kubernetes
  <2>2. tws' \subseteq Reconciles /\ Held'
    BY <1>4, OutdatedType DEF Kubernetes, TypeOK, Held
  <2>3. ASSUME NEW m \in Mirrors
        PROVE  [mirrors[m] EXCEPT !.st = mirrors[m].p] \in MirrorObjects
    BY DEF TypeOK, MirrorObjects
  <2>4. /\ crd' \in CRDs /\ objs' \in [Objects -> TypedObjects]
        /\ mirrors' \in [Mirrors -> MirrorObjects] /\ defs' = defs
    BY <1>4, <2>3, Shapes
       DEF Kubernetes, CRDCleanup, CollectMirror, MirrorReports, CollectObject, TypeOK
  <2>5. UNCHANGED <<caches, reg, tq, dq, dw, ready, bounds, ghosts>>
    BY <1>4 DEF Kubernetes
  <2> QED BY <2>1, <2>2, <2>4, <2>5 DEF TypeOK, caches, bounds, ghosts
<1> QED BY <1>1, <1>2, <1>3, <1>4

\* Users keep the types.
LEMMA TypeUser ==
  ASSUME TypeInv, User
  PROVE  TypeInv'
<1> USE DEF TypeInv
<1>1. unseen' \subseteq Defs \cup Objects \cup Mirrors
  BY NotedType DEF User
<1>2. tws' \subseteq Reconciles /\ Held'
  BY OutdatedType DEF User, TypeOK, Held
<1>3. dw' \in DefWorkers
  <2>1. [dw EXCEPT !.fresh = FALSE] \in DefWorkers
    BY DEF TypeOK, DefWorkers
  <2> QED BY <2>1 DEF User, TypeOK
<1>4. UNCHANGED <<caches, reg, tq, dq, ready, faults, lost, doomed>> /\ edits' = edits + 1
  BY DEF User
<1>5. /\ defs' \in [Defs -> Definitions] /\ crd' = crd /\ uids' \in 0..MaxUids
      /\ objs' \in [Objects -> TypedObjects] /\ late' \subseteq 1..MaxUids
      /\ mirrors' \in [Mirrors -> MirrorObjects]
  <2>1. ASSUME NEW d \in Defs, CreateDefinition(d) \/ EditAPI(d) \/ DeleteDefinition(d) PROVE <1>5!:
    <3>1. ASSUME NEW a \in APIs
          PROVE  [NoDefinition EXCEPT !.state = "live", !.api = a] \in Definitions
      BY Shapes DEF Definitions
    <3>2. ASSUME NEW a \in APIs PROVE [defs[d] EXCEPT !.api = a] \in Definitions
      BY DEF TypeOK, Definitions
    <3>3. [defs[d] EXCEPT !.state = "deleting"] \in Definitions
      BY DEF TypeOK, Definitions
    <3>4. FirstAPIs \subseteq APIs
      BY TypedAPIAssumption
    <3>5. PICK x \in Definitions : defs' = [defs EXCEPT ![d] = x]
      <4>1. CASE CreateDefinition(d)
        BY <3>1, <3>4, <4>1 DEF CreateDefinition
      <4>2. CASE EditAPI(d)
        BY <3>2, <4>2 DEF EditAPI, TypeOK
      <4>3. CASE DeleteDefinition(d)
        BY <3>3, <4>3, Shapes DEF DeleteDefinition, TypeOK
      <4> QED BY <2>1, <4>1, <4>2, <4>3
    <3>6. defs' \in [Defs -> Definitions]
      BY <3>5 DEF TypeOK
    <3> QED BY <2>1, <3>6 DEF CreateDefinition, EditAPI, DeleteDefinition, TypeOK
  <2>2. ASSUME NEW o \in Objects, CreateObject(o) PROVE <1>5!:
    <3>1. uids + 1 \in 0..MaxUids /\ uids + 1 # 0
      BY <2>2, TypedAPIAssumption DEF CreateObject, TypeOK
    <3>2. PICK p \in FirstParams : Stored(o, [NoObject EXCEPT !.uid = uids + 1, !.p = p])
      BY <2>2 DEF CreateObject
    <3>3. p \in AnyParams
      BY TypedAPIAssumption DEF AnyParams
    <3>4. /\ [NoObject EXCEPT !.uid = uids + 1, !.p = p] \in TypedObjects
          /\ [NoObject EXCEPT !.uid = uids + 1, !.p = p].uid # 0
      <4>1. ASSUME NEW u \in 0..MaxUids, u # 0
            PROVE  /\ [NoObject EXCEPT !.uid = u, !.p = p] \in TypedObjects
                   /\ [NoObject EXCEPT !.uid = u, !.p = p].uid # 0
        BY <3>3, <4>1, Shapes DEF TypedObjects
      <4> QED BY <3>1, <4>1
    <3>5. objs' \in [Objects -> TypedObjects] /\ late' \subseteq 1..MaxUids
      BY <3>2, <3>4, StoredType
    <3> QED BY <2>2, <3>1, <3>5 DEF CreateObject, TypeOK
  <2>3. ASSUME NEW o \in Objects, EditObject(o) PROVE <1>5!:
    <3>1. PICK p \in Params : Stored(o, [objs[o] EXCEPT !.p = p])
      BY <2>3 DEF EditObject
    <3>2. [objs[o] EXCEPT !.p = p] \in TypedObjects /\ [objs[o] EXCEPT !.p = p].uid # 0
      BY <2>3 DEF EditObject, TypeOK, TypedObjects, AnyParams
    <3>3. objs' \in [Objects -> TypedObjects] /\ late' \subseteq 1..MaxUids
      BY <3>1, <3>2, StoredType
    <3> QED BY <2>3, <3>3 DEF EditObject, TypeOK
  <2>4. ASSUME NEW o \in Objects, DeleteObject(o) PROVE <1>5!:
    <3>1. [objs[o] EXCEPT !.deleting = TRUE] \in TypedObjects
      BY DEF TypeOK, TypedObjects
    <3> QED BY <2>4, <3>1, Shapes DEF DeleteObject, TypeOK
  <2>5. ASSUME NEW m \in Mirrors, CreateByHand(m) \/ DeleteByHand(m) PROVE <1>5!:
    BY <2>5, Shapes DEF CreateByHand, DeleteByHand, TypeOK
  <2> QED BY <2>1, <2>2, <2>3, <2>4, <2>5 DEF User
<1> QED BY <1>1, <1>2, <1>3, <1>4, <1>5 DEF TypeOK, caches

\* Failing calls and restarts keep the types.
LEMMA TypeFault ==
  ASSUME TypeInv, ListFails \/ CallFails \/ StatusFails \/ Restart
  PROVE  TypeInv'
<1> USE DEF TypeInv
<1>1. faults' \in Nat
  <2>1. faults' = faults + 1
    BY DEF ListFails, CallFails, StatusFails, Restart, Fault
  <2> QED BY <2>1 DEF TypeOK
<1>2. dw.d \in Defs /\ dw.me.api \in APIs /\ dw.d \in Sources
  BY DEF TypeOK, DefWorkers, Definitions, Sources
<1>3. CASE ListFails
  <2>1. unseen' \subseteq Defs \cup Objects \cup Mirrors
    BY <1>3, NotedType DEF ListFails
  <2>2. defs' \in [Defs -> Definitions]
    BY <1>2, <1>3, ConditionType DEF ListFails, Reasons
  <2>3. dw' \in DefWorkers /\ dq' \subseteq Defs
    BY <1>3, WorkerType DEF ListFails
  <2> QED BY <1>1, <1>3, <2>1, <2>2, <2>3 DEF ListFails, TypeOK, Held, caches, typed, ghosts
<1>4. CASE CallFails
  <2>1. dw' \in DefWorkers /\ dq' \subseteq Defs
    BY <1>4, WorkerType DEF CallFails
  <2> QED BY <1>1, <1>4, <2>1 DEF CallFails, TypeOK, Held, cluster, caches, typed, ghosts
<1>5. CASE StatusFails
  <2>1. unseen' \subseteq Defs \cup Objects \cup Mirrors
    BY <1>5, NotedType DEF StatusFails
  <2>2. /\ reg' \in Registrations /\ ocache' \in [Objects -> TypedObjects]
        /\ tq' \subseteq Objects /\ tws' \subseteq Reconciles /\ Held'
    BY <1>2, <1>5, APIType, StartType DEF StatusFails
  <2>3. dw' \in DefWorkers /\ dq' \subseteq Defs
    BY <1>5, WorkerType DEF StatusFails
  <2> QED BY <1>1, <1>5, <2>1, <2>2, <2>3 DEF StatusFails, TypeOK, cluster, ghosts
<1>6. CASE Restart
  BY <1>1, <1>6, Shapes DEF Restart, TypeOK, Held, cluster, ghosts
<1> QED BY <1>3, <1>4, <1>5, <1>6

\* Every step keeps the types.
LEMMA TypeStep ==
  ASSUME TypeInv, [Next]_vars
  PROVE  TypeInv'
<1>1. CASE UNCHANGED vars
  BY <1>1 DEF TypeInv, TypeOK, Held, vars, cluster, caches, typed, bounds, ghosts
<1>2. CASE Next
  BY <1>2, TypeBegin, TypePrepare, TypeApply, TypeServe, TypeDrop, TypeProvider, TypeTyped, TypeCluster,
     TypeUser, TypeFault DEF Next, DefinitionStep, Preparing
<1> QED BY <1>1, <1>2

\* The first states are well typed.
LEMMA TypeInit == Init => TypeInv
<1> SUFFICES ASSUME Init PROVE TypeInv
  OBVIOUS
<1>1. PICK a \in FirstAPIs :
        defs = [d \in Defs |-> [NoDefinition EXCEPT !.state = "live", !.api = a]]
  BY DEF Init
<1>2. [NoDefinition EXCEPT !.state = "live", !.api = a] \in Definitions
  BY Shapes, TypedAPIAssumption DEF Definitions
<1>3. defs \in [Defs -> Definitions]
  BY <1>1, <1>2
<1>4. PICK s \in Strangers, first \in Objects, p \in FirstParams :
        LET again == IF s = "legacy" THEN {first} ELSE {} IN
        /\ crd = FirstCRD(s)
        /\ uids = 2 * Cardinality(again) /\ edits = Cardinality(again)
        /\ objs = [o \in Objects |-> IF o \in again
                     THEN [NoObject EXCEPT !.uid = 2, !.p = p] ELSE NoObject]
        /\ mirrors = [m \in Mirrors |-> IF m[1] = "DoComposite" /\ m[2] \in again
                        THEN [NoMirror EXCEPT !.ctl = 1, !.p = p] ELSE NoMirror]
  BY DEF Init
<1>5. crd \in CRDs
  <2>1. [state |-> "live", managed |-> s = "legacy", owner |-> NoOwner,
         vers |-> {TypedVersion}, storage |-> TypedVersion, stored |-> {TypedVersion}] \in CRDs
    BY TypedAPIAssumption DEF CRDs
  <2> QED BY <1>4, <2>1, Shapes DEF FirstCRD
<1>6. Cardinality({first}) = 1 /\ Cardinality({}) = 0
  BY FS_Singleton, FS_EmptySet
<1>7. p \in AnyParams /\ MaxUids \in Nat /\ (s = "legacy" => MaxUids >= 2)
  BY TypedAPIAssumption DEF AnyParams
<1>8. uids \in 0..MaxUids /\ edits \in Nat
  BY <1>4, <1>6, <1>7
<1>9. objs \in [Objects -> TypedObjects]
  <2>1. ASSUME s = "legacy" PROVE [NoObject EXCEPT !.uid = 2, !.p = p] \in TypedObjects
    <3>1. 2 \in 0..MaxUids
      BY <1>7, <2>1
    <3>2. ASSUME NEW u \in 0..MaxUids PROVE [NoObject EXCEPT !.uid = u, !.p = p] \in TypedObjects
      BY <1>7, Shapes DEF TypedObjects
    <3> QED BY <3>1, <3>2
  <2> QED BY <1>4, <2>1, Shapes
<1>10. mirrors \in [Mirrors -> MirrorObjects]
  <2>1. ASSUME s = "legacy" PROVE [NoMirror EXCEPT !.ctl = 1, !.p = p] \in MirrorObjects
    <3>1. 1 \in -1..MaxUids
      BY <1>7, <2>1
    <3>2. ASSUME NEW u \in -1..MaxUids PROVE [NoMirror EXCEPT !.ctl = u, !.p = p] \in MirrorObjects
      BY <1>7, Shapes DEF MirrorObjects
    <3> QED BY <3>1, <3>2
  <2> QED BY <1>4, <2>1, Shapes
<1> QED BY <1>3, <1>5, <1>8, <1>9, <1>10, Shapes DEF Init, TypeInv, TypeOK, Held

\* TypedAPI is type correct: every variable, the history ones too, keeps its
\* type in every reachable state.
THEOREM TypeCorrect == Spec => []TypeOK
<1>1. Spec => []TypeInv
  BY TypeInit, TypeStep, PTL DEF Spec
<1> QED BY <1>1, PTL DEF TypeInv

-----------------------------------------------------------------------------
(* Caches: an object whose resourceVersion its informer has shown is cached   *)
(* as it is.  Writes that are based on such a copy do not undo others.        *)

Seen ==
  /\ \A d \in Defs : d \notin unseen => dcache[d] = defs[d]
  /\ reg.heard => \A o \in Objects : o \notin unseen => ocache[o] = objs[o]
  /\ \A m \in Mirrors : m \notin unseen => mcache[m] = mirrors[m]

\* A step that notes what it touches, and fills the cache of a new informer,
\* leaves the caches right.
LEMMA NotedSeen ==
  ASSUME Seen, Noted, dcache' = dcache, mcache' = mcache,
         (reg' = reg /\ ocache' = ocache) \/ ~reg'.heard \/ ocache' = objs'
  PROVE  Seen'
<1>1. ASSUME NEW d \in Defs, d \notin unseen' PROVE dcache'[d] = defs'[d]
  <2>1. d \notin Objects
    BY TypedAPIAssumption
  <2>2. d \notin unseen /\ defs'[d] = defs[d]
    BY <1>1, <2>1 DEF Noted, Touched
  <2> QED BY <2>2 DEF Seen
<1>2. ASSUME NEW m \in Mirrors, m \notin unseen' PROVE mcache'[m] = mirrors'[m]
  <2>1. m \notin Objects
    BY TypedAPIAssumption
  <2>2. m \notin unseen /\ mirrors'[m] = mirrors[m]
    BY <1>2, <2>1 DEF Noted, Touched
  <2> QED BY <2>2 DEF Seen
<1>3. ASSUME reg'.heard, NEW o \in Objects, o \notin unseen' PROVE ocache'[o] = objs'[o]
  <2>1. CASE ocache' = objs'
    BY <2>1
  <2>2. CASE reg' = reg /\ ocache' = ocache
    <3>1. o \notin unseen /\ objs'[o] = objs[o]
      BY <1>3, <2>2 DEF Noted, Touched
    <3> QED BY <1>3, <2>2, <3>1 DEF Seen
  <2> QED BY <1>3, <2>1, <2>2
<1> QED BY <1>1, <1>2, <1>3 DEF Seen

\* Every step leaves the caches right.
LEMMA SeenStep ==
  ASSUME TypeInv, Seen, [Next]_vars
  PROVE  Seen'
<1>1. CASE UNCHANGED vars
  BY <1>1 DEF Seen, vars, cluster, caches, typed
<1>2. ASSUME NEW d \in Defs, Begin(d) PROVE Seen'
  BY <1>2, NotedSeen DEF Begin, Reconcile, FinalizerConflict, caches, typed
<1>3. ASSUME DefinitionStep PROVE Seen'
  <2>1. dcache' = dcache /\ mcache' = mcache
    BY <1>3 DEF DefinitionStep, prepareVersionDrop, listBeforeDrop, pruneStoredVersions,
       applyCRD, serveCompositeAPI, countObjects, deleteServedCRD, Forget, removeInformer,
       releaseDefinition, caches
  <2>2. (reg' = reg /\ ocache' = ocache) \/ ~reg'.heard \/ ocache' = objs'
    <3>1. CASE serveCompositeAPI
      BY <3>1 DEF serveCompositeAPI, startController, typed
    <3>2. CASE Forget
      BY <3>2 DEF Forget, NoRegistration, typed, caches
    <3>3. CASE removeInformer
      BY <3>3 DEF removeInformer, caches, TypeInv, TypeOK, Registrations
    <3> QED BY <1>3, <3>1, <3>2, <3>3 DEF DefinitionStep, prepareVersionDrop, listBeforeDrop,
               pruneStoredVersions, applyCRD, countObjects, deleteServedCRD, releaseDefinition,
               caches, typed
  <2> QED BY <1>3, <2>1, <2>2, NotedSeen DEF DefinitionStep
<1>4. ASSUME NEW t \in Tokens, ProviderStep(t) PROVE Seen'
  BY <1>4, NotedSeen DEF ProviderStep, ensureTypedResources, startController, typed
<1>5. ASSUME NEW o \in Objects, BeginTyped(o) PROVE Seen'
  BY <1>5 DEF BeginTyped, Translate, Seen, cluster, caches
<1>6. ASSUME NEW cur \in BOOLEAN, TypedStep(cur) PROVE Seen'
  BY <1>6, NotedSeen DEF TypedStep, CreateOrUpdate, mirrorStatusBack, caches
<1>7. ASSUME NEW d \in Defs, HearDefinition(d) PROVE Seen'
  <2>1. d \notin Objects /\ d \notin Mirrors
    BY TypedAPIAssumption
  <2> QED BY <1>7, <2>1 DEF HearDefinition, SyncDefinition, Seen, cluster, typed, TypeInv, TypeOK
<1>8. ASSUME NEW o \in Objects, HearObject(o) PROVE Seen'
  <2>1. o \notin Defs /\ o \notin Mirrors
    BY TypedAPIAssumption
  <2> QED BY <1>8, <2>1 DEF HearObject, SyncObject, Seen, cluster, TypeInv, TypeOK
<1>9. ASSUME NEW m \in Mirrors, HearMirror(m) PROVE Seen'
  <2>1. m \notin Defs /\ m \notin Objects
    BY TypedAPIAssumption
  <2> QED BY <1>9, <2>1 DEF HearMirror, SyncMirror, Seen, cluster, TypeInv, TypeOK
<1>10. ASSUME Kubernetes PROVE Seen'
  BY <1>10, NotedSeen DEF Kubernetes, caches
<1>11. ASSUME User PROVE Seen'
  BY <1>11, NotedSeen DEF User, caches
<1>12. ASSUME ListFails PROVE Seen'
  BY <1>12, NotedSeen DEF ListFails, caches, typed
<1>13. ASSUME CallFails PROVE Seen'
  BY <1>13 DEF CallFails, Seen, cluster, caches, typed
<1>14. ASSUME StatusFails PROVE Seen'
  BY <1>14, NotedSeen DEF StatusFails, startController, cluster, typed
<1>15. ASSUME Restart PROVE Seen'
  BY <1>15 DEF Restart, Seen, cluster
<1> QED BY <1>1, <1>2, <1>3, <1>4, <1>5, <1>6, <1>7, <1>8, <1>9, <1>10, <1>11, <1>12, <1>13,
           <1>14, <1>15 DEF Next

-----------------------------------------------------------------------------
(* Definitions and the CRD.  What ServedOnce and CRDHasDefinition need: that  *)
(* a worker which serves a definition finds it still there with its           *)
(* finalizer, however old the copy it began with, and that one which          *)
(* finalizes it knows whether the definition changed since it was read.       *)

Serving == dw.pc \in {"prepare", "list", "prune", "apply", "start"}
Finalizing == dw.pc \in {"count", "drop", "forget", "unhook", "release"}
ServedLive(d) == defs[d].state = "live" /\ defs[d].cond = "Served"

\* A cached finalizer is still there: only a deleting definition loses it.
Aged ==
  \A d \in Defs :
    dcache[d].state = "live" /\ dcache[d].fin => defs[d].state # "absent" /\ defs[d].fin

\* The worker's definition.
Guarded ==
  /\ Serving => /\ defs[dw.d].state # "absent" /\ defs[dw.d].fin
                /\ dcache[dw.d].state = "deleting" => defs[dw.d].state = "deleting"
  /\ Finalizing /\ dw.fresh =>
       defs[dw.d] = dw.me /\ dw.me.state = "deleting" /\ dcache[dw.d].state = "deleting"

\* The CRD is gone, or somebody else's, once finalizeDefinition is past it.
Dropped == dw.pc \in {"forget", "unhook", "release"} => ~(crd.state = "live" /\ crd.owner = dw.d)

Owned == crd.owner # NoOwner => crd.managed /\ crd.state # "none"

\* A definition that is Served has the CRD, unless it claimed a terminating
\* one, and nobody finalizes it.
Claims ==
  /\ \A d \in Defs : ServedLive(d) => dcache[d].state # "deleting"
  /\ Finalizing => ~ServedLive(dw.d)
  /\ \A d \in Defs : ServedLive(d) /\ d \notin doomed => crd.owner = d /\ crd.state = "live"
  /\ dw.pc = "start" => dw.d \in doomed \/ (crd.owner = dw.d /\ crd.state = "live")

DefInv == Aged /\ Guarded /\ Dropped /\ Owned /\ Claims /\ CRDHasDefinition

\* Steps that leave the CRD's owner and every definition's life alone, and
\* the worker where it is or done, keep the invariant.
LEMMA Quiet ==
  ASSUME TypeInv, DefInv, dcache' = dcache, doomed' = doomed,
         crd'.state = crd.state, crd'.owner = crd.owner, crd'.managed = crd.managed,
         \A d \in Defs : /\ defs'[d].state = defs[d].state /\ defs'[d].fin = defs[d].fin
                         /\ defs'[d].cond = "Served" => defs[d].cond = "Served",
         \/ dw'.pc = "idle"
         \/ /\ defs' = defs /\ dw'.d = dw.d /\ dw'.me = dw.me /\ dw'.fresh = dw.fresh
            /\ dw'.pc = "start" => dw.pc = "start"
            /\ Serving' => Serving
            /\ Finalizing' => Finalizing
            /\ dw'.pc \in {"forget", "unhook", "release"} =>
                 dw.pc \in {"forget", "unhook", "release"} \/ ~(crd.state = "live" /\ crd.owner = dw.d)
  PROVE  DefInv'
<1> USE DEF DefInv
<1>1. dw.d \in Defs
  BY DEF TypeInv, TypeOK, DefWorkers
<1>2. Aged'
  BY DEF Aged
<1>3. Guarded'
  BY <1>1 DEF Guarded, Serving, Finalizing
<1>4. Dropped'
  BY <1>1 DEF Dropped
<1>5. Owned' /\ CRDHasDefinition'
  BY DEF Owned, CRDHasDefinition
<1>6. Claims'
  BY <1>1 DEF Claims, ServedLive, Serving, Finalizing
<1> QED BY <1>2, <1>3, <1>4, <1>5, <1>6

\* persistDefinitionStatus with a reason other than Served takes nothing from
\* a definition but its Served.
LEMMA ConditionQuiet ==
  ASSUME TypeInv, NEW d \in Defs, NEW reason \in Reasons \ {"Served"}, Condition(d, reason)
  PROVE  \A x \in Defs : /\ defs'[x].state = defs[x].state /\ defs'[x].fin = defs[x].fin
                         /\ defs'[x].cond = "Served" => defs[x].cond = "Served"
BY DEF Condition, TypeInv, TypeOK, Definitions

\* Reconcile up to the finalizer keeps the invariant of the definitions.
LEMMA DefBegin ==
  ASSUME TypeInv, Seen, DefInv, NEW d \in Defs, Begin(d)
  PROVE  DefInv'
<1> USE DEF DefInv
<1>1. CASE FinalizerConflict(d)
  <2>1. UNCHANGED <<defs, dcache, dw, crd, doomed>>
    BY <1>1 DEF FinalizerConflict, cluster, caches, ghosts
  <2> QED BY <2>1, Quiet DEF Serving, Finalizing
<1>2. CASE Reconcile(d)
  <2>1. dw.pc = "idle" /\ UNCHANGED <<dcache, crd, doomed>>
    BY <1>2 DEF Reconcile, caches, ghosts
  <2>2. CASE Nothing(d)
    BY <2>1, <2>2, Quiet DEF Nothing
  <2>3. CASE Invalid(d)
    <3>1. \A x \in Defs : /\ defs'[x].state = defs[x].state /\ defs'[x].fin = defs[x].fin
                          /\ defs'[x].cond = "Served" => defs[x].cond = "Served"
      BY <2>3, ConditionQuiet DEF Invalid, Reasons
    <3> QED BY <2>1, <2>3, <3>1, Quiet DEF Invalid
  <2>4. CASE Serve(d)
    <3>1. /\ dw'.pc = "prepare" /\ dw'.d = d /\ dcache[d].state = "live"
          /\ dcache[d].fin \/ dcache[d] = defs[d]
          /\ defs' = IF dcache[d].fin THEN defs ELSE [defs EXCEPT ![d] = [dcache[d] EXCEPT !.fin = TRUE]]
      BY <2>4 DEF Serve, Idle, Seen
    <3>2. /\ defs'[d].state # "absent" /\ defs'[d].fin
          /\ \A x \in Defs : /\ defs'[x].state = defs[x].state /\ defs'[x].cond = defs[x].cond
                             /\ defs[x].fin => defs'[x].fin
      BY <3>1 DEF Aged, TypeInv, TypeOK, Definitions
    <3>3. Aged' /\ Owned' /\ Dropped'
      BY <2>1, <3>1, <3>2 DEF Aged, Owned, Dropped
    <3>4. Guarded'
      BY <2>1, <3>1, <3>2 DEF Guarded, Serving, Finalizing
    <3>5. CRDHasDefinition'
      BY <2>1, <3>2 DEF CRDHasDefinition
    <3>6. Claims'
      BY <2>1, <3>1, <3>2 DEF Claims, ServedLive, Finalizing
    <3> QED BY <3>3, <3>4, <3>5, <3>6
  <2>5. CASE finalizeDefinition(d)
    <3>1. /\ dw'.pc = "count" /\ dw'.d = d /\ dw'.me = dcache[d] /\ dw'.fresh = (d \notin unseen)
          /\ dcache[d].state = "deleting" /\ defs' = defs
      BY <2>5 DEF finalizeDefinition, Idle
    <3>2. Aged' /\ Owned' /\ Dropped' /\ CRDHasDefinition'
      BY <2>1, <3>1 DEF Aged, Owned, Dropped, CRDHasDefinition
    <3>3. Guarded'
      BY <2>1, <3>1 DEF Guarded, Serving, Finalizing, Seen
    <3>4. Claims'
      BY <2>1, <3>1 DEF Claims, ServedLive, Finalizing
    <3> QED BY <3>2, <3>3, <3>4
  <2> QED BY <1>2, <2>2, <2>3, <2>4, <2>5 DEF Reconcile
<1> QED BY <1>1, <1>2 DEF Begin

\* prepareVersionDrop keeps the invariant of the definitions.
LEMMA DefPrepare ==
  ASSUME TypeInv, DefInv, Preparing
  PROVE  DefInv'
<1>1. dw.d \in Defs /\ dw \in DefWorkers /\ crd \in CRDs
  BY DEF TypeInv, TypeOK, DefWorkers
<1>2. UNCHANGED <<dcache, doomed>> /\ Serving
  BY DEF Preparing, prepareVersionDrop, listBeforeDrop, pruneStoredVersions, caches, ghosts,
     Serving
<1>3. crd'.state = crd.state /\ crd'.owner = crd.owner /\ crd'.managed = crd.managed
  BY <1>1 DEF Preparing, prepareVersionDrop, listBeforeDrop, pruneStoredVersions, cluster, CRDs
<1>4. CASE /\ defs' = defs
           /\ \/ Goto("apply")
              \/ dw' = [dw EXCEPT !.pc = "list", !.copy = crd]
              \/ dw' = [dw EXCEPT !.pc = "prune", !.seen = Existing]
              \/ dw' = [dw EXCEPT !.pc = "apply", !.copy = NoCRD]
  <2>1. /\ dw'.pc \in {"list", "prune", "apply"}
        /\ dw'.d = dw.d /\ dw'.me = dw.me /\ dw'.fresh = dw.fresh
    BY <1>1, <1>4 DEF Goto, DefWorkers
  <2> QED BY <1>2, <1>3, <1>4, <2>1, Quiet DEF Serving, Finalizing
<1>5. CASE Return(TRUE) /\ (defs' = defs \/ Condition(dw.d, "StoredVersionInUse"))
  <2>1. dw'.pc = "idle"
    BY <1>5 DEF Return, Idle
  <2>2. \A x \in Defs : /\ defs'[x].state = defs[x].state /\ defs'[x].fin = defs[x].fin
                        /\ defs'[x].cond = "Served" => defs[x].cond = "Served"
    BY <1>1, <1>5, ConditionQuiet DEF Reasons
  <2> QED BY <1>2, <1>3, <2>1, <2>2, Quiet
<1> QED BY <1>4, <1>5
        DEF Preparing, prepareVersionDrop, listBeforeDrop, pruneStoredVersions, cluster

\* Serving a definition keeps the invariant of the definitions.
LEMMA DefServe ==
  ASSUME TypeInv, DefInv, applyCRD \/ serveCompositeAPI
  PROVE  DefInv'
<1> USE DEF DefInv
<1>1. dw.d \in Defs /\ dw.d \in Sources /\ Defs \cap Tokens = {} /\ NoOwner \notin Sources
  BY TypedAPIAssumption DEF TypeInv, TypeOK, DefWorkers, Sources
<1>2. CASE applyCRD
  <2>1. dcache' = dcache /\ dw.pc = "apply"
    BY <1>2 DEF applyCRD, caches
  <2>2. CASE \E reason \in Reasons \ {"Served"} :
               Condition(dw.d, reason) /\ Return(FALSE) /\ UNCHANGED <<crd, doomed>>
    <3>1. PICK reason \in Reasons \ {"Served"} :
            Condition(dw.d, reason) /\ Return(FALSE) /\ UNCHANGED <<crd, doomed>>
      BY <2>2
    <3>2. dw'.pc = "idle"
      BY <3>1 DEF Return, Idle
    <3>3. \A x \in Defs : /\ defs'[x].state = defs[x].state /\ defs'[x].fin = defs[x].fin
                          /\ defs'[x].cond = "Served" => defs[x].cond = "Served"
      BY <1>1, <3>1, ConditionQuiet
    <3> QED BY <2>1, <3>1, <3>2, <3>3, Quiet
  <2>3. CASE /\ crd.state = "none" \/ checkCRDOwnership(dw.d)
             /\ crd' = Applied(dw.d, Kept(dw.me.api), dw.me.api.ver)
             /\ doomed' = IF crd.state = "terminating" THEN doomed \cup {dw.d} ELSE doomed \ {dw.d}
             /\ Goto("start") /\ UNCHANGED defs
    <3>1. /\ dw'.pc = "start" /\ dw'.d = dw.d /\ defs' = defs
      BY <2>3 DEF Goto, TypeInv, TypeOK, DefWorkers
    <3>2. /\ crd'.owner = dw.d /\ crd'.managed
          /\ crd'.state = IF crd.state = "none" THEN "live" ELSE crd.state
      BY <2>3 DEF Applied, checkCRDOwnership, TypeInv, TypeOK, CRDs
    <3>3. crd.owner \in {NoOwner, dw.d}
      BY <2>3 DEF checkCRDOwnership, Owned
    <3>4. crd.state \in {"none", "live", "terminating"}
      BY DEF TypeInv, TypeOK, CRDs
    <3>5. Aged' /\ Owned' /\ Dropped' /\ CRDHasDefinition'
      BY <2>1, <3>1, <3>2, <3>4 DEF Aged, Owned, Dropped, CRDHasDefinition, Guarded, Serving
    <3>6. Guarded'
      BY <2>1, <3>1 DEF Guarded, Serving, Finalizing
    <3>7. Claims'
      <4>1. ASSUME NEW d \in Defs, ServedLive(d), d \notin doomed'
            PROVE  d = dw.d /\ crd.state # "terminating"
        <5>1. d # dw.d => crd.owner = d
          BY <2>3, <4>1 DEF Claims
        <5>2. d # NoOwner
          BY <1>1 DEF Sources
        <5> QED BY <1>1, <2>3, <3>3, <4>1, <5>1, <5>2
      <4>2. dw.d \in doomed' \/ (crd'.owner = dw.d /\ crd'.state = "live")
        BY <2>3, <3>2, <3>4
      <4>3. \A d \in Defs : ServedLive(d)' <=> ServedLive(d)
        BY <3>1 DEF ServedLive
      <4> QED BY <2>1, <3>1, <3>2, <3>4, <4>1, <4>2, <4>3 DEF Claims, Finalizing
    <3> QED BY <3>5, <3>6, <3>7
  <2>4. {"InvalidSchema", "CRDConflict"} \subseteq Reasons \ {"Served"}
    BY DEF Reasons
  <2> QED BY <1>2, <2>2, <2>3, <2>4 DEF applyCRD
<1>3. CASE serveCompositeAPI
  <2>1. UNCHANGED <<crd, dcache, doomed>> /\ dw.pc = "start" /\ dw'.pc = "idle"
    BY <1>3 DEF serveCompositeAPI, ghosts, Return, Idle
  <2>2. \A x \in Defs : /\ defs'[x].state = defs[x].state /\ defs'[x].fin = defs[x].fin
                        /\ x # dw.d => defs'[x].cond = defs[x].cond
    BY <1>3 DEF serveCompositeAPI, Condition, TypeInv, TypeOK, Definitions
  <2>3. Aged' /\ Owned' /\ Dropped' /\ CRDHasDefinition' /\ Guarded'
    BY <2>1, <2>2 DEF Aged, Owned, Dropped, CRDHasDefinition, Guarded, Serving, Finalizing
  <2>4. Claims'
    <3>1. /\ dcache[dw.d].state = "deleting" => defs[dw.d].state = "deleting"
          /\ dw.d \in doomed \/ (crd.owner = dw.d /\ crd.state = "live")
      BY <2>1 DEF Guarded, Serving, Claims
    <3> QED BY <2>1, <2>2, <3>1 DEF Claims, ServedLive, Finalizing
  <2> QED BY <2>3, <2>4
<1> QED BY <1>2, <1>3

\* Finalizing a definition keeps the invariant of the definitions.
LEMMA DefFinalize ==
  ASSUME TypeInv, DefInv,
         countObjects \/ deleteServedCRD \/ Forget \/ removeInformer \/ releaseDefinition
  PROVE  DefInv'
<1> USE DEF DefInv
<1>1. dw.d \in Defs /\ dw.d \in Sources /\ NoOwner \notin Sources
  BY TypedAPIAssumption DEF TypeInv, TypeOK, DefWorkers, Sources
<1>2. CASE countObjects
  <2>1. UNCHANGED <<crd, dcache, doomed>> /\ dw.pc = "count"
    BY <1>2 DEF countObjects, caches, ghosts
  <2>2. CASE Condition(dw.d, "DeletionBlocked") /\ Return(TRUE)
    <3>1. dw'.pc = "idle"
      BY <2>2 DEF Return, Idle
    <3>2. \A x \in Defs : /\ defs'[x].state = defs[x].state /\ defs'[x].fin = defs[x].fin
                          /\ defs'[x].cond = "Served" => defs[x].cond = "Served"
      BY <1>1, <2>2, ConditionQuiet DEF Reasons
    <3> QED BY <2>1, <3>1, <3>2, Quiet
  <2>3. CASE dw' = [dw EXCEPT !.pc = "drop", !.seen = Existing] /\ defs' = defs
    <3>1. /\ dw'.pc = "drop" /\ dw'.d = dw.d /\ dw'.me = dw.me /\ dw'.fresh = dw.fresh
      BY <2>3 DEF TypeInv, TypeOK, DefWorkers
    <3> QED BY <2>1, <2>3, <3>1, Quiet DEF Serving, Finalizing
  <2> QED BY <1>2, <2>2, <2>3 DEF countObjects
<1>3. CASE deleteServedCRD
  <2>1. UNCHANGED <<defs, dcache, doomed>> /\ dw.pc = "drop"
    BY <1>3 DEF deleteServedCRD, caches
  <2>2. dw'.d = dw.d /\ dw'.me = dw.me /\ dw'.fresh = dw.fresh /\ dw'.pc \in {"forget", "release"}
    BY <1>3 DEF deleteServedCRD, Goto, TypeInv, TypeOK, DefWorkers
  <2>3. CASE crd.owner = dw.d /\ crd' = [crd EXCEPT !.state = "terminating"]
    <3>1. crd'.state = "terminating" /\ crd'.owner = crd.owner /\ crd'.managed = crd.managed
      BY <2>3 DEF TypeInv, TypeOK, CRDs
    <3>2. Aged' /\ Owned' /\ Dropped' /\ CRDHasDefinition'
      BY <2>1, <3>1 DEF Aged, Owned, Dropped, CRDHasDefinition
    <3>3. Guarded'
      BY <2>1, <2>2 DEF Guarded, Serving, Finalizing
    <3>4. Claims'
      <4>1. \A d \in Defs : ServedLive(d) => d \in doomed
        BY <2>1, <2>3 DEF Claims, Finalizing
      <4> QED BY <2>1, <2>2, <4>1 DEF Claims, ServedLive, Finalizing
    <3> QED BY <3>2, <3>3, <3>4
  <2>4. CASE crd' = crd /\ ~(crd.state # "none" /\ crd.managed /\ crd.owner = dw.d)
    <3>1. crd.owner # dw.d
      BY <1>1, <2>4 DEF Owned
    <3> QED BY <2>1, <2>2, <2>4, <3>1, Quiet DEF Serving, Finalizing
  <2> QED BY <1>3, <2>3, <2>4 DEF deleteServedCRD
<1>4. CASE Forget \/ removeInformer
  <2>1. UNCHANGED <<defs, crd, dcache, doomed>> /\ dw.pc \in {"forget", "unhook"}
    BY <1>4 DEF Forget, removeInformer, cluster, caches, ghosts
  <2>2. dw'.d = dw.d /\ dw'.me = dw.me /\ dw'.fresh = dw.fresh /\ dw'.pc \in {"unhook", "release"}
    BY <1>4 DEF Forget, removeInformer, Goto, TypeInv, TypeOK, DefWorkers
  <2> QED BY <2>1, <2>2, Quiet DEF Serving, Finalizing
<1>5. CASE releaseDefinition
  <2>1. UNCHANGED <<crd, dcache, doomed>> /\ dw.pc = "release" /\ dw'.pc = "idle"
    BY <1>5 DEF releaseDefinition, caches, ghosts, Return, Idle
  <2>2. CASE defs' = defs
    BY <2>1, <2>2, Quiet
  <2>3. CASE dw.fresh /\ defs' = [defs EXCEPT ![dw.d] = NoDefinition]
    <3>1. /\ defs'[dw.d].state = "absent"
          /\ \A x \in Defs : x # dw.d => defs'[x] = defs[x]
      BY <1>1, <2>3 DEF NoDefinition, TypeInv, TypeOK
    <3>2. dcache[dw.d].state = "deleting" /\ ~(crd.state = "live" /\ crd.owner = dw.d)
      BY <2>1, <2>3 DEF Guarded, Dropped, Finalizing
    <3>3. Aged' /\ Owned' /\ Dropped' /\ CRDHasDefinition' /\ Guarded'
      BY <2>1, <3>1, <3>2
         DEF Aged, Owned, Dropped, CRDHasDefinition, Guarded, Serving, Finalizing
    <3>4. Claims'
      BY <2>1, <3>1 DEF Claims, ServedLive, Finalizing
    <3> QED BY <3>3, <3>4
  <2> QED BY <1>5, <2>2, <2>3 DEF releaseDefinition
<1> QED BY <1>2, <1>3, <1>4, <1>5

\* The provider keeps the invariant of the definitions: it takes no CRD that
\* a definition owns.
LEMMA DefProvider ==
  ASSUME TypeInv, DefInv, NEW t \in Tokens, ProviderStep(t)
  PROVE  DefInv'
<1> USE DEF DefInv
<1>1. ensureTypedResources(t)
  BY DEF ProviderStep
<1>2. t \notin Defs /\ t # NoOwner /\ NoOwner \notin Defs /\ dw.d \in Defs
  BY TypedAPIAssumption DEF TypeInv, TypeOK, DefWorkers, Sources
<1>3. UNCHANGED <<defs, dcache, dw, doomed>>
  BY DEF ProviderStep, ghosts
<1>4. CASE crd' = crd
  BY <1>3, <1>4, Quiet DEF Serving, Finalizing
<1>5. CASE /\ crd.state = "none" \/ checkCRDOwnership(t)
           /\ crd' = Applied(t, {TypedVersion}, TypedVersion)
  <2>1. crd'.owner = t /\ crd'.managed /\ crd'.state # "none"
    BY <1>5 DEF Applied, checkCRDOwnership, TypeInv, TypeOK, CRDs
  <2>2. crd.owner \notin Defs
    BY <1>2, <1>5 DEF checkCRDOwnership, Owned
  <2>3. Aged' /\ Owned' /\ Dropped' /\ CRDHasDefinition'
    BY <1>2, <1>3, <2>1 DEF Aged, Owned, Dropped, CRDHasDefinition
  <2>4. Guarded'
    BY <1>3 DEF Guarded, Serving, Finalizing
  <2>5. Claims'
    <3>1. \A d \in Defs : ServedLive(d) => d \in doomed
      BY <2>2 DEF Claims
    <3>2. dw.pc = "start" => dw.d \in doomed
      BY <1>2, <2>2 DEF Claims
    <3> QED BY <1>3, <3>1, <3>2 DEF Claims, ServedLive, Finalizing
  <2> QED BY <2>3, <2>4, <2>5
<1> QED BY <1>1, <1>4, <1>5 DEF ensureTypedResources

\* The cache of definitions catches up, by an event or a restart.
LEMMA DefHear ==
  ASSUME TypeInv, DefInv,
         (\E d \in Defs : HearDefinition(d)) \/ Restart
  PROVE  DefInv'
<1> USE DEF DefInv
<1>1. ASSUME NEW d \in Defs, HearDefinition(d) PROVE DefInv'
  <2>1. UNCHANGED <<defs, crd, dw, doomed>> /\ dcache' = [dcache EXCEPT ![d] = defs[d]]
    BY <1>1 DEF HearDefinition, SyncDefinition, cluster, ghosts
  <2>2. \A x \in Defs : dcache'[x] = dcache[x] \/ dcache'[x] = defs[x]
    BY <2>1 DEF TypeInv, TypeOK
  <2>3. dw.d \in Defs
    BY DEF TypeInv, TypeOK, DefWorkers
  <2>4. Aged' /\ Owned' /\ Dropped' /\ CRDHasDefinition'
    BY <2>1, <2>2 DEF Aged, Owned, Dropped, CRDHasDefinition
  <2>5. Guarded'
    BY <2>1, <2>2, <2>3 DEF Guarded, Serving, Finalizing
  <2>6. Claims'
    BY <2>1, <2>2 DEF Claims, ServedLive, Finalizing
  <2> QED BY <2>4, <2>5, <2>6
<1>2. ASSUME Restart PROVE DefInv'
  <2>1. UNCHANGED <<defs, crd, doomed>> /\ dcache' = defs /\ dw'.pc = "idle"
    BY <1>2 DEF Restart, cluster, ghosts, Idle
  <2> QED BY <2>1 DEF Aged, Owned, Dropped, CRDHasDefinition, Guarded, Claims, ServedLive,
             Serving, Finalizing
<1> QED BY <1>1, <1>2

\* Kubernetes keeps the invariant of the definitions: a CRD that it removes
\* was terminating, and nobody's.
LEMMA DefKubernetes ==
  ASSUME TypeInv, DefInv, Kubernetes
  PROVE  DefInv'
<1> USE DEF DefInv
<1>1. UNCHANGED <<defs, dcache, dw, doomed>>
  BY DEF Kubernetes, CRDCleanup, CollectMirror, MirrorReports, CollectObject, caches, ghosts
<1>2. CASE CRDCleanup
  <2>1. crd.state = "terminating" /\ crd'.state = "none" /\ crd'.owner = NoOwner
    BY <1>2 DEF CRDCleanup, NoCRD
  <2>2. Aged' /\ Owned' /\ Dropped' /\ CRDHasDefinition'
    BY <1>1, <2>1 DEF Aged, Owned, Dropped, CRDHasDefinition
  <2>3. Guarded'
    BY <1>1 DEF Guarded, Serving, Finalizing
  <2>4. Claims'
    BY <1>1, <2>1 DEF Claims, ServedLive, Finalizing
  <2> QED BY <2>2, <2>3, <2>4
<1>3. CASE crd' = crd
  BY <1>1, <1>3, Quiet DEF Serving, Finalizing
<1> QED BY <1>2, <1>3 DEF Kubernetes, CollectMirror, MirrorReports, CollectObject

\* Users keep the invariant of the definitions: one that has its finalizer
\* is not gone when it is deleted.
LEMMA DefUser ==
  ASSUME TypeInv, DefInv, User
  PROVE  DefInv'
<1> USE DEF DefInv
<1>1. /\ UNCHANGED <<dcache, doomed>> /\ dw.d \in Defs
      /\ dw'.pc = dw.pc /\ dw'.d = dw.d /\ dw'.me = dw.me
      /\ dw'.fresh => dw.fresh /\ defs'[dw.d] = defs[dw.d]
  BY DEF User, caches, TypeInv, TypeOK, DefWorkers
<1>2. crd' = crd
  BY DEF User, CreateDefinition, EditAPI, DeleteDefinition, CreateObject, EditObject,
         DeleteObject, CreateByHand, DeleteByHand
<1>3. ASSUME NEW d \in Defs, CreateDefinition(d) \/ EditAPI(d) \/ DeleteDefinition(d) PROVE DefInv'
  <2>1. \A x \in Defs : x # d => defs'[x] = defs[x]
    BY <1>3 DEF CreateDefinition, EditAPI, DeleteDefinition, TypeInv, TypeOK
  <2>2. \/ defs[d].state = "absent" /\ defs'[d].state = "live" /\ defs'[d].cond = "None"
        \/ /\ defs[d].state # "absent" /\ defs'[d].state = defs[d].state
           /\ defs'[d].fin = defs[d].fin /\ defs'[d].cond = defs[d].cond
        \/ /\ defs[d].fin /\ defs[d].state = "live"
           /\ defs'[d].state = "deleting" /\ defs'[d].fin
        \/ ~defs[d].fin /\ defs[d].state = "live" /\ defs'[d].state = "absent"
    <3>1. CASE CreateDefinition(d)
      BY <3>1 DEF CreateDefinition, NoDefinition, TypeInv, TypeOK
    <3>2. CASE EditAPI(d)
      BY <3>2 DEF EditAPI, TypeInv, TypeOK, Definitions
    <3>3. CASE DeleteDefinition(d)
      BY <3>3 DEF DeleteDefinition, NoDefinition, TypeInv, TypeOK, Definitions
    <3> QED BY <1>3, <3>1, <3>2, <3>3
  <2>3. Aged' /\ Owned' /\ Dropped'
    BY <1>1, <1>2, <2>1, <2>2 DEF Aged, Owned, Dropped
  <2>4. CRDHasDefinition'
    BY <1>2, <2>1, <2>2 DEF CRDHasDefinition
  <2>5. Guarded'
    BY <1>1, <2>1, <2>2 DEF Guarded, Serving, Finalizing
  <2>6. Claims'
    <3>1. \A x \in Defs : ServedLive(x)' => ServedLive(x)
      BY <2>1, <2>2 DEF ServedLive
    <3> QED BY <1>1, <1>2, <3>1 DEF Claims, Finalizing
  <2> QED BY <2>3, <2>4, <2>5, <2>6
<1>4. CASE defs' = defs
  <2>1. dw' = dw
    BY <1>4 DEF User
  <2> QED BY <1>1, <1>2, <1>4, <2>1, Quiet DEF Serving, Finalizing
<1> QED BY <1>3, <1>4 DEF User, CreateObject, EditObject, DeleteObject, CreateByHand, DeleteByHand

\* Every step keeps the invariant of the definitions.
LEMMA DefStep ==
  ASSUME TypeInv, Seen, DefInv, [Next]_vars
  PROVE  DefInv'
<1>1. CASE UNCHANGED <<defs, dcache, dw, crd, doomed>>
  BY <1>1, Quiet DEF Serving, Finalizing
<1>2. ASSUME \/ \E o \in Objects : BeginTyped(o) \/ HearObject(o)
             \/ TypedStep(TRUE) \/ TypedStep(FALSE)
             \/ \E m \in Mirrors : HearMirror(m)
             \/ UNCHANGED vars
      PROVE  UNCHANGED <<defs, dcache, dw, crd, doomed>>
  BY <1>2 DEF BeginTyped, Translate, HearObject, SyncObject, TypedStep, CreateOrUpdate,
     mirrorStatusBack, HearMirror, SyncMirror, vars, cluster, caches, ghosts
<1>3. ASSUME ListFails \/ CallFails \/ StatusFails PROVE DefInv'
  <2>1. UNCHANGED <<dcache, crd, doomed>> /\ dw'.pc = "idle" /\ dw.d \in Defs
    BY <1>3 DEF ListFails, CallFails, StatusFails, cluster, caches, ghosts, Return, Idle,
       TypeInv, TypeOK, DefWorkers
  <2>2. \A x \in Defs : /\ defs'[x].state = defs[x].state /\ defs'[x].fin = defs[x].fin
                        /\ defs'[x].cond = "Served" => defs[x].cond = "Served"
    <3>1. CASE ListFails
      BY <2>1, <3>1, ConditionQuiet DEF ListFails, Reasons
    <3>2. CASE defs' = defs
      BY <3>2
    <3> QED BY <1>3, <3>1, <3>2 DEF CallFails, StatusFails, cluster
  <2> QED BY <2>1, <2>2, Quiet
<1> QED BY <1>1, <1>2, <1>3, DefBegin, DefPrepare, DefServe, DefFinalize, DefProvider, DefHear,
           DefKubernetes, DefUser DEF Next, DefinitionStep, Preparing

\* The first states satisfy both invariants: no CRD has an owner yet.
LEMMA DefInit == Init => Seen /\ DefInv
<1> SUFFICES ASSUME Init PROVE Seen /\ DefInv
  OBVIOUS
<1>1. PICK a \in FirstAPIs :
        defs = [d \in Defs |-> [NoDefinition EXCEPT !.state = "live", !.api = a]]
  BY DEF Init
<1>2. \A d \in Defs : defs[d].fin = FALSE /\ defs[d].cond = "None" /\ defs[d].state = "live"
  BY <1>1 DEF NoDefinition
<1>3. dcache = defs /\ ocache = objs /\ mcache = mirrors /\ dw.pc = "idle"
  BY DEF Init, Idle
<1>4. crd.owner = NoOwner /\ NoOwner \notin Defs
  BY TypedAPIAssumption DEF Init, FirstCRD, NoCRD, Sources
<1>5. Seen
  BY <1>3 DEF Seen
<1>6. DefInv
  BY <1>2, <1>3, <1>4 DEF DefInv, Aged, Guarded, Dropped, Owned, Claims, CRDHasDefinition,
     ServedLive, Serving, Finalizing
<1> QED BY <1>5, <1>6

\* The invariant of the definitions holds in every reachable state.
LEMMA DefCorrect == Spec => [](TypeInv /\ Seen /\ DefInv)
<1>1. Init => TypeInv /\ Seen /\ DefInv
  BY TypeInit, DefInit
<1>2. TypeInv /\ Seen /\ DefInv /\ [Next]_vars => (TypeInv /\ Seen /\ DefInv)'
  BY TypeStep, SeenStep, DefStep
<1> QED BY <1>1, <1>2, PTL DEF Spec

\* A generated CRD is never left behind without its definition and the
\* finalizer, whatever restarts, conflicts and stale reads come in between.
THEOREM CRDTheorem == Spec => []CRDHasDefinition
<1>1. TypeInv /\ Seen /\ DefInv => CRDHasDefinition
  BY DEF DefInv
<1> QED BY <1>1, DefCorrect, PTL

\* No two sources serve the one CRD: a definition that reports Served has it
\* for itself, unless it claimed a CRD that was already terminating.
THEOREM ServedTheorem == Spec => []ServedOnce
<1>1. TypeInv /\ Seen /\ DefInv => ServedOnce
  BY DEF DefInv, Claims, ServedLive, ServedOnce
<1> QED BY <1>1, DefCorrect, PTL

-----------------------------------------------------------------------------
(* Typed objects: every one is stored in a version the CRD still lists,       *)
(* unless it was stored after prepareVersionDrop had looked for any; when it  *)
(* gets as far as pruning, it has seen none.                                  *)

\* A reconcile whose copy is of the object's resourceVersion has the object.
Copies == \A t \in tws : t.fresh => t.c = objs[t.o]

\* Objects exist with their CRD only, and no two have the same uid.
Named ==
  /\ crd.state = "none" => \A o \in Objects : objs[o].uid = 0
  /\ \A o \in Objects : objs[o].uid <= uids
  /\ \A o, x \in Objects : objs[o].uid = objs[x].uid /\ o # x => objs[o].uid = 0

Listed ==
  /\ crd.state # "none" => crd.stored \subseteq crd.vers
  /\ \A o \in Objects : objs[o].uid # 0 /\ objs[o].uid \notin late => objs[o].sver \in crd.stored

Looked == dw.pc = "prune" => dw.seen = {}

ObjInv == Copies /\ Named /\ Listed /\ Looked

\* A copy of an object that changes is no longer fresh.
LEMMA OutdatedCopies ==
  ASSUME TypeInv, Copies, NEW ts \in SUBSET tws, tws' = Outdated(ts)
  PROVE  Copies'
<1> SUFFICES ASSUME NEW u \in tws', u.fresh PROVE u.c = objs'[u.o]
  BY DEF Copies
<1>1. PICK t \in ts : u = IF objs'[t.o] # objs[t.o] THEN [t EXCEPT !.fresh = FALSE] ELSE t
  BY DEF Outdated
<1>2. t \in Reconciles
  BY DEF TypeInv, TypeOK
<1>3. ~(objs'[t.o] # objs[t.o])
  BY <1>1, <1>2 DEF Reconciles
<1> QED BY <1>1, <1>3 DEF Copies

\* Superseding the reconciles in flight leaves their copies as they are.
LEMMA SupersededCopies ==
  ASSUME TypeInv, Copies, objs' = objs, tws' = {[t EXCEPT !.cur = FALSE] : t \in tws}
  PROVE  Copies'
<1> SUFFICES ASSUME NEW u \in tws', u.fresh PROVE u.c = objs'[u.o]
  BY DEF Copies
<1>1. PICK t \in tws : u = [t EXCEPT !.cur = FALSE]
  OBVIOUS
<1>2. t \in Reconciles
  BY DEF TypeInv, TypeOK
<1>3. u.c = t.c /\ u.o = t.o /\ u.fresh = t.fresh
  BY <1>1, <1>2 DEF Reconciles
<1> QED BY <1>3 DEF Copies

\* Every step leaves fresh copies right.
LEMMA CopiesStep ==
  ASSUME TypeInv, Seen, Copies, [Next]_vars
  PROVE  Copies'
<1>1. CASE objs' = objs /\ tws' \subseteq tws
  BY <1>1 DEF Copies
<1>2. ASSUME NEW s, NEW ver, startController(s, ver), objs' = objs PROVE Copies'
  BY <1>1, <1>2, SupersededCopies DEF startController, typed
<1>3. ASSUME NEW d \in Defs, Begin(d) \/ HearDefinition(d) PROVE objs' = objs /\ tws' = tws
  BY <1>3 DEF Begin, Reconcile, FinalizerConflict, HearDefinition, SyncDefinition, cluster, typed
<1>4. ASSUME DefinitionStep PROVE Copies'
  <2>1. objs' = objs
    BY <1>4 DEF DefinitionStep, prepareVersionDrop, listBeforeDrop, pruneStoredVersions,
       applyCRD, serveCompositeAPI, countObjects, deleteServedCRD, Forget, removeInformer,
       releaseDefinition, cluster
  <2>2. CASE serveCompositeAPI
    BY <1>2, <2>1, <2>2 DEF serveCompositeAPI
  <2>3. CASE Forget
    BY <1>1, <2>1, <2>3, SupersededCopies DEF Forget, typed
  <2> QED BY <1>1, <1>4, <2>1, <2>2, <2>3 DEF DefinitionStep, prepareVersionDrop,
             listBeforeDrop, pruneStoredVersions, applyCRD, countObjects, deleteServedCRD,
             removeInformer, releaseDefinition, typed
<1>5. ASSUME NEW t \in Tokens, ProviderStep(t) PROVE Copies'
  BY <1>1, <1>2, <1>5 DEF ProviderStep, ensureTypedResources, typed
<1>6. ASSUME NEW o \in Objects, BeginTyped(o) PROVE Copies'
  <2> DEFINE c == IF reg.heard THEN ocache[o] ELSE objs[o]
             job == [cur |-> TRUE, pc |-> "write", src |-> reg.owner, ver |-> reg.ver,
                     o |-> o, c |-> c, fresh |-> reg.heard => o \notin unseen, st |-> NoParams]
  <2>1. job.fresh => job.c = objs[job.o]
    BY DEF Seen
  <2> HIDE DEF c, job
  <2>2. tws' \subseteq tws \cup {job}
    <3>1. tws' = IF c.uid = 0 \/ c.deleting THEN tws ELSE tws \cup {job}
      BY <1>6, Zenon DEF BeginTyped, Translate, c, job
    <3> QED BY <3>1
  <2>3. objs' = objs
    BY <1>6 DEF BeginTyped, Translate, cluster
  <2> QED BY <2>1, <2>2, <2>3 DEF Copies
<1>7. ASSUME NEW cur \in BOOLEAN, TypedStep(cur) PROVE Copies'
  <2>1. PICK t \in tws : CreateOrUpdate(t) \/ mirrorStatusBack(t)
    BY <1>7 DEF TypedStep
  <2>2. t \in Reconciles
    BY DEF TypeInv, TypeOK
  <2>3. CASE CreateOrUpdate(t)
    <3>1. objs' = objs
      BY <2>3 DEF CreateOrUpdate
    <3>2. CASE Fails(t)
      BY <1>1, <3>1, <3>2 DEF Fails
    <3>3. CASE \E st : tws' = (tws \ {t}) \cup {[t EXCEPT !.pc = "status", !.st = st]}
      <4>1. PICK st : tws' = (tws \ {t}) \cup {[t EXCEPT !.pc = "status", !.st = st]}
        BY <3>3
      <4> DEFINE next == [t EXCEPT !.pc = "status", !.st = st]
      <4>2. next.c = t.c /\ next.o = t.o /\ next.fresh = t.fresh
        BY <2>2 DEF Reconciles
      <4>3. tws' \subseteq tws \cup {next}
        BY <4>1
      <4> HIDE DEF next
      <4> QED BY <3>1, <4>2, <4>3 DEF Copies
    <3> QED BY <2>3, <3>2, <3>3 DEF CreateOrUpdate
  <2>4. CASE mirrorStatusBack(t)
    <3>1. CASE tws' = Outdated(tws \ {t})
      BY <3>1, OutdatedCopies
    <3>2. CASE tws' = tws \ {t} /\ objs' = objs
      BY <1>1, <3>2
    <3> QED BY <2>4, <3>1, <3>2 DEF mirrorStatusBack, Fails
  <2> QED BY <2>1, <2>3, <2>4
<1>8. ASSUME Kubernetes \/ User PROVE Copies'
  BY <1>8, OutdatedCopies DEF Kubernetes, User
<1>9. ASSUME StatusFails PROVE Copies'
  BY <1>2, <1>9 DEF StatusFails, cluster
<1>10. ASSUME \/ \E o \in Objects : HearObject(o)
              \/ \E m \in Mirrors : HearMirror(m)
              \/ ListFails \/ CallFails \/ Restart \/ UNCHANGED vars
       PROVE  objs' = objs /\ tws' \subseteq tws
  BY <1>10 DEF HearObject, SyncObject, HearMirror, SyncMirror, ListFails, CallFails, Restart,
     vars, cluster, typed
<1> QED BY <1>1, <1>3, <1>4, <1>5, <1>6, <1>7, <1>8, <1>9, <1>10 DEF Next

\* What steps do to the CRD's versions and to the objects.
Aside ==
  /\ UNCHANGED <<objs, late, uids>>
  /\ (crd'.state = "none") = (crd.state = "none")
  /\ crd'.vers = crd.vers /\ crd'.stored = crd.stored
Narrows ==
  /\ UNCHANGED <<objs, uids>> /\ late \subseteq late'
  /\ crd'.state = crd.state /\ crd'.vers = crd.vers /\ crd'.stored \subseteq crd.stored
  /\ \A o \in Objects : objs[o].uid # 0 /\ objs[o].sver \in crd.stored \ crd'.stored =>
                          objs[o].uid \in late'
Widens ==
  /\ UNCHANGED <<objs, late, uids>>
  /\ crd'.state # "none" /\ crd'.stored \subseteq crd'.vers
  /\ crd.state # "none" => crd.stored \subseteq crd'.stored
Empties ==
  UNCHANGED <<late, uids>> /\ crd'.state = "none" /\ objs' = [o \in Objects |-> NoObject]
Writes(o) ==
  /\ UNCHANGED <<crd, uids>> /\ crd.state # "none"
  /\ \E obj \in TypedObjects : obj.uid = objs[o].uid /\ obj.uid # 0 /\ Stored(o, obj)
Adds(o) ==
  /\ crd' = crd /\ crd.state # "none" /\ uids' = uids + 1
  /\ \E obj \in TypedObjects : obj.uid = uids + 1 /\ Stored(o, obj)
Removes(o) ==
  /\ UNCHANGED <<crd, late, uids>>
  /\ objs' = [objs EXCEPT ![o] = NoObject] \/ objs' = [objs EXCEPT ![o].deleting = TRUE]

\* applyCRD as a change of the versions: what the API server accepts lists
\* every stored version, and the storage version too.
LEMMA AppliedWidens ==
  ASSUME TypeInv, NEW s, NEW vers, NEW ver \in vers, Accepted(vers),
         crd' = Applied(s, vers, ver), UNCHANGED <<objs, late, uids>>
  PROVE  Widens
<1>1. CASE crd.state = "none"
  BY <1>1 DEF Applied, Widens
<1>2. CASE crd.state # "none"
  <2>1. /\ crd'.state = crd.state /\ crd'.vers = vers /\ crd'.stored = crd.stored \cup {ver}
    BY <1>2 DEF Applied, TypeInv, TypeOK, CRDs
  <2> QED BY <1>2, <2>1 DEF Accepted, Widens
<1> QED BY <1>1, <1>2

\* The definition controller's steps, seen so.
LEMMA DefinitionKinds ==
  ASSUME TypeInv, Looked, DefinitionStep
  PROVE  Aside \/ Narrows \/ Widens
<1>1. CASE pruneStoredVersions
  <2>1. UNCHANGED <<objs, uids>> /\ late \subseteq late' /\ dw.seen = {}
    BY <1>1 DEF pruneStoredVersions, Looked, DefinitionStep, bounds
  <2> DEFINE dropped == dw.copy.stored \ Kept(dw.me.api)
  <2>2. CASE crd' = crd /\ late' = late
    BY <2>1, <2>2 DEF Aside
  <2>3. CASE /\ crd' = [crd EXCEPT !.stored = @ \ dropped]
             /\ late' = late \cup ({objs[o].uid : o \in {x \in Objects :
                          objs[x].uid \notin dw.seen /\ objs[x].sver \in dropped}} \ {0})
    <3>1. /\ crd'.state = crd.state /\ crd'.vers = crd.vers
          /\ crd'.stored = crd.stored \ dropped
      BY <2>3 DEF TypeInv, TypeOK, CRDs
    <3>2. ASSUME NEW o \in Objects, objs[o].uid # 0, objs[o].sver \in crd.stored \ crd'.stored
          PROVE  objs[o].uid \in late'
      BY <2>1, <2>3, <3>1, <3>2
    <3> QED BY <2>1, <3>1, <3>2 DEF Narrows
  <2> QED BY <1>1, <2>2, <2>3 DEF pruneStoredVersions
<1>2. CASE ~pruneStoredVersions
  <2>1. UNCHANGED <<objs, late, uids>>
    BY <1>2 DEF DefinitionStep, prepareVersionDrop, listBeforeDrop, applyCRD, serveCompositeAPI,
       countObjects, deleteServedCRD, Forget, removeInformer, releaseDefinition, cluster, ghosts,
       bounds
  <2>2. CASE crd' = crd
    BY <2>1, <2>2 DEF Aside
  <2>3. CASE applyCRD
    <3>1. dw.me.api.ver \in Kept(dw.me.api)
      BY DEF Kept
    <3> QED BY <2>1, <2>2, <2>3, <3>1, AppliedWidens DEF applyCRD
  <2>4. CASE deleteServedCRD
    BY <2>1, <2>2, <2>4 DEF deleteServedCRD, Aside, TypeInv, TypeOK, CRDs
  <2> QED BY <1>2, <2>2, <2>3, <2>4 DEF DefinitionStep, prepareVersionDrop, listBeforeDrop,
             serveCompositeAPI, countObjects, Forget, removeInformer, releaseDefinition, cluster
<1> QED BY <1>1, <1>2

\* Whoever prunes has looked: every other step leaves what was seen alone, or
\* the worker somewhere else.
LEMMA LookedStep ==
  ASSUME TypeInv, Looked, [Next]_vars
  PROVE  Looked'
<1>1. dw \in DefWorkers
  BY DEF TypeInv, TypeOK
<1>2. \A again : Return(again) => dw'.pc # "prune"
  BY DEF Return, Idle
<1>3. \A pc : Goto(pc) => dw'.pc = pc
  BY <1>1 DEF Goto, DefWorkers
<1>4. CASE dw' = dw
  BY <1>4 DEF Looked
<1>5. ASSUME NEW d \in Defs, Begin(d) PROVE Looked'
  <2>1. CASE Serve(d)
    BY <2>1 DEF Serve, Idle, Looked
  <2>2. CASE finalizeDefinition(d)
    BY <2>2 DEF finalizeDefinition, Idle, Looked
  <2> QED BY <1>4, <1>5, <2>1, <2>2 DEF Begin, Reconcile, FinalizerConflict, Nothing, Invalid
<1>6. ASSUME DefinitionStep PROVE Looked'
  <2>1. CASE listBeforeDrop
    <3>1. CASE Existing = {} /\ dw' = [dw EXCEPT !.pc = "prune", !.seen = Existing]
      BY <1>1, <3>1 DEF Looked, DefWorkers
    <3> QED BY <1>2, <2>1, <3>1 DEF listBeforeDrop, Looked
  <2>2. CASE \/ prepareVersionDrop \/ pruneStoredVersions
             \/ applyCRD \/ serveCompositeAPI
    <3>1. dw'.pc # "prune"
      BY <1>1, <1>2, <1>3, <2>2 DEF prepareVersionDrop, pruneStoredVersions, applyCRD,
         serveCompositeAPI, DefWorkers
    <3> QED BY <3>1 DEF Looked
  <2>3. CASE \/ countObjects \/ deleteServedCRD
             \/ Forget \/ removeInformer \/ releaseDefinition
    <3>1. dw'.pc # "prune"
      BY <1>1, <1>2, <1>3, <2>3 DEF countObjects, deleteServedCRD, Forget, removeInformer,
         releaseDefinition, DefWorkers
    <3> QED BY <3>1 DEF Looked
  <2> QED BY <1>6, <2>1, <2>2, <2>3 DEF DefinitionStep
<1>7. ASSUME User PROVE Looked'
  <2>1. dw'.pc = dw.pc /\ dw'.seen = dw.seen
    <3>1. dw' = IF defs'[dw.d] # defs[dw.d] THEN [dw EXCEPT !.fresh = FALSE] ELSE dw
      BY <1>7, Zenon DEF User
    <3> QED BY <1>1, <3>1 DEF DefWorkers
  <2> QED BY <2>1 DEF Looked
<1>8. ASSUME ListFails \/ CallFails \/ StatusFails \/ Restart PROVE Looked'
  <2>1. dw'.pc # "prune"
    BY <1>8 DEF ListFails, CallFails, StatusFails, Restart, Return, Idle
  <2> QED BY <2>1 DEF Looked
<1>9. ASSUME \/ \E o \in Objects : BeginTyped(o) \/ HearObject(o)
             \/ TypedStep(TRUE) \/ TypedStep(FALSE)
             \/ \E d \in Defs : HearDefinition(d)
             \/ \E m \in Mirrors : HearMirror(m)
             \/ \E t \in Tokens : ProviderStep(t)
             \/ Kubernetes \/ UNCHANGED vars
      PROVE  dw' = dw
  BY <1>9 DEF BeginTyped, HearObject, TypedStep, HearDefinition, HearMirror, ProviderStep,
     Kubernetes, vars
<1> QED BY <1>4, <1>5, <1>6, <1>7, <1>8, <1>9 DEF Next

\* Every step, seen so.
LEMMA ObjectKinds ==
  ASSUME TypeInv, Copies, Named, Looked, [Next]_vars
  PROVE  \/ Aside \/ Narrows \/ Widens \/ Empties
         \/ \E o \in Objects : Writes(o) \/ Adds(o) \/ Removes(o)
<1>1. CASE UNCHANGED <<crd, objs, late, uids>>
  BY <1>1 DEF Aside
<1>2. ASSUME \/ \E d \in Defs : Begin(d) \/ HearDefinition(d)
             \/ \E o \in Objects : BeginTyped(o) \/ HearObject(o)
             \/ \E m \in Mirrors : HearMirror(m)
             \/ ListFails \/ CallFails \/ StatusFails \/ Restart \/ UNCHANGED vars
      PROVE  UNCHANGED <<crd, objs, late, uids>>
  BY <1>2 DEF Begin, Reconcile, FinalizerConflict, HearDefinition, SyncDefinition, BeginTyped,
     Translate, HearObject, SyncObject, HearMirror, SyncMirror, ListFails, CallFails, StatusFails,
     Restart, vars, cluster, bounds, ghosts
<1>3. ASSUME NEW t \in Tokens, ProviderStep(t) PROVE Aside \/ Widens
  <2>1. UNCHANGED <<objs, late, uids>>
    BY <1>3 DEF ProviderStep, bounds, ghosts
  <2>2. ensureTypedResources(t)
    BY <1>3 DEF ProviderStep
  <2>3. CASE Accepted({TypedVersion}) /\ crd' = Applied(t, {TypedVersion}, TypedVersion)
    BY <2>1, <2>3, AppliedWidens
  <2> QED BY <2>1, <2>2, <2>3 DEF ensureTypedResources, Aside
<1>4. ASSUME NEW cur \in BOOLEAN, TypedStep(cur)
      PROVE  UNCHANGED <<crd, objs, late, uids>> \/ \E o \in Objects : Writes(o)
  <2>1. PICK t \in tws : CreateOrUpdate(t) \/ mirrorStatusBack(t)
    BY <1>4 DEF TypedStep
  <2>2. UNCHANGED <<crd, uids>>
    BY <1>4, <2>1 DEF TypedStep, CreateOrUpdate, mirrorStatusBack, bounds
  <2>3. CASE objs[t.o].uid # 0 /\ t.fresh /\ Stored(t.o, [t.c EXCEPT !.st = t.st])
    <3>1. t \in Reconciles /\ t.o \in Objects /\ t.c \in TypedObjects /\ t.c = objs[t.o]
      BY <2>3 DEF TypeInv, TypeOK, Reconciles, Copies
    <3>2. /\ [t.c EXCEPT !.st = t.st] \in TypedObjects
          /\ [t.c EXCEPT !.st = t.st].uid = objs[t.o].uid
      BY <3>1 DEF TypedObjects, Reconciles
    <3>3. crd.state # "none"
      BY <2>3, <3>1 DEF Named
    <3> QED BY <2>2, <2>3, <3>1, <3>2, <3>3 DEF Writes
  <2>4. CASE UNCHANGED <<objs, late>>
    BY <2>2, <2>4
  <2> QED BY <2>1, <2>3, <2>4 DEF CreateOrUpdate, mirrorStatusBack, ghosts
<1>5. ASSUME Kubernetes
      PROVE  UNCHANGED <<crd, objs, late, uids>> \/ Empties \/ \E o \in Objects : Removes(o)
  BY <1>5 DEF Kubernetes, CRDCleanup, CollectMirror, MirrorReports, CollectObject, NoCRD, bounds,
     ghosts, Empties, Removes
<1>6. ASSUME User
      PROVE  \/ UNCHANGED <<crd, objs, late, uids>>
             \/ \E o \in Objects : Writes(o) \/ Adds(o) \/ Removes(o)
  <2>1. ASSUME NEW o \in Objects, CreateObject(o) PROVE Adds(o)
    <3>1. PICK p \in FirstParams : Stored(o, [NoObject EXCEPT !.uid = uids + 1, !.p = p])
      BY <2>1 DEF CreateObject
    <3>2. uids + 1 \in 0..MaxUids /\ p \in AnyParams
      BY <2>1, TypedAPIAssumption DEF CreateObject, TypeInv, TypeOK, AnyParams
    <3>3. ASSUME NEW u \in 0..MaxUids
          PROVE  /\ [NoObject EXCEPT !.uid = u, !.p = p] \in TypedObjects
                 /\ [NoObject EXCEPT !.uid = u, !.p = p].uid = u
      BY <3>2, Shapes DEF TypedObjects
    <3> QED BY <2>1, <3>1, <3>2, <3>3 DEF CreateObject, Adds
  <2>2. ASSUME NEW o \in Objects, EditObject(o) PROVE Writes(o)
    <3>1. PICK p \in Params : Stored(o, [objs[o] EXCEPT !.p = p])
      BY <2>2 DEF EditObject
    <3>2. /\ [objs[o] EXCEPT !.p = p] \in TypedObjects
          /\ [objs[o] EXCEPT !.p = p].uid = objs[o].uid
      BY DEF TypeInv, TypeOK, TypedObjects, AnyParams
    <3> QED BY <2>2, <3>1, <3>2 DEF EditObject, Writes
  <2>3. ASSUME NEW o \in Objects, DeleteObject(o) PROVE Removes(o)
    BY <2>3 DEF DeleteObject, Removes
  <2> QED BY <1>6, <2>1, <2>2, <2>3
          DEF User, CreateDefinition, EditAPI, DeleteDefinition, CreateByHand, DeleteByHand
<1> QED BY <1>1, <1>2, <1>3, <1>4, <1>5, <1>6, DefinitionKinds DEF Next

\* Every step leaves objects with their CRD, their uids and a listed version.
LEMMA ObjStep ==
  ASSUME TypeInv, Seen, ObjInv, [Next]_vars
  PROVE  ObjInv'
<1> USE DEF ObjInv
<1>1. Copies' /\ Looked'
  BY CopiesStep, LookedStep
<1>2. uids \in Nat /\ \A o \in Objects : objs[o].uid \in Nat
  BY TypedAPIAssumption DEF TypeInv, TypeOK, TypedObjects
<1>3. ASSUME Aside PROVE Listed'
  BY <1>3 DEF Aside, Listed
<1>4. ASSUME Aside \/ Narrows \/ Widens \/ Empties PROVE Named'
  <2>1. CASE Empties
    BY <1>2, <2>1 DEF Empties, Named, NoObject
  <2> QED BY <1>4, <2>1 DEF Aside, Narrows, Widens, Named
<1>5. ASSUME Aside \/ Narrows \/ Widens \/ Empties PROVE Listed'
  <2>1. CASE Narrows
    BY <2>1 DEF Narrows, Listed
  <2>2. CASE Widens
    BY <2>2 DEF Widens, Named, Listed
  <2>3. CASE Empties
    BY <2>3 DEF Empties, Listed, NoObject
  <2> QED BY <1>3, <1>5, <2>1, <2>2, <2>3
<1>6. ASSUME NEW o \in Objects, Writes(o) \/ Adds(o) PROVE Named' /\ Listed'
  <2>1. PICK obj \in TypedObjects :
          /\ Stored(o, obj)
          /\ \/ obj.uid = objs[o].uid /\ obj.uid # 0 /\ uids' = uids
             \/ obj.uid = uids + 1 /\ uids' = uids + 1
    BY <1>6 DEF Writes, Adds
  <2>2. /\ crd' = crd /\ crd.state # "none" /\ obj.uid <= uids' /\ uids <= uids'
        /\ \A x \in Objects \ {o} : objs[x].uid # 0 => objs[x].uid # obj.uid
    BY <1>2, <1>6, <2>1 DEF Writes, Adds, Named
  <2>3. /\ objs'[o].uid = obj.uid /\ objs'[o].sver = crd.storage
        /\ \A x \in Objects \ {o} : objs'[x] = objs[x]
    BY <2>1 DEF Stored, TypeInv, TypeOK, TypedObjects
  <2>4. Named'
    BY <1>2, <1>6, <2>2, <2>3 DEF Named, Writes, Adds
  <2>5. Listed'
    BY <2>1, <2>2, <2>3 DEF Listed, Stored
  <2> QED BY <2>4, <2>5
<1>7. ASSUME NEW o \in Objects, Removes(o) PROVE Named' /\ Listed'
  <2>1. /\ objs'[o].uid = 0 \/ (objs'[o].uid = objs[o].uid /\ objs'[o].sver = objs[o].sver)
        /\ \A x \in Objects \ {o} : objs'[x] = objs[x]
    BY <1>7 DEF Removes, NoObject, TypeInv, TypeOK, TypedObjects
  <2>2. Named'
    BY <1>2, <1>7, <2>1 DEF Removes, Named
  <2>3. Listed'
    BY <1>7, <2>1 DEF Removes, Listed
  <2> QED BY <2>2, <2>3
<1> QED BY <1>1, <1>4, <1>5, <1>6, <1>7, ObjectKinds

\* The first states have the one object a legacy CRD may hold.
LEMMA ObjInit == Init => ObjInv
<1> SUFFICES ASSUME Init PROVE ObjInv
  OBVIOUS
<1>1. PICK s \in Strangers, first \in Objects, p \in FirstParams :
        LET again == IF s = "legacy" THEN {first} ELSE {} IN
        /\ crd = FirstCRD(s) /\ uids = 2 * Cardinality(again)
        /\ objs = [o \in Objects |-> IF o \in again
                     THEN [NoObject EXCEPT !.uid = 2, !.p = p] ELSE NoObject]
  BY DEF Init
<1>2. Cardinality({first}) = 1 /\ Cardinality({}) = 0
  BY FS_Singleton, FS_EmptySet
<1>3. tws = {} /\ late = {} /\ Looked
  BY DEF Init, Idle, Looked
<1>4. NoObject.uid = 0 /\ [NoObject EXCEPT !.uid = 2, !.p = p].uid = 2
      /\ [NoObject EXCEPT !.uid = 2, !.p = p].sver = TypedVersion
  BY DEF NoObject
<1>5. CASE s = "legacy"
  <2>1. /\ crd.state = "live" /\ crd.stored = {TypedVersion} /\ crd.vers = {TypedVersion} /\ uids = 2
        /\ \A o \in Objects : objs[o] = IF o = first THEN [NoObject EXCEPT !.uid = 2, !.p = p]
                                                     ELSE NoObject
    BY <1>1, <1>2, <1>5 DEF FirstCRD
  <2>2. \A o \in Objects : /\ o = first => objs[o].uid = 2 /\ objs[o].sver = TypedVersion
                           /\ o # first => objs[o].uid = 0
    BY <1>4, <2>1
  <2>3. Named
    BY <2>1, <2>2 DEF Named
  <2> QED BY <1>3, <2>1, <2>2, <2>3 DEF ObjInv, Copies, Listed
<1>6. CASE s # "legacy"
  <2>1. /\ uids = 0 /\ \A o \in Objects : objs[o] = NoObject
        /\ crd.state # "none" => crd.stored \subseteq crd.vers
    BY <1>1, <1>2, <1>6 DEF FirstCRD, NoCRD
  <2> QED BY <1>3, <1>4, <2>1 DEF ObjInv, Copies, Named, Listed
<1> QED BY <1>5, <1>6

\* No version is dropped while an object exists that is stored in it, except
\* one stored after prepareVersionDrop had listed the objects.
THEOREM ReadableTheorem == Spec => []ObjectsStayReadable
<1>1. Init => TypeInv /\ Seen /\ ObjInv
  BY TypeInit, DefInit, ObjInit
<1>2. TypeInv /\ Seen /\ ObjInv /\ [Next]_vars => (TypeInv /\ Seen /\ ObjInv)'
  BY TypeStep, SeenStep, ObjStep
<1>3. TypeInv /\ Seen /\ ObjInv => ObjectsStayReadable
  BY DEF ObjInv, Named, Listed, ObjectsStayReadable
<1> QED BY <1>1, <1>2, <1>3, PTL DEF Spec

-----------------------------------------------------------------------------
(* The deletion of a definition.  Between the count and the delete only the   *)
(* CRD's owner may change it, so a count of none in a version the CRD serves  *)
(* at the delete was a count of every object.                                 *)

Counted == dw.pc = "drop" /\ crd.owner = dw.d /\ ServedTo(dw.me) => dw.seen = {}

LostInv == Counted /\ DeletionWaitsWhenServed

\* Steps that leave the count, the CRD and lost alone, or end the count.
LEMMA CountKept ==
  ASSUME LostInv, lost' = lost,
         \/ dw'.pc # "drop"
         \/ crd'.owner # dw'.d
         \/ crd' = crd /\ dw'.pc = dw.pc /\ dw'.d = dw.d /\ dw'.me = dw.me /\ dw'.seen = dw.seen
  PROVE  LostInv'
BY DEF LostInv, Counted, DeletionWaitsWhenServed, ServedTo

\* Every step keeps what was counted.
LEMMA LostStep ==
  ASSUME TypeInv, LostInv, [Next]_vars
  PROVE  LostInv'
<1>1. dw.d \in Defs /\ NoOwner \notin Defs /\ Defs \cap Tokens = {}
  BY TypedAPIAssumption DEF TypeInv, TypeOK, DefWorkers, Sources
<1>2. CASE UNCHANGED <<crd, dw, lost>>
  BY <1>2, CountKept
<1>3. ASSUME NEW d \in Defs, Begin(d) PROVE LostInv'
  <2>1. lost' = lost /\ crd' = crd /\ dw.pc = "idle"
    BY <1>3 DEF Begin, Reconcile, FinalizerConflict, cluster, ghosts
  <2>2. dw'.pc # "drop"
    <3>1. CASE Serve(d)
      BY <3>1 DEF Serve, Idle
    <3>2. CASE finalizeDefinition(d)
      BY <3>2 DEF finalizeDefinition, Idle
    <3> QED BY <1>3, <2>1, <3>1, <3>2 DEF Begin, Reconcile, FinalizerConflict, Nothing, Invalid
  <2> QED BY <2>1, <2>2, CountKept
<1>4. ASSUME DefinitionStep PROVE LostInv'
  <2>1. CASE countObjects
    <3>1. crd' = crd /\ lost' = lost
      BY <2>1 DEF countObjects, ghosts
    <3>2. CASE Return(TRUE)
      BY <3>1, <3>2, CountKept DEF Return, Idle
    <3>3. CASE /\ ~(ServedTo(dw.me) /\ Existing # {})
               /\ dw' = [dw EXCEPT !.pc = "drop", !.seen = Existing]
      <4>1. dw'.me = dw.me /\ dw'.seen = Existing
        BY <3>3 DEF TypeInv, TypeOK, DefWorkers
      <4> QED BY <3>1, <3>3, <4>1 DEF LostInv, Counted, DeletionWaitsWhenServed, ServedTo
    <3> QED BY <2>1, <3>2, <3>3 DEF countObjects
  <2>2. CASE deleteServedCRD
    <3>1. dw.pc = "drop" /\ dw'.pc # "drop"
      BY <2>2 DEF deleteServedCRD, Goto, TypeInv, TypeOK, DefWorkers
    <3>2. CASE lost' = lost
      BY <3>1, <3>2, CountKept
    <3>3. CASE /\ crd.owner = dw.d
               /\ lost' = lost \cup [uid : Existing \cap dw.seen, served : {ServedTo(dw.me)}]
      <4>1. ASSUME NEW l \in lost', l.served PROVE FALSE
        <5>1. l \notin lost
          BY <4>1 DEF LostInv, DeletionWaitsWhenServed
        <5>2. l.uid \in dw.seen /\ l.served = ServedTo(dw.me)
          BY <3>3, <5>1
        <5> QED BY <3>1, <3>3, <4>1, <5>2 DEF LostInv, Counted
      <4> QED BY <3>1, <4>1 DEF LostInv, Counted, DeletionWaitsWhenServed
    <3> QED BY <2>2, <3>2, <3>3 DEF deleteServedCRD
  <2>3. CASE Preparing \/ applyCRD \/ serveCompositeAPI \/ Forget \/ removeInformer
               \/ releaseDefinition
    <3>1. lost' = lost
      BY <2>3 DEF Preparing, prepareVersionDrop, listBeforeDrop, pruneStoredVersions, applyCRD,
         serveCompositeAPI, Forget, removeInformer, releaseDefinition, ghosts
    <3>2. /\ \A again : Return(again) => dw'.pc # "drop"
          /\ \A pc \in {"apply", "start", "release"} : Goto(pc) => dw'.pc # "drop"
      BY DEF Return, Goto, Idle, TypeInv, TypeOK, DefWorkers
    <3>3. ASSUME Forget PROVE dw'.pc # "drop"
      BY <3>2, <3>3 DEF Forget, TypeInv, TypeOK, DefWorkers
    <3>4. ASSUME Preparing PROVE dw'.pc # "drop"
      BY <3>2, <3>4 DEF Preparing, prepareVersionDrop, listBeforeDrop, pruneStoredVersions,
         TypeInv, TypeOK, DefWorkers
    <3>5. dw'.pc # "drop"
      BY <2>3, <3>2, <3>3, <3>4 DEF applyCRD, serveCompositeAPI, removeInformer,
         releaseDefinition
    <3> QED BY <3>1, <3>5, CountKept
  <2> QED BY <1>4, <2>1, <2>2, <2>3 DEF DefinitionStep, Preparing
<1>5. ASSUME NEW t \in Tokens, ProviderStep(t) PROVE LostInv'
  <2>1. lost' = lost /\ dw' = dw
    BY <1>5 DEF ProviderStep, ghosts
  <2>2. ensureTypedResources(t)
    BY <1>5 DEF ProviderStep
  <2>3. CASE crd' = Applied(t, {TypedVersion}, TypedVersion)
    <3>1. crd'.owner = t /\ t # dw.d
      BY <1>1, <2>3 DEF Applied, TypeInv, TypeOK, CRDs
    <3> QED BY <2>1, <3>1, CountKept
  <2> QED BY <2>1, <2>2, <2>3, CountKept DEF ensureTypedResources
<1>6. ASSUME Kubernetes PROVE LostInv'
  <2>1. lost' = lost /\ dw' = dw
    BY <1>6 DEF Kubernetes, ghosts
  <2>2. crd' = crd \/ crd'.owner # dw'.d
    BY <1>1, <1>6, <2>1
       DEF Kubernetes, CRDCleanup, CollectMirror, MirrorReports, CollectObject, NoCRD
  <2> QED BY <2>1, <2>2, CountKept
<1>7. ASSUME User PROVE LostInv'
  <2>1. lost' = lost /\ crd' = crd
    BY <1>7 DEF User, CreateDefinition, EditAPI, DeleteDefinition, CreateObject, EditObject,
       DeleteObject, CreateByHand, DeleteByHand
  <2>2. dw'.pc = dw.pc /\ dw'.d = dw.d /\ dw'.me = dw.me /\ dw'.seen = dw.seen
    BY <1>7 DEF User, TypeInv, TypeOK, DefWorkers
  <2> QED BY <2>1, <2>2, CountKept
<1>8. ASSUME ListFails \/ CallFails \/ StatusFails \/ Restart PROVE LostInv'
  <2>1. lost' = lost /\ dw'.pc # "drop"
    BY <1>8 DEF ListFails, CallFails, StatusFails, Restart, Return, Idle, ghosts
  <2> QED BY <2>1, CountKept
<1>9. ASSUME \/ \E o \in Objects : BeginTyped(o) \/ HearObject(o)
             \/ TypedStep(TRUE) \/ TypedStep(FALSE)
             \/ \E d \in Defs : HearDefinition(d)
             \/ \E m \in Mirrors : HearMirror(m)
             \/ UNCHANGED vars
      PROVE  UNCHANGED <<crd, dw, lost>>
  BY <1>9 DEF BeginTyped, Translate, HearObject, SyncObject, TypedStep, CreateOrUpdate,
     mirrorStatusBack, HearDefinition, SyncDefinition, HearMirror, SyncMirror, vars, cluster,
     ghosts
<1> QED BY <1>2, <1>3, <1>4, <1>5, <1>6, <1>7, <1>8, <1>9 DEF Next

\* A definition's deletion takes no typed object that was there when they
\* were counted, as long as the CRD serves the definition's version.
THEOREM DeletionTheorem == Spec => []DeletionWaitsWhenServed
<1>1. Init => TypeInv /\ LostInv
  <2>1. Init => dw.pc = "idle" /\ lost = {}
    BY DEF Init, Idle
  <2> QED BY <2>1, TypeInit DEF LostInv, Counted, DeletionWaitsWhenServed
<1>2. TypeInv /\ LostInv /\ [Next]_vars => (TypeInv /\ LostInv)'
  BY TypeStep, LostStep
<1>3. TypeInv /\ LostInv => DeletionWaitsWhenServed
  BY DEF LostInv
<1> QED BY <1>1, <1>2, <1>3, PTL DEF Spec

-----------------------------------------------------------------------------
(* What somebody else owns *)

ForeignStep ==
  /\ (crd.state = "live" /\ ~crd.managed) =>
       crd' = [crd EXCEPT !.stored = crd'.stored] /\ crd'.stored \subseteq crd.stored
  /\ (crd.state # "none" /\ crd.owner # NoOwner) => crd'.owner \in {crd.owner, NoOwner}
  /\ \A m \in Mirrors : mirrors[m].ctl = 0 => mirrors'[m] = mirrors[m]

\* Whoever steps, users apart, leaves foreign CRDs and mirrors alone.
LEMMA ForeignStepHolds ==
  ASSUME TypeInv, Seen, [Next]_vars, edits' = edits
  PROVE  ForeignStep
<1>1. ~User
  <2>1. edits \in Nat
    BY DEF TypeInv, TypeOK
  <2> QED BY <2>1 DEF User
<1>2. crd \in CRDs
  BY DEF TypeInv, TypeOK
<1>3. ASSUME crd' = crd \/ \E v : crd' = [crd EXCEPT !.stored = @ \ v], mirrors' = mirrors
      PROVE  ForeignStep
  BY <1>2, <1>3 DEF ForeignStep, CRDs
<1>4. ASSUME NEW s, NEW vers, NEW ver, crd.state = "none" \/ checkCRDOwnership(s),
             crd' = Applied(s, vers, ver), mirrors' = mirrors
      PROVE  ForeignStep
  BY <1>2, <1>4 DEF ForeignStep, checkCRDOwnership, Applied, CRDs
<1>5. ASSUME \/ \E d \in Defs : Begin(d) \/ HearDefinition(d)
             \/ \E o \in Objects : BeginTyped(o) \/ HearObject(o)
             \/ \E m \in Mirrors : HearMirror(m)
             \/ ListFails \/ CallFails \/ StatusFails \/ Restart \/ UNCHANGED vars
      PROVE  crd' = crd /\ mirrors' = mirrors
  BY <1>5 DEF Begin, Reconcile, FinalizerConflict, HearDefinition, SyncDefinition, BeginTyped,
     Translate, HearObject, SyncObject, HearMirror, SyncMirror, ListFails, CallFails, StatusFails,
     Restart, vars, cluster
<1>6. ASSUME DefinitionStep PROVE ForeignStep
  <2>1. mirrors' = mirrors
    BY <1>6 DEF DefinitionStep, prepareVersionDrop, listBeforeDrop, pruneStoredVersions,
       applyCRD, serveCompositeAPI, countObjects, deleteServedCRD, Forget, removeInformer,
       releaseDefinition, cluster
  <2>2. CASE pruneStoredVersions
    BY <1>3, <2>1, <2>2 DEF pruneStoredVersions
  <2>3. CASE applyCRD
    BY <1>3, <1>4, <2>1, <2>3 DEF applyCRD
  <2>4. CASE deleteServedCRD
    <3>1. CASE crd.managed /\ crd' = [crd EXCEPT !.state = "terminating"]
      BY <1>2, <2>1, <3>1 DEF ForeignStep, CRDs
    <3> QED BY <1>3, <2>1, <2>4, <3>1 DEF deleteServedCRD
  <2> QED BY <1>3, <1>6, <2>1, <2>2, <2>3, <2>4 DEF DefinitionStep, prepareVersionDrop,
             listBeforeDrop, serveCompositeAPI, countObjects, Forget, removeInformer,
             releaseDefinition, cluster
<1>7. ASSUME NEW t \in Tokens, ProviderStep(t) PROVE ForeignStep
  BY <1>3, <1>4, <1>7 DEF ProviderStep, ensureTypedResources
<1>8. ASSUME NEW cur \in BOOLEAN, TypedStep(cur) PROVE ForeignStep
  <2>1. PICK t \in tws : CreateOrUpdate(t) \/ mirrorStatusBack(t)
    BY <1>8 DEF TypedStep
  <2>2. crd' = crd
    BY <2>1 DEF CreateOrUpdate, mirrorStatusBack
  <2>3. CASE mirrors' = mirrors
    BY <1>3, <2>2, <2>3
  <2>4. CASE \E new : /\ new # mcache[MirrorOf(t)] /\ ensureControlled(t)
                      /\ MirrorOf(t) \notin unseen
                      /\ mirrors' = [mirrors EXCEPT ![MirrorOf(t)] = new]
    <3>1. t.o \in Objects /\ t.src \in Sources /\ t.c.uid # 0
      BY DEF TypeInv, TypeOK, Held, Reconciles
    <3>2. MirrorOf(t) \in Mirrors
      BY <3>1 DEF MirrorOf, Mirrors
    <3>3. mirrors[MirrorOf(t)].ctl # 0
      BY <2>4, <3>1, <3>2 DEF Seen, ensureControlled
    <3>4. \A m \in Mirrors : m # MirrorOf(t) => mirrors'[m] = mirrors[m]
      BY <2>4 DEF TypeInv, TypeOK
    <3> QED BY <1>2, <2>2, <3>3, <3>4 DEF ForeignStep, CRDs
  <2>5. CASE CreateOrUpdate(t)
    <3> DEFINE m == MirrorOf(t)
               new == [mcache[m] EXCEPT !.ctl = t.c.uid, !.src = t.src, !.p = t.c.p]
    <3>1. \/ /\ ensureControlled(t) /\ (new = mcache[m] \/ m \notin unseen)
             /\ mirrors' = [mirrors EXCEPT ![m] = IF new = mcache[m] THEN @ ELSE new]
          \/ mirrors' = mirrors
      BY <2>5 DEF CreateOrUpdate
    <3> HIDE DEF m, new
    <3>2. CASE new = mcache[m] /\ mirrors' = [mirrors EXCEPT ![m] = IF new = mcache[m] THEN @ ELSE new]
      <4>1. mirrors' = mirrors
        BY <3>2 DEF TypeInv, TypeOK
      <4> QED BY <2>3, <4>1
    <3>3. CASE /\ new # mcache[m] /\ ensureControlled(t) /\ m \notin unseen
               /\ mirrors' = [mirrors EXCEPT ![m] = IF new = mcache[m] THEN @ ELSE new]
      BY <2>4, <3>3 DEF m
    <3> QED BY <2>3, <3>1, <3>2, <3>3
  <2> QED BY <2>1, <2>3, <2>5 DEF mirrorStatusBack
<1>9. ASSUME Kubernetes PROVE ForeignStep
  <2>1. CASE CRDCleanup
    BY <2>1 DEF CRDCleanup, NoCRD, ForeignStep
  <2>2. ASSUME NEW m \in Mirrors, CollectMirror(m) \/ MirrorReports(m) PROVE ForeignStep
    <3>1. crd' = crd /\ mirrors[m].ctl # 0 /\ mirrors[m] \in MirrorObjects
      BY <2>2 DEF CollectMirror, MirrorReports, TypeInv, TypeOK
    <3>2. \A x \in Mirrors : x # m => mirrors'[x] = mirrors[x]
      BY <2>2 DEF CollectMirror, MirrorReports, TypeInv, TypeOK
    <3> QED BY <1>2, <3>1, <3>2 DEF ForeignStep, CRDs
  <2>3. ASSUME NEW o \in Objects, CollectObject(o) PROVE ForeignStep
    BY <1>3, <2>3 DEF CollectObject
  <2> QED BY <1>9, <2>1, <2>2, <2>3 DEF Kubernetes
<1> QED BY <1>1, <1>3, <1>5, <1>6, <1>7, <1>8, <1>9 DEF Next

\* Users apart, nobody changes a mirror no typed object controls, takes a CRD
\* from its owner while it exists, or changes a CRD without doplane's label,
\* whose storedVersions may lose entries all the same (prepareVersionDrop runs
\* before checkCRDOwnership).
THEOREM ForeignTheorem == Spec => ForeignKept
<1>1. TypeInv /\ Seen /\ DefInv /\ [Next]_vars =>
        [edits' = edits =>
          /\ crd.state = "live" /\ ~crd.managed =>
               crd' = [crd EXCEPT !.stored = crd'.stored] /\ crd'.stored \subseteq crd.stored
          /\ crd.state # "none" /\ crd.owner # NoOwner => crd'.owner \in {crd.owner, NoOwner}
          /\ \A m \in Mirrors : mirrors[m].ctl = 0 => mirrors'[m] = mirrors[m]]_vars
  BY ForeignStepHolds DEF ForeignStep
<1> QED BY <1>1, DefCorrect, PTL DEF Spec, ForeignKept
=============================================================================
