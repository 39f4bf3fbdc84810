--------------------------- MODULE PropertiesProofs --------------------------
(***************************************************************************)
(* Theorem about the secret inputs of Properties: an object that counts as *)
(* applied has its Secrets in their present versions.  What a document or  *)
(* a template computes to is left open: the proof is about the orders in   *)
(* which Jobs, rotations, edits, crashes and recorded hashes can come.     *)
(***************************************************************************)
EXTENDS Properties, TLAPS

\* The Secrets that valuesFrom names.
Names(valuesFrom) == {v.name : v \in Range(valuesFrom)}

\* What was read of Secrets.
IsSalt(salt) == \A e \in salt : e.name \in Secrets /\ e.version \in Nat

\* Every version of salt is seen, or a later one of the same Secret.
Covers(seen, salt) == \A e \in salt : e.version <= seen[e.name]
Past(seen) == \A s \in Secrets : seen[s] <= vault[s]

Fields == {"name", "ordered", "state", "seen", "result", "outdated", "valuesFrom"}
IsRecord(j) == DOMAIN j = Fields /\ j = [x \in Fields |-> j[x]]
IsJob(j) ==
  /\ IsRecord(j)
  /\ j.state \in {"new", "running", "done"} /\ j.outdated \in BOOLEAN
  /\ j.seen \in [Secrets -> Nat] /\ IsSalt(j.name.salt)

TypeInv ==
  /\ vault \in [Secrets -> Nat] /\ overtaken \in BOOLEAN
  /\ tpl = NoTemplate \/ (tpl \in Templates /\ params \in Parameters)
  /\ child.kind = "spec" => Names(child.valuesFrom) \subseteq Secrets
  /\ \A j \in jobs : IsJob(j)
  /\ status.hash = Missing \/ IsSalt(status.hash.versions)
  /\ worker.kind = "waits" => worker.hash.versions = worker.name.salt

Pending(j) == j.state # "done"
\* The last operation that reached the provider, while its Job is there.
Latest(j) == Reached(j) /\ ~j.outdated

\* Jobs are told apart by their names; none has seen the future, and each
\* has the versions its name was made of, or later ones.
JobsInv ==
  /\ \A j, k \in jobs : j.name = k.name => j = k
  /\ \A j \in jobs : Past(j.seen) /\ Covers(j.seen, j.name.salt)
  /\ \A j \in jobs : Latest(j) => live = j.result

\* Operations come one after the other.
OneAtATime ==
  /\ \A j, k \in jobs : Pending(j) /\ Pending(k) => j = k
  /\ \A j \in jobs : Pending(j) => ~j.outdated

\* What is about to run, or ran last, has no older version of a Secret than
\* what is recorded, or what a finished Job could still record.
NoneOlder ==
  \A j \in jobs : Pending(j) \/ Latest(j) =>
    /\ \A k \in jobs : Reached(k) => Covers(j.seen, k.name.salt)
    /\ status.hash # Missing => Covers(j.seen, status.hash.versions)

\* The result that is waited for is the last one, or the last one is there.
LatestKept ==
  \A k \in jobs : worker.kind = "waits" /\ k.name = worker.name /\ k.outdated =>
    \E j \in jobs : Latest(j)

\* What is recorded is what the resource has, or a later Job is there.
RecordedIsLive ==
  status.hash # Missing =>
    \/ \E j \in jobs : Latest(j)
    \/ \E seen \in [Secrets -> Nat] :
         /\ Past(seen) /\ Covers(seen, status.hash.versions)
         /\ Holds(live, status.valuesFrom, seen)

SerialInv == OneAtATime /\ NoneOlder /\ LatestKept /\ RecordedIsLive

SecretsInv == TypeInv /\ JobsInv /\ (~overtaken => SerialInv)

-----------------------------------------------------------------------------
\* mixSecretVersions reads versions of the present.
LEMMA MixTypes ==
  ASSUME vault \in [Secrets -> Nat], NEW valuesFrom, Names(valuesFrom) \subseteq Secrets, NEW unread
  PROVE  /\ IsSalt(mixSecretVersions(valuesFrom, unread))
         /\ Covers(vault, mixSecretVersions(valuesFrom, unread))
<1> DEFINE Entry(i) == [place |-> Cardinality({k \in {x \in DOMAIN valuesFrom :
                            vault[valuesFrom[x].name] # NoVersion /\ valuesFrom[x].name \notin unread} : k <= i}),
                        name |-> valuesFrom[i].name, version |-> vault[valuesFrom[i].name]]
<1>1. \A e \in mixSecretVersions(valuesFrom, unread) : \E i \in DOMAIN valuesFrom : e = Entry(i)
  BY Zenon DEF mixSecretVersions
<1>2. \A i \in DOMAIN valuesFrom : valuesFrom[i].name \in Secrets
  BY DEF Names, Range
<1>3. \A i \in DOMAIN valuesFrom :
        /\ Entry(i).name \in Secrets /\ Entry(i).version \in Nat
        /\ Entry(i).version = vault[Entry(i).name]
  BY <1>2
<1> HIDE DEF Entry
<1>4. ASSUME NEW e \in mixSecretVersions(valuesFrom, unread)
      PROVE  e.name \in Secrets /\ e.version \in Nat /\ e.version <= vault[e.name]
  BY <1>1, <1>3, <1>4
<1> QED
  BY <1>4 DEF IsSalt, Covers

\* It leaves out no Secret that can be read.
LEMMA MixComplete ==
  ASSUME vault \in [Secrets -> Nat], NEW valuesFrom, NEW v \in Alone(valuesFrom),
         vault[v.name] # NoVersion
  PROVE  \E e \in mixSecretVersions(valuesFrom, {}) : e.name = v.name /\ e.version = vault[v.name]
<1>1. PICK i \in DOMAIN valuesFrom : v = valuesFrom[i]
  BY DEF Alone
<1>2. i \in {x \in DOMAIN valuesFrom : vault[valuesFrom[x].name] # NoVersion
                                       /\ valuesFrom[x].name \notin {}}
  BY <1>1
<1>3. \E n : [place |-> n, name |-> v.name, version |-> vault[v.name]]
               \in mixSecretVersions(valuesFrom, {})
  BY <1>1, <1>2 DEF mixSecretVersions
<1> QED
  BY <1>3

\* A Secret only gets newer versions.
LEMMA PastGrows ==
  ASSUME vault \in [Secrets -> Nat], vault' \in [Secrets -> Nat],
         \A s \in Secrets : vault[s] <= vault'[s],
         NEW seen \in [Secrets -> Nat], Past(seen)
  PROVE  Past(seen)'
BY DEF Past

\* Initially nothing was read and nothing runs.
LEMMA SecretsInit == Init => SecretsInv
<1> SUFFICES ASSUME Init PROVE SecretsInv
  OBVIOUS
<1>1. jobs = {} /\ overtaken = FALSE /\ status.hash = Missing /\ worker = Idle
  BY DEF Init
<1>2. vault \in [Secrets -> Nat]
  BY DEF Init, NoVersion
<1>3. child.kind = "spec" => Names(child.valuesFrom) \subseteq Secrets
  BY SecretsAssumption DEF Init, Names, Missing
<1>4. tpl = NoTemplate \/ (tpl \in Templates /\ params \in Parameters)
  BY DEF Init
<1>5. worker.kind # "waits"
  BY <1>1 DEF Idle
<1> QED
  BY <1>1, <1>2, <1>3, <1>4, <1>5
     DEF SecretsInv, TypeInv, JobsInv, SerialInv, OneAtATime, NoneOlder, LatestKept, RecordedIsLive

-----------------------------------------------------------------------------
(* Users, the composite controller and crashes *)

\* A step that writes only the object keeps what is known of its Jobs.
LEMMA WriteObject ==
  ASSUME SecretsInv, child'.kind = "spec" => Names(child'.valuesFrom) \subseteq Secrets,
         UNCHANGED <<vault, tpl, params, cluster, status, worker>>
  PROVE  SecretsInv'
BY DEF SecretsInv, TypeInv, JobsInv, SerialInv, OneAtATime, NoneOlder, LatestKept, RecordedIsLive,
       IsJob, IsSalt, Pending, Latest, Reached, Past, Covers, Holds, SecretValue, cluster

\* A reconcile that is interrupted waits for nothing any more.
LEMMA InterruptedStep == SecretsInv /\ Interrupted => SecretsInv'
<1> SUFFICES ASSUME SecretsInv, Interrupted PROVE SecretsInv'
  OBVIOUS
<1>1. worker'.kind # "waits" /\ UNCHANGED <<vault, tpl, params, child, jobs, live, overtaken, status>>
  BY DEF Interrupted, Idle, composite, cluster, object
<1>2. TypeInv' /\ JobsInv'
  BY <1>1 DEF SecretsInv, TypeInv, JobsInv, IsJob, IsSalt, Latest, Reached, Past, Covers
<1>3. SerialInv => SerialInv'
  BY <1>1 DEF SerialInv, OneAtATime, NoneOlder, LatestKept, RecordedIsLive, Pending,
              Latest, Reached, Past, Covers, Holds, SecretValue
<1> QED
  BY <1>1, <1>2, <1>3 DEF SecretsInv

\* A rotation makes what was seen older, and nothing newer.
LEMMA RotateStep == SecretsInv /\ Rotate => SecretsInv'
<1> SUFFICES ASSUME SecretsInv, Rotate PROVE SecretsInv'
  OBVIOUS
<1>1. UNCHANGED <<tpl, params, child, jobs, live, overtaken, status, worker>>
  BY DEF Rotate, composite, cluster, object
<1>2. vault' \in [Secrets -> Nat] /\ \A s \in Secrets : vault[s] <= vault'[s]
  BY DEF Rotate, SecretsInv, TypeInv
<1>3. vault \in [Secrets -> Nat]
  BY DEF SecretsInv, TypeInv
<1>4. \A seen \in [Secrets -> Nat] : Past(seen) => Past(seen)'
  BY <1>2, <1>3, PastGrows
<1>5. TypeInv'
  BY <1>1, <1>2 DEF SecretsInv, TypeInv, IsJob, IsSalt
<1>6. JobsInv'
  BY <1>1, <1>4 DEF SecretsInv, TypeInv, JobsInv, IsJob, Latest, Reached, Covers, Past
<1>7. SerialInv => SerialInv'
  <2>1. OneAtATime /\ NoneOlder /\ LatestKept => OneAtATime' /\ NoneOlder' /\ LatestKept'
    BY <1>1 DEF OneAtATime, NoneOlder, LatestKept, Pending, Latest, Reached, Covers
  <2>2. RecordedIsLive => RecordedIsLive'
    BY <1>1, <1>4 DEF RecordedIsLive, Latest, Reached, Covers, Holds, SecretValue, Past
  <2> QED
    BY <2>1, <2>2 DEF SerialInv
<1> QED
  BY <1>1, <1>5, <1>6, <1>7 DEF SecretsInv

-----------------------------------------------------------------------------
(* The controller starts or adopts a Job *)

\* What is known after a Job was adopted, and after one was created.
LEMMA ExecuteCases ==
  ASSUME NEW props, NEW versions, executeOp(props, versions)
  PROVE  \E name, ordered :
           /\ worker' = [kind |-> "waits", name |-> name, hash |-> HashOf(props, versions)]
           /\ name.salt = versions
           /\ AdoptJob(name) \/ CreateJob(name, ordered)
           /\ live' = live
<1> DEFINE verb == IF status.hash = Missing THEN "create" ELSE "patch"
           plan == secretInputsPlan(child.valuesFrom)
           name == jobName(verb, props, plan, versions)
<1>1. /\ worker' = [kind |-> "waits", name |-> name, hash |-> HashOf(props, versions)]
      /\ AdoptJob(name) \/ CreateJob(name, plan.ordered)
      /\ live' = live
  BY Zenon DEF executeOp
<1>2. name.salt = versions
  BY DEF jobName
<1> QED
  BY <1>1, <1>2, Zenon

\* Adopting the Job of the operation: the last one to run, or it is a history.
LEMMA AdoptStep ==
  ASSUME SecretsInv, NEW props, NEW versions, NEW name, name.salt = versions,
         worker' = [kind |-> "waits", name |-> name, hash |-> HashOf(props, versions)],
         AdoptJob(name),
         UNCHANGED <<vault, tpl, params, child, status, live>>
  PROVE  SecretsInv'
<1>1. PICK j \in jobs : j.name = name /\ overtaken' = (overtaken \/ j.outdated) /\ jobs' = jobs
  BY DEF AdoptJob
<1>2. TypeInv'
  BY <1>1 DEF SecretsInv, TypeInv, IsJob, IsSalt, HashOf
<1>3. JobsInv'
  BY <1>1 DEF SecretsInv, JobsInv, Latest, Reached, Past, Covers
<1>4. ASSUME ~overtaken' PROVE SerialInv'
  <2>1. ~overtaken /\ ~j.outdated
    BY <1>1, <1>4 DEF SecretsInv, TypeInv, IsJob
  <2>2. SerialInv
    BY <2>1 DEF SecretsInv
  <2>3. OneAtATime' /\ NoneOlder'
    BY <1>1, <2>2 DEF SerialInv, OneAtATime, NoneOlder, Pending, Latest, Reached, Covers
  <2>4. LatestKept'
    <3>1. \A k \in jobs : k.name = name => k = j
      BY <1>1 DEF SecretsInv, JobsInv
    <3> QED
      BY <1>1, <2>1, <3>1 DEF LatestKept
  <2>5. RecordedIsLive'
    BY <1>1, <2>2 DEF SerialInv, RecordedIsLive, Latest, Reached, Past, Covers, Holds, SecretValue
  <2> QED
    BY <2>3, <2>4, <2>5 DEF SerialInv
<1> QED
  BY <1>2, <1>3, <1>4 DEF SecretsInv

\* A new Job has read the Secrets as they are, later than everything else.
LEMMA CreateStep ==
  ASSUME SecretsInv, NEW props, NEW versions, NEW name, NEW ordered, name.salt = versions,
         IsSalt(versions), Covers(vault, versions),
         worker' = [kind |-> "waits", name |-> name, hash |-> HashOf(props, versions)],
         CreateJob(name, ordered),
         UNCHANGED <<vault, tpl, params, child, status, live>>
  PROVE  SecretsInv'
<1> DEFINE new == [name |-> name, ordered |-> ordered, state |-> "new", seen |-> vault,
                   result |-> Missing, outdated |-> FALSE, valuesFrom |-> child.valuesFrom]
<1>1. /\ \A j \in jobs : j.name # name
      /\ jobs' = jobs \cup {new}
      /\ overtaken' = (overtaken \/ \E j \in jobs : j.state # "done")
  BY DEF CreateJob
<1>2. /\ IsRecord(new)
      /\ new.name = name /\ new.state = "new" /\ new.seen = vault /\ new.outdated = FALSE
  BY DEF IsRecord, Fields
<1> HIDE DEF new
<1>3. IsJob(new)
  BY <1>2 DEF IsJob, SecretsInv, TypeInv
<1>4. TypeInv'
  <2>1. overtaken' \in BOOLEAN
    BY <1>1 DEF SecretsInv, TypeInv
  <2>2. \A j \in jobs' : IsJob(j)'
    BY <1>1, <1>3 DEF SecretsInv, TypeInv, IsJob, IsSalt
  <2>3. worker'.hash.versions = worker'.name.salt
    BY DEF HashOf
  <2> QED
    BY <2>1, <2>2, <2>3 DEF SecretsInv, TypeInv, IsSalt
<1>5. ~Latest(new) /\ Pending(new) /\ ~Reached(new)
  BY <1>2 DEF Latest, Reached, Pending
<1>6. JobsInv'
  <2>1. \A j, k \in jobs' : j.name = k.name => j = k
    BY <1>1, <1>2 DEF SecretsInv, JobsInv
  <2>2. Past(new.seen) /\ Covers(new.seen, new.name.salt)
    BY <1>2 DEF SecretsInv, TypeInv, Past
  <2>3. \A j \in jobs' : Past(j.seen)' /\ Covers(j.seen, j.name.salt)
    BY <1>1, <2>2 DEF SecretsInv, JobsInv, Past, Covers
  <2>4. \A j \in jobs' : Latest(j) => live' = j.result
    BY <1>1, <1>5 DEF SecretsInv, JobsInv
  <2> QED
    BY <2>1, <2>3, <2>4 DEF JobsInv, Covers, Latest, Reached
<1>7. ASSUME ~overtaken' PROVE SerialInv'
  <2>1. ~overtaken /\ \A j \in jobs : j.state = "done"
    BY <1>1, <1>7
  <2>2. SerialInv
    BY <2>1 DEF SecretsInv
  <2>3. OneAtATime'
    BY <1>1, <1>2, <2>1 DEF OneAtATime, Pending
  <2>4. NoneOlder'
    <3>1. \A k \in jobs : Covers(vault, k.name.salt)
      BY DEF SecretsInv, TypeInv, JobsInv, IsJob, IsSalt, Past, Covers
    <3>2. status.hash # Missing => Covers(vault, status.hash.versions)
      <4>1. ASSUME NEW j \in jobs, Latest(j), status.hash # Missing
            PROVE  Covers(vault, status.hash.versions)
        <5>1. Covers(j.seen, status.hash.versions) /\ Past(j.seen) /\ IsSalt(status.hash.versions)
          BY <4>1, <2>2 DEF SerialInv, NoneOlder, SecretsInv, JobsInv, TypeInv
        <5>2. j.seen \in [Secrets -> Nat] /\ vault \in [Secrets -> Nat]
          BY <4>1 DEF SecretsInv, TypeInv, IsJob
        <5> QED
          BY <5>1, <5>2 DEF Past, Covers, IsSalt
      <4>2. ASSUME NEW seen \in [Secrets -> Nat], Past(seen), Covers(seen, status.hash.versions),
                   status.hash # Missing
            PROVE  Covers(vault, status.hash.versions)
        BY <4>2 DEF SecretsInv, TypeInv, Past, Covers, IsSalt
      <4> QED
        BY <4>1, <4>2, <2>2 DEF SerialInv, RecordedIsLive
    <3>3. \A j \in jobs : Pending(j) \/ Latest(j) =>
            /\ \A k \in jobs : Reached(k) => Covers(j.seen, k.name.salt)
            /\ status.hash # Missing => Covers(j.seen, status.hash.versions)
      BY <2>2 DEF SerialInv, NoneOlder
    <3>4. \A j \in jobs' : Pending(j) \/ Latest(j) =>
            /\ \A k \in jobs' : Reached(k) => Covers(j.seen, k.name.salt)
            /\ status.hash # Missing => Covers(j.seen, status.hash.versions)
      BY <1>1, <1>2, <1>5, <3>1, <3>2, <3>3
    <3> QED
      BY <3>4 DEF NoneOlder, Pending, Latest, Reached, Covers
  <2>5. LatestKept'
    BY <1>1, <1>2 DEF LatestKept
  <2>6. RecordedIsLive'
    BY <1>1, <2>2 DEF SerialInv, RecordedIsLive, Latest, Reached, Past, Covers, Holds, SecretValue
  <2> QED
    BY <2>3, <2>4, <2>5, <2>6 DEF SerialInv
<1> QED
  BY <1>4, <1>6, <1>7 DEF SecretsInv

\* A reconcile reads the Secrets and runs an operation, or has nothing to do.
LEMMA ReconcileStep == SecretsInv /\ Reconcile => SecretsInv'
<1> SUFFICES ASSUME SecretsInv, Reconcile PROVE SecretsInv'
  OBVIOUS
<1>1. UNCHANGED <<vault, tpl, params, child, status>> /\ child.kind = "spec"
  BY DEF Reconcile, composite, object
<1>2. \/ UNCHANGED <<cluster, worker>>
      \/ \E staged, unread : executeOp(staged, mixSecretVersions(child.valuesFrom, unread))
  BY DEF Reconcile
<1>3. CASE UNCHANGED <<cluster, worker>>
  BY <1>1, <1>3, WriteObject DEF SecretsInv, TypeInv
<1>4. ASSUME NEW staged, NEW unread,
             executeOp(staged, mixSecretVersions(child.valuesFrom, unread))
      PROVE  SecretsInv'
  <2> DEFINE versions == mixSecretVersions(child.valuesFrom, unread)
  <2>1. IsSalt(versions) /\ Covers(vault, versions)
    BY <1>1, MixTypes DEF SecretsInv, TypeInv
  <2> HIDE DEF versions
  <2>2. PICK name, ordered :
           /\ worker' = [kind |-> "waits", name |-> name, hash |-> HashOf(staged, versions)]
           /\ name.salt = versions
           /\ AdoptJob(name) \/ CreateJob(name, ordered)
           /\ live' = live
    BY <1>4, ExecuteCases DEF versions
  <2> QED
    BY <1>1, <2>1, <2>2, AdoptStep, CreateStep
<1> QED
  BY <1>2, <1>3, <1>4

-----------------------------------------------------------------------------
(* Jobs run and are recorded *)

\* A pod that starts sees the Secrets of its time.
LEMMA StartPodStep == SecretsInv /\ StartPod => SecretsInv'
<1> SUFFICES ASSUME SecretsInv, StartPod PROVE SecretsInv'
  OBVIOUS
<1>1. UNCHANGED <<vault, tpl, params, child, live, overtaken, status, worker>>
  BY DEF StartPod, composite, object
<1>2. PICK j \in jobs :
        /\ j.state = "new"
        /\ jobs' = (jobs \ {j}) \cup {[j EXCEPT !.state = "running", !.seen = vault]}
  BY DEF StartPod
<1> DEFINE run == [j EXCEPT !.state = "running", !.seen = vault]
<1>3. /\ IsRecord(run)
      /\ run.name = j.name /\ run.outdated = j.outdated
      /\ run.state = "running" /\ run.seen = vault
  <2> IsRecord(j)
    BY DEF SecretsInv, TypeInv, IsJob
  <2> QED
    BY DEF IsRecord, Fields
<1> HIDE DEF run
<1>4. jobs' = (jobs \ {j}) \cup {run}
  BY <1>2 DEF run
<1>5. IsJob(run) /\ Pending(run) /\ Pending(j) /\ ~Reached(j) /\ ~Reached(run) /\ ~Latest(run)
  BY <1>2, <1>3 DEF SecretsInv, TypeInv, IsJob, Pending, Reached, Latest
<1>6. TypeInv'
  BY <1>1, <1>4, <1>5 DEF SecretsInv, TypeInv, IsJob, IsSalt
<1>7. Past(run.seen) /\ \A salt : IsSalt(salt) /\ Covers(j.seen, salt) => Covers(run.seen, salt)
  <2>1. Past(j.seen) /\ j.seen \in [Secrets -> Nat] /\ vault \in [Secrets -> Nat]
    BY DEF SecretsInv, TypeInv, JobsInv, IsJob
  <2> QED
    BY <1>3, <2>1 DEF Past, Covers, IsSalt
<1>8. JobsInv'
  <2>1. \A k, l \in jobs' : k.name = l.name => k = l
    BY <1>3, <1>4 DEF SecretsInv, JobsInv
  <2>2. Covers(run.seen, run.name.salt)
    BY <1>3, <1>7 DEF SecretsInv, TypeInv, JobsInv, IsJob
  <2>3. \A k \in jobs' : Past(k.seen)' /\ Covers(k.seen, k.name.salt)
    BY <1>1, <1>4, <1>7, <2>2 DEF SecretsInv, JobsInv, Past
  <2>4. \A k \in jobs' : Latest(k) => live' = k.result
    BY <1>1, <1>4, <1>5 DEF SecretsInv, JobsInv
  <2> QED
    BY <2>1, <2>3, <2>4 DEF JobsInv, Covers, Latest, Reached
<1>9. ASSUME SerialInv PROVE SerialInv'
  <2>1. OneAtATime'
    BY <1>3, <1>4, <1>5, <1>9 DEF SerialInv, OneAtATime, Pending
  <2>2. NoneOlder'
    <3>1. \A k \in jobs : Reached(k) => Covers(run.seen, k.name.salt)
      BY <1>5, <1>7, <1>9 DEF SerialInv, NoneOlder, SecretsInv, TypeInv, IsJob
    <3>2. status.hash # Missing => Covers(run.seen, status.hash.versions)
      BY <1>5, <1>7, <1>9 DEF SerialInv, NoneOlder, SecretsInv, TypeInv
    <3>3. \A k \in jobs' : Pending(k) \/ Latest(k) =>
            /\ \A l \in jobs' : Reached(l) => Covers(k.seen, l.name.salt)
            /\ status.hash # Missing => Covers(k.seen, status.hash.versions)
      BY <1>4, <1>5, <1>9, <3>1, <3>2 DEF SerialInv, NoneOlder
    <3> QED
      BY <1>1, <3>3 DEF NoneOlder, Pending, Latest, Reached, Covers
  <2>3. \A k \in jobs : Latest(k) => k \in jobs'
    BY <1>4, <1>5 DEF Latest
  <2>4. LatestKept'
    <3>1. \A k \in jobs' : \E l \in jobs : l.name = k.name /\ l.outdated = k.outdated
      BY <1>3, <1>4
    <3> QED
      BY <1>1, <1>9, <2>3, <3>1 DEF SerialInv, LatestKept, Latest, Reached
  <2>5. RecordedIsLive'
    BY <1>1, <1>9, <2>3
       DEF SerialInv, RecordedIsLive, Latest, Reached, Past, Covers, Holds, SecretValue
  <2> QED
    BY <2>1, <2>2, <2>4, <2>5 DEF SerialInv
<1> QED
  BY <1>1, <1>6, <1>8, <1>9 DEF SecretsInv

\* An operation that reaches the provider becomes the last one.
LEMMA RunOperationStep == SecretsInv /\ RunOperation => SecretsInv'
<1> SUFFICES ASSUME SecretsInv, RunOperation PROVE SecretsInv'
  OBVIOUS
<1>1. UNCHANGED <<vault, tpl, params, child, overtaken, status, worker>>
  BY DEF RunOperation, composite, object
<1>a. PICK j \in jobs :
        /\ j.state = "running"
        /\ \E result \in {applySecretInputs(j)} :
             /\ live' = IF result = Failed THEN live ELSE result
             /\ jobs' = {[k EXCEPT !.outdated = @ \/ result # Failed] : k \in jobs \ {j}}
                          \cup {[j EXCEPT !.state = "done", !.result = result]}
  BY DEF RunOperation
<1>2. PICK result :
        /\ j.state = "running"
        /\ live' = IF result = Failed THEN live ELSE result
        /\ jobs' = {[k EXCEPT !.outdated = @ \/ result # Failed] : k \in jobs \ {j}}
                     \cup {[j EXCEPT !.state = "done", !.result = result]}
  BY <1>a
<1> DEFINE run == [j EXCEPT !.state = "done", !.result = result]
           Other(k) == [k EXCEPT !.outdated = @ \/ result # Failed]
<1>3. /\ IsRecord(run) /\ run.state = "done" /\ run.result = result
      /\ run.name = j.name /\ run.outdated = j.outdated /\ run.seen = j.seen
  <2> IsRecord(j)
    BY DEF SecretsInv, TypeInv, IsJob
  <2> QED
    BY DEF IsRecord, Fields
<1>4. ASSUME NEW k \in jobs
      PROVE  /\ IsRecord(Other(k)) /\ Other(k).state = k.state /\ Other(k).result = k.result
             /\ Other(k).name = k.name /\ Other(k).seen = k.seen
             /\ Other(k).outdated = (k.outdated \/ result # Failed)
             /\ result = Failed => Other(k) = k
  <2>1. IsRecord(k) /\ k.outdated \in BOOLEAN
    BY DEF SecretsInv, TypeInv, IsJob
  <2>2. result = Failed => Other(k) = k
    BY <2>1 DEF IsRecord, Fields
  <2> QED
    BY <2>1, <2>2 DEF IsRecord, Fields
<1>5. /\ \A l \in jobs' : l = run \/ \E k \in jobs \ {j} : l = Other(k)
      /\ run \in jobs' /\ \A k \in jobs \ {j} : Other(k) \in jobs'
  BY <1>2
<1> HIDE DEF run, Other
<1>6. TypeInv'
  <2>1. \A k \in jobs' : IsJob(k)'
    <3>1. IsJob(run)
      BY <1>3 DEF IsJob, SecretsInv, TypeInv
    <3>2. ASSUME NEW k \in jobs PROVE IsJob(Other(k))
      BY <1>4 DEF IsJob, SecretsInv, TypeInv
    <3> QED
      BY <1>5, <3>1, <3>2 DEF IsJob, IsSalt
  <2> QED
    BY <1>1, <2>1 DEF SecretsInv, TypeInv, IsSalt
<1>7. Pending(j) /\ ~Reached(j) /\ ~Pending(run) /\ (Reached(run) <=> result # Failed)
  BY <1>2, <1>3 DEF Pending, Reached
<1>8. \A k \in jobs : /\ (Pending(Other(k)) <=> Pending(k)) /\ (Reached(Other(k)) <=> Reached(k))
                      /\ (Latest(Other(k)) <=> Latest(k) /\ result = Failed)
  BY <1>4 DEF Pending, Reached, Latest, SecretsInv, TypeInv, IsJob
<1>9. JobsInv'
  <2>1. \A k, l \in jobs' : k.name = l.name => k = l
    BY <1>3, <1>4, <1>5 DEF SecretsInv, JobsInv
  <2>2. \A k \in jobs' : Past(k.seen)' /\ Covers(k.seen, k.name.salt)
    BY <1>1, <1>3, <1>4, <1>5 DEF SecretsInv, JobsInv, Past
  <2>3. \A k \in jobs' : Latest(k) => live' = k.result
    <3>1. Latest(run) => live' = run.result
      BY <1>2, <1>3, <1>7 DEF Latest
    <3>2. \A k \in jobs : Latest(Other(k)) => live' = Other(k).result
      BY <1>2, <1>4, <1>8 DEF SecretsInv, JobsInv
    <3> QED
      BY <1>5, <3>1, <3>2
  <2> QED
    BY <2>1, <2>2, <2>3 DEF JobsInv, Covers, Latest, Reached
<1>10. ASSUME ~overtaken, SerialInv PROVE SerialInv'
  <2>1. ~j.outdated
    BY <1>7, <1>10 DEF SerialInv, OneAtATime
  <2>2. \A k \in jobs' : ~Pending(k)
    BY <1>5, <1>7, <1>8, <1>10 DEF SerialInv, OneAtATime
  <2>3. OneAtATime'
    BY <2>2 DEF OneAtATime, Pending
  <2>4. Latest(run) <=> result # Failed
    BY <1>3, <1>7, <2>1 DEF Latest
  <2>5. NoneOlder'
    <3>1. \A k \in jobs : Reached(k) => Covers(run.seen, k.name.salt)
      BY <1>3, <1>7, <1>10 DEF SerialInv, NoneOlder
    <3>2. Covers(run.seen, run.name.salt)
      BY <1>3 DEF SecretsInv, JobsInv
    <3>3. status.hash # Missing => Covers(run.seen, status.hash.versions)
      BY <1>3, <1>7, <1>10 DEF SerialInv, NoneOlder
    <3>4. \A l \in jobs' : Reached(l) => Covers(run.seen, l.name.salt)
      BY <1>4, <1>5, <1>8, <3>1, <3>2
    <3>5. ASSUME NEW k \in jobs \ {j}, Latest(Other(k))
          PROVE  /\ \A l \in jobs' : Reached(l) => Covers(Other(k).seen, l.name.salt)
                 /\ status.hash # Missing => Covers(Other(k).seen, status.hash.versions)
      <4>1. Latest(k) /\ result = Failed
        BY <1>8, <3>5
      <4>2. \A l \in jobs' : Reached(l) => l \in jobs /\ Reached(l)
        BY <1>4, <1>5, <1>7, <1>8, <4>1
      <4> QED
        BY <1>4, <1>10, <4>1, <4>2 DEF SerialInv, NoneOlder
    <3>6. \A k \in jobs' : Latest(k) =>
            /\ \A l \in jobs' : Reached(l) => Covers(k.seen, l.name.salt)
            /\ status.hash # Missing => Covers(k.seen, status.hash.versions)
      BY <1>5, <3>3, <3>4, <3>5
    <3> QED
      BY <1>1, <2>2, <3>6 DEF NoneOlder, Pending, Latest, Reached, Covers
  <2>6. CASE result = Failed
    <3>1. live' = live /\ \A k \in jobs : Latest(k) => k \in jobs'
      BY <1>2, <1>4, <1>5, <1>7, <2>6 DEF Latest
    <3>2. \A k \in jobs' : \E l \in jobs : l.name = k.name /\ l.outdated = k.outdated
      BY <1>3, <1>4, <1>5, <2>6
    <3>3. LatestKept'
      BY <1>1, <1>10, <3>1, <3>2 DEF SerialInv, LatestKept, Latest, Reached
    <3>4. RecordedIsLive'
      BY <1>1, <1>10, <3>1
         DEF SerialInv, RecordedIsLive, Latest, Reached, Past, Covers, Holds, SecretValue
    <3> QED
      BY <2>3, <2>5, <3>3, <3>4 DEF SerialInv
  <2>7. CASE result # Failed
    <3>1. run \in jobs' /\ Latest(run)
      BY <1>5, <2>4, <2>7
    <3> QED
      BY <2>3, <2>5, <3>1 DEF SerialInv, LatestKept, RecordedIsLive, Latest, Reached
  <2> QED
    BY <2>6, <2>7
<1> QED
  BY <1>1, <1>6, <1>9, <1>10 DEF SecretsInv

\* Recording the result of an operation: it was the last one, or the last one
\* is still there.
LEMMA FinishOpStep == SecretsInv /\ SecretsPlaced /\ FinishOp => SecretsInv'
<1> SUFFICES ASSUME SecretsInv, SecretsPlaced, FinishOp PROVE SecretsInv'
  OBVIOUS
<1>1. UNCHANGED <<vault, tpl, params, child, live, overtaken>> /\ worker.kind = "waits"
  BY DEF FinishOp, composite
<1>2. PICK j \in jobs :
        /\ j.name = worker.name /\ j.state = "done"
        /\ status' = IF j.result = Failed THEN status
                     ELSE [outputs |-> j.result, hash |-> worker.hash, valuesFrom |-> j.valuesFrom]
        /\ jobs' = jobs \ {j}
  BY DEF FinishOp
<1>3. worker'.kind # "waits"
  BY DEF FinishOp, Idle
<1>4. worker.hash.versions = j.name.salt
  BY <1>1, <1>2 DEF SecretsInv, TypeInv
<1>5. TypeInv'
  <2>1. status'.hash = Missing \/ IsSalt(status'.hash.versions)
    BY <1>2, <1>4 DEF SecretsInv, TypeInv, IsJob
  <2> QED
    BY <1>1, <1>2, <1>3, <2>1 DEF SecretsInv, TypeInv, IsJob, IsSalt
<1>6. JobsInv'
  BY <1>1, <1>2 DEF SecretsInv, JobsInv, Latest, Reached, Past, Covers
<1>7. ASSUME SerialInv PROVE SerialInv'
  <2>1. OneAtATime'
    BY <1>2, <1>7 DEF SerialInv, OneAtATime, Pending
  <2>2. LatestKept'
    BY <1>3 DEF LatestKept
  <2>3. CASE j.result = Failed
    <3>1. status' = status /\ \A k \in jobs : Latest(k) => k \in jobs'
      BY <1>2, <2>3 DEF Latest, Reached
    <3>2. NoneOlder'
      BY <1>2, <1>7, <3>1 DEF SerialInv, NoneOlder, Pending, Latest, Reached, Covers
    <3>3. RecordedIsLive'
      BY <1>1, <1>7, <3>1
         DEF SerialInv, RecordedIsLive, Latest, Reached, Past, Covers, Holds, SecretValue
    <3> QED
      BY <2>1, <2>2, <3>2, <3>3 DEF SerialInv
  <2>4. CASE j.result # Failed
    <3>1. Reached(j) /\ status'.hash.versions = j.name.salt /\ status'.valuesFrom = j.valuesFrom
      BY <1>2, <1>4, <2>4 DEF Reached
    <3>2. NoneOlder'
      BY <1>2, <1>7, <3>1 DEF SerialInv, NoneOlder, Pending, Latest, Reached, Covers
    <3>3. RecordedIsLive'
      <4>1. CASE j.outdated
        <5>1. PICK k \in jobs : Latest(k)
          BY <1>1, <1>2, <1>7, <4>1 DEF SerialInv, LatestKept
        <5>2. k \in jobs'
          BY <1>2, <4>1, <5>1 DEF Latest
        <5> QED
          BY <5>1, <5>2 DEF RecordedIsLive, Latest, Reached
      <4>2. CASE ~j.outdated
        <5>1. live = j.result /\ j.seen \in [Secrets -> Nat] /\ Past(j.seen)
              /\ Covers(j.seen, j.name.salt)
          BY <3>1, <4>2 DEF SecretsInv, TypeInv, JobsInv, IsJob, Latest
        <5>2. Holds(live, j.valuesFrom, j.seen)
          BY <3>1, <5>1 DEF SecretsPlaced
        <5> QED
          BY <1>1, <3>1, <5>1, <5>2 DEF RecordedIsLive, Past, Covers, Holds, SecretValue
      <4> QED
        BY <4>1, <4>2
    <3> QED
      BY <2>1, <2>2, <3>2, <3>3 DEF SerialInv
  <2> QED
    BY <2>3, <2>4
<1> QED
  BY <1>1, <1>5, <1>6, <1>7 DEF SecretsInv

-----------------------------------------------------------------------------
\* Every step keeps the invariant while operations put secrets in their places.
LEMMA SecretsStep == SecretsInv /\ SecretsPlaced /\ [Next]_vars => SecretsInv'
<1> SUFFICES ASSUME SecretsInv, SecretsPlaced, [Next]_vars PROVE SecretsInv'
  OBVIOUS
<1>1. CASE RenderChild
  <2>1. UNCHANGED <<vault, tpl, params, cluster, status, worker>>
    BY <1>1 DEF RenderChild, composite
  <2>2. tpl \in Templates /\ params \in Parameters /\ child' = ChildOf(Context(params), tpl)
    BY <1>1 DEF RenderChild, SecretsInv, TypeInv, rc
  <2>3. child' = Failed \/ child'.valuesFrom = <<>>
    BY <2>2, SecretsAssumption
  <2>4. child'.kind = "spec" => Names(child'.valuesFrom) \subseteq Secrets
    BY <2>3 DEF Failed, Names, Range
  <2> QED
    BY <2>1, <2>4, WriteObject
<1>2. CASE PublishOutputs \/ SourceMoves \/ UNCHANGED vars
  <2>1. UNCHANGED <<vault, tpl, params, cluster, status, worker, child>>
    BY <1>2 DEF PublishOutputs, SourceMoves, vars, composite, object
  <2> QED
    BY <2>1, WriteObject DEF SecretsInv, TypeInv
<1>3. CASE ReconcileDelete
  <2>1. child'.kind # "spec" /\ UNCHANGED <<vault, tpl, params, cluster, status, worker>>
    BY <1>3 DEF ReconcileDelete, Deleted, composite
  <2> QED
    BY <2>1, WriteObject
<1>4. CASE EditSpec
  <2>1. child' \in Specs /\ UNCHANGED <<vault, tpl, params, cluster, status, worker>>
    BY <1>4 DEF EditSpec, composite
  <2> QED
    BY <2>1, SecretsAssumption, WriteObject DEF Names
<1> QED
  BY <1>1, <1>2, <1>3, <1>4, ReconcileStep, StartPodStep, RunOperationStep, FinishOpStep,
     InterruptedStep, RotateStep DEF Next

\* An object that counts as applied names the versions its resource has.
LEMMA SecretsHold == SecretsInv /\ SecretsPlaced => SecretsCurrent
<1> SUFFICES ASSUME SecretsInv, SecretsPlaced, Settled, ~overtaken, ~Unrecorded,
                    status.valuesFrom = child.valuesFrom,
                    NEW v \in Alone(child.valuesFrom), vault[v.name] # NoVersion
             PROVE  GetPath(live, v.toPath) = SecretValue(v.name, v.key, vault[v.name])
  BY DEF SecretsCurrent, SecretsApplied
<1>1. SerialInv /\ vault \in [Secrets -> Nat]
  BY DEF SecretsInv, TypeInv
<1>2. v.name \in Secrets
  <2>1. v \in Range(child.valuesFrom)
    BY DEF Alone, Range
  <2> QED
    BY <2>1 DEF Settled, SecretsInv, TypeInv, Names
<1>3. PICK e \in status.hash.versions : e.name = v.name /\ e.version = vault[v.name]
  BY <1>1, MixComplete DEF Settled, HashOf
<1>4. status.hash # Missing
  BY DEF Settled, HashOf, Missing
<1>5. ASSUME NEW seen \in [Secrets -> Nat], Past(seen), Covers(seen, status.hash.versions)
      PROVE  seen[v.name] = vault[v.name]
  BY <1>1, <1>2, <1>3, <1>5 DEF Past, Covers
<1>6. CASE \E j \in jobs : Latest(j)
  <2>1. PICK j \in jobs : Latest(j)
    BY <1>6
  <2>2. j.valuesFrom = child.valuesFrom
    BY <2>1 DEF Unrecorded, Latest
  <2>3. live = j.result /\ Past(j.seen) /\ j.seen \in [Secrets -> Nat]
    BY <2>1 DEF SecretsInv, TypeInv, JobsInv, IsJob
  <2>4. Covers(j.seen, status.hash.versions)
    BY <1>1, <1>4, <2>1 DEF SerialInv, NoneOlder
  <2>5. Holds(live, child.valuesFrom, j.seen)
    BY <2>1, <2>2, <2>3 DEF SecretsPlaced, Latest
  <2> QED
    BY <1>5, <2>3, <2>4, <2>5 DEF Holds
<1>7. CASE ~\E j \in jobs : Latest(j)
  <2>1. PICK seen \in [Secrets -> Nat] :
           /\ Past(seen) /\ Covers(seen, status.hash.versions)
           /\ Holds(live, status.valuesFrom, seen)
    BY <1>1, <1>4, <1>7 DEF SerialInv, RecordedIsLive
  <2> QED
    BY <1>5, <2>1 DEF Holds
<1> QED
  BY <1>6, <1>7

\* Whatever is rotated, edited, interrupted, adopted and left behind: if every
\* operation puts the values of the variables at their paths, then an object
\* that counts as applied has the present versions of its Secrets.
THEOREM SecretsTheorem == Spec /\ []SecretsPlaced => []SecretsCurrent
BY SecretsInit, SecretsStep, SecretsHold, PTL DEF Spec
=============================================================================
