------------------------- MODULE PluginCacheProofs -------------------------
(* Proofs about PluginCache for any set of runners and number of faults. *)
EXTENDS PluginCache, FiniteSetTheorems, TLAPS

\* Until a fresh lock has been removed, whoever is in the critical section owns
\* the lock and the lock is not stale; a completed download is on the volume.
Holds(r) == pc[r] \in {"recheck", "install", "unlock", "giveUp"}
Exclusive == \A r \in Runners : Holds(r) => owner = r /\ ~stale
Counted ==
  /\ downloads \in {0, 1}
  /\ installed <=> downloads = 1
  /\ \A r \in Runners : pc[r] = "install" => ~installed
Inv == TypeOK /\ (~stolen => Exclusive /\ Counted)

\* Initially nobody holds the lock and nothing is downloaded.
LEMMA InvInit == Init => Inv
<1> SUFFICES ASSUME Init PROVE Inv
  OBVIOUS
<1>1. TypeOK
  <2>1. stale \in BOOLEAN /\ stolen \in BOOLEAN
    BY Zenon DEF Init
  <2> QED BY <2>1, RunnersAssumption DEF Init, TypeOK, PCs
<1>2. Exclusive /\ Counted
  BY DEF Init, Exclusive, Counted, Holds, installed
<1> QED BY <1>1, <1>2 DEF Inv

\* Every step of a runner, of the faults and of time preserves the types.
LEMMA TypeNext == TypeOK /\ [Next]_vars => TypeOK'
<1> SUFFICES ASSUME TypeOK, [Next]_vars PROVE TypeOK'
  OBVIOUS
<1> USE RunnersAssumption DEF TypeOK, PCs, Goes
<1>1. ASSUME NEW r \in Runners, ensurePlugin(r) PROVE TypeOK'
  <2>1. stale' \in BOOLEAN
    BY <1>1, Zenon DEF ensurePlugin, Begin, Mkdir, StatStale, BreakLock, Recheck,
      Install, Unlock, Retry, Locks, Unlocks
  <2>2. stolen' \in BOOLEAN
    BY <1>1, Zenon DEF ensurePlugin, Begin, Mkdir, StatStale, BreakLock, Recheck,
      Install, Unlock, Retry
  <2>3. pc' \in [Runners -> PCs]
    BY <1>1 DEF ensurePlugin, Begin, Mkdir, StatStale, BreakLock, Recheck, Install,
      Unlock, Retry
  <2>4. owner' \in Runners \cup {NoRunner} /\ plugin' \in {"absent", "partial", "installed"}
    BY <1>1 DEF ensurePlugin, Begin, Mkdir, StatStale, BreakLock, Recheck, Install,
      Unlock, Retry, Locks, Unlocks
  <2>5. faults' \in Nat /\ downloads' \in Nat
    BY <1>1 DEF ensurePlugin, Begin, Mkdir, StatStale, BreakLock, Recheck, Install,
      Unlock, Retry
  <2> QED BY <2>1, <2>2, <2>3, <2>4, <2>5
<1>2. ASSUME NEW r \in Runners, Disturbed(r) PROVE TypeOK'
  BY <1>2 DEF Disturbed, WaitTimeout, InstallFails, Die, Fault
<1>3. CASE LockAges
  BY <1>3 DEF LockAges
<1>4. CASE UNCHANGED vars
  BY <1>4 DEF vars
<1> QED BY <1>1, <1>2, <1>3, <1>4 DEF Next

\* Mkdir gives the lock to one runner at a time; a lock is removed by its owner
\* or when it is stale, and then nobody is in the critical section.
LEMMA ExclusiveNext ==
  ASSUME Inv, [Next]_vars, ~stolen' PROVE Exclusive' /\ Counted'
<1> USE RunnersAssumption
      DEF Inv, TypeOK, PCs, Goes, Exclusive, Counted, Holds, installed
<1>1. ~stolen
  BY DEF Next, vars, ensurePlugin, Begin, Mkdir, StatStale, BreakLock, Recheck,
    Install, Unlock, Retry, Disturbed, WaitTimeout, InstallFails, Die, LockAges
<1>2. ASSUME NEW r \in Runners, Begin(r) \/ StatStale(r) \/ Retry(r)
      PROVE Exclusive' /\ Counted'
  BY <1>1, <1>2 DEF Begin, StatStale, Retry
<1>3. ASSUME NEW r \in Runners, Mkdir(r) PROVE Exclusive' /\ Counted'
  BY <1>1, <1>3 DEF Mkdir, Locks
<1>4. ASSUME NEW r \in Runners, BreakLock(r) PROVE Exclusive' /\ Counted'
  <2>1. \A s \in Runners : ~Holds(s)
    BY <1>1, <1>4 DEF BreakLock
  <2> QED BY <1>1, <1>4, <2>1 DEF BreakLock
<1>5. ASSUME NEW r \in Runners, Recheck(r) PROVE Exclusive' /\ Counted'
  BY <1>1, <1>5 DEF Recheck
<1>6. ASSUME NEW r \in Runners, Install(r) PROVE Exclusive' /\ Counted'
  BY <1>1, <1>6 DEF Install
<1>7. ASSUME NEW r \in Runners, Unlock(r) PROVE Exclusive' /\ Counted'
  <2>1. \A s \in Runners \ {r} : ~Holds(s)
    BY <1>1, <1>7 DEF Unlock
  <2> QED BY <1>1, <1>7, <2>1 DEF Unlock, Unlocks
<1>8. ASSUME NEW r \in Runners, Disturbed(r) PROVE Exclusive' /\ Counted'
  BY <1>1, <1>8 DEF Disturbed, WaitTimeout, InstallFails, Die
<1>9. CASE LockAges
  BY <1>1, <1>9 DEF LockAges, HeldBy
<1>10. CASE UNCHANGED vars
  BY <1>1, <1>10 DEF vars
<1> QED BY <1>2, <1>3, <1>4, <1>5, <1>6, <1>7, <1>8, <1>9, <1>10
        DEF Next, ensurePlugin

\* At most one runner downloads the plugin, and none does once it is installed,
\* for any number of runners, deaths and broken stale locks, as long as no
\* waiter's Remove hits a fresh lock.
THEOREM OneDownloadTheorem == Spec => []OneDownload
<1>1. Inv /\ [Next]_vars => Inv'
  BY TypeNext, ExclusiveNext DEF Inv
<1>2. Inv => OneDownload
  <2> SUFFICES ASSUME Inv, ~stolen PROVE downloads + Cardinality(Downloading) <= 1
    BY DEF OneDownload
  <2>1. CASE Downloading = {}
    BY <2>1, FS_EmptySet DEF Inv, Counted
  <2>2. CASE Downloading # {}
    <3>1. Downloading = {owner}
      BY <2>2 DEF Downloading, Inv, Exclusive, Holds
    <3>2. downloads = 0
      BY <2>2 DEF Downloading, Inv, Counted
    <3> QED BY <3>1, <3>2, FS_Singleton
  <2> QED BY <2>1, <2>2
<1> QED BY InvInit, <1>1, <1>2, PTL DEF Spec
=============================================================================
