---------------------------- MODULE PluginCache ----------------------------
(***************************************************************************)
(* Runner.ensurePlugin (internal/runnerops/plugincache.go): runner pods    *)
(* that need the same pinned provider plugin share a volume and take turns *)
(* under a lock, which is a directory.  Mkdir, Stat and Remove are the     *)
(* only atomic operations on it, and Remove removes whatever lock is there.*)
(* A pod can die anywhere; its lock then outlives staleLockAge.            *)
(***************************************************************************)
EXTENDS Naturals, FiniteSets

CONSTANTS
  Runners,    \* runner pods that need the plugin
  NoRunner,
  MaxFaults   \* bound on deaths, failed installs and timeouts

ASSUME RunnersAssumption == NoRunner \notin Runners /\ MaxFaults \in Nat

VARIABLES
  pc,         \* where each runner is in ensurePlugin
  owner,      \* who made the lock directory, or NoRunner
  stale,      \* the lock is older than staleLockAge
  plugin,     \* the plugin directory on the volume
  faults,
  downloads,  \* history: completed installs
  stolen      \* history: a waiter removed a lock that was not stale

vars == <<pc, owner, stale, plugin, faults, downloads, stolen>>

PCs == {"start", "lock", "break", "recheck", "install", "unlock", "giveUp",
        "done", "failed", "dead"}

TypeOK ==
  /\ pc \in [Runners -> PCs]
  /\ owner \in Runners \cup {NoRunner} /\ stale \in BOOLEAN
  /\ plugin \in {"absent", "partial", "installed"}
  /\ faults \in Nat /\ downloads \in Nat /\ stolen \in BOOLEAN

Init ==
  /\ pc = [r \in Runners |-> "start"]
  /\ owner = NoRunner /\ stale = FALSE
  /\ plugin = "absent"
  /\ faults = 0 /\ downloads = 0 /\ stolen = FALSE

-----------------------------------------------------------------------------
installed == plugin = "installed"

Goes(r, from, to) == pc[r] = from /\ pc' = [pc EXCEPT ![r] = to]
Locks(r) == owner' = r /\ stale' = FALSE
Unlocks == owner' = NoRunner /\ stale' = FALSE
Fault == faults < MaxFaults /\ faults' = faults + 1

Begin(r) ==
  /\ Goes(r, "start", IF installed THEN "done" ELSE "lock")
  /\ UNCHANGED <<owner, stale, plugin, faults, downloads, stolen>>

\* Mutation: an existing lock directory is no error.
MkdirAll(r) ==
  /\ Goes(r, "lock", "recheck")
  /\ Locks(r)
  /\ UNCHANGED <<plugin, faults, downloads, stolen>>

Mkdir(r) ==
  /\ owner = NoRunner
  /\ Goes(r, "lock", "recheck")
  /\ Locks(r)
  /\ UNCHANGED <<plugin, faults, downloads, stolen>>

\* Mutation: a lock is never considered stale.
NeverStale(r) ==
  /\ FALSE
  /\ Goes(r, "lock", "break")
  /\ UNCHANGED <<owner, stale, plugin, faults, downloads, stolen>>

\* Mkdir failed and Stat finds the lock stale.  Finding it fresh, or gone, the
\* runner sleeps and tries again.
StatStale(r) ==
  /\ owner # NoRunner /\ stale
  /\ Goes(r, "lock", "break")
  /\ UNCHANGED <<owner, stale, plugin, faults, downloads, stolen>>

\* Remove, by name: the stale lock may have been replaced since Stat.
BreakLock(r) ==
  /\ Goes(r, "break", "lock")
  /\ stolen' = (stolen \/ (owner # NoRunner /\ ~stale))
  /\ Unlocks
  /\ UNCHANGED <<plugin, faults, downloads>>

\* The context ends while the runner waits.
WaitTimeout(r) ==
  /\ Goes(r, "lock", "failed") /\ Fault
  /\ UNCHANGED <<owner, stale, plugin, downloads, stolen>>

Recheck(r) ==
  /\ \/ installed /\ Goes(r, "recheck", "unlock") /\ UNCHANGED plugin
     \/ ~installed /\ Goes(r, "recheck", "install") /\ plugin' = "partial"
  /\ UNCHANGED <<owner, stale, faults, downloads, stolen>>

\* pulumi plugin install, which marks an unfinished download as partial.
Install(r) ==
  /\ Goes(r, "install", "unlock")
  /\ plugin' = "installed" /\ downloads' = downloads + 1
  /\ UNCHANGED <<owner, stale, faults, stolen>>

InstallFails(r) ==
  /\ Goes(r, "install", "giveUp") /\ Fault
  /\ UNCHANGED <<owner, stale, plugin, downloads, stolen>>

\* The deferred Remove, by name again.
Unlock(r) ==
  /\ Goes(r, "unlock", "done") \/ Goes(r, "giveUp", "failed")
  /\ Unlocks
  /\ UNCHANGED <<plugin, faults, downloads, stolen>>

\* The pod dies or its Job reaches activeDeadlineSeconds.
Die(r) ==
  /\ pc[r] \notin {"start", "done", "failed", "dead"} /\ Fault
  /\ pc' = [pc EXCEPT ![r] = "dead"]
  /\ UNCHANGED <<owner, stale, plugin, downloads, stolen>>

\* The reconciler retries the operation in a new Job.
Retry(r) ==
  /\ Goes(r, "dead", "start") \/ Goes(r, "failed", "start")
  /\ UNCHANGED <<owner, stale, plugin, faults, downloads, stolen>>

\* A lock passes staleLockAge, which no live pod reaches: what made it has
\* died, even if its successor in the model has the same name.
HeldBy(r) == owner = r /\ pc[r] \in {"recheck", "install", "unlock", "giveUp"}
LockAges ==
  /\ owner # NoRunner /\ ~stale /\ ~HeldBy(owner)
  /\ stale' = TRUE
  /\ UNCHANGED <<pc, owner, plugin, faults, downloads, stolen>>

-----------------------------------------------------------------------------
ensurePlugin(r) ==
  \/ Begin(r) \/ Mkdir(r) \/ StatStale(r) \/ BreakLock(r)
  \/ Recheck(r) \/ Install(r) \/ Unlock(r) \/ Retry(r)

Disturbed(r) == WaitTimeout(r) \/ InstallFails(r) \/ Die(r)

Next == (\E r \in Runners : ensurePlugin(r) \/ Disturbed(r)) \/ LockAges

Spec == Init /\ [][Next]_vars

\* Pods run, failed operations are retried, time passes.
FairSpec == Spec /\ WF_vars(LockAges) /\ \A r \in Runners : WF_vars(ensurePlugin(r))

-----------------------------------------------------------------------------
Downloading == {r \in Runners : pc[r] = "install"}

\* The lock does its work as long as no waiter has removed a fresh lock: at
\* most one runner downloads the plugin, and none does once it is there,
\* although pods die with the lock and others break it.
OneDownload == ~stolen => downloads + Cardinality(Downloading) <= 1

\* Every runner gets the plugin in the end: a lock whose owner died blocks
\* nobody for ever.
EveryoneServed == <>[](\A r \in Runners : pc[r] = "done")
=============================================================================
