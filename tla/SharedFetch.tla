---------------------------- MODULE SharedFetch ----------------------------
(***************************************************************************)
(* What SchemaCache.Get promises (internal/pulumido/schema.go): the end of *)
(* a fetch is one instant for everybody who asked for the key while it was *)
(* in flight, and each of them returns what that very fetch brought.  There *)
(* are no fetch numbers, channels or mutexes here.                         *)
(***************************************************************************)
CONSTANTS Callers, Keys

VARIABLES
  known,      \* keys with a schema
  fetching,   \* keys whose fetch is in flight
  busy,       \* callers inside Get
  key,        \* what each caller asked for last
  verdict,    \* what the fetch of a busy caller brought, once it is over
  answer      \* what its last call returned

vars == <<known, fetching, busy, key, verdict, answer>>

Init ==
  /\ known = {} /\ fetching = {} /\ busy = {}
  /\ key \in [Callers -> Keys]
  /\ verdict = [c \in Callers |-> "none"]
  /\ answer = [c \in Callers |-> "none"]

\* A known schema is returned at once, for good.
AskKnown(c, k) ==
  /\ c \notin busy /\ k \in known
  /\ key' = [key EXCEPT ![c] = k]
  /\ answer' = [answer EXCEPT ![c] = "schema"]
  /\ UNCHANGED <<known, fetching, busy, verdict>>

\* Any other key is being fetched from now on, by this caller or by another.
AskUnknown(c, k) ==
  /\ c \notin busy /\ k \notin known
  /\ key' = [key EXCEPT ![c] = k]
  /\ busy' = busy \cup {c}
  /\ fetching' = fetching \cup {k}
  /\ UNCHANGED <<known, verdict, answer>>

\* The fetch of a key ends for all who wait for it.
Finish(k, v) ==
  /\ k \in fetching
  /\ fetching' = fetching \ {k}
  /\ known' = IF v = "schema" THEN known \cup {k} ELSE known
  /\ verdict' = [c \in Callers |->
       IF c \in busy /\ key[c] = k /\ verdict[c] = "none" THEN v ELSE verdict[c]]
  /\ UNCHANGED <<busy, key, answer>>

Leave(c, a) ==
  /\ c \in busy
  /\ busy' = busy \ {c}
  /\ answer' = [answer EXCEPT ![c] = a]
  /\ verdict' = [verdict EXCEPT ![c] = "none"]
  /\ UNCHANGED <<known, fetching, key>>

Reply(c) == verdict[c] # "none" /\ Leave(c, verdict[c])
Cancel(c) == Leave(c, "canceled")

Next ==
  \/ \E c \in Callers, k \in Keys : AskKnown(c, k) \/ AskUnknown(c, k)
  \/ \E k \in Keys, v \in {"schema", "error"} : Finish(k, v)
  \/ \E c \in Callers : Reply(c) \/ Cancel(c)

Spec == Init /\ [][Next]_vars
=============================================================================
