---------------------------- MODULE SchemaCache ----------------------------
(***************************************************************************)
(* SchemaCache.Get (internal/pulumido/schema.go): reconcilers of several   *)
(* objects ask for provider schemas; concurrent misses on a key share one  *)
(* fetch, which is a whole runner Job in a cluster.  Each critical section *)
(* of the mutex is one step, and so is closing the channel of a fetch,     *)
(* which happens after the mutex is released.                              *)
(***************************************************************************)
EXTENDS Naturals

CONSTANTS
  Callers,   \* goroutines that call Get
  Keys,      \* "package|token" keys
  MaxCalls   \* bound on the number of calls

ASSUME CacheAssumption == Keys # {} /\ MaxCalls \in Nat

VARIABLES
  pc,        \* where the call of each caller is
  key,       \* the key it asks for
  mine,      \* the fetch it performs or waits for
  answer,    \* what its last call returned
  cache,     \* keys with a memoized schema
  pending,   \* the fetch in flight for a key, or 0
  fetches,   \* every fetch so far
  calls      \* calls so far

vars == <<pc, key, mine, answer, cache, pending, fetches, calls>>

NoFetch == 0
Flights == 1..MaxCalls
Fetch == [done : BOOLEAN, result : {"none", "schema", "error", "panic"}]

TypeOK ==
  /\ pc \in [Callers -> {"idle", "fetch", "publish", "close", "wait"}]
  /\ key \in [Callers -> Keys]
  /\ mine \in [Callers -> Flights \cup {NoFetch}]
  /\ answer \in [Callers -> {"none", "schema", "error", "canceled"}]
  /\ cache \subseteq Keys
  /\ pending \in [Keys -> Flights \cup {NoFetch}]
  /\ fetches \in [Flights -> Fetch]
  /\ calls \in 0..MaxCalls

Init ==
  /\ pc = [c \in Callers |-> "idle"]
  /\ key = [c \in Callers |-> CHOOSE k \in Keys : TRUE]
  /\ mine = [c \in Callers |-> NoFetch]
  /\ answer = [c \in Callers |-> "none"]
  /\ cache = {}
  /\ pending = [k \in Keys |-> NoFetch]
  /\ fetches = [f \in Flights |-> [done |-> FALSE, result |-> "none"]]
  /\ calls = 0

-----------------------------------------------------------------------------
Calls(c, k) ==
  /\ pc[c] = "idle" /\ calls < MaxCalls
  /\ calls' = calls + 1
  /\ key' = [key EXCEPT ![c] = k]
  /\ UNCHANGED <<cache, fetches>>

Hit(c, k) ==
  /\ Calls(c, k) /\ k \in cache
  /\ answer' = [answer EXCEPT ![c] = "schema"]
  /\ UNCHANGED <<pc, mine, pending>>

Join(c, k) ==
  /\ Calls(c, k) /\ k \notin cache /\ pending[k] # NoFetch
  /\ pc' = [pc EXCEPT ![c] = "wait"]
  /\ mine' = [mine EXCEPT ![c] = pending[k]]
  /\ UNCHANGED <<answer, pending>>

\* Mutation: fetches in flight are not looked up.
LeadsAnyway(c, k) ==
  /\ Calls(c, k) /\ k \notin cache
  /\ pc' = [pc EXCEPT ![c] = "fetch"]
  /\ mine' = [mine EXCEPT ![c] = calls']
  /\ pending' = [pending EXCEPT ![k] = calls']
  /\ UNCHANGED answer

\* Every call starts at most one fetch, so its number is free.
Lead(c, k) ==
  /\ Calls(c, k) /\ k \notin cache /\ pending[k] = NoFetch
  /\ pc' = [pc EXCEPT ![c] = "fetch"]
  /\ mine' = [mine EXCEPT ![c] = calls']
  /\ pending' = [pending EXCEPT ![k] = calls']
  /\ UNCHANGED answer

\* FetchSchema returns or panics; a canceled context of the caller is an error.
FetchSchema(c, result) ==
  /\ pc[c] = "fetch"
  /\ pc' = [pc EXCEPT ![c] = "publish"]
  /\ fetches' = [fetches EXCEPT ![mine[c]].result = result]
  /\ UNCHANGED <<key, mine, answer, cache, pending, calls>>

\* Mutation: a panic skips the cleanup.
NoRecover(c) ==
  /\ pc[c] = "publish"
  /\ IF fetches[mine[c]].result = "panic"
     THEN /\ pc' = [pc EXCEPT ![c] = "idle"]
          /\ answer' = [answer EXCEPT ![c] = "error"]
          /\ UNCHANGED <<cache, pending>>
     ELSE /\ pc' = [pc EXCEPT ![c] = "close"]
          /\ cache' = IF fetches[mine[c]].result = "schema"
                      THEN cache \cup {key[c]} ELSE cache
          /\ pending' = [pending EXCEPT ![key[c]] = NoFetch]
          /\ UNCHANGED answer
  /\ UNCHANGED <<key, mine, fetches, calls>>

\* Mutation: only a fetch that succeeded stops being pending.
KeepsFailed(c) ==
  /\ pc[c] = "publish"
  /\ pc' = [pc EXCEPT ![c] = "close"]
  /\ IF fetches[mine[c]].result = "schema"
     THEN /\ cache' = cache \cup {key[c]}
          /\ pending' = [pending EXCEPT ![key[c]] = NoFetch]
     ELSE UNCHANGED <<cache, pending>>
  /\ UNCHANGED <<key, mine, answer, fetches, calls>>

\* The deferred cleanup, up to the release of the mutex.
Publish(c) ==
  /\ pc[c] = "publish"
  /\ pc' = [pc EXCEPT ![c] = "close"]
  /\ cache' = IF fetches[mine[c]].result = "schema"
              THEN cache \cup {key[c]} ELSE cache
  /\ pending' = [pending EXCEPT ![key[c]] = NoFetch]
  /\ UNCHANGED <<key, mine, answer, fetches, calls>>

\* A recovered panic is returned as an error.
Answer(c) ==
  answer' = [answer EXCEPT ![c] =
    IF fetches[mine[c]].result = "schema" THEN "schema" ELSE "error"]

Close(c) ==
  /\ pc[c] = "close"
  /\ pc' = [pc EXCEPT ![c] = "idle"]
  /\ fetches' = [fetches EXCEPT ![mine[c]].done = TRUE]
  /\ Answer(c)
  /\ mine' = [mine EXCEPT ![c] = NoFetch]
  /\ UNCHANGED <<key, cache, pending, calls>>

Wake(c) ==
  /\ pc[c] = "wait" /\ fetches[mine[c]].done
  /\ pc' = [pc EXCEPT ![c] = "idle"]
  /\ Answer(c)
  /\ mine' = [mine EXCEPT ![c] = NoFetch]
  /\ UNCHANGED <<key, cache, pending, fetches, calls>>

\* The waiter's own context ends first.
Canceled(c) ==
  /\ pc[c] = "wait"
  /\ pc' = [pc EXCEPT ![c] = "idle"]
  /\ answer' = [answer EXCEPT ![c] = "canceled"]
  /\ mine' = [mine EXCEPT ![c] = NoFetch]
  /\ UNCHANGED <<key, cache, pending, fetches, calls>>

-----------------------------------------------------------------------------
Get(c) ==
  \/ \E k \in Keys : Hit(c, k) \/ Join(c, k) \/ Lead(c, k)
  \/ Canceled(c)

Proceed(c) ==
  \/ \E result \in {"schema", "error", "panic"} : FetchSchema(c, result)
  \/ Publish(c) \/ Close(c) \/ Wake(c)

Next == \E c \in Callers : Get(c) \/ Proceed(c)

Spec == Init /\ [][Next]_vars

\* A runner operation is bounded by its timeout; no context need ever end.
FairSpec == Spec /\ \A c \in Callers : WF_vars(Proceed(c))

-----------------------------------------------------------------------------
\* Concurrent misses share one fetch, and what was fetched is not fetched
\* again: while a caller fetches a key, no other caller fetches it and the
\* cache does not have it, although the fetch runs outside the mutex.
FetchIsShared ==
  \A c \in Callers : pc[c] = "fetch" =>
    /\ key[c] \notin cache
    /\ \A d \in Callers \ {c} : pc[d] = "fetch" => key[d] # key[c]

\* A waiter gets what the fetch it joined produced, even when the key has been
\* fetched again in the meantime: nobody returns a schema that is not cached,
\* and a failed fetch is never cached.  Part of the refinement of SharedFetch;
\* SchemaCacheProofs needs it for the inductive invariant.
AnswersAreCached ==
  \A c \in Callers : pc[c] = "idle" /\ answer[c] = "schema" => key[c] \in cache

\* Every call returns although its own context never ends: a panic or an error
\* of the fetching caller never leaves a poisoned key behind.
EveryCallReturns == \A c \in Callers : pc[c] # "idle" ~> pc[c] = "idle"

-----------------------------------------------------------------------------
(* The mapping to SharedFetch: a call knows the outcome of its fetch from the *)
(* moment the fetch is no longer pending, before its channel is closed.       *)

Verdict(c) ==
  IF pc[c] = "idle" \/ pending[key[c]] = mine[c] THEN "none"
  ELSE IF fetches[mine[c]].result = "schema" THEN "schema" ELSE "error"

Shared == INSTANCE SharedFetch WITH
  known <- cache,
  fetching <- {k \in Keys : pending[k] # NoFetch},
  busy <- {c \in Callers : pc[c] # "idle"},
  verdict <- [c \in Callers |-> Verdict(c)]

\* Get keeps the promise of its comment ("The first caller for a key performs
\* the fetch; concurrent callers wait for its result. Failed fetches are not
\* cached - the next caller retries"): the mutex, the channel and the deferred
\* cleanup, taken in any order by any callers, look like the atomic end of one
\* fetch per key.  Nobody is told of a failure it did not wait for, or gets the
\* outcome of a later fetch of the key.
ImplementsSharedFetch == Shared!Spec
=============================================================================
