------------------------- MODULE SchemaCacheProofs -------------------------
(* Proofs about SchemaCache for any callers, keys and number of calls. *)
EXTENDS SchemaCache, TLAPS

\* Every key belongs to at most one fetching caller: the one whose fetch is
\* pending for it.  Fetches are numbered by calls, so no two callers share one.
Leads(c) == pc[c] \in {"fetch", "publish"}
Owned ==
  \A c \in Callers : Leads(c) =>
    /\ mine[c] \in 1..calls
    /\ pending[key[c]] = mine[c]
    /\ key[c] \notin cache
Distinct ==
  \A c, d \in Callers : Leads(c) /\ Leads(d) /\ c # d => mine[c] # mine[d]
Inv == TypeOK /\ Owned /\ Distinct

\* The invariant holds before the first call.
LEMMA InvInit == Init => Inv
<1> SUFFICES ASSUME Init PROVE Inv
  OBVIOUS
<1> USE CacheAssumption
<1>1. TypeOK
  <2>1. (CHOOSE k \in Keys : TRUE) \in Keys
    OBVIOUS
  <2> QED BY <2>1 DEF Init, TypeOK, Fetch, NoFetch, Flights
<1>2. Owned /\ Distinct
  BY DEF Init, Owned, Distinct, Leads
<1> QED BY <1>1, <1>2 DEF Inv

\* Every step of every call preserves the types.
LEMMA TypeNext == TypeOK /\ [Next]_vars => TypeOK'
<1> SUFFICES ASSUME TypeOK, [Next]_vars PROVE TypeOK'
  OBVIOUS
<1> USE CacheAssumption DEF TypeOK, Flights, NoFetch
<1>1. ASSUME NEW c \in Callers, NEW k \in Keys, Hit(c, k) PROVE TypeOK'
  BY <1>1 DEF Hit, Calls
<1>2. ASSUME NEW c \in Callers, NEW k \in Keys, Join(c, k) PROVE TypeOK'
  BY <1>2 DEF Join, Calls
<1>3. ASSUME NEW c \in Callers, NEW k \in Keys, Lead(c, k) PROVE TypeOK'
  <2>1. calls' \in 1..MaxCalls
    BY <1>3 DEF Lead, Calls
  <2> QED BY <1>3, <2>1 DEF Lead, Calls
<1>4. ASSUME NEW c \in Callers, Canceled(c) PROVE TypeOK'
  BY <1>4 DEF Canceled
<1>5. ASSUME NEW c \in Callers, NEW result \in {"schema", "error", "panic"},
             FetchSchema(c, result)
      PROVE TypeOK'
  <2>1. fetches' \in [1..MaxCalls -> Fetch]
    BY <1>5 DEF FetchSchema, Fetch
  <2> QED BY <1>5, <2>1 DEF FetchSchema
<1>6. ASSUME NEW c \in Callers, Publish(c) PROVE TypeOK'
  BY <1>6 DEF Publish
<1>7. ASSUME NEW c \in Callers, Close(c) PROVE TypeOK'
  <2>1. fetches' \in [1..MaxCalls -> Fetch]
    BY <1>7 DEF Close, Fetch
  <2> QED BY <1>7, <2>1 DEF Close, Answer
<1>8. ASSUME NEW c \in Callers, Wake(c) PROVE TypeOK'
  BY <1>8 DEF Wake, Answer
<1>9. CASE UNCHANGED vars
  BY <1>9 DEF vars
<1> QED BY <1>1, <1>2, <1>3, <1>4, <1>5, <1>6, <1>7, <1>8, <1>9
        DEF Next, Get, Proceed

\* Every step preserves the invariant.  Only Lead makes a caller fetch, and its
\* fetch has a number nobody else has; only the owner of the pending fetch of a
\* key stores a schema under it.
LEMMA InvNext == Inv /\ [Next]_vars => Inv'
<1> SUFFICES ASSUME Inv, [Next]_vars PROVE Owned' /\ Distinct'
  BY TypeNext DEF Inv
<1> USE CacheAssumption DEF Inv, TypeOK, Flights, NoFetch, Leads, Owned, Distinct
<1>1. ASSUME NEW c \in Callers, NEW k \in Keys, Hit(c, k) PROVE Owned' /\ Distinct'
  BY <1>1 DEF Hit, Calls
<1>2. ASSUME NEW c \in Callers, NEW k \in Keys, Join(c, k) PROVE Owned' /\ Distinct'
  BY <1>2 DEF Join, Calls
<1>3. ASSUME NEW c \in Callers, NEW k \in Keys, Lead(c, k) PROVE Owned' /\ Distinct'
  <2>1. \A d \in Callers : Leads(d) => d # c /\ key[d] # k /\ mine[d] # calls'
    BY <1>3 DEF Lead, Calls
  <2>2. Owned'
    BY <1>3, <2>1 DEF Lead, Calls
  <2>3. Distinct'
    BY <1>3, <2>1 DEF Lead, Calls
  <2> QED BY <2>2, <2>3
<1>4. ASSUME NEW c \in Callers, Canceled(c) PROVE Owned' /\ Distinct'
  BY <1>4 DEF Canceled
<1>5. ASSUME NEW c \in Callers, NEW result \in {"schema", "error", "panic"},
             FetchSchema(c, result)
      PROVE Owned' /\ Distinct'
  BY <1>5 DEF FetchSchema
<1>6. ASSUME NEW c \in Callers, Publish(c) PROVE Owned' /\ Distinct'
  <2>1. \A d \in Callers : Leads(d) /\ d # c => key[d] # key[c]
    BY <1>6 DEF Publish
  <2>2. Owned'
    BY <1>6, <2>1 DEF Publish
  <2>3. Distinct'
    BY <1>6 DEF Publish
  <2> QED BY <2>2, <2>3
<1>7. ASSUME NEW c \in Callers, Close(c) PROVE Owned' /\ Distinct'
  BY <1>7 DEF Close
<1>8. ASSUME NEW c \in Callers, Wake(c) PROVE Owned' /\ Distinct'
  BY <1>8 DEF Wake
<1>9. CASE UNCHANGED vars
  BY <1>9 DEF vars
<1> QED BY <1>1, <1>2, <1>3, <1>4, <1>5, <1>6, <1>7, <1>8, <1>9
        DEF Next, Get, Proceed

\* Every reachable state of the cache and its callers is well typed.
THEOREM TypeCorrect == Spec => []TypeOK
<1>1. Inv => TypeOK
  BY DEF Inv
<1> QED BY InvInit, InvNext, <1>1, PTL DEF Spec

\* SchemaCache.Get: "Concurrent misses on the same key share one fetch", and a
\* cached schema is not fetched again, for any number of callers and keys.
THEOREM SharedFetchTheorem == Spec => []FetchIsShared
<1>1. Inv => FetchIsShared
  BY DEF Inv, Owned, Distinct, Leads, FetchIsShared
<1> QED BY InvInit, InvNext, <1>1, PTL DEF Spec

-----------------------------------------------------------------------------
(* A caller performs a fetch until it has closed its channel.  Up to then the *)
(* fetch is not done; it is pending for no key but the caller's, and no       *)
(* longer pending for that one once it is published.  Whoever waits for it    *)
(* asks for the same key, so that a schema it brings is cached by then.       *)

Performs(c) == pc[c] \in {"fetch", "publish", "close"}
Numbered ==
  /\ \A c \in Callers : Performs(c) \/ pc[c] = "wait" => mine[c] \in 1..calls
  /\ \A k \in Keys : pending[k] \in 0..calls
  /\ \A f \in Flights : f > calls => ~fetches[f].done
Apart ==
  \A c, d \in Callers : Performs(c) /\ Performs(d) /\ c # d => mine[c] # mine[d]
PendingMatches ==
  \A c \in Callers, k \in Keys :
    Performs(c) /\ pending[k] = mine[c] => Leads(c) /\ k = key[c]
Undone ==
  /\ \A c \in Callers : Performs(c) => ~fetches[mine[c]].done
  /\ \A k \in Keys : pending[k] # NoFetch => ~fetches[pending[k]].done
Together ==
  \A c, d \in Callers :
    Performs(c) /\ pc[d] = "wait" /\ mine[c] = mine[d] => key[c] = key[d]
Stored ==
  \A c \in Callers :
    /\ (pc[c] = "close" \/ (pc[c] = "wait" /\ fetches[mine[c]].done))
    /\ fetches[mine[c]].result = "schema"
    => key[c] \in cache
Links == Numbered /\ Apart /\ PendingMatches /\ Undone /\ Together
AnswerInv == Inv /\ Links /\ Stored /\ AnswersAreCached

\* Before the first call nobody performs or awaits a fetch.
LEMMA AnswerInit == Init => AnswerInv
<1> SUFFICES ASSUME Init PROVE AnswerInv
  OBVIOUS
<1>1. Inv
  BY InvInit
<1>2. Links
  BY CacheAssumption DEF Init, Links, Numbered, Apart, PendingMatches, Undone,
    Together, Performs, NoFetch, Flights
<1>3. Stored /\ AnswersAreCached
  BY DEF Init, Stored, AnswersAreCached
<1> QED BY <1>1, <1>2, <1>3 DEF AnswerInv

\* The steps of the calls keep fetches, their keys and their callers together.
LEMMA LinksNext == AnswerInv /\ [Next]_vars => Links'
<1> SUFFICES ASSUME AnswerInv, [Next]_vars PROVE Links'
  OBVIOUS
<1> USE CacheAssumption DEF AnswerInv, Inv, TypeOK, Flights, NoFetch, Leads, Performs,
      Owned, Links, Numbered, Apart, PendingMatches, Undone, Together
<1>1. ASSUME NEW c \in Callers, NEW k \in Keys, Hit(c, k) PROVE Links'
  BY <1>1 DEF Hit, Calls
<1>2. ASSUME NEW c \in Callers, NEW k \in Keys, Join(c, k) PROVE Links'
  BY <1>2 DEF Join, Calls
<1>3. ASSUME NEW c \in Callers, NEW k \in Keys, Lead(c, k) PROVE Links'
  <2>1. calls' \in Flights /\ calls' > calls
    BY <1>3 DEF Lead, Calls
  <2>2. Numbered' /\ Apart'
    BY <1>3, <2>1 DEF Lead, Calls
  <2>3. PendingMatches'
    BY <1>3, <2>1 DEF Lead, Calls
  <2>4. Undone'
    BY <1>3, <2>1 DEF Lead, Calls
  <2>5. Together'
    BY <1>3, <2>1 DEF Lead, Calls
  <2> QED BY <2>2, <2>3, <2>4, <2>5
<1>4. ASSUME NEW c \in Callers, Canceled(c) PROVE Links'
  BY <1>4 DEF Canceled
<1>5. ASSUME NEW c \in Callers, NEW result \in {"schema", "error", "panic"},
             FetchSchema(c, result)
      PROVE Links'
  <2>1. \A f \in Flights : fetches'[f].done = fetches[f].done
    BY <1>5 DEF FetchSchema, Fetch
  <2> QED BY <1>5, <2>1 DEF FetchSchema
<1>6. ASSUME NEW c \in Callers, Publish(c) PROVE Links'
  BY <1>6 DEF Publish
<1>7. ASSUME NEW c \in Callers, Close(c) PROVE Links'
  <2>1. \A f \in Flights \ {mine[c]} : fetches'[f] = fetches[f]
    BY <1>7 DEF Close
  <2>2. Numbered' /\ Apart' /\ PendingMatches' /\ Together'
    BY <1>7, <2>1 DEF Close
  <2>3. Undone'
    BY <1>7, <2>1 DEF Close
  <2> QED BY <2>2, <2>3
<1>8. ASSUME NEW c \in Callers, Wake(c) PROVE Links'
  BY <1>8 DEF Wake
<1>9. CASE UNCHANGED vars
  BY <1>9 DEF vars
<1> QED BY <1>1, <1>2, <1>3, <1>4, <1>5, <1>6, <1>7, <1>8, <1>9
        DEF Next, Get, Proceed

\* A schema is stored before anybody can return it.
LEMMA StoredNext == AnswerInv /\ [Next]_vars => Stored' /\ AnswersAreCached'
<1> SUFFICES ASSUME AnswerInv, [Next]_vars PROVE Stored' /\ AnswersAreCached'
  OBVIOUS
<1> USE CacheAssumption DEF AnswerInv, Inv, TypeOK, Flights, NoFetch, Leads, Performs,
      Links, Numbered, Stored, AnswersAreCached
<1>1. ASSUME NEW c \in Callers, NEW k \in Keys, Hit(c, k)
      PROVE Stored' /\ AnswersAreCached'
  BY <1>1 DEF Hit, Calls
<1>2. ASSUME NEW c \in Callers, NEW k \in Keys, Join(c, k)
      PROVE Stored' /\ AnswersAreCached'
  BY <1>2 DEF Join, Calls, Undone
<1>3. ASSUME NEW c \in Callers, NEW k \in Keys, Lead(c, k)
      PROVE Stored' /\ AnswersAreCached'
  BY <1>3 DEF Lead, Calls
<1>4. ASSUME NEW c \in Callers, Canceled(c) PROVE Stored' /\ AnswersAreCached'
  BY <1>4 DEF Canceled
<1>5. ASSUME NEW c \in Callers, NEW result \in {"schema", "error", "panic"},
             FetchSchema(c, result)
      PROVE Stored' /\ AnswersAreCached'
  <2>1. ~fetches[mine[c]].done /\ ~fetches'[mine[c]].done
    BY <1>5 DEF FetchSchema, Fetch, Undone
  <2>2. \A f \in Flights \ {mine[c]} : fetches'[f] = fetches[f]
    BY <1>5 DEF FetchSchema
  <2> QED BY <1>5, <2>1, <2>2 DEF FetchSchema, Apart
<1>6. ASSUME NEW c \in Callers, Publish(c) PROVE Stored' /\ AnswersAreCached'
  BY <1>6 DEF Publish
<1>7. ASSUME NEW c \in Callers, Close(c) PROVE Stored' /\ AnswersAreCached'
  <2>1. \A f \in Flights \ {mine[c]} : fetches'[f] = fetches[f]
    BY <1>7 DEF Close
  <2>2. fetches'[mine[c]].result = fetches[mine[c]].result
    BY <1>7 DEF Close, Fetch
  <2>3. \A d \in Callers : pc[d] = "wait" /\ mine[d] = mine[c] => key[d] = key[c]
    BY <1>7 DEF Close, Together
  <2>4. Stored'
    BY <1>7, <2>1, <2>2, <2>3 DEF Close, Apart
  <2>5. AnswersAreCached'
    BY <1>7 DEF Close, Answer
  <2> QED BY <2>4, <2>5
<1>8. ASSUME NEW c \in Callers, Wake(c) PROVE Stored' /\ AnswersAreCached'
  BY <1>8 DEF Wake, Answer
<1>9. CASE UNCHANGED vars
  BY <1>9 DEF vars
<1> QED BY <1>1, <1>2, <1>3, <1>4, <1>5, <1>6, <1>7, <1>8, <1>9
        DEF Next, Get, Proceed

\* Nobody returns a schema that is not cached: waiters get the result of the
\* fetch they joined even when the key was fetched again in the meantime.
THEOREM AnswersTheorem == Spec => []AnswersAreCached
<1>1. AnswerInv /\ [Next]_vars => AnswerInv'
  BY InvNext, LinksNext, StoredNext DEF AnswerInv
<1>2. AnswerInv => AnswersAreCached
  BY DEF AnswerInv
<1> QED BY AnswerInit, <1>1, <1>2, PTL DEF Spec

-----------------------------------------------------------------------------
(* SchemaCache implements SharedFetch.                                        *)

Busy == {c \in Callers : pc[c] # "idle"}
Fetching == {k \in Keys : pending[k] # NoFetch}
Verdicts == [c \in Callers |-> Verdict(c)]

\* The initial state is an initial state of SharedFetch.
LEMMA SharedInit == Init => Shared!Init
<1> SUFFICES ASSUME Init PROVE Shared!Init
  OBVIOUS
<1>1. key \in [Callers -> Keys]
  BY InvInit DEF Inv, TypeOK
<1>2. \A c \in Callers : Verdict(c) = "none"
  BY DEF Init, Verdict
<1> QED BY <1>1, <1>2 DEF Init, Shared!Init, NoFetch

\* Every step is a step of SharedFetch or leaves its variables alone.
LEMMA SharedNext == AnswerInv /\ [Next]_vars => [Shared!Next]_(Shared!vars)
<1> SUFFICES ASSUME AnswerInv, [Next]_vars PROVE [Shared!Next]_(Shared!vars)
  OBVIOUS
<1> USE CacheAssumption DEF AnswerInv, Inv, TypeOK, Flights, NoFetch, Leads, Performs
<1>1. ASSUME NEW c \in Callers, NEW k \in Keys, Hit(c, k) PROVE Shared!AskKnown(c, k)
  <2>1. \A d \in Callers : Verdict(d)' = Verdict(d)
    BY <1>1 DEF Hit, Calls, Verdict
  <2> QED BY <1>1, <2>1 DEF Hit, Calls, Shared!AskKnown
<1>2. ASSUME NEW c \in Callers, NEW k \in Keys, Join(c, k) PROVE Shared!AskUnknown(c, k)
  <2>1. \A d \in Callers : Verdict(d)' = Verdict(d)
    BY <1>2 DEF Join, Calls, Verdict
  <2>2. Busy' = Busy \cup {c} /\ c \notin Busy
    BY <1>2 DEF Join, Calls, Busy
  <2>3. Fetching' = Fetching \cup {k}
    BY <1>2 DEF Join, Fetching
  <2> QED BY <1>2, <2>1, <2>2, <2>3 DEF Join, Calls, Busy, Fetching, Shared!AskUnknown
<1>3. ASSUME NEW c \in Callers, NEW k \in Keys, Lead(c, k) PROVE Shared!AskUnknown(c, k)
  <2>1. \A d \in Callers : Verdict(d)' = Verdict(d)
    BY <1>3 DEF Lead, Calls, Verdict, Links, Numbered
  <2>2. Busy' = Busy \cup {c} /\ c \notin Busy
    BY <1>3 DEF Lead, Calls, Busy
  <2>3. Fetching' = Fetching \cup {k}
    BY <1>3 DEF Lead, Calls, Fetching
  <2> QED BY <1>3, <2>1, <2>2, <2>3 DEF Lead, Calls, Busy, Fetching, Shared!AskUnknown
<1>4. ASSUME NEW c \in Callers, Canceled(c) PROVE Shared!Cancel(c)
  <2>1. \A d \in Callers : Verdict(d)' = IF d = c THEN "none" ELSE Verdict(d)
    BY <1>4 DEF Canceled, Verdict
  <2>2. Busy' = Busy \ {c} /\ c \in Busy
    BY <1>4 DEF Canceled, Busy
  <2> QED BY <1>4, <2>1, <2>2 DEF Canceled, Busy, Shared!Cancel, Shared!Leave
<1>5. ASSUME NEW c \in Callers, NEW result \in {"schema", "error", "panic"},
             FetchSchema(c, result)
      PROVE UNCHANGED Shared!vars
  <2>1. \A d \in Callers : pc[d] # "idle" /\ mine[d] = mine[c]
                              => pending[key[d]] = mine[d]
    BY <1>5 DEF FetchSchema, Owned, Links, Apart, Together
  <2>2. \A f \in Flights \ {mine[c]} : fetches'[f] = fetches[f]
    BY <1>5 DEF FetchSchema
  <2>3. \A d \in Callers : pc[d] # "idle" => mine[d] \in Flights
    BY DEF Links, Numbered
  <2>4. \A d \in Callers : Verdict(d)' = Verdict(d)
    BY <1>5, <2>1, <2>2, <2>3 DEF FetchSchema, Verdict
  <2>5. Busy' = Busy
    BY <1>5 DEF FetchSchema, Busy
  <2> QED BY <1>5, <2>4, <2>5 DEF FetchSchema, Busy, Shared!vars
<1>6. ASSUME NEW c \in Callers, Publish(c)
      PROVE \E v \in {"schema", "error"} : Shared!Finish(key[c], v)
  <2>0. PICK v \in {"schema", "error"} :
          v = IF fetches[mine[c]].result = "schema" THEN "schema" ELSE "error"
    OBVIOUS
  <2>1. pending[key[c]] = mine[c] /\ mine[c] # NoFetch
    BY <1>6 DEF Publish, Owned
  <2>2. \A d \in Callers : Verdict(d)' =
          IF d \in Busy /\ key[d] = key[c] /\ Verdict(d) = "none" THEN v ELSE Verdict(d)
    <3> SUFFICES ASSUME NEW d \in Callers
                 PROVE Verdict(d)' =
          IF d \in Busy /\ key[d] = key[c] /\ Verdict(d) = "none" THEN v ELSE Verdict(d)
      OBVIOUS
    <3>1. CASE pc[d] = "idle"
      BY <1>6, <3>1 DEF Publish, Verdict, Busy
    <3>2. CASE pc[d] # "idle" /\ key[d] = key[c]
      <4>1. pending'[key'[d]] # mine'[d] /\ pc'[d] # "idle"
        BY <1>6, <3>2 DEF Publish, Links, Numbered
      <4>2. Verdict(d)' = IF fetches[mine[d]].result = "schema" THEN "schema" ELSE "error"
        BY <1>6, <4>1 DEF Publish, Verdict
      <4>3. Verdict(d) = "none" => mine[d] = mine[c]
        BY <2>1, <3>2 DEF Verdict
      <4>4. Verdict(d) # "none" =>
              Verdict(d) = IF fetches[mine[d]].result = "schema" THEN "schema" ELSE "error"
        BY <3>2 DEF Verdict
      <4> QED BY <2>0, <3>2, <4>2, <4>3, <4>4 DEF Busy
    <3>3. CASE pc[d] # "idle" /\ key[d] # key[c]
      BY <1>6, <3>3 DEF Publish, Verdict
    <3> QED BY <3>1, <3>2, <3>3
  <2>3. Busy' = Busy
    BY <1>6 DEF Publish, Busy
  <2>4. Fetching' = Fetching \ {key[c]} /\ key[c] \in Fetching
    BY <1>6, <2>1 DEF Publish, Fetching
  <2>5. cache' = IF v = "schema" THEN cache \cup {key[c]} ELSE cache
    BY <1>6, <2>0 DEF Publish
  <2>6. Shared!Finish(key[c], v)
    BY <1>6, <2>2, <2>3, <2>4, <2>5 DEF Publish, Busy, Fetching, Shared!Finish
  <2> QED BY <2>6
<1>7. ASSUME NEW c \in Callers, Close(c) PROVE Shared!Reply(c)
  <2>1. pending[key[c]] # mine[c]
    BY <1>7 DEF Close, Links, PendingMatches
  <2>2. Verdict(c) = IF fetches[mine[c]].result = "schema" THEN "schema" ELSE "error"
    BY <1>7, <2>1 DEF Close, Verdict
  <2>3. \A f \in Flights : fetches'[f].result = fetches[f].result
    BY <1>7 DEF Close, Fetch
  <2>4. \A d \in Callers : pc[d] # "idle" => mine[d] \in Flights
    BY DEF Links, Numbered
  <2>5. \A d \in Callers : Verdict(d)' = IF d = c THEN "none" ELSE Verdict(d)
    BY <1>7, <2>3, <2>4 DEF Close, Verdict
  <2>6. Busy' = Busy \ {c} /\ c \in Busy
    BY <1>7 DEF Close, Busy
  <2>7. answer' = [answer EXCEPT ![c] = Verdict(c)] /\ Verdict(c) # "none"
    BY <1>7, <2>2 DEF Close, Answer
  <2> QED BY <1>7, <2>5, <2>6, <2>7 DEF Close, Busy, Shared!Reply, Shared!Leave
<1>8. ASSUME NEW c \in Callers, Wake(c) PROVE Shared!Reply(c)
  <2>1. pending[key[c]] # mine[c]
    BY <1>8 DEF Wake, Links, Numbered, Undone
  <2>2. Verdict(c) = IF fetches[mine[c]].result = "schema" THEN "schema" ELSE "error"
    BY <1>8, <2>1 DEF Wake, Verdict
  <2>3. \A d \in Callers : Verdict(d)' = IF d = c THEN "none" ELSE Verdict(d)
    BY <1>8 DEF Wake, Verdict
  <2>4. Busy' = Busy \ {c} /\ c \in Busy
    BY <1>8 DEF Wake, Busy
  <2>5. answer' = [answer EXCEPT ![c] = Verdict(c)] /\ Verdict(c) # "none"
    BY <1>8, <2>2 DEF Wake, Answer
  <2> QED BY <1>8, <2>3, <2>4, <2>5 DEF Wake, Busy, Shared!Reply, Shared!Leave
<1>9. CASE UNCHANGED vars
  <2>1. \A d \in Callers : Verdict(d)' = Verdict(d)
    BY <1>9 DEF vars, Verdict
  <2> QED BY <1>9, <2>1 DEF vars, Shared!vars
<1>10. ASSUME NEW c \in Callers PROVE key[c] \in Keys
  OBVIOUS
<1> QED BY <1>1, <1>2, <1>3, <1>4, <1>5, <1>6, <1>7, <1>8, <1>9, <1>10
        DEF Next, Get, Proceed, Shared!Next

\* Get keeps the promise of its comment for any callers, keys and calls: its
\* critical sections and channels implement the atomic SharedFetch.
THEOREM RefinementTheorem == Spec => ImplementsSharedFetch
<1>1. AnswerInv /\ [Next]_vars => AnswerInv'
  BY InvNext, LinksNext, StoredNext DEF AnswerInv
<1> QED BY AnswerInit, <1>1, SharedInit, SharedNext, PTL
        DEF Spec, ImplementsSharedFetch, Shared!Spec
=============================================================================
