----------------------------- MODULE MCTypedAPI -----------------------------
(* Small instances of TypedAPI for TLC. *)
EXTENDS TypedAPI

CONSTANTS d1, t1, o1

\* v1; v2 instead of v1; v2 with v1 still served; one that
\* typedCompositeCRD refuses, and one that the API server refuses.
V1 == [ver |-> "v1", dep |-> {}]
V2 == [ver |-> "v2", dep |-> {}]
V2andV1 == [ver |-> "v2", dep |-> {"v1"}]
V1andV1 == [ver |-> "v1", dep |-> {"v1"}]
V1andV2 == [ver |-> "v1", dep |-> {"v2"}]

SomeAPIs == {V1, V2, V2andV1, V1andV1, V1andV2}
FirstAPI == {V1}
Contradictory == {V1andV1}
BadSchema == {V1andV2}
=============================================================================
