---------------------------- MODULE MCDoResource ----------------------------
(* Small instances of DoResource for TLC. *)
EXTENDS DoResource

CONSTANTS i1, i2, i3, i4, pA, pB, pC

\* pA and pB can be patched into each other; pC can only be reached, and
\* left, by replacement.
MCInPlace == {x \in Props \X Props : x[1] = x[2] \/ pC \notin {x[1], x[2]}}

ServerNamed == [clientNamed |-> FALSE, canRead |-> TRUE, canFallBack |-> TRUE]
ClientNamed == [clientNamed |-> TRUE, canRead |-> TRUE, canFallBack |-> TRUE]

\* Types without read support, from a plain and from a git package.
Unreadable == [clientNamed |-> FALSE, canRead |-> FALSE, canFallBack |-> TRUE]
FromGit == [clientNamed |-> FALSE, canRead |-> FALSE, canFallBack |-> FALSE]

AllProviders == {ServerNamed, ClientNamed, Unreadable, FromGit}
=============================================================================
