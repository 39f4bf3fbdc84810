-------------------------- MODULE MCReferenceGraph --------------------------
(* Small instances of ReferenceGraph for TLC. *)
EXTENDS ReferenceGraph

Chain == {<<{2}, {3}, {}>>}
Ring == {<<{2}, {3}, {1}>>}
ChainOrRing == Chain \cup Ring

\* The chain 1 -> 2 -> 3, the rings 1 -> 2 -> 3 -> 1 and 3 -> 2 -> 1 -> 3, and
\* the pair 1 <-> 2 with 3 depending on it or being its source.
Knots == Chain \cup {<<{2}, {3}, {1}>>, <<{3}, {1}, {2}>>,
                     <<{2}, {1}, {1}>>, <<{2}, {1, 3}, {}>>}

\* Resource 2 may be missing at first, in the rewired run resource 3 is.
NoneOrTwo == {{}, {2}}
OnlyThree == {{3}}

\* All resources are new, or all of them are provisioned.
NoneBorn == {{}}
NoneOrAll == {{}, Names}
=============================================================================
