---------------------------- MODULE MCComposite ----------------------------
(* Small instances of Composite for TLC. *)
EXTENDS Composite

CONSTANTS c1, c2, d1, d2, d3, d4, d5, n1, n2

A(p) == [type |-> "A", params |-> p]
B(p) == [type |-> "B", params |-> p]

Only(n, s) == [x \in Names |-> IF x = n THEN s ELSE NoSpec]

\* c1 has one child: d2 changes its type, d5 its parameters and d3 its name;
\* d4 does not render, and neither do the outputs of d5.  c2 has none.
Templates(c, d) ==
  CASE c = c1 /\ d = d1 -> Only(n1, A("x"))
    [] c = c1 /\ d = d2 -> Only(n1, B("x"))
    [] c = c1 /\ d = d3 -> Only(n2, A("x"))
    [] c = c1 /\ d = d5 -> Only(n1, A("y"))
    [] OTHER             -> [n \in Names |-> NoSpec]
MCRender == [c \in Comps |-> [d \in Defs |-> Templates(c, d)]]

\* A revision of another definition, and the second one, which may not exist.
SomePins == {-1, 2}
=============================================================================
