------------------------------ MODULE Rendering ------------------------------
(***************************************************************************)
(* The child a template is rendered to and the outputs a composite         *)
(* publishes (internal/controller/composite_render.go,                     *)
(* composite_outputs.go).  They are the constants ChildOf and OutputsOf of *)
(* Properties.  Documents are trees, walked with recursive operators.      *)
(***************************************************************************)
EXTENDS Expressions, FiniteSets

-----------------------------------------------------------------------------
(* Templates into properties and references *)

RECURSIVE renderValue(_, _, _)
renderValue(rc, v, path) ==
  LET object(r) ==
        [val |-> IF \E k \in DOMAIN r : r[k].val = Failed THEN Failed
                 ELSE Obj([k \in {x \in DOMAIN r : r[x].val # Removed} |-> r[k].val]),
         refs |-> UNION {r[k].refs : k \in DOMAIN r}]
      array(r) ==
        [val |-> IF \E i \in DOMAIN r : r[i].val = Failed THEN Failed
                 ELSE Arr([i \in DOMAIN r |-> IF r[i].val = Removed THEN Str(<<>>) ELSE r[i].val]),
         refs |-> UNION {r[i].refs : i \in DOMAIN r}]
  IN CASE v.kind = "string" -> renderString(rc, v.str, path)
       [] v.kind = "object" ->
            object([k \in DOMAIN v.map |-> renderValue(rc, v.map[k], AppendKeySegment(path, k))])
       [] v.kind = "array" ->
            array([i \in DOMAIN v.elems |-> renderValue(rc, v.elems[i], AppendIndex(path, i - 1))])
       [] OTHER -> Rendered(v)

\* The child rendered from its template, with its references sorted by ToPath;
\* Failed if anything in it is wrong.
renderChild(rc, tpl) ==
  LET child(r, name) ==
        IF Failed \in {r.val, name} THEN Failed
        ELSE [kind |-> "spec", props |-> r.val, externalName |-> name.str, valuesFrom |-> <<>>,
              refs |-> SetToSortSeq(r.refs, LAMBDA x, y : Before(x.toPath, y.toPath))]
  IN child(renderValue(rc, tpl.props, <<>>), renderExternalName(rc, tpl.externalName))

-----------------------------------------------------------------------------
(* Outputs *)

\* Mutation: a member that waits is left out.
RECURSIVE PublishesParts(_, _, _)
PublishesParts(rc, observed, v) ==
  LET object(r) == Obj([k \in {x \in DOMAIN r : r[x] # Missing} |-> r[k]])
  IN CASE v.kind = "string" -> renderOutputString(rc, observed, v.str)
       [] v.kind = "object" ->
            object([k \in DOMAIN v.map |-> PublishesParts(rc, observed, v.map[k])])
       [] OTHER -> v

\* The value with every expression resolved, or the first thing, in the order
\* of the keys, that is wrong with it.
RECURSIVE renderOutputValue(_, _, _)
renderOutputValue(rc, observed, v) ==
  LET unless(bad, value) == IF bad = <<>> THEN value ELSE Head(bad)
      sorted(r) == LET keys == SetToSortSeq(DOMAIN r, Before) IN [i \in DOMAIN keys |-> r[keys[i]]]
      object(r) == unless(Unavailable(sorted(r)), Obj(r))
      array(r) == unless(Unavailable(r), Arr(r))
  IN CASE v.kind = "string" -> renderOutputString(rc, observed, v.str)
       [] v.kind = "object" ->
            object([k \in DOMAIN v.map |-> renderOutputValue(rc, observed, v.map[k])])
       [] v.kind = "array" ->
            array([i \in DOMAIN v.elems |-> renderOutputValue(rc, observed, v.elems[i])])
       [] OTHER -> v

\* The outputs that are available, each of them whole; Failed if the
\* definition is wrong.
renderOutputs(rc, observed, outputs) ==
  LET publish(r) ==
        IF <<>> \in DOMAIN r \/ \E k \in DOMAIN r : r[k] = Failed THEN Failed
        ELSE Obj([k \in {x \in DOMAIN r : r[x] # Missing} |-> r[k]])
  IN publish([k \in DOMAIN outputs.map |-> renderOutputValue(rc, observed, outputs.map[k])])
==============================================================================
