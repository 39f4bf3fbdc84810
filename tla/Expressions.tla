----------------------------- MODULE Expressions -----------------------------
(***************************************************************************)
(* Expressions in composite definitions: templates rendered into the       *)
(* properties and references of a child DoResource, references resolved    *)
(* back into properties, and composite outputs                             *)
(* (internal/controller/composite_render.go, composite_outputs.go,         *)
(* references.go).                                                         *)
(*                                                                         *)
(* A render context rc holds the parameters and the names of the           *)
(* definition's resources; observed[n] is the child n as last read.        *)
(***************************************************************************)
EXTENDS Paths

CONSTANTS
  CompositeName,   \* the text of ${self.name}
  Namespace        \* the text of ${self.namespace}

Open == <<"$", "{">>
Escape == <<"$", "$", "{">>
Value == <<"$", "{", "value", "}">>
EscapedValue == <<"$">> \o Value
escMarker == <<"<esc>">>
valueMarker == <<"<value>">>
literalMark == <<"<literal>">>
Removed == [kind |-> "removed"]

-----------------------------------------------------------------------------
(* Text *)

At(s, i, t) == i + Len(t) <= Len(s) + 1 /\ SubSeq(s, i, i + Len(t) - 1) = t

\* Every occurrence of old, from the left.
ReplaceText(s, old, new) ==
  LET from[i \in 1..Len(s) + Len(old)] ==
        IF i > Len(s) THEN <<>>
        ELSE IF At(s, i, old) THEN new \o from[i + Len(old)] ELSE <<s[i]>> \o from[i + 1]
  IN from[1]

TrimSpace(s) ==
  LET I == {i \in 1..Len(s) : s[i] # " "}
  IN IF I = {} THEN <<>> ELSE SubSeq(s, Min(I), Max(I))

\* The matches of exprRe: from "${" to the next "}".
Spans(s) ==
  LET span(i, j) == [lo |-> i, hi |-> j, expr |-> TrimSpace(SubSeq(s, i + 2, j - 1))]
      from[i \in 1..Len(s) + 1] ==
        IF i > Len(s) THEN <<>>
        ELSE IF At(s, i, Open) /\ IndexOf(s, i, "}") <= Len(s)
        THEN <<span(i, IndexOf(s, i, "}"))>> \o from[IndexOf(s, i, "}") + 1]
        ELSE from[i + 1]
  IN from[1]

\* A "${" outside the matches m: it never closes.
checkUnterminated(s, m) ==
  \E i \in 1..Len(s) : At(s, i, Open) /\ \A k \in DOMAIN m : i \notin m[k].lo..m[k].hi

\* s with texts[k] in the place of its match m[k].
Interpolate(s, m, texts) ==
  LET upTo[k \in 0..Len(m)] ==
        IF k = 0 THEN <<>>
        ELSE upTo[k - 1] \o SubSeq(s, (IF k = 1 THEN 0 ELSE m[k - 1].hi) + 1, m[k].lo - 1)
               \o texts[k]
  IN upTo[Len(m)] \o SubSeq(s, (IF m = <<>> THEN 0 ELSE m[Len(m)].hi) + 1, Len(s))

\* The whole of s is one expression.
WholeString(s, m) == Len(m) = 1 /\ m[1].lo = 1 /\ m[1].hi = Len(s)

-----------------------------------------------------------------------------
(* Single expressions *)

Starts(x, word) == x # <<>> /\ x[1] = word /\ (Len(x) = 1 \/ x[2] = ".")
IsParameter(x) == Starts(x, "params")
IsResource(x) == Starts(x, "resources") /\ Len(x) > 1

OrFailed(v) == IF v = Missing THEN Failed ELSE v
\* params.* and self.*; Failed for anything else.
Immediate(rc, x) ==
  CASE IsParameter(x) -> OrFailed(GetPath(Obj(<<"params">> :> rc.params), x))
    [] x = <<"self", ".", "name">> -> Str(<<CompositeName>>)
    [] x = <<"self", ".", "namespace">> -> Str(<<Namespace>>)
    [] OTHER -> Failed

\* The resource an expression reads and the path into its status; no path if
\* the resource is unknown or the field is neither id nor outputs.
parseResourceExpr(rc, x) ==
  LET rest == SubSeq(x, 3, Len(x))
      dot == IndexOf(rest, 1, ".")
      source == SubSeq(rest, 1, dot - 1)
      field == SubSeq(rest, dot + 1, Len(rest))
      legal == source \in rc.names /\ dot <= Len(rest) /\ (field = <<"id">> \/ Starts(field, "outputs"))
  IN [source |-> source, fieldPath |-> IF legal THEN <<"status", ".">> \o field ELSE <<>>]

\* The value at a field path of a source's status; Missing until populated.
resolveFieldPath(src, fieldPath) ==
  CASE fieldPath = <<"status", ".", "id">> -> IF src.id = <<>> THEN Missing ELSE Str(src.id)
    [] Starts(SubSeq(fieldPath, 3, Len(fieldPath)), "outputs") ->
         IF src.outputs = Missing \/ Len(fieldPath) = 3 THEN src.outputs
         ELSE GetPath(src.outputs, SubSeq(fieldPath, 5, Len(fieldPath)))
    [] OTHER -> Failed

-----------------------------------------------------------------------------
(* Template strings into properties and references *)

Rendered(v) == [val |-> v, refs |-> {}]

\* The template of a reference; none if the string is the value itself.
TemplateOf(result) ==
  LET unlessValue(t) == IF t = Value THEN <<>> ELSE t
  IN unlessValue(ReplaceText(ReplaceText(result, Value, EscapedValue), valueMarker, Value))

AsReference(source, result, path) ==
  IF source.fieldPath = <<>> THEN Rendered(Failed)
  ELSE [val |-> Removed,
        refs |-> {[toPath |-> path, from |-> source.source, fieldPath |-> source.fieldPath,
                   template |-> TemplateOf(result)]}]

\* The assembled string: plain text, or the reference to its only source.
Assembled(rc, sources, result, path) ==
  IF sources = {} THEN Rendered(Str(result))
  ELSE IF Cardinality(sources) > 1 THEN Rendered(Failed)
  ELSE AsReference(parseResourceExpr(rc, CHOOSE x \in sources : TRUE), result, path)

renderString(rc, s, path) ==
  LET render(e, m, now) ==
        IF checkUnterminated(e, m) \/ \E k \in DOMAIN m : now[k] = Failed /\ ~IsResource(m[k].expr)
        THEN Rendered(Failed)
        ELSE IF WholeString(e, m) /\ IsParameter(m[1].expr) THEN Rendered(now[1])
        ELSE Assembled(rc, {x \in {m[k].expr : k \in DOMAIN m} : IsResource(x)},
               ReplaceText(Interpolate(e, m, [k \in DOMAIN m |->
                   IF IsResource(m[k].expr) THEN valueMarker ELSE RenderScalar(now[k])]),
                 escMarker, Open), path)
      resolve(e, m) == render(e, m, [k \in DOMAIN m |-> Immediate(rc, m[k].expr)])
      match(e) == resolve(e, Spans(e))
  IN match(ReplaceText(s, Escape, escMarker))

\* The external-name annotation: its text, or Failed if it reads a sibling.
renderExternalName(rc, s) ==
  LET name(r) == IF r.val \in {Failed, Removed} THEN Failed ELSE Str(RenderScalar(r.val))
  IN name(renderString(rc, s, <<"externalName">>))

-----------------------------------------------------------------------------
(* References back into properties *)

expandTemplate(tpl, rendered) ==
  ReplaceText(ReplaceText(ReplaceText(tpl, EscapedValue, literalMark), Value, rendered),
              literalMark, Value)

\* A path into the outputs that the provider's schema does not have.
checkOutputPath(known, fieldPath) ==
  LET rest == SubSeq(fieldPath, 5, Len(fieldPath))
  IN /\ Starts(SubSeq(fieldPath, 3, Len(fieldPath)), "outputs") /\ rest # <<>>
     /\ known # {} /\ Head(rest) \notin known \cup {"id"}

\* The properties with every reference resolved; Missing while one waits,
\* Failed if one is invalid.  known: the outputs in the schema of the source.
resolveReferences(spec, observed, known) ==
  LET read(ref) == IF observed[ref.from].exists
                   THEN resolveFieldPath(observed[ref.from], ref.fieldPath) ELSE Missing
      value(ref, v) == IF ref.template = <<>> THEN v
                       ELSE Str(expandTemplate(ref.template, RenderScalar(v)))
      apply(acc, ref, v) ==
        IF acc.props = Failed THEN acc
        ELSE IF v = Missing /\ ~(observed[ref.from].exists /\ checkOutputPath(known, ref.fieldPath))
        THEN [acc EXCEPT !.waits = TRUE]
        ELSE [acc EXCEPT !.props = IF v \in {Missing, Failed} THEN Failed
                                   ELSE SetPath(@, ref.toPath, value(ref, v))]
      step(acc, ref) == apply(acc, ref, read(ref))
      outcome(acc) == IF acc.props # Failed /\ acc.waits THEN Missing ELSE acc.props
  IN outcome(FoldLeft(step, [props |-> spec.props, waits |-> FALSE], spec.refs))

-----------------------------------------------------------------------------
(* Outputs *)

\* Those of a sequence of values that are not available.
Unavailable(vs) == SelectSeq(vs, LAMBDA v : v \in {Missing, Failed})

resolveOutputExpr(rc, observed, x) ==
  LET resource(p) == IF p.fieldPath = <<>> THEN Failed
                     ELSE IF ~observed[p.source].exists THEN Missing
                     ELSE resolveFieldPath(observed[p.source], p.fieldPath)
  IN IF IsResource(x) THEN resource(parseResourceExpr(rc, x)) ELSE Immediate(rc, x)

renderOutputString(rc, observed, s) ==
  LET render(e, m, vs) ==
        IF checkUnterminated(e, m) THEN Failed
        ELSE IF Unavailable(vs) # <<>> THEN Head(Unavailable(vs))
        ELSE IF WholeString(e, m) THEN vs[1]
        ELSE Str(ReplaceText(Interpolate(e, m, [k \in DOMAIN m |-> RenderScalar(vs[k])]),
                             escMarker, Open))
      resolve(e, m) == render(e, m, [k \in DOMAIN m |-> resolveOutputExpr(rc, observed, m[k].expr)])
      match(e) == resolve(e, Spans(e))
  IN match(ReplaceText(s, Escape, escMarker))
==============================================================================
