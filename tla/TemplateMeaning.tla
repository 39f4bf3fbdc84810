--------------------------- MODULE TemplateMeaning ---------------------------
(***************************************************************************)
(* What a template means, as a reference definition, and the properties of *)
(* Properties that look into documents.                                    *)
(***************************************************************************)
EXTENDS Properties, Rendering

-----------------------------------------------------------------------------
(* What a template means: read once from the left, without markers *)

Lex(s) ==
  LET token(kind, text) == [kind |-> kind, text |-> text]
      from[i \in 1..Len(s) + 3] ==
        LET j == IndexOf(s, i, "}")
        IN IF i > Len(s) THEN <<>>
           ELSE IF At(s, i, Escape) THEN <<token("text", Open)>> \o from[i + 3]
           ELSE IF ~At(s, i, Open) THEN <<token("text", <<s[i]>>)>> \o from[i + 1]
           ELSE IF j > Len(s) THEN <<token("open", <<>>)>>
           ELSE <<token("expr", TrimSpace(SubSeq(s, i + 2, j - 1)))>> \o from[j + 1]
  IN from[1]

Meaning(s, from) ==
  LET value(t) == CASE t.kind = "text" -> Str(t.text)
                    [] t.kind = "open" -> Failed
                    [] t.kind = "expr" -> resolveOutputExpr(rc, <<"r">> :> from, t.text)
      join(t, v) == IF Failed \in Range(v) THEN Failed
                    ELSE IF Missing \in Range(v) THEN Missing
                    ELSE IF Len(t) = 1 /\ t[1].kind = "expr" THEN v[1]
                    ELSE Str(FlattenSeq([k \in DOMAIN v |-> RenderScalar(v[k])]))
      read(t) == join(t, [k \in DOMAIN t |-> value(t[k])])
  IN read(Lex(s))

RECURSIVE MeaningOf(_, _)
MeaningOf(v, from) ==
  LET all(f) == IF Failed \in Range(f) THEN Failed
                ELSE IF Missing \in Range(f) THEN Missing
                ELSE IF v.kind = "object" THEN Obj(f) ELSE Arr(f)
  IN CASE v.kind = "string" -> Meaning(v.str, from)
       [] v.kind = "object" -> all([k \in DOMAIN v.map |-> MeaningOf(v.map[k], from)])
       [] v.kind = "array" -> all([i \in DOMAIN v.elems |-> MeaningOf(v.elems[i], from)])
       [] OTHER -> v

RECURSIVE Leaves(_)
Leaves(v) ==
  CASE v.kind = "object" -> UNION {Leaves(v.map[k]) : k \in DOMAIN v.map}
    [] v.kind = "array" -> UNION {Leaves(v.elems[i]) : i \in DOMAIN v.elems}
    [] OTHER -> {v}
Texts(v) == {l.str : l \in {x \in Leaves(v) : x.kind = "string"}}

\* The resources.* expressions of a string.
Sources(s) == {t.text : t \in {u \in Range(Lex(s)) : u.kind = "expr" /\ IsResource(u.text)}}
Complete == [exists |-> TRUE, id |-> <<"x">>, outputs |-> Obj(<<>>)]
\* The template has an error: one that no status of the source can mend, two
\* sources in one string, or an external name that needs a source.
Malformed(t) ==
  \/ \E s \in Texts(t.props) : Meaning(s, Complete) = Failed \/ Cardinality(Sources(s)) > 1
  \/ Meaning(t.externalName, Complete) = Failed \/ Sources(t.externalName) # {}

\* The text of a string around its source's value.
Around(s) ==
  LET text(t) == CASE t.kind = "text" -> t.text
                   [] t.kind = "open" -> <<>>
                   [] t.kind = "expr" -> IF IsResource(t.text) THEN valueMarker
                                         ELSE RenderScalar(Immediate(rc, t.text))
      flat(t) == FlattenSeq([k \in DOMAIN t |-> text(t[k])])
  IN flat(Lex(s))
\* A parameter that ends in "$" right before the value: resolveReferences
\* takes the two for an escape.
DollarBeforeValue(s) ==
  \E text \in {Around(s)} : \E i \in DOMAIN text : At(text, i, <<"$">> \o valueMarker)
\* Parameters with no text around the value: it keeps its type, as if the
\* string were the expression alone.
NothingAroundValue(s) == Around(s) = valueMarker /\ Len(Lex(s)) > 1

UnknownOutput(s) ==
  \E x \in Sources(s) : checkOutputPath(Known, parseResourceExpr(rc, x).fieldPath)

-----------------------------------------------------------------------------
\* Rendering a template and resolving the references it became is the same as
\* filling in the template: the whole document comes back, every key and every
\* array element in its place, literal "${value}" text and quoted keys
\* included, as soon as the source is complete and not before.  A template is
\* refused exactly when it is malformed.  Excepted: parameters that end in "$"
\* right before the value, or that leave no text around it.
RenderedIsTemplate ==
  tpl # NoTemplate =>
    /\ child # Missing => (child = Failed <=> Malformed(tpl))
    /\ child.kind = "spec" => child.externalName = RenderScalar(Meaning(tpl.externalName, src))
    /\ (child.kind = "spec" /\ resolved.props # Idle) =>
         \/ resolved.props = MeaningOf(tpl.props, resolved.from)
         \/ resolved.props = Failed /\ \E s \in Texts(tpl.props) : UnknownOutput(s)
         \/ \E s \in Texts(tpl.props) : DollarBeforeValue(s) \/ NothingAroundValue(s)

\* "One output is published whole or not at all": what a composite publishes
\* is what the definition says for the source as it was read, for every output
\* all of whose sources were available and for no other.
OutputsAreWhole ==
  outputs.values # Missing =>
    \E meant \in {[k \in DOMAIN tpl.outputs.map |-> MeaningOf(tpl.outputs.map[k], outputs.from)]} :
      outputs.values =
        Obj([k \in {x \in DOMAIN meant : meant[x] \notin {Missing, Failed}} |-> meant[k]])

\* An operation that reaches the provider has every secret at its own path and
\* no placeholder left, and nothing else was changed: with the placeholders put
\* back it is the operation document.
SecretsInPlace ==
  /\ SecretsPlaced
  /\ \A j \in {x \in jobs : Reached(x)} :
       /\ Placeholder \notin Leaves(j.result)
       /\ stageSecretInputs(j.result, j.valuesFrom) = j.name.props

\* The state in a delete Job's spec holds no value of a Secret.  Excepted: a
\* path that was taken out of valuesFrom after the state was recorded.
DeleteStateIsClean ==
  ~handed.edited => \A l \in Leaves(handed.state) :
    l.kind = "string" /\ l.str # <<>> => l.str[1] \notin Secrets
==============================================================================
