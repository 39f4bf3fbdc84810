---------------------------- MODULE MCProperties -----------------------------
EXTENDS TemplateMeaning

\* Pieces of template strings.
Expr(words) == <<"$", "{">> \o words \o <<"}">>
Param == Expr(<<"params", ".", "a">>)
NoParam == Expr(<<"params", ".", "b">>)
Self == Expr(<<"self", ".", "name">>)
Id == Expr(<<"resources", ".", "r", ".", "id">>)
SpacedId == Expr(<<" ", "resources", ".", "r", ".", "id", " ">>)
Output == Expr(<<"resources", ".", "r", ".", "outputs", ".", "a">>)
Unknown == Expr(<<"resources", ".", "r", ".", "outputs", ".", "b">>)
NoField == Expr(<<"resources", ".", "r">>)
NoResource == Expr(<<"resources", ".", "x", ".", "id">>)
Pieces == {<<"x">>, <<"$">>, Open, <<"}">>, EscapedValue, Param, Id, Output}
Strings == Pieces \cup {p \o q : p, q \in Pieces}
             \cup {p \o q \o r : p, q, r \in {<<"x">>, <<"$">>, EscapedValue, Param, Id}}
             \cup {NoParam, Self, Unknown, NoField, NoResource, SpacedId \o Id, <<>>}

\* A property with a string in it, under keys of every shape.
Keys == {<<>>, <<"a">>, <<"a", ".", "b">>, <<"a", "[", "0", "]">>, <<"\"">>, <<"\\", "a">>}
Template(p, o, n) == [props |-> p, outputs |-> Obj(o), externalName |-> n]
Shapes(s) ==
  {Obj(k :> Arr(<<Str(s), Str(<<"x">>)>>)) : k \in Keys}
    \cup {Obj(k :> Obj((<<"b">> :> Scalar("number", <<"1">>)) @@ (k :> Str(s)))) : k \in Keys}
MCTemplates ==
  {Template(Obj(<<"a">> :> Str(s)), (<<"a">> :> Str(s)) @@ (<<"b">> :> Str(Param)), <<>>) : s \in Strings}
    \cup UNION {{Template(p, <<"a">> :> p, <<>>) : p \in Shapes(s)} : s \in {Id, <<"x">> \o Output}}
    \cup {Template(Obj(<<>>), <<"a">> :> Arr(<<Str(Id), Str(Output)>>), s) : s \in {Param, Self, Id, Open}}
    \cup {Template(Obj(<<>>), (<<"a">> :> Str(Param)) @@ (k :> Obj(<<"a">> :> Str(Id) @@ <<"b">> :> Str(NoParam))), <<>>) :
            k \in {<<"b">>, <<>>}}
MCParameters ==
  {Obj(<<"a">> :> v) : v \in {Str(<<"x", "$">>), Str(Value), Scalar("number", <<"1">>), Null, Obj(<<>>)}}
MCStatuses ==
  <<[exists |-> FALSE, id |-> <<>>, outputs |-> Missing],
    [exists |-> TRUE, id |-> <<>>, outputs |-> Missing],
    [exists |-> TRUE, id |-> Value, outputs |-> Missing],
    [exists |-> TRUE, id |-> <<"x">>, outputs |-> Obj(<<"a">> :> Arr(<<Null>>))]>>

\* Specs users write.
From(path, key) == [toPath |-> path, name |-> "s", key |-> key]
Written(props, refs, valuesFrom) ==
  [kind |-> "spec", props |-> props, externalName |-> <<>>, refs |-> refs, valuesFrom |-> valuesFrom]
IdTo(path) == <<[toPath |-> path, from |-> <<"r">>, fieldPath |-> <<"status", ".", "id">>, template |-> <<>>]>>
A0 == <<"a", "[", "0", "]">>
A1 == <<"a", "[", "1", "]">>
B == <<"b">>
BA == <<"b", ".", "a">>
BQuoted == <<"b", "[", "\"", "a", "\"", "]">>
Base == Obj((<<"a">> :> Arr(<<Str(<<"x">>), Str(<<"x">>)>>)) @@ (<<"x">> :> Str(<<"x">>)))
MCSpecs ==
  {Written(Base, <<>>, <<From(A1, "k"), From(A0, "l")>>),
   Written(Base, <<>>, <<From(A0, "k"), From(A1, "l")>>),
   Written(Base, IdTo(B), <<From(A0, "k")>>),
   Written(Base, <<>>, <<From(BA, "k"), From(BQuoted, "l")>>),
   Written(Base, IdTo(BA), <<From(BA, "k"), From(B, "l")>>),
   Written(Base, IdTo(B), <<From(BA, "k")>>)}
MCVersions == <<"1", "2">>
==============================================================================
