-------------------------------- MODULE Paths --------------------------------
(***************************************************************************)
(* Property paths and the JSON documents they address                      *)
(* (internal/runnerops/path.go; internal/pulumido/path.go re-exports it).  *)
(*                                                                         *)
(* Text is a sequence of characters; a word whose letters nothing here     *)
(* looks into is one character.  A document is a tagged value: a scalar    *)
(* with the text it prints as, an object (a function on its keys) or an    *)
(* array.  The properties of the operators are stated in Properties, which *)
(* uses them as the operator does.                                         *)
(***************************************************************************)
EXTENDS Integers, Sequences, SequencesExt

Scalar(kind, text) == [kind |-> kind, str |-> text]
Str(text) == Scalar("string", text)
Obj(f) == [kind |-> "object", map |-> f]
Arr(s) == [kind |-> "array", elems |-> s]
Null == [kind |-> "null"]
Missing == [kind |-> "missing"]   \* not there (yet)
Failed == [kind |-> "failed"]     \* an error

\* Characters in the order sort.Strings puts them.
Characters == <<"\"", "$", ".", "0", "1", "[", "\\", "]", "a", "b", "id", "outputs",
                "params", "r", "resources", "self", "status", "value", "x", "{", "}">>
Rank == [c \in Range(Characters) |-> CHOOSE i \in DOMAIN Characters : Characters[i] = c]

\* p sorts strictly before q.
Before(p, q) ==
  \/ IsStrictPrefix(p, q)
  \/ \E i \in 1..Len(p) \cap 1..Len(q) :
       SubSeq(p, 1, i - 1) = SubSeq(q, 1, i - 1) /\ Rank[p[i]] < Rank[q[i]]

\* A map entry is replaced or added.
WithKey(m, k, v) == [x \in DOMAIN m \cup {k} |-> IF x = k THEN v ELSE m[x]]
WithoutKey(m, k) == [x \in DOMAIN m \ {k} |-> m[x]]

-----------------------------------------------------------------------------
KeySegment(k) == [isIdx |-> FALSE, key |-> k, index |-> 0]
IndexSegment(i) == [isIdx |-> TRUE, key |-> <<>>, index |-> i]
NoSegment == [seg |-> KeySegment(<<>>), next |-> 0]

Digits == <<"0", "1">>
Number(text) == FoldLeft(LAMBDA n, d : 10 * n + (CHOOSE i \in DOMAIN Digits : Digits[i] = d) - 1,
                         0, text)

\* The first position of c in p from i on; Len(p) + 1 if there is none.
IndexOf(p, i, c) == CHOOSE j \in i..Len(p) + 1 :
  /\ j > Len(p) \/ p[j] = c
  /\ \A k \in i..j - 1 : p[k] # c

\* The key from p[j] up to the closing quote, without its escapes.
QuotedKey(p) ==
  LET from[j \in 1..Len(p) + 1] ==
        IF j > Len(p) THEN [key |-> <<>>, next |-> 0]
        ELSE IF p[j] = "\"" THEN [key |-> <<>>, next |-> j + 1]
        ELSE LET c == IF p[j] = "\\" /\ j < Len(p) THEN j + 1 ELSE j
             IN [from[c + 1] EXCEPT !.key = <<p[c]>> \o @]
  IN from
QuotedSegment(p, q) ==
  IF q.next \in 1..Len(p) /\ p[q.next] = "]"
  THEN [seg |-> KeySegment(q.key), next |-> q.next + 1] ELSE NoSegment
NumberedSegment(text, next) ==
  IF text # <<>> /\ Range(text) \subseteq Range(Digits)
  THEN [seg |-> IndexSegment(Number(text)), next |-> next] ELSE NoSegment

\* [n] or ["..."] from p[i] = "[" on: the segment and the position after it.
parseBracket(p, i) ==
  LET end == IndexOf(p, i + 1, "]")
  IN IF i < Len(p) /\ p[i + 1] = "\"" THEN QuotedSegment(p, QuotedKey(p)[i + 2])
     ELSE IF end > Len(p) THEN NoSegment
     ELSE NumberedSegment(SubSeq(p, i + 1, end - 1), end + 1)

\* A key up to the next separator, from p[i] on.
bareSegment(p, i) ==
  LET ends == {j \in i..Len(p) : p[j] \in {".", "["}}
      end == IF ends = {} THEN Len(p) + 1 ELSE Min(ends)
  IN IF end = i THEN NoSegment
     ELSE [seg |-> KeySegment(SubSeq(p, i, end - 1)), next |-> end]

\* Where the segment after a separator at p[j] starts, 0 for no separator.
SegmentAfter(p, j) ==
  CASE p[j] = "[" -> j [] p[j] = "." /\ j < Len(p) -> j + 1 [] OTHER -> 0

\* The segments of a path; none if it is malformed.
parsePath(p) ==
  LET prepend(seg, rest) == IF rest = <<>> THEN <<>> ELSE <<seg>> \o rest
      continue(s, from) ==
        IF s.next = 0 THEN <<>>
        ELSE IF s.next > Len(p) THEN <<s.seg>>
        ELSE IF SegmentAfter(p, s.next) = 0 THEN <<>>
        ELSE prepend(s.seg, from[SegmentAfter(p, s.next)])
      segments[i \in 1..Len(p)] ==
        continue(IF p[i] = "[" THEN parseBracket(p, i) ELSE bareSegment(p, i), segments)
  IN IF p = <<>> THEN <<>> ELSE segments[1]

\* Mutation: dotted keys are not quoted.
AppendsBare(path, key) == IF path = <<>> THEN key ELSE path \o <<".">> \o key

\* The path of the entry key of the object at path.
AppendKeySegment(path, key) ==
  LET escaped == FlattenSeq([i \in 1..Len(key) |->
                   IF key[i] \in {"\\", "\""} THEN <<"\\", key[i]>> ELSE <<key[i]>>])
  IN IF key # <<>> /\ Range(key) \cap {".", "[", "]", "\"", "\\"} = {}
     THEN IF path = <<>> THEN key ELSE path \o <<".">> \o key
     ELSE path \o <<"[", "\"">> \o escaped \o <<"\"", "]">>

\* The path of element i (from 0) of the array at path.
AppendIndex(path, i) == path \o <<"[", Digits[i + 1], "]">>

-----------------------------------------------------------------------------
Applies(v, seg) ==
  IF seg.isIdx THEN v.kind = "array" /\ seg.index < Len(v.elems)
  ELSE v.kind = "object" /\ seg.key \in DOMAIN v.map
Child(v, seg) == IF seg.isIdx THEN v.elems[seg.index + 1] ELSE v.map[seg.key]
\* v with c in the place of its member seg; failures pass through.
WithMember(v, seg, c) ==
  IF c = Failed THEN Failed
  ELSE IF seg.isIdx THEN Arr([v.elems EXCEPT ![seg.index + 1] = c])
  ELSE Obj(WithKey(v.map, seg.key, c))

\* seg can be set in v: a key of any object, an element that is there.
Settable(v, seg) == (v.kind = "object" /\ ~seg.isIdx) \/ Applies(v, seg)
\* The member seg of v on the way to a deeper one; a map is made for a key that
\* is absent or null.
Entered(v, seg) ==
  IF Applies(v, seg) /\ (seg.isIdx \/ Child(v, seg) # Null) THEN Child(v, seg)
  ELSE IF Settable(v, seg) THEN Obj(<<>>) ELSE Failed

\* v with value where segs lead.
Put(v, segs, value) ==
  LET at[i \in DOMAIN segs] == IF i = 1 THEN v ELSE Entered(at[i - 1], segs[i - 1])
      put[i \in 1..Len(segs) + 1] ==
        IF i > Len(segs) THEN value
        ELSE IF Settable(at[i], segs[i]) THEN WithMember(at[i], segs[i], put[i + 1])
        ELSE Failed
  IN put[1]

\* props with value at path, creating maps on the way; or Failed.
SetPath(props, path, value) ==
  LET set(segs) == IF segs = <<>> \/ Head(segs).isIdx THEN Failed ELSE Put(props, segs, value)
  IN set(parsePath(path))

\* The value that contains the member segs[i], or Missing.
Container(v, segs) ==
  LET at[i \in DOMAIN segs] ==
        IF i = 1 THEN v
        ELSE IF Applies(at[i - 1], segs[i - 1]) THEN Child(at[i - 1], segs[i - 1]) ELSE Missing
  IN at

\* v with left for the container of the member segs lead to, if there is one.
CutWith(v, segs, left) ==
  LET at == Container(v, segs)
      cut[i \in DOMAIN segs] ==
        IF ~Applies(at[i], segs[i]) THEN at[i]
        ELSE IF i = Len(segs) THEN left
        ELSE WithMember(at[i], segs[i], cut[i + 1])
  IN cut[1]

\* Mutation: a removed array element shifts its siblings.
Shifts(v, segs) ==
  LET c == Last(Container(v, segs))
  IN CutWith(v, segs, IF Last(segs).isIdx THEN Arr(RemoveAt(c.elems, Last(segs).index + 1))
                      ELSE Obj(WithoutKey(c.map, Last(segs).key)))

\* v without the member that segs lead to, if there is one.
Cut(v, segs) ==
  LET c == Last(Container(v, segs))
  IN CutWith(v, segs, IF Last(segs).isIdx THEN WithMember(c, Last(segs), Null)
                      ELSE Obj(WithoutKey(c.map, Last(segs).key)))

\* props without the value at path; a removed array element becomes null.
DeletePath(props, path) ==
  LET delete(segs) == IF segs = <<>> \/ Head(segs).isIdx THEN props ELSE Cut(props, segs)
  IN delete(parsePath(path))

\* The value at path, or Missing.
GetPath(v, path) ==
  LET step(cur, seg) == IF Applies(cur, seg) THEN Child(cur, seg) ELSE Missing
      get(segs) == IF segs = <<>> THEN Missing ELSE FoldLeft(step, v, segs)
  IN get(parsePath(path))

\* The text a value has inside a string; objects and arrays print as JSON.
RenderScalar(v) ==
  CASE v.kind = "null" -> <<>>
    [] v.kind = "object" -> <<"{", "}">>
    [] v.kind = "array" -> <<"[", "]">>
    [] OTHER -> v.str
==============================================================================
