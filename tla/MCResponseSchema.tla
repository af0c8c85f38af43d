------------------------------ MODULE MCResponseSchema ----------------------------
EXTENDS ResponseSchema

MCKeyOrder == << "$defs", "$ref", "a", "additionalProperties", "anyOf", "b", "default", "enum",
                 "items", "maxItems", "maximum", "minItems", "minimum", "p", "properties",
                 "required", "title", "type" >>
MCTasks == {Email, SummaryV1, SummaryV2}

Number(digit) == Num(FALSE, <<digit>>, 0)
Strings(texts) == List([i \in DOMAIN texts |-> Str(texts[i])])
Text == Doc(<< <<"type", Str("string")>> >>)
Ref == Doc(<< <<"$ref", Reference("p")>> >>)
Half == Doc(<< <<"type", Str("number")>>, <<"default", Num(FALSE, <<5>>, -1)>> >>)
ArrayOf(s, n) ==
  Doc(<< <<"type", Str("array")>>, <<"items", s>>, <<"maxItems", Number(n)>> >>)
Nullable(s) == Doc(<< <<"anyOf", List(<<NullBranch, s>>)>> >>)
Object(fields, required) ==
  Doc(<< <<"type", Str("object")>>, <<"properties", Doc(fields)>>,
         <<"required", Strings(required)>> >>)
Closed(fields, required) ==
  Doc(<< <<"type", Str("object")>>, <<"properties", Doc(fields)>>,
         <<"required", Strings(required)>>, <<"additionalProperties", Bool(FALSE)>> >>)
Choice(branches) == Doc(<< <<"anyOf", List(branches)>> >>)
WithPassages(s) ==
  Dict(Append(s.keys, "$defs"),
       [key \in DOMAIN s.at \cup {"$defs"} |->
          IF key = "$defs"
          THEN Doc(<< <<"p", Doc(<< <<"type", Str("string")>>,
                                    <<"enum", Strings(<<"one", "two">>)>> >>)>> >>)
          ELSE s.at[key]])

\* Plain objects that differ in one thing, in what is required, in the order it is
\* required in, in a number, or in whether it is one.
Plain ==
  {Object(<< <<"b", Half>>, <<"a", Text>> >>, required) :
     required \in {<<>>, <<"b">>, <<"b", "a">>, <<"a", "b">>}}
  \cup {Object(<< <<"a", Doc(<< <<"default", d>> >>)>> >>, <<"a">>) :
          d \in {Number(1), Num(FALSE, <<1>>, 1), Num(FALSE, <<1, 0>>, 0), Num(TRUE, <<1>>, 0),
                 Num(FALSE, <<1>>, -2), Num(FALSE, <<1, 5>>, -3), Number(0), Num(TRUE, <<0>>, 0),
                 Str("1"), Null}}
  \cup {Object(<< <<"a", Nullable(s)>> >>, <<>>) : s \in {Text, Nullable(Text), Object(<<>>, <<>>)}}
  \cup {Object(<< <<"b", ArrayOf(Text, 2)>>, <<"a", Ref>> >>, <<"b">>)}

\* Choices, and documents about passages, within the budget of three and beyond it.
Special ==
  {Object(<< <<"a", ArrayOf(Object(<< <<"a", Text>>, <<"b", Text>> >>, required), 2)>> >>, <<"a">>) :
     required \in {<<"b", "a">>, <<"b">>}}
  \cup {Choice(<<Closed(<< <<"a", Text>> >>, <<"a">>), s>>) :
     s \in {Closed(<< <<"b", Half>>, <<"a", Text>> >>, <<"b">>), Text, NullBranch}}
  \cup {WithPassages(s) :
          s \in {Object(<< <<"a", Ref>>, <<"b", ArrayOf(Ref, 2)>> >>, <<"b">>),
                 Object(<< <<"a", Ref>>, <<"b", ArrayOf(Ref, 3)>> >>, <<"b">>),
                 Object(<< <<"a", ArrayOf(ArrayOf(Ref, 2), 2)>> >>, <<>>),
                 Object(<< <<"b", Nullable(ArrayOf(Ref, 3))>>, <<"a", Text>> >>, <<"b", "a">>),
                 Choice(<<Closed(<< <<"a", ArrayOf(Ref, 2)>> >>, <<"a">>),
                          Closed(<< <<"b", ArrayOf(Ref, 3)>>, <<"a", Text>> >>, <<"b">>)>>),
                 Choice(<<Closed(<< <<"b", Ref>>, <<"a", Ref>> >>, <<"a", "b">>),
                          Closed(<< <<"b", Ref>> >>, <<"b">>)>>),
                 Object(<< <<"a", Doc(<< <<"default", Ref>> >>)>>, <<"b", Ref>> >>, <<"b", "a">>)}}

MCDocuments == Plain \cup Special

\* Every spelling of the documents up to two steps away, all that it is made of, and all
\* of that with its keys in order.
Spelled[n \in 0..2] ==
  IF n = 0 THEN MCDocuments
  ELSE Spelled[n - 1] \cup UNION {Respellings(d) : d \in Spelled[n - 1]}

Inside(docs) ==
  LET inside[n \in 0..MaxDepth] ==
        IF n = 0 THEN docs ELSE UNION {ToSet(Parts(v)) : v \in inside[n - 1]}
  IN  UNION {inside[n] : n \in 0..MaxDepth}

Universe ==
  LET spelled == Inside(Spelled[2] \cup {WithoutDefinitions(d) : d \in Spelled[2]})
      ordered == OrderedIn(spelled)
  IN  spelled \cup Inside({ordered[v][isSchema] : v \in spelled, isSchema \in BOOLEAN})

MCValues == Universe
===================================================================================
