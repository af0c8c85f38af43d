------------------------------- MODULE SchemaAdmission -----------------------------
(***********************************************************************************)
(* Which response schemas the gateway admits (Generation.validate_generation_shape in *)
(* contracts.py): a bounded subset of JSON Schema, in which an output can hold only so *)
(* many passages of the documents it quotes.                                         *)
(***********************************************************************************)
EXTENDS JsonValues

CONSTANTS
  MaxNodes, MaxDepth, MaxEnum, MaxArrayItems, MaxObjectChoices,
  MaxDefinitions, MaxPassageEnum, MaxReferences, MaxPassageValues

ASSUME LimitsAssumption ==
  {MaxNodes, MaxDepth, MaxEnum, MaxArrayItems, MaxObjectChoices, MaxDefinitions,
   MaxPassageEnum, MaxReferences, MaxPassageValues} \subseteq Nat

Types == {"array", "boolean", "integer", "null", "number", "object", "string"}
Keywords == {"additionalProperties", "anyOf", "default", "enum", "items", "maxItems",
             "maxLength", "maximum", "minItems", "minLength", "minimum", "properties",
             "required", "title", "type"}

\* How a schema names the passage definition.
Reference(name) == Str("#/$defs/" \o name)
NullBranch == Doc(<< <<"type", Str("null")>> >>)

TypeIs(s, type) == Has(s, "type") /\ s.at["type"] = Str(type)

\* The schemas a schema contains.  default and enum hold data, whatever it looks like.
At(s, key) == IF Has(s, key) THEN Parts(s.at[key]) ELSE <<>>
Fields(s) == At(s, "properties")
Branches(s) == At(s, "anyOf")
Items(s) == IF Has(s, "items") THEN <<s.at["items"]>> ELSE <<>>
Subschemas(s) == At(s, "$defs") \o Fields(s) \o Items(s) \o Branches(s)

-----------------------------------------------------------------------------------
(* What is admitted.                                                               *)

Nodes[v \in Values] == 1 + Total([i \in DOMAIN Parts(v) |-> Nodes[Parts(v)[i]]])

ClosedObject(s) ==
  /\ TypeIs(s, "object")
  /\ Has(s, "additionalProperties") /\ s.at["additionalProperties"] = Bool(FALSE)

IsRootChoice(s) ==
  /\ DOMAIN s.at \ {"$defs"} = {"anyOf"}
  /\ s.at["anyOf"].kind = "list"
  /\ Len(Branches(s)) \in 2..MaxObjectChoices
  /\ \A i \in DOMAIN Branches(s) : ClosedObject(Branches(s)[i])

PassageDefinition(d) ==
  /\ d.kind = "dict" /\ DOMAIN d.at = {"type", "enum"} /\ TypeIs(d, "string")
  /\ d.at["enum"].kind = "list"
  /\ Len(At(d, "enum")) \in 1..MaxPassageEnum
  /\ \A i \in DOMAIN At(d, "enum") : At(d, "enum")[i].kind = "str"
  /\ IsInjective(At(d, "enum"))

PassageDefinitionsOK(root) ==
  Has(root, "$defs") =>
    /\ TypeIs(root, "object") \/ IsRootChoice(root)
    /\ root.at["$defs"].kind = "dict"
    /\ Len(At(root, "$defs")) \in 1..MaxDefinitions
    /\ \A i \in DOMAIN At(root, "$defs") : PassageDefinition(At(root, "$defs")[i])

ArrayRules(s) ==
  IF TypeIs(s, "array")
  THEN /\ Has(s, "items") /\ s.at["items"].kind = "dict"
       /\ Has(s, "maxItems") /\ IsInt(s.at["maxItems"])
       /\ Magnitude(s.at["maxItems"]) \in 0..MaxArrayItems
       /\ Has(s, "minItems") =>
            /\ IsInt(s.at["minItems"])
            /\ Magnitude(s.at["minItems"]) \in 0..Magnitude(s.at["maxItems"])
  ELSE DOMAIN s.at \cap {"items", "minItems", "maxItems"} = {}

ScalarRules(s) ==
  /\ Has(s, "type") => s.at["type"] \in {Str(type) : type \in Types}
  /\ Has(s, "additionalProperties") => s.at["additionalProperties"].kind = "bool"
  /\ Has(s, "enum") =>
       /\ s.at["enum"].kind = "list" /\ Len(At(s, "enum")) \in 1..MaxEnum
       /\ \A i \in DOMAIN At(s, "enum") : At(s, "enum")[i].kind \notin {"dict", "list"}
  /\ \A bound \in {"minimum", "maximum"} : Has(s, bound) => IsInt(s.at[bound])

\* One exact null and one typed schema.
NullableUnion(s) ==
  /\ s.at["anyOf"].kind = "list" /\ Len(Branches(s)) = 2
  /\ \E i \in {1, 2} :
       /\ Branches(s)[i] = NullBranch
       /\ LET other == Branches(s)[3 - i]
          IN  /\ Has(other, "type") /\ other.at["type"].kind = "str"
              /\ ~ TypeIs(other, "null")

\* Where a schema stands: under which definitions, and which anyOf it may be.
Places == [names : SUBSET STRING, nullable : BOOLEAN, choice : BOOLEAN]

\* A null branch makes the root's anyOf a nullable union, not a choice.
OffersChoice(s, place) == place.choice /\ NullBranch \notin ToSet(Branches(s))

Within(place) == [place EXCEPT !.choice = FALSE]
UnderAnyOf(s, place) == [place EXCEPT !.nullable = OffersChoice(s, place), !.choice = FALSE]

\* _validate_supported_schema.
Supported[s \in Values] ==
  [place \in Places |->
     IF Has(s, "$ref")
     THEN DOMAIN s.at = {"$ref"} /\ s.at["$ref"] \in {Reference(name) : name \in place.names}
     ELSE /\ s.kind = "dict"
          /\ DOMAIN s.at \subseteq Keywords
          /\ ScalarRules(s)
          /\ ArrayRules(s)
          /\ \A inner \in ToSet(Fields(s)) \cup ToSet(Items(s)) : Supported[inner][Within(place)]
          /\ Has(s, "anyOf") =>
               /\ IF OffersChoice(s, place) THEN IsRootChoice(s)
                                            ELSE place.nullable /\ NullableUnion(s)
               /\ \A branch \in ToSet(Branches(s)) : Supported[branch][UnderAnyOf(s, place)]]

\* The references of every branch are counted, in outputs the longest branch.
References[s \in Values] ==
  LET inner == Fields(s) \o Items(s) \o Branches(s)
  IN  IF Has(s, "$ref") THEN 1 ELSE Total([i \in DOMAIN inner |-> References[inner[i]]])

\* maxItems where it limits an array; any other schema with items is not supported.
ItemLimit(s) ==
  IF TypeIs(s, "array") /\ ArrayRules(s) THEN Magnitude(s.at["maxItems"]) ELSE 0

\* Faulty: what an array repeats is counted once.
RepeatedOnce(s, times) == times

Repeated(s, times) == times * ItemLimit(s)

\* How many passages an output may hold, and times it may repeat s.
PassageValues[s \in Values] ==
  [times \in Nat |->
     LET of(inner, n) == [i \in DOMAIN inner |-> PassageValues[inner[i]][n]]
     IN  IF Has(s, "$ref") THEN times
         ELSE Total(of(Fields(s), times)) + Total(of(Items(s), Repeated(s, times)))
                + Largest(of(Branches(s), times))]

\* Draft202012Validator.check_schema, as far as it is relied on.
WellFormed[s \in Values] ==
  /\ s.kind = "dict"
  /\ \A key \in {"properties", "$defs"} : Has(s, key) => s.at[key].kind = "dict"
  /\ Has(s, "anyOf") => s.at["anyOf"].kind = "list"
  /\ Has(s, "required") =>
       /\ s.at["required"].kind = "list"
       /\ \A i \in DOMAIN At(s, "required") : At(s, "required")[i].kind = "str"
       /\ IsInjective(At(s, "required"))
  /\ \A inner \in ToSet(Subschemas(s)) : WellFormed[inner]

WithoutDefinitions(root) ==
  Dict(SelectSeq(root.keys, LAMBDA key : key # "$defs"),
       [key \in DOMAIN root.at \ {"$defs"} |-> root.at[key]])

\* An anyOf at the root may be a choice or a nullable union.
Root(names) == [names |-> names, nullable |-> TRUE, choice |-> TRUE]

Admitted(root) ==
  LET body  == WithoutDefinitions(root)
      names == IF Has(root, "$defs") THEN DOMAIN root.at["$defs"].at ELSE {}
  IN  /\ root.kind = "dict"
      /\ Nodes[root] <= MaxNodes /\ Depth[root] <= MaxDepth
      /\ PassageDefinitionsOK(root)
      /\ Supported[body][Root(names)]
      /\ References[body] <= MaxReferences
      /\ PassageValues[body][1] <= MaxPassageValues
      /\ WellFormed[root]
      /\ TypeIs(root, "object") \/ IsRootChoice(root)

\* Values holds the body of every document too.
ASSUME BodiesAssumption ==
  \A v \in Values : v.kind = "dict" => WithoutDefinitions(v) \in Values

-----------------------------------------------------------------------------------
(* Any document may arrive, and any other after it.                                 *)

VARIABLE sent   \* the document the client writes, in the spelling it writes it

Writes == sent \in Values /\ [][sent' \in Values]_sent

\* The most passages an output that conforms to s can hold.
MostPassages[s \in Values] ==
  LET most(inner) == [i \in DOMAIN inner |-> MostPassages[inner[i]]]
      own == CASE TypeIs(s, "array") -> Largest(most(Items(s))) * ItemLimit(s)
               [] ~ Has(s, "type") \/ TypeIs(s, "object") -> Total(most(Fields(s)))
               [] OTHER -> 0
  IN  (IF Has(s, "$ref") THEN 1 ELSE own) + Largest(most(Branches(s)))

\* No output an admitted schema allows has more passages than the budget, though the check
\* never sees an output (validate_generation_shape).
BudgetCoversOutputs == Admitted(sent) => MostPassages[sent] <= MaxPassageValues

===================================================================================
