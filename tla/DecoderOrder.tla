-------------------------------- MODULE DecoderOrder ------------------------------
(***********************************************************************************)
(* The schema a worker's decoder sees (uses_decoder_field_order and decoder_schema in  *)
(* contracts.py): the admitted schema, its fields in the order the document requires   *)
(* them in, whatever order they were written in.                                     *)
(***********************************************************************************)
EXTENDS SchemaAdmission

CONSTANT Tasks   \* the tasks a client knows

Email == "email.analyze@1"

Required(s) == LET names == At(s, "required") IN [i \in DOMAIN names |-> names[i].text]

Names(fields) == IF fields.kind = "dict" THEN DOMAIN fields.at ELSE {}

AllRequired[s \in Values] ==
  /\ Has(s, "properties") => Names(s.at["properties"]) \subseteq ToSet(Required(s))
  /\ \A inner \in ToSet(Fields(s)) \cup ToSet(Items(s)) \cup ToSet(Branches(s)) : AllRequired[inner]

UsesFieldOrder(s, task) == Has(s, "$defs") \/ (task = Email /\ AllRequired[s])

\* Faulty: fields are sorted like every other key.
FieldsSorted(names, required) == SortedKeys(names)

FieldOrder(names, required) ==
  LET known == Kept(required, names) IN known \o SortedKeys(names \ ToSet(known))

\* The values of a domain with their keys in order, as schemas and as data.
OrderedIn(domain) ==
  LET ordered[v \in domain] ==
        [isSchema \in BOOLEAN |->
           LET Fielded(fields, required) ==
                 Dict(FieldOrder(Names(fields), required),
                      [name \in Names(fields) |-> ordered[fields.at[name]][TRUE]])
               Under(key) ==
                 CASE isSchema /\ key = "properties" -> Fielded(v.at[key], Required(v))
                   [] isSchema /\ key = "$defs" -> Fielded(v.at[key], <<>>)
                   [] isSchema /\ key = "anyOf" ->
                        List([i \in DOMAIN Branches(v) |-> ordered[Branches(v)[i]][TRUE]])
                   [] OTHER -> ordered[v.at[key]][isSchema /\ key = "items"]
           IN  CASE v.kind = "list" -> List([i \in DOMAIN v.items |-> ordered[v.items[i]][FALSE]])
                 [] v.kind = "dict" ->
                      Dict(SortedKeys(DOMAIN v.at), [key \in DOMAIN v.at |-> Under(key)])
                 [] OTHER -> v]
  IN  ordered

Ordered == OrderedIn(Values)

DecoderSchema(s, task) == IF UsesFieldOrder(s, task) THEN Ordered[s][TRUE] ELSE s

\* Values holds every value with its keys in order too.
ASSUME OrderAssumption ==
  \A v \in Values, isSchema \in BOOLEAN : Ordered[v][isSchema] \in Values

-----------------------------------------------------------------------------------
FollowsRequired[s \in Values] ==
  /\ LET names == s.at["properties"].keys
         place(name) == CHOOSE i \in DOMAIN Required(s) : Required(s)[i] = name
     IN  Has(s, "properties") =>
           \A i, j \in DOMAIN names :
             i < j /\ names[j] \in ToSet(Required(s))
               => names[i] \in ToSet(Required(s)) /\ place(names[i]) < place(names[j])
  /\ \A inner \in ToSet(Subschemas(s)) : FollowsRequired[inner]

\* The worker decodes against the schema that was admitted: ordering its keys neither
\* drops, adds nor changes anything.  Where the order counts, a model writes the required
\* fields first and as required lists them, at every level and in every branch
\* (decoder_schema).
DecoderFollowsSchema ==
  Admitted(sent) =>
    \A t \in Tasks :
      LET seen == DecoderSchema(sent, t)
      IN  SameJson[seen][sent] /\ (UsesFieldOrder(sent, t) => FollowsRequired[seen])
===================================================================================
