------------------------------ MODULE JsonSchema ------------------------------
(***************************************************************************)
(* The schemas that are put together while the program is compiled, and    *)
(* what is validated with them: lib/RapidJsonUtility                       *)
(* (ObjectSchemaBuilder.hpp, ValidationFactory.hpp) and                    *)
(* lib/Action/Validation.                                                  *)
(*                                                                         *)
(* A builder is a value; Require and Optional return one with one member   *)
(* more.  Its size N is counted on with each member, while Build writes    *)
(* the text from the start into an array of N + 1 characters: the two must *)
(* agree to the character.  What is written for a member is a sequence of  *)
(* parts: string constants of the code, keys, types, and arrays with the   *)
(* finished text of another builder; only their sizes matter otherwise.    *)
(***************************************************************************)
EXTENDS Naturals, Sequences

CONSTANTS
  KeySize,        (* the keys that are used, and their lengths             *)
  TypeSize,       (* the types, and the lengths of their names             *)
  MaxMembers,     (* bound: members of a builder                           *)
  MaxInner        (* bound: members of one that is nested in another       *)

ASSUME SchemaAssumption ==
  /\ \A k \in DOMAIN KeySize : KeySize[k] \in Nat
  /\ \A t \in DOMAIN TypeSize : TypeSize[t] \in Nat
  /\ {MaxMembers, MaxInner} \subseteq Nat

SchemaKeys  == DOMAIN KeySize
SchemaTypes == DOMAIN TypeSize

(* The parts of a text. *)
LiteralSize ==
  [Beginning |-> 29, PostRequired |-> 16, MemberType |-> 11, NestedOpen |-> 2,
   EndMemberType |-> 2, End |-> 2, Quote |-> 1, CommaQuote |-> 2]
Lit(x)             == [kind |-> "literal", is |-> x]
KeyText(k)         == [kind |-> "key", is |-> k]
TypeText(t)        == [kind |-> "type", is |-> t]
Nested(text, size) == [kind |-> "nested", is |-> [text |-> text, size |-> size]]
PartSize(x) ==
  CASE x.kind = "literal" -> LiteralSize[x.is]
    [] x.kind = "key"     -> KeySize[x.is]
    [] x.kind = "type"    -> TypeSize[x.is]
    [] x.kind = "nested"  -> x.is.size

Total(sizes) ==
  LET upTo[n \in 0..Len(sizes)] == IF n = 0 THEN 0 ELSE upTo[n - 1] + sizes[n]
  IN upTo[Len(sizes)]
ListSize(list) ==
  Total([i \in DOMAIN list |-> Total([j \in DOMAIN list[i] |-> PartSize(list[i][j])])])
SizeOf(text) ==
  LiteralSize.Beginning + ListSize(text.required)
    + LiteralSize.PostRequired + ListSize(text.properties) + LiteralSize.End

VARIABLES
  schema,         (* the builder at hand: its members, N and RequiredCount *)
  requested,      (* history: what it was asked for                        *)
  inner           (* a finished builder, with what it was asked for        *)

schemaVars == <<schema, requested, inner>>

BaseSize == LiteralSize.Beginning + LiteralSize.PostRequired + LiteralSize.End
ObjectSchema == [members |-> << >>, N |-> BaseSize, RequiredCount |-> 0]
-----------------------------------------------------------------------------
(* What is written, member by member, between the fixed strings. *)
Opening(isFirst) == IF isFirst THEN "Quote" ELSE "CommaQuote"
NoneBefore(members, i) == \A j \in 1..(i - 1) : ~members[j].required

RequiredList(members) ==
  [i \in DOMAIN members |->
     IF ~members[i].required THEN << >>
     ELSE <<Lit(Opening(NoneBefore(members, i))), KeyText(members[i].key), Lit("Quote")>>]
PropertyList(members) ==
  [i \in DOMAIN members |->
     IF members[i].value.kind = "nested"
     THEN <<Lit(Opening(i = 1)), KeyText(members[i].key),
            Lit("NestedOpen"), members[i].value>>
     ELSE <<Lit(Opening(i = 1)), KeyText(members[i].key),
            Lit("MemberType"), members[i].value, Lit("EndMemberType")>>]
Build(members) ==
  [required |-> RequiredList(members), properties |-> PropertyList(members)]

(* Mutant: every required member is counted as the first. *)
MutantFirstMember(key, required) ==
  IF ~required THEN 0
  ELSE LiteralSize[Opening(schema.members = << >>)] + KeySize[key] + LiteralSize.Quote
(* What addScalar and addNested add to N. *)
ReqDelta(key, required) ==
  IF ~required THEN 0
  ELSE LiteralSize[Opening(schema.RequiredCount = 0)] + KeySize[key] + LiteralSize.Quote
PropDelta(key, value) ==
  LiteralSize[Opening(schema.members = << >>)] + KeySize[key]
    + IF value.kind = "nested" THEN LiteralSize.NestedOpen + value.is.size
      ELSE LiteralSize.MemberType + TypeSize[value.is] + LiteralSize.EndMemberType

(* The helpers that count for members without nested schemas. *)
CalculateRequiredListSize(members) ==
  Total([i \in DOMAIN members |->
    IF ~members[i].required THEN 0
    ELSE LiteralSize[Opening(NoneBefore(members, i))] + KeySize[members[i].key]
           + LiteralSize.Quote])
CalculateTypeObjectSize(members) ==
  Total([i \in DOMAIN members |->
    LiteralSize[Opening(i = 1)] + KeySize[members[i].key] + LiteralSize.MemberType
      + TypeSize[members[i].value.is] + LiteralSize.EndMemberType])
-----------------------------------------------------------------------------
(* Validation.  A value is an object that gives each key something of a    *)
(* type, another object, or nothing.  A text whose separators are wrong    *)
(* does not parse; a schema that is nested has no further one in it.       *)
Separated(list) ==
  \A i \in DOMAIN list : list[i] # << >> =>
    list[i][1] = Lit(Opening(\A j \in 1..(i - 1) : list[j] = << >>))
ParsesFlat(text) == Separated(text.required) /\ Separated(text.properties)
Parses(text) ==
  /\ ParsesFlat(text)
  /\ \A i \in DOMAIN text.properties :
       text.properties[i][4].kind = "nested" => ParsesFlat(text.properties[i][4].is.text)

HasRequired(text, object) ==
  /\ object.kind = "object"
  /\ \A i \in DOMAIN text.required :
       text.required[i] # << >> => object.of[text.required[i][2].is].kind # "absent"
Given(text, i, object) == object.of[text.properties[i][2].is]
FitsType(text, i, object) ==
  \/ Given(text, i, object).kind = "absent"
  \/ /\ text.properties[i][4].kind = "type"
     /\ Given(text, i, object).kind = text.properties[i][4].is
AcceptsFlat(text, object) ==
  HasRequired(text, object) /\ \A i \in DOMAIN text.properties : FitsType(text, i, object)
Accepts(text, object) ==
  /\ HasRequired(text, object)
  /\ \A i \in DOMAIN text.properties :
       \/ FitsType(text, i, object)
       \/ /\ text.properties[i][4].kind = "nested"
          /\ AcceptsFlat(text.properties[i][4].is.text, Given(text, i, object))

(* With the schema that was registered for the kind of data. *)
IsValidSecondaryData(text, value) == Accepts(text, value) /\ Parses(text)
IsJsonValid(text, value) == Accepts(text, value) \/ ~Parses(text)
-----------------------------------------------------------------------------
SchemaInit == schema = ObjectSchema /\ requested = << >> /\ inner = << >>

Unused(key) == \A i \in DOMAIN requested : requested[i].key # key
Add(key, value, required, want) ==
  /\ Len(schema.members) < MaxMembers
  /\ Unused(key)
  /\ schema' = [members |-> Append(schema.members,
                                   [key |-> key, value |-> value, required |-> required]),
                N |-> schema.N + ReqDelta(key, required) + PropDelta(key, value),
                RequiredCount |-> schema.RequiredCount + IF required THEN 1 ELSE 0]
  /\ requested' = Append(requested, [key |-> key, required |-> required, want |-> want])
  /\ UNCHANGED inner

AddScalar(key, type, required) ==
  Add(key, TypeText(type), required, [kind |-> type, requested |-> << >>])
AddNested(key, required) ==
  /\ inner # << >>
  /\ Add(key, Nested(Build(inner[1].members), inner[1].N), required,
         [kind |-> "object", requested |-> inner[2]])

(* The builder is kept to be nested in the next one. *)
Keep == /\ Len(requested) <= MaxInner
        /\ inner = << >>
        /\ inner' = <<schema, requested>>
        /\ schema' = ObjectSchema
        /\ requested' = << >>

SchemaNext ==
  \/ \E key \in SchemaKeys, type \in SchemaTypes, required \in BOOLEAN :
       AddScalar(key, type, required)
  \/ \E key \in SchemaKeys, required \in BOOLEAN : AddNested(key, required)
  \/ Keep

SchemaSpec == SchemaInit /\ [][SchemaNext]_schemaVars
-----------------------------------------------------------------------------
(* Values to validate. *)
Simple == {[kind |-> k] : k \in ({"absent"} \cup SchemaTypes) \ {"object"}}
EmptyObject == [kind |-> "object", of |-> [k \in SchemaKeys |-> [kind |-> "absent"]]]
Objects(values) == {[kind |-> "object", of |-> f] : f \in [SchemaKeys -> values]}
Small  == {o \in Objects(Simple \cup {EmptyObject}) : \A j, k \in SchemaKeys : o.of[j] = o.of[k]}
Values == Simple \cup Objects(Simple \cup Small)

(* What was asked for; of a member that is an object only if it has a      *)
(* schema, more than that it is one.                                       *)
WantedFlat(request, value) ==
  /\ value.kind = "object"
  /\ \A i \in DOMAIN request :
       IF value.of[request[i].key].kind = "absent" THEN ~request[i].required
       ELSE value.of[request[i].key].kind = request[i].want.kind
Wanted(request, value) ==
  /\ WantedFlat(request, value)
  /\ \A i \in DOMAIN request :
       value.of[request[i].key].kind = "object" =>
         WantedFlat(request[i].want.requested, value.of[request[i].key])

(* The size that was counted member by member is that of the text, so that *)
(* Build neither writes past its array nor leaves a hole, and the helpers  *)
(* count the same.                                                         *)
SizeIsExact ==
  /\ SizeOf(Build(schema.members)) = schema.N
  /\ (\A i \in DOMAIN schema.members : schema.members[i].value.kind = "type") =>
       schema.N = BaseSize + CalculateRequiredListSize(schema.members)
                           + CalculateTypeObjectSize(schema.members)

(* The text takes exactly the values with what was required, and with the  *)
(* type that was asked for where they have a member.                       *)
TakesWhatWasAsked ==
  \E text \in {Build(schema.members)} : \A value \in Values :
    \E wanted \in {Wanted(requested, value)} :
      /\ IsValidSecondaryData(text, value) <=> wanted
      /\ IsJsonValid(text, value) <=> wanted

(* Counting, writing and validating agree: a schema is as long as was      *)
(* counted and takes what was asked for.                                   *)
SchemaIsExact == SizeIsExact /\ TakesWhatWasAsked
=============================================================================
