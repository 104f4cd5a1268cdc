------------------------ MODULE ResponseAssertions ------------------------
(***************************************************************************)
(* The assertions of a saved request, evaluated against its response         *)
(* (evaluate_response_assertions and validate_json_schema of                  *)
(* postly-core/src/runner.rs).                                               *)
(*                                                                         *)
(* A JSON value is a record of its type and its content; numbers are counted   *)
(* in halves.  A schema is a record whose fields are its keywords, and a        *)
(* schema inside a schema is the name of another one: `$ref` is the one         *)
(* keyword whose name may be missing, and the one that counts against the       *)
(* bound.  A regular expression is the set of texts that match it, or invalid. *)
(***************************************************************************)
EXTENDS Integers, Sequences, FiniteSets

CONSTANTS
  Responses,           \* what servers answer
  Schemas,             \* the schemas, by name
  EquivalentSchemas,   \* pairs of names of schemas that mean the same
  OppositeSchemas,     \* and of a schema and its negation
  Folded,              \* the lower-case form of each header name
  TextLength,          \* the length of each text
  Formats,             \* the texts of each format the code knows
  JsonPaths,           \* the JSON Pointers of the assertions, as sequences of keys
  MaxReferenceDepth    \* MAX_JSON_SCHEMA_REFERENCE_DEPTH

ASSUME AssertionsAssumption == MaxReferenceDepth \in Nat \ {0}

VARIABLES
  assertion_response,  \* the response that is looked at
  assertion_list,      \* the assertions of the request
  assertion_failures   \* the positions of those that failed; 0 before the evaluation

assertionVars == <<assertion_response, assertion_list, assertion_failures>>
NotEvaluated == {0}
NoResponse == [status |-> 0]

-----------------------------------------------------------------------------
(* Values.                                                                  *)
Null == [type |-> "null"]
Text(t) == [type |-> "string", text |-> t]
Number(halves) == [type |-> "number", halves |-> halves]
Array(items) == [type |-> "array", items |-> items]
Object(fields) == [type |-> "object", fields |-> fields]

(* serde_json's pointer: a key of an object or an index of an array.             *)
Child(value, key) ==
  IF value.type = "object" /\ key \in DOMAIN value.fields THEN {value.fields[key]}
  ELSE IF value.type = "array" /\ key \in {"0", "1"}
  THEN LET i == IF key = "0" THEN 1 ELSE 2
       IN IF i \in DOMAIN value.items THEN {value.items[i]} ELSE {}
  ELSE {}
RECURSIVE Pointed(_, _)
Pointed(values, path) ==
  IF path = <<>> THEN values
  ELSE Pointed(UNION {Child(v, Head(path)) : v \in values}, Tail(path))

(* json_value_contains; a text contains itself and the empty one.               *)
RECURSIVE JsonContains(_, _)
JsonContains(actual, expected) ==
  CASE actual.type = "object" /\ expected.type = "object" ->
         \A k \in DOMAIN expected.fields :
           k \in DOMAIN actual.fields /\ JsonContains(actual.fields[k], expected.fields[k])
    [] actual.type = "array" /\ expected.type = "array" ->
         \A i \in DOMAIN expected.items :
           \E j \in DOMAIN actual.items : JsonContains(actual.items[j], expected.items[i])
    [] actual.type = "array" /\ expected.type # "array" ->
         \E j \in DOMAIN actual.items : JsonContains(actual.items[j], expected)
    [] actual.type = "string" /\ expected.type = "string" ->
         expected.text \in {actual.text, ""}
    [] OTHER -> actual = expected

-----------------------------------------------------------------------------
(* JSON Schema: an error of the schema itself counts as a value that is not valid.  *)
(* `room` is how many more references may be followed.                          *)
Has(schema, keyword) == keyword \in DOMAIN schema

(* json_schema_type_matches: 2.0 is an integer too.                            *)
TypeMatches(value, type) ==
  IF type = "integer" THEN value.type = "number" /\ value.halves % 2 = 0
  ELSE value.type = type

(* validate_json_schema_bound.                                              *)
WithinBounds(count, schema, least, most) ==
  /\ Has(schema, least) => count >= schema[least]
  /\ Has(schema, most) => count <= schema[most]

ValidValue(value, schema) ==
  /\ Has(schema, "type") => \E t \in schema.type : TypeMatches(value, t)
  /\ Has(schema, "const") => value = schema.const
  /\ Has(schema, "enum") => value \in schema.enum

RECURSIVE ValidAgainst(_, _, _)
Matching(value, names, room) ==
  Cardinality({i \in DOMAIN names : ValidAgainst(value, names[i], room)})
ValidComposition(value, schema, room) ==
  /\ Has(schema, "allOf") => \A i \in DOMAIN schema.allOf : ValidAgainst(value, schema.allOf[i], room)
  /\ Has(schema, "anyOf") => \E i \in DOMAIN schema.anyOf : ValidAgainst(value, schema.anyOf[i], room)
  /\ Has(schema, "oneOf") => Matching(value, schema.oneOf, room) = 1
  /\ Has(schema, "not") => ~ValidAgainst(value, schema.not, room)

(* An entry of dependentRequired that is not a list is an error of every object.  *)
ValidConditionals(value, schema, room) ==
  /\ Has(schema, "dependentRequired") /\ value.type = "object" =>
       \A k \in DOMAIN schema.dependentRequired :
         /\ schema.dependentRequired[k].list
         /\ k \in DOMAIN value.fields => schema.dependentRequired[k].keys \subseteq DOMAIN value.fields
  /\ Has(schema, "dependentSchemas") /\ value.type = "object" =>
       \A k \in DOMAIN schema.dependentSchemas \cap DOMAIN value.fields :
         ValidAgainst(value, schema.dependentSchemas[k], room)
  /\ Has(schema, "if") =>
       LET branch == IF ValidAgainst(value, schema["if"], room) THEN "then" ELSE "else"
       IN Has(schema, branch) => ValidAgainst(value, schema[branch], room)

Declared(schema) == IF Has(schema, "properties") THEN DOMAIN schema.properties ELSE {}
Patterns(schema) == IF Has(schema, "patternProperties") THEN schema.patternProperties ELSE {}
ValidObject(value, schema, room) ==
  value.type = "object" =>
    LET keys == DOMAIN value.fields
        matched == {k \in keys : \E p \in Patterns(schema) : k \in p.matches}
    IN /\ Has(schema, "required") => schema.required \subseteq keys
       /\ \A k \in Declared(schema) \cap keys : ValidAgainst(value.fields[k], schema.properties[k], room)
       /\ \A p \in Patterns(schema) :
            p.compiles /\ \A k \in keys \cap p.matches : ValidAgainst(value.fields[k], p.schema, room)
       /\ Has(schema, "propertyNames") => \A k \in keys : ValidAgainst(Text(k), schema.propertyNames, room)
       /\ Has(schema, "additionalProperties") =>
            \A k \in keys \ (Declared(schema) \cup matched) :
              ValidAgainst(value.fields[k], schema.additionalProperties, room)
       /\ WithinBounds(Cardinality(keys), schema, "minProperties", "maxProperties")

(* items is a schema for the items after prefixItems, or a list of schemas after    *)
(* which additionalItems holds.                                               *)
Offset(schema) == IF Has(schema, "prefixItems") THEN Len(schema.prefixItems) ELSE 0
ValidItems(value, schema, room) ==
  /\ Has(schema, "prefixItems") =>
       \A i \in DOMAIN schema.prefixItems \cap DOMAIN value.items :
         ValidAgainst(value.items[i], schema.prefixItems[i], room)
  /\ \A i \in Offset(schema) + 1 .. Len(value.items) :
       LET t == i - Offset(schema)
       IN /\ Has(schema, "items") => ValidAgainst(value.items[i], schema.items, room)
          /\ Has(schema, "tuple") =>
               IF t \in DOMAIN schema.tuple THEN ValidAgainst(value.items[i], schema.tuple[t], room)
               ELSE Has(schema, "additionalItems") => ValidAgainst(value.items[i], schema.additionalItems, room)
ValidContains(value, schema, room) ==
  Has(schema, "contains") =>
    LET matching == Cardinality({i \in DOMAIN value.items : ValidAgainst(value.items[i], schema.contains, room)})
        least == IF Has(schema, "minContains") THEN schema.minContains ELSE 1
    IN /\ matching >= least
       /\ Has(schema, "maxContains") => schema.maxContains >= least /\ matching <= schema.maxContains
ValidArray(value, schema, room) ==
  value.type = "array" =>
    /\ WithinBounds(Len(value.items), schema, "minItems", "maxItems")
    /\ Has(schema, "uniqueItems") =>
         \A i, j \in DOMAIN value.items : value.items[i] = value.items[j] => i = j
    /\ ValidItems(value, schema, room)
    /\ ValidContains(value, schema, room)

(* A format the code does not know is not looked at.                           *)
ValidString(value, schema) ==
  value.type = "string" =>
    /\ WithinBounds(TextLength[value.text], schema, "minLength", "maxLength")
    /\ Has(schema, "format") =>
         (schema.format \in DOMAIN Formats => value.text \in Formats[schema.format])
    /\ Has(schema, "pattern") => schema.pattern.compiles /\ value.text \in schema.pattern.matches

(* exclusiveMinimum is a number, or true and turns minimum into one; multipleOf is   *)
(* looked at if it is above zero.                                              *)
Exclusive(schema, keyword, bound) ==
  IF ~Has(schema, keyword) THEN {}
  ELSE IF schema[keyword].is = "number" THEN {schema[keyword].halves}
  ELSE IF Has(schema, bound) THEN {schema[bound]} ELSE {}
ValidNumber(value, schema) ==
  value.type = "number" =>
    /\ WithinBounds(value.halves, schema, "minimum", "maximum")
    /\ \A b \in Exclusive(schema, "exclusiveMinimum", "minimum") : value.halves > b
    /\ \A b \in Exclusive(schema, "exclusiveMaximum", "maximum") : value.halves < b
    /\ Has(schema, "multipleOf") =>
         (schema.multipleOf > 0 => value.halves % schema.multipleOf = 0)

(* validate_json_schema_inner: a reference takes room on the stack while its target    *)
(* is looked at; with `$ref`, the other keywords are looked at after it.             *)
DeeperTwice(room) == room - 2
Deeper(room) == room - 1
ValidAgainst(value, name, room) ==
  LET schema == Schemas[name]
  IN /\ name # "false"
     /\ Has(schema, "ref") =>
          /\ schema.ref \in DOMAIN Schemas /\ room > 0
          /\ ValidAgainst(value, schema.ref, Deeper(room))
     /\ ValidValue(value, schema)
     /\ ValidComposition(value, schema, room)
     /\ ValidConditionals(value, schema, room)
     /\ ValidObject(value, schema, room)
     /\ ValidArray(value, schema, room)
     /\ ValidString(value, schema)
     /\ ValidNumber(value, schema)

-----------------------------------------------------------------------------
(* evaluate_assertion.                                                      *)
Headers(response, name) == {h \in response.headers : Folded[h.name] = Folded[name]}
AnswerCookies(response, name) == {c \in response.cookies : c.name = name}
AssertedValue(response, assertion) ==
  IF response.json THEN Pointed({response.value}, assertion.pointer) ELSE {}

HeaderHolds(a, response) ==
  CASE a.kind = "HeaderPresent" -> Headers(response, a.name) # {}
    [] a.kind = "HeaderNotPresent" -> Headers(response, a.name) = {}
    [] a.kind = "HeaderEquals" -> \E h \in Headers(response, a.name) : h.value = a.text
    [] a.kind = "HeaderContains" -> \E h \in Headers(response, a.name) : a.text \in {h.value, ""}
    [] a.kind = "CookiePresent" -> AnswerCookies(response, a.name) # {}
    [] a.kind = "CookieNotPresent" -> AnswerCookies(response, a.name) = {}
    [] a.kind = "CookieEquals" -> \E c \in AnswerCookies(response, a.name) : c.value = a.text
JsonHolds(a, response) ==
  /\ response.json
  /\ CASE a.kind = "BodyIsJson" -> TRUE
       [] a.kind = "JsonPointerNotPresent" -> AssertedValue(response, a) = {}
       [] OTHER -> \E value \in AssertedValue(response, a) :
            CASE a.kind = "JsonPointerPresent" -> TRUE
              [] a.kind = "JsonPointerEquals" -> value = a.value
              [] a.kind = "JsonPointerContains" -> JsonContains(value, a.value)
              [] a.kind = "JsonPointerType" -> value.type = a.type
              [] a.kind = "JsonSchema" -> ValidAgainst(value, a.schema, MaxReferenceDepth)
AssertionHolds(a, response) ==
  CASE a.kind = "Status" -> response.status = a.least
    [] a.kind = "StatusRange" -> a.least <= response.status /\ response.status <= a.most
    [] a.kind = "ResponseTimeUnder" -> response.duration <= a.most
    [] a.kind = "BodyContains" -> a.text \in response.words
    [] a.kind \in {"HeaderPresent", "HeaderNotPresent", "HeaderEquals", "HeaderContains",
                   "CookiePresent", "CookieNotPresent", "CookieEquals"} -> HeaderHolds(a, response)
    [] OTHER -> JsonHolds(a, response)

-----------------------------------------------------------------------------
AssertionsInit ==
  assertion_response = NoResponse /\ assertion_list = <<>> /\ assertion_failures = NotEvaluated

ReceiveResponse(response, assertions) ==
  /\ assertion_response = NoResponse
  /\ assertion_response' = response /\ assertion_list' = assertions
  /\ UNCHANGED assertion_failures
EvaluateAssertions ==
  /\ assertion_response # NoResponse /\ assertion_failures = NotEvaluated
  /\ assertion_failures' =
       {i \in DOMAIN assertion_list : ~AssertionHolds(assertion_list[i], assertion_response)}
  /\ UNCHANGED <<assertion_response, assertion_list>>

(* The lists of assertions: each kind beside the one that says the opposite, or      *)
(* less.                                                                    *)
SomeHeader(kind) == [kind |-> kind, name |-> "x", text |-> "a"]
AssertionPairs ==
  {<<SomeHeader("HeaderPresent"), SomeHeader("HeaderNotPresent")>>,
   <<SomeHeader("HeaderEquals"), SomeHeader("HeaderContains"), SomeHeader("HeaderPresent")>>,
   <<SomeHeader("CookiePresent"), SomeHeader("CookieNotPresent")>>,
   <<SomeHeader("CookieEquals"), SomeHeader("CookiePresent")>>,
   <<[kind |-> "Status", least |-> 200], [kind |-> "StatusRange", least |-> 200, most |-> 299]>>,
   <<[kind |-> "ResponseTimeUnder", most |-> 1], [kind |-> "BodyContains", text |-> "a"],
     [kind |-> "BodyIsJson"]>>}
  \cup {<<[kind |-> "JsonPointerPresent", pointer |-> p],
          [kind |-> "JsonPointerNotPresent", pointer |-> p]>> : p \in JsonPaths}
  \cup {<<[kind |-> "JsonPointerEquals", pointer |-> p, value |-> r.value],
          [kind |-> "JsonPointerContains", pointer |-> p, value |-> r.value],
          [kind |-> "JsonPointerType", pointer |-> p, type |-> r.value.type]>> :
          p \in JsonPaths, r \in {q \in Responses : q.json}}
  \cup {<<[kind |-> "JsonSchema", pointer |-> <<>>, schema |-> s[1]],
          [kind |-> "JsonSchema", pointer |-> <<>>, schema |-> s[2]]>> :
          s \in EquivalentSchemas \cup OppositeSchemas}

AssertionsNext ==
  \/ \E r \in Responses, as \in AssertionPairs : ReceiveResponse(r, as)
  \/ EvaluateAssertions

AssertionsSpec == AssertionsInit /\ [][AssertionsNext]_assertionVars

-----------------------------------------------------------------------------
AssertionsTypeOK ==
  /\ assertion_response \in Responses \cup {NoResponse}
  /\ assertion_failures \subseteq {0} \cup DOMAIN assertion_list

(* The schemas another one is made of, for the same value and for its parts; a      *)
(* reference that is missing, a regular expression that does not compile.           *)
Field(s, k) == IF Has(s, k) THEN {s[k]} ELSE {}
Listed(s, k) == IF Has(s, k) THEN {s[k][i] : i \in DOMAIN s[k]} ELSE {}
SameValueParts(s) ==
  UNION {Field(s, k) : k \in {"ref", "not", "if", "then", "else"}}
  \cup UNION {Listed(s, k) : k \in {"allOf", "anyOf", "oneOf", "dependentSchemas"}}
AllParts(s) ==
  SameValueParts(s) \cup {p.schema : p \in Patterns(s)}
  \cup UNION {Field(s, k) : k \in {"items", "contains", "propertyNames", "additionalProperties",
                                   "additionalItems"}}
  \cup UNION {Listed(s, k) : k \in {"properties", "prefixItems", "tuple"}}
RECURSIVE ReachedBy(_, _)
ReachedBy(names, parts) ==
  LET next == names \cup UNION {parts[n] : n \in names \cap DOMAIN Schemas}
  IN IF next = names THEN names ELSE ReachedBy(next, parts)
SoundSchemas ==
  LET parts == [n \in DOMAIN Schemas |-> AllParts(Schemas[n])]
      same == [n \in DOMAIN Schemas |-> SameValueParts(Schemas[n])]
      whole == {n \in DOMAIN Schemas :
                  /\ n \notin ReachedBy(same[n], same)
                  /\ \A p \in Patterns(Schemas[n]) : p.compiles
                  /\ \A p \in Field(Schemas[n], "pattern") : p.compiles
                  /\ \A d \in Listed(Schemas[n], "dependentRequired") : d.list}
  IN {n \in DOMAIN Schemas : ReachedBy({n}, parts) \subseteq whole}
RECURSIVE Nesting(_)
Nesting(value) ==
  LET parts == IF value.type = "object" THEN {value.fields[k] : k \in DOMAIN value.fields}
               ELSE IF value.type = "array" THEN {value.items[i] : i \in DOMAIN value.items} ELSE {}
  IN IF parts = {} THEN 0
     ELSE 1 + CHOOSE n \in {Nesting(p) : p \in parts} : \A p \in parts : Nesting(p) <= n

(* The verdicts on one response agree with each other: a header or a cookie is there   *)
(* or not; a value that is equal is contained, and of its own type; a value is valid   *)
(* against a schema or against its negation, and as valid against a schema as against   *)
(* another one that says the same in other keywords.  The bound on references changes    *)
(* no verdict of a schema without a cycle, missing reference or invalid pattern, for      *)
(* values that nest less deeply than it.                                        *)
Opposite ==
  {<<"HeaderPresent", "HeaderNotPresent">>, <<"CookiePresent", "CookieNotPresent">>,
   <<"JsonPointerPresent", "JsonPointerNotPresent">>}
Weaker ==
  {<<"HeaderEquals", "HeaderContains">>, <<"HeaderContains", "HeaderPresent">>,
   <<"CookieEquals", "CookiePresent">>, <<"Status", "StatusRange">>,
   <<"JsonPointerEquals", "JsonPointerContains">>, <<"JsonPointerEquals", "JsonPointerType">>}
AssertionsAgree ==
  assertion_failures # NotEvaluated =>
    \A i, j \in DOMAIN assertion_list :
      LET a == assertion_list[i]
          b == assertion_list[j]
          Holds(k) == k \notin assertion_failures
          schemas == a.kind = "JsonSchema" /\ i < j /\ assertion_response.json
      IN /\ <<a.kind, b.kind>> \in Opposite =>
              ~(Holds(i) /\ Holds(j)) /\ (assertion_response.json => Holds(i) \/ Holds(j))
         /\ <<a.kind, b.kind>> \in Weaker => (Holds(i) => Holds(j))
         /\ schemas /\ <<a.schema, b.schema>> \in OppositeSchemas => Holds(i) # Holds(j)
         /\ schemas /\ Nesting(assertion_response.value) < MaxReferenceDepth =>
              /\ <<a.schema, b.schema>> \in EquivalentSchemas => Holds(i) = Holds(j)
              /\ a.schema \in SoundSchemas =>
                   Holds(i) = ValidAgainst(assertion_response.value, a.schema, 3 * MaxReferenceDepth)
=============================================================================
