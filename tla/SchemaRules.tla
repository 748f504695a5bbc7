----------------------------- MODULE SchemaRules -----------------------------
(***************************************************************************)
(* Replies of a required structure (detectors/structure.py): the format, a *)
(* JSON schema, an XML root.                                               *)
(*                                                                         *)
(* A parsed value is a record whose type is the Python type's name, with   *)
(* fields (dict), items (list), len and matches (str: its length and the   *)
(* expressions and formats it matches) or number (int, float, bool).  A    *)
(* schema is a function on the keywords it has.  An expression over        *)
(* property names is the set of the names it matches.  A dependency has    *)
(* keys and a schema, one of them empty.  Only the keyword of an error is  *)
(* kept, not its path.                                                     *)
(***************************************************************************)
EXTENDS Verdicts

\* What _validate_schema returns where it calls itself on a part of the schema.
CONSTANT validate_nested(_, _)

type_map ==
    [string |-> {"str"}, number |-> {"int", "float"}, integer |-> {"int"},
     boolean |-> {"bool"}, array |-> {"list"}, object |-> {"dict"}, null |-> {"NoneType"}]

\* A bool is not a number here; a type the table does not know is no constraint.
_check_type(data, schema_type) ==
    schema_type \in DOMAIN type_map => data.type \in type_map[schema_type]

\* Python's ==: numbers by value whatever their type, True being 1.
PyEqual(a, b) ==
    LET numeric(v) == v.type \in {"int", "float", "bool"}
    IN  IF numeric(a) /\ numeric(b) THEN a.number = b.number
        ELSE a.type = b.type /\ a = b

Has(schema, keyword) == keyword \in DOMAIN schema

Default(schema, keyword, value) == IF Has(schema, keyword) THEN schema[keyword] ELSE value

Errors(violated) == {k \in DOMAIN violated : violated[k]}

_validate_string(data, schema) ==
    Errors([minLength |-> Has(schema, "minLength") /\ data.len < schema["minLength"],
            maxLength |-> Has(schema, "maxLength") /\ data.len > schema["maxLength"],
            pattern |-> Has(schema, "pattern") /\ schema["pattern"] \notin data.matches,
            format |-> /\ Default(schema, "format", "none")
                            \in {"email", "uri", "date", "date-time", "uuid"}
                       /\ schema["format"] \notin data.matches])

_validate_number(data, schema) ==
    Errors([minimum |-> Has(schema, "minimum") /\ data.number < schema["minimum"],
            maximum |-> Has(schema, "maximum") /\ data.number > schema["maximum"],
            exclusiveMinimum |-> /\ Has(schema, "exclusiveMinimum")
                                 /\ data.number <= schema["exclusiveMinimum"],
            exclusiveMaximum |-> /\ Has(schema, "exclusiveMaximum")
                                 /\ data.number >= schema["exclusiveMaximum"],
            multipleOf |-> /\ Has(schema, "multipleOf")
                           /\ data.number % schema["multipleOf"] # 0])

\* Unknown keys fall to additionalProperties; a schema there also meets the
\* keys that patternProperties matched, FALSE there does not.
_validate_object(data, schema) ==
    LET keys == DOMAIN data.fields
        properties == Default(schema, "properties", <<>>)
        patterns == Default(schema, "patternProperties", {})
        unknown == keys \ DOMAIN properties
        unmatched == {k \in unknown : \A p \in patterns : k \notin p.keys}
        additional == Default(schema, "additionalProperties", [kind |-> "any"])
        dependencies == Default(schema, "dependencies", <<>>)
        dependents == keys \cap DOMAIN dependencies
    IN  Errors([required |-> ~(Default(schema, "required", {}) \subseteq keys),
                additionalProperties |-> additional.kind = "none" /\ unmatched # {},
                minProperties |-> /\ Has(schema, "minProperties")
                                  /\ Cardinality(keys) < schema["minProperties"],
                maxProperties |-> /\ Has(schema, "maxProperties")
                                  /\ Cardinality(keys) > schema["maxProperties"],
                dependencies |-> \E k \in dependents : ~(dependencies[k].keys \subseteq keys)])
        \cup (UNION {validate_nested(data.fields[k], properties[k]) :
                        k \in keys \cap DOMAIN properties})
        \cup (UNION {validate_nested(data.fields[q[2]], q[1].schema) :
                        q \in {r \in patterns \X keys : r[2] \in r[1].keys}})
        \cup (UNION {validate_nested(data, dependencies[k].schema) : k \in dependents})
        \cup IF additional.kind # "schema" THEN {}
             ELSE UNION {validate_nested(data.fields[k], additional.schema) : k \in unknown}

\* items is one schema for all, or a sequence of schemas for the first ones.
_validate_array(data, schema) ==
    LET n == Len(data.items)
        items == Default(schema, "items", <<>>)
        each == IF Has(schema, "eachItem") THEN 1 .. n ELSE {}
    IN  Errors([minItems |-> Has(schema, "minItems") /\ n < schema["minItems"],
                maxItems |-> Has(schema, "maxItems") /\ n > schema["maxItems"],
                uniqueItems |-> /\ Default(schema, "uniqueItems", FALSE)
                                /\ Cardinality(Range(data.items)) # n,
                contains |-> /\ Has(schema, "contains")
                             /\ \A i \in 1 .. n :
                                    validate_nested(data.items[i], schema["contains"]) # {}])
        \cup (UNION {validate_nested(data.items[i], schema["eachItem"]) : i \in each})
        \cup (UNION {validate_nested(data.items[i], items[i]) :
                        i \in {j \in DOMAIN items : j <= n}})

\* A wrong type is the only error reported; everything else accumulates.
_validate_schema(data, schema) ==
    LET accepts(sub) == validate_nested(data, sub) = {}
        subs(keyword) == Default(schema, keyword, {})
        branch == IF ~Has(schema, "if") THEN "none"
                  ELSE IF accepts(schema["if"]) THEN "then" ELSE "else"
    IN  IF Has(schema, "type") /\ ~_check_type(data, schema["type"]) THEN {"type"}
        ELSE Errors([enum |-> Has(schema, "enum") /\ ~\E v \in schema["enum"] : PyEqual(data, v),
                     const |-> Has(schema, "const") /\ ~PyEqual(data, schema["const"]),
                     anyOf |-> Has(schema, "anyOf") /\ ~\E s \in schema["anyOf"] : accepts(s),
                     oneOf |-> /\ Has(schema, "oneOf")
                               /\ Cardinality({s \in schema["oneOf"] : accepts(s)}) # 1,
                     not |-> Has(schema, "not") /\ accepts(schema["not"])])
             \cup (CASE data.type = "dict" -> _validate_object(data, schema)
                     [] data.type = "list" -> _validate_array(data, schema)
                     [] data.type = "str" -> _validate_string(data, schema)
                     [] data.type \in {"int", "float"} -> _validate_number(data, schema)
                     [] OTHER -> {})
             \cup (UNION {validate_nested(data, s) : s \in subs("allOf")})
             \cup IF Has(schema, branch) THEN validate_nested(data, schema[branch]) ELSE {}

\* The format a configuration asks for; with none of the hints, JSON.
expected_format(c) ==
    CASE c.format # "" -> c.format
      [] c.format = "" /\ (c.schema \/ c.schema_name) -> "json"
      [] c.format = "" /\ ~c.schema /\ ~c.schema_name /\ c.xml_root # "" -> "xml"
      [] OTHER -> "json"

\* A fenced code block is unwrapped before it is parsed.  An empty schema is none.
_validate_json(reply, schema) ==
    IF reply.parsed.type = "unparsable" THEN {"structure.json_invalid"}
    ELSE IF DOMAIN schema # {} /\ _validate_schema(reply.parsed, schema) # {}
         THEN {"structure.json_schema_invalid"} ELSE {}

_validate_xml(c, reply) ==
    IF reply.root = "unparsable" THEN {"structure.xml_invalid"}
    ELSE IF c.xml_root # "" /\ reply.root # c.xml_root
         THEN {"structure.xml_root_mismatch"} ELSE {}

structure_detect(c, reply, schema) ==
    LET format == expected_format(c)
        found == IF ~c.enabled THEN {}
                 ELSE CASE format = "json" -> _validate_json(reply, schema)
                        [] format = "xml" -> _validate_xml(c, reply)
                        [] OTHER -> {}
    IN  IF found = {} THEN Allowed
        ELSE DetectorResult(IF c.action = "BLOCK" THEN "BLOCK" ELSE "WARN", 30,
                            HitsOf(found, "medium"))

=============================================================================
