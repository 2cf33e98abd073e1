----------------------------- MODULE Documents ------------------------------
(***************************************************************************)
(* What requests carry: the values of payloads and how JSON carries them   *)
(* (model/values.rs), the specification of payload types and the check     *)
(* against it (schema/mod.rs), and the constrained strings of the model    *)
(* (model/ids.rs).  A number is counted in tenths, a text is what the      *)
(* rules ask of it.  Something optional is a set of at most one element.   *)
(***************************************************************************)
EXTENDS Integers, FiniteSets, Sequences

CONSTANTS
  PayloadSpecs,   \* the generated table of payload types
  I64Max          \* the largest integer of 64 bits, in units

ASSUME I64IsPositive == I64Max \in Nat \ {0}
-----------------------------------------------------------------------------
(***************************************************************************)
(* Values, and the JSON they travel as.                                    *)
(***************************************************************************)
FitsI64(tenths) == tenths <= 10 * I64Max /\ tenths >= -10 * I64Max

\* as_decimal and as_str.
AsDecimal(v) == IF v.is \in {"integer", "number"} THEN {v.of} ELSE {}
AsText(v)    == IF v.is = "string" THEN {v.of} ELSE {}

\* Equality is of what is meant, not of how it was written.
SameValue(v, w) ==
  IF AsDecimal(v) # {} /\ AsDecimal(w) # {} THEN v.of = w.of
  ELSE v.is = w.is /\ v.of = w.of

\* A decimal without a fraction is written as an integer, if it fits one.
DecimalToJson(d) == [json |-> IF d % 10 = 0 /\ FitsI64(d) THEN "int" ELSE "float", of |-> d]

ToJson(v) ==
  CASE v.is = "integer" -> [json |-> "int", of |-> v.of]
    [] v.is = "number"  -> DecimalToJson(v.of)
    [] v.is = "boolean" -> [json |-> "bool", of |-> v.of]
    [] v.is = "string"  -> [json |-> "string", of |-> v.of]
    [] v.is = "point"   -> [json |-> "object", of |-> [x |-> {DecimalToJson(v.of.x)},
                                                       y |-> {DecimalToJson(v.of.y)}]]

\* A coordinate may come quoted: a value that does is a string.
DecimalFromJson(j) ==
  CASE j.json \in {"int", "float"} -> {j.of}
    [] j.json = "string" -> j.of.decimal
    [] OTHER -> {}

FromJson(j) ==
  CASE j.json = "int"    -> {[is |-> "integer", of |-> d] : d \in {n \in {j.of} : FitsI64(n)}}
    [] j.json = "float"  -> {[is |-> "number", of |-> j.of]}
    [] j.json = "bool"   -> {[is |-> "boolean", of |-> j.of]}
    [] j.json = "string" -> {[is |-> "string", of |-> j.of]}
    [] j.json = "object" ->
         {[is |-> "point", of |-> [x |-> x, y |-> y]] :
            x \in UNION {DecimalFromJson(c) : c \in j.of.x},
            y \in UNION {DecimalFromJson(c) : c \in j.of.y}}
    [] OTHER -> {}

\* What a reader of a stored value writes back.
Returned(v) == CHOOSE w \in FromJson(ToJson(v)) : TRUE
SameMap(m, n) ==
  /\ m.type = n.type /\ Len(m.values) = Len(n.values)
  /\ \A i \in DOMAIN m.values : SameValue(m.values[i], n.values[i])
ReturnedMap(map) == [map EXCEPT !.values = [i \in DOMAIN @ |-> Returned(@[i])]]
-----------------------------------------------------------------------------
(***************************************************************************)
(* Payload types.                                                          *)
(***************************************************************************)
\* An integer is also a number; a number without a fraction is not an integer.
Accepts(kinds, v) == v.is \in kinds \/ (v.is = "integer" /\ "number" \in kinds)

PayloadSpec(type, group, kinds, items, range, lengths, allowed) ==
  [type |-> type, group |-> group, kinds |-> kinds, items |-> items, range |-> range,
   lengths |-> lengths, allowed |-> allowed]

\* lookup: a type that is not in the table was agreed privately.
Lookup(type) == {spec \in PayloadSpecs : spec.type = type}

IsScalar(spec) == spec.items.max = {1}

\* Several values of a scalar event payload divide their interval.
Divides(spec, map) == spec.group = "event" /\ IsScalar(spec) /\ Len(map.values) > 1

\* A bound is broken by what is below its minimum or above its maximum.
Outside(n, bound) == (\E m \in bound.min : n < m) \/ (\E m \in bound.max : n > m)

Violation(why, index) == [why |-> why, index |-> index]

ValueViolations(spec, index, v) ==
  IF ~ Accepts(spec.kinds, v) THEN {Violation("kind", index)}
  ELSE {Violation("range", index) : d \in {d \in AsDecimal(v) : Outside(d, spec.range)}}
         \cup {Violation("length", index) : s \in {s \in AsText(v) : Outside(s.len, spec.lengths)}}
         \cup {Violation("notEnumerated", index) :
                 s \in {s \in AsText(v) : spec.allowed # {} /\ s.word \notin spec.allowed}}

Violations(spec, map, group) ==
  IF spec.group # group THEN {Violation("wrongGroup", 0)}
  ELSE (IF ~ Divides(spec, map) /\ Outside(Len(map.values), spec.items)
        THEN {Violation("cardinality", 0)} ELSE {})
         \cup UNION {ValueViolations(spec, i, map.values[i]) : i \in DOMAIN map.values}

\* validate.
Validity(map, group) ==
  LET found == UNION {Violations(spec, map, group) : spec \in Lookup(map.type)}
  IN  IF Lookup(map.type) = {} THEN [is |-> "unknown", violations |-> {}]
      ELSE [is |-> IF found = {} THEN "valid" ELSE "invalid", violations |-> found]

\* validate_all, each violation with the payload it is in.
ValidateAll(payloads, group) ==
  UNION {{<<i, violation>> : violation \in Validity(payloads[i], group).violations}
           : i \in DOMAIN payloads}
-----------------------------------------------------------------------------
(***************************************************************************)
(* Constrained strings.                                                    *)
(***************************************************************************)
\* Each kind's rule: an object id is in URLs, a target in lists.
Rules ==
  LET Rule(urlSafe, listSafe) == [min |-> 1, max |-> 128, urlSafe |-> urlSafe,
                                  listSafe |-> listSafe]
  IN  [objectID |-> Rule(TRUE, FALSE), target |-> Rule(FALSE, TRUE),
       programName |-> Rule(FALSE, FALSE), clientName |-> Rule(FALSE, FALSE)]

\* What is said of a text that is refused: the first rule it breaks.
IdentifierErrors(rule, text) ==
  IF text.len < rule.min \/ text.len > rule.max THEN {"length"}
  ELSE IF text.reserved THEN {"reserved"}
  ELSE IF rule.urlSafe /\ ~ text.urlSafe THEN {"charset"}
  ELSE IF rule.listSafe /\ text.comma THEN {"comma"}
  ELSE {}

\* Deserialize: a text of a document is validated as it is read.
Legible(rule, text) == IdentifierErrors(Rules[rule], text) = {}
=============================================================================
