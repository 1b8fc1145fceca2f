----------------------------- MODULE RoutingRules -----------------------------
(* The router package: reading the rules of a configuration, matching a line    *)
(* against them and filling in their outputs (parse.go, match.go,               *)
(* substituters.go, router.go).  All of it is pure.                             *)
EXTENDS Integers, Sequences, FiniteSets, SequencesExt

CONSTANT Env        \* environment: name -> template, unset when empty or absent

\* Nothing looks for variables in the text of a variable.
ASSUME EnvAssumption ==
    \A name \in DOMAIN Env :
        /\ Env[name] \in Seq(ToSet(Env[name]))
        /\ \A t \in ToSet(Env[name]) : t.token # "env"

(* Values of a line.  A NamedMap is a map of a type of its own, such as         *)
(* logger.M; to a type assertion it is not a map[string]interface{}.            *)
String(text) == [kind |-> "string", text |-> text]
Bool(text) == [kind |-> "bool", text |-> text]
Number(text) == [kind |-> "number", text |-> text]
Error(text) == [kind |-> "error", text |-> text]
Nil == [kind |-> "nil"]
Map(fields) == [kind |-> "map", fields |-> fields]
NamedMap(fields) == [kind |-> "named", fields |-> fields]

-----------------------------------------------------------------------------
(* Lookup and matching.  A field is the sequence of its parts between dots.     *)

Missing == [kind |-> "missing"]

Get(value, part) ==
    IF value.kind = "map" /\ part \in DOMAIN value.fields
      THEN value.fields[part] ELSE Missing

LookupField(field, msg) == FoldLeft(Get, Map(msg), field)

(* "yes", "no", or "panic": valueMatchers[0] of an empty list. *)
FieldMatches(field, values, msg) ==
    LET value == LookupField(field, msg)
        wildcard == IF values = <<>> THEN "panic"
                    ELSE IF values[1] = "*" THEN "yes" ELSE "no"
    IN  CASE value.kind \in {"missing", "nil"} -> "no"
          [] value.kind \in {"string", "bool"} ->
               IF value.text = "" THEN "no"
               ELSE IF value.text \in ToSet(values) THEN "yes" ELSE wildcard
          [] OTHER -> wildcard

(* Fields are looked at in any order, up to the first that does not match. *)
Matches(rule, msg) ==
    LET results == {FieldMatches(f, rule.matchers[f], msg) : f \in DOMAIN rule.matchers}
    IN  IF results \subseteq {"yes"} THEN {"yes"} ELSE results \ {"yes"}

-----------------------------------------------------------------------------
(* Templates: sequences of tokens - text, ${name} and %{field}                  *)

Text(t) == [token |-> "text", text |-> t]
EnvVar(name) == [token |-> "env", name |-> name]
Field(f) == [token |-> "field", field |-> f]

Getenv(name) == IF name \in DOMAIN Env THEN Env[name] ELSE <<>>

SubstituteEnvVars(template) ==
    FlattenSeq([i \in DOMAIN template |->
        IF template[i].token = "env" THEN Getenv(template[i].name) ELSE <<template[i]>>])

FieldText(field, msg) ==
    LET value == LookupField(field, msg)
    IN  CASE value.kind = "missing" -> "KEY_NOT_FOUND"
          [] value.kind \in {"string", "bool", "number", "error"} -> value.text
          [] OTHER -> "UNKNOWN_VALUE_TYPE"

SubstituteFields(template, msg) ==
    [i \in DOMAIN template |->
        IF template[i].token = "field" THEN Text(FieldText(template[i].field, msg))
                                       ELSE template[i]]

(* The output of a rule for a line, with the name of the rule. *)
OutputFor(rule, msg) ==
    [key \in DOMAIN rule.output \cup {"rule"} |->
        IF key = "rule" THEN <<Text(rule.name)>>
                        ELSE SubstituteFields(rule.output[key], msg)]

-----------------------------------------------------------------------------
(* Reading a configuration: a set of rules, each with its name, its matchers    *)
(* (field -> sequence of values as the file has them) and its output            *)
(* (key -> template).                                                           *)

(* UnmarshalYAML: strings and booleans only, and no wildcard among others. *)
Unmarshals(values) ==
    /\ \A v \in ToSet(values) : v.kind \in {"string", "bool"}
    /\ Len(values) > 1 => \A v \in ToSet(values) : v.text # "*"

Texts(values) == [i \in DOMAIN values |-> values[i].text]

(* The schema, as far as matchers go: lists that are not empty, of distinct     *)
(* values that are not empty.                                                   *)
SchemaAccepts(values) ==
    /\ values # <<>>
    /\ IsInjective(Texts(values))
    /\ "" \notin ToSet(Texts(values))

(* parse *)
Valid(rule) ==
    /\ DOMAIN rule.matchers # {}
    /\ \A f \in DOMAIN rule.matchers :
         Unmarshals(rule.matchers[f]) /\ SchemaAccepts(rule.matchers[f])

MissingEnv(rule) ==
    {name \in UNION {{t.name : t \in {u \in ToSet(rule.output[k]) : u.token = "env"}} :
                       k \in DOMAIN rule.output} : Getenv(name) = <<>>}

SetDefaults(output) ==
    IF /\ "type" \in DOMAIN output
       /\ output["type"] \in {<<Text("metrics")>>, <<Text("alerts")>>}
       /\ "value_field" \notin DOMAIN output
      THEN [k \in DOMAIN output \cup {"value_field"} |->
              IF k = "value_field" THEN <<Text("value")>> ELSE output[k]]
      ELSE output

(* A rule as the router keeps it. *)
Compiled(rule) ==
    [name |-> rule.name,
     matchers |-> [f \in DOMAIN rule.matchers |-> Texts(rule.matchers[f])],
     output |-> SetDefaults([k \in DOMAIN rule.output |-> SubstituteEnvVars(rule.output[k])])]

(* Defective variant: a rule with a variable that is not set is passed over. *)
NewFromRoutesSkipping(rules) ==
    {[ok |-> TRUE, rules |-> {Compiled(r) : r \in {s \in rules : MissingEnv(s) = {}}}]}

(* The rules are taken in any order; the first with a variable that is not set  *)
(* ends the loop, and the router is returned with those before it.              *)
NewFromRoutes(rules) ==
    LET good == {r \in rules : MissingEnv(r) = {}}
    IN  IF good = rules
          THEN {[ok |-> TRUE, rules |-> {Compiled(r) : r \in rules}]}
          ELSE {[ok |-> FALSE, rules |-> {Compiled(r) : r \in S}] : S \in SUBSET good}

(* Defective variant: the schema is not consulted. *)
NewFromConfigBytesUnchecked(rules) ==
    IF \A r \in rules : \A f \in DOMAIN r.matchers : Unmarshals(r.matchers[f])
      THEN NewFromRoutes(rules) ELSE {[ok |-> FALSE, rules |-> {}]}

(* The results NewFromConfigBytes can have: a router, and whether there was no  *)
(* error.                                                                       *)
NewFromConfigBytes(rules) ==
    IF \A r \in rules : Valid(r) THEN NewFromRoutes(rules)
                                 ELSE {[ok |-> FALSE, rules |-> {}]}
==============================================================================
