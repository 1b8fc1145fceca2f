------------------------------ MODULE MCRouting ------------------------------
(* Small instances of Routing for TLC, and cases of router/match_test.go.       *)
EXTENDS Routing

MCEnv == [CHANNEL |-> <<Text("#ops")>>, EMPTY |-> <<>>]

Rule(name, matchers, output) == [name |-> name, matchers |-> matchers, output |-> output]
On(field, values) == [f \in {field} |-> values]
Alert(template) == [type |-> <<Text("alerts")>>, series |-> template]

Hello == Rule("hello", On(<<"title">>, <<String("hello"), String("hi")>>),
              Alert(<<EnvVar("CHANNEL"), Field(<<"foo", "bar">>)>>))
AnyBar == Rule("any", On(<<"foo", "bar">>, <<String("*")>>), Alert(<<Text("x")>>))
Unset == Rule("unset", On(<<"title">>, <<String("hello")>>), Alert(<<EnvVar("EMPTY")>>))
Empty == Rule("empty", On(<<"title">>, <<>>), Alert(<<Text("x")>>))
Seven == Rule("seven", On(<<"title">>, <<Number("7")>>), Alert(<<Text("x")>>))

MCRules == [f \in Files |->
    CASE f = "two" -> {Hello, AnyBar}
      [] f = "one" -> {AnyBar}
      [] f = "unset" -> {Hello, Unset}
      [] f = "empty" -> {Empty}
      [] f = "seven" -> {Seven}
      [] f = "gone" -> {}]

Both == [title |-> String("hello"), foo |-> Map([bar |-> Bool("true")])]
Named == [title |-> String("hi"), foo |-> NamedMap([bar |-> String("x")])]
MCLines == {Both, Named}

MatchesYes(rule, msg) == Matches(Compiled(rule), msg) = {"yes"}

(* TestMatchesSimple, TestMatchesNested, TestWildcardMatches, and a nested      *)
(* logger.M, which is not looked into.                                          *)
ASSUME MatchTests ==
    /\ MatchesYes(Hello, Both) /\ MatchesYes(Hello, Named)
    /\ ~MatchesYes(Hello, [title |-> String("howdy")])
    /\ ~MatchesYes(Hello, [missing |-> String("indeed")])
    /\ MatchesYes(AnyBar, Both) /\ ~MatchesYes(AnyBar, Named)
    /\ MatchesYes(AnyBar, [foo |-> Map([bar |-> Number("5")])])
    /\ ~MatchesYes(AnyBar, [foo |-> Map([bar |-> String("")])])
    /\ ~MatchesYes(AnyBar, [foo |-> Map([bar |-> Nil])])
    /\ FieldText(<<"foo", "bar">>, Named) = "KEY_NOT_FOUND"
    /\ FieldText(<<"foo">>, Both) = "UNKNOWN_VALUE_TYPE"
    /\ FieldText(<<"err">>, [err |-> Error("refused")]) = "refused"
==============================================================================
