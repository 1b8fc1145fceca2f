---------------------------- MODULE RoutingProofs ----------------------------
(* What holds of Routing for any configurations, lines and callers.            *)
EXTENDS Routing, SequenceFacts

-----------------------------------------------------------------------------
(* Matching *)

(* Of a list that is not empty, the first value can be looked at. *)
LEMMA NoPanic ==
    ASSUME NEW rule, \A f \in DOMAIN rule.matchers : rule.matchers[f] # <<>>, NEW msg
    PROVE  "panic" \notin Matches(rule, msg)
  <1>1. ASSUME NEW f, NEW values, values # <<>>
        PROVE  FieldMatches(f, values, msg) # "panic"
    <2> DEFINE value == LookupField(f, msg)
    <2> HIDE DEF value
    <2>1. FieldMatches(f, values, msg) =
            CASE value.kind \in {"missing", "nil"} -> "no"
              [] value.kind \in {"string", "bool"} ->
                   IF value.text = "" THEN "no"
                   ELSE IF value.text \in ToSet(values) THEN "yes"
                   ELSE IF values[1] = "*" THEN "yes" ELSE "no"
              [] OTHER -> IF values[1] = "*" THEN "yes" ELSE "no"
      BY <1>1 DEF FieldMatches, value
    <2> QED
      BY <2>1
  <1> QED
    BY <1>1 DEF Matches

-----------------------------------------------------------------------------
(* The routers *)

(* The rules of a router have names of the configurations, each its own. *)
NamedRules(rules) ==
    /\ \A r \in rules : r.name \in RuleNames
    /\ \A r, s \in rules : r.name = s.name => r = s

(* Every list of values has a first one: parse has seen to it. *)
ParsedRules(rules) == \A r \in rules : \A f \in DOMAIN r.matchers : r.matchers[f] # <<>>

GoodRouter(value) ==
    /\ DOMAIN value = {"type", "rules"} /\ value.type \in BOOLEAN
    /\ value.rules = NilRules \/ NamedRules(value.rules)

ParsedRouter(value) == value.rules = NilRules \/ ParsedRules(value.rules)

Typed ==
    /\ pc \in [Callers -> {"idle", "store", "check", "route", "count", "panicked"}]
    /\ via \in [Callers -> Slots]
    /\ nilSeen \in [Callers -> BOOLEAN] /\ unparsedSeen \in [Callers -> BOOLEAN]
    /\ ownAllAlong \in [Callers -> BOOLEAN]
    /\ made \in [Slots -> {"parsed", "unparsed"}]
    /\ DOMAIN load = Callers /\ DOMAIN routes = Callers /\ DOMAIN data = Callers
    /\ DOMAIN router = Slots /\ DOMAIN installed = Slots

Routers ==
    /\ \A slot \in Slots :
         GoodRouter(router[slot]) /\ (made[slot] = "parsed" => ParsedRouter(router[slot]))
    /\ made["global"] = "parsed"
    /\ \A c \in Callers : pc[c] = "store" =>
         /\ load[c].slot \in Slots /\ load[c].left \subseteq {"type", "rules"}
         /\ load[c].made \in {"parsed", "unparsed"}
         /\ load[c].slot = "global" => load[c].made = "parsed"
         /\ GoodRouter(load[c].result.router)
         /\ load[c].made = "parsed" => ParsedRouter(load[c].result.router)

(* A call knows that its router was nil, or it is not; and that its rules had   *)
(* not been through parse, or they have.                                        *)
NilKnown ==
    \A c \in Callers :
        /\ pc[c] = "route" => /\ nilSeen[c] \/ Usable(router[via[c]])
                              /\ unparsedSeen[c] \/ made[via[c]] = "parsed"
        /\ pc[c] \in {"route", "panicked"} /\ unparsedSeen[c] => via[c] = "own"
        /\ pc[c] = "panicked" => nilSeen[c] \/ unparsedSeen[c]

(* Only a call that saw its logger with no router goes on to the global one.    *)
OwnSeen ==
    \A c \in Callers :
        /\ pc[c] = "check" => ~ownAllAlong[c]
        /\ pc[c] \in {"route", "count"} /\ ownAllAlong[c] => via[c] = "own"

Inv == Typed /\ Routers /\ NilKnown /\ OwnSeen

LEMMA CompiledIsNamed ==
    ASSUME NEW f \in Files, NEW rules, rules \subseteq Rules[f]
    PROVE  NamedRules({Compiled(r) : r \in rules})
  <1>1. ASSUME NEW r \in rules PROVE Compiled(r).name = r.name /\ r.name \in RuleNames
    BY DEF Compiled, RuleNames
  <1>2. \A r, s \in rules : r.name = s.name => r = s
    BY FilesAssumption
  <1> QED
    BY <1>1, <1>2 DEF NamedRules

LEMMA CompiledIsParsed ==
    ASSUME NEW f \in Files, NEW rules, rules \subseteq Rules[f],
           \A r \in Rules[f] : Valid(r)
    PROVE  ParsedRules({Compiled(r) : r \in rules})
  <1>1. ASSUME NEW r \in rules, NEW m \in DOMAIN Compiled(r).matchers
        PROVE  Compiled(r).matchers[m] # <<>>
    <2>1. m \in DOMAIN r.matchers /\ Compiled(r).matchers[m] = Texts(r.matchers[m])
      BY <1>1 DEF Compiled
    <2>2. r.matchers[m] # <<>> /\ r.matchers[m] \in Seq(ToSet(r.matchers[m]))
      BY <2>1, ListsAssumption DEF Valid, SchemaAccepts
    <2>3. 1 \in DOMAIN Texts(r.matchers[m])
      BY <2>2 DEF Texts
    <2> QED
      BY <2>1, <2>3
  <1> QED
    BY <1>1 DEF ParsedRules

(* NewFromRoutes returns a router of some of the rules, those of parse as well. *)
LEMMA RoutesAreRules ==
    ASSUME NEW f \in Files, NEW result \in NewFromRoutes(Rules[f])
    PROVE  \E S \in SUBSET Rules[f] : result.rules = {Compiled(s) : s \in S}
  BY DEF NewFromRoutes

LEMMA ResultsAreGood ==
    ASSUME NEW f \in Files, NEW how \in {"parsed", "unparsed"}, NEW result \in Made(how, f)
    PROVE  /\ GoodRouter(result.router)
           /\ how = "parsed" => ParsedRouter(result.router)
  <1>1. GoodRouter(NilRouter) /\ ParsedRouter(NilRouter)
    BY DEF GoodRouter, ParsedRouter, NilRouter
  <1>2. NamedRules({}) /\ ParsedRules({})
    BY DEF NamedRules, ParsedRules
  <1>3. ASSUME NEW r \in NewFromConfigBytes(Rules[f])
        PROVE  NamedRules(r.rules) /\ ParsedRules(r.rules)
    <2>1. CASE \A s \in Rules[f] : Valid(s)
      <3>1. r \in NewFromRoutes(Rules[f])
        BY <1>3, <2>1 DEF NewFromConfigBytes
      <3>2. PICK S \in SUBSET Rules[f] : r.rules = {Compiled(s) : s \in S}
        BY <3>1, RoutesAreRules
      <3> QED
        BY <2>1, <3>2, CompiledIsNamed, CompiledIsParsed
    <2>2. CASE ~ \A s \in Rules[f] : Valid(s)
      BY <1>2, <1>3, <2>2 DEF NewFromConfigBytes
    <2> QED
      BY <2>1, <2>2
  <1>4. ASSUME NEW r \in FromBytes(f) PROVE GoodRouter(r.router) /\ ParsedRouter(r.router)
    <2>1. PICK s \in NewFromConfigBytes(Rules[f]) :
            r = [ok |-> s.ok, router |-> [type |-> TRUE, rules |-> s.rules]]
      BY <1>4 DEF FromBytes
    <2> QED
      BY <1>3, <2>1 DEF GoodRouter, ParsedRouter
  <1>5. ASSUME NEW r \in FromFile(f) PROVE GoodRouter(r.router) /\ ParsedRouter(r.router)
    BY <1>1, <1>4, <1>5 DEF FromFile
  <1>6. ASSUME NEW r \in FromRoutes(f) PROVE GoodRouter(r.router)
    <2>1. PICK s \in NewFromRoutes(Rules[f]) :
            r = [ok |-> s.ok, router |-> [type |-> TRUE, rules |-> s.rules]]
      BY <1>6 DEF FromRoutes
    <2> QED
      BY <2>1, RoutesAreRules, CompiledIsNamed DEF GoodRouter
  <1> QED
    BY <1>4, <1>5, <1>6 DEF Made

-----------------------------------------------------------------------------
LEMMA InvInit == Init => Inv
  <1> SUFFICES ASSUME Init PROVE Inv
    OBVIOUS
  <1>1. Typed
    BY DEF Init, Typed, Slots
  <1>2. Routers
    BY DEF Init, Routers, GoodRouter, ParsedRouter, NilRouter, Slots
  <1>3. NilKnown /\ OwnSeen
    BY DEF Init, NilKnown, OwnSeen
  <1> QED
    BY <1>1, <1>2, <1>3 DEF Inv

LEMMA NextSteps ==
    ASSUME Next
    PROVE  \/ \E c \in Callers, slot \in Slots, f \in Files, how \in {"parsed", "unparsed"} :
                \E result \in Made(how, f) :
                    /\ slot = "global" => how = "parsed"
                    /\ SetRouting(c, slot, f, how, result)
           \/ \E c \in Callers :
                \/ \E word \in {"type", "rules"} : Store(c, word)
                \/ \E l \in Lines : LogCheck(c, l)
                \/ GlobalCheck(c) \/ LogPanic(c) \/ Route(c) \/ Counted(c)
                \/ \E output \in routes[c] : Count(c, output)
           \/ UNCHANGED vars
  <1>1. ASSUME NEW c \in Callers, NEW f \in Files, NEW how \in {"parsed", "unparsed"},
               NEW result \in Made(how, f),
               (how = "parsed" /\ SetGlobalRouting(c, f, result)) \/ SetRouter(c, f, how, result)
        PROVE  \E slot \in Slots : /\ slot = "global" => how = "parsed"
                                   /\ SetRouting(c, slot, f, how, result)
    BY <1>1 DEF SetGlobalRouting, SetRouter, Slots
  <1> QED
    BY <1>1 DEF Next, Terminating

LEMMA TypedStep == Typed /\ Routers /\ [Next]_vars => Typed'
  <1> USE DEF vars, callVars, countVars, seenVars, Typed
  <1> SUFFICES ASSUME Typed, Routers, [Next]_vars PROVE Typed'
    OBVIOUS
  <1>1. ASSUME NEW c \in Callers, NEW slot \in Slots, NEW f,
               NEW how \in {"parsed", "unparsed"}, NEW result,
               SetRouting(c, slot, f, how, result)
        PROVE  Typed'
    BY <1>1 DEF SetRouting
  <1>2. ASSUME NEW c \in Callers, NEW word, Store(c, word) PROVE Typed'
    <2>1. load[c].made \in {"parsed", "unparsed"} /\ load[c].slot \in Slots
      BY <1>2 DEF Store, Routers
    <2>2. made' \in [Slots -> {"parsed", "unparsed"}]
      <3>1. made' = [made EXCEPT ![load[c].slot] = load[c].made] \/ made' = made
        BY <1>2 DEF Store
      <3> QED
        BY <2>1, <3>1
    <2>3. /\ nilSeen' \in [Callers -> BOOLEAN] /\ unparsedSeen' \in [Callers -> BOOLEAN]
          /\ ownAllAlong' \in [Callers -> BOOLEAN]
      <3>1. \A d \in Callers : router'["own"].type \in BOOLEAN
        <4>1. GoodRouter(router["own"]) /\ GoodRouter(load[c].result.router)
          BY <1>2 DEF Store, Routers, Slots
        <4>2. \/ router'["own"] = router["own"]
              \/ router'["own"] = [router["own"] EXCEPT ![word] = load[c].result.router[word]]
          BY <1>2, <2>1 DEF Store, Slots
        <4> QED
          BY <1>2, <4>1, <4>2 DEF Store, Routers, GoodRouter
      <3> QED
        BY <1>2, <3>1 DEF Store, Usable
    <2>4. /\ pc' \in [Callers -> {"idle", "store", "check", "route", "count", "panicked"}]
          /\ DOMAIN load' = Callers /\ DOMAIN router' = Slots /\ DOMAIN installed' = Slots
          /\ UNCHANGED <<via, routes, data>>
      BY <1>2 DEF Store
    <2> QED
      BY <2>2, <2>3, <2>4
  <1>3. ASSUME NEW c \in Callers, NEW l, LogCheck(c, l) PROVE Typed'
    <2>1. /\ UNCHANGED <<load, routes, router, made, installed>>
          /\ DOMAIN data' = Callers
      BY <1>3 DEF LogCheck
    <2>2. router["own"].type \in BOOLEAN
      BY DEF Routers, GoodRouter, Slots
    <2>3. ownAllAlong' \in [Callers -> BOOLEAN]
      BY <1>3, <2>2 DEF LogCheck
    <2>4. /\ pc' \in [Callers -> {"idle", "store", "check", "route", "count", "panicked"}]
          /\ via' \in [Callers -> Slots] /\ nilSeen' \in [Callers -> BOOLEAN]
          /\ unparsedSeen' \in [Callers -> BOOLEAN]
      <3>1. CASE router[First].type
        BY <1>3, <3>1 DEF LogCheck, Use, Usable, First, Slots
      <3>2. CASE ~router[First].type
        BY <1>3, <3>2 DEF LogCheck
      <3> QED
        BY <3>1, <3>2
    <2> QED
      BY <2>1, <2>3, <2>4
  <1>4. ASSUME NEW c \in Callers, GlobalCheck(c) PROVE Typed'
    BY <1>4 DEF GlobalCheck, Use, EndCall, First, Slots
  <1>5. ASSUME NEW c \in Callers, LogPanic(c) \/ Route(c) \/ Counted(c) PROVE Typed'
    BY <1>5 DEF LogPanic, Route, Counted, EndCall, Slots
  <1>6. ASSUME NEW c \in Callers, NEW output, Count(c, output) PROVE Typed'
    BY <1>6 DEF Count
  <1>7. CASE UNCHANGED vars
    BY <1>7
  <1> HIDE DEF vars, callVars, countVars, seenVars, Typed
  <1> QED
    BY <1>1, <1>2, <1>3, <1>4, <1>5, <1>6, <1>7, NextSteps

LEMMA RoutersStep == Typed /\ Routers /\ [Next]_vars => Routers'
  <1> USE DEF vars, callVars, countVars, seenVars
  <1> SUFFICES ASSUME Typed, Routers, [Next]_vars PROVE Routers'
    OBVIOUS
  <1>a. ASSUME UNCHANGED <<router, made, load>>,
               \A c \in Callers : pc'[c] = "store" => pc[c] = "store"
        PROVE  Routers'
    BY <1>a DEF Routers
  <1>1. ASSUME NEW c \in Callers, NEW slot \in Slots, NEW f,
               NEW how \in {"parsed", "unparsed"}, NEW result,
               slot = "global" => how = "parsed", GoodRouter(result.router),
               how = "parsed" => ParsedRouter(result.router),
               SetRouting(c, slot, f, how, result)
        PROVE  Routers'
    <2>1. /\ UNCHANGED <<router, made>>
          /\ \A d \in Callers : d # c => pc'[d] = pc[d]
          /\ load'[c].slot = slot /\ load'[c].left = {"type", "rules"}
          /\ load'[c].made = how /\ load'[c].result = result
      BY <1>1 DEF SetRouting, Typed
    <2>2. ASSUME NEW d \in Callers, d # c, pc[d] = "store"
          PROVE  /\ load'[d].slot = load[d].slot /\ load'[d].left = load[d].left
                 /\ load'[d].made = load[d].made /\ load'[d].result = load[d].result
      BY <1>1, <2>2 DEF SetRouting
    <2> QED
      BY <1>1, <2>1, <2>2 DEF Routers
  <1>2. ASSUME NEW c \in Callers, NEW word, Store(c, word) PROVE Routers'
    <2> DEFINE slot == load[c].slot
               new == load[c].result.router
    <2>1. /\ slot \in Slots /\ word \in {"type", "rules"} /\ GoodRouter(new)
          /\ router' = [router EXCEPT ![slot][word] = new[word]]
          /\ made' = IF word = "rules" THEN [made EXCEPT ![slot] = load[c].made] ELSE made
          /\ \A d \in Callers : pc'[d] = "store" => pc[d] = "store"
      BY <1>2 DEF Store, Routers, Typed
    <2>2. ASSUME NEW d \in Callers, pc'[d] = "store"
          PROVE  /\ load'[d].slot = load[d].slot /\ load'[d].left \subseteq load[d].left
                 /\ load'[d].made = load[d].made /\ load'[d].result = load[d].result
      <3>1. CASE load[c].left \ {word} = {}
        <4>1. d # c
          BY <1>2, <2>2, <3>1 DEF Store, Typed
        <4> QED
          BY <1>2, <3>1, <4>1 DEF Store, Typed
      <3>2. CASE load[c].left \ {word} # {}
        <4>1. load' = [load EXCEPT ![c].left = load[c].left \ {word}]
          BY <1>2, <3>2 DEF Store
        <4>2. /\ load'[d].slot = load[d].slot /\ load'[d].made = load[d].made
              /\ load'[d].result = load[d].result
          BY <4>1 DEF Typed
        <4>3. load'[d].left \subseteq load[d].left
          BY <4>1 DEF Typed
        <4> QED
          BY <4>2, <4>3
      <3> QED
        BY <3>1, <3>2
    <2>3. ASSUME NEW s \in Slots
          PROVE  GoodRouter(router'[s]) /\ (made'[s] = "parsed" => ParsedRouter(router'[s]))
      <3>1. GoodRouter(router[s]) /\ (made[s] = "parsed" => ParsedRouter(router[s]))
        BY DEF Routers
      <3>2. CASE s # slot
        BY <2>1, <3>1, <3>2 DEF Typed
      <3>3. CASE s = slot
        <4>1. router'[s] = [router[s] EXCEPT ![word] = new[word]]
          BY <2>1, <3>3 DEF Typed
        <4>2. GoodRouter(router'[s])
          BY <2>1, <3>1, <4>1 DEF GoodRouter
        <4>3. CASE word = "rules"
          <5>1. made'[s] = load[c].made /\ router'[s].rules = new.rules
            BY <2>1, <3>1, <3>3, <4>1, <4>3 DEF Typed, GoodRouter
          <5>2. load[c].made = "parsed" => ParsedRouter(new)
            BY <1>2 DEF Store, Routers
          <5> QED
            BY <4>2, <5>1, <5>2 DEF ParsedRouter
        <4>4. CASE word # "rules"
          <5>1. made'[s] = made[s] /\ router'[s].rules = router[s].rules
            BY <2>1, <3>1, <4>1, <4>4 DEF GoodRouter
          <5> QED
            BY <3>1, <4>2, <5>1 DEF ParsedRouter
        <4> QED
          BY <4>3, <4>4
      <3> QED
        BY <3>2, <3>3
    <2>4. made'["global"] = "parsed"
      <3>1. slot = "global" => load[c].made = "parsed"
        BY <1>2 DEF Store, Routers
      <3> QED
        BY <2>1, <3>1 DEF Routers, Typed, Slots
    <2> QED
      BY <2>1, <2>2, <2>3, <2>4 DEF Routers
  <1>3. ASSUME NEW c \in Callers, NEW l, LogCheck(c, l) PROVE Routers'
    BY <1>3, <1>a DEF LogCheck, Use, Typed
  <1>4. ASSUME NEW c \in Callers, GlobalCheck(c) \/ LogPanic(c) \/ Route(c) \/ Counted(c)
        PROVE  Routers'
    BY <1>4, <1>a DEF GlobalCheck, LogPanic, Route, Counted, Use, EndCall, Typed
  <1>5. ASSUME NEW c \in Callers, NEW output, Count(c, output) PROVE Routers'
    BY <1>5, <1>a DEF Count
  <1>6. CASE UNCHANGED vars
    BY <1>6, <1>a
  <1> QED
    BY <1>1, <1>2, <1>3, <1>4, <1>5, <1>6, ResultsAreGood, NextSteps

LEMMA NilKnownStep == Typed /\ Routers /\ NilKnown /\ [Next]_vars /\ Typed' /\ Routers' => NilKnown'
  <1> USE DEF vars, callVars, countVars, seenVars
  <1> SUFFICES ASSUME Typed, Routers, NilKnown, [Next]_vars, Typed', Routers' PROVE NilKnown'
    OBVIOUS
  <1>1. ASSUME NEW c \in Callers, NEW slot, NEW f, NEW how, NEW result,
               SetRouting(c, slot, f, how, result)
        PROVE  NilKnown'
    BY <1>1 DEF SetRouting, NilKnown, Typed
  <1>2. ASSUME NEW c \in Callers, NEW word, Store(c, word) PROVE NilKnown'
    <2>1. ASSUME NEW d \in Callers, pc'[d] \in {"route", "panicked"}
          PROVE  /\ pc[d] = pc'[d] /\ via'[d] = via[d]
                 /\ nilSeen'[d] = (nilSeen[d] \/ (pc[d] = "route" /\ ~Usable(router'[via[d]])))
                 /\ unparsedSeen'[d] =
                      (unparsedSeen[d] \/ (pc[d] = "route" /\ made'[via[d]] = "unparsed"))
      BY <1>2, <2>1 DEF Store, Typed
    <2>2. made' \in [Slots -> {"parsed", "unparsed"}] /\ made'["global"] = "parsed"
      BY DEF Typed, Routers
    <2>3. ASSUME NEW d \in Callers
          PROVE  (/\ pc[d] = "route" => /\ nilSeen[d] \/ Usable(router[via[d]])
                                        /\ unparsedSeen[d] \/ made[via[d]] = "parsed"
                  /\ pc[d] \in {"route", "panicked"} /\ unparsedSeen[d] => via[d] = "own"
                  /\ pc[d] = "panicked" => nilSeen[d] \/ unparsedSeen[d])'
      <3>1. via[d] \in {"global", "own"}
        BY DEF Typed, Slots
      <3> QED
        BY <2>1, <2>2, <3>1 DEF NilKnown, Typed, Slots
    <2> QED
      BY <2>3 DEF NilKnown
  <1>3. ASSUME NEW c \in Callers, NEW l, LogCheck(c, l) PROVE NilKnown'
    <2>1. CASE router["own"].type
      BY <1>3, <2>1 DEF LogCheck, Use, First, NilKnown, Typed
    <2>2. CASE ~router["own"].type
      BY <1>3, <2>2 DEF LogCheck, First, NilKnown, Typed
    <2> QED
      BY <2>1, <2>2
  <1>4. ASSUME NEW c \in Callers, GlobalCheck(c) PROVE NilKnown'
    <2> DEFINE second == CHOOSE slot \in Slots : slot # First
    <2>0. second = "global"
      BY DEF First, Slots
    <2> HIDE DEF second
    <2>1. CASE router["global"].type
      <3>1. Use(c, "global")
        BY <1>4, <2>0, <2>1 DEF GlobalCheck, second
      <3>2. UNCHANGED <<router, made>>
        BY <1>4 DEF GlobalCheck
      <3> QED
        BY <3>1, <3>2 DEF Use, NilKnown, Typed, Routers
    <2>2. CASE ~router["global"].type
      <3>1. EndCall(c) /\ UNCHANGED <<router, made>>
        BY <1>4, <2>0, <2>2 DEF GlobalCheck, second
      <3> QED
        BY <3>1 DEF EndCall, NilKnown, Typed
    <2> QED
      BY <2>1, <2>2
  <1>5. ASSUME NEW c \in Callers, LogPanic(c) PROVE NilKnown'
    <2>1. ASSUME Usable(router[via[c]]), made[via[c]] = "parsed" PROVE ~Panics(c)
      <3>1. ParsedRules(router[via[c]].rules)
        BY <2>1 DEF Routers, Typed, ParsedRouter, Usable
      <3> QED
        BY <2>1, <3>1, NoPanic DEF Panics, ParsedRules
    <2>2. nilSeen[c] \/ unparsedSeen[c]
      <3>1. pc[c] = "route" /\ Panics(c)
        BY <1>5 DEF LogPanic
      <3>2. nilSeen[c] \/ Usable(router[via[c]])
        BY <3>1 DEF NilKnown
      <3>3. unparsedSeen[c] \/ made[via[c]] = "parsed"
        BY <3>1 DEF NilKnown
      <3>4. ~Usable(router[via[c]]) \/ made[via[c]] # "parsed"
        BY <2>1, <3>1
      <3> QED
        BY <3>2, <3>3, <3>4
    <2> QED
      BY <1>5, <2>2 DEF LogPanic, NilKnown, Typed
  <1>6. ASSUME NEW c \in Callers, Route(c) \/ Counted(c) PROVE NilKnown'
    BY <1>6 DEF Route, Counted, EndCall, NilKnown, Typed
  <1>7. ASSUME NEW c \in Callers, NEW output, Count(c, output) PROVE NilKnown'
    BY <1>7 DEF Count, NilKnown
  <1>8. CASE UNCHANGED vars
    BY <1>8 DEF NilKnown
  <1> QED
    BY <1>1, <1>2, <1>3, <1>4, <1>5, <1>6, <1>7, <1>8, NextSteps

LEMMA OwnSeenStep == Typed /\ OwnSeen /\ [Next]_vars => OwnSeen'
  <1> USE DEF vars, callVars, countVars, seenVars, OwnSeen, Typed
  <1> SUFFICES ASSUME Typed, OwnSeen, [Next]_vars PROVE OwnSeen'
    OBVIOUS
  <1>1. ASSUME NEW c \in Callers, NEW slot, NEW f, NEW how, NEW result,
               SetRouting(c, slot, f, how, result)
        PROVE  OwnSeen'
    BY <1>1 DEF SetRouting
  <1>2. ASSUME NEW c \in Callers, NEW word, Store(c, word) PROVE OwnSeen'
    BY <1>2 DEF Store
  <1>3. ASSUME NEW c \in Callers, NEW l, LogCheck(c, l) PROVE OwnSeen'
    BY <1>3 DEF LogCheck, Use, First, Slots
  <1>4. ASSUME NEW c \in Callers, GlobalCheck(c) PROVE OwnSeen'
    BY <1>4 DEF GlobalCheck, Use, EndCall, First, Slots
  <1>5. ASSUME NEW c \in Callers, LogPanic(c) \/ Route(c) \/ Counted(c) PROVE OwnSeen'
    BY <1>5 DEF LogPanic, Route, Counted, EndCall
  <1>6. ASSUME NEW c \in Callers, NEW output, Count(c, output) PROVE OwnSeen'
    BY <1>6 DEF Count
  <1>7. CASE UNCHANGED vars
    BY <1>7
  <1> QED
    BY <1>1, <1>2, <1>3, <1>4, <1>5, <1>6, <1>7, NextSteps

LEMMA Invariant == Spec => []Inv
  <1>1. Inv /\ [Next]_vars => Inv'
    BY TypedStep, RoutersStep, NilKnownStep, OwnSeenStep DEF Inv
  <1> QED
    BY <1>1, InvInit, PTL DEF Spec

(* A log call around a router that is never nil and never made by NewFromRoutes *)
(* does not panic, whatever was loaded meanwhile: parse lets no rule through    *)
(* that matching would panic on.  Of the global router nil is the only way.     *)
THEOREM ParsedRulesAreSafe == Spec => []ParsedRulesDoNotPanic
  <1>1. Inv => ParsedRulesDoNotPanic
    BY DEF Inv, NilKnown, ParsedRulesDoNotPanic
  <1> QED
    BY <1>1, Invariant, PTL

(* The global router never touches a line of a logger that has a router of its  *)
(* own during all of the call (SetRouter), whatever is stored meanwhile.        *)
THEOREM OwnRouterIsUsed == Spec => []OwnRouterWins
  <1>1. Inv => OwnRouterWins
    BY DEF Inv, OwnSeen, OwnRouterWins
  <1> QED
    BY <1>1, Invariant, PTL

-----------------------------------------------------------------------------
(* The counts *)

(* The callers with an output of the rule that has not been counted. *)
Owing(n) == {c \in Callers : \E o \in routes[c] : RuleOf(o) = n}

(* Of one line, a rule gives one output. *)
Counting ==
    /\ routeMatches \in [RuleNames -> Nat] /\ routed \in [RuleNames -> Nat]
    /\ \A c \in Callers :
         /\ pc[c] # "count" => routes[c] = {}
         /\ \A o \in routes[c] : RuleOf(o) \in RuleNames
         /\ \A o, p \in routes[c] : RuleOf(o) = RuleOf(p) => o = p
    /\ CountsAddUp

LEMMA RuleOfOutput ==
    ASSUME NEW r, NEW msg
    PROVE  RuleOf(OutputFor(r, msg)) = r.name
  BY DEF RuleOf, OutputFor, Text

LEMMA OwingIsFinite ==
    ASSUME NEW n
    PROVE  IsFiniteSet(Owing(n)) /\ Cardinality(Owing(n)) \in Nat
  BY CallersAssumption, FS_Subset, FS_CardinalityType DEF Owing

LEMMA CountingInit == Init => Counting
  <1> SUFFICES ASSUME Init PROVE Counting
    OBVIOUS
  <1>1. \A n : Owing(n) = {}
    BY DEF Init, Owing
  <1>2. \A n \in RuleNames : routed[n] = routeMatches[n] + Cardinality(Owing(n))
    <2>1. \A n : Cardinality(Owing(n)) = 0
      BY <1>1, FS_EmptySet
    <2> QED
      BY <2>1 DEF Init
  <1>3. CountsAddUp
    BY <1>2 DEF CountsAddUp, Owing
  <1> QED
    BY <1>3 DEF Init, Counting

LEMMA CountingStep == Typed /\ Routers /\ Counting /\ [Next]_vars => Counting'
  <1> USE DEF vars, callVars, countVars, seenVars
  <1> SUFFICES ASSUME Typed, Routers, Counting, [Next]_vars PROVE Counting'
    OBVIOUS
  <1>a. ASSUME UNCHANGED <<routes, countVars>>,
               \A c \in Callers : pc'[c] # "count" => pc[c] # "count" \/ routes[c] = {}
        PROVE  Counting'
    BY <1>a DEF Counting, CountsAddUp
  <1>b. \A n \in RuleNames : routed[n] = routeMatches[n] + Cardinality(Owing(n))
    BY DEF Counting, CountsAddUp, Owing
  <1>1. ASSUME NEW c \in Callers, NEW slot, NEW f, NEW how, NEW result,
               SetRouting(c, slot, f, how, result)
        PROVE  Counting'
    BY <1>1, <1>a DEF SetRouting, Typed
  <1>2. ASSUME NEW c \in Callers, NEW word, Store(c, word) PROVE Counting'
    BY <1>2, <1>a DEF Store, Typed
  <1>3. ASSUME NEW c \in Callers, NEW l, LogCheck(c, l) PROVE Counting'
    BY <1>3, <1>a DEF LogCheck, Use, Typed
  <1>4. ASSUME NEW c \in Callers, GlobalCheck(c) PROVE Counting'
    BY <1>4, <1>a DEF GlobalCheck, Use, EndCall, Typed
  <1>5. ASSUME NEW c \in Callers, LogPanic(c) \/ Counted(c) PROVE Counting'
    BY <1>5, <1>a DEF LogPanic, Counted, EndCall, Typed
  <1>6. ASSUME NEW c \in Callers, Route(c) PROVE Counting'
    <2> DEFINE rules == router[via[c]].rules
               matching == {r \in rules : Matches(r, data[c]) = {"yes"}}
    <2>1. /\ pc[c] = "route" /\ pc' = [pc EXCEPT ![c] = "count"]
          /\ routes' = [routes EXCEPT ![c] = {OutputFor(r, data[c]) : r \in matching}]
          /\ routed' = [n \in RuleNames |->
                IF \E r \in matching : r.name = n THEN routed[n] + 1 ELSE routed[n]]
          /\ UNCHANGED routeMatches
      BY <1>6 DEF Route
    <2>2. NamedRules(rules)
      BY <1>6 DEF Route, Routers, Typed, GoodRouter
    <2>3. /\ \A r \in matching : r.name \in RuleNames
          /\ \A r, s \in matching : r.name = s.name => r = s
      BY <2>2 DEF NamedRules
    <2> HIDE DEF matching
    <2>4. /\ \A o \in routes'[c] : \E r \in matching : o = OutputFor(r, data[c]) /\ RuleOf(o) = r.name
          /\ \A r \in matching : \E o \in routes'[c] : RuleOf(o) = r.name
          /\ \A d \in Callers : d # c => routes'[d] = routes[d]
      BY <2>1, RuleOfOutput DEF Typed
    <2>5. routes[c] = {}
      BY <2>1 DEF Counting
    <2>6. ASSUME NEW n \in RuleNames
          PROVE  routed'[n] = routeMatches'[n] + Cardinality(Owing(n))'
      <3>1. c \notin Owing(n)
        BY <2>5 DEF Owing
      <3>2. CASE \E r \in matching : r.name = n
        <4>1. Owing(n)' = Owing(n) \cup {c}
          BY <2>4, <3>2 DEF Owing
        <4>2. Cardinality(Owing(n))' = Cardinality(Owing(n)) + 1
          BY <3>1, <4>1, OwingIsFinite, FS_AddElement
        <4> QED
          BY <1>b, <2>1, <3>2, <4>2, OwingIsFinite DEF Counting
      <3>3. CASE ~ \E r \in matching : r.name = n
        <4>1. Owing(n)' = Owing(n)
          BY <2>4, <2>5, <3>3 DEF Owing
        <4> QED
          BY <1>b, <2>1, <3>3, <4>1
      <3> QED
        BY <3>2, <3>3
    <2>7. CountsAddUp'
      BY <2>6 DEF CountsAddUp, Owing
    <2>8. routed' \in [RuleNames -> Nat]
      BY <2>1 DEF Counting
    <2>9. \A d \in Callers :
            /\ pc'[d] # "count" => routes'[d] = {}
            /\ \A o \in routes'[d] : RuleOf(o) \in RuleNames
            /\ \A o, p \in routes'[d] : RuleOf(o) = RuleOf(p) => o = p
      BY <2>1, <2>3, <2>4 DEF Counting, Typed
    <2> QED
      BY <2>1, <2>7, <2>8, <2>9 DEF Counting
  <1>7. ASSUME NEW c \in Callers, NEW output, Count(c, output) PROVE Counting'
    <2> DEFINE m == RuleOf(output)
    <2>1. /\ pc[c] = "count" /\ output \in routes[c] /\ UNCHANGED <<pc, routed>>
          /\ routeMatches' = [routeMatches EXCEPT ![m] = @ + 1]
          /\ routes' = [routes EXCEPT ![c] = routes[c] \ {output}]
      BY <1>7 DEF Count, OthersLeft
    <2>2. m \in RuleNames
      BY <2>1 DEF Counting
    <2>3. ASSUME NEW n \in RuleNames
          PROVE  routed'[n] = routeMatches'[n] + Cardinality(Owing(n))'
      <3>1. CASE n = m
        <4>1. c \in Owing(n) /\ Owing(n)' = Owing(n) \ {c}
          BY <2>1, <3>1 DEF Owing, Counting, Typed
        <4>2. Cardinality(Owing(n))' = Cardinality(Owing(n)) - 1
          BY <4>1, OwingIsFinite, FS_RemoveElement
        <4> QED
          BY <1>b, <2>1, <3>1, <4>2, OwingIsFinite DEF Counting
      <3>2. CASE n # m
        <4>1. Owing(n)' = Owing(n)
          BY <2>1, <3>2 DEF Owing, Typed
        <4> QED
          BY <1>b, <2>1, <3>2, <4>1 DEF Counting
      <3> QED
        BY <3>1, <3>2
    <2>4. CountsAddUp'
      BY <2>3 DEF CountsAddUp, Owing
    <2>5. routeMatches' \in [RuleNames -> Nat]
      BY <2>1, <2>2 DEF Counting
    <2>6. \A d \in Callers : routes'[d] \subseteq routes[d]
      BY <2>1 DEF Typed
    <2> QED
      BY <2>1, <2>4, <2>5, <2>6 DEF Counting
  <1>8. CASE UNCHANGED vars
    BY <1>8, <1>a
  <1> QED
    BY <1>1, <1>2, <1>3, <1>4, <1>5, <1>6, <1>7, <1>8, NextSteps

(* Nothing is lost and nothing counted twice, however many goroutines log:      *)
(* what the mock logger has counted of a rule, with what the calls in progress  *)
(* have still to count, is how often the rule was applied (formatAndLog).       *)
THEOREM CountsAreExact == Spec => []CountsAddUp
  <1>1. Counting => CountsAddUp
    BY DEF Counting
  <1>2. Inv => Typed /\ Routers
    BY DEF Inv
  <1> QED
    BY <1>1, <1>2, CountingInit, CountingStep, Invariant, PTL DEF Spec

-----------------------------------------------------------------------------
(* Complete loads *)

(* A router with every rule of a file and no variable left in any output. *)
Complete(value, f) ==
    /\ value.type
    /\ {r.name : r \in value.rules} = {r.name : r \in Rules[f]}
    /\ \A r \in value.rules : \A k \in DOMAIN r.output :
         \A t \in ToSet(r.output[k]) : t.token # "env"

StoringTo(slot) == {c \in Callers : pc[c] = "store" /\ load[c].slot = slot}

(* A load that has its router to itself has stored what it says; when the last  *)
(* of them has ended, the router is what that one loaded.                       *)
LoadsTrue ==
    /\ \A c \in Callers : pc[c] = "store" =>
         /\ {"left", "alone"} \subseteq DOMAIN load[c]
         /\ load[c].result.ok => Complete(load[c].result.router, load[c].file)
         /\ load[c].alone =>
              /\ StoringTo(load[c].slot) = {c}
              /\ \A word \in {"type", "rules"} \ load[c].left :
                   router[load[c].slot][word] = load[c].result.router[word]
    /\ \A slot \in Slots :
         installed[slot].ok /\ StoringTo(slot) = {} => Complete(router[slot], installed[slot].file)

LEMMA ElementsOfSeq ==
    ASSUME NEW S, NEW seq \in Seq(S)
    PROVE  ToSet(seq) \subseteq S
  BY DEF ToSet

LEMMA VariablesAreFilledIn ==
    ASSUME NEW template, template \in Seq(ToSet(template)),
           NEW t \in ToSet(SubstituteEnvVars(template))
    PROVE  t.token # "env"
  <1> DEFINE All == ToSet(template) \cup UNION {ToSet(Env[name]) : name \in DOMAIN Env}
             S == {u \in All : u.token # "env"}
             part(i) == IF template[i].token = "env" THEN Getenv(template[i].name)
                                                     ELSE <<template[i]>>
             parts == [i \in DOMAIN template |-> part(i)]
  <1>1. ASSUME NEW name PROVE Getenv(name) \in Seq(S)
    <2>1. CASE name \notin DOMAIN Env
      BY <2>1 DEF Getenv
    <2>2. CASE name \in DOMAIN Env
      <3>1. /\ Env[name] \in Seq(ToSet(Env[name]))
            /\ \A u \in ToSet(Env[name]) : u.token # "env"
        BY <2>2, EnvAssumption
      <3>2. ToSet(Env[name]) \subseteq S
        BY <2>2, <3>1
      <3> QED
        BY <2>2, <3>1, <3>2 DEF Getenv
    <2> QED
      BY <2>1, <2>2
  <1>2. ASSUME NEW i \in DOMAIN template PROVE part(i) \in Seq(S)
    <2>1. CASE template[i].token = "env"
      BY <1>1, <2>1
    <2>2. CASE template[i].token # "env"
      <3>1. template[i] \in S
        BY <2>2 DEF ToSet
      <3> HIDE DEF S
      <3> QED
        BY <2>2, <3>1
    <2> QED
      BY <2>1, <2>2
  <1>3. parts \in Seq(Seq(S))
    <2> HIDE DEF part, S
    <2>1. DOMAIN template = 1..Len(template) /\ Len(template) \in Nat
      OBVIOUS
    <2> QED
      BY <1>2, <2>1
  <1>4. SubstituteEnvVars(template) \in Seq(S)
    <2>1. SubstituteEnvVars(template) = FlattenSeq(parts)
      BY DEF SubstituteEnvVars
    <2> HIDE DEF parts, S
    <2> QED
      BY <1>3, <2>1, FlattenSeqType
  <1> QED
    BY <1>4, ElementsOfSeq

LEMMA CompiledIsFilledIn ==
    ASSUME NEW f \in Files, NEW r \in Rules[f], NEW k \in DOMAIN Compiled(r).output,
           NEW t \in ToSet(Compiled(r).output[k])
    PROVE  t.token # "env"
  <1> DEFINE filled == [n \in DOMAIN r.output |-> SubstituteEnvVars(r.output[n])]
  <1>1. Compiled(r).output = SetDefaults(filled)
    BY DEF Compiled
  <1>2. ASSUME NEW n \in DOMAIN filled, NEW u \in ToSet(filled[n]) PROVE u.token # "env"
    BY <1>2, VariablesAreFilledIn, ListsAssumption
  <1> HIDE DEF filled
  <1>3. \/ k \in DOMAIN filled /\ SetDefaults(filled)[k] = filled[k]
        \/ SetDefaults(filled)[k] = <<Text("value")>>
    BY <1>1 DEF SetDefaults
  <1>4. \A u \in ToSet(<<Text("value")>>) : u.token # "env"
    BY DEF ToSet, Text
  <1> QED
    BY <1>1, <1>2, <1>3, <1>4

LEMMA ResultsAreComplete ==
    ASSUME NEW f \in Files, NEW how \in {"parsed", "unparsed"},
           NEW result \in Made(how, f), result.ok
    PROVE  Complete(result.router, f)
  <1>1. ASSUME NEW s \in NewFromRoutes(Rules[f]), s.ok
        PROVE  Complete([type |-> TRUE, rules |-> s.rules], f)
    <2>1. s.rules = {Compiled(q) : q \in Rules[f]}
      BY <1>1 DEF NewFromRoutes
    <2>2. \A q : Compiled(q).name = q.name
      BY DEF Compiled
    <2>3. {q.name : q \in s.rules} = {q.name : q \in Rules[f]}
      BY <2>1, <2>2
    <2> QED
      BY <2>1, <2>3, CompiledIsFilledIn DEF Complete
  <1>2. ASSUME NEW r \in FromBytes(f), r.ok PROVE Complete(r.router, f)
    <2>1. PICK s \in NewFromConfigBytes(Rules[f]) :
            r = [ok |-> s.ok, router |-> [type |-> TRUE, rules |-> s.rules]]
      BY <1>2 DEF FromBytes
    <2>2. s.ok /\ s \in NewFromRoutes(Rules[f])
      BY <1>2, <2>1 DEF NewFromConfigBytes
    <2> QED
      BY <1>1, <2>1, <2>2
  <1>3. ASSUME NEW r \in FromFile(f), r.ok PROVE Complete(r.router, f)
    BY <1>2, <1>3 DEF FromFile
  <1>4. ASSUME NEW r \in FromRoutes(f), r.ok PROVE Complete(r.router, f)
    <2>1. PICK s \in NewFromRoutes(Rules[f]) :
            r = [ok |-> s.ok, router |-> [type |-> TRUE, rules |-> s.rules]]
      BY <1>4 DEF FromRoutes
    <2> QED
      BY <1>1, <1>4, <2>1
  <1> QED
    BY <1>2, <1>3, <1>4 DEF Made

LEMMA LoadsTrueInit == Init => LoadsTrue
  BY DEF Init, LoadsTrue, NoneInstalled

LEMMA LoadsTrueStep == Typed /\ Routers /\ LoadsTrue /\ [Next]_vars => LoadsTrue'
  <1> USE DEF vars, callVars, countVars, seenVars
  <1> SUFFICES ASSUME Typed, Routers, LoadsTrue, [Next]_vars PROVE LoadsTrue'
    OBVIOUS
  <1>a. ASSUME UNCHANGED <<router, load, installed>>,
               \A c \in Callers : pc'[c] = "store" <=> pc[c] = "store"
        PROVE  LoadsTrue'
    <2>1. \A slot : StoringTo(slot)' = StoringTo(slot)
      BY <1>a DEF StoringTo
    <2> QED
      BY <1>a, <2>1 DEF LoadsTrue
  <1>1. ASSUME NEW c \in Callers, NEW slot \in Slots, NEW f \in Files,
               NEW how \in {"parsed", "unparsed"}, NEW result \in Made(how, f),
               SetRouting(c, slot, f, how, result)
        PROVE  LoadsTrue'
    <2> DEFINE others == StoringTo(slot)
    <2>1. /\ pc[c] = "idle" /\ pc' = [pc EXCEPT ![c] = "store"]
          /\ UNCHANGED <<router, installed>>
          /\ load'[c] = [left |-> {"type", "rules"}, slot |-> slot, file |-> f,
                         made |-> how, result |-> result, alone |-> others = {}]
          /\ \A d \in others : load'[d] = [load[d] EXCEPT !.alone = FALSE]
          /\ \A d \in Callers : d # c /\ d \notin others => load'[d] = load[d]
      BY <1>1 DEF SetRouting, StoringTo
    <2>2. c \notin others /\ others \subseteq Callers
      BY <2>1 DEF StoringTo
    <2>r. /\ load'[c].left = {"type", "rules"} /\ load'[c].slot = slot
          /\ load'[c].file = f /\ load'[c].result = result
          /\ load'[c].alone = (others = {})
          /\ {"left", "alone"} \subseteq DOMAIN load'[c]
      <3> HIDE DEF others
      <3> QED
        BY <2>1
    <2>s. ASSUME NEW d \in others
          PROVE  /\ load'[d].left = load[d].left /\ load'[d].slot = load[d].slot
                 /\ load'[d].file = load[d].file /\ load'[d].result = load[d].result
                 /\ load'[d].alone = FALSE
                 /\ {"left", "alone"} \subseteq DOMAIN load'[d]
      <3>1. {"left", "alone"} \subseteq DOMAIN load[d]
        BY DEF LoadsTrue, StoringTo
      <3>2. load'[d] = [load[d] EXCEPT !.alone = FALSE]
        BY <2>1
      <3> HIDE DEF others
      <3> QED
        BY <3>1, <3>2
    <2>t. \A d \in Callers : d # c => load'[d].slot = load[d].slot /\ pc'[d] = pc[d]
      BY <2>1, <2>s DEF Typed
    <2>3. StoringTo(slot)' = others \cup {c}
      BY <2>1, <2>2, <2>r, <2>t DEF StoringTo, Typed
    <2>4. \A s : s # slot => StoringTo(s)' = StoringTo(s)
      BY <2>1, <2>2, <2>r, <2>t DEF StoringTo, Typed
    <2>5. ASSUME NEW d \in Callers, pc'[d] = "store"
          PROVE  (/\ {"left", "alone"} \subseteq DOMAIN load[d]
                  /\ load[d].result.ok => Complete(load[d].result.router, load[d].file)
                  /\ load[d].alone =>
                       /\ StoringTo(load[d].slot) = {d}
                       /\ \A word \in {"type", "rules"} \ load[d].left :
                            router[load[d].slot][word] = load[d].result.router[word])'
      <3>1. CASE d = c
        <4>1. load'[d].alone => others = {}
          BY <2>r, <3>1
        <4>2. (load[d].alone => StoringTo(load[d].slot) = {d})'
          <5>1. load'[d].slot = slot
            BY <2>r, <3>1
          <5>2. load'[d].alone => StoringTo(slot)' = {d}
            BY <2>3, <3>1, <4>1
          <5> QED
            BY <5>1, <5>2 DEF StoringTo
        <4>3. result.ok => Complete(result.router, f)
          BY ResultsAreComplete
        <4> QED
          BY <2>r, <3>1, <4>2, <4>3
      <3>2. CASE d \in others
        <4>1. pc[d] = "store"
          BY <3>2 DEF StoringTo
        <4> QED
          BY <2>s, <3>2, <4>1 DEF LoadsTrue
      <3>3. CASE d # c /\ d \notin others
        <4>1. load'[d] = load[d] /\ pc[d] = "store" /\ load[d].slot # slot
          BY <2>1, <2>5, <3>3 DEF StoringTo, Typed
        <4> QED
          BY <2>1, <2>4, <4>1 DEF LoadsTrue
      <3> QED
        BY <3>1, <3>2, <3>3
    <2>6. ASSUME NEW s \in Slots, installed'[s].ok, StoringTo(s)' = {}
          PROVE  Complete(router[s], installed[s].file)'
      BY <2>1, <2>3, <2>4, <2>6 DEF LoadsTrue
    <2> QED
      BY <2>5, <2>6 DEF LoadsTrue
  <1>2. ASSUME NEW c \in Callers, NEW word \in {"type", "rules"}, Store(c, word)
        PROVE  LoadsTrue'
    <2> DEFINE slot == load[c].slot
               new == load[c].result.router
               rest == load[c].left \ {word}
    <2>1. /\ pc[c] = "store" /\ slot \in Slots /\ c \in StoringTo(slot)
          /\ router'[slot] = [router[slot] EXCEPT ![word] = new[word]]
          /\ \A s \in Slots : s # slot => router'[s] = router[s]
      BY <1>2 DEF Store, Routers, Typed, StoringTo
    <2>2. /\ router'[slot][word] = new[word]
          /\ \A w \in {"type", "rules"} : w # word => router'[slot][w] = router[slot][w]
      BY <2>1 DEF Routers, GoodRouter
    <2>3. \A d \in Callers : d # c => load'[d] = load[d] /\ pc'[d] = pc[d]
      BY <1>2 DEF Store, Typed
    <2>4. ASSUME NEW d \in Callers, d # c, pc[d] = "store", load[d].alone
          PROVE  load[d].slot # slot
      BY <2>1, <2>4 DEF LoadsTrue, StoringTo
    <2>5. CASE rest # {}
      <3>1. /\ load' = [load EXCEPT ![c].left = rest] /\ UNCHANGED <<pc, installed>>
        BY <1>2, <2>5 DEF Store
      <3>2. /\ load'[c].left = rest /\ load'[c].slot = slot
            /\ load'[c].file = load[c].file /\ load'[c].result = load[c].result
            /\ load'[c].alone = load[c].alone
            /\ {"left", "alone"} \subseteq DOMAIN load'[c]
        BY <2>1, <3>1 DEF LoadsTrue, Typed
      <3>3. \A s : StoringTo(s)' = StoringTo(s)
        BY <2>3, <3>1, <3>2 DEF StoringTo
      <3>4. ASSUME load[c].alone, NEW w \in {"type", "rules"} \ rest
            PROVE  router'[slot][w] = new[w]
        BY <2>1, <2>2, <3>4 DEF LoadsTrue
      <3>5. ASSUME NEW d \in Callers, d # c, pc[d] = "store", load[d].alone,
                   NEW w \in {"type", "rules"} \ load[d].left
            PROVE  router'[load[d].slot][w] = load[d].result.router[w]
        BY <2>1, <2>4, <3>5 DEF LoadsTrue, Routers
      <3>6. ASSUME NEW s \in Slots, installed[s].ok, StoringTo(s) = {}
            PROVE  Complete(router'[s], installed[s].file)
        BY <2>1, <3>6 DEF LoadsTrue
      <3>7. ASSUME NEW d \in Callers, pc'[d] = "store"
            PROVE  (/\ {"left", "alone"} \subseteq DOMAIN load[d]
                    /\ load[d].result.ok => Complete(load[d].result.router, load[d].file)
                    /\ load[d].alone =>
                         /\ StoringTo(load[d].slot) = {d}
                         /\ \A w \in {"type", "rules"} \ load[d].left :
                              router[load[d].slot][w] = load[d].result.router[w])'
        <4>1. CASE d = c
          <5>1. /\ load[c].result.ok => Complete(load[c].result.router, load[c].file)
                /\ load[c].alone => StoringTo(slot) = {c}
            BY <2>1 DEF LoadsTrue
          <5>2. (load[c].alone => StoringTo(load[c].slot) = {c})'
            <6>1. StoringTo(slot) = {e \in Callers : pc'[e] = "store" /\ load'[e].slot = slot}
              BY <2>3, <3>1, <3>2 DEF StoringTo
            <6> QED
              BY <3>2, <5>1, <6>1 DEF StoringTo
          <5>3. load'[c].alone => \A w \in {"type", "rules"} \ load'[c].left :
                                    router'[load'[c].slot][w] = load'[c].result.router[w]
            BY <3>2, <3>4
          <5> QED
            BY <3>2, <4>1, <5>1, <5>2, <5>3
        <4>2. CASE d # c
          BY <2>3, <3>1, <3>3, <3>5, <3>7, <4>2 DEF LoadsTrue
        <4> QED
          BY <4>1, <4>2
      <3>8. ASSUME NEW s \in Slots, installed'[s].ok, StoringTo(s)' = {}
            PROVE  Complete(router[s], installed[s].file)'
        BY <3>1, <3>3, <3>6, <3>8
      <3> QED
        BY <3>7, <3>8 DEF LoadsTrue
    <2>6. CASE rest = {}
      <3>1. /\ pc' = [pc EXCEPT ![c] = "idle"]
            /\ installed' = [installed EXCEPT ![slot] =
                 IF load[c].alone THEN [ok |-> load[c].result.ok, file |-> load[c].file]
                                  ELSE NoneInstalled]
        BY <1>2, <2>6 DEF Store
      <3>2. \A s : StoringTo(s)' = StoringTo(s) \ {c}
        BY <2>3, <3>1 DEF StoringTo, Typed
      <3>3. ASSUME NEW d \in Callers, pc'[d] = "store"
            PROVE  (/\ {"left", "alone"} \subseteq DOMAIN load[d]
                    /\ load[d].result.ok => Complete(load[d].result.router, load[d].file)
                    /\ load[d].alone =>
                         /\ StoringTo(load[d].slot) = {d}
                         /\ \A w \in {"type", "rules"} \ load[d].left :
                              router[load[d].slot][w] = load[d].result.router[w])'
        <4>1. d # c /\ load'[d] = load[d] /\ pc[d] = "store"
          BY <2>3, <3>1, <3>3 DEF Typed
        <4>2. ASSUME load[d].alone
              PROVE  /\ StoringTo(load[d].slot)' = {d}
                     /\ router'[load[d].slot] = router[load[d].slot]
          <5>1. load[d].slot # slot /\ load[d].slot \in Slots
            BY <2>4, <4>1, <4>2 DEF Routers
          <5>2. StoringTo(load[d].slot) = {d}
            BY <4>1, <4>2 DEF LoadsTrue
          <5>3. StoringTo(load[d].slot)' = StoringTo(load[d].slot) \ {c}
            BY <2>3, <3>1, <4>1 DEF StoringTo, Typed
          <5> QED
            BY <2>1, <4>1, <5>1, <5>2, <5>3
        <4> QED
          BY <4>1, <4>2 DEF LoadsTrue
      <3>4. ASSUME NEW s \in Slots, installed'[s].ok, StoringTo(s)' = {}
            PROVE  Complete(router[s], installed[s].file)'
        <4>1. CASE s # slot
          <5>1. /\ installed'[s] = installed[s] /\ router'[s] = router[s]
                /\ StoringTo(s) = {}
            <6>1. installed'[s] = installed[s] /\ router'[s] = router[s]
              BY <2>1, <3>1, <4>1 DEF Typed
            <6>2. c \notin StoringTo(s)
              BY <4>1 DEF StoringTo
            <6> QED
              BY <3>2, <3>4, <6>1, <6>2
          <5> QED
            BY <3>4, <5>1 DEF LoadsTrue
        <4>2. CASE s = slot
          <5>1. load[c].alone /\ installed'[s] = [ok |-> load[c].result.ok, file |-> load[c].file]
            BY <2>1, <3>1, <3>4, <4>2 DEF NoneInstalled, Typed
          <5>2. load[c].result.ok /\ installed'[s].file = load[c].file
            BY <3>4, <5>1
          <5>3. Complete(new, load[c].file)
            BY <2>1, <5>2 DEF LoadsTrue
          <5>4. router'[s].type = new.type /\ router'[s].rules = new.rules
            <6>1. \A w \in {"type", "rules"} \ load[c].left : router[slot][w] = new[w]
              BY <2>1, <5>1 DEF LoadsTrue
            <6>2. \A w \in {"type", "rules"} : router'[slot][w] = new[w]
              BY <2>2, <2>6, <6>1
            <6> QED
              BY <4>2, <6>2
          <5> QED
            BY <5>2, <5>3, <5>4 DEF Complete
        <4> QED
          BY <4>1, <4>2
      <3> QED
        BY <3>3, <3>4 DEF LoadsTrue
    <2> QED
      BY <2>5, <2>6
  <1>3. ASSUME NEW c \in Callers, NEW l, LogCheck(c, l) PROVE LoadsTrue'
    BY <1>3, <1>a DEF LogCheck, Use, Typed
  <1>4. ASSUME NEW c \in Callers, GlobalCheck(c) \/ LogPanic(c) \/ Route(c) \/ Counted(c)
        PROVE  LoadsTrue'
    BY <1>4, <1>a DEF GlobalCheck, LogPanic, Route, Counted, Use, EndCall, Typed
  <1>5. ASSUME NEW c \in Callers, NEW output, Count(c, output) PROVE LoadsTrue'
    BY <1>5, <1>a DEF Count
  <1>6. CASE UNCHANGED vars
    BY <1>6, <1>a
  <1> QED
    BY <1>1, <1>2, <1>3, <1>4, <1>5, <1>6, NextSteps

(* A router whose last load ended without an error, and had it to itself, has   *)
(* every rule of its file with its variables filled in, whatever the loads      *)
(* before it did and whatever is in the environment (NewFromRoutes).            *)
THEOREM LoadsAreComplete == Spec => []LoadedIsComplete
  <1>1. LoadsTrue => LoadedIsComplete
    <2> SUFFICES ASSUME LoadsTrue, NEW slot \in Slots, installed[slot].ok,
                        \A c \in Callers : pc[c] = "store" => load[c].slot # slot
                 PROVE  Complete(router[slot], installed[slot].file)
      BY DEF LoadedIsComplete, Complete
    <2>1. StoringTo(slot) = {}
      BY DEF StoringTo
    <2> QED
      BY <2>1 DEF LoadsTrue
  <1>2. Inv => Typed /\ Routers
    BY DEF Inv
  <1> QED
    BY <1>1, <1>2, LoadsTrueInit, LoadsTrueStep, Invariant, PTL DEF Spec
==============================================================================
