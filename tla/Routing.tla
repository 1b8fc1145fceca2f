------------------------------- MODULE Routing -------------------------------
(* The routers of logger/logger.go: one that all loggers share (globalRouter),  *)
(* replaced by SetGlobalRouting and SetGlobalRoutingFromBytes, and one a logger *)
(* may have of its own (logRouter), replaced by SetRouter.  Every log call uses *)
(* one of them, with no lock on either side.  An interface value is two words,  *)
(* its type and its data; a replacement stores them one after the other, in     *)
(* either order, and a log call reads the type to test it for nil and both to   *)
(* call it.  The lines go to the mock logger, which counts the rules applied.   *)
EXTENDS RoutingRules

CONSTANTS
    Callers,        \* goroutines that log, and that load configurations
    Lines,          \* the data maps of log calls, merged with the context
    Files,          \* configurations
    Rules,          \* file -> its rules
    Unreadable,     \* files os.Open or ReadAll fails on
    MaxLoads, MaxLines, \* bounds on the loads and on the log calls
    NilRules        \* the data word of a nil interface

ASSUME CallersAssumption == IsFiniteSet(Callers)
ASSUME FilesAssumption ==
    /\ Unreadable \subseteq Files
    /\ \A f \in Files : \A r, s \in Rules[f] : r.name = s.name => r = s
\* A file has lists: matchers[field] and output[key] are sequences.
ASSUME ListsAssumption ==
    \A f \in Files : \A r \in Rules[f] :
        /\ \A m \in DOMAIN r.matchers : r.matchers[m] \in Seq(ToSet(r.matchers[m]))
        /\ \A k \in DOMAIN r.output : r.output[k] \in Seq(ToSet(r.output[k]))
ASSUME BoundsAssumption == {MaxLoads, MaxLines} \subseteq Nat

VARIABLES
    router,         \* slot -> [type |-> not nil, rules |-> the data word]
    made,           \* slot -> how the rules in its data word were made, see Made
    pc,             \* "idle", "store", "check", "route", "count", "panicked"
    load,           \* per caller: the load in progress, see NoLoad
    data,           \* per caller: the line being logged
    via,            \* per caller: the slot whose router the call uses
    routes,         \* per caller: outputs the mock logger has not counted yet
    routeMatches,   \* rule -> the outputs counted for it, as a bag
    lines, loads,   \* how many log calls and loads there have been
    installed,      \* slot -> the last load, if no other ran at the same time
    nilSeen,        \* per caller: that router was nil at some time of the call
    unparsedSeen,   \* per caller: its rules had not been through parse, likewise
    ownAllAlong,    \* per caller: logRouter was never nil during the call
    routed          \* every rule applied to a line so far: rule -> how often

callVars == <<data, via, routes>>
countVars == <<routeMatches, routed>>
seenVars == <<nilSeen, unparsedSeen, ownAllAlong>>
vars == <<router, made, pc, load, callVars, countVars, lines, loads, installed, seenVars>>

Slots == {"global", "own"}      \* globalRouter, l.logRouter
RuleNames == UNION {{r.name : r \in Rules[f]} : f \in Files}
NilRouter == [type |-> FALSE, rules |-> NilRules]
Usable(value) == value.type /\ value.rules # NilRules

NoLoad == [left |-> {}]
NoneInstalled == [ok |-> FALSE]

Init ==
    /\ router = [slot \in Slots |-> NilRouter]
    /\ made = [slot \in Slots |-> "parsed"]
    /\ pc = [c \in Callers |-> "idle"]
    /\ load = [c \in Callers |-> NoLoad]
    /\ data = [c \in Callers |-> <<>>]
    /\ via = [c \in Callers |-> "own"]
    /\ routes = [c \in Callers |-> {}]
    /\ routeMatches = [n \in RuleNames |-> 0]
    /\ lines = 0 /\ loads = 0
    /\ installed = [slot \in Slots |-> NoneInstalled]
    /\ nilSeen = [c \in Callers |-> FALSE]
    /\ unparsedSeen = [c \in Callers |-> FALSE]
    /\ ownAllAlong = [c \in Callers |-> FALSE]
    /\ routed = [n \in RuleNames |-> 0]

Alive == \A c \in Callers : pc[c] # "panicked"

-----------------------------------------------------------------------------
(* SetGlobalRouting, SetGlobalRoutingFromBytes and SetRouter                    *)

FromBytes(f) ==
    IF f \in Unreadable THEN {}
    ELSE {[ok |-> result.ok, router |-> [type |-> TRUE, rules |-> result.rules]] :
            result \in NewFromConfigBytes(Rules[f])}

(* NewFromConfig returns nil with any error. *)
FromFile(f) ==
    IF f \in Unreadable THEN {[ok |-> FALSE, router |-> NilRouter]}
    ELSE {IF result.ok THEN result ELSE [ok |-> FALSE, router |-> NilRouter] :
            result \in FromBytes(f)}

(* NewFromRoutes, called by the application: rules that no schema was asked of. *)
FromRoutes(f) ==
    {[ok |-> result.ok, router |-> [type |-> TRUE, rules |-> result.rules]] :
       result \in NewFromRoutes(Rules[f])}

(* The routers an application can make of the rules of a file. *)
Made(how, f) == IF how = "unparsed" THEN FromRoutes(f) ELSE FromFile(f) \cup FromBytes(f)

(* A load of the slot begins: the new router is made, not yet assigned. *)
SetRouting(c, slot, f, how, result) ==
    LET others == {d \in Callers : pc[d] = "store" /\ load[d].slot = slot} IN
    /\ pc[c] = "idle" /\ loads < MaxLoads
    /\ pc' = [pc EXCEPT ![c] = "store"]
    /\ load' = [d \in Callers |->
         IF d = c THEN [left |-> {"type", "rules"}, slot |-> slot, file |-> f,
                        made |-> how, result |-> result, alone |-> others = {}]
         ELSE IF d \in others THEN [load[d] EXCEPT !.alone = FALSE]
         ELSE load[d]]
    /\ loads' = loads + 1
    /\ UNCHANGED <<router, made, callVars, countVars, lines, installed, seenVars>>

SetGlobalRouting(c, f, result) == SetRouting(c, "global", f, "parsed", result)

(* The application makes the router, and hands it over whatever the error was. *)
SetRouter(c, f, how, result) == SetRouting(c, "own", f, how, result)

Store(c, word) ==
    LET slot == load[c].slot
        rest == load[c].left \ {word}
    IN
    /\ pc[c] = "store" /\ word \in load[c].left
    /\ router' = [router EXCEPT ![slot][word] = load[c].result.router[word]]
    /\ made' = IF word = "rules" THEN [made EXCEPT ![slot] = load[c].made] ELSE made
    /\ nilSeen' = [d \in Callers |->
         nilSeen[d] \/ (pc[d] = "route" /\ ~Usable(router'[via[d]]))]
    /\ unparsedSeen' = [d \in Callers |->
         unparsedSeen[d] \/ (pc[d] = "route" /\ made'[via[d]] = "unparsed")]
    /\ ownAllAlong' = [d \in Callers |-> ownAllAlong[d] /\ router'["own"].type]
    /\ IF rest # {}
         THEN /\ load' = [load EXCEPT ![c].left = rest]
              /\ UNCHANGED <<pc, installed>>
         ELSE /\ load' = [load EXCEPT ![c] = NoLoad]
              /\ pc' = [pc EXCEPT ![c] = "idle"]
              /\ installed' = [installed EXCEPT ![slot] =
                   IF load[c].alone THEN [ok |-> load[c].result.ok, file |-> load[c].file]
                                    ELSE NoneInstalled]
    /\ UNCHANGED <<callVars, countVars, lines, loads>>

-----------------------------------------------------------------------------
(* A log call                                                                   *)

(* The call uses the router of the slot, which it has seen not to be nil. *)
Use(c, slot) ==
    /\ pc' = [pc EXCEPT ![c] = "route"]
    /\ via' = [via EXCEPT ![c] = slot]
    /\ nilSeen' = [nilSeen EXCEPT ![c] = ~Usable(router[slot])]
    /\ unparsedSeen' = [unparsedSeen EXCEPT ![c] = made[slot] = "unparsed"]

(* Defective variant: the global router comes first. *)
GlobalFirst == "global"

First == "own"

(* if l.logRouter != nil *)
LogCheck(c, l) ==
    /\ pc[c] = "idle" /\ lines < MaxLines
    /\ lines' = lines + 1
    /\ data' = [data EXCEPT ![c] = l]
    /\ ownAllAlong' = [ownAllAlong EXCEPT ![c] = router["own"].type]
    /\ IF router[First].type
         THEN Use(c, First)
         ELSE pc' = [pc EXCEPT ![c] = "check"] /\ UNCHANGED <<via, nilSeen, unparsedSeen>>
    /\ UNCHANGED <<router, made, load, routes, countVars, loads, installed>>

EndCall(c) ==
    /\ pc' = [pc EXCEPT ![c] = "idle"]
    /\ data' = [data EXCEPT ![c] = <<>>]
    /\ via' = [via EXCEPT ![c] = "own"]
    /\ nilSeen' = [nilSeen EXCEPT ![c] = FALSE]
    /\ unparsedSeen' = [unparsedSeen EXCEPT ![c] = FALSE]
    /\ ownAllAlong' = [ownAllAlong EXCEPT ![c] = FALSE]

(* else if globalRouter != nil; if it is nil the line has no "_kvmeta", and is  *)
(* not counted.                                                                 *)
GlobalCheck(c) ==
    LET second == CHOOSE slot \in Slots : slot # First IN
    /\ pc[c] = "check"
    /\ IF router[second].type
         THEN Use(c, second) /\ UNCHANGED <<data, ownAllAlong>>
         ELSE EndCall(c)
    /\ UNCHANGED <<router, made, load, routes, countVars, lines, loads, installed>>

(* The compiler may use the type it has tested or read it again. *)
Panics(c) ==
    LET value == router[via[c]] IN
    \/ ~Usable(value)
    \/ /\ value.rules # NilRules
       /\ \E r \in value.rules : "panic" \in Matches(r, data[c])

LogPanic(c) ==
    /\ pc[c] = "route" /\ Panics(c)
    /\ pc' = [pc EXCEPT ![c] = "panicked"]
    /\ UNCHANGED <<router, made, load, callVars, countVars, lines, loads, installed, seenVars>>

Route(c) ==
    LET rules == router[via[c]].rules
        matching == {r \in rules : Matches(r, data[c]) = {"yes"}}
    IN
    /\ pc[c] = "route"
    /\ rules # NilRules
    /\ \A r \in rules : Matches(r, data[c]) # {"panic"}
    /\ routes' = [routes EXCEPT ![c] = {OutputFor(r, data[c]) : r \in matching}]
    /\ routed' = [n \in RuleNames |->
                    IF \E r \in matching : r.name = n THEN routed[n] + 1 ELSE routed[n]]
    /\ pc' = [pc EXCEPT ![c] = "count"]
    /\ UNCHANGED <<router, made, load, data, via, routeMatches, lines, loads, installed,
                   seenVars>>

RuleOf(output) == output["rule"][1].text

(* Defective variant: only the first of the routes is counted. *)
NoneLeft(c, output) == {}

OthersLeft(c, output) == routes[c] \ {output}

(* routeCountingFormatLogger.formatAndLog: a critical section for each route. *)
Count(c, output) ==
    /\ pc[c] = "count" /\ output \in routes[c]
    /\ routeMatches' = [routeMatches EXCEPT ![RuleOf(output)] = @ + 1]
    /\ routes' = [routes EXCEPT ![c] = OthersLeft(c, output)]
    /\ UNCHANGED <<router, made, pc, load, data, via, lines, loads, installed, seenVars,
                   routed>>

Counted(c) ==
    /\ pc[c] = "count" /\ routes[c] = {}
    /\ EndCall(c)
    /\ UNCHANGED <<router, made, load, routes, countVars, lines, loads, installed>>

-----------------------------------------------------------------------------
(* A panic ends the program; the bounds end the run. *)
Terminating ==
    /\ ~Alive \/ (lines = MaxLines /\ loads = MaxLoads
                  /\ \A c \in Callers : pc[c] = "idle")
    /\ UNCHANGED vars

Next ==
    \/ /\ Alive
       /\ \E c \in Callers :
            \/ \E f \in Files, how \in {"parsed", "unparsed"} : \E result \in Made(how, f) :
                 \/ how = "parsed" /\ SetGlobalRouting(c, f, result)
                 \/ SetRouter(c, f, how, result)
            \/ \E word \in {"type", "rules"} : Store(c, word)
            \/ \E l \in Lines : LogCheck(c, l)
            \/ GlobalCheck(c) \/ LogPanic(c) \/ Route(c) \/ Counted(c)
            \/ \E output \in routes[c] : Count(c, output)
    \/ Terminating

Spec == Init /\ [][Next]_vars

-----------------------------------------------------------------------------
(* Properties *)

\* A log call panics in routing only when the router it uses was nil, in one word
\* or both, at some time during the call, or was then the logger's own and held
\* rules of NewFromRoutes, which looks at no list of values.  No configuration that
\* parse accepts makes matching panic, by whichever router and however many stores
\* it gets there, and the global router never panics but around nil.
\* (logWithLevel, SetGlobalRouting, SetRouter, fieldMatches, parse)
ParsedRulesDoNotPanic ==
    \A c \in Callers : pc[c] = "panicked" =>
        nilSeen[c] \/ (via[c] = "own" /\ unparsedSeen[c])

\* "Once set, logs produced by this logger will not be touched by the global
\* router" (SetRouter): a call during all of which the logger has a router of its
\* own does not use the global one, whatever the other callers store meanwhile.
OwnRouterWins ==
    \A c \in Callers :
        pc[c] \in {"route", "count"} /\ ownAllAlong[c] => via[c] = "own"

\* When the last load of a router returned no error, and no other ran at the same
\* time, the router has every rule of its file, with every variable filled in.
\* (SetGlobalRouting, SetRouter, NewFromRoutes)
LoadedIsComplete ==
    \A slot \in Slots :
        LET value == router[slot]
            rules == Rules[installed[slot].file]
        IN
        /\ installed[slot].ok
        /\ \A c \in Callers : pc[c] = "store" => load[c].slot # slot
        => /\ value.type
           /\ {r.name : r \in value.rules} = {r.name : r \in rules}
           /\ \A r \in value.rules : \A k \in DOMAIN r.output :
                \A t \in ToSet(r.output[k]) : t.token # "env"

\* The mock logger's counts are those of the rules applied, however the lines of
\* several goroutines and their routes are interleaved.  (formatAndLog)
CountsAddUp ==
    \A n \in RuleNames :
        routed[n] = routeMatches[n] +
            Cardinality({c \in Callers : \E o \in routes[c] : RuleOf(o) = n})
==============================================================================
