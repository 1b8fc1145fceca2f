----------------------------- MODULE RollupRouter -----------------------------
(* The rollups of middleware/rollup.go: requests that finish add their log     *)
(* line to the rollup of their key; every rollup has a goroutine that reports  *)
(* what it holds each time its timer fires, until the context is cancelled.    *)
(*                                                                            *)
(* A critical section of rollupsMu or of a rollup's rollupMu is one step.  A   *)
(* rollup is identified by the request that created it.                        *)
EXTENDS Integers, FiniteSets, Sequences, Functions

CONSTANTS
    Requests,       \* requests, each finishes once
    Line,           \* request -> [status, method, op, time]
    Absent,         \* the op of a line that has none
    SlowTime,       \* 500 ms, in nanoseconds
    Millisecond,    \* a millisecond in nanoseconds
    NoRollup, NoReport

(* A name is the sequence of its parts between dashes: <<"get", "user">> is    *)
(* the op "get-user".                                                          *)
Names == Seq(STRING)

ASSUME LineAssumption ==
    /\ IsFiniteSet(Requests)
    /\ \A r \in Requests :
         /\ Line[r].status \in Nat /\ Line[r].time \in Nat
         /\ Line[r].method \in Names
         /\ Line[r].op = Absent \/ Line[r].op \in Names
    /\ SlowTime \in Nat /\ Millisecond \in Nat \ {0}
    /\ NoRollup \notin Requests

VARIABLES
    ctx,        \* "open", "done": the context EnableRollups was given
    ctxDone,    \* field of RollupRouter, set under rollupsMu, read without it
    rollups,    \* key -> rollup
    pc,         \* per request, see RequestStates
    target,     \* per request: what findOrCreate returned
    schedule,   \* per rollup: "none", "select", "report", "exited"
    held,       \* per rollup: the lines in rollupMsg; {} when it is nil
    count, nsSum,   \* rollupMsg["count"] and rollupResponseTimeNsSum
    published,  \* per rollup: its latest report
    reported    \* per request: how many reports contained its line

routerVars == <<ctxDone, rollups>>
rollupVars == <<schedule, held, count, nsSum, published, reported>>
vars == <<ctx, routerVars, pc, target, rollupVars>>

RequestStates == {"serving", "find", "add", "rolled", "dropped", "logged"}

Init ==
    /\ ctx = "open" /\ ctxDone = FALSE
    /\ rollups = [k \in {} |-> NoRollup]
    /\ pc = [r \in Requests |-> "serving"]
    /\ target = [r \in Requests |-> NoRollup]
    /\ schedule = [o \in Requests |-> "none"]
    /\ held = [o \in Requests |-> {}]
    /\ count = [o \in Requests |-> 0]
    /\ nsSum = [o \in Requests |-> 0]
    /\ published = [o \in Requests |-> NoReport]
    /\ reported = [r \in Requests |-> 0]

-----------------------------------------------------------------------------
(* A request that finishes *)

ShouldRollup(line) ==
    /\ line.op # Absent
    /\ line.status >= 200 /\ line.status < 300
    /\ line.time < SlowTime

LogLevelFromStatus(status) ==
    IF status >= 499 THEN "error" ELSE IF status >= 400 THEN "warning" ELSE "info"

(* ServeHTTP logs the line itself. *)
LogDirectly(r) ==
    /\ pc[r] = "serving" /\ ~ShouldRollup(Line[r])
    /\ pc' = [pc EXCEPT ![r] = "logged"]
    /\ UNCHANGED <<ctx, routerVars, target, rollupVars>>

(* Process reads ctxDone with no lock: once it has been set, the read still    *)
(* may return the old value.                                                   *)
Process(r) ==
    /\ pc[r] = "serving" /\ ShouldRollup(Line[r])
    /\ \E seen \in {ctxDone, FALSE} :
         pc' = [pc EXCEPT ![r] = IF seen THEN "dropped" ELSE "find"]
    /\ UNCHANGED <<ctx, routerVars, target, rollupVars>>

(* fmt.Sprintf("%d-%s-%s", statusCode, method, op) *)
RollupKey(line) == <<line.status, line.method \o line.op>>

(* Defective variants: the map is not looked at under the lock; the new rollup  *)
(* has no goroutine; the rollup is not returned.                                *)
NeverFound(key) == FALSE
NotStarted(o) == UNCHANGED schedule
NotReturned(r, o) == UNCHANGED target

Found(key) == key \in DOMAIN rollups
Started(o) == schedule' = [schedule EXCEPT ![o] = "select"]
Returned(r, o) == target' = [target EXCEPT ![r] = o]

(* The map and the goroutine are made in one critical section of rollupsMu. *)
FindOrCreate(r) ==
    LET key == RollupKey(Line[r]) IN
    /\ pc[r] = "find"
    /\ pc' = [pc EXCEPT ![r] = "add"]
    /\ IF Found(key)
         THEN Returned(r, rollups[key]) /\ UNCHANGED <<rollups, schedule>>
         ELSE /\ Returned(r, r)
              /\ rollups' = [k \in DOMAIN rollups \cup {key} |->
                               IF k = key THEN r ELSE rollups[k]]
              /\ Started(r)
    /\ UNCHANGED <<ctx, ctxDone, held, count, nsSum, published, reported>>

Add(r) ==
    LET o == target[r] IN
    /\ pc[r] = "add"
    /\ pc' = [pc EXCEPT ![r] = "rolled"]
    /\ held' = [held EXCEPT ![o] = @ \cup {r}]
    /\ count' = [count EXCEPT ![o] = @ + 1]
    /\ nsSum' = [nsSum EXCEPT ![o] = @ + Line[r].time]
    /\ UNCHANGED <<ctx, routerVars, target, schedule, published, reported>>

-----------------------------------------------------------------------------
(* The goroutine of a rollup: select between the context and the timer.  When  *)
(* both are ready it may take either.                                          *)

TimerFires(o) ==
    /\ schedule[o] = "select"
    /\ schedule' = [schedule EXCEPT ![o] = "report"]
    /\ UNCHANGED <<ctx, routerVars, pc, target, held, count, nsSum, published, reported>>

(* Defective variants: the message, the sum of the response times is not reset;  *)
(* the goroutine returns after its first report.                                *)
MessageKept(o) == UNCHANGED <<held, count>>
SumKept(o) == UNCHANGED nsSum
OneReport == "exited"

MessageReset(o) ==
    held' = [held EXCEPT ![o] = {}] /\ count' = [count EXCEPT ![o] = 0]
SumReset(o) == nsSum' = [nsSum EXCEPT ![o] = 0]
AfterReport == "select"

Report(o) ==
    /\ schedule[o] = "report"
    /\ schedule' = [schedule EXCEPT ![o] = AfterReport]
    /\ IF held[o] = {}
         THEN UNCHANGED <<held, count, nsSum, published, reported>>
         ELSE /\ LET ms == nsSum[o] \div Millisecond IN
                 published' = [published EXCEPT ![o] =
                     [status |-> Line[o].status, method |-> Line[o].method,
                      op |-> Line[o].op, lines |-> held[o],
                      count |-> count[o], msSum |-> ms, ms |-> ms \div count[o],
                      level |-> LogLevelFromStatus(Line[o].status)]]
              /\ reported' = [r \in Requests |->
                     IF r \in held[o] THEN reported[r] + 1 ELSE reported[r]]
              /\ MessageReset(o) /\ SumReset(o)
    /\ UNCHANGED <<ctx, routerVars, pc, target>>

(* Defective variant: "break" for "return" leaves the select only. *)
ScheduleBreaks(o) ==
    /\ schedule[o] = "select" /\ ctx = "done"
    /\ UNCHANGED vars

ScheduleStops(o) ==
    /\ schedule[o] = "select" /\ ctx = "done"
    /\ schedule' = [schedule EXCEPT ![o] = "exited"]
    /\ UNCHANGED <<ctx, routerVars, pc, target, held, count, nsSum, published, reported>>

-----------------------------------------------------------------------------
(* The context *)

Cancel ==
    /\ ctx = "open"
    /\ ctx' = "done"
    /\ UNCHANGED <<routerVars, pc, target, rollupVars>>

(* The goroutine NewRollupRouter starts. *)
RouterStops ==
    /\ ctx = "done" /\ ~ctxDone
    /\ rollups' = [k \in {} |-> NoRollup]
    /\ ctxDone' = TRUE
    /\ UNCHANGED <<ctx, pc, target, rollupVars>>

(* Every request is answered and every goroutine has returned. *)
Terminating ==
    /\ ctxDone
    /\ \A r \in Requests : /\ pc[r] \in {"rolled", "dropped", "logged"}
                           /\ schedule[r] \in {"none", "exited"}
    /\ UNCHANGED vars

Next ==
    \/ \E r \in Requests :
         \/ LogDirectly(r) \/ Process(r) \/ FindOrCreate(r) \/ Add(r)
         \/ TimerFires(r) \/ Report(r) \/ ScheduleStops(r)
    \/ Cancel
    \/ RouterStops
    \/ Terminating

Spec == Init /\ [][Next]_vars

(* Runnable goroutines run and timers fire.  A goroutine in select leaves it   *)
(* by the context in the end: select picks at random when the timer is ready   *)
(* too.  Nothing is assumed about Cancel, nor that requests finish.            *)
Fairness ==
    /\ WF_vars(RouterStops)
    /\ \A r \in Requests :
         /\ WF_vars(FindOrCreate(r) \/ Add(r))
         /\ WF_vars(TimerFires(r) \/ Report(r))
         /\ SF_vars(ScheduleStops(r))

FairSpec == Spec /\ Fairness

-----------------------------------------------------------------------------
(* Properties *)

(* A request has been given a rollup exactly when findOrCreate has run.        *)
TargetOK ==
    \A r \in Requests :
        /\ pc[r] \in {"add", "rolled"} => target[r] \in Requests
        /\ pc[r] \notin {"add", "rolled"} => target[r] = NoRollup

\* The variables hold what the Go fields and goroutines can hold, and a request
\* that goes on to add its line has been given a rollup.
TypeOK ==
    /\ TargetOK
    /\ ctx \in {"open", "done"} /\ ctxDone \in BOOLEAN
    /\ \A k \in DOMAIN rollups : rollups[k] \in Requests
    /\ pc \in [Requests -> RequestStates]
    /\ target \in [Requests -> Requests \cup {NoRollup}]
    /\ schedule \in [Requests -> {"none", "select", "report", "exited"}]
    /\ held \in [Requests -> SUBSET Requests]
    /\ count \in [Requests -> Nat]
    /\ nsSum \in [Requests -> Nat]
    /\ reported \in [Requests -> Nat]

\* A line that went to a rollup is in exactly one place: held by the rollup it
\* was given, or reported, once - whatever reports, cancellation and other
\* requests do in between.  (findOrCreate, add, report)
LineInOnePlace ==
    \A r \in Requests :
        IF pc[r] = "rolled"
          THEN \/ reported[r] = 0 /\ {o \in Requests : r \in held[o]} = {target[r]}
               \/ reported[r] = 1 /\ \A o \in Requests : r \notin held[o]
          ELSE reported[r] = 0 /\ \A o \in Requests : r \notin held[o]

\* Until the context is cancelled a rollup that holds a line, or is about to be
\* given one, has a goroutine that will report it.  (findOrCreate, schedule)
HeldLinesAreScheduled ==
    ctx = "open" =>
        \A o \in Requests :
            \/ held[o] # {}
            \/ \E r \in Requests : pc[r] = "add" /\ target[r] = o
            => schedule[o] \in {"select", "report"}

\* Requests that race to create the rollup of a key get the same one, as long
\* as the context is open.  (findOrCreate)
OneRollupPerKey ==
    ctx = "open" =>
        \A p, q \in Requests :
            /\ target[p] # NoRollup /\ target[q] # NoRollup
            /\ RollupKey(Line[p]) = RollupKey(Line[q])
            => target[p] = target[q]

\* "create a rollup object per unique (status-code, op) pair" (RollupRouter):
\* while the context is open, lines are given one rollup exactly when they are
\* of one pair.  The key the code looks it up with has the method too, and joins
\* its parts with dashes that names may have themselves.  (findOrCreate)
OneRollupPerPair ==
    ctx = "open" =>
        \A p, q \in Requests :
            target[p] # NoRollup /\ target[q] # NoRollup =>
                (target[p] = target[q] <=>
                     /\ Line[p].status = Line[q].status
                     /\ Line[p].op = Line[q].op)

TotalTime(lines) == SumFunctionOnSet([r \in Requests |-> Line[r].time], lines)

\* "response-time-ms-sum" is the whole milliseconds of the response times of
\* the lines reported, and "count" times "response-time-ms" never exceeds it:
\* what a report leaves behind does not leak into the next one.  (report, add)
ReportAddsUp ==
    \A o \in Requests : published[o] # NoReport =>
        LET p == published[o] IN
        /\ p.count = Cardinality(p.lines)
        /\ p.msSum * Millisecond <= TotalTime(p.lines)
        /\ TotalTime(p.lines) < (p.msSum + 1) * Millisecond
        /\ p.ms * p.count <= p.msSum

\* "Rollups will stop when the context is canceled" (NewRollupRouter): no line
\* is added to a rollup once the router has stopped.
NoLineAddedAfterStop ==
    [][ctxDone => \A o \in Requests : held'[o] \subseteq held[o]]_vars

\* A line that was rolled up is reported unless the context is cancelled.
\* (schedule, report)
RolledLinesAreReported ==
    \A r \in Requests :
        pc[r] = "rolled" ~> (reported[r] = 1 \/ ctx = "done")

\* The goroutine of every rollup ends after the context is cancelled, those of
\* rollups created after the cancellation too.  (schedule)
SchedulesEnd ==
    \A o \in Requests :
        (schedule[o] = "select" /\ ctx = "done") ~> schedule[o] = "exited"
==============================================================================
