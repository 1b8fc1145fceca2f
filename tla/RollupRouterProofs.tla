-------------------------- MODULE RollupRouterProofs --------------------------
(* What holds of RollupRouter for any number of requests and any lines.        *)
EXTENDS RollupRouter, SumFacts, SequenceTheorems, TLAPS

USE LineAssumption
USE DEF Found, Started, Returned, MessageReset, SumReset, AfterReport

(* Type correctness of the rollup router: counters and sums are natural, and a  *)
(* request adds its line to a rollup that findOrCreate has returned.           *)
THEOREM TypeCorrect == Spec => [](TypeOK /\ TargetOK)
  <1> USE DEF vars, routerVars, rollupVars
  <1>1. Init => TypeOK /\ TargetOK
    <2> SUFFICES ASSUME Init PROVE TypeOK /\ TargetOK
      OBVIOUS
    <2>1. DOMAIN rollups = {}
      BY DEF Init
    <2>2. TargetOK
      BY DEF Init, TargetOK
    <2> QED
      BY <2>1, <2>2 DEF Init, TypeOK, RequestStates
  <1>2. TypeOK /\ TargetOK /\ [Next]_vars => (TypeOK /\ TargetOK)'
    <2> SUFFICES ASSUME TypeOK, TargetOK, [Next]_vars PROVE TypeOK' /\ TargetOK'
      OBVIOUS
    <2>1. ASSUME NEW r \in Requests, LogDirectly(r) PROVE TypeOK' /\ TargetOK'
      BY <2>1 DEF LogDirectly, TypeOK, TargetOK, RequestStates
    <2>2. ASSUME NEW r \in Requests, Process(r) PROVE TypeOK' /\ TargetOK'
      BY <2>2 DEF Process, TypeOK, TargetOK, RequestStates
    <2>3. ASSUME NEW r \in Requests, FindOrCreate(r) PROVE TypeOK' /\ TargetOK'
      <3> DEFINE key == RollupKey(Line[r])
      <3>1. CASE key \in DOMAIN rollups
        BY <2>3, <3>1 DEF FindOrCreate, TypeOK, TargetOK, RequestStates
      <3>2. CASE key \notin DOMAIN rollups
        BY <2>3, <3>2 DEF FindOrCreate, TypeOK, TargetOK, RequestStates
      <3> QED
        BY <3>1, <3>2
    <2>4. ASSUME NEW r \in Requests, Add(r) PROVE TypeOK' /\ TargetOK'
      <3>1. target[r] \in Requests
        BY <2>4 DEF Add, TargetOK
      <3> QED
        BY <2>4, <3>1 DEF Add, TypeOK, TargetOK, RequestStates
    <2>5. ASSUME NEW o \in Requests, TimerFires(o) \/ ScheduleStops(o)
          PROVE  TypeOK' /\ TargetOK'
      BY <2>5 DEF TimerFires, ScheduleStops, TypeOK, TargetOK
    <2>6. ASSUME NEW o \in Requests, Report(o) PROVE TypeOK' /\ TargetOK'
      <3>1. CASE held[o] = {}
        BY <2>6, <3>1 DEF Report, TypeOK, TargetOK
      <3>2. CASE held[o] # {}
        BY <2>6, <3>2 DEF Report, TypeOK, TargetOK
      <3> QED
        BY <3>1, <3>2
    <2>7. CASE Cancel
      BY <2>7 DEF Cancel, TypeOK, TargetOK
    <2>8. CASE RouterStops
      BY <2>8 DEF RouterStops, TypeOK, TargetOK
    <2>9. CASE UNCHANGED vars
      BY <2>9 DEF TypeOK, TargetOK
    <2> QED
      BY <2>1, <2>2, <2>3, <2>4, <2>5, <2>6, <2>7, <2>8, <2>9
      DEF Next, Terminating
  <1> QED
    BY <1>1, <1>2, PTL DEF Spec

-----------------------------------------------------------------------------
(* Conservation, line by line *)

HeldBy(r) == {o \in Requests : r \in held[o]}

LEMMA InOnePlaceStep ==
    TypeOK /\ TargetOK /\ LineInOnePlace /\ [Next]_vars => LineInOnePlace'
  <1> USE DEF vars, routerVars, rollupVars
  <1> SUFFICES ASSUME TypeOK, TargetOK, LineInOnePlace, [Next]_vars
               PROVE  LineInOnePlace'
    OBVIOUS
  <1>a. ASSUME UNCHANGED <<target, held, reported>>,
               \A q \in Requests : (pc'[q] = "rolled") = (pc[q] = "rolled")
        PROVE  LineInOnePlace'
    BY <1>a DEF LineInOnePlace
  <1>1. ASSUME NEW r \in Requests, LogDirectly(r) PROVE LineInOnePlace'
    BY <1>1, <1>a DEF LogDirectly, TypeOK
  <1>2. ASSUME NEW r \in Requests, Process(r) PROVE LineInOnePlace'
    BY <1>2, <1>a DEF Process, TypeOK
  <1>3. ASSUME NEW r \in Requests, FindOrCreate(r) PROVE LineInOnePlace'
    <2>1. /\ UNCHANGED <<held, reported>>
          /\ \A q \in Requests : pc[q] = "rolled" => target'[q] = target[q]
          /\ \A q \in Requests : (pc'[q] = "rolled") = (pc[q] = "rolled")
      BY <1>3 DEF FindOrCreate, TypeOK
    <2> QED
      BY <2>1 DEF LineInOnePlace
  <1>4. ASSUME NEW r \in Requests, Add(r) PROVE LineInOnePlace'
    <2>1. /\ target[r] \in Requests /\ pc[r] = "add"
          /\ UNCHANGED <<target, reported>>
          /\ pc' = [pc EXCEPT ![r] = "rolled"]
          /\ held' = [held EXCEPT ![target[r]] = @ \cup {r}]
      BY <1>4 DEF Add, TargetOK
    <2>2. reported[r] = 0 /\ \A o \in Requests : r \notin held[o]
      BY <2>1 DEF LineInOnePlace
    <2>3. {o \in Requests : r \in held'[o]} = {target'[r]}
      BY <2>1, <2>2 DEF TypeOK
    <2>4. \A q \in Requests : q # r =>
            /\ pc'[q] = pc[q]
            /\ \A o \in Requests : (q \in held'[o]) = (q \in held[o])
      BY <2>1 DEF TypeOK
    <2>5. ASSUME NEW q \in Requests, q # r
          PROVE  {o \in Requests : q \in held'[o]} = {o \in Requests : q \in held[o]}
      BY <2>4, <2>5
    <2> QED
      BY <2>1, <2>2, <2>3, <2>4, <2>5 DEF LineInOnePlace, TypeOK
  <1>5. ASSUME NEW o \in Requests, TimerFires(o) \/ ScheduleStops(o)
        PROVE  LineInOnePlace'
    BY <1>5, <1>a DEF TimerFires, ScheduleStops
  <1>6. ASSUME NEW o \in Requests, Report(o) PROVE LineInOnePlace'
    <2>1. CASE held[o] = {}
      BY <1>6, <2>1, <1>a DEF Report
    <2>2. CASE held[o] # {}
      <3>1. /\ UNCHANGED <<pc, target>>
            /\ held' = [held EXCEPT ![o] = {}]
            /\ \A q \in Requests :
                 reported'[q] = IF q \in held[o] THEN reported[q] + 1 ELSE reported[q]
        BY <1>6, <2>2 DEF Report
      <3>2. ASSUME NEW q \in Requests, q \in held[o]
            PROVE  /\ pc[q] = "rolled" /\ reported'[q] = 1
                   /\ \A p \in Requests : q \notin held'[p]
        <4>1. pc[q] = "rolled" /\ reported[q] = 0
              /\ {p \in Requests : q \in held[p]} = {target[q]}
          BY <3>2 DEF LineInOnePlace
        <4>2. target[q] = o
          BY <3>2, <4>1
        <4> QED
          BY <3>1, <3>2, <4>1, <4>2 DEF TypeOK
      <3>3. ASSUME NEW q \in Requests, q \notin held[o]
            PROVE  /\ reported'[q] = reported[q]
                   /\ {p \in Requests : q \in held'[p]} = {p \in Requests : q \in held[p]}
                   /\ \A p \in Requests : (q \in held'[p]) = (q \in held[p])
        BY <3>1, <3>3 DEF TypeOK
      <3> QED
        BY <3>1, <3>2, <3>3 DEF LineInOnePlace
    <2> QED
      BY <2>1, <2>2
  <1>7. CASE Cancel
    BY <1>7, <1>a DEF Cancel
  <1>8. CASE RouterStops
    BY <1>8, <1>a DEF RouterStops
  <1>9. CASE UNCHANGED vars
    BY <1>9, <1>a
  <1> QED
    BY <1>1, <1>2, <1>3, <1>4, <1>5, <1>6, <1>7, <1>8, <1>9 DEF Next, Terminating

(* A line that was rolled up is held by one rollup or was reported once, for   *)
(* every interleaving of requests, reports and the cancellation.               *)
THEOREM LinesConserved == Spec => []LineInOnePlace
  <1>1. Init => LineInOnePlace
    BY DEF Init, LineInOnePlace
  <1> QED
    BY <1>1, TypeCorrect, InOnePlaceStep, PTL DEF Spec

-----------------------------------------------------------------------------
(* The map of rollups, which every request of a key goes through               *)

Key(r) == RollupKey(Line[r])

Scheduled(o) == schedule[o] \in {"select", "report"}

(* The rollup a request was given is of its key and, while the context is      *)
(* open, the one in the map, with its goroutine running.                       *)
MapOK ==
    /\ ctxDone => ctx = "done"
    /\ \A k \in DOMAIN rollups : Key(rollups[k]) = k
    /\ ctx = "open" => \A k \in DOMAIN rollups : Scheduled(rollups[k])
    /\ \A r \in Requests : target[r] # NoRollup =>
         /\ Key(target[r]) = Key(r)
         /\ ctx = "open" => /\ Key(r) \in DOMAIN rollups
                            /\ rollups[Key(r)] = target[r]

LEMMA MapStep == TypeOK /\ TargetOK /\ MapOK /\ [Next]_vars => MapOK'
  <1> USE DEF vars, routerVars, rollupVars, Key, Scheduled
  <1> SUFFICES ASSUME TypeOK, TargetOK, MapOK, [Next]_vars PROVE MapOK'
    OBVIOUS
  <1>a. ASSUME UNCHANGED <<ctx, ctxDone, rollups, target, schedule>> PROVE MapOK'
    BY <1>a DEF MapOK
  <1>1. ASSUME NEW r \in Requests, LogDirectly(r) \/ Process(r) \/ Add(r)
        PROVE  MapOK'
    BY <1>1, <1>a DEF LogDirectly, Process, Add
  <1>2. ASSUME NEW r \in Requests, FindOrCreate(r) PROVE MapOK'
    <2>1. pc[r] = "find" /\ UNCHANGED <<ctx, ctxDone>>
      BY <1>2 DEF FindOrCreate
    <2>2. CASE Key(r) \in DOMAIN rollups
      <3>1. /\ target' = [target EXCEPT ![r] = rollups[Key(r)]]
            /\ UNCHANGED <<rollups, schedule>>
        BY <1>2, <2>2 DEF FindOrCreate
      <3> QED
        BY <2>1, <2>2, <3>1 DEF MapOK, TypeOK
    <2>3. CASE Key(r) \notin DOMAIN rollups
      <3>1. /\ target' = [target EXCEPT ![r] = r]
            /\ DOMAIN rollups' = DOMAIN rollups \cup {Key(r)}
            /\ rollups'[Key(r)] = r
            /\ \A k \in DOMAIN rollups : rollups'[k] = rollups[k]
            /\ schedule' = [schedule EXCEPT ![r] = "select"]
        BY <1>2, <2>3 DEF FindOrCreate
      <3>2. \A k \in DOMAIN rollups : rollups[k] # r
        BY <2>3 DEF MapOK
      <3>3. \A o \in Requests : o # r => schedule'[o] = schedule[o]
        BY <3>1 DEF TypeOK
      <3>4. schedule'[r] = "select"
        BY <3>1 DEF TypeOK
      <3>5. \A q \in Requests : target'[q] = IF q = r THEN r ELSE target[q]
        BY <3>1 DEF TypeOK
      <3>6. \A k \in DOMAIN rollups' : Key(rollups'[k]) = k
        BY <3>1 DEF MapOK
      <3>7. ctx = "open" => \A k \in DOMAIN rollups' :
                             schedule'[rollups'[k]] \in {"select", "report"}
        BY <3>1, <3>2, <3>3, <3>4 DEF MapOK, TypeOK
      <3>8. ASSUME NEW q \in Requests, target'[q] # NoRollup
            PROVE  /\ Key(target'[q]) = Key(q)
                   /\ ctx = "open" => /\ Key(q) \in DOMAIN rollups'
                                      /\ rollups'[Key(q)] = target'[q]
        BY <3>1, <3>5, <3>8 DEF MapOK
      <3> QED
        BY <2>1, <3>6, <3>7, <3>8 DEF MapOK
    <2> QED
      BY <2>2, <2>3
  <1>3. ASSUME NEW o \in Requests, TimerFires(o) \/ Report(o) PROVE MapOK'
    <2>1. /\ UNCHANGED <<ctx, ctxDone, rollups, target>>
          /\ \A p \in Requests : Scheduled(p) => Scheduled(p)'
      BY <1>3 DEF TimerFires, Report, TypeOK
    <2> QED
      BY <2>1 DEF MapOK, TypeOK
  <1>4. ASSUME NEW o \in Requests, ScheduleStops(o) PROVE MapOK'
    BY <1>4 DEF ScheduleStops, MapOK
  <1>5. CASE Cancel
    BY <1>5 DEF Cancel, MapOK
  <1>6. CASE RouterStops
    <2>1. ctx = "done" /\ ctx' = ctx /\ UNCHANGED target /\ DOMAIN rollups' = {}
      BY <1>6 DEF RouterStops
    <2> QED
      BY <2>1 DEF MapOK
  <1>7. CASE UNCHANGED vars
    BY <1>7, <1>a
  <1> QED
    BY <1>1, <1>2, <1>3, <1>4, <1>5, <1>6, <1>7 DEF Next, Terminating

(* The map of the router has, until the context is cancelled, the one rollup    *)
(* every request of a key was given, with its goroutine (findOrCreate).        *)
THEOREM MapHolds == Spec => []MapOK
  <1>1. Init => MapOK
    <2> SUFFICES ASSUME Init PROVE MapOK
      OBVIOUS
    <2>1. DOMAIN rollups = {}
      BY DEF Init
    <2> QED
      BY <2>1 DEF Init, MapOK
  <1> QED
    BY <1>1, TypeCorrect, MapStep, PTL DEF Spec

(* However many requests race in findOrCreate, those of one key share one      *)
(* rollup until the context is cancelled.                                      *)
THEOREM RollupsUniquePerKey == Spec => []OneRollupPerKey
  <1>1. MapOK => OneRollupPerKey
    BY DEF MapOK, OneRollupPerKey, Key
  <1> QED
    BY <1>1, MapHolds, PTL

(* No line waits in a rollup nobody reports, until the context is cancelled.   *)
THEOREM RollupsScheduled == Spec => []HeldLinesAreScheduled
  <1>1. TypeOK /\ TargetOK /\ LineInOnePlace /\ MapOK => HeldLinesAreScheduled
    <2> SUFFICES ASSUME TypeOK, TargetOK, LineInOnePlace, MapOK, ctx = "open",
                        NEW o \in Requests,
                        \/ held[o] # {}
                        \/ \E r \in Requests : pc[r] = "add" /\ target[r] = o
                 PROVE  schedule[o] \in {"select", "report"}
      BY DEF HeldLinesAreScheduled
    <2>1. ASSUME NEW r \in Requests, target[r] = o
          PROVE  schedule[o] \in {"select", "report"}
      BY <2>1, LineAssumption DEF MapOK, Scheduled
    <2>2. ASSUME NEW r \in held[o] PROVE r \in Requests /\ target[r] = o
      <3>1. r \in Requests
        BY DEF TypeOK
      <3>2. {p \in Requests : r \in held[p]} = {target[r]}
        BY <3>1, <2>2 DEF LineInOnePlace
      <3> QED
        BY <3>1, <3>2, <2>2
    <2> QED
      BY <2>1, <2>2
  <1> QED
    BY <1>1, TypeCorrect, LinesConserved, MapHolds, PTL

-----------------------------------------------------------------------------
(* Reports.  A report is about one operation if no method has a dash: the key  *)
(* can then be taken apart again, whatever dashes the ops have.                *)

NoDashInMethods == \A r \in Requests : Len(Line[r].method) = 1

ReportIsOfOneOperation ==
    \A o \in Requests : published[o] # NoReport =>
        \A r \in published[o].lines :
            /\ Line[r].status = published[o].status
            /\ Line[r].method = published[o].method
            /\ Line[r].op = published[o].op

LEMMA JoinedOnce ==
    ASSUME NEW S, NEW m \in Seq(S), NEW n \in Seq(S), NEW f \in Seq(S),
           NEW g \in Seq(S), Len(m) = 1, Len(n) = 1, m \o f = n \o g
    PROVE  m = n /\ f = g
  <1>1. /\ Len(m \o f) = 1 + Len(f)
        /\ \A i \in 1..1 + Len(f) : (m \o f)[i] = IF i <= 1 THEN m[i] ELSE f[i - 1]
    BY ConcatProperties
  <1>2. /\ Len(n \o g) = 1 + Len(g)
        /\ \A i \in 1..1 + Len(g) : (n \o g)[i] = IF i <= 1 THEN n[i] ELSE g[i - 1]
    BY ConcatProperties
  <1>3. Len(f) \in Nat /\ Len(f) = Len(g)
    BY <1>1, <1>2, LenProperties
  <1>4. m[1] = n[1]
    BY <1>1, <1>2, <1>3
  <1>5. ASSUME NEW i \in 1..Len(f) PROVE f[i] = g[i]
    <2>1. i + 1 \in 1..1 + Len(f) /\ ~(i + 1 <= 1) /\ (i + 1) - 1 = i
      BY <1>3
    <2> QED
      BY <1>1, <1>2, <1>3, <2>1
  <1>6. m = n
    BY <1>4, SeqEqual
  <1>7. f = g
    BY <1>3, <1>5, SeqEqual
  <1> QED
    BY <1>6, <1>7

HasOp(r) == Line[r].op # Absent

(* Only lines with an op go to a rollup, so every rollup has one (ShouldRollup).*)
RollupsHaveOps ==
    /\ \A r \in Requests : pc[r] \in {"find", "add", "rolled"} => HasOp(r)
    /\ \A k \in DOMAIN rollups : HasOp(rollups[k])
    /\ \A r \in Requests : target[r] # NoRollup => HasOp(r) /\ HasOp(target[r])

LEMMA RollupsHaveOpsStep ==
    TypeOK /\ RollupsHaveOps /\ [Next]_vars => RollupsHaveOps'
  <1> USE DEF vars, routerVars, rollupVars
  <1> SUFFICES ASSUME TypeOK, RollupsHaveOps, [Next]_vars PROVE RollupsHaveOps'
    OBVIOUS
  <1>1. ASSUME UNCHANGED <<pc, rollups, target>> PROVE RollupsHaveOps'
    BY <1>1 DEF RollupsHaveOps
  <1>2. ASSUME NEW r \in Requests, LogDirectly(r) \/ Process(r) \/ Add(r)
        PROVE  RollupsHaveOps'
    <2>1. /\ UNCHANGED <<rollups, target>>
          /\ \A q \in Requests : pc'[q] \in {"find", "add", "rolled"} => HasOp(q)
      BY <1>2 DEF LogDirectly, Process, Add, ShouldRollup, HasOp, TypeOK,
                  RollupsHaveOps
    <2> QED
      BY <2>1 DEF RollupsHaveOps
  <1>3. ASSUME NEW r \in Requests, FindOrCreate(r) PROVE RollupsHaveOps'
    <2>1. /\ HasOp(r)
          /\ \A q \in Requests : pc'[q] \in {"find", "add", "rolled"} => HasOp(q)
      BY <1>3 DEF FindOrCreate, TypeOK, RollupsHaveOps
    <2>2. CASE Key(r) \in DOMAIN rollups
      <3>1. UNCHANGED rollups /\ target' = [target EXCEPT ![r] = rollups[Key(r)]]
        BY <1>3, <2>2 DEF FindOrCreate, Key
      <3> QED
        BY <2>1, <2>2, <3>1 DEF RollupsHaveOps, TypeOK
    <2>3. CASE Key(r) \notin DOMAIN rollups
      <3>1. /\ target' = [target EXCEPT ![r] = r]
            /\ \A k \in DOMAIN rollups' :
                 rollups'[k] # r => k \in DOMAIN rollups /\ rollups'[k] = rollups[k]
        BY <1>3, <2>3 DEF FindOrCreate, Key
      <3> QED
        BY <2>1, <3>1 DEF RollupsHaveOps, TypeOK
    <2> QED
      BY <2>2, <2>3
  <1>4. CASE RouterStops
    <2>1. UNCHANGED <<pc, target>> /\ DOMAIN rollups' = {}
      BY <1>4 DEF RouterStops
    <2> QED
      BY <2>1 DEF RollupsHaveOps
  <1> QED
    BY <1>1, <1>2, <1>3, <1>4
    DEF Next, TimerFires, Report, ScheduleStops, Cancel, Terminating

ReportsOfKey ==
    /\ published = [o \in Requests |-> published[o]]
    /\ \A o \in Requests : published[o] # NoReport =>
         /\ published[o].status = Line[o].status
         /\ published[o].method = Line[o].method
         /\ published[o].op = Line[o].op
         /\ HasOp(o)
         /\ \A r \in published[o].lines :
              r \in Requests /\ Key(r) = Key(o) /\ HasOp(r)

LEMMA ReportsOfKeyStep ==
    /\ TypeOK /\ TargetOK /\ LineInOnePlace /\ MapOK
    /\ RollupsHaveOps /\ ReportsOfKey /\ [Next]_vars
    => ReportsOfKey'
  <1> USE DEF vars, routerVars, rollupVars
  <1> SUFFICES ASSUME TypeOK, TargetOK, LineInOnePlace, MapOK, RollupsHaveOps,
                      ReportsOfKey, [Next]_vars
               PROVE  ReportsOfKey'
    OBVIOUS
  <1>1. CASE UNCHANGED published
    BY <1>1 DEF ReportsOfKey
  <1>2. ASSUME NEW o \in Requests, Report(o), held[o] # {}
        PROVE  ReportsOfKey'
    <2> DEFINE ms == nsSum[o] \div Millisecond
               p == [status |-> Line[o].status, method |-> Line[o].method,
                     op |-> Line[o].op, lines |-> held[o],
                     count |-> count[o], msSum |-> ms, ms |-> ms \div count[o],
                     level |-> LogLevelFromStatus(Line[o].status)]
    <2>1. /\ published' = [published EXCEPT ![o] = p]
          /\ published = [q \in Requests |-> published[q]]
      BY <1>2 DEF Report, ReportsOfKey
    <2>2. /\ p.status = Line[o].status /\ p.method = Line[o].method
          /\ p.op = Line[o].op /\ p.lines = held[o]
      OBVIOUS
    <2> HIDE DEF p
    <2>3. ASSUME NEW r \in held[o] 
          PROVE  r \in Requests /\ Key(r) = Key(o) /\ HasOp(r) /\ HasOp(o)
      <3>1. r \in Requests
        BY DEF TypeOK
      <3>2. {q \in Requests : r \in held[q]} = {target[r]}
        BY <3>1, <2>3 DEF LineInOnePlace
      <3>3. target[r] = o
        BY <3>2, <2>3
      <3> QED
        BY <3>1, <3>3, LineAssumption DEF MapOK, RollupsHaveOps
    <2>6. HasOp(o)
      BY <1>2, <2>3
    <2>4. \A q \in Requests : published'[q] = IF q = o THEN p ELSE published[q]
      BY <2>1
    <2>5. published' = [q \in Requests |-> published'[q]]
      BY <2>1
    <2> QED
      BY <2>2, <2>3, <2>6, <2>4, <2>5 DEF ReportsOfKey
  <1> QED
    BY <1>1, <1>2
    DEF Next, LogDirectly, Process, FindOrCreate, Add, TimerFires, Report,
        ScheduleStops, Cancel, RouterStops, Terminating

(* A report is about lines of its own status, method and op only, if no method *)
(* has a dash.  (findOrCreate, report)                                         *)
THEOREM ReportsOfOneOperation ==
    ASSUME NoDashInMethods
    PROVE  Spec => []ReportIsOfOneOperation
  <1>1. Init => ReportsOfKey
    BY DEF Init, ReportsOfKey
  <1>2. Init => RollupsHaveOps
    <2> SUFFICES ASSUME Init PROVE RollupsHaveOps
      OBVIOUS
    <2>1. DOMAIN rollups = {}
      BY DEF Init
    <2> QED
      BY <2>1 DEF Init, RollupsHaveOps
  <1>3. ASSUME NEW p \in Requests, NEW q \in Requests, HasOp(p), HasOp(q),
               Key(p) = Key(q)
        PROVE  /\ Line[p].status = Line[q].status
               /\ Line[p].method = Line[q].method
               /\ Line[p].op = Line[q].op
    <2>1. /\ Line[p].status = Line[q].status
          /\ Line[p].method \o Line[p].op = Line[q].method \o Line[q].op
      BY <1>3 DEF Key, RollupKey
    <2>2. /\ Line[p].method \in Names /\ Line[q].method \in Names
          /\ Line[p].op \in Names /\ Line[q].op \in Names
      BY <1>3 DEF HasOp
    <2>3. Len(Line[p].method) = 1 /\ Len(Line[q].method) = 1
      BY NoDashInMethods DEF NoDashInMethods
    <2> QED
      <3>1. Line[p].method = Line[q].method /\ Line[p].op = Line[q].op
        <4> DEFINE m == Line[p].method
                   n == Line[q].method
                   f == Line[p].op
                   g == Line[q].op
        <4>1. /\ m \in Seq(STRING) /\ n \in Seq(STRING)
              /\ f \in Seq(STRING) /\ g \in Seq(STRING)
          BY <2>2 DEF Names
        <4>2. Len(m) = 1 /\ Len(n) = 1 /\ m \o f = n \o g
          BY <2>1, <2>3
        <4> HIDE DEF m, n, f, g
        <4>3. m = n /\ f = g
          BY <4>1, <4>2, JoinedOnce
        <4> QED
          BY <4>3 DEF m, n, f, g
      <3> QED
        BY <2>1, <3>1
  <1>4. ReportsOfKey => ReportIsOfOneOperation
    BY <1>3 DEF ReportsOfKey, ReportIsOfOneOperation
  <1> QED
    BY <1>1, <1>2, <1>4, TypeCorrect, LinesConserved, MapHolds,
       RollupsHaveOpsStep, ReportsOfKeyStep, PTL
    DEF Spec

-----------------------------------------------------------------------------
(* Sums.  A message counts what its rollup holds, and a report is of one       *)
(* message.                                                                    *)

LEMMA Division ==
    ASSUME NEW n \in Nat, NEW d \in Nat \ {0}
    PROVE  /\ n \div d \in Nat
           /\ (n \div d) * d <= n
           /\ n < ((n \div d) + 1) * d
  OBVIOUS

LEMMA TimesOfLines ==
    ASSUME NEW lines \in SUBSET Requests
    PROVE  /\ IsFiniteSet(lines)
           /\ TotalTime(lines) \in Nat
           /\ \A r \in Requests \ lines :
                  TotalTime(lines \cup {r}) = TotalTime(lines) + Line[r].time
  <1> DEFINE time == [r \in Requests |-> Line[r].time]
  <1>1. time \in [Requests -> Nat] /\ IsFiniteSet(lines)
    BY FS_Subset
  <1>2. \A r \in Requests : time[r] = Line[r].time
    OBVIOUS
  <1>3. \A part : TotalTime(part) = SumFunctionOnSet(time, part)
    BY DEF TotalTime
  <1> HIDE DEF time
  <1>4. SumFunctionOnSet(time, lines) \in Nat
    BY <1>1, SumType
  <1>5. ASSUME NEW r \in Requests \ lines
        PROVE  SumFunctionOnSet(time, lines \cup {r}) =
                   SumFunctionOnSet(time, lines) + time[r]
    BY <1>1, SumAddsElement
  <1> QED
    BY <1>1, <1>2, <1>3, <1>4, <1>5

MessageAddsUp ==
    \A o \in Requests :
        count[o] = Cardinality(held[o]) /\ nsSum[o] = TotalTime(held[o])

LEMMA EmptyMessage ==
    Cardinality({}) = 0 /\ TotalTime({}) = 0
  BY FS_EmptySet, EmptySum DEF TotalTime

LEMMA MessageAddsUpStep ==
    TypeOK /\ LineInOnePlace /\ MessageAddsUp /\ [Next]_vars => MessageAddsUp'
  <1> USE DEF vars, routerVars, rollupVars
  <1> SUFFICES ASSUME TypeOK, LineInOnePlace, MessageAddsUp, [Next]_vars
               PROVE  MessageAddsUp'
    OBVIOUS
  <1>1. CASE UNCHANGED <<held, count, nsSum>>
    BY <1>1 DEF MessageAddsUp
  <1>2. ASSUME NEW r \in Requests, Add(r) PROVE MessageAddsUp'
    <2> DEFINE o == target[r]
    <2>1. o \in Requests /\ r \notin held[o] /\ held[o] \in SUBSET Requests
      BY <1>2 DEF Add, TypeOK, TargetOK, LineInOnePlace
    <2>2. /\ held' = [held EXCEPT ![o] = @ \cup {r}]
          /\ count' = [count EXCEPT ![o] = @ + 1]
          /\ nsSum' = [nsSum EXCEPT ![o] = @ + Line[r].time]
      BY <1>2 DEF Add
    <2> HIDE DEF o
    <2>3. Cardinality(held[o] \cup {r}) = Cardinality(held[o]) + 1
      BY <2>1, TimesOfLines, FS_AddElement
    <2>4. TotalTime(held[o] \cup {r}) = TotalTime(held[o]) + Line[r].time
      BY <2>1, TimesOfLines
    <2>5. ASSUME NEW q \in Requests
          PROVE  /\ held'[q] = IF q = o THEN held[q] \cup {r} ELSE held[q]
                 /\ count'[q] = IF q = o THEN count[q] + 1 ELSE count[q]
                 /\ nsSum'[q] = IF q = o THEN nsSum[q] + Line[r].time ELSE nsSum[q]
      BY <2>2 DEF TypeOK
    <2> QED
      BY <2>3, <2>4, <2>5 DEF MessageAddsUp
  <1>3. ASSUME NEW o \in Requests, Report(o), held[o] # {} PROVE MessageAddsUp'
    <2>1. /\ held' = [held EXCEPT ![o] = {}]
          /\ count' = [count EXCEPT ![o] = 0]
          /\ nsSum' = [nsSum EXCEPT ![o] = 0]
      BY <1>3 DEF Report
    <2>2. ASSUME NEW q \in Requests
          PROVE  /\ held'[q] = IF q = o THEN {} ELSE held[q]
                 /\ count'[q] = IF q = o THEN 0 ELSE count[q]
                 /\ nsSum'[q] = IF q = o THEN 0 ELSE nsSum[q]
      BY <2>1 DEF TypeOK
    <2> QED
      BY <2>2, EmptyMessage DEF MessageAddsUp
  <1> QED
    BY <1>1, <1>2, <1>3
    DEF Next, LogDirectly, Process, FindOrCreate, TimerFires, Report,
        ScheduleStops, Cancel, RouterStops, Terminating

Published ==
    /\ published = [o \in Requests |-> published[o]]
    /\ ReportAddsUp

LEMMA PublishedStep ==
    TypeOK /\ MessageAddsUp /\ Published /\ [Next]_vars => Published'
  <1> USE DEF vars, routerVars, rollupVars
  <1> SUFFICES ASSUME TypeOK, MessageAddsUp, Published, [Next]_vars
               PROVE  Published'
    OBVIOUS
  <1>1. CASE UNCHANGED published
    BY <1>1 DEF Published, ReportAddsUp
  <1>2. ASSUME NEW o \in Requests, Report(o), held[o] # {} PROVE Published'
    <2> DEFINE ms == nsSum[o] \div Millisecond
               p == [status |-> Line[o].status, method |-> Line[o].method,
                     op |-> Line[o].op, lines |-> held[o],
                     count |-> count[o], msSum |-> ms, ms |-> ms \div count[o],
                     level |-> LogLevelFromStatus(Line[o].status)]
    <2>1. /\ published' = [published EXCEPT ![o] = p]
          /\ published = [q \in Requests |-> published[q]]
      BY <1>2 DEF Report, Published
    <2>2. p.lines = held[o] /\ p.count = count[o] /\ p.msSum = ms /\ p.ms = ms \div count[o]
      OBVIOUS
    <2> HIDE DEF p
    <2>3. nsSum[o] \in Nat /\ count[o] \in Nat /\ Millisecond \in Nat \ {0}
      BY DEF TypeOK
    <2>4. count[o] # 0
      <3>1. IsFiniteSet(held[o])
        BY TimesOfLines DEF TypeOK
      <3> QED
        BY <1>2, <3>1, FS_EmptySet DEF MessageAddsUp
    <2>5. ms \in Nat /\ ms * Millisecond <= nsSum[o] /\ nsSum[o] < (ms + 1) * Millisecond
      BY <2>3, Division
    <2> HIDE DEF ms
    <2>6. (ms \div count[o]) * count[o] <= ms
      BY <2>3, <2>4, <2>5, Division
    <2>7. /\ p.count = Cardinality(p.lines)
          /\ p.msSum * Millisecond <= TotalTime(p.lines)
          /\ TotalTime(p.lines) < (p.msSum + 1) * Millisecond
          /\ p.ms * p.count <= p.msSum
      <3>1. count[o] = Cardinality(held[o]) /\ nsSum[o] = TotalTime(held[o])
        BY DEF MessageAddsUp
      <3> QED
        BY <2>2, <2>5, <2>6, <3>1
    <2>8. \A q \in Requests : published'[q] = IF q = o THEN p ELSE published[q]
      BY <2>1
    <2>9. published' = [q \in Requests |-> published'[q]]
      BY <2>1
    <2> QED
      BY <2>7, <2>8, <2>9 DEF Published, ReportAddsUp
  <1> QED
    BY <1>1, <1>2
    DEF Next, LogDirectly, Process, FindOrCreate, Add, TimerFires, Report,
        ScheduleStops, Cancel, RouterStops, Terminating

(* What a report says adds up: its count is that of its lines and its sum the  *)
(* whole milliseconds of their response times, whatever was added before the   *)
(* message was reset and after (add, report).                                  *)
THEOREM ReportsAddUp == Spec => []ReportAddsUp
  <1>1. Init => MessageAddsUp
    BY EmptyMessage DEF Init, MessageAddsUp
  <1>2. Init => Published
    BY DEF Init, Published, ReportAddsUp
  <1>3. Published => ReportAddsUp
    BY DEF Published
  <1> QED
    BY <1>1, <1>2, <1>3, TypeCorrect, LinesConserved, MessageAddsUpStep,
       PublishedStep, PTL
    DEF Spec
===============================================================================
