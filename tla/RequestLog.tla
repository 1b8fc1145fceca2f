----------------------------- MODULE RequestLog -----------------------------
(* One HTTP request through the middleware (middleware/middleware.go) and the  *)
(* logger it is given (logger/logger.go): what the application does with the   *)
(* response and the logger while it serves the request, the line about the     *)
(* request, and the lines of the application's own log calls.  A goroutine the *)
(* handler leaves behind, and a call of EnableRollups, may run at any time.    *)
(*                                                                            *)
(* A log call is one step here: KayveeLogger has its interleavings.            *)
EXTENDS LineFormat

CONSTANTS
    Source,         \* the source given to New
    Codes,          \* arguments of WriteHeader
    Sizes, MaxLength,       \* bytes a Write may write, bound on their sum
    Durations, SlowTime,    \* response times; the 500 ms of ShouldRollup
    Millisecond,
    Request,        \* method, path, params and ip: what defaultHandler takes
    CustomFields,   \* what the other handlers may return together
    ContextCalls,   \* <<key, value>> of AddContext
    OwnMaps,        \* data maps the application makes for a call
    KeptMap,        \* one it uses for call after call
    LogLevels,      \* levels of TraceD ... CriticalD and Log
    GaugeValues,
    Configs,        \* <<source, level>> of SetConfig and SetLogLevel
    EnvLevel,       \* KAYVEE_LOG_LEVEL
    MaxCalls        \* bound on the calls of the logger's methods

ASSUME TimesAssumption == Durations \subseteq Nat /\ Millisecond \in Nat \ {0}
ASSUME CodesAssumption == Codes \subseteq 100..999 /\ Sizes \subseteq Nat
ASSUME RequestAssumption ==
    /\ DOMAIN Request \subseteq {"method", "path", "params", "ip"}
    /\ \A f \in DOMAIN Request : Request[f].type = "string"
ASSUME LevelsAssumption == \A g \in Configs : g[2] \in Levels

NoData == <<>>
NoLine == [about |-> "none"]

VARIABLES
    stage,      \* "serving", "collect", "choose", "process", "log", "done",
                \* "panicked"
    status, length,     \* fields of loggedResponseWriter
    sent,       \* the status net/http has sent, 0 while it has not
    late,       \* WriteHeader was called after a status had been sent
    globals, logLvl,    \* fields of the logger
    kept,       \* the map the application uses for call after call
    had,        \* what the application and its calls have put in that map
    got,        \* the context that map was given, with the values it was given
    timer,      \* the application has a Timer
    calls,      \* calls of the logger's methods so far
    data,       \* the fields of the request, see ApplyHandlers
    rollups,    \* EnableRollups has been called
    line,       \* the line the last step has written, or NoLine
    outcome     \* what has become of the request: how many lines, rollups, and
                \* lines the level let fall

responseVars == <<status, length, sent, late>>
loggerVars == <<globals, logLvl>>
mapVars == <<kept, had, got>>
appVars == <<loggerVars, mapVars, timer, calls>>
requestVars == <<stage, data, rollups, outcome>>
vars == <<responseVars, appVars, requestVars, line>>

NothingLogged == line' = NoLine

(* Defective variant: "status: 200" is missing. *)
NoStatus == 0

DefaultStatus == 200

(* ServeHTTP makes the logger and the response writer. *)
Init ==
    /\ stage = "serving"
    /\ status = DefaultStatus /\ length = 0 /\ sent = 0 /\ late = FALSE
    /\ globals = NewGlobals(Source, NoData) /\ logLvl = NewLevel(EnvLevel)
    /\ kept = KeptMap /\ had = KeptMap /\ got = NoData
    /\ timer = FALSE /\ calls = 0
    /\ data = NoData /\ rollups = FALSE
    /\ line = NoLine
    /\ outcome = [lines |-> 0, rolled |-> 0, dropped |-> 0]

-----------------------------------------------------------------------------
(* The response *)

(* net/http sends the first status that is final and ignores those after it.   *)
Informational(code) == code \in 100..199 /\ code # 101

WriteHeader(code) ==
    /\ stage = "serving"
    /\ status' = code
    /\ sent' = IF sent = 0 /\ ~Informational(code) THEN code ELSE sent
    /\ late' = (late \/ sent # 0)
    /\ UNCHANGED <<length, appVars, requestVars>> /\ NothingLogged

(* The first Write sends 200 if nothing has been sent. *)
Write(n) ==
    /\ stage = "serving" /\ length < MaxLength
    /\ length' = length + n
    /\ sent' = IF sent = 0 THEN 200 ELSE sent
    /\ UNCHANGED <<status, late, appVars, requestVars>> /\ NothingLogged

Finished(d, response) ==
    [f \in {"response-time", "response-time-ms", "count", "response-size",
            "status-code", "via"} |->
        CASE f = "response-time" -> Number(d)
          [] f = "response-time-ms" -> Number(d \div Millisecond)
          [] f = "count" -> Number(1)
          [] f = "response-size" -> Number(response.length)
          [] f = "status-code" -> Number(response.status)
          [] f = "via" -> String("kayvee-middleware")]

HandlerReturns ==
    /\ stage = "serving"
    /\ stage' = "collect"
    /\ \E d \in Durations : data' = Finished(d, [length |-> length, status |-> status])
    /\ UNCHANGED <<responseVars, appVars, rollups, outcome>> /\ NothingLogged

(* The panic goes through ServeHTTP, to the server's recover. *)
HandlerPanics ==
    /\ stage = "serving"
    /\ stage' = "panicked"
    /\ UNCHANGED <<responseVars, appVars, data, rollups, outcome>>
    /\ NothingLogged

-----------------------------------------------------------------------------
(* The logger *)

(* Values in the data map override the globals. *)
Merged(map) == map @@ globals

(* What a log call leaves in its data map. *)
AfterLog(level, map) ==
    IF level < logLvl THEN map
                      ELSE Format(Merged(("level" :> String(LevelText(level))) @@ map))

(* logWithLevel, in a call with this title, which the method has put in the     *)
(* map: from is what else was put there, and first has the context an earlier   *)
(* call put there.                                                             *)
LogWithLevel(about, level, title, map, from, first) ==
    line' = IF level < logLvl THEN NoLine ELSE
        [about |-> about, level |-> level, fields |-> AfterLog(level, map),
         title |-> String(title), given |-> map, from |-> from, first |-> first,
         context |-> globals]

(* Defective variant: a map that has a title keeps it. *)
TitleKept(title, map) == map @@ ("title" :> String(title))

Titled(title, map) == ("title" :> String(title)) @@ map

(* The methods: title, level, and what they put in the data map themselves.    *)
Methods ==
    {[title |-> "event", level |-> l, puts |-> NoData] : l \in LogLevels} \cup
    {[title |-> "event", level |-> Info,
      puts |-> [value |-> Number(1), type |-> String("counter")]]} \cup
    {[title |-> "event", level |-> Info,
      puts |-> [value |-> v, type |-> String("gauge")]] : v \in GaugeValues} \cup
    {[title |-> "event-start", level |-> Debug, puts |-> NoData]}

Live == stage \notin {"done", "panicked"}
Call == Live /\ calls < MaxCalls /\ calls' = calls + 1

LogFresh(m, own) ==
    LET from == m.puts @@ own IN
    /\ Call
    /\ LogWithLevel("app", m.level, m.title, Titled(m.title, from), from, NoData)
    /\ timer' = (timer \/ m.title = "event-start")
    /\ UNCHANGED <<responseVars, loggerVars, mapVars, requestVars>>

(* The map is the caller's: what is put in it stays there. *)
LogKept(m) ==
    LET map == Titled(m.title, m.puts @@ kept) IN
    /\ Call
    /\ had' = m.puts @@ had
    /\ LogWithLevel("app", m.level, m.title, map, had', got)
    /\ kept' = AfterLog(m.level, map)
    /\ got' = IF m.level < logLvl THEN got ELSE got @@ globals
    /\ timer' = (timer \/ m.title = "event-start")
    /\ UNCHANGED <<responseVars, loggerVars, requestVars>>

(* Timer.Stop *)
Stop ==
    /\ timer /\ Call
    /\ LET own == "elapsedTimeSeconds" :> Number(1)
       IN  LogWithLevel("app", Debug, "event-end", Titled("event-end", own), own, NoData)
    /\ UNCHANGED <<responseVars, loggerVars, mapVars, timer, requestVars>>

AddContext(key, value) ==
    /\ Call
    /\ globals' = IF Reserved(key) THEN globals ELSE (key :> String(value)) @@ globals
    /\ UNCHANGED <<responseVars, logLvl, mapVars, timer, requestVars>>
    /\ NothingLogged

SetConfig(source, level) ==
    /\ Call
    /\ globals' = ("source" :> String(source)) @@ globals
    /\ logLvl' = level
    /\ UNCHANGED <<responseVars, mapVars, timer, requestVars>> /\ NothingLogged

SetLogLevel(level) ==
    /\ Call
    /\ logLvl' = level
    /\ UNCHANGED <<responseVars, globals, mapVars, timer, requestVars>>
    /\ NothingLogged

-----------------------------------------------------------------------------
(* ServeHTTP after the handler *)

(* defaultHandler, with the op the application has put in the context. *)
DefaultFields ==
    (IF "op" \in DOMAIN globals THEN "op" :> globals["op"] ELSE NoData) @@ Request

(* Defective variant: the custom fields are written last. *)
CustomLast(custom, finalizer) == custom @@ finalizer @@ DefaultFields

(* Reserved fields are written last. *)
ApplyHandlers(custom, finalizer) == finalizer @@ DefaultFields @@ custom

Collect ==
    /\ stage = "collect"
    /\ stage' = "choose"
    /\ \E custom \in CustomFields : data' = ApplyHandlers(custom, data)
    /\ UNCHANGED <<responseVars, appVars, rollups, outcome>> /\ NothingLogged

EnableRollups ==
    /\ Live /\ ~rollups
    /\ rollups' = TRUE
    /\ UNCHANGED <<responseVars, appVars, stage, data, outcome>>
    /\ NothingLogged

ShouldRollup(msg) ==
    /\ "op" \in DOMAIN msg /\ msg["op"].type = "string"
    /\ msg["method"].type = "string" /\ msg["status-code"].type = "number"
    /\ msg["status-code"].of >= 200 /\ msg["status-code"].of < 300
    /\ msg["response-time"].of < SlowTime

(* globalRollupRouter is read more than once, and never set back to nil: the    *)
(* reads after the first that finds it find it too.                            *)
Choose ==
    /\ stage = "choose"
    /\ stage' = IF rollups /\ ShouldRollup(data) THEN "process" ELSE "log"
    /\ UNCHANGED <<responseVars, appVars, data, rollups, outcome>>
    /\ NothingLogged

(* Defective variant: there is no return after Process. *)
NoReturn == "log"

AfterProcess == "done"

(* The RollupRouter takes the fields from here. *)
Process ==
    /\ stage = "process"
    /\ stage' = AfterProcess
    /\ outcome' = [outcome EXCEPT !.rolled = @ + 1]
    /\ UNCHANGED <<responseVars, appVars, data, rollups>> /\ NothingLogged

LogLevelFromStatus(code) ==
    IF code >= 499 THEN Error ELSE IF code >= 400 THEN Warning ELSE Info

LogRequest ==
    LET level == LogLevelFromStatus(status) IN
    /\ stage = "log"
    /\ stage' = "done"
    /\ LogWithLevel("request", level, "request-finished",
                    Titled("request-finished", data), data, NoData)
    /\ outcome' = IF level < logLvl THEN [outcome EXCEPT !.dropped = @ + 1]
                                    ELSE [outcome EXCEPT !.lines = @ + 1]
    /\ UNCHANGED <<responseVars, appVars, data, rollups>>

-----------------------------------------------------------------------------
Terminating == ~Live /\ UNCHANGED vars

Next ==
    \/ \E code \in Codes : WriteHeader(code)
    \/ \E n \in Sizes : Write(n)
    \/ HandlerReturns \/ HandlerPanics
    \/ \E m \in Methods : LogKept(m) \/ \E own \in OwnMaps : LogFresh(m, own)
    \/ Stop
    \/ \E c \in ContextCalls : AddContext(c[1], c[2])
    \/ \E g \in Configs : SetConfig(g[1], g[2]) \/ SetLogLevel(g[2])
    \/ EnableRollups
    \/ Collect \/ Choose \/ Process \/ LogRequest
    \/ Terminating

Spec == Init /\ [][Next]_vars

-----------------------------------------------------------------------------
(* Properties *)

Lined == line # NoLine

\* The variables hold what the code's can hold: the context has no reserved name
\* but "source", and what a line or the kept map has been given can be written.
TypeOK ==
    /\ stage \in {"serving", "collect", "choose", "process", "log", "done", "panicked"}
    /\ {status, sent, length, calls} \subseteq Nat
    /\ {late, timer, rollups} \subseteq BOOLEAN
    /\ logLvl \in Levels
    /\ DOMAIN globals \cap ReservedKeyNames = {"source"}
    /\ Lined => \A f \in DOMAIN line.fields : line.fields[f].type # "nothing"

(* The caller has put nothing in its map that the validator must refuse: no     *)
(* value of a wrong type, none that cannot be written, no gauge with no value.  *)
Proper(map) ==
    /\ WrongTypes(map) = {}
    /\ "type" \in DOMAIN map /\ map["type"] = String("gauge") => "value" \in DOMAIN map

\* A line of Debug or above whose caller gave it proper data passes the validator,
\* whatever context was added and from wherever, whichever map was used again, and
\* whatever has to be replaced because it cannot be written.  The validator knows
\* no trace level, and refuses those lines.  (logWithLevel, AddContext, Format,
\* applyHandlers, ValidateJSONFormat)
LineValidates ==
    Lined /\ line.level \in ValidLevels /\ Proper(line.given) =>
        ValidateJSONFormat(line.fields) = {}

\* "Write reserved fields last to make sure nothing overwrites them"
\* (applyHandlers): what the line about a request, or the rollup, says of the
\* request is what the middleware saw of it, whatever the other handlers returned
\* and whatever context the application added.
ReservedFieldsWin ==
    LET Own(fields) ==
            /\ \A f \in DOMAIN Request : fields[f] = Request[f]
            /\ fields["status-code"] = Number(status)
            /\ fields["response-size"] = Number(length)
            /\ fields["count"] = Number(1)
    IN  /\ stage = "process" => Own(data)
        /\ Lined /\ line.about = "request" => Own(line.fields)

\* The status on the line is the one the client got - 200 if the application gave
\* none - unless it called WriteHeader after one had been sent, or ended with an
\* informational one.  (WriteHeader, Write, ServeHTTP)
SentStatusIsLogged ==
    stage \in {"choose", "process", "log", "done"} /\ ~late /\ ~Informational(status) =>
        data["status-code"] = Number(IF sent = 0 THEN 200 ELSE sent)

\* A request is reported once - by a line or by a rollup, or not at all when its
\* level is below that of the logger or its handler panicked - also when rollups
\* are enabled, or the level set, while it is being finished.  (ServeHTTP)
RequestReportedOnce ==
    outcome.lines + outcome.rolled + outcome.dropped = IF stage = "done" THEN 1 ELSE 0

\* A line is of its call.  It has the title and the level of the call, also in a
\* map that was used before; every field the caller and the method put in its map,
\* replaced if it cannot be written; and the context of the time of the call - but
\* in a map that was used before, what the context was when it first got it.  It
\* has no other field, and the environment overrides all but title and level.
\* (TraceD ... TimerD, logWithLevel, Format)
LineOfItsCall ==
    Lined =>
        LET fields == line.fields
            known == DOMAIN EnvFields \cup DOMAIN line.from \cup DOMAIN line.first
                       \cup DOMAIN line.context
        IN
        /\ DOMAIN fields = {"title", "level"} \cup known
        /\ fields["title"] = line.title
        /\ fields["level"] = String(LevelText(line.level))
        /\ \A f \in known \ {"title", "level"} :
             fields[f] =
                 IF f \in DOMAIN EnvFields THEN EnvFields[f]
                 ELSE IF f \in DOMAIN line.from
                   THEN IF Marshals(line.from[f]) THEN line.from[f] ELSE ErrorMarshaling
                 ELSE IF f \in DOMAIN line.first THEN line.first[f] ELSE line.context[f]
==============================================================================
