--------------------------- MODULE RequestLogProofs ---------------------------
(* What holds of RequestLog for any environment, request, handlers, contexts    *)
(* and data maps.                                                              *)
EXTENDS RequestLog, TLAPS

USE RequestAssumption

-----------------------------------------------------------------------------
(* Fields and values *)

Written(value) == IF Marshals(value) THEN value ELSE ErrorMarshaling

LEMMA OneField ==
    ASSUME NEW f, NEW value
    PROVE  DOMAIN (f :> value) = {f} /\ (f :> value)[f] = value
  BY DEF :>

LEMMA Override ==
    ASSUME NEW g, NEW h
    PROVE  /\ DOMAIN (g @@ h) = DOMAIN g \cup DOMAIN h
           /\ \A f \in DOMAIN g \cup DOMAIN h :
                (g @@ h)[f] = IF f \in DOMAIN g THEN g[f] ELSE h[f]
  BY DEF @@

LEMMA NoFields == DOMAIN NoData = {}
  BY DEF NoData

LEMMA Kinds ==
    /\ \A text : String(text).type = "string" /\ String(text).of = text
    /\ \A text : Marshals(String(text)) /\ Written(String(text)) = String(text)
    /\ \A n : Number(n).type = "number" /\ Written(Number(n)) = Number(n)
    /\ \A v : Written(v).type # "nothing" /\ Written(Written(v)) = Written(v)
    /\ \A v : v.type = "string" => Written(v) = v
  <1>1. /\ \A text : String(text).type = "string" /\ String(text).of = text
        /\ \A n : Number(n).type = "number"
    BY DEF String, Number
  <1>2. ErrorMarshaling.type = "string"
    BY <1>1 DEF ErrorMarshaling
  <1>3. ASSUME NEW v, v.type # "nothing" PROVE Written(v) = v
    BY <1>3 DEF Written, Marshals
  <1>4. ASSUME NEW v PROVE Written(v).type # "nothing"
    BY <1>2 DEF Written, Marshals
  <1>5. \A text : Marshals(String(text))
    BY <1>1 DEF Marshals
  <1> QED
    BY <1>1, <1>3, <1>4, <1>5

(* The names the environment can give a field, whatever its variables are.      *)
LEMMA EnvNames ==
    /\ DOMAIN EnvFields \subseteq {"deploy_env", "wf_id", "pod-id", "pod-shortname",
                                   "pod-region", "pod-account"}
    /\ \A f \in DOMAIN EnvFields : EnvFields[f].type = "string"
  <1>1. \A fields : /\ DOMAIN FromEnv(fields) \subseteq DOMAIN fields
                    /\ \A f \in DOMAIN FromEnv(fields) : FromEnv(fields)[f].type = "string"
    BY DEF FromEnv, String
  <1>2. DOMAIN RunFields = {"deploy_env", "wf_id", "pod-id", "pod-shortname",
                            "pod-region", "pod-account"}
    BY DEF RunFields, :>, @@
  <1> QED
    BY <1>1, <1>2 DEF EnvFields

(* What logWithLevel and Format make of a data map. *)
LineFields(level, map, context) ==
    Format((("level" :> String(LevelText(level))) @@ map) @@ context)

LEMMA ALineIsAFunction ==
    ASSUME NEW level, NEW map, NEW context, NEW fields,
           fields = LineFields(level, map, context)
    PROVE  fields = [f \in DOMAIN fields |-> fields[f]]
  <1> DEFINE all == EnvFields @@ ((("level" :> String(LevelText(level))) @@ map) @@ context)
  <1> HIDE DEF all
  <1>1. fields = [f \in DOMAIN all |-> Written(all[f])]
    BY DEF LineFields, Format, Written, all
  <1> QED
    BY <1>1

LEMMA FieldsOfALine ==
    ASSUME NEW level, NEW map, NEW context, NEW fields,
           fields = LineFields(level, map, context)
    PROVE  /\ \A f : f \in DOMAIN fields <=>
                     f \in DOMAIN EnvFields \cup {"level"} \cup DOMAIN map \cup DOMAIN context
           /\ \A f \in DOMAIN fields :
                fields[f] = IF f \in DOMAIN EnvFields THEN EnvFields[f]
                            ELSE IF f = "level" THEN String(LevelText(level))
                            ELSE IF f \in DOMAIN map THEN Written(map[f])
                            ELSE Written(context[f])
           /\ \A f \in DOMAIN fields : fields[f].type # "nothing"
  <1> DEFINE all == EnvFields @@ ((("level" :> String(LevelText(level))) @@ map) @@ context)
  <1>1. /\ DOMAIN all = DOMAIN EnvFields \cup {"level"} \cup DOMAIN map \cup DOMAIN context
        /\ \A f \in DOMAIN all :
             all[f] = IF f \in DOMAIN EnvFields THEN EnvFields[f]
                      ELSE IF f = "level" THEN String(LevelText(level))
                      ELSE IF f \in DOMAIN map THEN map[f] ELSE context[f]
    BY DEF :>, @@
  <1>2. fields = [f \in DOMAIN all |-> Written(all[f])]
    BY DEF LineFields, Format, Written
  <1> HIDE DEF all
  <1> QED
    BY <1>1, <1>2, EnvNames, Kinds

-----------------------------------------------------------------------------
(* The request: what has become of it, and what its fields say of the response  *)

Counted ==
    /\ outcome \in [lines : Nat, rolled : Nat, dropped : Nat]
    /\ RequestReportedOnce

(* While the application serves the request, the last status it gave is the one *)
(* that is sent, unless it came too late or is not final.                      *)
StatusTrue ==
    ~late /\ ~Informational(status) => status = IF sent = 0 THEN 200 ELSE sent

(* The fields the middleware writes last, once they are in a map. *)
Tells(map) ==
    /\ {"status-code", "response-size", "count"} \subseteq DOMAIN map
    /\ map["status-code"] = Number(status)
    /\ map["response-size"] = Number(length)
    /\ map["count"] = Number(1)

Asks(map) == \A f \in DOMAIN Request : f \in DOMAIN map /\ map[f] = Request[f]

RequestSeen ==
    /\ late \in BOOLEAN
    /\ stage # "panicked" => StatusTrue
    /\ stage = "collect" => DOMAIN data \cap DOMAIN Request = {}
    /\ stage \in {"collect", "choose", "process", "log", "done"} => Tells(data)
    /\ stage \in {"choose", "process", "log", "done"} => Asks(data)

LEMMA CountedStep == Counted /\ [Next]_vars => Counted'
  <1> USE DEF vars, responseVars, appVars, loggerVars, mapVars, requestVars, NothingLogged,
              Counted, RequestReportedOnce
  <1> SUFFICES ASSUME Counted, [Next]_vars PROVE Counted'
    OBVIOUS
  <1>a. ASSUME UNCHANGED <<outcome, stage>> PROVE Counted'
    BY <1>a
  <1>1. ASSUME NEW code \in Codes, WriteHeader(code) PROVE Counted'
    BY <1>1, <1>a DEF WriteHeader
  <1>2. ASSUME NEW n \in Sizes, Write(n) PROVE Counted'
    BY <1>2, <1>a DEF Write
  <1>3. CASE HandlerReturns \/ HandlerPanics
    BY <1>3 DEF HandlerReturns, HandlerPanics
  <1>4. ASSUME NEW m, NEW own, LogKept(m) \/ LogFresh(m, own) \/ Stop PROVE Counted'
    BY <1>4, <1>a DEF LogKept, LogFresh, Stop
  <1>5. ASSUME NEW c, NEW g, AddContext(c[1], c[2]) \/ SetConfig(g[1], g[2]) \/ SetLogLevel(g[2])
        PROVE  Counted'
    BY <1>5, <1>a DEF AddContext, SetConfig, SetLogLevel
  <1>6. CASE EnableRollups
    BY <1>6, <1>a DEF EnableRollups
  <1>7. CASE Collect \/ Choose
    <2>1. outcome' = outcome /\ stage # "done" /\ stage' # "done"
      BY <1>7 DEF Collect, Choose
    <2> QED
      BY <2>1
  <1>8. CASE Process
    BY <1>8 DEF Process, AfterProcess
  <1>9. CASE LogRequest
    BY <1>9 DEF LogRequest
  <1>10. CASE UNCHANGED vars
    BY <1>10, <1>a
  <1> QED
    BY <1>1, <1>2, <1>3, <1>4, <1>5, <1>6, <1>7, <1>8, <1>9, <1>10 DEF Next, Terminating

(* ServeHTTP reports a request once - a line, a rollup, or neither when the     *)
(* level of the logger is above its own - and never after the handler panicked, *)
(* whatever other goroutines do with the logger and EnableRollups meanwhile.    *)
THEOREM OneReport == Spec => []RequestReportedOnce
  <1>1. Init => Counted
    BY DEF Init, Counted, RequestReportedOnce
  <1>2. Counted => RequestReportedOnce
    BY DEF Counted
  <1> QED
    BY <1>1, <1>2, CountedStep, PTL DEF Spec

LEMMA RequestSeenStep == RequestSeen /\ [Next]_vars => RequestSeen'
  <1> USE DEF vars, responseVars, appVars, loggerVars, mapVars, requestVars, NothingLogged,
              RequestSeen, StatusTrue, Tells, Asks
  <1> SUFFICES ASSUME RequestSeen, [Next]_vars PROVE RequestSeen'
    OBVIOUS
  <1>a. ASSUME UNCHANGED <<responseVars, stage, data>> PROVE RequestSeen'
    BY <1>a
  <1>1. ASSUME NEW code \in Codes, WriteHeader(code) PROVE RequestSeen'
    <2>1. /\ stage = "serving" /\ UNCHANGED <<stage, data>> /\ late' \in BOOLEAN
          /\ status' = code
          /\ late' = FALSE => sent = 0
      BY <1>1 DEF WriteHeader
    <2>2. ASSUME sent = 0, ~Informational(code) PROVE sent' = code /\ code # 0
      BY <1>1, <2>2, CodesAssumption DEF WriteHeader
    <2> QED
      BY <2>1, <2>2
  <1>2. ASSUME NEW n \in Sizes, Write(n) PROVE RequestSeen'
    BY <1>2 DEF Write
  <1>3. CASE HandlerReturns
    <2>1. /\ stage = "serving" /\ stage' = "collect" /\ UNCHANGED responseVars
          /\ Tells(data)' /\ DOMAIN data' \cap DOMAIN Request = {}
      BY <1>3 DEF HandlerReturns, Finished
    <2> QED
      BY <2>1
  <1>4. CASE HandlerPanics
    BY <1>4 DEF HandlerPanics
  <1>5. ASSUME NEW m, NEW own, LogKept(m) \/ LogFresh(m, own) \/ Stop PROVE RequestSeen'
    BY <1>5, <1>a DEF LogKept, LogFresh, Stop
  <1>6. ASSUME NEW c, NEW g, AddContext(c[1], c[2]) \/ SetConfig(g[1], g[2]) \/ SetLogLevel(g[2])
        PROVE  RequestSeen'
    BY <1>6, <1>a DEF AddContext, SetConfig, SetLogLevel
  <1>7. CASE EnableRollups
    BY <1>7, <1>a DEF EnableRollups
  <1>8. CASE Collect
    <2>1. PICK custom \in CustomFields : data' = ApplyHandlers(custom, data)
      BY <1>8 DEF Collect
    <2> DEFINE op == IF "op" \in DOMAIN globals THEN "op" :> globals["op"] ELSE NoData
    <2>2. DOMAIN op \subseteq {"op"}
      <3>1. CASE "op" \in DOMAIN globals
        BY <3>1 DEF :>
      <3>2. CASE "op" \notin DOMAIN globals
        BY <3>2, NoFields
      <3> QED
        BY <3>1, <3>2
    <2>3. data' = (data @@ (op @@ Request)) @@ custom
      BY <2>1 DEF ApplyHandlers, DefaultFields
    <2> HIDE DEF op
    <2>4. \A f \in DOMAIN data : f \in DOMAIN data' /\ data'[f] = data[f]
      BY <2>3 DEF @@
    <2>5. \A f \in DOMAIN Request \ DOMAIN data : f \in DOMAIN data' /\ data'[f] = Request[f]
      BY <2>2, <2>3 DEF @@
    <2>6. DOMAIN data \cap DOMAIN Request = {}
      BY <1>8 DEF Collect
    <2> QED
      BY <1>8, <2>4, <2>5, <2>6 DEF Collect
  <1>9. CASE Choose \/ Process \/ LogRequest
    BY <1>9 DEF Choose, Process, AfterProcess, LogRequest
  <1>10. CASE UNCHANGED vars
    BY <1>10, <1>a
  <1> QED
    BY <1>1, <1>2, <1>3, <1>4, <1>5, <1>6, <1>7, <1>8, <1>9, <1>10 DEF Next, Terminating

-----------------------------------------------------------------------------
(* The lines.  A context holds texts, and of the reserved names the source.     *)

ContextOK(context) ==
    /\ DOMAIN context \cap ReservedKeyNames = {"source"}
    /\ \A f \in DOMAIN context : context[f].type = "string"

(* Names that neither Format writes, nor logWithLevel, nor every log method. *)
OwnName(f) == f \notin DOMAIN EnvFields \cup {"level", "title"}

(* Of those, a data map has what was put there in calls, as it was written if it *)
(* was used before, and what it was given of an earlier context.               *)
Carries(map, from, first) ==
    \A f \in DOMAIN map \cup DOMAIN from \cup DOMAIN first :
        OwnName(f) =>
            /\ f \in DOMAIN map <=> f \in DOMAIN from \cup DOMAIN first
            /\ f \in DOMAIN from => map[f] \in {from[f], Written(from[f])}
            /\ f \in DOMAIN first \ DOMAIN from =>
                 map[f] = first[f] /\ first[f].type = "string"

LineMade ==
    /\ line.fields = LineFields(line.level, line.given, line.context)
    /\ "title" \in DOMAIN line.given /\ line.given["title"] = line.title
    /\ line.title.type = "string"
    /\ ContextOK(line.context)
    /\ Carries(line.given, line.from, line.first)
    /\ line.about = "request" => Tells(line.given) /\ Asks(line.given)

Logged ==
    /\ ContextOK(globals)
    /\ Carries(kept, had, got)
    /\ Lined => LineMade

(* A log call makes such a line, or none. *)
LEMMA LogWithLevelMakes ==
    ASSUME ContextOK(globals), UNCHANGED <<status, length>>,
           NEW about, NEW level, NEW title, NEW map, NEW from, NEW first,
           LogWithLevel(about, level, title, map, from, first),
           "title" \in DOMAIN map, map["title"] = String(title),
           Carries(map, from, first),
           about = "request" => Tells(map) /\ Asks(map)
    PROVE  (Lined => LineMade)'
  <1>1. CASE level < logLvl
    BY <1>1 DEF LogWithLevel, Lined
  <1>2. CASE ~(level < logLvl)
    <2>1. AfterLog(level, map) = LineFields(level, map, globals)
      BY <1>2 DEF AfterLog, Merged, LineFields
    <2>2. line' = [about |-> about, level |-> level, fields |-> AfterLog(level, map),
                   title |-> String(title), given |-> map, from |-> from, first |-> first,
                   context |-> globals]
      BY <1>2 DEF LogWithLevel
    <2>3. /\ line'.about = about /\ line'.level = level
          /\ line'.fields = AfterLog(level, map) /\ line'.title = String(title)
          /\ line'.given = map /\ line'.from = from /\ line'.first = first
          /\ line'.context = globals
      BY <2>2
    <2>4. about = "request" => (Tells(line.given) /\ Asks(line.given))'
      BY <2>3 DEF Tells, Asks
    <2> QED
      BY <2>1, <2>3, <2>4, Kinds DEF LineMade
  <1> QED
    BY <1>1, <1>2

(* What the methods put in a data map: a title and, in some, type and value.    *)
LEMMA TitledCarries ==
    ASSUME NEW title, NEW map, NEW from, NEW first, Carries(map, from, first)
    PROVE  /\ Carries(Titled(title, map), from, first)
           /\ "title" \in DOMAIN Titled(title, map)
           /\ Titled(title, map)["title"] = String(title)
  <1> DEFINE new == Titled(title, map)
  <1>1. /\ \A f : f \in DOMAIN new <=> f = "title" \/ f \in DOMAIN map
        /\ new["title"] = String(title)
        /\ \A f \in DOMAIN map : OwnName(f) => new[f] = map[f]
    BY DEF Titled, OwnName, :>, @@
  <1>2. \A f : OwnName(f) => (f \in DOMAIN new <=> f \in DOMAIN map)
    BY <1>1 DEF OwnName
  <1> HIDE DEF new
  <1>3. Carries(new, from, first)
    BY <1>1, <1>2 DEF Carries
  <1> QED
    BY <1>1, <1>3 DEF new

LEMMA PutsCarry ==
    ASSUME NEW puts, NEW map, NEW from, NEW first, Carries(map, from, first)
    PROVE  Carries(puts @@ map, puts @@ from, first)
  <1> DEFINE new == puts @@ map
             all == puts @@ from
  <1>1. /\ \A f : f \in DOMAIN new <=> f \in DOMAIN puts \/ f \in DOMAIN map
        /\ \A f \in DOMAIN new : new[f] = IF f \in DOMAIN puts THEN puts[f] ELSE map[f]
    BY DEF @@
  <1>2. /\ \A f : f \in DOMAIN all <=> f \in DOMAIN puts \/ f \in DOMAIN from
        /\ \A f \in DOMAIN all : all[f] = IF f \in DOMAIN puts THEN puts[f] ELSE from[f]
    BY DEF @@
  <1> HIDE DEF new, all
  <1>3. ASSUME NEW f \in DOMAIN new \cup DOMAIN all \cup DOMAIN first, OwnName(f)
        PROVE  /\ f \in DOMAIN new <=> f \in DOMAIN all \cup DOMAIN first
               /\ f \in DOMAIN all => new[f] \in {all[f], Written(all[f])}
               /\ f \in DOMAIN first \ DOMAIN all =>
                    new[f] = first[f] /\ first[f].type = "string"
    <2>1. CASE f \in DOMAIN puts
      BY <1>1, <1>2, <2>1
    <2>2. CASE f \notin DOMAIN puts
      <3>1. f \in DOMAIN map \cup DOMAIN from \cup DOMAIN first
        BY <1>1, <1>2, <1>3, <2>2
      <3>2. /\ f \in DOMAIN map <=> f \in DOMAIN from \cup DOMAIN first
            /\ f \in DOMAIN from => map[f] \in {from[f], Written(from[f])}
            /\ f \in DOMAIN first \ DOMAIN from =>
                 map[f] = first[f] /\ first[f].type = "string"
        BY <1>3, <3>1 DEF Carries
      <3>3. f \in DOMAIN from => f \in DOMAIN map
        BY <3>2
      <3> QED
        BY <1>1, <1>2, <2>2, <3>2, <3>3
    <2> QED
      BY <2>1, <2>2
  <1>4. Carries(new, all, first)
    BY <1>3 DEF Carries
  <1> QED
    BY <1>4 DEF new, all

LEMMA OwnMapCarries ==
    \A map : Carries(map, map, NoData)
  BY NoFields DEF Carries

(* A map that is used again has what it was given the first time. *)
LEMMA AfterLogCarries ==
    ASSUME NEW level, NEW map, NEW from, NEW first, Carries(map, from, first),
           ContextOK(globals)
    PROVE  Carries(AfterLog(level, map), from,
                   IF level < logLvl THEN first ELSE first @@ globals)
  <1>1. CASE level < logLvl
    BY <1>1 DEF AfterLog
  <1>2. CASE ~(level < logLvl)
    <2> DEFINE new == AfterLog(level, map)
               last == first @@ globals
    <2>1. new = LineFields(level, map, globals)
      BY <1>2 DEF AfterLog, Merged, LineFields
    <2> HIDE DEF new, last
    <2>2. /\ \A f : f \in DOMAIN new <=>
                f \in DOMAIN EnvFields \cup {"level"} \cup DOMAIN map \cup DOMAIN globals
          /\ \A f \in DOMAIN new :
                new[f] = IF f \in DOMAIN EnvFields THEN EnvFields[f]
                         ELSE IF f = "level" THEN String(LevelText(level))
                         ELSE IF f \in DOMAIN map THEN Written(map[f])
                         ELSE Written(globals[f])
      BY <2>1, FieldsOfALine
    <2>3. /\ DOMAIN last = DOMAIN first \cup DOMAIN globals
          /\ \A f \in DOMAIN last : last[f] = IF f \in DOMAIN first THEN first[f] ELSE globals[f]
      BY DEF last, @@
    <2>4. ASSUME NEW f, OwnName(f)
          PROVE  /\ f \in DOMAIN new <=> f \in DOMAIN map \cup DOMAIN globals
                 /\ f \in DOMAIN map => new[f] = Written(map[f])
                 /\ f \in DOMAIN globals \ DOMAIN map => new[f] = Written(globals[f])
      BY <2>2, <2>4 DEF OwnName
    <2>5. ASSUME NEW f \in DOMAIN map \cup DOMAIN from \cup DOMAIN first, OwnName(f)
          PROVE  /\ f \in DOMAIN map <=> f \in DOMAIN from \cup DOMAIN first
                 /\ f \in DOMAIN from => map[f] \in {from[f], Written(from[f])}
                 /\ f \in DOMAIN first \ DOMAIN from =>
                       map[f] = first[f] /\ first[f].type = "string"
      BY <2>5 DEF Carries
    <2>6. ASSUME NEW f \in DOMAIN new \cup DOMAIN from \cup DOMAIN last, OwnName(f)
          PROVE  /\ f \in DOMAIN new <=> f \in DOMAIN from \cup DOMAIN last
                 /\ f \in DOMAIN from => new[f] \in {from[f], Written(from[f])}
                 /\ f \in DOMAIN last \ DOMAIN from =>
                       new[f] = last[f] /\ last[f].type = "string"
      <3>1. f \in DOMAIN new <=> f \in DOMAIN from \cup DOMAIN last
        BY <2>3, <2>4, <2>5, <2>6
      <3>2. ASSUME f \in DOMAIN from PROVE new[f] \in {from[f], Written(from[f])}
        BY <2>4, <2>5, <2>6, <3>2, Kinds
      <3>3. ASSUME f \in DOMAIN last \ DOMAIN from
            PROVE  new[f] = last[f] /\ last[f].type = "string"
        <4>1. CASE f \in DOMAIN first
          <5>1. map[f] = first[f] /\ first[f].type = "string" /\ f \in DOMAIN map
            BY <2>5, <2>6, <3>3, <4>1
          <5> QED
            BY <2>3, <2>4, <2>6, <3>3, <4>1, <5>1, Kinds
        <4>2. CASE f \notin DOMAIN first
          <5>1. f \in DOMAIN globals \ DOMAIN map
            BY <2>3, <2>5, <2>6, <3>3, <4>2
          <5> QED
            BY <2>3, <2>4, <2>6, <3>3, <4>2, <5>1, Kinds DEF ContextOK
        <4> QED
          BY <4>1, <4>2
      <3> QED
        BY <3>1, <3>2, <3>3
    <2>7. Carries(new, from, last)
      BY <2>6 DEF Carries
    <2> QED
      BY <1>2, <2>7 DEF new, last
  <1> QED
    BY <1>1, <1>2

(* No field of the map is reserved. *)
Plain(map) == DOMAIN map \cap ReservedKeyNames = {}

LEMMA PlainField ==
    ASSUME NEW k, k \notin ReservedKeyNames, NEW v
    PROVE  Plain(k :> v)
  BY DEF Plain, :>

LEMMA PlainMerge ==
    ASSUME NEW f, NEW g, Plain(f), Plain(g)
    PROVE  Plain(f @@ g)
  BY DEF Plain, @@

LEMMA NewContext == ContextOK(NewGlobals(Source, NoData))
  <1> DEFINE env == FromEnv(RunFields @@ TeamField)
             own == [k \in {key \in DOMAIN NoData : ~Reserved(key)} |-> NoData[k]]
  <1>1. DOMAIN env \subseteq DOMAIN (RunFields @@ TeamField)
        /\ \A f \in DOMAIN env : env[f].type = "string"
    BY DEF FromEnv, String
  <1>2. DOMAIN (RunFields @@ TeamField) \cap ReservedKeyNames = {}
    <2> DEFINE a == "deploy_env" :> <<"_DEPLOY_ENV", "DEPLOY_ENV">>
               b == "wf_id" :> <<"_EXECUTION_NAME">>
               c == "pod-id" :> <<"_POD_ID">>
               d == "pod-shortname" :> <<"_POD_SHORTNAME">>
               e == "pod-region" :> <<"_POD_REGION">>
               f == "pod-account" :> <<"_POD_ACCOUNT">>
    <2>1. /\ Plain(a) /\ Plain(b) /\ Plain(c) /\ Plain(d) /\ Plain(e) /\ Plain(f)
          /\ Plain(TeamField)
      <3>1. \A k \in {"deploy_env", "wf_id", "pod-id", "pod-shortname", "pod-region",
                       "pod-account", "team"} : k \notin ReservedKeyNames
        BY DEF ReservedKeyNames
      <3> QED
        BY <3>1, PlainField DEF TeamField
    <2>2. RunFields = ((((a @@ b) @@ c) @@ d) @@ e) @@ f
      BY DEF RunFields
    <2> HIDE DEF a, b, c, d, e, f
    <2>3. Plain((a @@ b) @@ c)
      BY <2>1, PlainMerge
    <2>4. Plain((((a @@ b) @@ c) @@ d) @@ e)
      BY <2>1, <2>3, PlainMerge
    <2>5. Plain(RunFields)
      BY <2>1, <2>2, <2>4, PlainMerge
    <2> QED
      BY <2>1, <2>5, PlainMerge DEF Plain
  <1>3. DOMAIN own = {}
    BY NoFields
  <1>4. NewGlobals(Source, NoData) = (("source" :> String(Source)) @@ env) @@ own
    BY DEF NewGlobals
  <1> HIDE DEF env, own
  <1>5. /\ \A f : f \in DOMAIN NewGlobals(Source, NoData) <=> f = "source" \/ f \in DOMAIN env
        /\ NewGlobals(Source, NoData)["source"] = String(Source)
        /\ \A f \in DOMAIN env : f # "source" => NewGlobals(Source, NoData)[f] = env[f]
    BY <1>3, <1>4 DEF :>, @@
  <1>6. "source" \in ReservedKeyNames
    BY DEF ReservedKeyNames
  <1> QED
    BY <1>1, <1>2, <1>5, <1>6, Kinds DEF ContextOK

(* A context that is given a text under a name that is not reserved, or under   *)
(* "source".                                                                   *)
LEMMA ContextGrows ==
    ASSUME NEW context, ContextOK(context), NEW key, NEW value,
           key \notin ReservedKeyNames \/ key = "source"
    PROVE  ContextOK((key :> String(value)) @@ context)
  <1> DEFINE new == (key :> String(value)) @@ context
  <1>1. /\ \A f : f \in DOMAIN new <=> f = key \/ f \in DOMAIN context
        /\ new[key] = String(value)
        /\ \A f \in DOMAIN context : f # key => new[f] = context[f]
    BY DEF :>, @@
  <1> HIDE DEF new
  <1>2. \A f \in DOMAIN new : new[f].type = "string"
    BY <1>1, Kinds DEF ContextOK
  <1>3. \A f : f \in DOMAIN new \cap ReservedKeyNames <=> f = "source"
    BY <1>1 DEF ContextOK
  <1>4. ContextOK(new)
    BY <1>2, <1>3 DEF ContextOK
  <1> QED
    BY <1>4 DEF new

LEMMA LoggedInit == Init => Logged
  <1> SUFFICES ASSUME Init PROVE Logged
    OBVIOUS
  <1>1. ContextOK(globals)
    BY NewContext DEF Init
  <1>2. Carries(kept, had, got)
    BY OwnMapCarries DEF Init
  <1>3. ~Lined
    BY DEF Init, Lined
  <1> QED
    BY <1>1, <1>2, <1>3 DEF Logged

LEMMA LoggedStep == RequestSeen /\ Logged /\ [Next]_vars => Logged'
  <1> USE DEF vars, responseVars, appVars, loggerVars, mapVars, requestVars
  <1> SUFFICES ASSUME RequestSeen, Logged, [Next]_vars PROVE Logged'
    OBVIOUS
  <1>a. ASSUME UNCHANGED <<globals, kept, had, got>>, NothingLogged PROVE Logged'
    BY <1>a DEF Logged, NothingLogged, Lined
  <1>b. ContextOK(globals) /\ Carries(kept, had, got)
    BY DEF Logged
  <1>1. ASSUME NEW code \in Codes, WriteHeader(code) PROVE Logged'
    BY <1>1, <1>a DEF WriteHeader
  <1>2. ASSUME NEW n \in Sizes, Write(n) PROVE Logged'
    BY <1>2, <1>a DEF Write
  <1>3. CASE HandlerReturns \/ HandlerPanics
    BY <1>3, <1>a DEF HandlerReturns, HandlerPanics
  <1>4. ASSUME NEW m \in Methods, NEW own \in OwnMaps, LogFresh(m, own) PROVE Logged'
    <2> DEFINE from == m.puts @@ own
               map == Titled(m.title, from)
    <2>1. /\ UNCHANGED <<globals, kept, had, got, status, length>>
          /\ LogWithLevel("app", m.level, m.title, map, from, NoData)
      BY <1>4 DEF LogFresh
    <2> HIDE DEF from
    <2>2. /\ Carries(map, from, NoData)
          /\ "title" \in DOMAIN map /\ map["title"] = String(m.title)
      BY OwnMapCarries, TitledCarries
    <2> HIDE DEF map
    <2>3. (Lined => LineMade)'
      BY <1>b, <2>1, <2>2, LogWithLevelMakes
    <2> QED
      BY <1>b, <2>1, <2>3 DEF Logged
  <1>5. ASSUME NEW m \in Methods, LogKept(m) PROVE Logged'
    <2> DEFINE map == Titled(m.title, m.puts @@ kept)
    <2>1. /\ UNCHANGED <<globals, status, length>>
          /\ had' = m.puts @@ had
          /\ LogWithLevel("app", m.level, m.title, map, had', got)
          /\ kept' = AfterLog(m.level, map)
          /\ got' = IF m.level < logLvl THEN got ELSE got @@ globals
      BY <1>5 DEF LogKept
    <2>2. Carries(m.puts @@ kept, had', got)
      BY <1>b, <2>1, PutsCarry
    <2>3. /\ Carries(map, had', got)
          /\ "title" \in DOMAIN map /\ map["title"] = String(m.title)
      BY <2>2, TitledCarries
    <2> HIDE DEF map
    <2>4. (Lined => LineMade)'
      BY <1>b, <2>1, <2>3, LogWithLevelMakes
    <2>5. Carries(kept', had', got')
      BY <1>b, <2>1, <2>3, AfterLogCarries
    <2> QED
      BY <1>b, <2>1, <2>4, <2>5 DEF Logged
  <1>6. CASE Stop
    <2> DEFINE own == "elapsedTimeSeconds" :> Number(1)
               map == Titled("event-end", own)
    <2>1. /\ UNCHANGED <<globals, kept, had, got, status, length>>
          /\ LogWithLevel("app", Debug, "event-end", map, own, NoData)
      BY <1>6 DEF Stop
    <2> HIDE DEF own
    <2>2. /\ Carries(map, own, NoData)
          /\ "title" \in DOMAIN map /\ map["title"] = String("event-end")
      BY OwnMapCarries, TitledCarries
    <2> HIDE DEF map
    <2>3. (Lined => LineMade)'
      BY <1>b, <2>1, <2>2, LogWithLevelMakes
    <2> QED
      BY <1>b, <2>1, <2>3 DEF Logged
  <1>7. ASSUME NEW key, NEW value, AddContext(key, value) PROVE Logged'
    <2>1. CASE Reserved(key)
      BY <1>7, <1>a, <2>1 DEF AddContext
    <2>2. CASE ~Reserved(key)
      <3>1. key \notin ReservedKeyNames
        BY <2>2, LowerCaseAssumption DEF Reserved
      <3>2. /\ globals' = (key :> String(value)) @@ globals
            /\ UNCHANGED <<kept, had, got>> /\ ~Lined'
        BY <1>7, <2>2 DEF AddContext, NothingLogged, Lined
      <3>3. ContextOK(globals')
        BY <1>b, <3>1, <3>2, ContextGrows
      <3> QED
        BY <1>b, <3>2, <3>3 DEF Logged
    <2> QED
      BY <2>1, <2>2
  <1>8. ASSUME NEW source, NEW level, SetConfig(source, level) PROVE Logged'
    <2>1. /\ globals' = ("source" :> String(source)) @@ globals
          /\ UNCHANGED <<kept, had, got>> /\ ~Lined'
      BY <1>8 DEF SetConfig, NothingLogged, Lined
    <2>2. ContextOK(globals')
      BY <1>b, <2>1, ContextGrows
    <2> QED
      BY <1>b, <2>1, <2>2 DEF Logged
  <1>9. ASSUME NEW level, SetLogLevel(level) PROVE Logged'
    BY <1>9, <1>a DEF SetLogLevel
  <1>10. CASE EnableRollups \/ Collect \/ Choose \/ Process
    BY <1>10, <1>a DEF EnableRollups, Collect, Choose, Process
  <1>11. CASE LogRequest
    <2> DEFINE level == LogLevelFromStatus(status)
               map == Titled("request-finished", data)
    <2>1. /\ UNCHANGED <<globals, kept, had, got, status, length>> /\ stage = "log"
          /\ LogWithLevel("request", level, "request-finished", map, data, NoData)
      BY <1>11 DEF LogRequest
    <2>2. /\ Carries(map, data, NoData)
          /\ "title" \in DOMAIN map /\ map["title"] = String("request-finished")
      BY OwnMapCarries, TitledCarries
    <2>3. \A f \in DOMAIN data : f # "title" => f \in DOMAIN map /\ map[f] = data[f]
      BY DEF Titled, :>, @@
    <2>4. Tells(data) /\ Asks(data)
      BY <2>1 DEF RequestSeen
    <2> HIDE DEF map, level
    <2>5. Tells(map) /\ Asks(map)
      BY <2>3, <2>4 DEF Tells, Asks
    <2>6. (Lined => LineMade)'
      BY <1>b, <2>1, <2>2, <2>5, LogWithLevelMakes
    <2> QED
      BY <1>b, <2>1, <2>6 DEF Logged
  <1>12. CASE UNCHANGED vars
    BY <1>12 DEF Logged, Lined, LineMade, Tells, Asks
  <1> QED
    BY <1>1, <1>2, <1>3, <1>4, <1>5, <1>6, <1>7, <1>8, <1>9, <1>10, <1>11, <1>12
    DEF Next, Terminating

-----------------------------------------------------------------------------
Typed ==
    /\ stage \in {"serving", "collect", "choose", "process", "log", "done", "panicked"}
    /\ status \in Nat /\ sent \in Nat /\ length \in Nat /\ calls \in Nat
    /\ late \in BOOLEAN /\ timer \in BOOLEAN /\ rollups \in BOOLEAN
    /\ logLvl \in Levels

LEMMA TypedInit == Init => Typed
  <1>1. NewLevel(EnvLevel) \in Levels
    BY DEF NewLevel, LevelNames, Levels, Trace, Debug, Info, Warning, Error, Critical
  <1> QED
    <2> SUFFICES ASSUME Init PROVE Typed
      OBVIOUS
    <2>1. status \in Nat /\ sent \in Nat /\ length \in Nat /\ calls \in Nat
      BY DEF Init, DefaultStatus
    <2>2. late \in BOOLEAN /\ timer \in BOOLEAN /\ rollups \in BOOLEAN
      BY DEF Init
    <2>3. stage = "serving" /\ logLvl \in Levels
      BY <1>1 DEF Init
    <2> QED
      BY <2>1, <2>2, <2>3 DEF Typed

LEMMA TypedStep == Typed /\ [Next]_vars => Typed'
  <1> USE DEF vars, responseVars, appVars, loggerVars, mapVars, requestVars,
              Typed, Call
  <1> SUFFICES ASSUME Typed, [Next]_vars PROVE Typed'
    OBVIOUS
  <1>1. ASSUME NEW code \in Codes, WriteHeader(code) PROVE Typed'
    <2>1. code \in Nat
      BY CodesAssumption
    <2> QED
      BY <1>1, <2>1 DEF WriteHeader
  <1>2. ASSUME NEW n \in Sizes, Write(n) PROVE Typed'
    <2>1. n \in Nat
      BY CodesAssumption
    <2> QED
      BY <1>2, <2>1 DEF Write
  <1>3. CASE HandlerReturns \/ HandlerPanics
    BY <1>3 DEF HandlerReturns, HandlerPanics
  <1>4. ASSUME NEW m, NEW own, LogKept(m) \/ LogFresh(m, own) \/ Stop PROVE Typed'
    <2>1. /\ UNCHANGED <<responseVars, stage, rollups, logLvl>>
          /\ timer' \in BOOLEAN /\ calls' = calls + 1
      <3>1. CASE LogKept(m)
        BY <3>1 DEF LogKept
      <3>2. CASE LogFresh(m, own)
        BY <3>2 DEF LogFresh
      <3>3. CASE Stop
        BY <3>3 DEF Stop
      <3> QED
        BY <1>4, <3>1, <3>2, <3>3
    <2> QED
      BY <2>1
  <1>5. ASSUME NEW c, AddContext(c[1], c[2]) PROVE Typed'
    BY <1>5 DEF AddContext
  <1>6. ASSUME NEW g \in Configs, SetConfig(g[1], g[2]) \/ SetLogLevel(g[2]) PROVE Typed'
    BY <1>6, LevelsAssumption DEF SetConfig, SetLogLevel
  <1>7. CASE EnableRollups \/ Collect \/ Choose \/ Process
    BY <1>7 DEF EnableRollups, Collect, Choose, Process, AfterProcess
  <1>8. CASE LogRequest
    BY <1>8 DEF LogRequest
  <1>9. CASE UNCHANGED vars
    BY <1>9
  <1> QED
    BY <1>1, <1>2, <1>3, <1>4, <1>5, <1>6, <1>7, <1>8, <1>9 DEF Next, Terminating

-----------------------------------------------------------------------------
LEMMA RequestSeenInit == Init => RequestSeen
  BY DEF Init, RequestSeen, StatusTrue, DefaultStatus

LEMMA Invariant == Spec => [](RequestSeen /\ Logged)
  BY RequestSeenInit, RequestSeenStep, LoggedInit, LoggedStep, PTL DEF Spec

(* The variables keep their types; the context of the logger has no reserved    *)
(* name but its source, and everything on a line can be written, whatever the   *)
(* application and its environment give the logger (AddContext, Format).        *)
THEOREM TypeCorrect == Spec => []TypeOK
  <1>1. Typed /\ Logged => TypeOK
    <2> SUFFICES ASSUME Typed, Logged PROVE TypeOK
      OBVIOUS
    <2>1. DOMAIN globals \cap ReservedKeyNames = {"source"}
      BY DEF Logged, ContextOK
    <2>2. Lined => \A f \in DOMAIN line.fields : line.fields[f].type # "nothing"
      BY FieldsOfALine DEF Logged, LineMade
    <2> QED
      BY <2>1, <2>2 DEF Typed, TypeOK
  <1> QED
    BY <1>1, TypedInit, TypedStep, Invariant, PTL DEF Spec

(* The status the middleware reports is the one net/http has sent, whatever the *)
(* handler did with its response writer, except where it called WriteHeader too *)
(* late or with an informational status last.                                   *)
THEOREM StatusIsTrue == Spec => []SentStatusIsLogged
  <1>1. RequestSeen => SentStatusIsLogged
    BY DEF RequestSeen, StatusTrue, Tells, SentStatusIsLogged
  <1> QED
    BY <1>1, Invariant, PTL

(* No handler, no context and no environment changes what the middleware itself *)
(* says of a request.                                                          *)
THEOREM ReservedAreLast == Spec => []ReservedFieldsWin
  <1>1. RequestSeen /\ Logged => ReservedFieldsWin
    <2> SUFFICES ASSUME RequestSeen, Logged PROVE ReservedFieldsWin
      OBVIOUS
    <2>1. stage = "process" => Tells(data) /\ Asks(data)
      BY DEF RequestSeen
    <2>2. ASSUME Lined, line.about = "request"
          PROVE  Tells(line.fields) /\ Asks(line.fields)
      <3>1. Tells(line.given) /\ Asks(line.given)
        BY <2>2 DEF Logged, LineMade
      <3>2. ASSUME NEW f \in DOMAIN line.given, f \notin DOMAIN EnvFields, f # "level"
            PROVE  f \in DOMAIN line.fields /\ line.fields[f] = Written(line.given[f])
        BY <2>2, <3>2, FieldsOfALine DEF Logged, LineMade
      <3>3. Asks(line.fields)
        BY <3>1, <3>2, EnvNames, Kinds DEF Asks
      <3>4. Tells(line.fields)
        BY <3>1, <3>2, EnvNames, Kinds DEF Tells
      <3> QED
        BY <3>3, <3>4
    <2> QED
      BY <2>1, <2>2 DEF ReservedFieldsWin, Tells, Asks
  <1> QED
    BY <1>1, Invariant, PTL

(* A line has the title and level of its call, every field that was put in its  *)
(* map, and the context of the time of the call, or of an earlier call in a map *)
(* that is used again; it has nothing else but what the environment sets, which *)
(* overrides all but title and level.                                           *)
THEOREM LinesAreOfTheirCalls == Spec => []LineOfItsCall
  <1>1. Logged => LineOfItsCall
    <2> SUFFICES ASSUME Logged, Lined PROVE LineOfItsCall
      BY DEF LineOfItsCall
    <2> DEFINE known == DOMAIN EnvFields \cup DOMAIN line.from \cup DOMAIN line.first
                          \cup DOMAIN line.context
    <2>1. LineMade
      BY DEF Logged
    <2>2. /\ \A f : f \in DOMAIN line.fields <=>
                f \in DOMAIN EnvFields \cup {"level"} \cup DOMAIN line.given \cup DOMAIN line.context
          /\ \A f \in DOMAIN line.fields :
                line.fields[f] = IF f \in DOMAIN EnvFields THEN EnvFields[f]
                                 ELSE IF f = "level" THEN String(LevelText(line.level))
                                 ELSE IF f \in DOMAIN line.given THEN Written(line.given[f])
                                 ELSE Written(line.context[f])
      BY <2>1, FieldsOfALine DEF LineMade
    <2>3. line.fields["title"] = line.title
      BY <2>1, <2>2, EnvNames, Kinds DEF LineMade
    <2>4. line.fields["level"] = String(LevelText(line.level))
      BY <2>2, EnvNames
    <2>5. \A f : OwnName(f) => (f \in DOMAIN line.given <=> f \in DOMAIN line.from \cup DOMAIN line.first)
      BY <2>1 DEF LineMade, Carries
    <2>6. "title" \in DOMAIN line.given
      BY <2>1 DEF LineMade
    <2>7. \A f : f \in DOMAIN line.fields <=> f \in {"title", "level"} \cup known
      BY <2>2, <2>5, <2>6 DEF OwnName
    <2>8. DOMAIN line.fields = {"title", "level"} \cup known
      <3> HIDE DEF known
      <3> QED
        BY <2>7
    <2>9. ASSUME NEW f \in known \ {"title", "level"}
          PROVE  line.fields[f] =
                   IF f \in DOMAIN EnvFields THEN EnvFields[f]
                   ELSE IF f \in DOMAIN line.from
                     THEN IF Marshals(line.from[f]) THEN line.from[f] ELSE ErrorMarshaling
                   ELSE IF f \in DOMAIN line.first THEN line.first[f] ELSE line.context[f]
      <3>1. CASE f \in DOMAIN EnvFields
        BY <2>2, <3>1
      <3>2. CASE f \notin DOMAIN EnvFields
        <4>1. OwnName(f)
          BY <2>9, <3>2 DEF OwnName
        <4>2. line.fields[f] = IF f \in DOMAIN line.given THEN Written(line.given[f])
                               ELSE Written(line.context[f])
          BY <2>2, <2>7, <2>9, <3>2
        <4>3. CASE f \in DOMAIN line.from
          <5>1. f \in DOMAIN line.given
                /\ line.given[f] \in {line.from[f], Written(line.from[f])}
            BY <2>1, <4>1, <4>3 DEF LineMade, Carries
          <5>2. line.fields[f] = Written(line.from[f])
            BY <4>2, <5>1, Kinds
          <5> QED
            BY <3>2, <4>3, <5>2 DEF Written
        <4>4. CASE f \in DOMAIN line.first \ DOMAIN line.from
          <5>1. /\ f \in DOMAIN line.given /\ line.given[f] = line.first[f]
                /\ line.first[f].type = "string"
            BY <2>1, <4>1, <4>4 DEF LineMade, Carries
          <5> QED
            BY <3>2, <4>2, <4>4, <5>1, Kinds
        <4>5. CASE f \notin DOMAIN line.first \cup DOMAIN line.from
          <5>1. f \notin DOMAIN line.given /\ f \in DOMAIN line.context
            BY <2>5, <2>9, <3>2, <4>1, <4>5
          <5>2. line.context[f].type = "string"
            BY <2>1, <5>1 DEF LineMade, ContextOK
          <5> QED
            BY <3>2, <4>2, <4>5, <5>1, <5>2, Kinds
        <4> QED
          BY <4>3, <4>4, <4>5
      <3> QED
        BY <3>1, <3>2
    <2> QED
      BY <2>3, <2>4, <2>8, <2>9 DEF LineOfItsCall
  <1> QED
    BY <1>1, Invariant, PTL

-----------------------------------------------------------------------------
(* The validator *)

LEMMA NothingMissing ==
    ASSUME NEW fields, {"source", "title", "level"} \subseteq DOMAIN fields,
           "type" \in DOMAIN fields /\ fields["type"] = String("gauge") =>
               "value" \in DOMAIN fields
    PROVE  \A i \in DOMAIN RequiredFields(fields) : RequiredFields(fields)[i] \in DOMAIN fields
  <1> DEFINE gauge == "type" \in DOMAIN fields /\ fields["type"] = String("gauge")
  <1>1. CASE gauge
    <2>1. RequiredFields(fields) = <<"source", "title", "level">> \o <<"value">>
      BY <1>1, Zenon DEF RequiredFields
    <2> QED
      BY <1>1, <2>1
  <1>2. CASE ~gauge
    <2>1. RequiredFields(fields) = <<"source", "title", "level">> \o <<>>
      BY <1>2, Zenon DEF RequiredFields
    <2> QED
      BY <2>1
  <1> QED
    BY <1>1, <1>2

LEMMA NoErrors ==
    ASSUME NEW fields, fields # NotJSON, WrongTypes(fields) = {},
           \A i \in DOMAIN RequiredFields(fields) : RequiredFields(fields)[i] \in DOMAIN fields,
           NEW level \in ValidLevels, fields["level"] = String(LevelText(level))
    PROVE  ValidateJSONFormat(fields) = {}
  <1>1. {i \in DOMAIN RequiredFields(fields) : RequiredFields(fields)[i] \notin DOMAIN fields} = {}
    OBVIOUS
  <1>2. fields["level"].of \in {LevelText(l) : l \in ValidLevels}
    BY Kinds
  <1> QED
    BY <1>1, <1>2 DEF ValidateJSONFormat

(* A line the caller gave proper data passes the validator: neither a context,  *)
(* nor the environment, nor a map used again, nor a value that had to be        *)
(* replaced spoils it.  What is not JSON is taken to be no function, which is   *)
(* what a line is here.                                                         *)
THEOREM LinesValidate ==
    ASSUME NotJSON # [f \in DOMAIN NotJSON |-> NotJSON[f]]
    PROVE  Spec => []LineValidates
  <1>1. Logged => LineValidates
    <2> SUFFICES ASSUME Logged, Lined, line.level \in ValidLevels, Proper(line.given)
                 PROVE  ValidateJSONFormat(line.fields) = {}
      BY DEF LineValidates
    <2> DEFINE fields == line.fields
               given == line.given
    <2>1. LineMade
      BY DEF Logged
    <2>2. /\ \A f : f \in DOMAIN fields <=>
                f \in DOMAIN EnvFields \cup {"level"} \cup DOMAIN given \cup DOMAIN line.context
          /\ \A f \in DOMAIN fields :
                fields[f] = IF f \in DOMAIN EnvFields THEN EnvFields[f]
                            ELSE IF f = "level" THEN String(LevelText(line.level))
                            ELSE IF f \in DOMAIN given THEN Written(given[f])
                            ELSE Written(line.context[f])
      BY <2>1, FieldsOfALine DEF LineMade
    <2>3. fields # NotJSON
      BY <2>1, ALineIsAFunction DEF LineMade
    <2>4. /\ DOMAIN line.context \cap ReservedKeyNames = {"source"}
          /\ line.context["source"].type = "string"
          /\ "title" \in DOMAIN given
      BY <2>1 DEF LineMade, ContextOK
    <2>5. /\ \A f \in {"source", "title", "level", "type"} : ExpectedValueTypes[f] = "string"
          /\ ExpectedValueTypes["value"] = "number"
          /\ DOMAIN ExpectedValueTypes = {"source", "title", "level", "type", "value"}
      BY DEF ExpectedValueTypes
    <2> HIDE DEF fields, given
    <2>6. \A f \in DOMAIN given \cap {"source", "title", "level", "type", "value"} :
            given[f].type = ExpectedValueTypes[f]
      BY <2>5 DEF Proper, WrongTypes, given
    <2>7. \A f \in DOMAIN given \cap {"source", "title", "level", "type", "value"} :
            Written(given[f]) = given[f]
      BY <2>5, <2>6 DEF Written, Marshals
    <2>8. /\ {"source", "title", "level"} \subseteq DOMAIN fields
          /\ fields["level"] = String(LevelText(line.level))
          /\ fields["source"].type = "string"
      BY <2>2, <2>4, <2>5, <2>6, <2>7, EnvNames, Kinds
    <2>9. ASSUME NEW f \in {"title", "type", "value"}, f \in DOMAIN fields
          PROVE  f \in DOMAIN given /\ fields[f] = given[f]
      BY <2>2, <2>4, <2>7, <2>9, EnvNames DEF ReservedKeyNames
    <2>10. WrongTypes(fields) = {}
      BY <2>5, <2>6, <2>8, <2>9, Kinds DEF WrongTypes
    <2>11. "type" \in DOMAIN fields /\ fields["type"] = String("gauge") =>
             "value" \in DOMAIN fields
      BY <2>2, <2>9 DEF Proper, given
    <2>12. ValidateJSONFormat(fields) = {}
      BY <2>3, <2>8, <2>10, <2>11, NothingMissing, NoErrors
    <2> QED
      BY <2>12 DEF fields
  <1> QED
    BY <1>1, Invariant, PTL
================================================================================
