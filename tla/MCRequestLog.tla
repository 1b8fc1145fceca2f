---------------------------- MODULE MCRequestLog ----------------------------
(* A small instance of RequestLog for TLC, and cases of the tests of kayvee.go  *)
(* and of the validator.                                                       *)
EXTENDS RequestLog

MCEnv == [_POD_ID |-> "pod", _DEPLOY_ENV |-> "", DEPLOY_ENV |-> "dev", TEAM_OWNER |-> "team"]
MCLowerCase == [Type |-> "type"]
MCRequest == [method |-> String("GET"), path |-> String("/")]
MCCustomFields ==
    {NoData, [method |-> String("mux"), user |-> Object],
     ("op" :> String("mux-op")) @@ ("status-code" :> String("mux"))}
MCContextCalls ==
    {<<"op", "list">>, <<"type", "gauge">>, <<"Type", "gauge">>,
     <<"deploy_env", "mine">>, <<"method", "PUT">>}
MCOwnMaps == {NoData, [op |-> Unwritable, k |-> Null]}
MCKeptMap == [k |-> Number(7)]
MCGaugeValues == {Number(2)}
MCConfigs == {<<"other", Warning>>}

Event == [source |-> String("an-app"), title |-> String("an_event")]
At(level) == ("level" :> String(level)) @@ Event
Errors(text) == {e.error : e \in ValidateJSONFormat(text)}

(* validator_test.go *)
ASSUME ValidatorTests ==
    /\ Errors(NotJSON) = {"InvalidJSON"}
    /\ ValidateJSONFormat(Event) = {[error |-> "MissingRequiredField", field |-> "level"]}
    /\ ValidateJSONFormat(("type" :> String("gauge")) @@ At("error")) =
         {[error |-> "MissingRequiredField", field |-> "value"]}
    /\ Errors(("type" :> Number(100)) @@ At("error")) = {"InvalidValueType"}
    /\ Errors([type |-> String("gauge"), value |-> String("100")] @@ At("error")) =
         {"InvalidValueType"}
    /\ Errors(At("shlerror")) = {"InvalidValue"}
    /\ Errors(At("error")) = {}
    /\ Errors([type |-> String("gauge"), value |-> Number(100)] @@ At("error")) = {}

(* tests.json, kayvee_test.go, and what the two packages say of trace.          *)
ASSUME FormatTests ==
    /\ DOMAIN Format(NoData) = {"deploy_env", "pod-id"}
    /\ Errors(FormatLog("an-app", "error", "t", [title |-> String("other")])) = {}
    /\ FormatLog("an-app", "error", "t", [title |-> String("other")])["title"] = String("t")
    /\ Errors(FormatLog("an-app", "trace", "t", NoData)) = {"InvalidValue"}
    /\ NewGlobals("s", [team |-> String("mine")])
         = [source |-> String("s"), team |-> String("team"),
            deploy_env |-> String("dev")] @@ ("pod-id" :> String("pod"))
==============================================================================
