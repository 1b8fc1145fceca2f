----------------------------- MODULE LineFormat -----------------------------
(* The fields of a log line: those the environment gives it, how they become   *)
(* JSON (kayvee.go), which context a logger takes (logger/logger.go), and what *)
(* the validator asks of a line (validator/validator.go).  A data map and a    *)
(* line are functions from field names to values.                              *)
EXTENDS LogLevels, Sequences

CONSTANTS
    Env,        \* environment variable -> its text, "" or absent if not set
    LowerCase,  \* those names of fields that are not in lower case -> their
                \* lower case
    NotJSON     \* a text that is not a JSON object

(* One field, and fields with those of others that are not among them: as in    *)
(* TLC, whose operators the proofs cannot expand.                              *)
field :> value == [f \in {field} |-> value]
fields @@ others ==
    [f \in DOMAIN fields \cup DOMAIN others |->
        IF f \in DOMAIN fields THEN fields[f] ELSE others[f]]

(* A value is what encoding/json sees of it; nothing is what it cannot write:   *)
(* a function, a channel, a number that is not one.                            *)
String(text) == [type |-> "string", of |-> text]
Number(n) == [type |-> "number", of |-> n]
Object == [type |-> "object", of |-> "fields"]
Null == [type |-> "null", of |-> "nil"]
Unwritable == [type |-> "nothing", of |-> "NaN"]
ErrorMarshaling == String("Error marshaling value in map")

-----------------------------------------------------------------------------
(* Fields from the environment *)

Getenv(name) == IF name \in DOMAIN Env THEN Env[name] ELSE ""

(* Fields, each with the variables it is taken from, the first that is set.     *)
RunFields ==
    ("deploy_env" :> <<"_DEPLOY_ENV", "DEPLOY_ENV">>) @@
    ("wf_id" :> <<"_EXECUTION_NAME">>) @@
    ("pod-id" :> <<"_POD_ID">>) @@
    ("pod-shortname" :> <<"_POD_SHORTNAME">>) @@
    ("pod-region" :> <<"_POD_REGION">>) @@
    ("pod-account" :> <<"_POD_ACCOUNT">>)
TeamField == "team" :> <<"_TEAM_OWNER", "TEAM_OWNER">>

FromEnv(fields) ==
    LET Set(f) == SelectSeq(fields[f], LAMBDA name : Getenv(name) # "")
    IN  [f \in {g \in DOMAIN fields : Set(g) # <<>>} |-> String(Getenv(Set(f)[1]))]

(* init of kayvee.go: read once. *)
EnvFields == FromEnv(RunFields)

-----------------------------------------------------------------------------
(* Format and FormatLog: what is written, and left in the data map *)

(* Defective variant: nothing is looked at after json.Marshal has failed. *)
AnyValue(value) == TRUE

Marshals(value) == value.type # "nothing"

Format(data) ==
    LET all == EnvFields @@ data
    IN  [f \in DOMAIN all |-> IF Marshals(all[f]) THEN all[f] ELSE ErrorMarshaling]

FormatLog(source, level, title, data) ==
    Format(("source" :> String(source)) @@ ("level" :> String(level))
           @@ ("title" :> String(title)) @@ data)

-----------------------------------------------------------------------------
(* The context of a logger *)

ReservedKeyNames == {"title", "source", "value", "type", "level", "_kvmeta"}

(* Defective variant: no name is reserved. *)
AnyKey(key) == FALSE

\* A name that is not in lower case differs from those, which are.
ASSUME LowerCaseAssumption == DOMAIN LowerCase \cap ReservedKeyNames = {}

Reserved(key) ==
    (IF key \in DOMAIN LowerCase THEN LowerCase[key] ELSE key) \in ReservedKeyNames

(* NewConcreteLoggerWithContext: the environment overrides contextValues.       *)
NewGlobals(source, contextValues) ==
    ("source" :> String(source)) @@ FromEnv(RunFields @@ TeamField)
    @@ [k \in {key \in DOMAIN contextValues : ~Reserved(key)} |-> contextValues[k]]

-----------------------------------------------------------------------------
(* ValidateJSONFormat *)

ExpectedValueTypes == [source |-> "string", title |-> "string", level |-> "string",
                       type |-> "string", value |-> "number"]
ValidLevels == Debug..Critical

WrongTypes(line) ==
    {f \in DOMAIN line \cap DOMAIN ExpectedValueTypes :
        line[f].type # ExpectedValueTypes[f]}

RequiredFields(line) ==
    <<"source", "title", "level">> \o
    (IF "type" \in DOMAIN line /\ line["type"] = String("gauge") THEN <<"value">> ELSE <<>>)

(* The errors it can return, [error, field]: fields of a wrong type are found   *)
(* in any order, fields that are missing in that of RequiredFields.            *)
ValidateJSONFormat(line) ==
    LET required == RequiredFields(line)
        missing == {i \in DOMAIN required : required[i] \notin DOMAIN line} IN
    CASE line = NotJSON -> {[error |-> "InvalidJSON", field |-> "none"]}
      [] line # NotJSON /\ WrongTypes(line) # {} ->
           {[error |-> "InvalidValueType", field |-> f] : f \in WrongTypes(line)}
      [] line # NotJSON /\ WrongTypes(line) = {} /\ missing # {} ->
           LET first == CHOOSE i \in missing : \A j \in missing : i <= j
           IN  {[error |-> "MissingRequiredField", field |-> required[first]]}
      [] OTHER ->
           IF line["level"].of \in {LevelText(l) : l \in ValidLevels} THEN {}
           ELSE {[error |-> "InvalidValue", field |-> "level"]}
==============================================================================
