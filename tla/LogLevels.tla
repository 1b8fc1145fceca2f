------------------------------ MODULE LogLevels ------------------------------
(* The levels of logger/logger.go.                                             *)
EXTENDS Integers

Trace == 0
Debug == 1
Info == 2
Warning == 3
Error == 4
Critical == 5
Levels == Trace..Critical

LevelNames == [trace |-> Trace, debug |-> Debug, info |-> Info,
               warning |-> Warning, error |-> Error, critical |-> Critical]

(* LogLevel.String: a number that is no level has the empty name. *)
LevelText(level) ==
    IF level \in Levels
      THEN CHOOSE name \in DOMAIN LevelNames : LevelNames[name] = level ELSE ""

(* The level of a new logger, from KAYVEE_LOG_LEVEL in lower case: no name, or  *)
(* one that is not known, is Trace.                                            *)
NewLevel(env) == IF env \in DOMAIN LevelNames THEN LevelNames[env] ELSE Trace
==============================================================================
