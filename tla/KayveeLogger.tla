----------------------------- MODULE KayveeLogger -----------------------------
(* Logger of logger/logger.go, shared by goroutines that log, add context and  *)
(* change its configuration.  A log call checks the level, then takes the read *)
(* lock, merges the context into its data map, formats and writes through a    *)
(* log.Logger, which has a mutex of its own; AddContext and SetConfig take the *)
(* write lock; the other setters take none.                                    *)
EXTENDS LogLevels, FiniteSets

CONSTANTS
    Callers,        \* goroutines that use the logger
    Keys,           \* keys given to AddContext
    Reserved,       \* those whose lower case is in reservedKeyNames
    Configs,        \* arguments of SetConfig, numbered from 1
    LevelOf,        \* config -> its logLvl
    EnvLevel,       \* KAYVEE_LOG_LEVEL: "", the name of a level, or neither
    LogLevels,      \* the levels of the log calls
    OwnKeys,        \* keys the data map of a log call may have itself
    MaxVersion,     \* bound on the AddContext calls per key
    UnlockedSetters \* SetLogLevel, SetFormatter and SetOutput are called too

ASSUME CallersAssumption == IsFiniteSet(Callers)
ASSUME KeysAssumption == Reserved \subseteq Keys /\ MaxVersion \in Nat
ASSUME ConfigsAssumption ==
    /\ Configs \subseteq Nat \ {0}
    /\ LevelOf \in [Configs -> Levels]
ASSUME UsageAssumption ==
    /\ UnlockedSetters \in BOOLEAN
    /\ LogLevels \subseteq Levels /\ OwnKeys \subseteq Keys

VARIABLES
    \* fields of Logger; a source, formatter or output is named by the config
    \* that brought it, 0 for those of NewConcreteLogger
    context,    \* globals: key -> how often AddContext set it, 0 if never
    source, logLvl, formatter,
    logWriter,  \* the log.Logger, see NewLogWriter
    \* globalsL
    readers, writersWaiting,
    \* callers
    pc,         \* "idle", "rlock" (about to call RLock), "rwait" (blocked in
                \* it), "locked", "merged", "formatted", "println", "write",
                \* "lock" (blocked in Lock)
    call,       \* what the call in progress is about, see Calls
    data,       \* the caller's data map, see Maps
    began,      \* the context when the log call began
    line,       \* the line the caller has formatted and writes, see Lines
    printing    \* the log.Logger the caller is in, or NoWriter

globals == <<context, source>>
config == <<logLvl, formatter, logWriter>>
mutex == <<readers, writersWaiting>>
vars == <<globals, config, mutex, pc, call, data, began, line, printing>>

Contexts == [Keys -> 0..MaxVersion]
NoContext == [k \in Keys |-> 0]

(* A log call has a level and, in its data map, values for some of the keys; a  *)
(* call that writes has a key (AddContext) or a config (SetConfig).            *)
LogCalls == [op : {"log"}, level : LogLevels, own : SUBSET OwnKeys]
NoCall == [op |-> "none"]
Calls == LogCalls \cup [op : {"AddContext"}, key : Keys]
                  \cup [op : {"SetConfig"}, config : Configs] \cup {NoCall}

(* A data map, made for one call: context keys (0 when absent, Own when it is   *)
(* the caller's value) and "source" (-1 when absent).                          *)
Own == -1
Maps == [context : [Keys -> {Own} \cup 0..MaxVersion], source : {-1, 0} \cup Configs]
EmptyMap == [context |-> NoContext, source |-> -1]
DataMap(own) == [EmptyMap EXCEPT !.context = [k \in Keys |-> IF k \in own THEN Own ELSE 0]]

Lines == [map : Maps, level : LogLevels, own : SUBSET OwnKeys,
          formatter : {0} \cup Configs, output : {0} \cup Configs,
          began : Contexts, ended : Contexts]
NoLine == [map |-> EmptyMap]

(* log.New makes a log.Logger, with a mutex, for an output; its id tells it     *)
(* from those the callers are in.                                              *)
NoWriter == [id |-> 0]
LogWriters == [id : 1..Cardinality(Callers) + 1, output : {0} \cup Configs]

Init ==
    /\ context = NoContext
    /\ source = 0 /\ logLvl = NewLevel(EnvLevel) /\ formatter = 0
    /\ logWriter = [id |-> 1, output |-> 0]
    /\ readers = {} /\ writersWaiting = {}
    /\ pc = [c \in Callers |-> "idle"]
    /\ call = [c \in Callers |-> NoCall]
    /\ data = [c \in Callers |-> EmptyMap]
    /\ began = [c \in Callers |-> NoContext]
    /\ line = [c \in Callers |-> NoLine]
    /\ printing = [c \in Callers |-> NoWriter]

Goto(c, p) == pc' = [pc EXCEPT ![c] = p]

EndCall(c) ==
    /\ Goto(c, "idle")
    /\ call' = [call EXCEPT ![c] = NoCall]
    /\ began' = [began EXCEPT ![c] = NoContext]

-----------------------------------------------------------------------------
(* Log calls: logWithLevel, whichever of TraceD ... gauge, Log it comes from *)

(* The level is looked at with no lock. *)
LogStart(c, l) ==
    /\ pc[c] = "idle"
    /\ IF l.level < logLvl
         THEN UNCHANGED <<pc, call, data, began>>
         ELSE /\ call' = [call EXCEPT ![c] = l]
              /\ data' = [data EXCEPT ![c] = DataMap(l.own)]
              /\ began' = [began EXCEPT ![c] = context]
              /\ Goto(c, "rlock")
    /\ UNCHANGED <<globals, config, mutex, line, printing>>

(* sync.RWMutex: a reader waits while a writer is waiting, and is let in by its *)
(* Unlock.                                                                     *)
RLock(c) ==
    /\ pc[c] = "rlock"
    /\ \/ /\ writersWaiting = {}
          /\ readers' = readers \cup {c}
          /\ Goto(c, "locked")
       \/ /\ writersWaiting # {}
          /\ UNCHANGED readers
          /\ Goto(c, "rwait")
    /\ UNCHANGED <<globals, config, writersWaiting, call, data, began, line, printing>>

(* Defective variant: only the source is merged. *)
NotMerged(key) == 0

Global(key) == context[key]

(* Values in the data map override the globals. *)
Merged(map) ==
    [map EXCEPT !.context = [k \in Keys |->
                                IF map.context[k] # 0 THEN map.context[k] ELSE Global(k)],
                !.source = IF @ # -1 THEN @ ELSE source]

(* Defective variants: the lock is released after the merge; there is no        *)
(* RUnlock.                                                                    *)
ReleaseRLock(c) == readers' = readers \ {c}
NoRUnlock(c) == UNCHANGED readers

KeepRLock(c) == UNCHANGED readers
RUnlock(c) == readers' = readers \ {c}

Merge(c) ==
    /\ pc[c] = "locked"
    /\ data' = [data EXCEPT ![c] = Merged(@)]
    /\ KeepRLock(c)
    /\ Goto(c, "merged")
    /\ UNCHANGED <<globals, config, writersWaiting, call, began, line, printing>>

(* formatAndLog: the formatter is read first, the log.Logger after it has run. *)
Format(c) ==
    /\ pc[c] = "merged"
    /\ line' = [line EXCEPT ![c] =
         [map |-> data[c], level |-> call[c].level, own |-> call[c].own,
          formatter |-> formatter, output |-> logWriter.output,
          began |-> began[c], ended |-> context]]
    /\ Goto(c, "formatted")
    /\ UNCHANGED <<globals, config, mutex, call, data, began, printing>>

Println(c) ==
    /\ pc[c] = "formatted"
    /\ line' = [line EXCEPT ![c].output = logWriter.output]
    /\ printing' = [printing EXCEPT ![c] = logWriter]
    /\ Goto(c, "println")
    /\ UNCHANGED <<globals, config, mutex, call, data, began>>

(* Defective variant: a log.Logger is made for each line. *)
NeverHeld(writer) == TRUE

NotHeld(writer) == \A d \in Callers : pc[d] = "write" => printing[d] # writer

(* The output's Write begins, under the mutex of the log.Logger. *)
Output(c) ==
    /\ pc[c] = "println" /\ NotHeld(printing[c])
    /\ Goto(c, "write")
    /\ UNCHANGED <<globals, config, mutex, call, data, began, line, printing>>

(* Write and Println return, and the deferred RUnlock. *)
LogEnd(c) ==
    /\ pc[c] = "write"
    /\ data' = [data EXCEPT ![c] = EmptyMap]
    /\ line' = [line EXCEPT ![c] = NoLine]
    /\ printing' = [printing EXCEPT ![c] = NoWriter]
    /\ RUnlock(c)
    /\ EndCall(c)
    /\ UNCHANGED <<globals, config, writersWaiting>>

-----------------------------------------------------------------------------
(* AddContext and SetConfig *)

WantLock(c, w) ==
    /\ pc[c] = "idle"
    /\ call' = [call EXCEPT ![c] = w]
    /\ writersWaiting' = writersWaiting \cup {c}
    /\ Goto(c, "lock")
    /\ UNCHANGED <<globals, config, readers, data, began, line, printing>>

(* Defective variant: there is no Unlock. *)
NoUnlock(c) == UNCHANGED writersWaiting

Unlock(c) == writersWaiting' = writersWaiting \ {c}

(* Lock, the critical section and Unlock, which lets in the readers blocked in  *)
(* RLock before another writer: those that call RLock later wait for that one.  *)
Locked(c) ==
    /\ pc[c] = "lock" /\ readers = {}
    /\ Unlock(c)
    /\ readers' = {d \in Callers : pc[d] = "rwait"}
    /\ pc' = [d \in Callers |-> IF d = c THEN "idle"
                                ELSE IF pc[d] = "rwait" THEN "locked" ELSE pc[d]]
    /\ call' = [call EXCEPT ![c] = NoCall]
    /\ UNCHANGED <<data, began, line, printing>>

AddContext(c) ==
    /\ call[c].op = "AddContext"
    /\ Locked(c)
    /\ IF call[c].key \in Reserved
         THEN UNCHANGED context
         ELSE context' = [context EXCEPT ![call[c].key] = @ + 1]
    /\ UNCHANGED <<source, config>>

(* setOutput: a new log.Logger, told apart from those in use. *)
NewLogWriter(g) ==
    logWriter' \in {w \in LogWriters :
        /\ w.output = g
        /\ w.id = CHOOSE i \in 1..Cardinality(Callers) + 1 :
                    \A c \in Callers : printing[c].id # i}

SetConfig(c) ==
    /\ call[c].op = "SetConfig"
    /\ Locked(c)
    /\ source' = call[c].config
    /\ logLvl' = LevelOf[call[c].config]
    /\ formatter' = call[c].config
    /\ NewLogWriter(call[c].config)
    /\ UNCHANGED context

(* SetLogLevel, SetFormatter and SetOutput: no lock. *)
SetUnlocked(c, g) ==
    /\ pc[c] = "idle" /\ UnlockedSetters
    /\ \/ logLvl' = LevelOf[g] /\ UNCHANGED <<formatter, logWriter>>
       \/ formatter' = g /\ UNCHANGED <<logLvl, logWriter>>
       \/ NewLogWriter(g) /\ UNCHANGED <<logLvl, formatter>>
    /\ UNCHANGED <<globals, mutex, pc, call, data, began, line, printing>>

Pending(key) == {c \in Callers : pc[c] = "lock" /\ call[c] = [op |-> "AddContext", key |-> key]}

Next == \E c \in Callers :
    \/ \E l \in LogCalls : LogStart(c, l)
    \/ RLock(c) \/ Merge(c) \/ Format(c) \/ Println(c) \/ Output(c) \/ LogEnd(c)
    \/ \E key \in Keys :
         /\ context[key] + Cardinality(Pending(key)) < MaxVersion
         /\ WantLock(c, [op |-> "AddContext", key |-> key])
    \/ \E g \in Configs :
         \/ WantLock(c, [op |-> "SetConfig", config |-> g])
         \/ SetUnlocked(c, g)
    \/ AddContext(c) \/ SetConfig(c)

Spec == Init /\ [][Next]_vars

(* Goroutines inside a call run, and nobody is passed over for ever at a        *)
(* sync.Mutex, which hands itself to a waiter that has starved: log.Logger has  *)
(* one, and RWMutex.Lock takes one first.  Nobody has to make a call.           *)
Fairness == \A c \in Callers :
    /\ WF_vars(RLock(c) \/ Merge(c) \/ Format(c) \/ Println(c) \/ LogEnd(c))
    /\ SF_vars(Output(c) \/ AddContext(c) \/ SetConfig(c))

FairSpec == Spec /\ Fairness

-----------------------------------------------------------------------------
(* Properties *)

Reading(c) == pc[c] \in {"locked", "merged", "formatted", "println", "write"}
Written(c) == pc[c] = "write"

\* The variables hold what the Go fields, the mutex and the callers can hold, and
\* the mutex is held and waited for by those who are in a call that does so.
TypeOK ==
    /\ readers = {c \in Callers : Reading(c)}
    /\ writersWaiting = {c \in Callers : pc[c] = "lock"}
    /\ context \in Contexts /\ logLvl \in Levels
    /\ {source, formatter} \subseteq {0} \cup Configs
    /\ logWriter \in LogWriters
    /\ printing \in [Callers -> LogWriters \cup {NoWriter}]
    /\ pc \in [Callers -> {"idle", "rlock", "rwait", "locked", "merged",
                          "formatted", "println", "write", "lock"}]
    /\ call \in [Callers -> Calls]
    /\ data \in [Callers -> Maps]
    /\ began \in [Callers -> Contexts]
    /\ line \in [Callers -> Lines \cup {NoLine}]

\* The read lock is held from the merge to the write: nothing a reader merged is
\* changed under it, so a line is of one configuration - source, formatter and
\* output - however SetConfig calls are interleaved.  (logWithLevel, SetConfig)
LineOfOneConfig ==
    \A c \in Callers : Written(c) =>
        /\ line[c].formatter = line[c].map.source
        /\ line[c].output = line[c].map.source

\* A line has the caller's value of a key or, when it gave none, a value the
\* context had while the call ran: never one older than the call, never one it
\* had not got.  (logWithLevel, AddContext)
ContextOfTheCall ==
    \A c \in Callers : Written(c) =>
        \A k \in Keys : IF k \in line[c].own
            THEN line[c].map.context[k] = Own
            ELSE line[c].map.context[k] \in line[c].began[k]..line[c].ended[k]

\* An output sees one Write at a time, though SetConfig makes a log.Logger, with a
\* mutex of its own, for an output that another one may be writing to: it is why
\* the batch loggers are not written to by two goroutines at once.  It needs that
\* nobody calls SetOutput, which does not wait for the lines in progress.
\* (formatAndLog, setOutput, SetConfig)
OneWriteAtATime ==
    \A c, d \in Callers :
        c # d /\ Written(c) /\ Written(d)
          => printing[c].output # printing[d].output

\* A call that wants the write lock gets it, however many log calls follow one
\* another.  (AddContext, SetConfig)
WritersGetTheLock == \A c \in Callers : pc[c] = "lock" ~> pc[c] = "idle"

\* A log call that passed the level check is written, however many goroutines
\* add context and change the configuration.  (logWithLevel)
LinesAreWritten == \A c \in Callers : pc[c] = "rlock" ~> pc[c] = "idle"
===============================================================================
