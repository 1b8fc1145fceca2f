-------------------------- MODULE KayveeLoggerProofs --------------------------
(* What holds of KayveeLogger for any callers, keys, configurations and levels. *)
EXTENDS KayveeLogger, FiniteSetTheorems, TLAPS

USE CallersAssumption, KeysAssumption, ConfigsAssumption, UsageAssumption

Places == {"idle", "rlock", "rwait", "locked", "merged", "formatted", "println",
           "write", "lock"}
HasLine(c) == pc[c] \in {"formatted", "println", "write"}
HasMerged(c) == pc[c] = "merged" \/ HasLine(c)
InPrintln(c) == pc[c] \in {"println", "write"}
InLogCall(c) == pc[c] \in {"rlock", "rwait"} \/ Reading(c)

-----------------------------------------------------------------------------
(* Type correctness.  What a caller keeps is of the kind its place in the call  *)
(* says, and AddContext calls that wait for the lock are counted by the bound.  *)

CallsInProgress ==
    \A c \in Callers :
        /\ InLogCall(c) => call[c] \in LogCalls
        /\ HasLine(c) => line[c] \in Lines
        /\ InPrintln(c) => printing[c] \in LogWriters

ContextBounded ==
    \A key \in Keys : context[key] + Cardinality(Pending(key)) <= MaxVersion

Typed == TypeOK /\ CallsInProgress /\ ContextBounded

LEMMA AddContextCall ==
    ASSUME NEW w \in Calls, w.op = "AddContext"
    PROVE  w.key \in Keys /\ w = [op |-> "AddContext", key |-> w.key]
  BY DEF Calls, LogCalls, NoCall

LEMMA SetConfigCall ==
    ASSUME NEW w \in Calls, w.op = "SetConfig"
    PROVE  w.config \in Configs
  BY DEF Calls, LogCalls, NoCall

LEMMA PendingFinite ==
    \A key \in Keys : IsFiniteSet(Pending(key)) /\ Cardinality(Pending(key)) \in Nat
  <1> SUFFICES ASSUME NEW key \in Keys
               PROVE  IsFiniteSet(Pending(key)) /\ Cardinality(Pending(key)) \in Nat
    OBVIOUS
  <1>1. Pending(key) \subseteq Callers
    BY DEF Pending
  <1> QED
    BY <1>1, FS_Subset, FS_CardinalityType

(* A step with which nobody begins to wait for AddContext, and that sets no key. *)
LEMMA PendingShrinks ==
    ASSUME ContextBounded, context \in Contexts, context' = context,
           NEW key \in Keys, Pending(key)' \subseteq Pending(key)
    PROVE  context'[key] + Cardinality(Pending(key)') <= MaxVersion
  <1>1. Cardinality(Pending(key)') <= Cardinality(Pending(key))
    BY PendingFinite, FS_Subset
  <1>2. Cardinality(Pending(key)') \in Nat /\ Cardinality(Pending(key)) \in Nat
    BY PendingFinite, FS_Subset, FS_CardinalityType
  <1> QED
    BY <1>1, <1>2 DEF ContextBounded, Contexts

LEMMA DataMapTyped ==
    \A own \in SUBSET OwnKeys : DataMap(own) \in Maps
  BY DEF DataMap, EmptyMap, NoContext, Maps, Own

LEMMA MergedTyped ==
    ASSUME NEW map \in Maps, context \in Contexts, source \in {0} \cup Configs
    PROVE  Merged(map) \in Maps
  BY DEF Merged, Maps, Contexts, Global, Own

(* A step after which the calls that wait for the lock are those of before, or  *)
(* fewer, and that sets no key.                                                *)
LEMMA BoundKept ==
    ASSUME ContextBounded, context \in Contexts, context' = context,
           \A key \in Keys : Pending(key)' \subseteq Pending(key)
    PROVE  ContextBounded'
  BY PendingShrinks DEF ContextBounded

LEMMA TypedInit == Init => Typed
  <1> SUFFICES ASSUME Init PROVE Typed
    OBVIOUS
  <1> USE DEF Init, NoContext
  <1>1. NewLevel(EnvLevel) \in Levels
    BY DEF NewLevel, LevelNames, Levels, Trace, Debug, Info, Warning, Error, Critical
  <1>2. logWriter \in LogWriters
    <2>1. Cardinality(Callers) \in Nat
      BY FS_CardinalityType
    <2> QED
      BY <2>1 DEF LogWriters
  <1>3. EmptyMap \in Maps
    BY DEF EmptyMap, NoContext, Maps
  <1>4. TypeOK
    BY <1>1, <1>2, <1>3 DEF TypeOK, Reading, Contexts, Calls
  <1>5. CallsInProgress
    BY DEF CallsInProgress, InLogCall, HasLine, InPrintln, Reading
  <1>6. ContextBounded
    <2>1. \A key \in Keys : Pending(key) = {}
      BY DEF Pending
    <2> QED
      <3>1. \A key \in Keys : Cardinality(Pending(key)) = 0 /\ context[key] = 0
        BY <2>1, FS_EmptySet
      <3> QED
        BY <3>1 DEF ContextBounded
  <1> QED
    BY <1>4, <1>5, <1>6 DEF Typed

LEMMA TypedStep == Typed /\ [Next]_vars => Typed'
  <1> SUFFICES ASSUME Typed, [Next]_vars PROVE Typed'
    OBVIOUS
  <1> USE DEF vars, globals, config, mutex, Goto, Typed
  <1>1. ASSUME NEW c \in Callers, NEW l \in LogCalls, LogStart(c, l) PROVE Typed'
    <2>1. DataMap(l.own) \in Maps /\ l \in Calls
      BY DataMapTyped DEF LogCalls, Calls
    <2>2. TypeOK' /\ CallsInProgress'
      BY <1>1, <2>1 DEF LogStart, TypeOK, CallsInProgress, Reading, InLogCall,
                        HasLine, InPrintln
    <2>3. \A key \in Keys : Pending(key)' \subseteq Pending(key)
      BY <1>1 DEF LogStart, Pending, TypeOK
    <2> QED
      BY <1>1, <2>2, <2>3, BoundKept DEF LogStart, TypeOK
  <1>2. ASSUME NEW c \in Callers, RLock(c) PROVE Typed'
    <2>1. TypeOK' /\ CallsInProgress'
      BY <1>2 DEF RLock, TypeOK, CallsInProgress, Reading, InLogCall, HasLine, InPrintln
    <2>2. \A key \in Keys : Pending(key)' \subseteq Pending(key)
      BY <1>2 DEF RLock, Pending, TypeOK
    <2> QED
      BY <1>2, <2>1, <2>2, BoundKept DEF RLock, TypeOK
  <1>3. ASSUME NEW c \in Callers, Merge(c) PROVE Typed'
    <2>1. Merged(data[c]) \in Maps
      BY MergedTyped DEF TypeOK
    <2>2. TypeOK' /\ CallsInProgress'
      BY <1>3, <2>1 DEF Merge, KeepRLock, TypeOK, CallsInProgress, Reading,
                        InLogCall, HasLine, InPrintln
    <2>3. \A key \in Keys : Pending(key)' \subseteq Pending(key)
      BY <1>3 DEF Merge, Pending, TypeOK
    <2> QED
      BY <1>3, <2>2, <2>3, BoundKept DEF Merge, TypeOK
  <1>4. ASSUME NEW c \in Callers, Format(c) PROVE Typed'
    <2> DEFINE new == [map |-> data[c], level |-> call[c].level, own |-> call[c].own,
                       formatter |-> formatter, output |-> logWriter.output,
                       began |-> began[c], ended |-> context]
    <2>1. call[c] \in LogCalls
      BY <1>4 DEF Format, CallsInProgress, InLogCall, Reading
    <2>2. new \in Lines
      BY <2>1 DEF Lines, TypeOK, LogCalls, LogWriters
    <2>3. line' = [line EXCEPT ![c] = new]
      BY <1>4 DEF Format
    <2> HIDE DEF new
    <2>4. TypeOK' /\ CallsInProgress'
      BY <1>4, <2>2, <2>3 DEF Format, TypeOK, CallsInProgress, Reading, InLogCall,
                              HasLine, InPrintln
    <2>5. \A key \in Keys : Pending(key)' \subseteq Pending(key)
      BY <1>4 DEF Format, Pending, TypeOK
    <2> QED
      BY <1>4, <2>4, <2>5, BoundKept DEF Format, TypeOK
  <1>5. ASSUME NEW c \in Callers, Println(c) PROVE Typed'
    <2>1. line[c] \in Lines
      BY <1>5 DEF Println, CallsInProgress, HasLine
    <2>2. [line[c] EXCEPT !.output = logWriter.output] \in Lines
      BY <2>1 DEF Lines, TypeOK, LogWriters
    <2>3. line' = [line EXCEPT ![c] = [line[c] EXCEPT !.output = logWriter.output]]
      BY <1>5 DEF Println, TypeOK
    <2>4. TypeOK' /\ CallsInProgress'
      BY <1>5, <2>2, <2>3 DEF Println, TypeOK, CallsInProgress, Reading, InLogCall,
                              HasLine, InPrintln
    <2>5. \A key \in Keys : Pending(key)' \subseteq Pending(key)
      BY <1>5 DEF Println, Pending, TypeOK
    <2> QED
      BY <1>5, <2>4, <2>5, BoundKept DEF Println, TypeOK
  <1>6. ASSUME NEW c \in Callers, Output(c) PROVE Typed'
    <2>1. TypeOK' /\ CallsInProgress'
      BY <1>6 DEF Output, TypeOK, CallsInProgress, Reading, InLogCall, HasLine, InPrintln
    <2>2. \A key \in Keys : Pending(key)' \subseteq Pending(key)
      BY <1>6 DEF Output, Pending, TypeOK
    <2> QED
      BY <1>6, <2>1, <2>2, BoundKept DEF Output, TypeOK
  <1>7. ASSUME NEW c \in Callers, LogEnd(c) PROVE Typed'
    <2>1. EmptyMap \in Maps /\ NoContext \in Contexts /\ NoCall \in Calls
      BY DEF EmptyMap, NoContext, Maps, Contexts, Calls
    <2>2. TypeOK' /\ CallsInProgress'
      BY <1>7, <2>1 DEF LogEnd, EndCall, RUnlock, TypeOK, CallsInProgress, Reading,
                        InLogCall, HasLine, InPrintln
    <2>3. \A key \in Keys : Pending(key)' \subseteq Pending(key)
      BY <1>7 DEF LogEnd, EndCall, Pending, TypeOK
    <2> QED
      BY <1>7, <2>2, <2>3, BoundKept DEF LogEnd, TypeOK
  <1>8. ASSUME NEW c \in Callers, NEW w \in Calls, WantLock(c, w) PROVE TypeOK' /\ CallsInProgress'
    BY <1>8 DEF WantLock, TypeOK, CallsInProgress, Reading, InLogCall, HasLine, InPrintln
  <1>9. ASSUME NEW c \in Callers, NEW key \in Keys,
               context[key] + Cardinality(Pending(key)) < MaxVersion,
               WantLock(c, [op |-> "AddContext", key |-> key])
        PROVE  Typed'
    <2> DEFINE w == [op |-> "AddContext", key |-> key]
    <2>1. w \in Calls
      BY DEF Calls
    <2>2. TypeOK' /\ CallsInProgress'
      BY <1>8, <1>9, <2>1
    <2>3. ASSUME NEW k \in Keys
          PROVE  context'[k] + Cardinality(Pending(k)') <= MaxVersion
      <3>1. CASE k = key
        <4>1. Pending(key)' = Pending(key) \cup {c}
          BY <1>9 DEF WantLock, Pending, TypeOK
        <4>2. c \notin Pending(key)
          BY <1>9 DEF WantLock, Pending
        <4>3. Cardinality(Pending(key)') = Cardinality(Pending(key)) + 1
          BY <4>1, <4>2, PendingFinite, FS_AddElement
        <4> QED
          BY <1>9, <3>1, <4>3, PendingFinite DEF WantLock, TypeOK, Contexts
      <3>2. CASE k # key
        <4>1. Pending(k)' \subseteq Pending(k)
          BY <1>9, <3>2 DEF WantLock, Pending, TypeOK
        <4> QED
          BY <1>9, <4>1, PendingShrinks DEF WantLock, TypeOK
      <3> QED
        BY <3>1, <3>2
    <2> QED
      BY <2>2, <2>3 DEF ContextBounded
  <1>10. ASSUME NEW c \in Callers, NEW g \in Configs,
                WantLock(c, [op |-> "SetConfig", config |-> g])
         PROVE  Typed'
    <2>1. [op |-> "SetConfig", config |-> g] \in Calls
      BY DEF Calls
    <2>2. TypeOK' /\ CallsInProgress'
      BY <1>8, <1>10, <2>1
    <2>3. \A key \in Keys : Pending(key)' \subseteq Pending(key)
      BY <1>10 DEF WantLock, Pending, TypeOK
    <2> QED
      BY <1>10, <2>2, <2>3, BoundKept DEF WantLock, TypeOK
  <1>11. ASSUME NEW c \in Callers, NEW g \in Configs, SetUnlocked(c, g) PROVE Typed'
    <2>1. TypeOK' /\ CallsInProgress'
      BY <1>11 DEF SetUnlocked, NewLogWriter, TypeOK, CallsInProgress, Reading,
                   InLogCall, HasLine, InPrintln
    <2>2. \A key \in Keys : Pending(key)' \subseteq Pending(key)
      BY <1>11 DEF SetUnlocked, Pending, TypeOK
    <2> QED
      BY <1>11, <2>1, <2>2, BoundKept DEF SetUnlocked, TypeOK
  <1>12. ASSUME NEW c \in Callers, Locked(c)
         PROVE  /\ readers' = {d \in Callers : Reading(d)'}
                /\ writersWaiting' = {d \in Callers : pc'[d] = "lock"}
                /\ pc' \in [Callers -> Places]
                /\ call' \in [Callers -> Calls]
                /\ CallsInProgress'
    <2>1. NoCall \in Calls
      BY DEF Calls
    <2>2. \A d \in Callers : ~Reading(d)
      BY <1>12 DEF Locked, TypeOK
    <2>3. \A d \in Callers : pc'[d] = IF d = c THEN "idle"
                                ELSE IF pc[d] = "rwait" THEN "locked" ELSE pc[d]
      BY <1>12 DEF Locked, TypeOK
    <2>4. readers' = {d \in Callers : Reading(d)'}
      BY <1>12, <2>2, <2>3 DEF Locked, Reading
    <2>5. writersWaiting' = {d \in Callers : pc'[d] = "lock"}
      BY <1>12, <2>3 DEF Locked, Unlock, TypeOK
    <2>6. CallsInProgress'
      BY <1>12, <2>2, <2>3 DEF Locked, TypeOK, CallsInProgress, Reading, InLogCall,
                               HasLine, InPrintln
    <2> QED
      BY <1>12, <2>1, <2>4, <2>5, <2>6 DEF Locked, TypeOK, Places
  <1>13. ASSUME NEW c \in Callers, AddContext(c) PROVE Typed'
    <2>1. PICK key \in Keys : /\ call[c] = [op |-> "AddContext", key |-> key]
                              /\ call[c].key = key
      BY <1>13, AddContextCall DEF AddContext, TypeOK
    <2>2. Locked(c) /\ UNCHANGED <<source, config>>
      BY <1>13 DEF AddContext
    <2>3. \A k \in Keys : Pending(k)' \subseteq Pending(k)
      BY <2>2 DEF Locked, Pending, TypeOK
    <2>4. c \in Pending(key) /\ c \notin Pending(key)'
      BY <2>1, <2>2 DEF Locked, Pending, TypeOK
    <2>5. CASE key \in Reserved
      <3>1. context' = context
        BY <1>13, <2>1, <2>5 DEF AddContext
      <3>2. ContextBounded'
        BY <2>3, <3>1, BoundKept DEF TypeOK
      <3>3. TypeOK'
        BY <1>12, <2>2, <3>1 DEF TypeOK, Locked, Places
      <3> QED
        BY <1>12, <2>2, <3>2, <3>3
    <2>6. CASE key \notin Reserved
      <3>1. context' = [context EXCEPT ![key] = @ + 1]
        BY <1>13, <2>1, <2>6 DEF AddContext
      <3>2. Cardinality(Pending(key)') + 1 <= Cardinality(Pending(key))
        <4>1. /\ Cardinality(Pending(key) \ {c}) = Cardinality(Pending(key)) - 1
              /\ IsFiniteSet(Pending(key) \ {c})
          BY <2>1, <2>4, PendingFinite, FS_RemoveElement
        <4>2. Pending(key)' \subseteq Pending(key) \ {c}
          BY <2>1, <2>3, <2>4
        <4>3. /\ Cardinality(Pending(key)') <= Cardinality(Pending(key) \ {c})
              /\ Cardinality(Pending(key)') \in Nat
          BY <4>1, <4>2, FS_Subset, FS_CardinalityType
        <4> QED
          BY <2>1, <4>1, <4>3, PendingFinite
      <3>3. /\ Cardinality(Pending(key)') \in Nat /\ Cardinality(Pending(key)) \in Nat
            /\ context[key] \in 0..MaxVersion
            /\ context[key] + Cardinality(Pending(key)) <= MaxVersion
        BY <2>1, <2>3, PendingFinite, FS_Subset, FS_CardinalityType
           DEF TypeOK, Contexts, ContextBounded
      <3>4. context' \in Contexts
        BY <2>1, <3>1, <3>2, <3>3 DEF TypeOK, Contexts
      <3>5. TypeOK'
        BY <1>12, <2>2, <3>4 DEF TypeOK, Locked, Places
      <3>6. ASSUME NEW k \in Keys
            PROVE  context'[k] + Cardinality(Pending(k)') <= MaxVersion
        <4>1. CASE k = key
          BY <2>1, <3>1, <3>2, <3>3, <4>1 DEF TypeOK, Contexts
        <4>2. CASE k # key
          <5>1. Cardinality(Pending(k)') <= Cardinality(Pending(k))
            BY <2>3, PendingFinite, FS_Subset
          <5>2. Cardinality(Pending(k)') \in Nat /\ Cardinality(Pending(k)) \in Nat
            BY <2>3, PendingFinite, FS_Subset, FS_CardinalityType
          <5>3. context'[k] = context[k] /\ context[k] \in Nat
            BY <3>1, <4>2 DEF TypeOK, Contexts
          <5> QED
            BY <5>1, <5>2, <5>3 DEF ContextBounded
        <4> QED
          BY <4>1, <4>2
      <3> QED
        BY <1>12, <2>2, <3>5, <3>6 DEF ContextBounded
    <2> QED
      BY <2>5, <2>6
  <1>14. ASSUME NEW c \in Callers, SetConfig(c) PROVE Typed'
    <2>1. call[c].config \in Configs
      BY <1>14, SetConfigCall DEF SetConfig, TypeOK
    <2>2. Locked(c) /\ context' = context
      BY <1>14 DEF SetConfig
    <2>3. \A k \in Keys : Pending(k)' \subseteq Pending(k)
      BY <2>2 DEF Locked, Pending, TypeOK
    <2>4. ContextBounded'
      BY <2>2, <2>3, BoundKept DEF TypeOK
    <2>5. logWriter' \in LogWriters
      BY <1>14 DEF SetConfig, NewLogWriter
    <2>6. LevelOf[call[c].config] \in Levels
      BY <2>1
    <2>7. TypeOK'
      BY <1>12, <1>14, <2>1, <2>2, <2>5, <2>6 DEF SetConfig, TypeOK, Locked, Places
    <2> QED
      BY <1>12, <2>2, <2>4, <2>7
  <1>15. CASE UNCHANGED vars
    <2>1. \A k \in Keys : Pending(k)' = Pending(k)
      BY <1>15 DEF Pending
    <2>2. ContextBounded'
      BY <1>15, <2>1, BoundKept DEF TypeOK
    <2> QED
      BY <1>15, <2>2 DEF TypeOK, CallsInProgress, Reading, InLogCall, HasLine, InPrintln
  <1> QED
    BY <1>1, <1>2, <1>3, <1>4, <1>5, <1>6, <1>7, <1>9, <1>10, <1>11, <1>13,
       <1>14, <1>15
    DEF Next

(* Type correctness: the read lock is held by the callers between their RLock   *)
(* and RUnlock and by nobody else, and is waited for by those that want it, in  *)
(* every step of logWithLevel, AddContext and the setters.                      *)
THEOREM TypeCorrect == Spec => []TypeOK
  BY TypedInit, TypedStep, PTL DEF Spec, Typed

-----------------------------------------------------------------------------
(* A line and the context: versions of a key only grow, so that one read        *)
(* between two moments of a call lies between the context of those moments.     *)

Between(map, own, from, to) ==
    \A key \in Keys : IF key \in own
                        THEN map.context[key] = Own
                        ELSE map.context[key] \in from[key]..to[key]

ContextsGrow ==
    \A c \in Callers :
        /\ InLogCall(c) => \A key \in Keys : began[c][key] <= context[key]
        /\ pc[c] \in {"rlock", "rwait", "locked"} => data[c] = DataMap(call[c].own)
        /\ HasMerged(c) => Between(data[c], call[c].own, began[c], context)
        /\ HasLine(c) => Between(line[c].map, line[c].own, line[c].began, line[c].ended)

(* Only AddContext sets keys, and what a log call keeps does not change then. *)
LEMMA OthersKeep ==
    ASSUME Typed, ContextsGrow, NEW c \in Callers, Locked(c), context' \in Contexts,
           \A key \in Keys : context[key] <= context'[key]
    PROVE  ContextsGrow'
  <1>1. /\ pc' \in [Callers -> Places]
        /\ \A d \in Callers : pc'[d] = IF d = c THEN "idle"
                              ELSE IF pc[d] = "rwait" THEN "locked" ELSE pc[d]
    BY DEF Locked, Typed, TypeOK, Places
  <1>2. \A d \in Callers : ~Reading(d)
    BY DEF Locked, Typed, TypeOK
  <1>3. \A d \in Callers : d # c => call'[d] = call[d]
    BY DEF Locked, Typed, TypeOK
  <1>4. UNCHANGED <<data, began, line>>
    BY DEF Locked
  <1>5. /\ began \in [Callers -> Contexts] /\ context \in Contexts
    BY DEF Typed, TypeOK
  <1> SUFFICES ASSUME NEW d \in Callers
               PROVE  /\ InLogCall(d)' => \A key \in Keys : began'[d][key] <= context'[key]
                      /\ pc'[d] \in {"rlock", "rwait", "locked"} => data'[d] = DataMap(call'[d].own)
                      /\ ~HasMerged(d)' /\ ~HasLine(d)'
    BY DEF ContextsGrow
  <1>6. /\ ~HasMerged(d)' /\ ~HasLine(d)'
        /\ InLogCall(d)' => d # c /\ pc[d] \in {"rlock", "rwait"}
        /\ pc'[d] \in {"rlock", "rwait", "locked"} => d # c /\ pc[d] \in {"rlock", "rwait"}
    BY <1>1, <1>2 DEF HasMerged, HasLine, InLogCall, Reading
  <1>7. InLogCall(d)' => \A key \in Keys : began'[d][key] <= context'[key]
    <2> SUFFICES ASSUME InLogCall(d)', NEW key \in Keys
                 PROVE  began'[d][key] <= context'[key]
      OBVIOUS
    <2>1. began[d][key] <= context[key]
      BY <1>6 DEF ContextsGrow, InLogCall
    <2>2. /\ began[d][key] \in Int /\ context[key] \in Int /\ context'[key] \in Int
          /\ context[key] <= context'[key]
      BY <1>5 DEF Contexts
    <2> QED
      BY <1>4, <2>1, <2>2
  <1> QED
    BY <1>3, <1>4, <1>6, <1>7 DEF ContextsGrow

LEMMA ContextsGrowStep == Typed /\ ContextsGrow /\ [Next]_vars => ContextsGrow'
  <1> SUFFICES ASSUME Typed, ContextsGrow, [Next]_vars PROVE ContextsGrow'
    OBVIOUS
  <1> USE DEF vars, globals, config, mutex, Goto
  <1>a. /\ context \in Contexts /\ began \in [Callers -> Contexts]
        /\ data \in [Callers -> Maps] /\ pc \in [Callers -> Places]
        /\ call \in [Callers -> Calls] /\ line \in [Callers -> Lines \cup {NoLine}]
    BY DEF Typed, TypeOK, Places
  <1>1. ASSUME NEW c \in Callers, NEW l \in LogCalls, LogStart(c, l)
        PROVE  ContextsGrow'
    <2>1. \A key \in Keys : context[key] <= context[key]
      BY <1>a DEF Contexts
    <2> QED
      BY <1>1, <1>a, <2>1 DEF LogStart, ContextsGrow, InLogCall, Reading, HasMerged,
                              HasLine, Between
  <1>2. ASSUME NEW c \in Callers, RLock(c) PROVE ContextsGrow'
    BY <1>2, <1>a DEF RLock, ContextsGrow, InLogCall, Reading, HasMerged, HasLine,
                      Between
  <1>3. ASSUME NEW c \in Callers, Merge(c) PROVE ContextsGrow'
    <2>1. call[c] \in LogCalls /\ data[c] = DataMap(call[c].own)
      BY <1>3 DEF Merge, Typed, CallsInProgress, InLogCall, Reading, ContextsGrow
    <2>2. Between(Merged(data[c]), call[c].own, began[c], context)
      <3> SUFFICES ASSUME NEW key \in Keys
                   PROVE  IF key \in call[c].own
                            THEN Merged(data[c]).context[key] = Own
                            ELSE Merged(data[c]).context[key] \in began[c][key]..context[key]
        BY DEF Between
      <3>1. data[c].context[key] = IF key \in call[c].own THEN Own ELSE 0
        BY <2>1 DEF DataMap, EmptyMap
      <3>2. Merged(data[c]).context[key] = IF key \in call[c].own THEN Own ELSE context[key]
        BY <1>a, <3>1 DEF Merged, Global, Maps, Own
      <3>3. /\ began[c][key] <= context[key]
            /\ began[c][key] \in Int /\ context[key] \in Int
        BY <1>3, <1>a DEF Merge, ContextsGrow, InLogCall, Reading, Contexts
      <3> QED
        BY <3>2, <3>3
    <2>3. /\ data'[c] = Merged(data[c])
          /\ \A d \in Callers : d # c => data'[d] = data[d]
          /\ pc'[c] = "merged"
          /\ \A d \in Callers : d # c => pc'[d] = pc[d]
          /\ pc[c] = "locked"
          /\ UNCHANGED <<context, call, began, line>>
      BY <1>3, <1>a DEF Merge
    <2> QED
      BY <2>2, <2>3 DEF ContextsGrow, InLogCall, Reading, HasMerged, HasLine, Between
  <1>4. ASSUME NEW c \in Callers, Format(c) PROVE ContextsGrow'
    <2>1. /\ line'[c].map = data[c] /\ line'[c].own = call[c].own
          /\ line'[c].began = began[c] /\ line'[c].ended = context
          /\ \A d \in Callers : d # c => line'[d] = line[d]
      BY <1>4, <1>a DEF Format
    <2>2. Between(line[c].map, line[c].own, line[c].began, line[c].ended)'
      BY <1>4, <2>1 DEF Format, ContextsGrow, HasMerged, Between
    <2> QED
      BY <1>4, <1>a, <2>1, <2>2 DEF Format, ContextsGrow, InLogCall, Reading, HasMerged,
                                    HasLine, Between
  <1>5. ASSUME NEW c \in Callers, Println(c) PROVE ContextsGrow'
    <2>1. line[c] \in Lines
      BY <1>5 DEF Println, Typed, CallsInProgress, HasLine
    <2>2. /\ line'[c].map = line[c].map /\ line'[c].own = line[c].own
          /\ line'[c].began = line[c].began /\ line'[c].ended = line[c].ended
          /\ \A d \in Callers : d # c => line'[d] = line[d]
      BY <1>5, <1>a, <2>1 DEF Println, Lines
    <2> QED
      BY <1>5, <1>a, <2>2 DEF Println, ContextsGrow, InLogCall, Reading, HasMerged,
                              HasLine, Between
  <1>6. ASSUME NEW c \in Callers, Output(c) PROVE ContextsGrow'
    BY <1>6, <1>a DEF Output, ContextsGrow, InLogCall, Reading, HasMerged, HasLine,
                      Between
  <1>7. ASSUME NEW c \in Callers, LogEnd(c) PROVE ContextsGrow'
    BY <1>7, <1>a DEF LogEnd, EndCall, ContextsGrow, InLogCall, Reading, HasMerged,
                      HasLine, Between
  <1>8. ASSUME NEW c \in Callers, NEW w, WantLock(c, w) PROVE ContextsGrow'
    BY <1>8, <1>a DEF WantLock, ContextsGrow, InLogCall, Reading, HasMerged, HasLine,
                      Between
  <1>9. ASSUME NEW c \in Callers, NEW g \in Configs, SetUnlocked(c, g)
        PROVE  ContextsGrow'
    BY <1>9 DEF SetUnlocked, ContextsGrow, InLogCall, Reading, HasMerged, HasLine,
                Between
  <1>10. ASSUME NEW c \in Callers, AddContext(c) PROVE ContextsGrow'
    <2>1. context' \in Contexts
      BY TypedStep DEF Typed, TypeOK
    <2>2. \A key \in Keys : context[key] <= context'[key]
      <3>1. \A key \in Keys : context[key] \in Int
        BY <1>a DEF Contexts
      <3>2. \A key \in Keys : context'[key] \in {context[key], context[key] + 1}
        BY <1>10, <1>a DEF AddContext, Contexts
      <3> QED
        BY <3>1, <3>2
    <2> QED
      BY <1>10, <2>1, <2>2, OthersKeep DEF AddContext
  <1>11. ASSUME NEW c \in Callers, SetConfig(c) PROVE ContextsGrow'
    <2>1. context' = context /\ \A key \in Keys : context[key] <= context'[key]
      BY <1>11, <1>a DEF SetConfig, Contexts
    <2> QED
      BY <1>11, <1>a, <2>1, OthersKeep DEF SetConfig
  <1>12. CASE UNCHANGED vars
    BY <1>12 DEF ContextsGrow, InLogCall, Reading, HasMerged, HasLine, Between
  <1> QED
    BY <1>1, <1>2, <1>3, <1>4, <1>5, <1>6, <1>7, <1>8, <1>9, <1>10, <1>11, <1>12
    DEF Next

(* A line says what the context was while its call ran, with any AddContext     *)
(* calls and setters in between: the read lock, the data map made for the call  *)
(* and the order of the merge and the formatting are what logWithLevel has to   *)
(* do for it.                                                                  *)
THEOREM LinesShowTheContext == Spec => []ContextOfTheCall
  <1>1. Init => ContextsGrow
    BY DEF Init, ContextsGrow, InLogCall, Reading, HasMerged, HasLine
  <1>2. ContextsGrow => ContextOfTheCall
    BY DEF ContextsGrow, ContextOfTheCall, Written, HasLine, Between
  <1> QED
    BY <1>1, <1>2, TypedInit, TypedStep, ContextsGrowStep, PTL DEF Spec

-----------------------------------------------------------------------------
(* Without the setters that take no lock, the configuration is of one SetConfig *)
(* and a caller that has merged has it in its map, its line and its log.Logger. *)

OneConfig ==
    /\ formatter = source /\ logWriter.output = source
    /\ \A c \in Callers :
        /\ pc[c] \in {"rlock", "rwait", "locked"} => data[c].source = -1
        /\ HasMerged(c) => data[c].source = source
        /\ HasLine(c) => /\ line[c].map.source = source
                         /\ line[c].formatter = source
                         /\ line[c].output = source
        /\ InPrintln(c) => printing[c] = logWriter

LogWritersExclude ==
    \A c, d \in Callers :
        c # d /\ Written(c) /\ Written(d) => printing[c] # printing[d]

LEMMA OneConfigStep ==
    ASSUME ~UnlockedSetters
    PROVE  Typed /\ OneConfig /\ [Next]_vars => OneConfig'
  <1> SUFFICES ASSUME Typed, OneConfig, [Next]_vars PROVE OneConfig'
    OBVIOUS
  <1> USE DEF vars, globals, config, mutex, Goto, OneConfig, HasLine, HasMerged, InPrintln
  <1>a. /\ pc \in [Callers -> Places] /\ data \in [Callers -> Maps]
        /\ line \in [Callers -> Lines \cup {NoLine}]
        /\ printing \in [Callers -> LogWriters \cup {NoWriter}]
    BY DEF Typed, TypeOK, Places
  <1>1. ASSUME NEW c \in Callers, NEW l \in LogCalls, LogStart(c, l) PROVE OneConfig'
    BY <1>1, <1>a DEF LogStart, DataMap, EmptyMap
  <1>2. ASSUME NEW c \in Callers, RLock(c) PROVE OneConfig'
    BY <1>2, <1>a DEF RLock
  <1>3. ASSUME NEW c \in Callers, Merge(c) PROVE OneConfig'
    <2>1. Merged(data[c]).source = source
      BY <1>3, <1>a DEF Merge, Merged, Maps
    <2> QED
      BY <1>3, <1>a, <2>1 DEF Merge
  <1>4. ASSUME NEW c \in Callers, Format(c) PROVE OneConfig'
    BY <1>4, <1>a DEF Format
  <1>5. ASSUME NEW c \in Callers, Println(c) PROVE OneConfig'
    <2>1. line[c] \in Lines
      BY <1>5 DEF Println, Typed, CallsInProgress
    <2>2. /\ line'[c].map = line[c].map /\ line'[c].formatter = line[c].formatter
          /\ line'[c].output = logWriter.output
      BY <1>5, <1>a, <2>1 DEF Println, Lines
    <2> QED
      BY <1>5, <1>a, <2>2 DEF Println
  <1>6. ASSUME NEW c \in Callers, Output(c) PROVE OneConfig'
    BY <1>6, <1>a DEF Output
  <1>7. ASSUME NEW c \in Callers, LogEnd(c) PROVE OneConfig'
    BY <1>7, <1>a DEF LogEnd, EndCall
  <1>8. ASSUME NEW c \in Callers, NEW w, WantLock(c, w) PROVE OneConfig'
    BY <1>8, <1>a DEF WantLock
  <1>9. ASSUME NEW c \in Callers, Locked(c)
        PROVE  \A d \in Callers : /\ ~HasMerged(d)' /\ ~InPrintln(d)'
                                  /\ pc'[d] \in {"rlock", "rwait", "locked"} =>
                                        pc[d] \in {"rlock", "rwait", "locked"}
    <2>1. \A d \in Callers : ~Reading(d)
      BY <1>9 DEF Locked, Typed, TypeOK
    <2> QED
      BY <1>9, <1>a, <2>1 DEF Locked, Reading
  <1>10. ASSUME NEW c \in Callers, AddContext(c) PROVE OneConfig'
    BY <1>9, <1>10 DEF AddContext, Locked
  <1>11. ASSUME NEW c \in Callers, SetConfig(c) PROVE OneConfig'
    BY <1>9, <1>11 DEF SetConfig, NewLogWriter, Locked
  <1>12. CASE UNCHANGED vars
    BY <1>12
  <1> QED
    BY <1>1, <1>2, <1>3, <1>4, <1>5, <1>6, <1>7, <1>8, <1>10, <1>11, <1>12
    DEF Next, SetUnlocked

LEMMA LogWritersExcludeStep == Typed /\ LogWritersExclude /\ [Next]_vars => LogWritersExclude'
  <1> SUFFICES ASSUME Typed, LogWritersExclude, [Next]_vars PROVE LogWritersExclude'
    OBVIOUS
  <1> USE DEF vars, globals, config, mutex, Goto, LogWritersExclude, Written
  <1>a. /\ pc \in [Callers -> Places]
        /\ printing \in [Callers -> LogWriters \cup {NoWriter}]
    BY DEF Typed, TypeOK, Places
  <1>b. ASSUME \A c \in Callers : Written(c)' => Written(c) /\ printing'[c] = printing[c]
        PROVE  LogWritersExclude'
    BY <1>b
  <1>1. ASSUME NEW c \in Callers, NEW l \in LogCalls, LogStart(c, l)
        PROVE  LogWritersExclude'
    BY <1>1, <1>a, <1>b DEF LogStart
  <1>2. ASSUME NEW c \in Callers, RLock(c) \/ Merge(c) \/ Format(c) \/ Println(c)
        PROVE  LogWritersExclude'
    BY <1>2, <1>a, <1>b DEF RLock, Merge, Format, Println
  <1>3. ASSUME NEW c \in Callers, Output(c) PROVE LogWritersExclude'
    BY <1>3, <1>a DEF Output, NotHeld
  <1>4. ASSUME NEW c \in Callers, LogEnd(c) PROVE LogWritersExclude'
    BY <1>4, <1>a, <1>b DEF LogEnd, EndCall
  <1>5. ASSUME NEW c \in Callers, NEW w, WantLock(c, w) PROVE LogWritersExclude'
    BY <1>5, <1>a, <1>b DEF WantLock
  <1>6. ASSUME NEW c \in Callers, NEW g \in Configs, SetUnlocked(c, g)
        PROVE  LogWritersExclude'
    BY <1>6, <1>b DEF SetUnlocked
  <1>7. ASSUME NEW c \in Callers, AddContext(c) \/ SetConfig(c)
        PROVE  LogWritersExclude'
    BY <1>7, <1>a, <1>b DEF AddContext, SetConfig, Locked
  <1>8. CASE UNCHANGED vars
    BY <1>8, <1>b
  <1> QED
    BY <1>1, <1>2, <1>3, <1>4, <1>5, <1>6, <1>7, <1>8 DEF Next

LEMMA OneConfigHolds ==
    ASSUME ~UnlockedSetters
    PROVE  Spec => [](OneConfig /\ LogWritersExclude)
  <1>1. Init => OneConfig /\ LogWritersExclude
    BY DEF Init, OneConfig, LogWritersExclude, HasMerged, HasLine, InPrintln, Written,
           EmptyMap
  <1> QED
    BY <1>1, TypedInit, TypedStep, OneConfigStep, LogWritersExcludeStep, PTL DEF Spec

(* Source, formatter and output of a line are of one SetConfig, for any number  *)
(* of goroutines, as long as nobody calls a setter that takes no lock: the read *)
(* lock that logWithLevel holds through the write is what it rests on.         *)
THEOREM LinesAreOfOneConfig == ~UnlockedSetters => (Spec => []LineOfOneConfig)
  <1>1. OneConfig => LineOfOneConfig
    BY DEF OneConfig, LineOfOneConfig, Written, HasLine
  <1> SUFFICES ASSUME ~UnlockedSetters PROVE Spec => []LineOfOneConfig
    OBVIOUS
  <1> QED
    BY <1>1, OneConfigHolds, PTL

(* Under the same condition no two goroutines are in the output's Write: they   *)
(* are all in the one log.Logger, whose mutex lets one in, as SetConfig cannot  *)
(* put another in its place while a line is in progress.                       *)
THEOREM WritesExclude == ~UnlockedSetters => (Spec => []OneWriteAtATime)
  <1>1. OneConfig /\ LogWritersExclude => OneWriteAtATime
    BY DEF OneConfig, LogWritersExclude, OneWriteAtATime, Written, InPrintln
  <1> SUFFICES ASSUME ~UnlockedSetters PROVE Spec => []OneWriteAtATime
    OBVIOUS
  <1> QED
    BY <1>1, OneConfigHolds, PTL

-----------------------------------------------------------------------------
(* The setters that take no lock: each log.Logger they make is a new one        *)

(* There is an id that no caller holds, so that no setter is blocked.           *)
LEMMA IdIsFree ==
    ASSUME TypeOK
    PROVE  \E i \in 1..Cardinality(Callers) + 1 : \A c \in Callers : printing[c].id # i
  <1> DEFINE n == Cardinality(Callers)
  <1>1. n \in Nat
    BY FS_CardinalityType
  <1>2. IsFiniteSet(1..n + 1) /\ Cardinality(1..n + 1) = n + 1
    BY <1>1, FS_Interval
  <1> SUFFICES ASSUME \A i \in 1..n + 1 : \E c \in Callers : printing[c].id = i
               PROVE  FALSE
    OBVIOUS
  <1> DEFINE f == [i \in 1..n + 1 |-> CHOOSE c \in Callers : printing[c].id = i]
  <1>3. f \in [1..n + 1 -> Callers] /\ \A i \in 1..n + 1 : printing[f[i]].id = i
    OBVIOUS
  <1> HIDE DEF f
  <1>4. PICK i, j \in 1..n + 1 : i # j /\ f[i] = f[j]
    BY <1>1, <1>2, <1>3, FS_PigeonHole
  <1> QED
    BY <1>3, <1>4

(* SetOutput and SetConfig never put back a log.Logger some caller is in, so a  *)
(* line in progress keeps a mutex of its own: the lines that follow exclude     *)
(* one another, and not those.                                                 *)
THEOREM NewLogWriterIsNew ==
    ASSUME TypeOK, NEW g, NewLogWriter(g)
    PROVE  \A c \in Callers : printing[c] # logWriter'
  <1>1. \A c \in Callers : printing[c].id # logWriter'.id
    BY IdIsFree DEF NewLogWriter
  <1> QED
    BY <1>1
===============================================================================
