-------------------------- MODULE BatchLoggerProofs --------------------------
(* What holds of BatchLogger for any lines, writers, closers and limits.       *)
EXTENDS BatchLogger, FiniteSetTheorems, SumFacts, TLAPS

USE RecordsAssumption, LimitsAssumption, UsageAssumption
USE DEF historyVars, BatchEmptied, BytesReset, WaitGroupIsZero, InTime, NextBatch, MayRetry

LEMMA LimitsAreIntegers == {maxBatchRecords, FlushBytes} \subseteq Int
  <1>1. {maxBatchRecords, maxBatchBytes} \subseteq Int
    BY DEF maxBatchRecords, maxBatchBytes, Limit
  <1> QED
    BY <1>1 DEF FlushBytes

(* Flush, which four actions call, keeps the types. *)
LEMMA FlushTypes ==
    ASSUME TypeOK, Flush
    PROVE  /\ batch' \in SUBSET Records /\ batchBytes' \in Nat
           /\ sendBatchWG' \in Int
           /\ senders' \in SUBSET SenderStates
           /\ ticking' \in BOOLEAN
           /\ {accepted, rejected, acked, reported, stored, dups, unsure}'
                \subseteq SUBSET Records
           /\ owed' \in [Closers -> SUBSET Records]
  <1>1. NewSender(batch) \in SenderStates
    BY DEF TypeOK, NewSender, SenderStates
  <1> QED
    BY <1>1 DEF TypeOK, Flush, inputVars, outcomeVars, streamVars

(* Type correctness of the analytics logger: every step keeps its variables    *)
(* within what the Go fields and goroutines can hold.                          *)
THEOREM TypeCorrect == Spec => []TypeOK
  <1> USE DEF vars, loggerVars, inputVars, outcomeVars, streamVars
  <1>1. Init => TypeOK
    BY DEF Init, TypeOK, CloserStates
  <1>2. TypeOK /\ [Next]_vars => TypeOK'
    <2> SUFFICES ASSUME TypeOK, [Next]_vars PROVE TypeOK'
      OBVIOUS
    <2>1. ASSUME NEW w \in Writers, NEW r \in Records, Write(w, r)
          PROVE  TypeOK'
      BY <2>1 DEF Write, TypeOK
    <2>2. ASSUME NEW w \in Writers, NEW r \in Records, WriteRejected(w, r)
          PROVE  TypeOK'
      BY <2>2 DEF WriteRejected, TypeOK
    <2>3. ASSUME NEW w \in Writers, WriteFlush(w) PROVE TypeOK'
      BY <2>3, FlushTypes DEF WriteFlush, TypeOK
    <2>4. CASE LoopTick
      BY <2>4 DEF LoopTick, TypeOK
    <2>5. CASE LoopFlush
      BY <2>5, FlushTypes DEF LoopFlush, TypeOK
    <2>6. ASSUME NEW c \in Closers, CloseStop(c) PROVE TypeOK'
      BY <2>6 DEF CloseStop, TypeOK, CloserStates
    <2>7. ASSUME NEW c \in Closers, CloseSignal(c) PROVE TypeOK'
      BY <2>7 DEF CloseSignal, TypeOK, CloserStates
    <2>8. ASSUME NEW c \in Closers, CloseFlush(c) PROVE TypeOK'
      BY <2>8, FlushTypes DEF CloseFlush, TypeOK, CloserStates
    <2>9. ASSUME NEW c \in Closers, CloseWait(c) PROVE TypeOK'
      BY <2>9 DEF CloseWait, TypeOK, CloserStates
    <2>10. ASSUME NEW s \in senders, DeadlinePasses(s) PROVE TypeOK'
      BY <2>10 DEF DeadlinePasses, Become, TypeOK, SenderStates
    <2>11. ASSUME NEW s \in senders, LoopCheck(s) PROVE TypeOK'
      <3> DEFINE t == [s EXCEPT !.pc = IF s.late THEN "report" ELSE "put",
                                !.tries = 0]
      <3>1. t \in SenderStates
        <4>1. s \in SenderStates /\ 0 \in 0..MaxRetries
          BY DEF TypeOK
        <4>2. CASE s.late
          BY <4>1, <4>2 DEF SenderStates
        <4>3. CASE ~s.late
          BY <4>1, <4>3 DEF SenderStates
        <4> QED
          BY <4>2, <4>3
      <3> QED
        BY <2>11, <3>1 DEF LoopCheck, Become, TypeOK
    <2>12. ASSUME NEW s \in senders, NEW failed \in SUBSET s.left,
                  PutResponse(s, failed)
           PROVE  TypeOK'
      <3>1. s.left \in SUBSET Records
        BY DEF TypeOK, SenderStates
      <3>2. /\ {acked, stored, dups}' \subseteq SUBSET Records
            /\ UNCHANGED <<batch, batchBytes, ticking, loop, writer, accepted,
                           rejected, reported, unsure, owed>>
        BY <2>12, <3>1 DEF PutResponse, Store, TypeOK
      <3>3. CASE failed = {}
        BY <2>12, <3>2, <3>3 DEF PutResponse, Done, TypeOK, CloserStates
      <3>4. CASE failed # {}
        <4>1. [s EXCEPT !.left = failed, !.pc = "check"] \in SenderStates
          BY DEF TypeOK, SenderStates
        <4> QED
          BY <2>12, <3>2, <3>4, <4>1 DEF PutResponse, Become, TypeOK
      <3> QED
        BY <3>3, <3>4
    <2>13. ASSUME NEW s \in senders, NEW applied \in SUBSET s.left,
                  PutRequestError(s, applied)
           PROVE  TypeOK'
      <3>1. s \in SenderStates
        BY DEF TypeOK
      <3>2. /\ s.tries < MaxRetries => [s EXCEPT !.tries = @ + 1] \in SenderStates
            /\ [s EXCEPT !.pc = "report"] \in SenderStates
        BY <3>1 DEF SenderStates
      <3>3. applied \in SUBSET Records
        BY <3>1 DEF SenderStates
      <3> QED
        BY <2>13, <3>2, <3>3 DEF PutRequestError, Become, Store, TypeOK
    <2>14. ASSUME NEW s \in senders, PutError(s) PROVE TypeOK'
      BY <2>14 DEF PutError, Become, TypeOK, SenderStates
    <2>15. ASSUME NEW s \in senders, Report(s) PROVE TypeOK'
      BY <2>15 DEF Report, Done, TypeOK, SenderStates, CloserStates
    <2>16. CASE UNCHANGED vars
      BY <2>16 DEF TypeOK
    <2> QED
      BY <2>1, <2>2, <2>3, <2>4, <2>5, <2>6, <2>7, <2>8, <2>9, <2>10, <2>11,
         <2>12, <2>13, <2>14, <2>15, <2>16
      DEF Next, SenderStep, Terminating, Stopped
  <1> QED
    BY <1>1, <1>2, PTL DEF Spec

-----------------------------------------------------------------------------
(* Sets of sending goroutines that hold disjoint, non-empty batches *)

Left(S) == UNION {s.left : s \in S}

Apart(S) ==
    /\ \A s \in S : s.left # {}
    /\ \A s, t \in S : s # t => s.left \cap t.left = {}

(* A goroutine is added with a batch no other holds. *)
LEMMA AddApart ==
    ASSUME NEW S, NEW t, Apart(S), t.left # {}, t.left \cap Left(S) = {}
    PROVE  /\ Apart(S \cup {t})
           /\ Left(S \cup {t}) = Left(S) \cup t.left
           /\ t \notin S
  BY DEF Apart, Left

(* A goroutine ends. *)
LEMMA RemoveApart ==
    ASSUME NEW S, NEW s \in S, Apart(S)
    PROVE  /\ Apart(S \ {s})
           /\ Left(S \ {s}) = Left(S) \ s.left
  <1>1. \A t \in S \ {s} : t.left \cap s.left = {}
    BY DEF Apart
  <1> QED
    BY <1>1 DEF Apart, Left

(* A goroutine moves on with what is left of its batch. *)
LEMMA ReplaceApart ==
    ASSUME NEW S, NEW s \in S, NEW t, Apart(S), t.left \subseteq s.left, t.left # {}
    PROVE  /\ Apart((S \ {s}) \cup {t})
           /\ Left((S \ {s}) \cup {t}) = Left(S) \ (s.left \ t.left)
           /\ t \notin S \ {s}
  <1>1. Apart(S \ {s}) /\ Left(S \ {s}) = Left(S) \ s.left
    BY RemoveApart
  <1>2. t.left \cap Left(S \ {s}) = {}
    BY <1>1
  <1>3. /\ Apart((S \ {s}) \cup {t})
        /\ Left((S \ {s}) \cup {t}) = (Left(S) \ s.left) \cup t.left
        /\ t \notin S \ {s}
    BY <1>1, <1>2, AddApart
  <1>4. s.left \subseteq Left(S)
    BY DEF Left
  <1> QED
    BY <1>3, <1>4

-----------------------------------------------------------------------------
(* Conservation: the invariant is Conserved with the two facts that tie the    *)
(* wait group to the goroutines, which Close needs.                            *)

Bookkeeping ==
    /\ Conserved
    /\ IsFiniteSet(senders)
    /\ WaitGroupCounts

(* Conserved, in the vocabulary of the lemmas above. *)
LEMMA ConservedApart ==
    Conserved <=> /\ accepted = batch \cup Left(senders) \cup Settled
                  /\ batch \cap (Left(senders) \cup Settled) = {}
                  /\ Left(senders) \cap Settled = {}
                  /\ acked \cap reported = {}
                  /\ Apart(senders)
  BY DEF Conserved, InFlight, Left, Apart

LEMMA ConservedApartPrime ==
    Conserved' <=> /\ accepted' = batch' \cup Left(senders') \cup Settled'
                   /\ batch' \cap (Left(senders') \cup Settled') = {}
                   /\ Left(senders') \cap Settled' = {}
                   /\ acked' \cap reported' = {}
                   /\ Apart(senders')
  BY DEF Conserved, InFlight, Left, Apart

(* The batch changes hands as a whole. *)
LEMMA FlushKeeps ==
    ASSUME Bookkeeping, Flush
    PROVE  Bookkeeping'
  <1> USE DEF inputVars, outcomeVars, Settled
  <1>1. CASE batch = {}
    BY <1>1 DEF Flush, Bookkeeping, Conserved, InFlight, WaitGroupCounts
  <1>2. CASE batch # {}
    <2> DEFINE t == NewSender(batch)
    <2>1. /\ t.left = batch
          /\ senders' = senders \cup {t} /\ batch' = {}
          /\ UNCHANGED <<accepted, acked, reported>>
          /\ sendBatchWG' = sendBatchWG + 1
      BY <1>2 DEF Flush, NewSender
    <2> HIDE DEF t
    <2>2. /\ Apart(senders')
          /\ Left(senders') = Left(senders) \cup batch
          /\ t \notin senders
      BY <1>2, <2>1, AddApart, ConservedApart DEF Bookkeeping
    <2>3. Conserved'
      BY <2>1, <2>2, ConservedApart, ConservedApartPrime DEF Bookkeeping
    <2>4. IsFiniteSet(senders') /\ Cardinality(senders') = Cardinality(senders) + 1
      BY <2>1, <2>2, FS_AddElement DEF Bookkeeping
    <2> QED
      BY <2>1, <2>3, <2>4 DEF Bookkeeping, WaitGroupCounts
  <1> QED
    BY <1>1, <1>2

(* A goroutine moves on; what it no longer holds is acknowledged. *)
LEMMA ReplaceKeeps ==
    ASSUME Bookkeeping, NEW s \in senders, NEW t, Become(s, t),
           t.left \subseteq s.left, t.left # {},
           acked' = acked \cup (s.left \ t.left),
           UNCHANGED <<batch, sendBatchWG, accepted, reported>>
    PROVE  Bookkeeping'
  <1>1. senders' = (senders \ {s}) \cup {t}
    BY DEF Become
  <1>2. /\ Apart(senders')
        /\ Left(senders') = Left(senders) \ (s.left \ t.left)
        /\ t \notin senders \ {s}
    <2>1. Apart(senders)
      BY ConservedApart DEF Bookkeeping
    <2>2. /\ Apart((senders \ {s}) \cup {t})
          /\ Left((senders \ {s}) \cup {t}) = Left(senders) \ (s.left \ t.left)
          /\ t \notin senders \ {s}
      BY <2>1, ReplaceApart
    <2> QED
      BY <1>1, <2>2
  <1>3. s.left \subseteq Left(senders)
    BY DEF Left
  <1>4. Conserved'
    BY <1>2, <1>3, ConservedApart, ConservedApartPrime DEF Bookkeeping, Settled
  <1>5. /\ IsFiniteSet(senders \ {s})
        /\ Cardinality(senders \ {s}) = Cardinality(senders) - 1
    BY FS_RemoveElement DEF Bookkeeping
  <1>6. /\ IsFiniteSet(senders')
        /\ Cardinality(senders') = Cardinality(senders \ {s}) + 1
    BY <1>1, <1>2, <1>5, FS_AddElement
  <1>7. Cardinality(senders) \in Nat
    BY FS_CardinalityType DEF Bookkeeping
  <1> QED
    BY <1>4, <1>5, <1>6, <1>7 DEF Bookkeeping, WaitGroupCounts

(* A goroutine ends; what it held is acknowledged, or reported as lost. *)
LEMMA FinishKeeps ==
    ASSUME Bookkeeping, NEW s \in senders, Done(s),
           \/ acked' = acked \cup s.left /\ reported' = reported
           \/ acked' = acked /\ reported' = reported \cup s.left,
           UNCHANGED <<batch, accepted>>
    PROVE  Bookkeeping'
  <1>1. senders' = senders \ {s} /\ sendBatchWG' = sendBatchWG - 1
    BY DEF Done
  <1>2. /\ Apart(senders')
        /\ Left(senders') = Left(senders) \ s.left
    BY <1>1, RemoveApart, ConservedApart DEF Bookkeeping
  <1>3. s.left \subseteq Left(senders)
    BY DEF Left
  <1>4. Conserved'
    BY <1>2, <1>3, ConservedApart, ConservedApartPrime DEF Bookkeeping, Settled
  <1>5. /\ IsFiniteSet(senders')
        /\ Cardinality(senders') = Cardinality(senders) - 1
    BY <1>1, FS_RemoveElement DEF Bookkeeping
  <1> QED
    BY <1>1, <1>4, <1>5 DEF Bookkeeping, WaitGroupCounts

LEMMA BookkeepingStep == TypeOK /\ Bookkeeping /\ [Next]_vars => Bookkeeping'
  <1> USE DEF vars, loggerVars, inputVars, outcomeVars
  <1> SUFFICES ASSUME TypeOK, Bookkeeping, [Next]_vars PROVE Bookkeeping'
    OBVIOUS
  <1>a. ASSUME UNCHANGED <<batch, sendBatchWG, senders, accepted, acked, reported>>
        PROVE  Bookkeeping'
    BY <1>a DEF Bookkeeping, Conserved, InFlight, Settled, WaitGroupCounts
  <1>b. ASSUME NEW s \in senders PROVE s \in SenderStates /\ s.left # {}
    BY DEF TypeOK, Bookkeeping, Conserved
  <1>1. ASSUME NEW w \in Writers, NEW r \in Records, Write(w, r)
        PROVE  Bookkeeping'
    BY <1>1 DEF Write, MayWrite, Bookkeeping, Conserved, InFlight, Settled,
                WaitGroupCounts
  <1>2. ASSUME NEW w \in Writers, NEW r \in Records, WriteRejected(w, r)
        PROVE  Bookkeeping'
    BY <1>2, <1>a DEF WriteRejected
  <1>3. ASSUME NEW w \in Writers, WriteFlush(w) PROVE Bookkeeping'
    BY <1>3, FlushKeeps DEF WriteFlush
  <1>4. CASE LoopTick
    BY <1>4, <1>a DEF LoopTick
  <1>5. CASE LoopFlush
    BY <1>5, FlushKeeps DEF LoopFlush
  <1>6. ASSUME NEW c \in Closers, CloseStop(c) PROVE Bookkeeping'
    BY <1>6, <1>a DEF CloseStop
  <1>7. ASSUME NEW c \in Closers, CloseSignal(c) PROVE Bookkeeping'
    BY <1>7, <1>a DEF CloseSignal
  <1>8. ASSUME NEW c \in Closers, CloseFlush(c) PROVE Bookkeeping'
    BY <1>8, FlushKeeps DEF CloseFlush
  <1>9. ASSUME NEW c \in Closers, CloseWait(c) PROVE Bookkeeping'
    BY <1>9, <1>a DEF CloseWait
  <1>10. ASSUME NEW s \in senders, DeadlinePasses(s) PROVE Bookkeeping'
    <2>1. [s EXCEPT !.late = TRUE].left = s.left
      BY <1>b DEF SenderStates
    <2> QED
      BY <1>10, <1>b, <2>1, ReplaceKeeps DEF DeadlinePasses
  <1>11. ASSUME NEW s \in senders, LoopCheck(s) PROVE Bookkeeping'
    <2> DEFINE t == [s EXCEPT !.pc = IF s.late THEN "report" ELSE "put",
                              !.tries = 0]
    <2>1. t.left = s.left
      BY <1>b DEF SenderStates
    <2>2. /\ Become(s, t)
          /\ UNCHANGED <<batch, sendBatchWG, accepted, acked, reported>>
      BY <1>11 DEF LoopCheck
    <2> HIDE DEF t
    <2> QED
      BY <1>b, <2>1, <2>2, ReplaceKeeps
  <1>12. ASSUME NEW s \in senders, NEW failed \in SUBSET s.left, PutResponse(s, failed)
         PROVE  Bookkeeping'
    <2>1. CASE failed = {}
      BY <1>12, <2>1, FinishKeeps DEF PutResponse
    <2>2. CASE failed # {}
      <3> DEFINE t == [s EXCEPT !.left = failed, !.pc = "check"]
      <3>1. t.left = failed
        BY <1>b DEF SenderStates
      <3>2. /\ Become(s, t)
            /\ acked' = acked \cup (s.left \ failed)
            /\ UNCHANGED <<batch, sendBatchWG, accepted, reported>>
        BY <1>12, <2>2 DEF PutResponse
      <3> HIDE DEF t
      <3> QED
        BY <2>2, <3>1, <3>2, ReplaceKeeps
    <2> QED
      BY <2>1, <2>2
  <1>13. ASSUME NEW s \in senders, NEW applied \in SUBSET s.left,
                PutRequestError(s, applied)
         PROVE  Bookkeeping'
    <2> DEFINE t == IF s.tries < MaxRetries THEN [s EXCEPT !.tries = @ + 1]
                                            ELSE [s EXCEPT !.pc = "report"]
    <2>1. t.left = s.left
      BY <1>b DEF SenderStates
    <2>2. /\ Become(s, t)
          /\ UNCHANGED <<batch, sendBatchWG, accepted, acked, reported>>
      BY <1>13 DEF PutRequestError
    <2> HIDE DEF t
    <2> QED
      BY <1>b, <2>1, <2>2, ReplaceKeeps
  <1>14. ASSUME NEW s \in senders, PutError(s) PROVE Bookkeeping'
    <2>1. [s EXCEPT !.pc = "report"].left = s.left
      BY <1>b DEF SenderStates
    <2> QED
      BY <1>14, <1>b, <2>1, ReplaceKeeps DEF PutError
  <1>15. ASSUME NEW s \in senders, Report(s) PROVE Bookkeeping'
    BY <1>15, FinishKeeps DEF Report
  <1>16. CASE UNCHANGED vars
    BY <1>16, <1>a
  <1> QED
    BY <1>1, <1>2, <1>3, <1>4, <1>5, <1>6, <1>7, <1>8, <1>9, <1>10, <1>11,
       <1>12, <1>13, <1>14, <1>15, <1>16
    DEF Next, SenderStep, Terminating, Stopped

(* The books are balanced after every step of a writer, the loop, a closer or a *)
(* sender.                                                                     *)
THEOREM BookkeepingHolds == Spec => []Bookkeeping
  <1>1. Init => Bookkeeping
    BY FS_EmptySet DEF Init, Bookkeeping, Conserved, InFlight, Settled,
                       WaitGroupCounts
  <1> QED
    BY <1>1, TypeCorrect, BookkeepingStep, PTL DEF Spec

(* No accepted record is lost or held twice: Write, the timed flush, Close and *)
(* every answer of the stream move it from one place to the next.              *)
THEOREM RecordsConserved == Spec => []Conserved
  BY BookkeepingHolds, PTL DEF Bookkeeping

(* sendBatchWG is the number of sending goroutines in every reachable state.   *)
THEOREM WaitGroupExact == Spec => []WaitGroupCounts
  BY BookkeepingHolds, PTL DEF Bookkeeping

-----------------------------------------------------------------------------
(* Close: once it has flushed, what it owes is with the sending goroutines,    *)
(* and when the wait group reaches zero none of them is left.                  *)

Flushed == {"wait", "asleep", "woken", "done"}

Owing ==
    \A c \in Closers :
        /\ owed[c] \subseteq accepted
        /\ closer[c] \in Flushed => owed[c] \cap batch = {}
        /\ closer[c] \in {"woken", "done"} => owed[c] \subseteq Settled

LEMMA ZeroMeansNoSenders ==
    ASSUME Bookkeeping
    PROVE  /\ sendBatchWG = 0 => senders = {} /\ accepted = batch \cup Settled
           /\ \A s \in senders : sendBatchWG = 1 => senders \ {s} = {}
  <1>1. IsFiniteSet(senders) /\ sendBatchWG = Cardinality(senders)
    BY DEF Bookkeeping, WaitGroupCounts
  <1>2. sendBatchWG = 0 => senders = {}
    BY <1>1, FS_EmptySet
  <1>3. ASSUME NEW s \in senders, sendBatchWG = 1 PROVE senders \ {s} = {}
    <2>1. \E x : senders = {x}
      BY <1>1, <1>3, FS_Singleton
    <2> QED
      BY <2>1
  <1> QED
    BY <1>2, <1>3 DEF Bookkeeping, Conserved, InFlight

(* Steps that wake no closer. *)
LEMMA OwingStays ==
    ASSUME Owing, UNCHANGED <<closer, owed>>, batch' \cap accepted \subseteq batch,
           accepted \subseteq accepted', Settled \subseteq Settled'
    PROVE  Owing'
  BY DEF Owing

(* A sending goroutine ends, and wakes the closers if it was the last one. *)
LEMMA OwingDone ==
    ASSUME TypeOK, Bookkeeping, Bookkeeping', Owing, NEW s \in senders, Done(s),
           UNCHANGED <<batch, accepted, owed>>, Settled \subseteq Settled'
    PROVE  Owing'
  <1> SUFFICES ASSUME NEW c \in Closers
               PROVE  /\ owed'[c] \subseteq accepted'
                      /\ closer'[c] \in Flushed => owed'[c] \cap batch' = {}
                      /\ closer'[c] \in {"woken", "done"} => owed'[c] \subseteq Settled'
    BY DEF Owing
  <1>1. \/ closer'[c] = closer[c]
        \/ closer[c] = "asleep" /\ closer'[c] = "woken" /\ sendBatchWG = 1
    BY DEF Done
  <1>2. CASE closer'[c] = closer[c]
    BY <1>2 DEF Owing
  <1>3. CASE closer[c] = "asleep" /\ closer'[c] = "woken" /\ sendBatchWG = 1
    <2>1. senders' = {}
      BY <1>3, ZeroMeansNoSenders DEF Done
    <2>2. accepted' = batch' \cup Settled'
      BY <2>1 DEF Bookkeeping, Conserved, InFlight
    <2> QED
      BY <1>3, <2>2 DEF Owing, Flushed
  <1> QED
    BY <1>1, <1>2, <1>3

LEMMA OwingStep ==
    TypeOK /\ Bookkeeping /\ Bookkeeping' /\ Owing /\ [Next]_vars => Owing'
  <1> USE DEF vars, loggerVars, inputVars, outcomeVars
  <1> SUFFICES ASSUME TypeOK, Bookkeeping, Bookkeeping', Owing, [Next]_vars
               PROVE  Owing'
    OBVIOUS
  <1>1. ASSUME NEW w \in Writers, NEW r \in Records, Write(w, r) PROVE Owing'
    BY <1>1, OwingStays DEF Write, MayWrite, Settled
  <1>2. ASSUME NEW w \in Writers, NEW r \in Records, WriteRejected(w, r)
        PROVE  Owing'
    BY <1>2, OwingStays DEF WriteRejected, Settled
  <1>3. ASSUME NEW w \in Writers, WriteFlush(w) PROVE Owing'
    BY <1>3, OwingStays DEF WriteFlush, Flush, Settled
  <1>4. CASE LoopTick
    BY <1>4, OwingStays DEF LoopTick, Settled
  <1>5. CASE LoopFlush
    BY <1>5, OwingStays DEF LoopFlush, Flush, Settled
  <1>6. ASSUME NEW c \in Closers, CloseStop(c) PROVE Owing'
    BY <1>6 DEF CloseStop, Owing, TypeOK, Settled, Flushed
  <1>7. ASSUME NEW c \in Closers, CloseSignal(c) PROVE Owing'
    BY <1>7 DEF CloseSignal, Owing, TypeOK, Settled, Flushed
  <1>8. ASSUME NEW c \in Closers, CloseFlush(c) PROVE Owing'
    <2>1. /\ batch' = {} /\ UNCHANGED <<owed, accepted, acked, reported>>
          /\ closer' = [closer EXCEPT ![c] = "wait"]
      BY <1>8 DEF CloseFlush, Flush
    <2> QED
      BY <2>1 DEF Owing, TypeOK, Settled, Flushed
  <1>9. ASSUME NEW c \in Closers, CloseWait(c) PROVE Owing'
    <2>1. /\ UNCHANGED <<batch, owed, accepted, acked, reported>>
          /\ closer[c] \in {"wait", "woken"}
          /\ closer' = [closer EXCEPT ![c] = closer'[c]]
          /\ closer'[c] \in {"done", "asleep", "panicked"}
          /\ closer'[c] = "done" => sendBatchWG = 0
      BY <1>9 DEF CloseWait, TypeOK
    <2>2. sendBatchWG = 0 => owed[c] \subseteq Settled
      BY <2>1, ZeroMeansNoSenders DEF Owing, Flushed
    <2> QED
      BY <2>1, <2>2 DEF Owing, TypeOK, Settled, Flushed
  <1>10. ASSUME NEW s \in senders, DeadlinePasses(s) PROVE Owing'
    BY <1>10, OwingStays DEF DeadlinePasses, Settled
  <1>11. ASSUME NEW s \in senders, LoopCheck(s) PROVE Owing'
    BY <1>11, OwingStays DEF LoopCheck, Settled
  <1>12. ASSUME NEW s \in senders, NEW failed \in SUBSET s.left, PutResponse(s, failed)
         PROVE  Owing'
    <2>1. /\ UNCHANGED <<batch, accepted, owed>> /\ Settled \subseteq Settled'
          /\ Done(s) \/ UNCHANGED closer
      BY <1>12 DEF PutResponse, Settled
    <2> QED
      BY <2>1, OwingDone, OwingStays
  <1>13. ASSUME NEW s \in senders, NEW applied \in SUBSET s.left,
                PutRequestError(s, applied)
         PROVE  Owing'
    BY <1>13, OwingStays DEF PutRequestError, Settled
  <1>14. ASSUME NEW s \in senders, PutError(s) PROVE Owing'
    BY <1>14, OwingStays DEF PutError, Settled
  <1>15. ASSUME NEW s \in senders, Report(s) PROVE Owing'
    BY <1>15, OwingDone DEF Report, Settled
  <1>16. CASE UNCHANGED vars
    BY <1>16, OwingStays DEF Settled
  <1> QED
    BY <1>1, <1>2, <1>3, <1>4, <1>5, <1>6, <1>7, <1>8, <1>9, <1>10, <1>11,
       <1>12, <1>13, <1>14, <1>15, <1>16
    DEF Next, SenderStep, Terminating, Stopped

(* What a Close is owed is settled by the time it is woken, and out of the      *)
(* batch once it has flushed.                                                  *)
THEOREM OwingHolds == Spec => []Owing
  <1>1. Init => Owing
    BY DEF Init, Owing, Flushed
  <1> QED
    BY <1>1, TypeCorrect, BookkeepingHolds, OwingStep, PTL DEF Spec

(* "Close flushes all logs": a Close that has returned has settled every       *)
(* record accepted before it was called, whatever was written meanwhile.       *)
THEOREM CloseSettlesWhatItOwes == Spec => []CloseDrains
  <1>1. Owing => CloseDrains
    BY DEF Owing, CloseDrains
  <1> QED
    BY <1>1, OwingHolds, PTL

-----------------------------------------------------------------------------
(* The detailed logger implements the abstract sink                            *)

closing == [c \in Closers |-> Closing(c)]
pending == accepted \ Settled

(* Steps the sink does not see. *)
LEMMA SinkStutters ==
    ASSUME UNCHANGED <<accepted, acked, reported, owed>>, closing' = closing
    PROVE  UNCHANGED Sink!vars
  BY DEF Sink!vars, closing, pending, Settled

(* A closer moves between two states that are one state of the sink. *)
LEMMA SameClosing ==
    ASSUME \A c \in Closers : Closing(c)' = Closing(c)
    PROVE  closing' = closing
  BY DEF closing

(* What a sending goroutine holds is pending in the sink. *)
LEMMA HeldIsPending ==
    ASSUME Bookkeeping, NEW s \in senders
    PROVE  s.left \in SUBSET pending /\ s.left # {}
  BY DEF Bookkeeping, Conserved, InFlight, pending

LEMMA SinkStep ==
    TypeOK /\ Bookkeeping /\ Owing /\ [Next]_vars => [Sink!Next]_(Sink!vars)
  <1> USE DEF vars, loggerVars, inputVars, outcomeVars
  <1> SUFFICES ASSUME TypeOK, Bookkeeping, Owing, [Next]_vars
               PROVE  Sink!Next \/ UNCHANGED Sink!vars
    OBVIOUS
  <1>a. ASSUME UNCHANGED <<accepted, acked, reported, owed, closer>>
        PROVE  UNCHANGED Sink!vars
    BY <1>a, SinkStutters, SameClosing DEF Closing
  <1>1. ASSUME NEW w \in Writers, NEW r \in Records, Write(w, r)
        PROVE  Sink!Next
    <2>1. closing' = closing
      BY <1>1, SameClosing DEF Write, Closing
    <2>2. Sink!Accept(r)
      BY <1>1, <2>1 DEF Write, MayWrite, Sink!Accept, Bookkeeping, Conserved,
                        Settled, closing
    <2> QED
      BY <2>2 DEF Sink!Next
  <1>2. ASSUME NEW w \in Writers, NEW r \in Records, WriteRejected(w, r)
        PROVE  UNCHANGED Sink!vars
    BY <1>2, <1>a DEF WriteRejected
  <1>3. ASSUME NEW w \in Writers, WriteFlush(w) PROVE UNCHANGED Sink!vars
    BY <1>3, <1>a DEF WriteFlush, Flush
  <1>4. CASE LoopTick
    BY <1>4, <1>a DEF LoopTick
  <1>5. CASE LoopFlush
    BY <1>5, <1>a DEF LoopFlush, Flush
  <1>6. ASSUME NEW c \in Closers, CloseStop(c) PROVE Sink!Next
    <2>1. /\ closing[c] = "idle"
          /\ closing' = [closing EXCEPT ![c] = "closing"]
      BY <1>6 DEF CloseStop, TypeOK, closing, Closing
    <2>2. pending \cup acked \cup reported = accepted
      BY DEF pending, Settled, Bookkeeping, Conserved
    <2>3. Sink!CloseCall(c)
      BY <1>6, <2>1, <2>2 DEF CloseStop, Sink!CloseCall, closing, pending, Settled
    <2> QED
      BY <2>3 DEF Sink!Next
  <1>7. ASSUME NEW c \in Closers, CloseSignal(c) PROVE UNCHANGED Sink!vars
    <2>1. closing' = closing
      BY <1>7, SameClosing DEF CloseSignal, TypeOK, Closing
    <2> QED
      BY <1>7, <2>1, SinkStutters DEF CloseSignal
  <1>8. ASSUME NEW c \in Closers, CloseFlush(c) PROVE UNCHANGED Sink!vars
    <2>1. closing' = closing
      BY <1>8, SameClosing DEF CloseFlush, TypeOK, Closing
    <2> QED
      BY <1>8, <2>1, SinkStutters DEF CloseFlush, Flush
  <1>9. ASSUME NEW c \in Closers, CloseWait(c)
        PROVE  Sink!Next \/ UNCHANGED Sink!vars
    <2>1. /\ UNCHANGED <<accepted, acked, reported, owed>>
          /\ closer[c] \in {"wait", "woken"}
          /\ closer' = [closer EXCEPT ![c] = closer'[c]]
          /\ closer'[c] \in {"done", "asleep", "panicked"}
          /\ closer'[c] = "done" => sendBatchWG = 0
      BY <1>9 DEF CloseWait, TypeOK
    <2>2. CASE closer'[c] # "done"
      <3>1. closing' = closing
        BY <2>1, <2>2, SameClosing DEF TypeOK, Closing
      <3> QED
        BY <2>1, <3>1, SinkStutters
    <2>3. CASE closer'[c] = "done"
      <3>1. owed[c] \cap pending = {}
        BY <2>1, <2>3, ZeroMeansNoSenders DEF Owing, Flushed, pending
      <3>2. /\ closing[c] = "closing"
            /\ closing' = [closing EXCEPT ![c] = "returned"]
        BY <2>1, <2>3 DEF TypeOK, closing, Closing
      <3>3. Sink!CloseReturn(c)
        BY <2>1, <3>1, <3>2 DEF Sink!CloseReturn, closing, pending, Settled
      <3> QED
        BY <3>3 DEF Sink!Next
    <2> QED
      BY <2>2, <2>3
  <1>10. ASSUME NEW s \in senders, DeadlinePasses(s) PROVE UNCHANGED Sink!vars
    BY <1>10, <1>a DEF DeadlinePasses
  <1>11. ASSUME NEW s \in senders, LoopCheck(s) PROVE UNCHANGED Sink!vars
    BY <1>11, <1>a DEF LoopCheck
  <1>12. ASSUME NEW s \in senders, NEW failed \in SUBSET s.left, PutResponse(s, failed)
         PROVE  Sink!Next \/ UNCHANGED Sink!vars
    <2> DEFINE D == s.left \ failed
    <2>1. closing' = closing
      BY <1>12, SameClosing DEF PutResponse, Done, Closing
    <2>2. acked' = acked \cup D /\ UNCHANGED <<accepted, reported, owed>>
      BY <1>12 DEF PutResponse
    <2>3. CASE D = {}
      BY <2>1, <2>2, <2>3, SinkStutters
    <2>4. CASE D # {}
      <3>1. D \in (SUBSET pending) \ {{}}
        BY <2>4, HeldIsPending
      <3> HIDE DEF D
      <3>2. Sink!Deliver(D)
        BY <2>1, <2>2 DEF Sink!Deliver, closing, Settled
      <3> QED
        BY <3>1, <3>2 DEF Sink!Next, pending
    <2> QED
      BY <2>3, <2>4
  <1>13. ASSUME NEW s \in senders, NEW applied \in SUBSET s.left,
                PutRequestError(s, applied)
         PROVE  UNCHANGED Sink!vars
    BY <1>13, <1>a DEF PutRequestError
  <1>14. ASSUME NEW s \in senders, PutError(s) PROVE UNCHANGED Sink!vars
    BY <1>14, <1>a DEF PutError
  <1>15. ASSUME NEW s \in senders, Report(s) PROVE Sink!Next
    <2>1. closing' = closing
      BY <1>15, SameClosing DEF Report, Done, Closing
    <2>2. Sink!GiveUp(s.left)
      BY <1>15, <2>1 DEF Report, Sink!GiveUp, closing, Settled
    <2> QED
      BY <2>2, HeldIsPending DEF Sink!Next, pending
  <1>16. CASE UNCHANGED vars
    BY <1>16, <1>a
  <1> QED
    BY <1>1, <1>2, <1>3, <1>4, <1>5, <1>6, <1>7, <1>8, <1>9, <1>10, <1>11,
       <1>12, <1>13, <1>14, <1>15, <1>16
    DEF Next, SenderStep, Terminating, Stopped

(* The analytics logger implements the abstract sink: a pending line is        *)
(* delivered or given up once, and a Close returns only when the lines pending *)
(* at the call are settled.                                                    *)
THEOREM SinkImplemented == Spec => ImplementsSink
  <1>1. Init => Sink!Init
    BY DEF Init, Sink!Init, Settled, Closing
  <1> QED
    BY <1>1, TypeCorrect, BookkeepingHolds, OwingHolds, SinkStep, PTL
    DEF Spec, ImplementsSink, Sink!Spec

-----------------------------------------------------------------------------
(* Full batches and the record limit, which an application keeps only if it    *)
(* writes through one log.Logger                                               *)

LEMMA FlushEmpties ==
    ASSUME Flush
    PROVE  batch' = {} /\ FullBatchIsBeingFlushed'
  BY DEF Flush, FullBatchIsBeingFlushed

LEMMA WriteAddsOne ==
    ASSUME TypeOK, NEW r \in Records, r \notin batch
    PROVE  /\ Cardinality(batch) \in Nat
           /\ Cardinality(batch \cup {r}) = Cardinality(batch) + 1
  <1>1. IsFiniteSet(batch)
    BY FS_Subset, RecordsAssumption DEF TypeOK
  <1> QED
    BY <1>1, FS_AddElement, FS_CardinalityType

LEMMA FullBatchFlushedStep ==
    ASSUME maxBatchRecords >= 1
    PROVE  TypeOK /\ Bookkeeping /\ FullBatchIsBeingFlushed /\ [Next]_vars
           => FullBatchIsBeingFlushed'
  <1> USE DEF vars, loggerVars, inputVars, outcomeVars
  <1> SUFFICES ASSUME TypeOK, Bookkeeping, FullBatchIsBeingFlushed, [Next]_vars
               PROVE  FullBatchIsBeingFlushed'
    OBVIOUS
  <1>a. ASSUME UNCHANGED <<batch, batchBytes, writer>> PROVE FullBatchIsBeingFlushed'
    BY <1>a DEF FullBatchIsBeingFlushed
  <1>1. ASSUME NEW w \in Writers, NEW r \in Records, Write(w, r) PROVE FullBatchIsBeingFlushed'
    <2>1. /\ batch' = batch \cup {r} /\ writer[w] = "idle"
          /\ writer' = [writer EXCEPT ![w] =
                          IF ShouldSend(batch', batchBytes') THEN "flush" ELSE "idle"]
          /\ r \notin batch
      BY <1>1 DEF Write, MayWrite, Bookkeeping, Conserved
    <2>2. /\ Cardinality(batch) \in Nat
          /\ Cardinality(batch') = Cardinality(batch) + 1
      BY <2>1, WriteAddsOne
    <2>3. CASE ShouldSend(batch', batchBytes')
      <3>1. writer'[w] = "flush"
        BY <2>1, <2>3 DEF TypeOK
      <3> QED
        BY <2>1, <3>1 DEF FullBatchIsBeingFlushed
    <2>4. CASE ~ShouldSend(batch', batchBytes')
      <3>1. ASSUME Cardinality(batch') >= maxBatchRecords
            PROVE  Cardinality(batch) >= maxBatchRecords /\ batch # {}
        <4>1. Cardinality(batch) >= maxBatchRecords
          BY <2>2, <2>4, <3>1, LimitsAreIntegers DEF ShouldSend
        <4> QED
          BY <4>1, LimitsAreIntegers, FS_EmptySet
      <3>2. \A v \in Writers : writer[v] = "flush" => writer'[v] = "flush"
        BY <2>1 DEF TypeOK
      <3>3. ~(batchBytes' > FlushBytes)
        BY <2>4 DEF ShouldSend
      <3> QED
        BY <2>1, <3>1, <3>2, <3>3 DEF FullBatchIsBeingFlushed
    <2> QED
      BY <2>3, <2>4
  <1>2. ASSUME NEW w \in Writers, NEW r \in Records, WriteRejected(w, r)
        PROVE  FullBatchIsBeingFlushed'
    BY <1>2, <1>a DEF WriteRejected
  <1>3. ASSUME NEW w \in Writers, WriteFlush(w) PROVE FullBatchIsBeingFlushed'
    BY <1>3, FlushEmpties DEF WriteFlush
  <1>4. CASE LoopTick
    BY <1>4, <1>a DEF LoopTick
  <1>5. CASE LoopFlush
    BY <1>5, FlushEmpties DEF LoopFlush
  <1>6. ASSUME NEW c \in Closers,
               CloseStop(c) \/ CloseSignal(c) \/ CloseWait(c)
        PROVE  FullBatchIsBeingFlushed'
    BY <1>6, <1>a DEF CloseStop, CloseSignal, CloseWait
  <1>7. ASSUME NEW c \in Closers, CloseFlush(c) PROVE FullBatchIsBeingFlushed'
    BY <1>7, FlushEmpties DEF CloseFlush
  <1>8. ASSUME NEW s \in senders, DeadlinePasses(s) \/ SenderStep(s)
        PROVE  FullBatchIsBeingFlushed'
    BY <1>8, <1>a DEF DeadlinePasses, SenderStep, LoopCheck, PutResponse,
                      PutRequestError, PutError, Report
  <1>9. CASE UNCHANGED vars
    BY <1>9, <1>a
  <1> QED
    BY <1>1, <1>2, <1>3, <1>4, <1>5, <1>6, <1>7, <1>8, <1>9
    DEF Next, Terminating, Stopped

(* Although Write tests "==" and other writers may pass the limit before the   *)
(* flush, no full batch is ever left waiting for the ticker.                   *)
THEOREM FullBatchFlushed ==
    ASSUME maxBatchRecords >= 1
    PROVE  Spec => []FullBatchIsBeingFlushed
  <1>1. Init => FullBatchIsBeingFlushed
    BY DEF Init, FullBatchIsBeingFlushed
  <1>2. /\ TypeOK /\ Bookkeeping /\ FullBatchIsBeingFlushed /\ [Next]_vars
        => FullBatchIsBeingFlushed'
    BY FullBatchFlushedStep
  <1> QED
    BY <1>1, <1>2, TypeCorrect, BookkeepingHolds, PTL DEF Spec

(* With one Write at a time a batch never grows past the limit: the writer     *)
(* that filled it flushes before the next one appends.                         *)
Bounded ==
    /\ Cardinality(batch) <= maxBatchRecords
    /\ RequestWithinRecordLimit

LEMMA BoundedFlush ==
    ASSUME TypeOK, Bounded, Flush, maxBatchRecords >= 1
    PROVE  Bounded'
  <1>1. CASE batch = {}
    BY <1>1 DEF Flush, Bounded, RequestWithinRecordLimit
  <1>2. CASE batch # {}
    <2>1. batch' = {} /\ senders' = senders \cup {NewSender(batch)}
      BY <1>2 DEF Flush
    <2>2. NewSender(batch).left = batch
      BY DEF NewSender
    <2>3. Cardinality(batch') = 0
      BY <2>1, FS_EmptySet
    <2> QED
      BY <2>1, <2>2, <2>3, LimitsAreIntegers DEF Bounded, RequestWithinRecordLimit
  <1> QED
    BY <1>1, <1>2

(* A request after a partial failure is no larger than the one before. *)
LEMMA BoundedReplace ==
    ASSUME TypeOK, Bounded, NEW s \in senders, NEW t, Become(s, t),
           t.left \subseteq s.left, UNCHANGED batch
    PROVE  Bounded'
  <1>1. s.left \in SUBSET Records
    BY DEF TypeOK, SenderStates
  <1>2. IsFiniteSet(s.left)
    BY <1>1, FS_Subset, RecordsAssumption
  <1>3. /\ Cardinality(t.left) <= Cardinality(s.left)
        /\ Cardinality(t.left) \in Nat /\ Cardinality(s.left) \in Nat
    BY <1>2, FS_Subset, FS_CardinalityType
  <1>4. Cardinality(t.left) <= maxBatchRecords
    BY <1>3, LimitsAreIntegers DEF Bounded, RequestWithinRecordLimit
  <1> QED
    BY <1>4 DEF Become, Bounded, RequestWithinRecordLimit

LEMMA BoundedStep ==
    ASSUME SerialWrites, maxBatchRecords >= 1
    PROVE  /\ TypeOK /\ Bookkeeping
           /\ FullBatchIsBeingFlushed /\ Bounded /\ [Next]_vars
           => Bounded'
  <1> USE DEF vars, loggerVars, inputVars, outcomeVars
  <1> SUFFICES ASSUME TypeOK, Bookkeeping, FullBatchIsBeingFlushed, Bounded, [Next]_vars
               PROVE  Bounded'
    OBVIOUS
  <1>a. ASSUME UNCHANGED batch, senders' \subseteq senders PROVE Bounded'
    BY <1>a DEF Bounded, RequestWithinRecordLimit
  <1>b. ASSUME NEW s \in senders PROVE s \in SenderStates
    BY DEF TypeOK
  <1>1. ASSUME NEW w \in Writers, NEW r \in Records, Write(w, r) PROVE Bounded'
    <2>1. /\ batch' = batch \cup {r} /\ r \notin batch /\ senders' = senders
          /\ \A v \in Writers : writer[v] = "idle"
      BY <1>1 DEF Write, MayWrite, Bookkeeping, Conserved
    <2>2. ~(Cardinality(batch) >= maxBatchRecords)
      BY <2>1, LimitsAreIntegers, FS_EmptySet DEF FullBatchIsBeingFlushed
    <2>3. /\ Cardinality(batch) \in Nat
          /\ Cardinality(batch') = Cardinality(batch) + 1
      BY <2>1, WriteAddsOne
    <2> QED
      BY <2>1, <2>2, <2>3, LimitsAreIntegers DEF Bounded, RequestWithinRecordLimit
  <1>2. ASSUME NEW w \in Writers, NEW r \in Records, WriteRejected(w, r)
        PROVE  Bounded'
    BY <1>2, <1>a DEF WriteRejected
  <1>3. ASSUME NEW w \in Writers, WriteFlush(w) PROVE Bounded'
    BY <1>3, BoundedFlush DEF WriteFlush
  <1>4. CASE LoopTick
    BY <1>4, <1>a DEF LoopTick
  <1>5. CASE LoopFlush
    BY <1>5, BoundedFlush DEF LoopFlush
  <1>6. ASSUME NEW c \in Closers,
               CloseStop(c) \/ CloseSignal(c) \/ CloseWait(c)
        PROVE  Bounded'
    BY <1>6, <1>a DEF CloseStop, CloseSignal, CloseWait
  <1>7. ASSUME NEW c \in Closers, CloseFlush(c) PROVE Bounded'
    BY <1>7, BoundedFlush DEF CloseFlush
  <1>8. ASSUME NEW s \in senders, DeadlinePasses(s) PROVE Bounded'
    <2>1. [s EXCEPT !.late = TRUE].left = s.left
      BY <1>b DEF SenderStates
    <2> QED
      BY <1>8, <2>1, BoundedReplace DEF DeadlinePasses
  <1>9. ASSUME NEW s \in senders, LoopCheck(s) PROVE Bounded'
    <2> DEFINE t == [s EXCEPT !.pc = IF s.late THEN "report" ELSE "put",
                              !.tries = 0]
    <2>1. t.left = s.left
      BY <1>b DEF SenderStates
    <2>2. Become(s, t) /\ UNCHANGED batch
      BY <1>9 DEF LoopCheck
    <2> HIDE DEF t
    <2> QED
      BY <2>1, <2>2, BoundedReplace
  <1>10. ASSUME NEW s \in senders, NEW failed \in SUBSET s.left, PutResponse(s, failed)
         PROVE  Bounded'
    <2>1. CASE failed = {}
      BY <1>10, <2>1, <1>a DEF PutResponse, Done
    <2>2. CASE failed # {}
      <3> DEFINE t == [s EXCEPT !.left = failed, !.pc = "check"]
      <3>1. t.left = failed
        BY <1>b DEF SenderStates
      <3>2. Become(s, t) /\ UNCHANGED batch
        BY <1>10, <2>2 DEF PutResponse
      <3> HIDE DEF t
      <3> QED
        BY <3>1, <3>2, BoundedReplace
    <2> QED
      BY <2>1, <2>2
  <1>11. ASSUME NEW s \in senders, NEW applied \in SUBSET s.left,
                PutRequestError(s, applied)
         PROVE  Bounded'
    <2> DEFINE t == IF s.tries < MaxRetries THEN [s EXCEPT !.tries = @ + 1]
                                            ELSE [s EXCEPT !.pc = "report"]
    <2>1. t.left = s.left
      BY <1>b DEF SenderStates
    <2>2. Become(s, t) /\ UNCHANGED batch
      BY <1>11 DEF PutRequestError
    <2> HIDE DEF t
    <2> QED
      BY <2>1, <2>2, BoundedReplace
  <1>12. ASSUME NEW s \in senders, PutError(s) PROVE Bounded'
    <2>1. [s EXCEPT !.pc = "report"].left = s.left
      BY <1>b DEF SenderStates
    <2> QED
      BY <1>12, <2>1, BoundedReplace DEF PutError
  <1>13. ASSUME NEW s \in senders, Report(s) PROVE Bounded'
    BY <1>13, <1>a DEF Report, Done
  <1>14. CASE UNCHANGED vars
    BY <1>14, <1>a
  <1> QED
    BY <1>1, <1>2, <1>3, <1>4, <1>5, <1>6, <1>7, <1>8, <1>9, <1>10, <1>11,
       <1>12, <1>13, <1>14
    DEF Next, SenderStep, Terminating, Stopped

(* When every Write comes through one log.Logger, no request carries more      *)
(* records than the configured limit, for any limit of at least one.           *)
THEOREM RecordLimitKeptWhenSerial ==
    ASSUME SerialWrites, maxBatchRecords >= 1
    PROVE  Spec => []RequestWithinRecordLimit
  <1>1. Init => Bounded
    <2> SUFFICES ASSUME Init PROVE Bounded
      OBVIOUS
    <2>1. Cardinality(batch) = 0 /\ senders = {}
      BY FS_EmptySet DEF Init
    <2> QED
      BY <2>1, LimitsAreIntegers DEF Bounded, RequestWithinRecordLimit
  <1>2. TypeOK /\ Bookkeeping /\ FullBatchIsBeingFlushed /\ Bounded /\ [Next]_vars => Bounded'
    BY BoundedStep
  <1>3. Spec => []FullBatchIsBeingFlushed
    BY FullBatchFlushed
  <1>4. Bounded => RequestWithinRecordLimit
    BY DEF Bounded
  <1> QED
    BY <1>1, <1>2, <1>3, <1>4, TypeCorrect, BookkeepingHolds, PTL DEF Spec

-----------------------------------------------------------------------------
(* The byte counter, and by how much a request may exceed its limit            *)

LEMMA BytesOfRecords ==
    ASSUME NEW records \in SUBSET Records
    PROVE  /\ IsFiniteSet(records)
           /\ Bytes(records) \in Nat
           /\ \A part \in SUBSET records : Bytes(part) <= Bytes(records)
           /\ \A r \in Records \ records :
                  Bytes(records \cup {r}) = Bytes(records) + Size[r]
  <1>1. IsFiniteSet(records) /\ Size \in [Records -> Nat]
    BY FS_Subset
  <1>2. Bytes(records) \in Nat
    BY <1>1, SumType DEF Bytes
  <1>3. ASSUME NEW part \in SUBSET records PROVE Bytes(part) <= Bytes(records)
    BY <1>1, SumIsMonotone DEF Bytes
  <1>4. ASSUME NEW r \in Records \ records
        PROVE  Bytes(records \cup {r}) = Bytes(records) + Size[r]
    BY <1>1, SumAddsElement DEF Bytes
  <1> QED
    BY <1>1, <1>2, <1>3, <1>4

BytesCounted == batchBytes = Bytes(batch)

LEMMA BytesCountedStep ==
    TypeOK /\ Bookkeeping /\ BytesCounted /\ [Next]_vars => BytesCounted'
  <1> USE DEF vars, loggerVars, inputVars, outcomeVars
  <1> SUFFICES ASSUME TypeOK, Bookkeeping, BytesCounted, [Next]_vars
               PROVE  BytesCounted'
    OBVIOUS
  <1>a. ASSUME UNCHANGED <<batch, batchBytes>> PROVE BytesCounted'
    BY <1>a DEF BytesCounted
  <1>b. ASSUME Flush PROVE BytesCounted'
    <2>1. Bytes({}) = 0
      BY EmptySum DEF Bytes
    <2> QED
      BY <1>b, <2>1 DEF Flush, BytesCounted
  <1>1. ASSUME NEW w \in Writers, NEW r \in Records, Write(w, r) PROVE BytesCounted'
    <2>1. /\ batch' = batch \cup {r} /\ batchBytes' = batchBytes + Size[r]
          /\ r \notin batch /\ batch \in SUBSET Records
      BY <1>1 DEF Write, MayWrite, Bookkeeping, Conserved, TypeOK
    <2>2. Bytes(batch \cup {r}) = Bytes(batch) + Size[r]
      BY <2>1, BytesOfRecords
    <2> QED
      BY <2>1, <2>2 DEF BytesCounted
  <1>2. ASSUME NEW w \in Writers, NEW r \in Records, WriteRejected(w, r)
        PROVE  BytesCounted'
    BY <1>2, <1>a DEF WriteRejected
  <1>3. ASSUME NEW w \in Writers, WriteFlush(w) PROVE BytesCounted'
    BY <1>3, <1>b DEF WriteFlush
  <1>4. CASE LoopTick
    BY <1>4, <1>a DEF LoopTick
  <1>5. CASE LoopFlush
    BY <1>5, <1>b DEF LoopFlush
  <1>6. ASSUME NEW c \in Closers,
               CloseStop(c) \/ CloseSignal(c) \/ CloseWait(c)
        PROVE  BytesCounted'
    BY <1>6, <1>a DEF CloseStop, CloseSignal, CloseWait
  <1>7. ASSUME NEW c \in Closers, CloseFlush(c) PROVE BytesCounted'
    BY <1>7, <1>b DEF CloseFlush
  <1>8. ASSUME NEW s \in senders, DeadlinePasses(s) \/ SenderStep(s)
        PROVE  BytesCounted'
    BY <1>8, <1>a DEF DeadlinePasses, SenderStep, LoopCheck, PutResponse,
                      PutRequestError, PutError, Report
  <1>9. CASE UNCHANGED vars
    BY <1>9, <1>a
  <1> QED
    BY <1>1, <1>2, <1>3, <1>4, <1>5, <1>6, <1>7, <1>8, <1>9
    DEF Next, Terminating, Stopped

(* The counter Write adds to and flush resets is the size of the batch, for any *)
(* number of writers: no flush resets it for lines that are still in the batch, *)
(* or takes lines and leaves their bytes behind.                               *)
THEOREM ByteCounterIsExact == Spec => [](batchBytes = Bytes(batch))
  <1>1. Init => BytesCounted
    BY EmptySum DEF Init, BytesCounted, Bytes
  <1> QED
    BY <1>1, TypeCorrect, BookkeepingHolds, BytesCountedStep, PTL
    DEF Spec, BytesCounted

(* Without one of them the lines are within the flushing limit. *)
OverByOne(records) ==
    \E r \in records : records = {r} \/ Bytes(records \ {r}) <= FlushBytes

(* A batch over the limit has its writer on the way; until then nobody appends. *)
ByteBounded ==
    /\ batch = {} \/ batchBytes <= FlushBytes \/ \E w \in Writers : writer[w] = "flush"
    /\ batch = {} \/ OverByOne(batch)
    /\ \A s \in senders : OverByOne(s.left)

LEMMA PartsAreOverByOne ==
    ASSUME NEW records \in SUBSET Records, OverByOne(records),
           NEW part \in SUBSET records, part # {}
    PROVE  OverByOne(part)
  <1>1. PICK r \in records : records = {r} \/ Bytes(records \ {r}) <= FlushBytes
    BY DEF OverByOne
  <1>2. PICK q \in part : part \ {q} \subseteq records \ {r}
    <2>1. CASE r \in part
      BY <2>1
    <2>2. CASE r \notin part
      BY <2>2
    <2> QED
      BY <2>1, <2>2
  <1>3. /\ Bytes(part \ {q}) \in Nat /\ Bytes(records \ {r}) \in Nat
        /\ Bytes(part \ {q}) <= Bytes(records \ {r})
    BY <1>2, BytesOfRecords
  <1>4. part = {q} \/ Bytes(part \ {q}) <= FlushBytes
    BY <1>1, <1>3, LimitsAreIntegers
  <1> QED
    BY <1>4 DEF OverByOne

LEMMA ByteBoundedFlush ==
    ASSUME ByteBounded, Flush
    PROVE  ByteBounded'
  <1>1. CASE batch = {}
    BY <1>1 DEF Flush, ByteBounded
  <1>2. CASE batch # {}
    <2>1. batch' = {} /\ senders' = senders \cup {NewSender(batch)}
      BY <1>2 DEF Flush
    <2>2. NewSender(batch).left = batch
      BY DEF NewSender
    <2> QED
      BY <1>2, <2>1, <2>2 DEF ByteBounded
  <1> QED
    BY <1>1, <1>2

LEMMA ByteBoundedReplace ==
    ASSUME TypeOK, ByteBounded, NEW s \in senders, NEW t, Become(s, t),
           t.left \subseteq s.left, t.left # {},
           UNCHANGED <<batch, batchBytes, writer>>
    PROVE  ByteBounded'
  <1>1. s.left \in SUBSET Records /\ OverByOne(s.left)
    BY DEF TypeOK, SenderStates, ByteBounded
  <1>2. OverByOne(t.left)
    BY <1>1, PartsAreOverByOne
  <1> QED
    BY <1>2 DEF Become, ByteBounded

LEMMA ByteBoundedStep ==
    ASSUME SerialWrites
    PROVE  /\ TypeOK /\ Bookkeeping /\ BytesCounted
           /\ ByteBounded /\ [Next]_vars
           => ByteBounded'
  <1> USE DEF vars, loggerVars, inputVars, outcomeVars
  <1> SUFFICES ASSUME TypeOK, Bookkeeping, BytesCounted, ByteBounded, [Next]_vars
               PROVE  ByteBounded'
    OBVIOUS
  <1>a. ASSUME UNCHANGED <<batch, batchBytes, writer>>, senders' \subseteq senders
        PROVE  ByteBounded'
    BY <1>a DEF ByteBounded
  <1>b. ASSUME NEW s \in senders PROVE s \in SenderStates /\ s.left # {}
    BY DEF TypeOK, Bookkeeping, Conserved
  <1>1. ASSUME NEW w \in Writers, NEW r \in Records, Write(w, r) PROVE ByteBounded'
    <2>1. /\ batch' = batch \cup {r} /\ r \notin batch /\ senders' = senders
          /\ writer' = [writer EXCEPT ![w] =
                          IF ShouldSend(batch', batchBytes') THEN "flush" ELSE "idle"]
          /\ \A v \in Writers : writer[v] = "idle"
      BY <1>1 DEF Write, MayWrite, Bookkeeping, Conserved
    <2>2. batch' = {r} \/ Bytes(batch' \ {r}) <= FlushBytes
      <3>1. batch' \ {r} = batch /\ (batch = {} \/ batchBytes <= FlushBytes)
        BY <2>1 DEF ByteBounded
      <3> QED
        BY <2>1, <3>1 DEF BytesCounted
    <2>3. OverByOne(batch')
      BY <2>1, <2>2 DEF OverByOne
    <2>4. batchBytes' <= FlushBytes \/ \E v \in Writers : writer'[v] = "flush"
      <3>1. CASE ShouldSend(batch', batchBytes')
        BY <2>1, <3>1 DEF TypeOK
      <3>2. CASE ~ShouldSend(batch', batchBytes')
        <4>1. batchBytes' \in Nat /\ FlushBytes \in Int
          BY <1>1, LimitsAreIntegers DEF Write, TypeOK
        <4> QED
          BY <3>2, <4>1 DEF ShouldSend
      <3> QED
        BY <3>1, <3>2
    <2> QED
      BY <2>1, <2>3, <2>4 DEF ByteBounded
  <1>2. ASSUME NEW w \in Writers, NEW r \in Records, WriteRejected(w, r)
        PROVE  ByteBounded'
    BY <1>2, <1>a DEF WriteRejected
  <1>3. ASSUME NEW w \in Writers, WriteFlush(w) PROVE ByteBounded'
    BY <1>3, ByteBoundedFlush DEF WriteFlush
  <1>4. CASE LoopTick
    BY <1>4, <1>a DEF LoopTick
  <1>5. CASE LoopFlush
    BY <1>5, ByteBoundedFlush DEF LoopFlush
  <1>6. ASSUME NEW c \in Closers,
               CloseStop(c) \/ CloseSignal(c) \/ CloseWait(c)
        PROVE  ByteBounded'
    BY <1>6, <1>a DEF CloseStop, CloseSignal, CloseWait
  <1>7. ASSUME NEW c \in Closers, CloseFlush(c) PROVE ByteBounded'
    BY <1>7, ByteBoundedFlush DEF CloseFlush
  <1>8. ASSUME NEW s \in senders, DeadlinePasses(s) PROVE ByteBounded'
    <2>1. [s EXCEPT !.late = TRUE].left = s.left
      BY <1>b DEF SenderStates
    <2> QED
      BY <1>8, <1>b, <2>1, ByteBoundedReplace DEF DeadlinePasses
  <1>9. ASSUME NEW s \in senders, LoopCheck(s) PROVE ByteBounded'
    <2> DEFINE t == [s EXCEPT !.pc = IF s.late THEN "report" ELSE "put",
                              !.tries = 0]
    <2>1. t.left = s.left
      BY <1>b DEF SenderStates
    <2>2. Become(s, t) /\ UNCHANGED <<batch, batchBytes, writer>>
      BY <1>9 DEF LoopCheck
    <2> HIDE DEF t
    <2> QED
      BY <1>b, <2>1, <2>2, ByteBoundedReplace
  <1>10. ASSUME NEW s \in senders, NEW failed \in SUBSET s.left, PutResponse(s, failed)
         PROVE  ByteBounded'
    <2>1. CASE failed = {}
      BY <1>10, <2>1, <1>a DEF PutResponse, Done
    <2>2. CASE failed # {}
      <3> DEFINE t == [s EXCEPT !.left = failed, !.pc = "check"]
      <3>1. t.left = failed
        BY <1>b DEF SenderStates
      <3>2. Become(s, t) /\ UNCHANGED <<batch, batchBytes, writer>>
        BY <1>10, <2>2 DEF PutResponse
      <3> HIDE DEF t
      <3> QED
        BY <2>2, <3>1, <3>2, ByteBoundedReplace
    <2> QED
      BY <2>1, <2>2
  <1>11. ASSUME NEW s \in senders, NEW applied \in SUBSET s.left,
                PutRequestError(s, applied)
         PROVE  ByteBounded'
    <2> DEFINE t == IF s.tries < MaxRetries THEN [s EXCEPT !.tries = @ + 1]
                                            ELSE [s EXCEPT !.pc = "report"]
    <2>1. t.left = s.left
      BY <1>b DEF SenderStates
    <2>2. Become(s, t) /\ UNCHANGED <<batch, batchBytes, writer>>
      BY <1>11 DEF PutRequestError
    <2> HIDE DEF t
    <2> QED
      BY <1>b, <2>1, <2>2, ByteBoundedReplace
  <1>12. ASSUME NEW s \in senders, PutError(s) PROVE ByteBounded'
    <2>1. [s EXCEPT !.pc = "report"].left = s.left
      BY <1>b DEF SenderStates
    <2> QED
      BY <1>12, <1>b, <2>1, ByteBoundedReplace DEF PutError
  <1>13. ASSUME NEW s \in senders, Report(s) PROVE ByteBounded'
    BY <1>13, <1>a DEF Report, Done
  <1>14. CASE UNCHANGED vars
    BY <1>14, <1>a
  <1> QED
    BY <1>1, <1>2, <1>3, <1>4, <1>5, <1>6, <1>7, <1>8, <1>9, <1>10, <1>11,
       <1>12, <1>13, <1>14
    DEF Next, SenderStep, Terminating, Stopped

(* With one Write at a time a request exceeds the flushing limit by one line at *)
(* the most, however large that line is and however often its rest is retried. *)
THEOREM ByteLimitKeptButForOneLine ==
    ASSUME SerialWrites
    PROVE  Spec => []RequestOverByOneLine
  <1>1. Init => ByteBounded
    BY DEF Init, ByteBounded
  <1>2. TypeOK /\ Bookkeeping /\ BytesCounted /\ ByteBounded /\ [Next]_vars => ByteBounded'
    BY ByteBoundedStep
  <1>3. Spec => []BytesCounted
    BY ByteCounterIsExact DEF BytesCounted
  <1>4. BytesCounted /\ ByteBounded => RequestOverByOneLine
    BY DEF BytesCounted, ByteBounded, OverByOne, RequestOverByOneLine
  <1> QED
    BY <1>1, <1>2, <1>3, <1>4, TypeCorrect, BookkeepingHolds, PTL DEF Spec

-----------------------------------------------------------------------------
(* Duplicates: what the stream already holds is not sent again, except after a  *)
(* RequestError, which does not say what was stored.                           *)

NothingSentTwice ==
    /\ dups \subseteq unsure
    /\ stored \subseteq accepted \ batch
    /\ \A s \in senders : stored \cap s.left \subseteq unsure

(* The batch becomes a request of its own, of which nothing is stored yet.      *)
LEMMA FlushSendsNothingTwice ==
    ASSUME NothingSentTwice, Flush
    PROVE  NothingSentTwice'
  <1>1. CASE batch = {}
    BY <1>1 DEF Flush, NothingSentTwice, inputVars, streamVars
  <1>2. CASE batch # {}
    <2>1. /\ batch' = {} /\ senders' = senders \cup {NewSender(batch)}
          /\ UNCHANGED <<accepted, stored, dups, unsure>>
      BY <1>2 DEF Flush, inputVars, streamVars
    <2>2. NewSender(batch).left = batch
      BY DEF NewSender
    <2> QED
      BY <2>1, <2>2 DEF NothingSentTwice
  <1> QED
    BY <1>1, <1>2

(* A goroutine goes on with what it has, or ends, and stores nothing.           *)
LEMMA MovingStoresNothing ==
    ASSUME NothingSentTwice, NEW s \in senders, NEW t,
           \/ Become(s, t) /\ t.left = s.left
           \/ senders' = senders \ {s},
           UNCHANGED <<batch, accepted, stored, dups, unsure>>
    PROVE  NothingSentTwice'
  BY DEF NothingSentTwice, Become

(* A request of goroutine s is answered: it stored some of its records, and all *)
(* that it will send again are not stored, or stored by a RequestError.         *)
LEMMA AnswerSendsNothingTwice ==
    ASSUME Bookkeeping, NothingSentTwice, NEW s \in senders, NEW R \in SUBSET s.left,
           Store(R), unsure \subseteq unsure', stored \cap R \subseteq unsure',
           UNCHANGED <<batch, accepted>>,
           \A t \in senders' : \/ t \in senders /\ t # s
                               \/ t.left \subseteq s.left /\ R \cap t.left \subseteq unsure'
    PROVE  NothingSentTwice'
  <1>1. R \subseteq accepted \ batch
    BY DEF Bookkeeping, Conserved, InFlight
  <1>2. ASSUME NEW t \in senders' PROVE stored' \cap t.left \subseteq unsure'
    <2>1. CASE t \in senders /\ t # s
      <3>1. R \cap t.left = {}
        BY <2>1 DEF Bookkeeping, Conserved
      <3> QED
        BY <2>1, <3>1 DEF NothingSentTwice, Store
    <2>2. CASE t.left \subseteq s.left /\ R \cap t.left \subseteq unsure'
      BY <2>2 DEF NothingSentTwice, Store
    <2> QED
      BY <1>2, <2>1, <2>2
  <1> QED
    BY <1>1, <1>2 DEF NothingSentTwice, Store

LEMMA NothingSentTwiceStep ==
    TypeOK /\ Bookkeeping /\ NothingSentTwice /\ [Next]_vars => NothingSentTwice'
  <1> USE DEF vars, loggerVars, inputVars, outcomeVars, streamVars
  <1> SUFFICES ASSUME TypeOK, Bookkeeping, NothingSentTwice, [Next]_vars
               PROVE  NothingSentTwice'
    OBVIOUS
  <1>a. ASSUME UNCHANGED <<batch, senders, accepted, stored, dups, unsure>>
        PROVE  NothingSentTwice'
    BY <1>a DEF NothingSentTwice
  <1>b. ASSUME NEW s \in senders PROVE s \in SenderStates
    BY DEF TypeOK
  <1>1. ASSUME NEW w \in Writers, NEW r \in Records, Write(w, r)
        PROVE  NothingSentTwice'
    BY <1>1 DEF Write, MayWrite, NothingSentTwice
  <1>2. ASSUME NEW w \in Writers, NEW r \in Records, WriteRejected(w, r)
        PROVE  NothingSentTwice'
    BY <1>2, <1>a DEF WriteRejected
  <1>3. ASSUME NEW w \in Writers, WriteFlush(w) PROVE NothingSentTwice'
    BY <1>3, FlushSendsNothingTwice DEF WriteFlush
  <1>4. CASE LoopTick
    BY <1>4, <1>a DEF LoopTick
  <1>5. CASE LoopFlush
    BY <1>5, FlushSendsNothingTwice DEF LoopFlush
  <1>6. ASSUME NEW c \in Closers,
               CloseStop(c) \/ CloseSignal(c) \/ CloseWait(c)
        PROVE  NothingSentTwice'
    BY <1>6, <1>a DEF CloseStop, CloseSignal, CloseWait
  <1>7. ASSUME NEW c \in Closers, CloseFlush(c) PROVE NothingSentTwice'
    BY <1>7, FlushSendsNothingTwice DEF CloseFlush
  <1>8. ASSUME NEW s \in senders, DeadlinePasses(s) PROVE NothingSentTwice'
    <2>1. [s EXCEPT !.late = TRUE].left = s.left
      BY <1>b DEF SenderStates
    <2> QED
      BY <1>8, <2>1, MovingStoresNothing DEF DeadlinePasses
  <1>9. ASSUME NEW s \in senders, LoopCheck(s) PROVE NothingSentTwice'
    <2> DEFINE t == [s EXCEPT !.pc = IF s.late THEN "report" ELSE "put",
                              !.tries = 0]
    <2>1. t.left = s.left
      BY <1>b DEF SenderStates
    <2>2. Become(s, t) /\ UNCHANGED <<batch, accepted, stored, dups, unsure>>
      BY <1>9 DEF LoopCheck
    <2> HIDE DEF t
    <2> QED
      BY <2>1, <2>2, MovingStoresNothing
  <1>10. ASSUME NEW s \in senders, NEW failed \in SUBSET s.left, PutResponse(s, failed)
         PROVE  NothingSentTwice'
    <2> DEFINE R == s.left \ failed
               t == [s EXCEPT !.left = failed, !.pc = "check"]
    <2>1. t.left = failed
      BY <1>b DEF SenderStates
    <2>2. /\ Store(R) /\ UNCHANGED <<batch, accepted, unsure>>
          /\ senders' = senders \ {s} \/ senders' = (senders \ {s}) \cup {t}
      BY <1>10 DEF PutResponse, Done, Become
    <2>3. stored \cap R \subseteq unsure'
      BY <2>2 DEF NothingSentTwice
    <2>4. R \in SUBSET s.left /\ R \cap failed = {}
      OBVIOUS
    <2> HIDE DEF t, R
    <2> QED
      BY <2>1, <2>2, <2>3, <2>4, AnswerSendsNothingTwice
  <1>11. ASSUME NEW s \in senders, NEW applied \in SUBSET s.left,
                PutRequestError(s, applied)
         PROVE  NothingSentTwice'
    <2> DEFINE t == IF s.tries < MaxRetries THEN [s EXCEPT !.tries = @ + 1]
                                            ELSE [s EXCEPT !.pc = "report"]
    <2>1. t.left = s.left
      BY <1>b DEF SenderStates
    <2>2. /\ Store(applied) /\ unsure' = unsure \cup applied
          /\ senders' = (senders \ {s}) \cup {t}
          /\ UNCHANGED <<batch, accepted>>
      BY <1>11 DEF PutRequestError, Become
    <2> HIDE DEF t
    <2> QED
      BY <2>1, <2>2, AnswerSendsNothingTwice
  <1>12. ASSUME NEW s \in senders, PutError(s) PROVE NothingSentTwice'
    <2>1. [s EXCEPT !.pc = "report"].left = s.left
      BY <1>b DEF SenderStates
    <2> QED
      BY <1>12, <2>1, MovingStoresNothing DEF PutError
  <1>13. ASSUME NEW s \in senders, Report(s) PROVE NothingSentTwice'
    BY <1>13, MovingStoresNothing DEF Report, Done
  <1>14. CASE UNCHANGED vars
    BY <1>14, <1>a
  <1> QED
    BY <1>1, <1>2, <1>3, <1>4, <1>5, <1>6, <1>7, <1>8, <1>9, <1>10, <1>11,
       <1>12, <1>13, <1>14
    DEF Next, SenderStep, Terminating, Stopped

(* sendBatch resends only what its last answer says was not stored: a record   *)
(* that is in the stream twice was in a request that returned a RequestError.  *)
THEOREM DuplicatesNeedARequestError == Spec => []DuplicatesOnlyAfterRequestError
  <1>1. Init => NothingSentTwice
    BY DEF Init, NothingSentTwice
  <1>2. NothingSentTwice => DuplicatesOnlyAfterRequestError
    BY DEF NothingSentTwice, DuplicatesOnlyAfterRequestError
  <1> QED
    BY <1>1, <1>2, TypeCorrect, BookkeepingHolds, NothingSentTwiceStep, PTL DEF Spec

-----------------------------------------------------------------------------
(* Once a Close has flushed, its batch holds none of the lines it owes; as long *)
(* as nothing else is accepted the batch is empty and no flush, whoever's it    *)
(* is, starts a goroutine.  Its Wait ends, and ends for good.                  *)

QuiescentFor(c) ==
    /\ closer[c] # "idle" => ~ticking
    /\ closer[c] \in Flushed \cup {"flush"} => loop = "exited"
    /\ closer[c] \in {"woken", "done"} /\ accepted = owed[c] => senders = {}
    /\ closer[c] = "panicked" => accepted # owed[c]

Quiescent == \A c \in Closers : QuiescentFor(c)

LEMMA NothingLeftToFlush ==
    ASSUME Bookkeeping, Owing, NEW c \in Closers, closer[c] \in Flushed,
           accepted = owed[c]
    PROVE  batch = {}
  BY DEF Bookkeeping, Conserved, Owing

(* A flush by a writer or by another Close.                                     *)
LEMMA FlushIsQuiescent ==
    ASSUME Bookkeeping, Owing, Quiescent, Flush, UNCHANGED loop,
           NEW c \in Closers, closer'[c] = closer[c]
    PROVE  QuiescentFor(c)'
  <1>1. UNCHANGED <<ticking, accepted, owed>> /\ (batch = {} => senders' = senders)
    BY DEF Flush, inputVars
  <1>2. closer[c] \in {"woken", "done"} /\ accepted = owed[c] => batch = {}
    BY NothingLeftToFlush DEF Flushed
  <1> QED
    BY <1>1, <1>2 DEF Quiescent, QuiescentFor

LEMMA QuiescentStep ==
    TypeOK /\ Bookkeeping /\ Owing /\ Quiescent /\ [Next]_vars => Quiescent'
  <1> USE DEF vars, loggerVars, inputVars
  <1> SUFFICES ASSUME TypeOK, Bookkeeping, Owing, Quiescent, [Next]_vars
               PROVE  Quiescent'
    OBVIOUS
  <1>a. closer \in [Closers -> CloserStates] /\ owed \in [Closers -> SUBSET Records]
    BY DEF TypeOK
  <1>1. ASSUME NEW w \in Writers, NEW r \in Records, Write(w, r) PROVE Quiescent'
    <2>1. /\ UNCHANGED <<ticking, loop, closer, senders, owed>>
          /\ accepted' = accepted \cup {r} /\ r \notin accepted
      BY <1>1 DEF Write, MayWrite
    <2>2. \A c \in Closers : accepted' # owed'[c]
      BY <2>1 DEF Owing
    <2> QED
      BY <2>1, <2>2 DEF Quiescent, QuiescentFor
  <1>2. ASSUME NEW w \in Writers, NEW r \in Records, WriteRejected(w, r)
        PROVE  Quiescent'
    BY <1>2 DEF WriteRejected, Quiescent, QuiescentFor
  <1>3. ASSUME NEW w \in Writers, WriteFlush(w) PROVE Quiescent'
    BY <1>3, FlushIsQuiescent DEF WriteFlush, Quiescent, QuiescentFor
  <1>4. CASE LoopTick
    BY <1>4 DEF LoopTick, Quiescent, QuiescentFor, Flushed
  <1>5. CASE LoopFlush
    <2>1. \A c \in Closers : closer[c] \notin Flushed \cup {"flush"}
      BY <1>5 DEF LoopFlush, Quiescent, QuiescentFor
    <2> QED
      BY <1>5, <2>1 DEF LoopFlush, Flush, Quiescent, QuiescentFor, Flushed
  <1>6. ASSUME NEW c \in Closers, CloseStop(c) PROVE Quiescent'
    BY <1>6, <1>a DEF CloseStop, Quiescent, QuiescentFor, Flushed
  <1>7. ASSUME NEW c \in Closers, CloseSignal(c) PROVE Quiescent'
    BY <1>7, <1>a DEF CloseSignal, Quiescent, QuiescentFor, Flushed
  <1>8. ASSUME NEW c \in Closers, CloseFlush(c) PROVE Quiescent'
    <2>1. /\ UNCHANGED <<ticking, loop>> /\ closer[c] = "flush" /\ closer'[c] = "wait"
          /\ \A d \in Closers : d # c => closer'[d] = closer[d]
          /\ Flush
      BY <1>8, <1>a DEF CloseFlush, Flush
    <2> QED
      BY <2>1, FlushIsQuiescent DEF Quiescent, QuiescentFor, Flushed
  <1>9. ASSUME NEW c \in Closers, CloseWait(c) PROVE Quiescent'
    <2>1. /\ UNCHANGED <<ticking, loop, accepted, owed, senders>>
          /\ closer[c] \in {"wait", "woken"}
          /\ \A d \in Closers : d # c => closer'[d] = closer[d]
          /\ closer'[c] \in {"done", "asleep", "panicked"}
          /\ closer'[c] = "done" => sendBatchWG = 0
          /\ closer'[c] = "panicked" => closer[c] = "woken" /\ sendBatchWG # 0
      BY <1>9, <1>a DEF CloseWait
    <2>2. closer'[c] = "done" => senders = {}
      BY <2>1, ZeroMeansNoSenders
    <2>3. closer[c] = "woken" /\ accepted = owed[c] => sendBatchWG = 0
      BY FS_EmptySet DEF Quiescent, QuiescentFor, Bookkeeping, WaitGroupCounts
    <2> QED
      BY <2>1, <2>2, <2>3 DEF Quiescent, QuiescentFor, Flushed
  <1>10. ASSUME NEW s \in senders, Done(s), UNCHANGED <<ticking, loop, accepted, owed>>
         PROVE  Quiescent'
    <2>1. \A c \in Closers : closer[c] \in {"woken", "done"} => accepted # owed[c]
      BY DEF Quiescent, QuiescentFor
    <2>2. sendBatchWG = 1 => senders' = {}
      BY <1>10, ZeroMeansNoSenders DEF Done
    <2>3. \A c \in Closers : \/ closer'[c] = closer[c]
                             \/ closer[c] = "asleep" /\ closer'[c] = "woken" /\ senders' = {}
      BY <1>10, <2>2 DEF Done
    <2> QED
      BY <1>10, <2>1, <2>3 DEF Quiescent, QuiescentFor, Flushed
  <1>11. ASSUME NEW s \in senders, UNCHANGED <<ticking, loop, accepted, owed, closer>>
         PROVE  Quiescent'
    BY <1>11 DEF Quiescent, QuiescentFor
  <1>12. ASSUME NEW s \in senders, DeadlinePasses(s) \/ SenderStep(s)
         PROVE  Quiescent'
    <2>1. /\ UNCHANGED <<ticking, loop, accepted, owed>>
          /\ Done(s) \/ UNCHANGED closer
      BY <1>12 DEF DeadlinePasses, SenderStep, LoopCheck, PutResponse,
                   PutRequestError, PutError, Report
    <2> QED
      BY <1>10, <1>11, <2>1
  <1>13. CASE UNCHANGED vars
    BY <1>13 DEF Quiescent, QuiescentFor
  <1> QED
    BY <1>1, <1>2, <1>3, <1>4, <1>5, <1>6, <1>7, <1>8, <1>9, <1>12, <1>13
    DEF Next, Terminating, Stopped

THEOREM QuiescentHolds == Spec => []Quiescent
  <1>1. Init => Quiescent
    BY DEF Init, Quiescent, QuiescentFor, Flushed
  <1> QED
    BY <1>1, TypeCorrect, BookkeepingHolds, OwingHolds, QuiescentStep, PTL DEF Spec

(* Close returns from an application that logged nothing meanwhile with every   *)
(* sending goroutine and the loop gone and every line settled, for any number   *)
(* of concurrent calls of Close, of writers that were still about to flush when *)
(* it was called, and any answers of the stream.                               *)
THEOREM CloseLeavesNothing == Spec => []QuietAfterClose
  <1>1. Owing /\ Quiescent => QuietAfterClose
    BY DEF Owing, Quiescent, QuiescentFor, QuietAfterClose, Flushed
  <1> QED
    BY <1>1, OwingHolds, QuiescentHolds, PTL

(* Nor does its Close panic: between the Done that wakes it and its own next    *)
(* step only a line accepted since the call could raise the wait group again.  *)
THEOREM CloseIsSafeWhenQuiet == Spec => []PanicNeedsAWrite
  <1>1. Quiescent => PanicNeedsAWrite
    BY DEF Quiescent, QuiescentFor, PanicNeedsAWrite
  <1> QED
    BY <1>1, QuiescentHolds, PTL
==============================================================================
