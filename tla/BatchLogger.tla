----------------------------- MODULE BatchLogger -----------------------------
(* The Firehose logger of logger/analytics/analyticslogger.go: Write appends   *)
(* to a shared batch, a batch that is full is handed to a goroutine of its own *)
(* that sends it, a ticker flushes what is left over, and Close stops the      *)
(* ticker, flushes and waits for the sending goroutines.                       *)
(*                                                                            *)
(* A critical section of al.mu is one step; what the code does before, between *)
(* and after its critical sections are steps of their own.                     *)
EXTENDS Integers, FiniteSets, Functions

CONSTANTS
    Records,            \* the lines handed to Write, each written at most once
    Malformed,          \* the lines json.Unmarshal rejects
    Size,               \* bytes of a line, re-marshalled and with its newline
    Writers, Closers,   \* the goroutines that call Write and Close
    SerialWrites,       \* every Write comes through the embedded log.Logger,
                        \* whose mutex admits one at a time
    ConfigMaxRecords,   \* Config.FirehosePutRecordBatchMaxRecords, 0 if unset
    ConfigMaxBytes,     \* Config.FirehosePutRecordBatchMaxBytes, 0 if unset
    AwsMaxRecords,      \* firehosePutRecordBatchMaxRecords
    AwsMaxBytes,        \* firehosePutRecordBatchMaxBytes
    MaxRetries          \* retries of one request after a RequestError

ASSUME RecordsAssumption ==
    /\ IsFiniteSet(Records)
    /\ Malformed \subseteq Records
    /\ Size \in [Records -> Nat]
ASSUME LimitsAssumption ==
    /\ {ConfigMaxRecords, ConfigMaxBytes} \subseteq Int
    /\ MaxRetries \in Nat
    /\ {AwsMaxRecords, AwsMaxBytes} \subseteq Nat \ {0}
ASSUME UsageAssumption == SerialWrites \in BOOLEAN

(* New: an unset limit is the service's, a set one is capped by it.  A         *)
(* negative one passes through, as it does in the code.                        *)
Limit(config, aws) ==
    IF config = 0 THEN aws ELSE IF config < aws THEN config ELSE aws

maxBatchRecords == Limit(ConfigMaxRecords, AwsMaxRecords)
maxBatchBytes == Limit(ConfigMaxBytes, AwsMaxBytes)

(* int(0.9 * float64(maxBatchBytes)): int cuts towards zero, \div down. *)
FlushBytes == IF maxBatchBytes >= 0 THEN (9 * maxBatchBytes) \div 10
                                    ELSE -((9 * (-maxBatchBytes)) \div 10)

VARIABLES
    \* fields of Logger
    batch, batchBytes, sendBatchWG,
    ticking,    \* sendingTicker has not been stopped
    \* goroutines
    loop,       \* the one New starts: "select", "flush", "exited"
    writer,     \* callers of Write: "idle", "flush" (unlocked, about to flush)
    closer,     \* callers of Close, see CloserStates
    senders,    \* the goroutines flush starts, see SenderStates
    \* what happened
    accepted, rejected, acked, reported,
    stored,     \* records the stream holds at least once
    dups,       \* records the stream holds more than once
    unsure,     \* records stored by a request that returned a RequestError
    owed        \* per closer: accepted before it called Close

loggerVars == <<batch, batchBytes, sendBatchWG, ticking>>
inputVars == <<accepted, rejected>>
streamVars == <<stored, dups, unsure>>
outcomeVars == <<acked, reported>>
historyVars == <<inputVars, outcomeVars, streamVars, owed>>
vars == <<loggerVars, loop, writer, closer, senders, historyVars>>

CloserStates ==
    {"idle", "signal", "flush", "wait", "asleep", "woken", "done", "panicked"}

SenderStates == [left : SUBSET Records, tries : 0..MaxRetries,
                 pc : {"check", "put", "report"}, late : BOOLEAN]

Settled == acked \cup reported
InFlight == UNION {s.left : s \in senders}
Alive == \A c \in Closers : closer[c] # "panicked"

Init ==
    /\ batch = {} /\ batchBytes = 0 /\ sendBatchWG = 0 /\ ticking = TRUE
    /\ loop = "select"
    /\ writer = [w \in Writers |-> "idle"]
    /\ closer = [c \in Closers |-> "idle"]
    /\ senders = {}
    /\ accepted = {} /\ rejected = {} /\ acked = {} /\ reported = {}
    /\ stored = {} /\ dups = {} /\ unsure = {}
    /\ owed = [c \in Closers |-> {}]

-----------------------------------------------------------------------------
(* Write and flush *)

MayWrite(w, r) ==
    /\ writer[w] = "idle"
    /\ r \notin accepted \cup rejected
    /\ SerialWrites => \A v \in Writers : writer[v] = "idle"

(* Write returns the error of json.Unmarshal and has touched nothing. *)
WriteRejected(w, r) ==
    /\ MayWrite(w, r) /\ r \in Malformed
    /\ rejected' = rejected \cup {r}
    /\ UNCHANGED <<loggerVars, loop, writer, closer, senders, accepted,
                   outcomeVars, streamVars, owed>>

(* Defective variant: only the records are counted. *)
ShouldSendByCount(records, bytes) == Cardinality(records) = maxBatchRecords

(* Defective variant: ">" for "==". *)
ShouldSendOver(records, bytes) ==
    \/ Cardinality(records) > maxBatchRecords
    \/ bytes > FlushBytes

ShouldSend(records, bytes) ==
    \/ Cardinality(records) = maxBatchRecords
    \/ bytes > FlushBytes

(* Defective variant: Write tests the batch before it appends. *)
WriteTestedFirst(w, r) ==
    /\ MayWrite(w, r) /\ r \notin Malformed
    /\ batch' = batch \cup {r}
    /\ batchBytes' = batchBytes + Size[r]
    /\ accepted' = accepted \cup {r}
    /\ writer' = [writer EXCEPT ![w] =
                    IF ShouldSend(batch, batchBytes) THEN "flush" ELSE "idle"]
    /\ UNCHANGED <<sendBatchWG, ticking, loop, closer, senders, rejected,
                   outcomeVars, streamVars, owed>>

(* The locked section of Write: append, and decide whether to flush once the   *)
(* mutex is released.                                                          *)
Write(w, r) ==
    /\ MayWrite(w, r) /\ r \notin Malformed
    /\ batch' = batch \cup {r}
    /\ batchBytes' = batchBytes + Size[r]
    /\ accepted' = accepted \cup {r}
    /\ writer' = [writer EXCEPT ![w] =
                    IF ShouldSend(batch', batchBytes') THEN "flush" ELSE "idle"]
    /\ UNCHANGED <<sendBatchWG, ticking, loop, closer, senders, rejected,
                   outcomeVars, streamVars, owed>>

NewSender(records) == [left |-> records, tries |-> 0, pc |-> "check", late |-> FALSE]

(* Defective variant: "al.batch = nil" is missing. *)
BatchKept == UNCHANGED batch

BatchEmptied == batch' = {}
BytesReset == batchBytes' = 0

(* flush: whatever the batch holds now goes to a new goroutine. *)
Flush ==
    /\ UNCHANGED <<ticking, historyVars>>
    /\ IF batch = {}
         THEN UNCHANGED <<batch, batchBytes, sendBatchWG, senders>>
         ELSE /\ BatchEmptied
              /\ BytesReset
              /\ sendBatchWG' = sendBatchWG + 1
              /\ senders' = senders \cup {NewSender(batch)}

WriteFlush(w) ==
    /\ writer[w] = "flush"
    /\ writer' = [writer EXCEPT ![w] = "idle"]
    /\ Flush
    /\ UNCHANGED <<loop, closer>>

-----------------------------------------------------------------------------
(* The goroutine New starts *)

LoopTick ==
    /\ loop = "select" /\ ticking
    /\ loop' = "flush"
    /\ UNCHANGED <<loggerVars, writer, closer, senders, historyVars>>

(* Defective variant: the loop returns after its first flush. *)
LoopFlushOnce ==
    /\ loop = "flush"
    /\ loop' = "exited"
    /\ Flush
    /\ UNCHANGED <<writer, closer>>

LoopFlush ==
    /\ loop = "flush"
    /\ loop' = "select"
    /\ Flush
    /\ UNCHANGED <<writer, closer>>

-----------------------------------------------------------------------------
(* Close *)

(* Defective variant: Close only waits. *)
CloseOnlyWaits(c) ==
    /\ closer[c] = "idle"
    /\ closer' = [closer EXCEPT ![c] = "wait"]
    /\ owed' = [owed EXCEPT ![c] = accepted]
    /\ UNCHANGED <<loggerVars, loop, writer, senders, inputVars, outcomeVars,
                   streamVars>>

CloseStop(c) ==
    /\ closer[c] = "idle"
    /\ ticking' = FALSE
    /\ closer' = [closer EXCEPT ![c] = "signal"]
    /\ owed' = [owed EXCEPT ![c] = accepted]
    /\ UNCHANGED <<batch, batchBytes, sendBatchWG, loop, writer, senders,
                   inputVars, outcomeVars, streamVars>>

(* Defective variant: al.done has a buffer. *)
CloseSignalBuffered(c) ==
    /\ closer[c] = "signal"
    /\ loop' = IF loop = "select" THEN "exited" ELSE loop
    /\ closer' = [closer EXCEPT ![c] = "flush"]
    /\ UNCHANGED <<loggerVars, writer, senders, historyVars>>

(* al.done has no buffer: the send completes when the loop receives. *)
CloseSignal(c) ==
    /\ closer[c] = "signal" /\ loop = "select"
    /\ loop' = "exited"
    /\ closer' = [closer EXCEPT ![c] = "flush"]
    /\ UNCHANGED <<loggerVars, writer, senders, historyVars>>

(* Defective variant: Close does not flush. *)
CloseFlushSkipped(c) ==
    /\ closer[c] = "flush"
    /\ closer' = [closer EXCEPT ![c] = "wait"]
    /\ UNCHANGED <<loggerVars, loop, writer, senders, historyVars>>

CloseFlush(c) ==
    /\ closer[c] = "flush"
    /\ closer' = [closer EXCEPT ![c] = "wait"]
    /\ Flush
    /\ UNCHANGED <<loop, writer>>

(* Defective variant: Close does not wait. *)
WaitGroupIgnored == TRUE

WaitGroupIsZero == sendBatchWG = 0

(* sync.WaitGroup.Wait: returns at zero, else sleeps until a Done reaches      *)
(* zero; it panics when the counter has been raised again before the woken     *)
(* goroutine runs ("WaitGroup is reused before previous Wait has returned").   *)
CloseWait(c) ==
    /\ \/ closer[c] = "wait" /\ closer' = [closer EXCEPT ![c] =
                                IF WaitGroupIsZero THEN "done" ELSE "asleep"]
       \/ closer[c] = "woken" /\ closer' = [closer EXCEPT ![c] =
                                IF WaitGroupIsZero THEN "done" ELSE "panicked"]
    /\ UNCHANGED <<loggerVars, loop, writer, senders, historyVars>>

-----------------------------------------------------------------------------
(* sendBatch, in the goroutines flush starts *)

Become(s, t) == senders' = (senders \ {s}) \cup {t}

(* Defective variant: no Done on the way out. *)
DoneSkipped(s) == senders' = senders \ {s} /\ UNCHANGED <<sendBatchWG, closer>>

(* defer al.sendBatchWG.Done() *)
Done(s) ==
    /\ senders' = senders \ {s}
    /\ sendBatchWG' = sendBatchWG - 1
    /\ closer' = [c \in Closers |->
                    IF closer[c] = "asleep" /\ sendBatchWG = 1
                      THEN "woken" ELSE closer[c]]

Store(records) ==
    /\ stored' = stored \cup records
    /\ dups' = dups \cup (stored \cap records)

DeadlinePasses(s) ==
    /\ ~s.late
    /\ Become(s, [s EXCEPT !.late = TRUE])
    /\ UNCHANGED <<loggerVars, loop, writer, closer, historyVars>>

(* Defective variant: there is no deadline. *)
AlwaysInTime(s) == TRUE

InTime(s) == ~s.late

(* for time.Now().Before(timeout): the deadline is looked at only here, and    *)
(* every request of the loop has a retrier of its own.                         *)
LoopCheck(s) ==
    /\ s.pc = "check"
    /\ Become(s, [s EXCEPT !.pc = IF InTime(s) THEN "put" ELSE "report", !.tries = 0])
    /\ UNCHANGED <<loggerVars, loop, writer, closer, historyVars>>

(* Defective variant: the whole batch is sent again. *)
WholeBatch(s, failed) == s.left

NextBatch(s, failed) == failed

(* PutRecordBatch answers; the records with an ErrorCode are the next batch. *)
PutResponse(s, failed) ==
    /\ s.pc = "put"
    /\ Store(s.left \ failed)
    /\ acked' = acked \cup (s.left \ failed)
    /\ IF failed = {}
         THEN Done(s)
         ELSE /\ Become(s, [s EXCEPT !.left = NextBatch(s, failed), !.pc = "check"])
              /\ UNCHANGED <<sendBatchWG, closer>>
    /\ UNCHANGED <<batch, batchBytes, ticking, loop, writer, inputVars, reported,
                   unsure, owed>>

(* Defective variant: one retry too many. *)
MayRetryOnceMore(s) == s.tries <= MaxRetries

MayRetry(s) == s.tries < MaxRetries

(* A RequestError (Classify: Retry) does not say which records were stored. *)
PutRequestError(s, applied) ==
    /\ s.pc = "put"
    /\ Store(applied)
    /\ unsure' = unsure \cup applied
    /\ Become(s, IF MayRetry(s) THEN [s EXCEPT !.tries = @ + 1]
                                ELSE [s EXCEPT !.pc = "report"])
    /\ UNCHANGED <<loggerVars, loop, writer, closer, inputVars, outcomeVars, owed>>

(* Any other error (Classify: Fail): the request was refused as a whole. *)
PutError(s) ==
    /\ s.pc = "put"
    /\ Become(s, [s EXCEPT !.pc = "report"])
    /\ UNCHANGED <<loggerVars, loop, writer, closer, historyVars>>

(* errLogger.ErrorD("send-batch-error") for what is left *)
Report(s) ==
    /\ s.pc = "report"
    /\ reported' = reported \cup s.left
    /\ Done(s)
    /\ UNCHANGED <<batch, batchBytes, ticking, loop, writer, inputVars, acked,
                   streamVars, owed>>

SenderStep(s) ==
    \/ LoopCheck(s)
    \/ \E failed \in SUBSET s.left : PutResponse(s, failed)
    \/ \E applied \in SUBSET s.left : PutRequestError(s, applied)
    \/ PutError(s)
    \/ Report(s)

-----------------------------------------------------------------------------
(* Nothing is left to do: not a deadlock. *)
Terminating ==
    /\ accepted \cup rejected = Records
    /\ senders = {} /\ loop = "exited"
    /\ \A w \in Writers : writer[w] = "idle"
    /\ \A c \in Closers : closer[c] = "done"
    /\ UNCHANGED vars

Stopped ==
    /\ ~Alive
    /\ UNCHANGED vars

Next ==
    \/ /\ Alive
       /\ \/ \E w \in Writers, r \in Records : Write(w, r) \/ WriteRejected(w, r)
          \/ \E w \in Writers : WriteFlush(w)
          \/ LoopTick
          \/ LoopFlush
          \/ \E c \in Closers : \/ CloseStop(c) \/ CloseSignal(c)
                                \/ CloseFlush(c) \/ CloseWait(c)
          \/ \E s \in senders : DeadlinePasses(s) \/ SenderStep(s)
    \/ Terminating
    \/ Stopped

Spec == Init /\ [][Next]_vars

(* Runnable goroutines run, the ticker ticks, time passes and PutRecordBatch   *)
(* answers.  Nothing is assumed about what is answered, nor that anybody calls *)
(* Write or Close.                                                             *)
Fairness ==
    /\ WF_vars(Alive /\ (LoopTick \/ LoopFlush))
    /\ \A w \in Writers : WF_vars(Alive /\ WriteFlush(w))
    /\ \A c \in Closers :
         WF_vars(Alive /\ (CloseSignal(c) \/ CloseFlush(c) \/ CloseWait(c)))
    /\ \A r \in Records :
         /\ WF_vars(Alive /\ \E s \in senders : r \in s.left /\ SenderStep(s))
         /\ WF_vars(Alive /\ \E s \in senders : r \in s.left /\ DeadlinePasses(s))

FairSpec == Spec /\ Fairness

-----------------------------------------------------------------------------
(* Properties *)

\* The variables hold what the Go fields and goroutines can hold.
TypeOK ==
    /\ batch \in SUBSET Records /\ batchBytes \in Nat /\ sendBatchWG \in Int
    /\ ticking \in BOOLEAN
    /\ loop \in {"select", "flush", "exited"}
    /\ writer \in [Writers -> {"idle", "flush"}]
    /\ closer \in [Closers -> CloserStates]
    /\ senders \in SUBSET SenderStates
    /\ {accepted, rejected, acked, reported, stored, dups, unsure}
         \subseteq SUBSET Records
    /\ owed \in [Closers -> SUBSET Records]

\* A record Write accepted is in exactly one place - the batch, one sending
\* goroutine, acknowledged, or reported as lost - whatever Writes, timed
\* flushes, Close and partial failures are interleaved, and no sending
\* goroutine runs on nothing.  (Write, flush, sendBatch)
Conserved ==
    /\ accepted = batch \cup InFlight \cup Settled
    /\ batch \cap (InFlight \cup Settled) = {}
    /\ InFlight \cap Settled = {}
    /\ acked \cap reported = {}
    /\ \A s \in senders : s.left # {}
    /\ \A s, t \in senders : s # t => s.left \cap t.left = {}

\* sendBatchWG counts the sending goroutines exactly, so that a Close that sees
\* zero has nothing left to wait for.  (flush, Close)
WaitGroupCounts == sendBatchWG = Cardinality(senders)

\* A batch at or over one of its limits is never left to the ticker: a writer
\* has seen it full and is on its way to flush it, however many Writes and
\* flushes came in between.  (Write's test is "==", not ">=")
FullBatchIsBeingFlushed ==
    /\ batch # {}
    /\ Cardinality(batch) >= maxBatchRecords \/ batchBytes > FlushBytes
    => \E w \in Writers : writer[w] = "flush"

\* "the maximum number of records to send in a firehose batch"
\* (Config.FirehosePutRecordBatchMaxRecords)
RequestWithinRecordLimit ==
    \A s \in senders : Cardinality(s.left) <= maxBatchRecords

Bytes(records) == SumFunctionOnSet(Size, records)

\* The byte counter is the size of the batch, however flushes by Write, the loop
\* and Close follow one another.  It is tested after a line was appended, at nine
\* tenths of the limit: written one at a time, the lines of a request exceed that
\* by one line at the most - which may be more than the tenth left.  (Write, flush)
RequestOverByOneLine ==
    /\ batchBytes = Bytes(batch)
    /\ \A s \in senders : \E r \in s.left :
         s.left = {r} \/ Bytes(s.left \ {r}) <= FlushBytes

\* The stream holds a record twice only if one of the requests that stored it
\* ended in a RequestError: a partial failure resends nothing that was stored.
\* (sendBatch)
DuplicatesOnlyAfterRequestError == dups \subseteq unsure

\* "Close flushes all logs to Firehose": when it returns, every record accepted
\* before the call is acknowledged or its loss has been reported.
CloseDrains ==
    \A c \in Closers : closer[c] = "done" => owed[c] \subseteq Settled

\* When Close returns the flushing loop is gone, and an application that has
\* logged nothing since it called Close finds nothing left in the logger and
\* no goroutine sending, however the last Writes before the call raced with it.
QuietAfterClose ==
    \A c \in Closers : closer[c] = "done" =>
        /\ loop = "exited" /\ ~ticking
        /\ accepted = owed[c] => accepted \subseteq Settled /\ senders = {}

\* Close does not panic: no batch is started between the moment the last
\* sending goroutine wakes Close and the moment Close runs.
CloseDoesNotPanic == Alive

\* Close panics only if the application has logged since it called Close: of
\* what was accepted before, no Write, flush of the loop or other Close starts a
\* batch once this one waits.  (Close, WaitGroup)
PanicNeedsAWrite ==
    \A c \in Closers : closer[c] = "panicked" => accepted # owed[c]

\* A record accepted since a call of Close that has flushed, in a batch that may
\* never be full and that nothing else will flush.
Stranded(r) ==
    /\ r \in batch
    /\ \E c \in Closers : /\ closer[c] \in {"wait", "asleep", "woken", "done"}
                          /\ r \notin owed[c]

\* Every accepted record is in the end acknowledged or reported, however often
\* requests fail, unless it was accepted after Close had flushed.
\* (the ticker, sendBatch's deadline and retries)
EveryRecordSettles ==
    \A r \in Records :
        r \in accepted ~> (r \in Settled \/ Stranded(r) \/ ~Alive)

\* A call of Close returns, or panics: the loop receives from al.done and the
\* sending goroutines all end.  It holds of one call; a second one waits on
\* al.done for ever.
CloseReturns ==
    \A c \in Closers : closer[c] = "signal" ~> closer[c] \in {"done", "panicked"}

-----------------------------------------------------------------------------
(* What the logger promises its callers *)

Closing(c) == CASE closer[c] = "idle" -> "idle"
                [] closer[c] = "done" -> "returned"
                [] OTHER -> "closing"

Sink == INSTANCE LogSink WITH
            pending <- accepted \ Settled,
            delivered <- acked,
            failed <- reported,
            closing <- [c \in Closers |-> Closing(c)]

\* The batches, goroutines and retries implement the sink: nothing settles that
\* was not pending, and Close returns only when what it owed is settled.
ImplementsSink == Sink!Spec
==============================================================================
