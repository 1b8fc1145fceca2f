---------------------------- MODULE KinesisLogger ----------------------------
(* The Kinesis logger of logger/kinesisstream/kinesisstreamlogger.go.  Its     *)
(* control is that of the Firehose logger; this module keeps the data that     *)
(* BatchLogger leaves out - the order of a batch, the partition keys, and the  *)
(* answer of PutRecords, position by position - and implements BatchLogger.    *)
EXTENDS Integers, FiniteSets, Sequences, SequencesExt

CONSTANTS
    Records, Malformed, Size, Writers, Closers, SerialWrites,
    ConfigMaxRecords, ConfigMaxBytes, AwsMaxRecords, AwsMaxBytes, MaxRetries,
                    \* as in BatchLogger
    PartitionKey,   \* line -> its "partition_key"
    NoKey,          \* ... when it has none
    NumberKey,      \* ... when it is a JSON value other than a string
    RandomKey       \* any key rand.Int() makes

ASSUME RecordsAssumption ==
    /\ IsFiniteSet(Records) /\ Malformed \subseteq Records
    /\ Size \in [Records -> Nat]
ASSUME LimitsAssumption ==
    /\ {ConfigMaxRecords, ConfigMaxBytes} \subseteq Int
    /\ MaxRetries \in Nat
    /\ {AwsMaxRecords, AwsMaxBytes} \subseteq Nat \ {0}
ASSUME UsageAssumption == SerialWrites \in BOOLEAN
ASSUME KeysAssumption == "" \notin {NoKey, NumberKey}

Limit(config, aws) ==
    IF config = 0 THEN aws ELSE IF config < aws THEN config ELSE aws

maxBatchRecords == Limit(ConfigMaxRecords, AwsMaxRecords)
maxBatchBytes == Limit(ConfigMaxBytes, AwsMaxBytes)

(* int(0.9 * float64(maxBatchBytes)) *)
FlushBytes == IF maxBatchBytes >= 0 THEN (9 * maxBatchBytes) \div 10
                                    ELSE -((9 * (-maxBatchBytes)) \div 10)

VARIABLES
    batch,      \* sequence of entries [line, key]
    batchBytes, sendBatchWG, ticking, loop, writer, closer,
    senders,    \* as in BatchLogger, with a sequence of entries left to send
    accepted,   \* sequence of lines, in the order of their locked sections
    rejected, acked, reported, stored, dups, unsure, owed

loggerVars == <<batch, batchBytes, sendBatchWG, ticking>>
inputVars == <<accepted, rejected>>
streamVars == <<stored, dups, unsure>>
outcomeVars == <<acked, reported>>
historyVars == <<inputVars, outcomeVars, streamVars, owed>>
vars == <<loggerVars, loop, writer, closer, senders, historyVars>>

LinesOf(entries) == {e.line : e \in ToSet(entries)}

Settled == acked \cup reported
Alive == \A c \in Closers : closer[c] # "panicked"

Init ==
    /\ batch = <<>> /\ batchBytes = 0 /\ sendBatchWG = 0 /\ ticking = TRUE
    /\ loop = "select"
    /\ writer = [w \in Writers |-> "idle"]
    /\ closer = [c \in Closers |-> "idle"]
    /\ senders = {}
    /\ accepted = <<>> /\ rejected = {} /\ acked = {} /\ reported = {}
    /\ stored = {} /\ dups = {} /\ unsure = {}
    /\ owed = [c \in Closers |-> {}]

-----------------------------------------------------------------------------
(* Write and flush *)

MayWrite(w, r) ==
    /\ writer[w] = "idle"
    /\ r \notin ToSet(accepted) \cup rejected
    /\ SerialWrites => \A v \in Writers : writer[v] = "idle"

WriteRejected(w, r) ==
    /\ MayWrite(w, r) /\ r \in Malformed
    /\ rejected' = rejected \cup {r}
    /\ UNCHANGED <<loggerVars, loop, writer, closer, senders, accepted,
                   outcomeVars, streamVars, owed>>

(* Defective variant: the empty key counts as none. *)
KeyNotEmpty(key) == key \notin {NoKey, NumberKey, ""}

KeyIsString(key) == key \notin {NoKey, NumberKey}

(* The "partition_key" of the line is taken out of it and used if it is a       *)
(* string, the empty one included; if not, a random one is used.               *)
Entry(r) == [line |-> r, key |-> IF KeyIsString(PartitionKey[r])
                                   THEN PartitionKey[r] ELSE RandomKey]

Write(w, r) ==
    /\ MayWrite(w, r) /\ r \notin Malformed
    /\ batch' = Append(batch, Entry(r))
    /\ batchBytes' = batchBytes + Size[r]
    /\ accepted' = Append(accepted, r)
    /\ writer' = [writer EXCEPT ![w] =
                    IF \/ Len(batch') = maxBatchRecords
                       \/ batchBytes' > FlushBytes
                      THEN "flush" ELSE "idle"]
    /\ UNCHANGED <<sendBatchWG, ticking, loop, closer, senders, rejected,
                   outcomeVars, streamVars, owed>>

Flush ==
    /\ UNCHANGED <<ticking, historyVars>>
    /\ IF Len(batch) = 0
         THEN UNCHANGED <<batch, batchBytes, sendBatchWG, senders>>
         ELSE /\ batch' = <<>>
              /\ batchBytes' = 0
              /\ sendBatchWG' = sendBatchWG + 1
              /\ senders' = senders \cup
                   {[left |-> batch, tries |-> 0, pc |-> "check", late |-> FALSE]}

WriteFlush(w) ==
    /\ writer[w] = "flush"
    /\ writer' = [writer EXCEPT ![w] = "idle"]
    /\ Flush
    /\ UNCHANGED <<loop, closer>>

-----------------------------------------------------------------------------
(* The goroutine New starts, and Close *)

LoopTick ==
    /\ loop = "select" /\ ticking
    /\ loop' = "flush"
    /\ UNCHANGED <<loggerVars, writer, closer, senders, historyVars>>

LoopFlush ==
    /\ loop = "flush"
    /\ loop' = "select"
    /\ Flush
    /\ UNCHANGED <<writer, closer>>

CloseStop(c) ==
    /\ closer[c] = "idle"
    /\ ticking' = FALSE
    /\ closer' = [closer EXCEPT ![c] = "signal"]
    /\ owed' = [owed EXCEPT ![c] = ToSet(accepted)]
    /\ UNCHANGED <<batch, batchBytes, sendBatchWG, loop, writer, senders,
                   inputVars, outcomeVars, streamVars>>

CloseSignal(c) ==
    /\ closer[c] = "signal" /\ loop = "select"
    /\ loop' = "exited"
    /\ closer' = [closer EXCEPT ![c] = "flush"]
    /\ UNCHANGED <<loggerVars, writer, senders, historyVars>>

CloseFlush(c) ==
    /\ closer[c] = "flush"
    /\ closer' = [closer EXCEPT ![c] = "wait"]
    /\ Flush
    /\ UNCHANGED <<loop, writer>>

CloseWait(c) ==
    /\ \/ closer[c] = "wait" /\ closer' = [closer EXCEPT ![c] =
                                IF sendBatchWG = 0 THEN "done" ELSE "asleep"]
       \/ closer[c] = "woken" /\ closer' = [closer EXCEPT ![c] =
                                IF sendBatchWG = 0 THEN "done" ELSE "panicked"]
    /\ UNCHANGED <<loggerVars, loop, writer, senders, historyVars>>

-----------------------------------------------------------------------------
(* sendBatch *)

Become(s, t) == senders' = (senders \ {s}) \cup {t}

Done(s) ==
    /\ senders' = senders \ {s}
    /\ sendBatchWG' = sendBatchWG - 1
    /\ closer' = [c \in Closers |->
                    IF closer[c] = "asleep" /\ sendBatchWG = 1
                      THEN "woken" ELSE closer[c]]

Store(records) ==
    /\ stored' = stored \cup records
    /\ dups' = dups \cup (stored \cap records)

DeadlinePasses(s) ==
    /\ ~s.late
    /\ Become(s, [s EXCEPT !.late = TRUE])
    /\ UNCHANGED <<loggerVars, loop, writer, closer, historyVars>>

LoopCheck(s) ==
    /\ s.pc = "check"
    /\ Become(s, [s EXCEPT !.pc = IF s.late THEN "report" ELSE "put", !.tries = 0])
    /\ UNCHANGED <<loggerVars, loop, writer, closer, historyVars>>

(* An empty partition key fails the validation of the client, and with it the  *)
(* whole request, before anything is sent.                                     *)
Valid(entries) == \A e \in ToSet(entries) : e.key # ""

(* Defective variants: the entries are put in front; those with no ErrorCode    *)
(* are kept.                                                                   *)
InFront(i, j) == i > j
NotRefused(errorCode, i) == ~errorCode[i]

Appended(i, j) == i < j
Refused(errorCode, i) == errorCode[i]

(* for i, res := range result.Records: the entries at the positions that have  *)
(* an ErrorCode, in order.                                                     *)
Positions(entries, errorCode) ==
    LET refused == {i \in DOMAIN entries : Refused(errorCode, i)}
        count == Cardinality(refused)
    IN  CHOOSE at \in [1..count -> refused] :
            \A n, m \in 1..count : n < m => Appended(at[n], at[m])

NewBatch(entries, errorCode) ==
    LET at == Positions(entries, errorCode) IN [n \in DOMAIN at |-> entries[at[n]]]

PutResponse(s, errorCode) ==
    LET ok == {s.left[i].line : i \in {j \in DOMAIN s.left : ~errorCode[j]}} IN
    /\ s.pc = "put" /\ Valid(s.left)
    /\ Store(ok)
    /\ acked' = acked \cup ok
    /\ IF \A i \in DOMAIN s.left : ~errorCode[i]
         THEN Done(s)
         ELSE /\ Become(s, [s EXCEPT !.left = NewBatch(s.left, errorCode), !.pc = "check"])
              /\ UNCHANGED <<sendBatchWG, closer>>
    /\ UNCHANGED <<batch, batchBytes, ticking, loop, writer, inputVars, reported,
                   unsure, owed>>

PutRequestError(s, applied) ==
    /\ s.pc = "put" /\ Valid(s.left)
    /\ Store(applied)
    /\ unsure' = unsure \cup applied
    /\ Become(s, IF s.tries < MaxRetries THEN [s EXCEPT !.tries = @ + 1]
                                         ELSE [s EXCEPT !.pc = "report"])
    /\ UNCHANGED <<loggerVars, loop, writer, closer, inputVars, outcomeVars, owed>>

PutError(s) ==
    /\ s.pc = "put"
    /\ Become(s, [s EXCEPT !.pc = "report"])
    /\ UNCHANGED <<loggerVars, loop, writer, closer, historyVars>>

Report(s) ==
    /\ s.pc = "report"
    /\ reported' = reported \cup LinesOf(s.left)
    /\ Done(s)
    /\ UNCHANGED <<batch, batchBytes, ticking, loop, writer, inputVars, acked,
                   streamVars, owed>>

-----------------------------------------------------------------------------
Terminating ==
    /\ ToSet(accepted) \cup rejected = Records
    /\ senders = {} /\ loop = "exited"
    /\ \A w \in Writers : writer[w] = "idle"
    /\ \A c \in Closers : closer[c] = "done"
    /\ UNCHANGED vars

Stopped ==
    /\ ~Alive
    /\ UNCHANGED vars

Next ==
    \/ /\ Alive
       /\ \/ \E w \in Writers, r \in Records : Write(w, r) \/ WriteRejected(w, r)
          \/ \E w \in Writers : WriteFlush(w)
          \/ LoopTick
          \/ LoopFlush
          \/ \E c \in Closers : \/ CloseStop(c) \/ CloseSignal(c)
                                \/ CloseFlush(c) \/ CloseWait(c)
          \/ \E s \in senders :
               \/ DeadlinePasses(s) \/ LoopCheck(s)
               \/ \E errorCode \in [DOMAIN s.left -> BOOLEAN] : PutResponse(s, errorCode)
               \/ \E applied \in SUBSET LinesOf(s.left) : PutRequestError(s, applied)
               \/ PutError(s)
               \/ Report(s)
    \/ Terminating
    \/ Stopped

Spec == Init /\ [][Next]_vars

-----------------------------------------------------------------------------
(* Properties *)

Rank(r) == CHOOSE i \in DOMAIN accepted : accepted[i] = r

InOrder(entries) ==
    \A i, j \in DOMAIN entries : i < j => Rank(entries[i].line) < Rank(entries[j].line)

\* Every request, the first of a batch or one after partial failures, has its
\* records in the order in which Write accepted them, none of them twice.  (Write, flush, sendBatch)
RequestsInOrder == InOrder(batch) /\ \A s \in senders : InOrder(s.left)

\* A line that asks for an empty partition key takes with it every line of its
\* batch, however often the batch is retried: none of them is ever stored or
\* acknowledged.  (Write, sendBatch)
EmptyKeySinksItsBatch ==
    /\ \A r \in stored : PartitionKey[r] # ""
    /\ \A s \in senders :
         (\E r \in LinesOf(s.left) : PartitionKey[r] = "")
           => LinesOf(s.left) \cap (stored \cup unsure \cup Settled) = {}

Batches == INSTANCE BatchLogger WITH
    batch <- LinesOf(batch),
    senders <- {[s EXCEPT !.left = LinesOf(s.left)] : s \in senders},
    accepted <- ToSet(accepted)

\* With order, keys and positions left out, this is the Firehose logger: the
\* retry of a partial failure resends the records refused and no other.
ImplementsBatchLogger == Batches!Spec
==============================================================================
