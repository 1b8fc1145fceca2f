------------------------- MODULE KinesisLoggerProofs -------------------------
(* What holds of KinesisLogger for any lines, keys, writers, closers, limits   *)
(* and answers of the stream.                                                  *)
EXTENDS KinesisLogger, SequenceFacts

LEMMA ElementsOfSeq ==
    ASSUME NEW S, NEW q \in Seq(S)
    PROVE  \A i \in DOMAIN q : q[i] \in S
  OBVIOUS

(* Positions: the positions refused, all of them, each once and in order. *)
LEMMA PositionsAreSorted ==
    ASSUME NEW k \in Nat, NEW entries, DOMAIN entries = 1..k, NEW errorCode
    PROVE  LET at == Positions(entries, errorCode) IN
           \E count \in Nat :
               /\ DOMAIN at = 1..count
               /\ \A n \in DOMAIN at : at[n] \in 1..k /\ errorCode[at[n]]
               /\ \A n, m \in DOMAIN at : n < m => at[n] < at[m]
               /\ \A i \in 1..k : errorCode[i] => \E n \in DOMAIN at : at[n] = i
  <1> DEFINE refused == {i \in 1..k : errorCode[i]}
             at == Positions(entries, errorCode)
             count == Cardinality(refused)
  <1>1. IsFiniteSet(refused) /\ refused \in SUBSET (1..k) /\ count \in Nat
    <2>1. IsFiniteSet(1..k)
      BY FS_Interval
    <2>2. refused \in SUBSET (1..k)
      OBVIOUS
    <2> HIDE DEF refused
    <2> QED
      BY <2>1, <2>2, FS_Subset, FS_CardinalityType
  <1>2. at \in [1..count -> refused] /\ \A n, m \in 1..count : n < m => at[n] < at[m]
    <2>1. {i \in DOMAIN entries : Refused(errorCode, i)} = refused
      BY DEF Refused
    <2>2. at = CHOOSE f \in [1..count -> refused] :
                 \A n, m \in 1..count : n < m => Appended(f[n], f[m])
      BY <2>1 DEF Positions
    <2>3. \E f \in [1..count -> refused] :
            \A n, m \in 1..count : n < m => Appended(f[n], f[m])
      <3> HIDE DEF refused
      <3> QED
        BY <1>1, PositionsCanBeSorted DEF Appended
    <2> HIDE DEF refused, at
    <2> QED
      BY <2>2, <2>3 DEF Appended
  <1>3. at \in Injection(1..count, refused)
    <2> HIDE DEF refused, at
    <2>1. ASSUME NEW n \in 1..count, NEW m \in 1..count, at[n] = at[m] PROVE n = m
      <3>1. \A i \in refused : i \in Int
        BY DEF refused
      <3>2. n \in Int /\ m \in Int
        OBVIOUS
      <3>3. at[n] \in refused /\ at[m] \in refused
        BY <1>2
      <3>4. at[n] \in Int /\ at[m] \in Int
        BY <3>1, <3>3
      <3> QED
        BY <1>2, <2>1, <3>2, <3>4
    <2> QED
      BY <1>2, <2>1 DEF Injection, IsInjective
  <1>4. at \in Surjection(1..count, refused)
    <2>1. IsFiniteSet(1..count) /\ Cardinality(1..count) = count
      BY <1>1, FS_Interval
    <2> HIDE DEF refused, at
    <2> QED
      BY <1>1, <1>3, <2>1, FS_Injection
  <1>5. \A i \in refused : \E n \in 1..count : at[n] = i
    <2> HIDE DEF refused, at
    <2> QED
      BY <1>4 DEF Surjection
  <1> HIDE DEF refused, at
  <1>6. DOMAIN at = 1..count
    BY <1>2
  <1>7. \A i : i \in refused <=> i \in 1..k /\ errorCode[i]
    BY DEF refused
  <1>8. /\ DOMAIN at = 1..count /\ count \in Nat
        /\ \A n \in DOMAIN at : at[n] \in 1..k /\ errorCode[at[n]]
        /\ \A n, m \in DOMAIN at : n < m => at[n] < at[m]
        /\ \A i \in 1..k : errorCode[i] => \E n \in DOMAIN at : at[n] = i
    BY <1>1, <1>2, <1>5, <1>6, <1>7
  <1> HIDE DEF count
  <1> QED
    BY <1>8 DEF at

Entries == {Entry(r) : r \in Records}

(* The lines of the entries appear in seq, in the same order. *)
Follows(entries, seq) ==
    \A i, j \in DOMAIN entries : i < j =>
        \E k, l \in DOMAIN seq :
            k < l /\ seq[k] = entries[i].line /\ seq[l] = entries[j].line

NoneTwice(seq) == \A i, j \in DOMAIN seq : seq[i] = seq[j] => i = j

(* The next batch holds the entries refused, all of them and in order. *)
LEMMA NewBatchIsTheRefused ==
    ASSUME NEW S, NEW entries \in Seq(S), NEW errorCode
    PROVE  LET new == NewBatch(entries, errorCode) IN
           /\ new \in Seq(S)
           /\ \A n \in DOMAIN new : \E i \in DOMAIN entries : errorCode[i] /\ new[n] = entries[i]
           /\ \A i \in DOMAIN entries : errorCode[i] => \E n \in DOMAIN new : new[n] = entries[i]
           /\ \A n, m \in DOMAIN new : n < m =>
                \E i, j \in DOMAIN entries : i < j /\ new[n] = entries[i] /\ new[m] = entries[j]
  <1> DEFINE k == Len(entries)
             at == Positions(entries, errorCode)
             new == NewBatch(entries, errorCode)
  <1>1. k \in Nat /\ DOMAIN entries = 1..k /\ \A i \in 1..k : entries[i] \in S
    OBVIOUS
  <1>2. new = [n \in DOMAIN at |-> entries[at[n]]]
    BY DEF NewBatch
  <1> HIDE DEF k, at, new
  <1>3. PICK count \in Nat :
               /\ DOMAIN at = 1..count
               /\ \A n \in DOMAIN at : at[n] \in 1..k /\ errorCode[at[n]]
               /\ \A n, m \in DOMAIN at : n < m => at[n] < at[m]
               /\ \A i \in 1..k : errorCode[i] => \E n \in DOMAIN at : at[n] = i
    BY <1>1, PositionsAreSorted DEF at
  <1>4. /\ DOMAIN new = DOMAIN at
        /\ \A n \in DOMAIN at : new[n] = entries[at[n]] /\ at[n] \in DOMAIN entries
    BY <1>1, <1>2, <1>3
  <1>5. new \in Seq(S)
    <2>1. \A n \in 1..count : new[n] \in S
      BY <1>1, <1>3, <1>4
    <2>2. new = [n \in 1..count |-> new[n]]
      BY <1>2, <1>3
    <2>3. new \in [1..count -> S]
      BY <2>1, <2>2
    <2> QED
      BY <1>3, <2>3
  <1>6. \A n \in DOMAIN new : \E i \in DOMAIN entries : errorCode[i] /\ new[n] = entries[i]
    BY <1>3, <1>4
  <1>7. \A i \in DOMAIN entries : errorCode[i] => \E n \in DOMAIN new : new[n] = entries[i]
    BY <1>1, <1>3, <1>4
  <1>8. \A n, m \in DOMAIN new : n < m =>
           \E i, j \in DOMAIN entries : i < j /\ new[n] = entries[i] /\ new[m] = entries[j]
    BY <1>3, <1>4
  <1> QED
    BY <1>5, <1>6, <1>7, <1>8 DEF new

LEMMA NewBatchFollows ==
    ASSUME NEW S, NEW entries \in Seq(S), NEW errorCode, NEW seq, Follows(entries, seq)
    PROVE  Follows(NewBatch(entries, errorCode), seq)
  <1> DEFINE new == NewBatch(entries, errorCode)
  <1>1. \A n, m \in DOMAIN new : n < m =>
           \E i, j \in DOMAIN entries : i < j /\ new[n] = entries[i] /\ new[m] = entries[j]
    BY NewBatchIsTheRefused
  <1> HIDE DEF new
  <1>2. ASSUME NEW n \in DOMAIN new, NEW m \in DOMAIN new, n < m
        PROVE  \E k, l \in DOMAIN seq :
                 k < l /\ seq[k] = new[n].line /\ seq[l] = new[m].line
    <2>1. PICK i \in DOMAIN entries, j \in DOMAIN entries :
             i < j /\ new[n] = entries[i] /\ new[m] = entries[j]
      BY <1>1, <1>2
    <2> QED
      BY <2>1 DEF Follows
  <1>3. Follows(new, seq)
    BY <1>2 DEF Follows
  <1> QED
    BY <1>3 DEF new

LEMMA FollowsAppend ==
    ASSUME NEW S, NEW entries \in Seq(S), NEW T, NEW seq \in Seq(T), NEW e \in S,
           Follows(entries, seq), LinesOf(entries) \subseteq ToSet(seq)
    PROVE  Follows(Append(entries, e), Append(seq, e.line))
  <1> DEFINE es == Append(entries, e)
             sq == Append(seq, e.line)
             n == Len(entries)
             m == Len(seq)
  <1>1. /\ n \in Nat /\ m \in Nat
        /\ DOMAIN entries = 1..n /\ DOMAIN seq = 1..m
        /\ DOMAIN es = 1..(n + 1) /\ DOMAIN sq = 1..(m + 1)
        /\ es[n + 1] = e /\ sq[m + 1] = e.line
        /\ \A i \in 1..n : es[i] = entries[i]
        /\ \A i \in 1..m : sq[i] = seq[i]
    OBVIOUS
  <1> HIDE DEF es, sq, n, m
  <1>2. ASSUME NEW i \in DOMAIN es, NEW j \in DOMAIN es, i < j
        PROVE  \E k, l \in DOMAIN sq : k < l /\ sq[k] = es[i].line /\ sq[l] = es[j].line
    <2>0. i \in 1..(n + 1) /\ j \in 1..(n + 1)
      BY <1>1
    <2>1. i \in 1..n /\ es[i] = entries[i]
      BY <1>1, <1>2, <2>0
    <2>2. CASE j = n + 1
      <3>1. entries[i].line \in LinesOf(entries)
        BY <1>1, <2>1 DEF LinesOf, ToSet
      <3>2. PICK k \in 1..m : seq[k] = entries[i].line
        BY <1>1, <3>1 DEF ToSet
      <3>3. k \in 1..(m + 1) /\ m + 1 \in 1..(m + 1) /\ k < m + 1
        BY <1>1
      <3>4. k \in DOMAIN sq /\ m + 1 \in DOMAIN sq
        BY <1>1, <3>3
      <3> QED
        BY <1>1, <2>1, <2>2, <3>2, <3>3, <3>4
    <2>3. CASE j # n + 1
      <3>1. j \in 1..n /\ es[j] = entries[j]
        BY <1>1, <2>0, <2>3
      <3>2. PICK k \in 1..m, l \in 1..m :
              k < l /\ seq[k] = entries[i].line /\ seq[l] = entries[j].line
        <4>1. i \in DOMAIN entries /\ j \in DOMAIN entries
          BY <1>1, <2>1, <3>1
        <4>2. \E k, l \in DOMAIN seq :
                k < l /\ seq[k] = entries[i].line /\ seq[l] = entries[j].line
          BY <1>2, <4>1 DEF Follows
        <4> QED
          BY <1>1, <4>2
      <3>3. k \in DOMAIN sq /\ l \in DOMAIN sq
        <4>1. k \in 1..(m + 1) /\ l \in 1..(m + 1)
          BY <1>1
        <4> QED
          BY <1>1, <4>1
      <3> QED
        BY <1>1, <2>1, <3>1, <3>2, <3>3
    <2> QED
      BY <2>2, <2>3
  <1>3. Follows(es, sq)
    BY <1>2 DEF Follows
  <1> QED
    BY <1>3 DEF es, sq

LEMMA StillFollows ==
    ASSUME NEW entries, NEW T, NEW seq \in Seq(T), NEW r, Follows(entries, seq)
    PROVE  Follows(entries, Append(seq, r))
  <1>1. \A k \in DOMAIN seq : k \in DOMAIN Append(seq, r) /\ Append(seq, r)[k] = seq[k]
    OBVIOUS
  <1> QED
    BY <1>1 DEF Follows

LEMMA StillNoneTwice ==
    ASSUME NEW T, NEW seq \in Seq(T), NEW r, NoneTwice(seq), r \notin ToSet(seq)
    PROVE  NoneTwice(Append(seq, r))
  <1> DEFINE m == Len(seq)
             sq == Append(seq, r)
  <1>1. /\ m \in Nat /\ DOMAIN seq = 1..m /\ DOMAIN sq = 1..(m + 1)
        /\ sq[m + 1] = r /\ \A i \in 1..m : sq[i] = seq[i]
    OBVIOUS
  <1> HIDE DEF m, sq
  <1>2. \A i \in 1..(m + 1) : i \in 1..m \/ i = m + 1
    BY <1>1
  <1>3. \A i \in 1..m : seq[i] # r
    BY <1>1 DEF ToSet
  <1>4. NoneTwice(sq)
    BY <1>1, <1>2, <1>3 DEF NoneTwice
  <1> QED
    BY <1>4 DEF sq

LEMMA ToSetAppend ==
    ASSUME NEW T, NEW seq \in Seq(T), NEW r
    PROVE  ToSet(Append(seq, r)) = ToSet(seq) \cup {r}
  <1> DEFINE m == Len(seq)
             sq == Append(seq, r)
  <1>1. /\ m \in Nat /\ DOMAIN seq = 1..m /\ DOMAIN sq = 1..(m + 1)
        /\ sq[m + 1] = r /\ \A i \in 1..m : sq[i] = seq[i]
    OBVIOUS
  <1> HIDE DEF m, sq
  <1>2. \A i : i \in 1..(m + 1) <=> i \in 1..m \/ i = m + 1
    BY <1>1
  <1>3. ToSet(sq) = ToSet(seq) \cup {r}
    BY <1>1, <1>2 DEF ToSet
  <1> QED
    BY <1>3 DEF sq

LEMMA LinesOfAppend ==
    ASSUME NEW S, NEW entries \in Seq(S), NEW e
    PROVE  LinesOf(Append(entries, e)) = LinesOf(entries) \cup {e.line}
  BY ToSetAppend DEF LinesOf

-----------------------------------------------------------------------------
(* Where the lines are *)

SenderStates == [left : Seq(Entries), tries : Nat, pc : {"check", "put", "report"},
                 late : BOOLEAN]

Typed ==
    /\ batch \in Seq(Entries) /\ accepted \in Seq(Records)
    /\ \A s \in senders : s \in SenderStates

(* Every batch is a part of what was accepted, in order, and no two overlap. *)
Part(entries, seq) == Follows(entries, seq) /\ LinesOf(entries) \subseteq ToSet(seq)

Parts ==
    /\ NoneTwice(accepted)
    /\ Part(batch, accepted)
    /\ \A s \in senders : Part(s.left, accepted) /\ LinesOf(s.left) # {}
    /\ \A s \in senders : LinesOf(s.left) \cap LinesOf(batch) = {}
    /\ \A s, t \in senders : s # t => LinesOf(s.left) \cap LinesOf(t.left) = {}

Inv == Typed /\ Parts

LEMMA EntryOfLine ==
    /\ \A r : Entry(r).line = r
    /\ \A e \in Entries : e.line \in Records /\ e = Entry(e.line)
  BY DEF Entry, Entries

LEMMA NoLinesNoEntries ==
    ASSUME NEW S, NEW entries \in Seq(S)
    PROVE  LinesOf(entries) = {} <=> Len(entries) = 0
  <1>1. CASE Len(entries) = 0
    BY <1>1 DEF LinesOf, ToSet
  <1>2. CASE Len(entries) # 0
    <2>1. 1 \in DOMAIN entries
      BY <1>2
    <2> QED
      BY <1>2, <2>1 DEF LinesOf, ToSet
  <1> QED
    BY <1>1, <1>2

(* What the actions do to the lines in flight: a line is appended to the       *)
(* batch, ...                                                                  *)
LEMMA InvOnAppend ==
    ASSUME Inv, NEW r \in Records, r \notin ToSet(accepted),
           batch' = Append(batch, Entry(r)), accepted' = Append(accepted, r),
           UNCHANGED senders
    PROVE  Inv'
  <1>1. Entry(r) \in Entries /\ Entry(r).line = r
    BY EntryOfLine DEF Entries
  <1>2. Typed'
    BY <1>1 DEF Inv, Typed
  <1>3. NoneTwice(accepted')
    BY StillNoneTwice DEF Inv, Typed, Parts
  <1>4. ToSet(accepted') = ToSet(accepted) \cup {r}
    BY ToSetAppend DEF Inv, Typed
  <1>5. LinesOf(batch') = LinesOf(batch) \cup {r}
    BY <1>1, LinesOfAppend DEF Inv, Typed
  <1>6. Part(batch', accepted')
    <2>1. Follows(batch', accepted')
      BY <1>1, FollowsAppend DEF Inv, Typed, Parts, Part
    <2> QED
      BY <1>4, <1>5, <2>1 DEF Inv, Parts, Part
  <1>7. ASSUME NEW s \in senders PROVE Part(s.left, accepted')
    BY <1>4, StillFollows DEF Inv, Typed, Parts, Part
  <1>8. ASSUME NEW s \in senders PROVE r \notin LinesOf(s.left)
    BY DEF Inv, Parts, Part
  <1> QED
    BY <1>2, <1>3, <1>5, <1>6, <1>7, <1>8 DEF Inv, Parts

(* ... the batch becomes a sender's, ... *)
LEMMA InvOnFlush ==
    ASSUME Inv, Flush
    PROVE  Inv'
  <1>1. accepted' = accepted
    BY DEF Flush, historyVars, inputVars
  <1>2. CASE Len(batch) = 0
    <2>1. UNCHANGED <<batch, senders>>
      BY <1>2 DEF Flush
    <2> QED
      BY <1>1, <2>1 DEF Inv, Typed, Parts
  <1>3. CASE Len(batch) # 0
    <2> DEFINE new == [left |-> batch, tries |-> 0, pc |-> "check", late |-> FALSE]
    <2>1. batch' = <<>> /\ senders' = senders \cup {new}
      BY <1>3 DEF Flush
    <2>2. new \in SenderStates /\ new.left = batch
      BY DEF Inv, Typed, SenderStates
    <2>3. LinesOf(batch') = {} /\ Part(batch', accepted) /\ batch' \in Seq(Entries)
      BY <2>1 DEF LinesOf, ToSet, Part, Follows
    <2>4. LinesOf(batch) # {}
      BY <1>3, NoLinesNoEntries DEF Inv, Typed
    <2> HIDE DEF new
    <2>5. Typed'
      BY <1>1, <2>1, <2>2, <2>3 DEF Inv, Typed
    <2> QED
      BY <1>1, <2>1, <2>2, <2>3, <2>4, <2>5 DEF Inv, Parts
  <1> QED
    BY <1>2, <1>3

(* ... a sender goes on with some of its lines, ... *)
LEMMA InvOnBecome ==
    ASSUME Inv, NEW s \in senders, NEW t \in SenderStates, Become(s, t),
           Follows(t.left, accepted), LinesOf(t.left) # {},
           LinesOf(t.left) \subseteq LinesOf(s.left),
           UNCHANGED <<batch, accepted>>
    PROVE  Inv'
  <1>1. senders' = (senders \ {s}) \cup {t}
    BY DEF Become
  <1>2. Typed'
    BY <1>1 DEF Inv, Typed
  <1>3. Part(t.left, accepted)
    BY DEF Inv, Parts, Part
  <1> QED
    BY <1>1, <1>2, <1>3 DEF Inv, Parts

(* ... or is done. *)
LEMMA InvOnDone ==
    ASSUME Inv, NEW s \in senders, Done(s), UNCHANGED <<batch, accepted>>
    PROVE  Inv'
  BY DEF Inv, Typed, Parts, Done

LEMMA SendersAreParts ==
    ASSUME Inv, NEW s \in senders
    PROVE  /\ s \in SenderStates /\ s.left \in Seq(Entries)
           /\ Follows(s.left, accepted) /\ LinesOf(s.left) # {}
  BY DEF Inv, Typed, Parts, Part, SenderStates

LEMMA RetryIsAPart ==
    ASSUME Inv, NEW s \in senders, NEW errorCode, NEW i \in DOMAIN s.left, errorCode[i]
    PROVE  LET t == [s EXCEPT !.left = NewBatch(s.left, errorCode), !.pc = "check"] IN
           /\ t \in SenderStates /\ Follows(t.left, accepted)
           /\ LinesOf(t.left) # {} /\ LinesOf(t.left) \subseteq LinesOf(s.left)
  <1> DEFINE new == NewBatch(s.left, errorCode)
             t == [s EXCEPT !.left = new, !.pc = "check"]
  <1>1. s \in SenderStates /\ s.left \in Seq(Entries) /\ Follows(s.left, accepted)
    BY SendersAreParts
  <1>2. /\ new \in Seq(Entries)
        /\ \A n \in DOMAIN new : \E j \in DOMAIN s.left : new[n] = s.left[j]
        /\ \E n \in DOMAIN new : new[n] = s.left[i]
    BY <1>1, NewBatchIsTheRefused
  <1>3. Follows(new, accepted)
    BY <1>1, NewBatchFollows
  <1>4. LinesOf(new) # {} /\ LinesOf(new) \subseteq LinesOf(s.left)
    <2> HIDE DEF new
    <2> QED
      BY <1>2 DEF LinesOf, ToSet
  <1>5. t \in SenderStates /\ t.left = new
    <2> HIDE DEF new
    <2> QED
      BY <1>1, <1>2 DEF SenderStates
  <1> HIDE DEF new
  <1>6. /\ t \in SenderStates /\ Follows(t.left, accepted)
        /\ LinesOf(t.left) # {} /\ LinesOf(t.left) \subseteq LinesOf(s.left)
    BY <1>3, <1>4, <1>5
  <1> QED
    BY <1>6 DEF new

(* The steps of a sender that leave it all of its lines. *)
LEMMA SameLinesLeft ==
    ASSUME Inv, NEW s \in senders,
           \/ DeadlinePasses(s) \/ LoopCheck(s) \/ PutError(s)
           \/ \E applied : PutRequestError(s, applied)
    PROVE  \E t \in SenderStates : t.left = s.left /\ Become(s, t)
  <1>1. s \in SenderStates /\ s.tries + 1 \in Nat
    BY SendersAreParts DEF SenderStates
  <1> DEFINE Same(t) == t \in SenderStates /\ t.left = s.left
  <1>2. Same([s EXCEPT !.late = TRUE]) /\ Same([s EXCEPT !.tries = @ + 1])
    BY <1>1 DEF SenderStates
  <1>3. \A pc \in {"put", "report"} :
           Same([s EXCEPT !.pc = pc, !.tries = 0]) /\ Same([s EXCEPT !.pc = pc])
    BY <1>1 DEF SenderStates
  <1> HIDE DEF Same
  <1>4. \E t : Same(t) /\ Become(s, t)
    BY <1>2, <1>3 DEF DeadlinePasses, LoopCheck, PutError, PutRequestError
  <1> QED
    BY <1>4 DEF Same

LEMMA InvStep == Inv /\ [Next]_vars => Inv'
  <1> USE DEF vars, loggerVars, inputVars, outcomeVars, streamVars, historyVars
  <1> SUFFICES ASSUME Inv, [Next]_vars PROVE Inv'
    OBVIOUS
  <1>a. ASSUME UNCHANGED <<batch, senders, accepted>> PROVE Inv'
    BY <1>a DEF Inv, Typed, Parts
  <1>1. ASSUME NEW w \in Writers, NEW r \in Records, Write(w, r) PROVE Inv'
    BY <1>1, InvOnAppend DEF Write, MayWrite
  <1>2. ASSUME NEW w \in Writers, NEW r \in Records, WriteRejected(w, r) PROVE Inv'
    BY <1>2, <1>a DEF WriteRejected
  <1>3. ASSUME Flush PROVE Inv'
    BY <1>3, InvOnFlush
  <1>4. CASE LoopTick
    BY <1>4, <1>a DEF LoopTick
  <1>5. ASSUME NEW c \in Closers, CloseStop(c) \/ CloseSignal(c) \/ CloseWait(c) PROVE Inv'
    BY <1>5, <1>a DEF CloseStop, CloseSignal, CloseWait
  <1>6. ASSUME NEW s \in senders, Report(s) PROVE Inv'
    BY <1>6, InvOnDone DEF Report
  <1>7. ASSUME NEW s \in senders,
               \/ DeadlinePasses(s) \/ LoopCheck(s) \/ PutError(s)
               \/ \E applied : PutRequestError(s, applied)
        PROVE  Inv'
    <2>1. PICK t \in SenderStates : t.left = s.left /\ Become(s, t)
      BY <1>7, SameLinesLeft
    <2>2. UNCHANGED <<batch, accepted>>
      BY <1>7 DEF DeadlinePasses, LoopCheck, PutError, PutRequestError
    <2> QED
      BY <2>1, <2>2, SendersAreParts, InvOnBecome
  <1>10. ASSUME NEW s \in senders, NEW errorCode, PutResponse(s, errorCode) PROVE Inv'
    <2>1. UNCHANGED <<batch, accepted>>
      BY <1>10 DEF PutResponse
    <2>2. CASE \A i \in DOMAIN s.left : ~errorCode[i]
      BY <1>10, <2>1, <2>2, InvOnDone DEF PutResponse
    <2>3. ASSUME NEW i \in DOMAIN s.left, errorCode[i] PROVE Inv'
      <3>1. Become(s, [s EXCEPT !.left = NewBatch(s.left, errorCode), !.pc = "check"])
        BY <1>10, <2>3 DEF PutResponse
      <3> QED
        BY <2>1, <2>3, <3>1, RetryIsAPart, InvOnBecome
    <2> QED
      BY <2>2, <2>3
  <1>11. CASE UNCHANGED vars
    BY <1>11, <1>a
  <1> QED
    BY <1>1, <1>2, <1>3, <1>4, <1>5, <1>6, <1>7, <1>10, <1>11
    DEF Next, WriteFlush, LoopFlush, CloseFlush, Terminating, Stopped

LEMMA Invariant == Spec => []Inv
  <1>1. Init => Inv
    BY DEF Init, Inv, Typed, Parts, Part, NoneTwice, Follows, LinesOf, ToSet
  <1> QED
    BY <1>1, InvStep, PTL DEF Spec

-----------------------------------------------------------------------------
(* Order *)

LEMMA FollowsIsInOrder ==
    ASSUME NEW T, accepted \in Seq(T), NoneTwice(accepted),
           NEW entries, Follows(entries, accepted)
    PROVE  InOrder(entries)
  <1>1. ASSUME NEW k \in DOMAIN accepted PROVE Rank(accepted[k]) = k
    BY <1>1 DEF Rank, NoneTwice
  <1>2. ASSUME NEW i \in DOMAIN entries, NEW j \in DOMAIN entries, i < j
        PROVE  Rank(entries[i].line) < Rank(entries[j].line)
    <2>1. PICK k \in DOMAIN accepted, l \in DOMAIN accepted :
            k < l /\ accepted[k] = entries[i].line /\ accepted[l] = entries[j].line
      BY <1>2 DEF Follows
    <2>2. Rank(accepted[k]) = k /\ Rank(accepted[l]) = l
      BY <1>1
    <2> QED
      BY <2>1, <2>2
  <1> QED
    BY <1>2 DEF InOrder

(* Every request, first or retried, has its records in the order in which Write *)
(* accepted them and none twice, for any answers and any interleaving.         *)
THEOREM RequestsKeepTheOrder == Spec => []RequestsInOrder
  <1>1. Inv => RequestsInOrder
    BY FollowsIsInOrder DEF Inv, Typed, Parts, Part, RequestsInOrder
  <1> QED
    BY <1>1, Invariant, PTL

-----------------------------------------------------------------------------
(* Partition keys *)

Touched == stored \cup unsure \cup Settled

(* What the stream or the error log knows of was accepted and has left the      *)
(* batch; without that a doomed batch could start with a stored line.          *)
KeysTrue ==
    /\ Touched \subseteq ToSet(accepted)
    /\ LinesOf(batch) \cap Touched = {}
    /\ EmptyKeySinksItsBatch

Doomed(s) == \E r \in LinesOf(s.left) : PartitionKey[r] = ""

LEMMA ValidIsNotDoomed ==
    ASSUME Inv, NEW s \in senders, Valid(s.left)
    PROVE  \A r \in LinesOf(s.left) : PartitionKey[r] # ""
  <1> SUFFICES ASSUME NEW e \in ToSet(s.left), PartitionKey[e.line] = "" PROVE FALSE
    BY DEF LinesOf
  <1>1. e \in Entries
    <2>1. s.left \in Seq(Entries)
      BY SendersAreParts
    <2>2. \A i \in DOMAIN s.left : s.left[i] \in Entries
      BY <2>1, ElementsOfSeq
    <2> QED
      BY <2>2 DEF ToSet
  <1>2. e = Entry(e.line)
    BY <1>1, EntryOfLine
  <1>3. Entry(e.line).key = ""
    BY KeysAssumption DEF Entry, KeyIsString
  <1>4. e.key = ""
    BY <1>2, <1>3
  <1> QED
    BY <1>4 DEF Valid

LEMMA KeysOnTouch ==
    ASSUME Inv, KeysTrue, NEW s \in senders, NEW R \in SUBSET LinesOf(s.left),
           UNCHANGED <<batch, accepted>>,
           Touched' \subseteq Touched \cup R, stored' \subseteq stored \cup R,
           \A t \in senders' : \/ t \in senders \ {s}
                               \/ LinesOf(t.left) \subseteq LinesOf(s.left),
           \/ R = {} \/ ~Doomed(s)
           \/ \A t \in senders' : t \in senders \ {s},
           stored' # stored => ~Doomed(s)
    PROVE  KeysTrue'
  <1>1. LinesOf(s.left) \subseteq ToSet(accepted) /\ LinesOf(s.left) \cap LinesOf(batch) = {}
    BY DEF Inv, Parts, Part
  <1>2. Touched' \subseteq ToSet(accepted')
    BY <1>1 DEF KeysTrue
  <1>3. LinesOf(batch') \cap Touched' = {}
    BY <1>1 DEF KeysTrue
  <1>4. ASSUME NEW r \in stored' PROVE PartitionKey[r] # ""
    BY <1>4 DEF KeysTrue, EmptyKeySinksItsBatch, Doomed
  <1>5. ASSUME NEW t \in senders', Doomed(t) PROVE LinesOf(t.left) \cap Touched' = {}
    <2>1. CASE t \in senders \ {s}
      <3>1. LinesOf(t.left) \cap Touched = {}
        BY <1>5, <2>1 DEF KeysTrue, EmptyKeySinksItsBatch, Doomed, Touched
      <3>2. LinesOf(t.left) \cap LinesOf(s.left) = {}
        BY <2>1 DEF Inv, Parts
      <3> QED
        BY <3>1, <3>2
    <2>2. CASE t \notin senders \ {s}
      <3>1. Doomed(s)
        BY <1>5, <2>2 DEF Doomed
      <3>2. R = {} /\ LinesOf(s.left) \cap Touched = {}
        BY <2>2, <3>1 DEF KeysTrue, EmptyKeySinksItsBatch, Doomed, Touched
      <3> QED
        BY <2>2, <3>2
    <2> QED
      BY <2>1, <2>2
  <1> QED
    BY <1>2, <1>3, <1>4, <1>5 DEF KeysTrue, EmptyKeySinksItsBatch, Doomed, Touched

LEMMA KeysOnFlush ==
    ASSUME Inv, KeysTrue, Flush
    PROVE  KeysTrue'
  <1>1. UNCHANGED <<accepted, stored, unsure, acked, reported>>
    BY DEF Flush, historyVars, inputVars, outcomeVars, streamVars
  <1>2. CASE Len(batch) = 0
    <2>1. UNCHANGED <<batch, senders>>
      BY <1>2 DEF Flush
    <2> QED
      BY <1>1, <2>1 DEF KeysTrue, EmptyKeySinksItsBatch, Touched, Settled
  <1>3. CASE Len(batch) # 0
    <2> DEFINE t == [left |-> batch, tries |-> 0, pc |-> "check", late |-> FALSE]
    <2>1. batch' = <<>> /\ senders' = senders \cup {t} /\ t.left = batch
      BY <1>3 DEF Flush
    <2>2. LinesOf(batch') = {}
      BY <2>1 DEF LinesOf, ToSet
    <2> HIDE DEF t
    <2> QED
      BY <1>1, <2>1, <2>2 DEF KeysTrue, EmptyKeySinksItsBatch, Touched, Settled
  <1> QED
    BY <1>2, <1>3

LEMMA KeysStep == Inv /\ KeysTrue /\ [Next]_vars => KeysTrue'
  <1> USE DEF vars, loggerVars, inputVars, outcomeVars, streamVars, historyVars
  <1> SUFFICES ASSUME Inv, KeysTrue, [Next]_vars PROVE KeysTrue'
    OBVIOUS
  <1>a. ASSUME UNCHANGED <<batch, senders, accepted, stored, unsure, acked, reported>>
        PROVE  KeysTrue'
    BY <1>a DEF KeysTrue, EmptyKeySinksItsBatch, Touched, Settled
  <1>1. ASSUME NEW w \in Writers, NEW r \in Records, Write(w, r) PROVE KeysTrue'
    <2>1. /\ batch' = Append(batch, Entry(r)) /\ accepted' = Append(accepted, r)
          /\ r \notin ToSet(accepted)
          /\ UNCHANGED <<senders, stored, unsure, acked, reported>>
      BY <1>1 DEF Write, MayWrite
    <2>2. /\ LinesOf(batch') = LinesOf(batch) \cup {r}
          /\ ToSet(accepted') = ToSet(accepted) \cup {r}
      BY <2>1, EntryOfLine, LinesOfAppend, ToSetAppend DEF Inv, Typed
    <2> QED
      BY <2>1, <2>2 DEF KeysTrue, EmptyKeySinksItsBatch, Touched, Settled
  <1>2. ASSUME NEW w \in Writers, NEW r \in Records, WriteRejected(w, r) PROVE KeysTrue'
    BY <1>2, <1>a DEF WriteRejected
  <1>3. ASSUME Flush PROVE KeysTrue'
    BY <1>3, KeysOnFlush
  <1>4. CASE LoopTick
    BY <1>4, <1>a DEF LoopTick
  <1>5. ASSUME NEW c \in Closers, CloseStop(c) \/ CloseSignal(c) \/ CloseWait(c)
        PROVE  KeysTrue'
    BY <1>5, <1>a DEF CloseStop, CloseSignal, CloseWait
  <1>6. ASSUME NEW s \in senders, DeadlinePasses(s) \/ LoopCheck(s) \/ PutError(s)
        PROVE  KeysTrue'
    <2>1. PICK t : t.left = s.left /\ senders' = (senders \ {s}) \cup {t}
      BY <1>6, SameLinesLeft DEF Become
    <2>2. UNCHANGED <<batch, accepted, stored, unsure, acked, reported>>
      BY <1>6 DEF DeadlinePasses, LoopCheck, PutError
    <2>3. UNCHANGED Touched
      BY <2>2 DEF Touched, Settled
    <2>4. {} \in SUBSET LinesOf(s.left)
      OBVIOUS
    <2> QED
      BY <2>1, <2>2, <2>3, <2>4, KeysOnTouch
  <1>7. ASSUME NEW s \in senders, NEW applied \in SUBSET LinesOf(s.left),
               PutRequestError(s, applied)
        PROVE  KeysTrue'
    <2>1. PICK t : t.left = s.left /\ senders' = (senders \ {s}) \cup {t}
      BY <1>7, SameLinesLeft DEF Become
    <2>2. /\ UNCHANGED <<batch, accepted, acked, reported>>
          /\ stored' = stored \cup applied /\ unsure' = unsure \cup applied
      BY <1>7 DEF PutRequestError, Store
    <2>3. Touched' \subseteq Touched \cup applied
      BY <2>2 DEF Touched, Settled
    <2>4. ~Doomed(s)
      BY <1>7, ValidIsNotDoomed DEF PutRequestError, Doomed
    <2> QED
      BY <2>1, <2>2, <2>3, <2>4, KeysOnTouch
  <1>8. ASSUME NEW s \in senders, NEW errorCode, PutResponse(s, errorCode) PROVE KeysTrue'
    <2> DEFINE ok == {s.left[i].line : i \in {j \in DOMAIN s.left : ~errorCode[j]}}
    <2>1. /\ UNCHANGED <<batch, accepted, unsure, reported>>
          /\ stored' = stored \cup ok /\ acked' = acked \cup ok
      BY <1>8 DEF PutResponse, Store
    <2>2. ok \subseteq LinesOf(s.left)
      BY DEF LinesOf, ToSet
    <2> HIDE DEF ok
    <2>3. Touched' \subseteq Touched \cup ok
      BY <2>1 DEF Touched, Settled
    <2>4. ~Doomed(s)
      BY <1>8, ValidIsNotDoomed DEF PutResponse, Doomed
    <2>5. ASSUME NEW t \in senders'
          PROVE  t \in senders \ {s} \/ LinesOf(t.left) \subseteq LinesOf(s.left)
      <3>1. CASE \A i \in DOMAIN s.left : ~errorCode[i]
        BY <1>8, <3>1 DEF PutResponse, Done
      <3>2. ASSUME NEW i \in DOMAIN s.left, errorCode[i]
            PROVE  t \in senders \ {s} \/ LinesOf(t.left) \subseteq LinesOf(s.left)
        <4> DEFINE next == [s EXCEPT !.left = NewBatch(s.left, errorCode), !.pc = "check"]
        <4>1. senders' = (senders \ {s}) \cup {next}
          BY <1>8, <3>2 DEF PutResponse, Become
        <4>2. LinesOf(next.left) \subseteq LinesOf(s.left)
          BY <3>2, RetryIsAPart
        <4> HIDE DEF next
        <4> QED
          BY <4>1, <4>2
      <3> QED
        BY <3>1, <3>2
    <2> QED
      BY <2>1, <2>2, <2>3, <2>4, <2>5, KeysOnTouch
  <1>9. ASSUME NEW s \in senders, Report(s) PROVE KeysTrue'
    <2>1. /\ UNCHANGED <<batch, accepted, stored, unsure, acked>>
          /\ senders' = senders \ {s} /\ reported' = reported \cup LinesOf(s.left)
      BY <1>9 DEF Report, Done
    <2>2. Touched' \subseteq Touched \cup LinesOf(s.left)
      BY <2>1 DEF Touched, Settled
    <2>3. LinesOf(s.left) \in SUBSET LinesOf(s.left)
      OBVIOUS
    <2> QED
      BY <2>1, <2>2, <2>3, KeysOnTouch
  <1>10. CASE UNCHANGED vars
    BY <1>10, <1>a
  <1> QED
    BY <1>1, <1>2, <1>3, <1>4, <1>5, <1>6, <1>7, <1>8, <1>9, <1>10
    DEF Next, WriteFlush, LoopFlush, CloseFlush, Terminating, Stopped

(* An empty partition key fails its batch whole, however the batch is retried:  *)
(* no line of it is ever stored or acknowledged, and no stored line asked for   *)
(* the empty key.                                                              *)
THEOREM EmptyKeysSink == Spec => []EmptyKeySinksItsBatch
  <1>1. Init => KeysTrue
    BY DEF Init, KeysTrue, EmptyKeySinksItsBatch, Touched, Settled, LinesOf, ToSet
  <1>2. KeysTrue => EmptyKeySinksItsBatch
    BY DEF KeysTrue
  <1> QED
    BY <1>1, <1>2, KeysStep, Invariant, PTL DEF Spec

-----------------------------------------------------------------------------
(* With order, keys and positions left out, this is the Firehose logger        *)

Abs(s) == [s EXCEPT !.left = LinesOf(s.left)]
AbsSenders == {Abs(s) : s \in senders}

LEMMA AbsFields ==
    ASSUME NEW s \in SenderStates
    PROVE  /\ Abs(s).left = LinesOf(s.left) /\ Abs(s).tries = s.tries
           /\ Abs(s).pc = s.pc /\ Abs(s).late = s.late
  BY DEF Abs, SenderStates

(* Since no two senders have a line in common, none are confused by Abs, *)
LEMMA AbsIsInjective ==
    ASSUME Inv, NEW s \in senders, NEW t \in senders, Abs(s) = Abs(t)
    PROVE  s = t
  <1>1. LinesOf(s.left) = LinesOf(t.left)
    BY SendersAreParts, AbsFields
  <1> QED
    BY <1>1 DEF Inv, Parts

(* and a step of one of them is a step of its image. *)
LEMMA AbsBecome ==
    ASSUME Inv, NEW s \in senders, NEW t, Become(s, t)
    PROVE  AbsSenders' = (AbsSenders \ {Abs(s)}) \cup {Abs(t)}
  BY AbsIsInjective DEF Become, AbsSenders

LEMMA AbsDone ==
    ASSUME Inv, NEW s \in senders, senders' = senders \ {s}
    PROVE  AbsSenders' = AbsSenders \ {Abs(s)}
  BY AbsIsInjective DEF AbsSenders

LEMMA FollowsIsInjective ==
    ASSUME NEW seq, NoneTwice(seq), DOMAIN seq \subseteq Int, NEW S, NEW entries \in Seq(S),
           Follows(entries, seq)
    PROVE  \A i, j \in DOMAIN entries : entries[i].line = entries[j].line => i = j
  <1>1. ASSUME NEW i \in DOMAIN entries, NEW j \in DOMAIN entries, i < j
        PROVE  entries[i].line # entries[j].line
    <2>1. PICK k \in DOMAIN seq, l \in DOMAIN seq :
            k < l /\ seq[k] = entries[i].line /\ seq[l] = entries[j].line
      BY <1>1 DEF Follows
    <2>2. k # l
      BY <2>1
    <2> QED
      BY <2>1, <2>2 DEF NoneTwice
  <1>2. \A i, j \in DOMAIN entries : i < j \/ j < i \/ i = j
    OBVIOUS
  <1> QED
    BY <1>1, <1>2

(* The set of lines is as large as the batch. *)
LEMMA LinesAreCounted ==
    ASSUME NEW S, NEW entries \in Seq(S),
           \A i, j \in DOMAIN entries : entries[i].line = entries[j].line => i = j
    PROVE  Cardinality(LinesOf(entries)) = Len(entries)
  <1> DEFINE n == Len(entries)
             f == [i \in 1..n |-> entries[i].line]
             R == LinesOf(entries)
  <1>1. n \in Nat /\ DOMAIN entries = 1..n
    OBVIOUS
  <1>2. \A r : r \in R <=> \E i \in 1..n : r = entries[i].line
    BY <1>1 DEF LinesOf, ToSet
  <1>3. \A i \in 1..n : f[i] = entries[i].line
    OBVIOUS
  <1> HIDE DEF n, R
  <1>4. f \in [1..n -> R]
    BY <1>2
  <1>5. \A i, j \in 1..n : f[i] = f[j] => i = j
    BY <1>1, <1>3
  <1>6. \A r \in R : \E i \in 1..n : f[i] = r
    BY <1>2, <1>3
  <1> HIDE DEF f
  <1>7. f \in Bijection(1..n, R)
    BY <1>4, <1>5, <1>6 DEF Bijection, Injection, Surjection, IsInjective
  <1>8. Cardinality(R) = n
    BY <1>1, <1>7, FS_CountingElements DEF ExistsBijection
  <1> QED
    BY <1>8 DEF n, R

AbsStates == [left : SUBSET Records, tries : Nat, pc : {"check", "put", "report"},
              late : BOOLEAN]

LEMMA SameFieldsSameState ==
    ASSUME NEW s \in AbsStates, NEW t \in AbsStates,
           s.left = t.left, s.tries = t.tries, s.pc = t.pc, s.late = t.late
    PROVE  s = t
  <1> DEFINE D == {"left", "tries", "pc", "late"}
  <1>1. \A x \in D : s[x] = t[x]
    OBVIOUS
  <1>2. s = [x \in D |-> s[x]] /\ t = [x \in D |-> t[x]]
    BY DEF AbsStates
  <1> HIDE DEF D
  <1> QED
    BY <1>1, <1>2

LEMMA AbsType == ASSUME NEW s \in SenderStates PROVE Abs(s) \in AbsStates
  <1>1. LinesOf(s.left) \subseteq Records
    <2>1. s.left \in Seq(Entries)
      BY DEF SenderStates
    <2>2. \A i \in DOMAIN s.left : s.left[i] \in Entries
      BY <2>1, ElementsOfSeq
    <2> QED
      BY <2>2, EntryOfLine DEF LinesOf, ToSet
  <1> DEFINE lines == LinesOf(s.left)
  <1> HIDE DEF lines
  <1>2. [s EXCEPT !.left = lines] \in AbsStates
    BY <1>1 DEF SenderStates, AbsStates, lines
  <1> QED
    BY <1>2 DEF Abs, lines

LEMMA AbsIs ==
    ASSUME NEW s \in SenderStates, NEW u \in AbsStates,
           u.left = LinesOf(s.left), u.tries = s.tries, u.pc = s.pc, u.late = s.late
    PROVE  Abs(s) = u
  BY AbsType, AbsFields, SameFieldsSameState

LEMMA AbsNewSender ==
    ASSUME NEW s \in SenderStates, s.tries = 0, s.pc = "check", s.late = FALSE
    PROVE  Abs(s) = Batches!NewSender(LinesOf(s.left))
  <1> DEFINE new == Batches!NewSender(LinesOf(s.left))
  <1>1. Abs(s) \in AbsStates /\ Abs(s).left \in SUBSET Records
    BY AbsType DEF AbsStates
  <1>2. /\ new \in AbsStates
        /\ new.left = LinesOf(s.left) /\ new.tries = 0 /\ new.pc = "check" /\ new.late = FALSE
    BY <1>1, AbsFields DEF AbsStates, Batches!NewSender
  <1> HIDE DEF new
  <1>3. Abs(s) = new
    BY <1>2, AbsIs
  <1> QED
    BY <1>3 DEF new

LEMMA BatchesInit == Init => Batches!Init
  BY DEF Init, Batches!Init, LinesOf, ToSet

LEMMA BatchesFlush ==
    ASSUME Inv, Flush
    PROVE  Batches!Flush
  <1>1. UNCHANGED <<ticking, historyVars>>
    BY DEF Flush
  <1>2. CASE Len(batch) = 0
    <2>1. UNCHANGED <<batch, batchBytes, sendBatchWG, senders>>
      BY <1>2 DEF Flush
    <2>2. LinesOf(batch) = {}
      BY <1>2, NoLinesNoEntries DEF Inv, Typed
    <2> QED
      BY <1>1, <2>1, <2>2 DEF Batches!Flush, historyVars, Batches!historyVars,
         inputVars, outcomeVars, streamVars, Batches!inputVars, Batches!outcomeVars,
         Batches!streamVars
  <1>3. CASE Len(batch) # 0
    <2> DEFINE new == [left |-> batch, tries |-> 0, pc |-> "check", late |-> FALSE]
    <2>1. /\ batch' = <<>> /\ batchBytes' = 0 /\ sendBatchWG' = sendBatchWG + 1
          /\ senders' = senders \cup {new}
      BY <1>3 DEF Flush
    <2>2. Abs(new) = Batches!NewSender(LinesOf(batch))
      <3>1. new \in SenderStates
        BY DEF SenderStates, Inv, Typed
      <3>2. new.left = batch /\ new.tries = 0 /\ new.pc = "check" /\ new.late = FALSE
        OBVIOUS
      <3> HIDE DEF new
      <3> QED
        BY <3>1, <3>2, AbsNewSender
    <2>3. LinesOf(batch)' = {} /\ LinesOf(batch) # {}
      <3>1. LinesOf(batch)' = {}
        BY <2>1 DEF LinesOf, ToSet
      <3> QED
        BY <1>3, <3>1, NoLinesNoEntries DEF Inv, Typed
    <2> HIDE DEF new
    <2>4. AbsSenders' = AbsSenders \cup {Abs(new)}
      BY <2>1 DEF AbsSenders
    <2> QED
      BY <1>1, <2>1, <2>2, <2>3, <2>4 DEF Batches!Flush, Batches!BatchEmptied,
         Batches!BytesReset, AbsSenders, Abs, historyVars, Batches!historyVars,
         inputVars, outcomeVars, streamVars, Batches!inputVars, Batches!outcomeVars,
         Batches!streamVars
  <1> QED
    BY <1>2, <1>3

-----------------------------------------------------------------------------
(* The steps *)

LEMMA BatchesBecome ==
    ASSUME Inv, NEW s \in senders, NEW t, Become(s, t)
    PROVE  Batches!Become(Abs(s), Abs(t))
  BY AbsBecome DEF AbsSenders, Abs, Batches!Become

LEMMA BatchesDone ==
    ASSUME Inv, NEW s \in senders, Done(s)
    PROVE  Batches!Done(Abs(s))
  <1>1. senders' = senders \ {s}
    BY DEF Done
  <1>2. AbsSenders' = AbsSenders \ {Abs(s)}
    BY <1>1, AbsDone
  <1> QED
    BY <1>2 DEF AbsSenders, Abs, Done, Batches!Done

LEMMA AbsOfLate ==
    ASSUME NEW s \in SenderStates
    PROVE  Abs([s EXCEPT !.late = TRUE]) = [Abs(s) EXCEPT !.late = TRUE]
  <1> DEFINE t == [s EXCEPT !.late = TRUE]
             u == [Abs(s) EXCEPT !.late = TRUE]
  <1>1. /\ t \in SenderStates
        /\ t.left = s.left /\ t.tries = s.tries /\ t.pc = s.pc /\ t.late = TRUE
    BY DEF SenderStates
  <1>2. /\ u \in AbsStates
        /\ u.left = Abs(s).left /\ u.tries = Abs(s).tries /\ u.pc = Abs(s).pc /\ u.late = TRUE
    BY AbsType DEF AbsStates
  <1> HIDE DEF t, u
  <1>3. Abs(t) = u
    <2>1. u.left = LinesOf(t.left) /\ u.tries = t.tries /\ u.pc = t.pc
      BY <1>1, <1>2, AbsFields
    <2>2. u.late = t.late
      BY <1>1, <1>2
    <2> QED
      BY <1>1, <1>2, <2>1, <2>2, AbsIs
  <1> QED
    BY <1>3 DEF t, u

LEMMA AbsOfPc ==
    ASSUME NEW s \in SenderStates, NEW pc \in {"check", "put", "report"}
    PROVE  Abs([s EXCEPT !.pc = pc]) = [Abs(s) EXCEPT !.pc = pc]
  <1> DEFINE t == [s EXCEPT !.pc = pc]
             u == [Abs(s) EXCEPT !.pc = pc]
  <1>1. /\ t \in SenderStates
        /\ t.left = s.left /\ t.tries = s.tries /\ t.pc = pc /\ t.late = s.late
    BY DEF SenderStates
  <1>2. /\ u \in AbsStates
        /\ u.left = Abs(s).left /\ u.tries = Abs(s).tries /\ u.pc = pc /\ u.late = Abs(s).late
    BY AbsType DEF AbsStates
  <1> HIDE DEF t, u
  <1>3. Abs(t) = u
    <2>1. u.left = LinesOf(t.left) /\ u.tries = t.tries /\ u.pc = t.pc /\ u.late = t.late
      BY <1>1, <1>2, AbsFields
    <2> QED
      BY <1>1, <1>2, <2>1, AbsIs
  <1> QED
    BY <1>3 DEF t, u

LEMMA AbsOfTries ==
    ASSUME NEW s \in SenderStates, NEW n \in Nat
    PROVE  Abs([s EXCEPT !.tries = n]) = [Abs(s) EXCEPT !.tries = n]
  <1> DEFINE t == [s EXCEPT !.tries = n]
             u == [Abs(s) EXCEPT !.tries = n]
  <1>1. /\ t \in SenderStates
        /\ t.left = s.left /\ t.tries = n /\ t.pc = s.pc /\ t.late = s.late
    BY DEF SenderStates
  <1>2. /\ u \in AbsStates
        /\ u.left = Abs(s).left /\ u.tries = n /\ u.pc = Abs(s).pc /\ u.late = Abs(s).late
    BY AbsType DEF AbsStates
  <1> HIDE DEF t, u
  <1>3. Abs(t) = u
    BY <1>1, <1>2, AbsFields, AbsIs
  <1> QED
    BY <1>3 DEF t, u

LEMMA AbsOfLeft ==
    ASSUME NEW s \in SenderStates, NEW left \in Seq(Entries),
           LinesOf(left) \subseteq LinesOf(s.left)
    PROVE  Abs([s EXCEPT !.left = left, !.pc = "check"])
             = [Abs(s) EXCEPT !.left = LinesOf(left), !.pc = "check"]
  <1> DEFINE t == [s EXCEPT !.left = left, !.pc = "check"]
             lines == LinesOf(left)
             u == [Abs(s) EXCEPT !.left = lines, !.pc = "check"]
  <1>1. /\ t \in SenderStates
        /\ t.left = left /\ t.tries = s.tries /\ t.pc = "check" /\ t.late = s.late
    BY DEF SenderStates
  <1>2. Abs(s) \in AbsStates /\ Abs(s).left = LinesOf(s.left) /\ Abs(s).left \in SUBSET Records
    BY AbsType, AbsFields DEF AbsStates
  <1>3. lines \in SUBSET Records
    BY <1>2
  <1> HIDE DEF lines
  <1>4. /\ u \in AbsStates
        /\ u.left = lines /\ u.tries = Abs(s).tries /\ u.pc = "check" /\ u.late = Abs(s).late
    BY <1>2, <1>3 DEF AbsStates
  <1> HIDE DEF t, u
  <1>5. Abs(t) = u
    BY <1>1, <1>4, AbsFields, AbsIs DEF lines
  <1> QED
    BY <1>5 DEF t, u, lines

(* The new batch of a partial failure is the set the Firehose logger keeps. *)
LEMMA BatchesResponse ==
    ASSUME Inv, NEW s \in senders, NEW errorCode \in [DOMAIN s.left -> BOOLEAN],
           PutResponse(s, errorCode)
    PROVE  \E failed \in SUBSET Abs(s).left : Batches!PutResponse(Abs(s), failed)
  <1> DEFINE ok == {s.left[i].line : i \in {j \in DOMAIN s.left : ~errorCode[j]}}
             failed == {s.left[i].line : i \in {j \in DOMAIN s.left : errorCode[j]}}
             next == NewBatch(s.left, errorCode)
  <1>1. s \in SenderStates /\ s.left \in Seq(Entries) /\ Follows(s.left, accepted)
    BY SendersAreParts
  <1>2. Abs(s).left = LinesOf(s.left) /\ Abs(s).pc = s.pc
    BY <1>1, AbsFields
  <1>3. \A i, j \in DOMAIN s.left : s.left[i].line = s.left[j].line => i = j
    <2>1. NoneTwice(accepted) /\ accepted \in Seq(Records)
      BY DEF Inv, Typed, Parts
    <2>2. DOMAIN accepted \subseteq Int
      BY <2>1
    <2> QED
      BY <1>1, <2>1, <2>2, FollowsIsInjective
  <1>4. \A r : r \in LinesOf(s.left) <=> \E i \in DOMAIN s.left : r = s.left[i].line
    BY DEF LinesOf, ToSet
  <1>5. /\ \A r : r \in ok <=> \E i \in DOMAIN s.left : ~errorCode[i] /\ r = s.left[i].line
        /\ \A r : r \in failed <=> \E i \in DOMAIN s.left : errorCode[i] /\ r = s.left[i].line
    OBVIOUS
  <1>6. /\ s.pc = "put" /\ Store(ok) /\ acked' = acked \cup ok
        /\ UNCHANGED <<batch, batchBytes, ticking, loop, writer, inputVars, reported,
                       unsure, owed>>
        /\ (\A i \in DOMAIN s.left : ~errorCode[i]) => Done(s)
        /\ (\E i \in DOMAIN s.left : errorCode[i]) =>
              /\ Become(s, [s EXCEPT !.left = next, !.pc = "check"])
              /\ UNCHANGED <<sendBatchWG, closer>>
    BY DEF PutResponse
  <1> HIDE DEF ok, failed
  <1>7. failed \in SUBSET Abs(s).left /\ Abs(s).left \ failed = ok
    BY <1>2, <1>3, <1>4, <1>5
  <1>8. Batches!Store(Abs(s).left \ failed)
    BY <1>6, <1>7 DEF Store, Batches!Store
  <1>9. CASE failed = {}
    <2>1. Batches!Done(Abs(s))
      BY <1>5, <1>6, <1>9, BatchesDone
    <2>2. Batches!PutResponse(Abs(s), failed)
      BY <1>2, <1>6, <1>7, <1>8, <1>9, <2>1
      DEF Batches!PutResponse, inputVars, Batches!inputVars
    <2> QED
      BY <1>7, <2>2
  <1>10. CASE failed # {}
    <2>1. PICK i \in DOMAIN s.left : errorCode[i]
      BY <1>5, <1>10
    <2>2. LinesOf(next) = failed /\ next \in Seq(Entries)
      <3>1. /\ next \in Seq(Entries)
            /\ \A n \in DOMAIN next : \E j \in DOMAIN s.left : errorCode[j] /\ next[n] = s.left[j]
            /\ \A j \in DOMAIN s.left : errorCode[j] => \E n \in DOMAIN next : next[n] = s.left[j]
        BY <1>1, NewBatchIsTheRefused
      <3> HIDE DEF next
      <3>2. \A r : r \in LinesOf(next) <=> \E n \in DOMAIN next : r = next[n].line
        BY DEF LinesOf, ToSet
      <3> QED
        <4>1. ASSUME NEW n \in DOMAIN next PROVE next[n].line \in failed
          BY <1>5, <3>1
        <4>2. ASSUME NEW r \in failed PROVE r \in LinesOf(next)
          BY <1>5, <3>1, <3>2
        <4> QED
          <5>1. LinesOf(next) \subseteq failed
            BY <3>2, <4>1
          <5>2. failed \subseteq LinesOf(next)
            BY <4>2
          <5> QED
            BY <3>1, <5>1, <5>2
    <2> DEFINE t == [s EXCEPT !.left = next, !.pc = "check"]
    <2>3. Become(s, t) /\ UNCHANGED <<sendBatchWG, closer>>
      BY <1>6, <2>1
    <2> HIDE DEF next
    <2>4. Abs(t) = [Abs(s) EXCEPT !.left = failed, !.pc = "check"]
      <3>1. LinesOf(next) \subseteq LinesOf(s.left)
        BY <1>2, <1>7, <2>2
      <3> QED
        BY <1>1, <2>2, <3>1, AbsOfLeft
    <2>5. Batches!Become(Abs(s), Abs(t))
      BY <2>3, BatchesBecome
    <2>6. Batches!PutResponse(Abs(s), failed)
      BY <1>2, <1>6, <1>7, <1>8, <1>10, <2>3, <2>4, <2>5
      DEF Batches!PutResponse, Batches!NextBatch, inputVars, Batches!inputVars
    <2> QED
      BY <1>7, <2>6
  <1> QED
    BY <1>9, <1>10

(* BatchLogger's Cardinality is the one of this module. *)
LEMMA SameCardinality == \A S : Batches!Cardinality(S) = Cardinality(S)
  BY Zenon DEF Batches!Cardinality, Cardinality

LEMMA BatchesWrite ==
    ASSUME Inv, NEW w \in Writers, NEW r \in Records, Write(w, r)
    PROVE  Batches!Write(w, r)
  <1>1. /\ batch' = Append(batch, Entry(r)) /\ accepted' = Append(accepted, r)
        /\ r \notin ToSet(accepted)
        /\ UNCHANGED senders
    BY DEF Write, MayWrite
  <1>2. Inv'
    BY <1>1, InvOnAppend
  <1>3. /\ LinesOf(batch)' = LinesOf(batch) \cup {r}
        /\ ToSet(accepted)' = ToSet(accepted) \cup {r}
    BY <1>1, EntryOfLine, LinesOfAppend, ToSetAppend DEF Inv, Typed
  <1>4. Cardinality(LinesOf(batch)') = Len(batch')
    <2>1. /\ batch' \in Seq(Entries) /\ accepted' \in Seq(Records)
          /\ NoneTwice(accepted') /\ Follows(batch', accepted')
      BY <1>2 DEF Inv, Typed, Parts, Part
    <2>2. DOMAIN accepted' \subseteq Int
      BY <2>1
    <2>3. \A i, j \in DOMAIN batch' : batch'[i].line = batch'[j].line => i = j
      BY <2>1, <2>2, FollowsIsInjective
    <2>4. Cardinality(LinesOf(batch')) = Len(batch')
      BY <2>1, <2>3, LinesAreCounted
    <2> QED
      BY <2>4
  <1>5. maxBatchRecords = Batches!maxBatchRecords /\ maxBatchBytes = Batches!maxBatchBytes
    BY DEF maxBatchRecords, Batches!maxBatchRecords, maxBatchBytes, Batches!maxBatchBytes,
       Limit, Batches!Limit
  <1>6. Batches!ShouldSend(LinesOf(batch)', batchBytes') <=>
          Len(batch') = maxBatchRecords \/ batchBytes' > FlushBytes
    <2>1. Batches!FlushBytes = FlushBytes
      BY <1>5 DEF Batches!FlushBytes, FlushBytes
    <2>2. Batches!ShouldSend(LinesOf(batch'), batchBytes') <=>
            \/ Cardinality(LinesOf(batch')) = Batches!maxBatchRecords
            \/ batchBytes' > Batches!FlushBytes
      BY SameCardinality DEF Batches!ShouldSend
    <2> QED
      BY <1>4, <1>5, <2>1, <2>2
  <1>7. Batches!MayWrite(w, r)
    BY DEF Write, MayWrite, Batches!MayWrite
  <1> QED
    BY <1>1, <1>3, <1>6, <1>7 DEF Write, Batches!Write, outcomeVars, streamVars,
       Batches!outcomeVars, Batches!streamVars

LEMMA BatchesSender ==
    ASSUME Inv, NEW s \in senders,
           \/ DeadlinePasses(s) \/ LoopCheck(s)
           \/ \E errorCode \in [DOMAIN s.left -> BOOLEAN] : PutResponse(s, errorCode)
           \/ \E applied \in SUBSET LinesOf(s.left) : PutRequestError(s, applied)
           \/ PutError(s) \/ Report(s)
    PROVE  Batches!DeadlinePasses(Abs(s)) \/ Batches!SenderStep(Abs(s))
  <1> USE DEF loggerVars, inputVars, outcomeVars, streamVars, historyVars,
              Batches!loggerVars, Batches!inputVars, Batches!outcomeVars,
              Batches!streamVars, Batches!historyVars
  <1> DEFINE a == Abs(s)
  <1>1. s \in SenderStates /\ s.tries + 1 \in Nat /\ s.late \in BOOLEAN
    BY SendersAreParts DEF SenderStates
  <1>2. a.left = LinesOf(s.left) /\ a.tries = s.tries /\ a.pc = s.pc /\ a.late = s.late
    BY <1>1, AbsFields
  <1> HIDE DEF a
  <1>3. ASSUME NEW t, Become(s, t) PROVE Batches!Become(a, Abs(t))
    BY <1>3, BatchesBecome DEF a
  <1>4. CASE DeadlinePasses(s)
    <2>1. Become(s, [s EXCEPT !.late = TRUE])
      BY <1>4 DEF DeadlinePasses
    <2>2. Batches!Become(a, [a EXCEPT !.late = TRUE])
      BY <1>1, <1>3, <2>1, AbsOfLate DEF a
    <2>3. Batches!DeadlinePasses(a)
      BY <1>2, <1>4, <2>2 DEF DeadlinePasses, Batches!DeadlinePasses
    <2> QED
      BY <2>3 DEF a
  <1>5. CASE LoopCheck(s)
    <2> DEFINE pc == IF s.late THEN "report" ELSE "put"
    <2>1. Become(s, [s EXCEPT !.pc = pc, !.tries = 0])
      BY <1>5 DEF LoopCheck
    <2>2. Abs([s EXCEPT !.pc = pc, !.tries = 0]) = [a EXCEPT !.pc = pc, !.tries = 0]
      <3>1. pc \in {"put", "report"}
        OBVIOUS
      <3> HIDE DEF pc
      <3>2. [s EXCEPT !.pc = pc] \in SenderStates
        BY <1>1, <3>1 DEF SenderStates
      <3>3. Abs([s EXCEPT !.pc = pc]) = [a EXCEPT !.pc = pc]
        BY <1>1, <3>1, AbsOfPc DEF a
      <3> QED
        BY <3>2, <3>3, AbsOfTries
    <2>3. pc = IF Batches!InTime(a) THEN "put" ELSE "report"
      BY <1>1, <1>2 DEF Batches!InTime
    <2> HIDE DEF pc
    <2>4. Batches!Become(a, [a EXCEPT !.pc = pc, !.tries = 0])
      BY <1>3, <2>1, <2>2
    <2>5. Batches!LoopCheck(a)
      BY <1>2, <1>5, <2>3, <2>4 DEF LoopCheck, Batches!LoopCheck
    <2> QED
      BY <2>5 DEF a, Batches!SenderStep
  <1>6. ASSUME NEW errorCode \in [DOMAIN s.left -> BOOLEAN], PutResponse(s, errorCode)
        PROVE  Batches!SenderStep(a)
    BY <1>6, BatchesResponse DEF a, Batches!SenderStep
  <1>7. ASSUME NEW applied \in SUBSET LinesOf(s.left), PutRequestError(s, applied)
        PROVE  Batches!SenderStep(a)
    <2>1. /\ s.tries < MaxRetries => Become(s, [s EXCEPT !.tries = s.tries + 1])
          /\ ~(s.tries < MaxRetries) => Become(s, [s EXCEPT !.pc = "report"])
      BY <1>7 DEF PutRequestError
    <2>2. Abs([s EXCEPT !.tries = s.tries + 1]) = [a EXCEPT !.tries = a.tries + 1]
      BY <1>1, <1>2, AbsOfTries DEF a
    <2>3. Abs([s EXCEPT !.pc = "report"]) = [a EXCEPT !.pc = "report"]
      BY <1>1, AbsOfPc DEF a
    <2>4. Batches!Become(a, IF Batches!MayRetry(a) THEN [a EXCEPT !.tries = @ + 1]
                                                   ELSE [a EXCEPT !.pc = "report"])
      BY <1>2, <1>3, <2>1, <2>2, <2>3 DEF Batches!MayRetry
    <2>5. Batches!Store(applied)
      BY <1>7 DEF PutRequestError, Store, Batches!Store
    <2>6. Batches!PutRequestError(a, applied)
      BY <1>2, <1>7, <2>4, <2>5 DEF PutRequestError, Batches!PutRequestError
    <2> QED
      BY <1>2, <2>6 DEF Batches!SenderStep
  <1>8. CASE PutError(s)
    <2>1. Batches!Become(a, [a EXCEPT !.pc = "report"])
      <3>1. Become(s, [s EXCEPT !.pc = "report"])
        BY <1>8 DEF PutError
      <3> QED
        BY <1>1, <1>3, <3>1, AbsOfPc DEF a
    <2>2. Batches!PutError(a)
      BY <1>2, <1>8, <2>1 DEF PutError, Batches!PutError
    <2> QED
      BY <2>2 DEF a, Batches!SenderStep
  <1>9. CASE Report(s)
    <2>1. Batches!Done(a)
      BY <1>9, BatchesDone DEF Report, a
    <2>2. Batches!Report(a)
      BY <1>2, <1>9, <2>1 DEF Report, Batches!Report
    <2> QED
      BY <2>2 DEF a, Batches!SenderStep
  <1> QED
    BY <1>4, <1>5, <1>6, <1>7, <1>8, <1>9 DEF a

LEMMA BatchesStep == Inv /\ [Next]_vars => [Batches!Next]_(Batches!vars)
  <1> USE DEF loggerVars, inputVars, outcomeVars, streamVars, historyVars,
              Batches!loggerVars, Batches!inputVars, Batches!outcomeVars,
              Batches!streamVars, Batches!historyVars
  <1> SUFFICES ASSUME Inv, [Next]_vars PROVE Batches!Next \/ UNCHANGED Batches!vars
    OBVIOUS
  <1>1. ASSUME NEW w \in Writers, NEW r \in Records, Write(w, r) \/ WriteRejected(w, r)
        PROVE  Batches!Write(w, r) \/ Batches!WriteRejected(w, r)
    <2>1. CASE Write(w, r)
      BY <2>1, BatchesWrite
    <2>2. CASE WriteRejected(w, r)
      BY <2>2 DEF WriteRejected, Batches!WriteRejected, MayWrite, Batches!MayWrite
    <2> QED
      BY <1>1, <2>1, <2>2
  <1>2. ASSUME NEW w \in Writers, WriteFlush(w) PROVE Batches!WriteFlush(w)
    BY <1>2, BatchesFlush DEF WriteFlush, Batches!WriteFlush
  <1>3. LoopTick => Batches!LoopTick
    BY DEF LoopTick, Batches!LoopTick
  <1>4. LoopFlush => Batches!LoopFlush
    BY BatchesFlush DEF LoopFlush, Batches!LoopFlush
  <1>5. ASSUME NEW c \in Closers
        PROVE  /\ CloseStop(c) => Batches!CloseStop(c)
               /\ CloseSignal(c) => Batches!CloseSignal(c)
               /\ CloseFlush(c) => Batches!CloseFlush(c)
               /\ CloseWait(c) => Batches!CloseWait(c)
    <2>1. CloseStop(c) => Batches!CloseStop(c)
      BY DEF CloseStop, Batches!CloseStop, Settled, Batches!Settled
    <2>2. CloseSignal(c) => Batches!CloseSignal(c)
      BY DEF CloseSignal, Batches!CloseSignal
    <2>3. CloseFlush(c) => Batches!CloseFlush(c)
      BY BatchesFlush DEF CloseFlush, Batches!CloseFlush
    <2>4. CloseWait(c) => Batches!CloseWait(c)
      BY DEF CloseWait, Batches!CloseWait, Batches!WaitGroupIsZero
    <2> QED
      BY <2>1, <2>2, <2>3, <2>4
  <1>6. ASSUME NEW s \in senders, Batches!DeadlinePasses(Abs(s)) \/ Batches!SenderStep(Abs(s)),
               Alive
        PROVE  Batches!Next
    <2>1. Abs(s) \in AbsSenders /\ Batches!Alive
      BY <1>6 DEF AbsSenders, Alive, Batches!Alive
    <2> QED
      BY <1>6, <2>1 DEF Batches!Next, AbsSenders, Abs
  <1>7. CASE UNCHANGED vars
    BY <1>7 DEF vars, Batches!vars
  <1>8. Alive => Batches!Alive
    BY DEF Alive, Batches!Alive
  <1>9. ASSUME Alive, NEW w \in Writers, NEW r \in Records, Write(w, r) \/ WriteRejected(w, r)
        PROVE  Batches!Next
    BY <1>1, <1>8, <1>9 DEF Batches!Next
  <1>10. ASSUME Alive, NEW w \in Writers, WriteFlush(w) PROVE Batches!Next
    BY <1>2, <1>8, <1>10 DEF Batches!Next
  <1>11. ASSUME Alive, LoopTick \/ LoopFlush PROVE Batches!Next
    BY <1>3, <1>4, <1>8, <1>11 DEF Batches!Next
  <1>12. ASSUME Alive, NEW c \in Closers,
                \/ CloseStop(c) \/ CloseSignal(c)
                \/ CloseFlush(c) \/ CloseWait(c)
         PROVE  Batches!Next
    BY <1>5, <1>8, <1>12 DEF Batches!Next
  <1>13. ASSUME Alive, NEW s \in senders,
                \/ DeadlinePasses(s) \/ LoopCheck(s)
                \/ \E errorCode \in [DOMAIN s.left -> BOOLEAN] : PutResponse(s, errorCode)
                \/ \E applied \in SUBSET LinesOf(s.left) : PutRequestError(s, applied)
                \/ PutError(s) \/ Report(s)
         PROVE  Batches!Next
    BY <1>6, <1>13, BatchesSender
  <1> QED
    BY <1>7, <1>9, <1>10, <1>11, <1>12, <1>13 DEF Next, Terminating, Stopped

(* The Kinesis logger, with its order, its keys and the positions of the answer *)
(* left out, is the Firehose logger, step by step.  The mapping is sound        *)
(* because no two senders ever hold a line in common: their number, which the   *)
(* wait group counts, is the same on both sides.                               *)
THEOREM Refinement == Spec => ImplementsBatchLogger
  BY BatchesInit, BatchesStep, Invariant, PTL
  DEF Spec, ImplementsBatchLogger, Batches!Spec

-----------------------------------------------------------------------------
(* What is proved of the Firehose logger is true of this one: its theorems, for *)
(* the variables the refinement gives it.                                      *)
Proved == INSTANCE BatchLoggerProofs WITH
    batch <- LinesOf(batch),
    senders <- {[s EXCEPT !.left = LinesOf(s.left)] : s \in senders},
    accepted <- ToSet(accepted)

LEMMA ProvedAssumptions ==
    Proved!RecordsAssumption /\ Proved!LimitsAssumption /\ Proved!UsageAssumption
  <1>1. Proved!RecordsAssumption
    BY RecordsAssumption, Zenon
    DEF RecordsAssumption, Proved!RecordsAssumption, IsFiniteSet, Proved!IsFiniteSet
  <1>2. Proved!LimitsAssumption
    BY LimitsAssumption DEF LimitsAssumption, Proved!LimitsAssumption
  <1>3. Proved!UsageAssumption
    BY UsageAssumption DEF UsageAssumption, Proved!UsageAssumption
  <1> QED
    BY <1>1, <1>2, <1>3

(* The refinement, stated for the instance the theorems are about. *)
LEMMA ProvedSpec == Spec => Proved!Spec
  <1>1. Batches!Init => Proved!Init
    BY DEF Batches!Init, Proved!Init
  <1>2. [Batches!Next]_Batches!vars => [Proved!Next]_Proved!vars
    BY Zenon DEF Batches!vars, Proved!vars, Batches!loggerVars, Proved!loggerVars,
         Batches!inputVars, Proved!inputVars, Batches!outcomeVars,
         Proved!outcomeVars, Batches!streamVars, Proved!streamVars,
         Batches!historyVars, Proved!historyVars, Batches!Settled,
         Proved!Settled, Batches!Alive, Proved!Alive, Batches!MayWrite,
         Proved!MayWrite, Batches!WriteRejected, Proved!WriteRejected,
         Batches!ShouldSend, Proved!ShouldSend, Batches!Write,
         Proved!Write, Batches!NewSender, Proved!NewSender,
         Batches!BatchEmptied, Proved!BatchEmptied, Batches!BytesReset,
         Proved!BytesReset, Batches!Flush, Proved!Flush,
         Batches!WriteFlush, Proved!WriteFlush, Batches!LoopTick,
         Proved!LoopTick, Batches!LoopFlush, Proved!LoopFlush,
         Batches!CloseStop, Proved!CloseStop, Batches!CloseSignal,
         Proved!CloseSignal, Batches!CloseFlush, Proved!CloseFlush,
         Batches!WaitGroupIsZero, Proved!WaitGroupIsZero,
         Batches!CloseWait, Proved!CloseWait, Batches!Become,
         Proved!Become, Batches!Done, Proved!Done, Batches!Store,
         Proved!Store, Batches!DeadlinePasses, Proved!DeadlinePasses,
         Batches!InTime, Proved!InTime, Batches!LoopCheck,
         Proved!LoopCheck, Batches!NextBatch, Proved!NextBatch,
         Batches!PutResponse, Proved!PutResponse, Batches!MayRetry,
         Proved!MayRetry, Batches!PutRequestError,
         Proved!PutRequestError, Batches!PutError, Proved!PutError,
         Batches!Report, Proved!Report, Batches!SenderStep,
         Proved!SenderStep, Batches!Terminating, Proved!Terminating,
         Batches!Stopped, Proved!Stopped, Batches!Limit, Proved!Limit,
         Batches!maxBatchRecords, Proved!maxBatchRecords,
         Batches!maxBatchBytes, Proved!maxBatchBytes,
         Batches!FlushBytes, Proved!FlushBytes, Batches!Cardinality,
         Proved!Cardinality, Batches!Next, Proved!Next
  <1>3. Batches!Spec => Proved!Spec
    BY <1>1, <1>2, PTL DEF Batches!Spec, Proved!Spec
  <1> QED
    BY <1>3, Refinement, PTL DEF ImplementsBatchLogger

(* No accepted line is lost or in two places, the wait group is exact, a Close  *)
(* settles what it owes, leaves nothing to a quiet application and does not     *)
(* panic in it, and a line is in the stream twice only after a RequestError.   *)
THEOREM BatchInvariants ==
    Spec => [](/\ Batches!Conserved /\ Batches!WaitGroupCounts
               /\ Batches!CloseDrains /\ Batches!QuietAfterClose
               /\ Batches!PanicNeedsAWrite
               /\ Batches!DuplicatesOnlyAfterRequestError)
  <1>1. Proved!Spec => []Proved!Conserved
    BY ProvedAssumptions, Proved!RecordsConserved
  <1>2. Proved!Spec => []Proved!WaitGroupCounts
    BY ProvedAssumptions, Proved!WaitGroupExact
  <1>3. Proved!Spec => []Proved!CloseDrains
    BY ProvedAssumptions, Proved!CloseSettlesWhatItOwes
  <1>4. Proved!Spec => []Proved!QuietAfterClose
    BY ProvedAssumptions, Proved!CloseLeavesNothing
  <1>5. Proved!Spec => []Proved!DuplicatesOnlyAfterRequestError
    BY ProvedAssumptions, Proved!DuplicatesNeedARequestError
  <1>6. Proved!Spec => []Proved!PanicNeedsAWrite
    BY ProvedAssumptions, Proved!CloseIsSafeWhenQuiet
  <1>7. /\ Proved!Conserved => Batches!Conserved
        /\ Proved!WaitGroupCounts => Batches!WaitGroupCounts
        /\ Proved!CloseDrains => Batches!CloseDrains
        /\ Proved!QuietAfterClose => Batches!QuietAfterClose
        /\ Proved!PanicNeedsAWrite => Batches!PanicNeedsAWrite
        /\ Proved!DuplicatesOnlyAfterRequestError
             => Batches!DuplicatesOnlyAfterRequestError
    BY Zenon DEF Batches!Conserved, Proved!Conserved, Batches!WaitGroupCounts,
         Proved!WaitGroupCounts, Batches!CloseDrains,
         Proved!CloseDrains, Batches!QuietAfterClose,
         Proved!QuietAfterClose, Batches!PanicNeedsAWrite,
         Proved!PanicNeedsAWrite,
         Batches!DuplicatesOnlyAfterRequestError,
         Proved!DuplicatesOnlyAfterRequestError, Batches!InFlight,
         Proved!InFlight, Batches!Settled, Proved!Settled,
         Batches!Cardinality, Proved!Cardinality
  <1> QED
    BY <1>1, <1>2, <1>3, <1>4, <1>5, <1>6, <1>7, ProvedSpec, PTL

(* What the application is promised: a line of either logger is delivered or    *)
(* given up once, and Close returns when all it owed is settled.               *)
THEOREM SinkImplemented == Spec => Batches!ImplementsSink
  <1>1. Proved!Spec => Proved!ImplementsSink
    BY ProvedAssumptions, Proved!SinkImplemented
  <1>2. Proved!Sink!Init => Batches!Sink!Init
    BY DEF Batches!Sink!Init, Proved!Sink!Init, Batches!Settled, Proved!Settled,
           Batches!Closing, Proved!Closing
  <1>3. [Proved!Sink!Next]_Proved!Sink!vars => [Batches!Sink!Next]_Batches!Sink!vars
    BY DEF Batches!Sink!Next, Proved!Sink!Next, Batches!Sink!vars,
           Proved!Sink!vars, Batches!Sink!Accept, Proved!Sink!Accept,
           Batches!Sink!Deliver, Proved!Sink!Deliver,
           Batches!Sink!GiveUp, Proved!Sink!GiveUp,
           Batches!Sink!CloseCall, Proved!Sink!CloseCall,
           Batches!Sink!CloseReturn, Proved!Sink!CloseReturn,
           Batches!Settled, Proved!Settled, Batches!Closing,
           Proved!Closing
  <1>4. Proved!ImplementsSink => Batches!ImplementsSink
    BY <1>2, <1>3, PTL
    DEF Proved!ImplementsSink, Batches!ImplementsSink, Proved!Sink!Spec, Batches!Sink!Spec
  <1> QED
    BY <1>1, <1>4, ProvedSpec, PTL

(* With a positive record limit no full batch is left to the ticker, and one    *)
(* Write at a time keeps the record limit, and the flushing limit but for one   *)
(* line.                                                                       *)
THEOREM BatchLimits ==
    ASSUME maxBatchRecords >= 1
    PROVE  /\ Spec => []Batches!FullBatchIsBeingFlushed
           /\ SerialWrites => (Spec => [](/\ Batches!RequestWithinRecordLimit
                                          /\ Batches!RequestOverByOneLine))
  <1>0. Proved!maxBatchRecords >= 1
    BY DEF maxBatchRecords, Limit, Proved!maxBatchRecords, Proved!Limit
  <1>1. Proved!Spec => []Proved!FullBatchIsBeingFlushed
    BY <1>0, ProvedAssumptions, Proved!FullBatchFlushed
  <1>2. Proved!FullBatchIsBeingFlushed => Batches!FullBatchIsBeingFlushed
    BY DEF Batches!FullBatchIsBeingFlushed, Proved!FullBatchIsBeingFlushed,
           Batches!Cardinality, Proved!Cardinality, Batches!Limit,
           Proved!Limit, Batches!maxBatchRecords,
           Proved!maxBatchRecords, Batches!maxBatchBytes,
           Proved!maxBatchBytes, Batches!FlushBytes,
           Proved!FlushBytes
  <1>3. Spec => []Batches!FullBatchIsBeingFlushed
    BY <1>1, <1>2, ProvedSpec, PTL
  <1>4. ASSUME SerialWrites
        PROVE  Spec => [](/\ Batches!RequestWithinRecordLimit
                          /\ Batches!RequestOverByOneLine)
    <2>1. Proved!Spec => []Proved!RequestWithinRecordLimit
      BY <1>0, <1>4, ProvedAssumptions, Proved!RecordLimitKeptWhenSerial
    <2>2. Proved!Spec => []Proved!RequestOverByOneLine
      BY <1>4, ProvedAssumptions, Proved!ByteLimitKeptButForOneLine
    <2>3. /\ Proved!RequestWithinRecordLimit => Batches!RequestWithinRecordLimit
          /\ Proved!RequestOverByOneLine => Batches!RequestOverByOneLine
      BY Zenon DEF Batches!RequestWithinRecordLimit, Proved!RequestWithinRecordLimit,
             Batches!RequestOverByOneLine,
             Proved!RequestOverByOneLine, Batches!Bytes,
             Proved!Bytes, Batches!SumFunctionOnSet,
             Proved!SumFunctionOnSet, Batches!FoldFunctionOnSet,
             Proved!FoldFunctionOnSet, Batches!MapThenFoldSet,
             Proved!MapThenFoldSet, Batches!Cardinality,
             Proved!Cardinality, Batches!Limit, Proved!Limit,
             Batches!maxBatchRecords, Proved!maxBatchRecords,
             Batches!maxBatchBytes, Proved!maxBatchBytes,
             Batches!FlushBytes, Proved!FlushBytes
    <2> QED
      BY <2>1, <2>2, <2>3, ProvedSpec, PTL
  <1> QED
    BY <1>3, <1>4
==============================================================================
