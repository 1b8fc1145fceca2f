------------------------------- MODULE LogSink -------------------------------
(* What an asynchronous log sink promises its callers, with no batches, no     *)
(* goroutines and no retries: a line that was accepted stays pending until the *)
(* stream stored it or its loss was reported, and a Close that returns has     *)
(* settled every line that was accepted before the call.  BatchLogger, the     *)
(* detailed model of the analytics logger, is shown to implement it.           *)

CONSTANTS
    Records,    \* the lines that may be written
    Closers     \* the goroutines that may call Close

VARIABLES
    pending,    \* accepted, not settled yet
    delivered,  \* acknowledged by the stream
    failed,     \* given up, with an error in the error log
    closing,    \* per closer: "idle", "closing", "returned"
    owed        \* per closer: the lines accepted before it called Close

vars == <<pending, delivered, failed, closing, owed>>

Init ==
    /\ pending = {}
    /\ delivered = {}
    /\ failed = {}
    /\ closing = [c \in Closers |-> "idle"]
    /\ owed = [c \in Closers |-> {}]

Accept(r) ==
    /\ r \notin pending \cup delivered \cup failed
    /\ pending' = pending \cup {r}
    /\ UNCHANGED <<delivered, failed, closing, owed>>

Deliver(D) ==
    /\ pending' = pending \ D
    /\ delivered' = delivered \cup D
    /\ UNCHANGED <<failed, closing, owed>>

GiveUp(F) ==
    /\ pending' = pending \ F
    /\ failed' = failed \cup F
    /\ UNCHANGED <<delivered, closing, owed>>

CloseCall(c) ==
    /\ closing[c] = "idle"
    /\ closing' = [closing EXCEPT ![c] = "closing"]
    /\ owed' = [owed EXCEPT ![c] = pending \cup delivered \cup failed]
    /\ UNCHANGED <<pending, delivered, failed>>

CloseReturn(c) ==
    /\ closing[c] = "closing"
    /\ owed[c] \cap pending = {}
    /\ closing' = [closing EXCEPT ![c] = "returned"]
    /\ UNCHANGED <<pending, delivered, failed, owed>>

Next ==
    \/ \E r \in Records : Accept(r)
    \/ \E S \in (SUBSET pending) \ {{}} : Deliver(S) \/ GiveUp(S)
    \/ \E c \in Closers : CloseCall(c) \/ CloseReturn(c)

Spec == Init /\ [][Next]_vars
==============================================================================
