---------------------------- MODULE MCRollupRouter ----------------------------
(* Small instances of RollupRouter for TLC.                                    *)
EXTENDS RollupRouter

Rolled(method, op, time) ==
    [status |-> 200, method |-> method, op |-> op, time |-> time]

\* Two requests for one operation, one for another, and one too slow to be rolled
\* up.
PlainLine == [r \in Requests |->
    CASE r = "q1" -> Rolled(<<"GET">>, <<"list">>, 3)
      [] r = "q2" -> Rolled(<<"GET">>, <<"list">>, 4)
      [] r = "q3" -> Rolled(<<"POST">>, <<"list">>, 1)
      [] r = "slow" -> Rolled(<<"GET">>, <<"list">>, SlowTime)]

\* "M-SEARCH" of "device" and "M" of "SEARCH-device": two operations, one key.
DashedLine == [r \in Requests |->
    CASE r = "q1" -> Rolled(<<"M", "SEARCH">>, <<"device">>, 3)
      [] r = "q2" -> Rolled(<<"M">>, <<"SEARCH", "device">>, 4)]
==============================================================================
