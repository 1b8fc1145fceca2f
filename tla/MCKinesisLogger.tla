--------------------------- MODULE MCKinesisLogger ---------------------------
(* Small instances of KinesisLogger for TLC. *)
EXTENDS KinesisLogger

\* "own" asks for a key, "any" leaves it to the logger, "number" asks for one
\* that is not a string and "empty" for "".
MCPartitionKey ==
    [r \in Records |-> CASE r = "own" -> "user-1"
                         [] r = "empty" -> ""
                         [] r = "number" -> NumberKey
                         [] OTHER -> NoKey]

UnitSize == [r \in Records |-> 1]
==============================================================================
