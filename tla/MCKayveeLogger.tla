---------------------------- MODULE MCKayveeLogger ----------------------------
(* Small instances of KayveeLogger for TLC.                                    *)
EXTENDS KayveeLogger, TLC

\* SetConfig 1 lets everything through, SetConfig 2 errors only.
MCLevelOf == [g \in Configs |-> IF g = 1 THEN Trace ELSE Error]

Symmetry == Permutations(Callers)
===============================================================================
