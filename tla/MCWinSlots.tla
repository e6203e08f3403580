----------------------------- MODULE MCWinSlots -----------------------------
(* WinSlots for TLC: the apps are interchangeable, for safety properties.   *)
EXTENDS WinSlots, TLC

Symmetry == Permutations(Pids)
=============================================================================
