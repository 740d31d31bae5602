----------------------------- MODULE MCLogWindow -----------------------------
(***************************************************************************)
(* Two threads that print two texts at two times into a window of two rows *)
(* and three columns.                                                      *)
(***************************************************************************)
EXTENDS LogWindowProperties, TLC

CONSTANTS t1, t2, m1, m2, d1, d2, blank

MCThreads == {t1, t2}
MCTexts == {m1, m2}
MCTimes == {d1, d2}

Symmetry == Permutations(MCThreads) \cup Permutations(MCTexts)
              \cup Permutations(MCTimes)
=============================================================================
