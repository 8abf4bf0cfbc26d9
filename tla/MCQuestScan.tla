----------------------------- MODULE MCQuestScan -----------------------------
(* Plateau windows in the order of the code's (2 quiet ticks, 10 and 30 flat *)
(* ones), at a size TLC enumerates.                                          *)
EXTENDS QuestScan, TLC

Symmetry == Permutations(Areas)
===============================================================================
