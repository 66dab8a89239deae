----------------------------- MODULE MCStreamRace -----------------------------
(* The race of StreamRace for model checking: a few named mirrors, which   *)
(* the race treats alike.                                                  *)
EXTENDS StreamRace, TLC

Mirrors == Permutations(Candidates)
===============================================================================
