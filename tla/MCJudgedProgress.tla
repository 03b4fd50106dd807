-------------------------- MODULE MCJudgedProgress --------------------------
(***************************************************************************)
(* The submissions of MCJudged: r1 and r2 share a row and a directory and  *)
(* are interchangeable, r3 has others.                                     *)
(***************************************************************************)
EXTENDS MCJudged, JudgedProgress

Rejudges == Permutations({r1, r2})
=============================================================================
