----------------------------- MODULE MCJudgeRun -----------------------------
(***************************************************************************)
(* Two tests let a verdict on the first meet one on the second; of a usage *)
(* of 1, 2 or 3 one is below a limit of 2, one equal and one above.        *)
(***************************************************************************)
EXTENDS JudgeRun

CONSTANTS Langs, Types

\* The tests in the data directory: none, or two of which none, one or both
\* have an .out file.
aTask(lang, type, spj, in, out, old) ==
  [lang |-> lang, type |-> type, spj |-> spj, in |-> in, out |-> out, old |-> old,
   time_limit |-> 2, memory_limit |-> 2]

tasks == {aTask(lang, type, spj, 2, out, old) :
            lang \in Langs, type \in Types, spj \in BOOLEAN, out \in {1, 2},
            old \in BOOLEAN}

\* Tasks for which main counts no test.
uncounted == {aTask(lang, type, spj, in, 0, FALSE) :
                lang \in Langs, type \in Types, spj \in BOOLEAN, in \in {0, 2}}
=============================================================================
