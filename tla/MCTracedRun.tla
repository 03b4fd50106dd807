----------------------------- MODULE MCTracedRun -----------------------------
(***************************************************************************)
(* Two tests, so that the second starts with the flag the first has left.  *)
(* A call without limit, one with a count of 1, one with none and one      *)
(* beyond the table, besides those that begin and end a program; the       *)
(* numbers are those of x86-64.  The time limit is such that the budget of *)
(* one test would not do.                                                  *)
(***************************************************************************)
EXTENDS TracedRun, TLC

aTask(lang, type, spj) ==
  [lang |-> lang, type |-> type, spj |-> spj, in |-> 2, out |-> 2, old |-> TRUE,
   time_limit |-> 10000, memory_limit |-> 2]

tasks == {aTask("c", "ACM", FALSE), aTask("c", "OI", FALSE), aTask("kotlin", "ACM", TRUE)}

read == 0
write == 1
socket == 41
uname == 63
exit_group == 231
beyond == 1024
calls == {read, write, socket, uname, execve, exit_group, beyond}

counts ==
  [lang \in Lang |->
     read :> -1 @@ write :> -1 @@ socket :> 0 @@ uname :> 1 @@ exit_group :> 1 @@
     beyond :> 0 @@ execve :> (IF lang \in {"c", "java"} THEN 1 ELSE -1)]

\* Every file of up to two characters, and some of three, with which the
\* end of one file, CR, and text that goes on after white space come up.
char == {"x", "return", "space", "newline"}
files == UNION {[1 .. n -> char] : n \in 0 .. 2}
         \cup {<<"y">>, <<"x", "space", "y">>, <<"x", "newline", "newline">>,
               <<"x", "return", "newline">>, <<"space", "x", "x">>, <<"x", "x", "x">>}

\* Definition once more, on the sequences of the characters themselves.
Seen(f) == LET seen(c) == c # CR /\ ~is_space_char(c) IN SelectSeq(f, seen)
Kept(f) == LET kept(c) == c # CR IN SelectSeq(f, kept)
Continues(g, f) == /\ Len(f) <= Len(g)
                   /\ SubSeq(g, 1, Len(f)) = f
                   /\ \A k \in Len(f) + 1 .. Len(g) : is_space_char(g[k])
ASSUME DefinitionAssumption ==
  \A f, g \in files :
    Definition(f, g) =
      IF Seen(f) # Seen(g) THEN "WA"
      ELSE IF Continues(Kept(g), Kept(f)) \/ Continues(Kept(f), Kept(g))
           THEN "AC" ELSE "PE"
=============================================================================
