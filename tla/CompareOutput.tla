---------------------------- MODULE CompareOutput ----------------------------
(***************************************************************************)
(* oj_compare_output, judge.cpp: the standard output of a test and the     *)
(* program's own are read character by character, from two stdio streams.  *)
(* An iteration of the loop is one action; a character that ungetc puts    *)
(* back is one not consumed.  After Definition comes what the loop should  *)
(* compute, written without it.                                            *)
(***************************************************************************)
EXTENDS Integers, Sequences, FiniteSets

CONSTANT Files  \* what the two files may hold: sequences of characters
ASSUME FilesAssumption == Files \subseteq Seq(STRING)

CR == "return"
is_space_char(a) == a \in {"space", "tab", "newline"}

VARIABLES
  cmp,                  \* "closed", "open" (in the loop) or "done"
  file_out, file_user,  \* the contents of the two files
  std_at, exe_at,       \* how much of each has been consumed
  found                 \* status: AC, PE or WA
comparison == <<cmp, file_out, file_user, std_at, exe_at, found>>

InitCompare ==
  /\ cmp = "closed"
  /\ file_out = <<>> /\ file_user = <<>> /\ std_at = 0 /\ exe_at = 0 /\ found = "AC"

OpenFiles ==
  /\ cmp = "closed"
  /\ cmp' = "open" /\ found' = "AC"
  /\ file_out' \in Files /\ file_user' \in Files /\ std_at' = 0 /\ exe_at' = 0

CloseFiles ==
  /\ cmp' = "closed"
  /\ file_out' = <<>> /\ file_user' = <<>> /\ std_at' = 0 /\ exe_at' = 0 /\ found' = "AC"

\* fgetc until it is no CR: what has been consumed just before, one number.
PastCR(f, n) == {m \in n .. Len(f) : /\ \A k \in n + 1 .. m : f[k] = CR
                                     /\ m = Len(f) \/ f[m + 1] # CR}

\* Mutant: the end of a file counts as a character of it.
AtEndCounted(m, n) ==
  /\ m = Len(file_out) \/ n = Len(file_user)
  /\ LET rest == {file_out[k] : k \in m + 1 .. Len(file_out)} \cup
                 {file_user[k] : k \in n + 1 .. Len(file_user)}
     IN  found' = IF \A c \in rest : is_space_char(c) \/ c = CR THEN found ELSE "WA"
  /\ cmp' = "done"
  /\ std_at' = Len(file_out) + 1 /\ exe_at' = Len(file_user) + 1

\* Mutant: the trailing text is looked at up to its first character only.
AtEndShort(m, n) ==
  /\ m = Len(file_out) \/ n = Len(file_user)
  /\ found' = IF \/ m < Len(file_out) /\ ~is_space_char(file_out[m + 1])
                 \/ n < Len(file_user) /\ ~is_space_char(file_user[n + 1])
              THEN "WA" ELSE found
  /\ cmp' = "done"
  /\ std_at' = Len(file_out) /\ exe_at' = Len(file_user)

\* The end of both, or of one: the other may only hold white space more.
AtEnd(m, n) ==
  /\ m = Len(file_out) \/ n = Len(file_user)
  /\ LET rest == {file_out[k] : k \in m + 1 .. Len(file_out)} \cup
                 {file_user[k] : k \in n + 1 .. Len(file_user)}
     IN  found' = IF \A c \in rest : is_space_char(c) \/ c = CR THEN found ELSE "WA"
  /\ cmp' = "done"
  /\ std_at' = Len(file_out) /\ exe_at' = Len(file_user)

Equal(m, n) == /\ std_at' = m + 1 /\ exe_at' = n + 1
               /\ UNCHANGED <<cmp, found>>

\* Mutant: both characters are put back.
DifferBack(m, n, a, b) ==
  \/ /\ is_space_char(a) \/ is_space_char(b)
     /\ found' = "PE" /\ UNCHANGED cmp
     /\ std_at' = (IF is_space_char(a) /\ is_space_char(b) THEN m + 1 ELSE m)
     /\ exe_at' = (IF is_space_char(a) /\ is_space_char(b) THEN n + 1 ELSE n)
  \/ /\ ~is_space_char(a) /\ ~is_space_char(b)
     /\ found' = "WA" /\ cmp' = "done"
     /\ std_at' = m + 1 /\ exe_at' = n + 1

\* Of two different characters the one that is no white space waits.
Differ(m, n, a, b) ==
  \/ /\ is_space_char(a) \/ is_space_char(b)
     /\ found' = "PE" /\ UNCHANGED cmp
     /\ std_at' = (IF is_space_char(a) THEN m + 1 ELSE m)
     /\ exe_at' = (IF is_space_char(b) THEN n + 1 ELSE n)
  \/ /\ ~is_space_char(a) /\ ~is_space_char(b)
     /\ found' = "WA" /\ cmp' = "done"
     /\ std_at' = m + 1 /\ exe_at' = n + 1

\* The body of the loop.
Iterate ==
  /\ cmp = "open"
  /\ \E m \in PastCR(file_out, std_at), n \in PastCR(file_user, exe_at) :
       \/ AtEnd(m, n)
       \/ /\ m < Len(file_out) /\ n < Len(file_user)
          /\ LET a == file_out[m + 1]
                 b == file_user[n + 1]
             IN  \/ a = b /\ Equal(m, n)
                 \/ a # b /\ Differ(m, n, a, b)
  /\ UNCHANGED <<file_out, file_user>>

-----------------------------------------------------------------------------
(* Definition *)

\* The positions of the characters that count: in the text of a file, and
\* among them those that can be seen.
Text(f) == {k \in DOMAIN f : f[k] # CR}
Visible(f) == {k \in Text(f) : ~is_space_char(f[k])}

\* How many of the positions S come up to k.
Rank(S, k) == Cardinality({i \in S : i <= k})

\* The n-th of the characters at S in f and the n-th at T in g are the same,
\* for as many as there are of both.
Agree(f, S, g, T) ==
  \A i \in S, j \in T : Rank(S, i) = Rank(T, j) => f[i] = g[j]

SameVisible(f, g) == /\ Cardinality(Visible(f)) = Cardinality(Visible(g))
                     /\ Agree(f, Visible(f), g, Visible(g))

\* The text of g is that of f and then white space.
Extends(g, f) ==
  /\ Cardinality(Text(f)) <= Cardinality(Text(g))
  /\ Agree(f, Text(f), g, Text(g))
  /\ \A k \in Text(g) :
       Rank(Text(g), k) > Cardinality(Text(f)) => is_space_char(g[k])

Definition(f, g) ==
  IF ~SameVisible(f, g) THEN "WA"
  ELSE IF Extends(g, f) \/ Extends(f, g) THEN "AC" ELSE "PE"

\* The loop's verdict is the one defined: right up to carriage returns and
\* trailing white space, up to any white space, or wrong.
ComparedAsDefined == cmp = "done" => found = Definition(file_out, file_user)

\* Every iteration consumes a character, and none is read twice: the loop
\* ends, however often ungetc puts a character back.
IterationConsumes ==
  [][cmp = "open" /\ cmp' = "open" =>
       /\ std_at' >= std_at /\ exe_at' >= exe_at
       /\ std_at' + exe_at' > std_at + exe_at]_comparison
=============================================================================
