---------------------------- MODULE SyscallFilter ----------------------------
(***************************************************************************)
(* syscalls.cpp: how often the traced program may still make each system   *)
(* call, and the flag that tells a stop at the entry of a call from the    *)
(* stop at its return.  ptrace does not say which it is; the code flips    *)
(* the flag at each stop, and never sets it otherwise.                     *)
(***************************************************************************)
EXTENDS Integers

CONSTANTS
  Call,  \* numbers of system calls
  SC     \* per language, the initial count of each: < 0 for no limit

SYSCALLS_INFINITE == -1

\* int syscalls[1024], which is_valid_syscall indexes with any number.
TableSize == 1024
InTable(c) == c < TableSize

ASSUME FilterAssumption ==
  Call \subseteq Int /\ \A lang \in DOMAIN SC : SC[lang] \in [Call -> Int]

VARIABLES in_syscall, syscalls
filter == <<in_syscall, syscalls>>

\* The program starts with in_syscall = true and no call allowed.
InitFilter ==
  /\ in_syscall = TRUE
  /\ syscalls = [c \in Call |-> 0]

\* Mutant: the flag starts again with every test, from the wrong side.
InitAndReset(lang) ==
  /\ syscalls' = SC[lang]
  /\ in_syscall' = FALSE

init_syscalls(lang) ==
  /\ syscalls' = SC[lang]
  /\ UNCHANGED in_syscall

\* Mutant: a count of one is as good as none left.
KeepLast(c) ==
  IF InTable(c)
  THEN [syscalls EXCEPT ![c] = IF @ > 1 /\ ~in_syscall' THEN @ - 1 ELSE @]
  ELSE syscalls

\* One call less, at the stop that the flag says is the return.  Beyond the
\* table it is some other variable that is decremented.
Decrement(c) ==
  IF InTable(c)
  THEN [syscalls EXCEPT ![c] = IF @ > 0 /\ ~in_syscall' THEN @ - 1 ELSE @]
  ELSE syscalls

IsAllowed(c) == syscalls[c] # 0

\* What is_valid_syscall may return: beyond the table, whatever is there.
Answers(c) == IF InTable(c) THEN {IsAllowed(c)} ELSE BOOLEAN

\* Mutant: the stops of calls without a limit are not followed.
FlipIfCounted(c) ==
  /\ in_syscall' = IF syscalls[c] < 0 THEN in_syscall ELSE ~in_syscall
  /\ syscalls' = Decrement(c)

is_valid_syscall(c) ==
  /\ in_syscall' = ~in_syscall
  /\ syscalls' = Decrement(c)
=============================================================================
