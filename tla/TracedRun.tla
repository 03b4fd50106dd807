------------------------------ MODULE TracedRun ------------------------------
(***************************************************************************)
(* A run of powerjudge, JudgeRun, with what it leaves open filled in: the  *)
(* stops of the traced program and the system calls they are for (module   *)
(* SyscallFilter), the comparison of the output (module CompareOutput),    *)
(* and the real time that passes, which the judge clock is set against.    *)
(*                                                                         *)
(* Every action is one of JudgeRun's together with the detail, or a step   *)
(* of the detail that JudgeRun does not see.  A stage may take any time:   *)
(* the timers of the compiler and of the executor do not end a program     *)
(* that blocks SIGALRM and sleeps.                                         *)
(***************************************************************************)
EXTENDS JudgeRun, SyscallFilter, CompareOutput

CONSTANTS
  execve,     \* the call that starts the program
  Exits,      \* the calls that do not return: exit, exit_group
  Traps,      \* the calls a SIGTRAP may follow: execve, tgkill
  Durations,  \* how long a stage may take, in ms
  Slow        \* the stages, values of pc, that take time if they end

judge_time_limit == 15347
compile_time_limit == 5347
time_limit_addtion == 347

ASSUME TracedAssumption ==
  /\ DOMAIN SC = Lang
  /\ execve \in Call /\ execve > 0 /\ InTable(execve)
  /\ \A lang \in Lang : SC[lang][execve] # 0
  /\ Exits \subseteq Call /\ \A c \in Exits : c > 0
  /\ Traps \subseteq Call
  /\ 0 \in Durations /\ Durations \subseteq Nat

VARIABLES
  stage,    \* where the traced program is: "forked" (not yet execve'd),
            \* "user", "kernel" (in a call), "trap" (SIGTRAP is pending)
  call,     \* the last call it made, what orig_rax holds
  used,     \* history: how often each limited call was let through
  odd,      \* history: there was a stop that is not one of a system call,
            \* or a call beyond the table
  elapsed,  \* real time since the clock was armed, when the stage began
  overran,  \* history: the compiler or a program went on after its limit
  own       \* history: what of elapsed was neither the compiler's time nor
            \* the program's
program == <<stage, call, used, odd>>
timing == <<elapsed, overran, own>>
tracedVars == <<vars, filter, comparison, program, timing>>

limit == SC[task.lang]
NoneUsed == [c \in Call |-> 0]

TracedInit ==
  /\ Init /\ InitFilter /\ InitCompare
  /\ stage = "forked" /\ call = execve /\ used = NoneUsed /\ odd = FALSE
  /\ elapsed = 0 /\ overran = FALSE /\ own = 0

-----------------------------------------------------------------------------
(* Real time *)

\* Mutant: the budget of one test for all of them.
BudgetOfOne == judge_time_limit + task.time_limit

Budget == (judge_time_limit + task.time_limit) * Counted

\* The stage takes d ms.  The limits are those that the children are given
\* timers for: the compilers of C and Pascal, and the executor.
Takes(d) ==
  /\ elapsed' = elapsed + d
  /\ overran' = \/ overran
                \/ pc = "compile" /\ d > compile_time_limit
                \/ pc = "trace" /\ d > task.time_limit + time_limit_addtion
  /\ own' = IF pc \in {"compile", "trace"} THEN own ELSE own + d

\* A stage that ends has taken less than the clock left it.
Elapse ==
  IF pc' = pc \/ status' # NoStatus THEN UNCHANGED timing
  ELSE \E d \in IF pc \in Slow THEN Durations ELSE {0} :
         (clock => elapsed + d < Budget) /\ Takes(d)

\* Any stage may take all that is left.
TimeIsUp ==
  /\ ClockExpires
  /\ Takes(Budget - elapsed)
  /\ CloseFiles
  /\ UNCHANGED <<filter, program>>

-----------------------------------------------------------------------------
(* The traced program *)

StartTest ==
  /\ NextTest
  /\ IF pc' = "trace"
     THEN /\ init_syscalls(task.lang)
          /\ stage' = "forked" /\ call' = execve /\ used' = NoneUsed
          /\ UNCHANGED odd
     ELSE UNCHANGED <<filter, program>>
  /\ Elapse
  /\ UNCHANGED comparison

\* A stop for ptrace with c in orig_rax.  The memory comes first; call 0,
\* read, is never looked up, and a call that is refused ends the test.
Stop(c) ==
  /\ ProgramTrapped
  /\ \/ /\ \/ memory_usage' > task.memory_limit
           \/ c <= 0 /\ pc' = "trace"
        /\ UNCHANGED filter
     \/ /\ memory_usage' <= task.memory_limit /\ c > 0
        /\ \E allowed \in Answers(c) : pc' = IF allowed THEN "trace" ELSE "measure"
        /\ is_valid_syscall(c)
  /\ Elapse
  /\ UNCHANGED comparison

Counting(c) == IF InTable(c) /\ limit[c] >= 0 THEN [used EXCEPT ![c] = @ + 1] ELSE used

\* The program has been loaded: a SIGTRAP, with execve in orig_rax.
ExecStop ==
  /\ stage = "forked"
  /\ Stop(execve)
  /\ call' = execve
  /\ IF pc' = "trace" THEN stage' = "user" /\ used' = Counting(execve)
                      ELSE stage' = "kernel" /\ UNCHANGED used
  /\ UNCHANGED odd

\* The program makes a call; one that is refused is not executed.
EnterStop ==
  /\ stage = "user"
  /\ \E c \in Call :
       /\ Stop(c)
       /\ call' = c
       /\ used' = IF pc' = "trace" THEN Counting(c) ELSE used
       /\ odd' = (odd \/ ~InTable(c))
  /\ stage' = "kernel"

ReturnStop ==
  /\ stage = "kernel" /\ call \notin Exits
  /\ Stop(call)
  /\ stage' \in {"user"} \cup (IF call \in Traps THEN {"trap"} ELSE {})
  /\ UNCHANGED <<call, used, odd>>

\* A SIGTRAP that is no stop of a system call: another program has been
\* loaded, or the program has sent it to itself.
OddStop ==
  /\ stage = "trap"
  /\ Stop(call)
  /\ stage' = "user" /\ odd' = TRUE
  /\ UNCHANGED <<call, used>>

\* The child could not start the program, or the program is in exit.  What
\* is known of it goes, but for the flag and the counts.
ProgramEnds ==
  /\ \/ stage = "forked"
     \/ stage = "kernel" /\ call \in Exits
  /\ ProgramExits
  /\ stage' = "forked" /\ call' = execve /\ used' = NoneUsed
  /\ Elapse
  /\ UNCHANGED <<filter, odd, comparison>>

-----------------------------------------------------------------------------
(* The comparison of the output *)

Undisturbed == UNCHANGED <<vars, filter, program, timing>>

OpenOutput == At("compare") /\ ~task.spj /\ OpenFiles /\ Undisturbed
CompareOn == At("compare") /\ Iterate /\ Undisturbed

CompareEnds ==
  /\ Compare
  /\ \/ task.spj /\ UNCHANGED comparison
     \/ ~task.spj /\ cmp = "closed" /\ pc' = "gone" /\ UNCHANGED comparison
     \/ ~task.spj /\ cmp = "done" /\ pc' = "measure" /\ how' = found /\ CloseFiles
  /\ Elapse
  /\ UNCHANGED <<filter, program>>

-----------------------------------------------------------------------------
Elsewhere ==
  /\ \/ RefuseToStart \/ ArmClock \/ InstallHandler \/ CompileEnds
     \/ ScanTests \/ EndTests \/ TraceBreaks \/ ProgramSignaled \/ Measure
     \/ OpenResult \/ CloseResult \/ Leave \/ LogFails \/ Kill
  /\ IF status' # NoStatus THEN CloseFiles ELSE UNCHANGED comparison
  /\ Elapse
  /\ UNCHANGED <<filter, program>>

TracedNext ==
  \/ StartTest \/ ExecStop \/ EnterStop \/ ReturnStop \/ OddStop \/ ProgramEnds
  \/ OpenOutput \/ CompareOn \/ CompareEnds \/ TimeIsUp \/ Elsewhere

TracedSpec == TracedInit /\ [][TracedNext]_tracedVars

-----------------------------------------------------------------------------
(* Properties *)

TracedTypeOK ==
  /\ TypeOK
  /\ in_syscall \in BOOLEAN
  /\ syscalls \in [Call -> Int]
  /\ cmp \in {"closed", "open", "done"}
  /\ file_out \in Files \cup {<<>>} /\ file_user \in Files \cup {<<>>}
  /\ std_at \in 0 .. Len(file_out) /\ exe_at \in 0 .. Len(file_user)
  /\ found \in {"AC", "PE", "WA"}
  /\ stage \in {"forked", "user", "kernel", "trap"}
  /\ call \in Call /\ used \in [Call -> Nat] /\ odd \in BOOLEAN
  /\ elapsed \in Nat /\ overran \in BOOLEAN /\ own \in Int

\* The ends of a test after which the flag is as at the start: the program
\* has exited, or a call of it was refused.
Regular == {"AC", "PE", "WA", "VE", "exit", "syscall"}

\* Every earlier test has ended so, and there was no stop but those of system
\* calls that are in the table.
InStep == ~odd /\ \A k \in DOMAIN ran : ran[k] \in Regular

\* The header of syscalls.cpp: a call is let through no more often than its
\* count, if the table has one for it.  It holds even when the flag is out of
\* step with the program, but for execve, of which one then goes uncounted.
CallsWithinCount ==
  pc = "trace" =>
    \A c \in Call : c > 0 /\ InTable(c) /\ limit[c] >= 0 /\ (c # execve \/ InStep)
                      => used[c] <= limit[c]

\* The rule in is_valid_syscall: while the stops come as they should, the
\* flag says whether the program is in a call, also in the second test,
\* which starts with the flag that the first one has left.  read has no part.
FlagFollowsProgram ==
  pc = "trace" /\ InStep =>
    (in_syscall <=> \/ stage = "forked"
                    \/ stage = "kernel" /\ call > 0)

\* Then a program is ended for a restricted function only on entry to a call
\* that it has made as often as it may.
RestrictedDeserved ==
  pc = "measure" /\ how = "syscall" /\ InStep =>
    stage = "kernel" /\ limit[call] >= 0 /\ used[call] = limit[call]

\* The judge clock ends a run, whose verdict is lost, only for a reason: the
\* compiler or a program went on after its limit, or powerjudge, the special
\* judge and the system took all that these limits leave of the budget, which
\* is 15 s for each test that is counted, less the time of the compiler.  So
\* the budget covers the compiler and every test at its limit, whichever test
\* it is at, unless there are more tests than the clock counts.
TimeoutExplained ==
  status = <<"exited", EXIT_TIMEOUT>> /\ Cases = Counted =>
    \/ overran
    \/ own >= (judge_time_limit - time_limit_addtion) * Counted - compile_time_limit
=============================================================================
