------------------------------ MODULE JudgeRun ------------------------------
(***************************************************************************)
(* One run of powerjudge, judge.cpp: it arms the judge clock, compiles the *)
(* submission, runs it on each test under ptrace, compares the output and  *)
(* leaves the verdict in result.txt.                                       *)
(*                                                                         *)
(* The process is sequential; what it does not control is the compiler,    *)
(* the traced program (the executor), the special judge, the clock, and    *)
(* what system calls return.  Times and memories are numbers, compared and *)
(* accumulated as the code does.                                           *)
(***************************************************************************)
EXTENDS Integers, Sequences

CONSTANTS
  Tasks,     \* what the command line and the data directory may say
  Times,     \* CPU times (ms) that the executor may have used
  Memories,  \* resident set sizes (KB) that it may have
  Signals    \* the kinds of signals, of SignalKind, that it may get

Lang == {"c", "pascal", "java", "kotlin", "python"}
SignalKind == {"child",   \* SIGCHLD; C and C++ programs may send it (tgkill)
               "time",    \* SIGALRM, SIGVTALRM, SIGXCPU
               "output",  \* SIGXFSZ
               "error"}   \* any other

\* in: the tests, files *.in; out: how many of them have a file *.out;
\* spj: the problem has a special judge; old: stderr_executive.txt already
\* holds something when powerjudge starts.
Task == [lang : Lang, type : {"ACM", "OI"}, spj : BOOLEAN, in : Nat, out : Nat,
         old : BOOLEAN, time_limit : Nat, memory_limit : Nat \ {0}]

ASSUME JudgeRunAssumption ==
  /\ Tasks \subseteq Task /\ \A t \in Tasks : t.out <= t.in
  /\ Times \subseteq Nat /\ Memories \subseteq Nat
  /\ Signals \subseteq SignalKind

OJ_AC == 0
OJ_PE == 1
OJ_TLE == 2
OJ_MLE == 3
OJ_WA == 4
OJ_RE == 5
OJ_OLE == 6
OJ_CE == 7
OJ_RF == 8
OJ_VE == 10
Verdict == {OJ_AC, OJ_PE, OJ_TLE, OJ_MLE, OJ_WA, OJ_RE, OJ_OLE, OJ_CE, OJ_RF, OJ_VE}

EXIT_OK == 0
EXIT_UNPRIVILEGED == 1
EXIT_VERY_FIRST == 5
EXIT_COMPILE_ERROR == 6
EXIT_PRE_JUDGE == 9
EXIT_PRE_JUDGE_DAA == 12
EXIT_JUDGE == 21
EXIT_COMPARE == 27
EXIT_COMPARE_SPJ == 30
EXIT_TIMEOUT == 36
\* EXIT_CHDIR, EXIT_BAD_PARAM, EXIT_MISS_PARAM, EXIT_NO_SOURCE_CODE,
\* EXIT_PRIVILEGED
BeforeClock == {2, 3, 4, 7, 8}
STD_KB == 1024

NoStatus == <<"none", 0>>
Killed == <<"signaled", 0>>

VARIABLES
  task,         \* an element of Tasks; does not change
  pc,           \* what the process does next
  clock,        \* ITIMER_REAL is running
  test,         \* i, the number of the test it is at
  result, time_usage, memory_usage,   \* of oj_solution
  first,        \* first_failed_test
  errlog,       \* stderr_executive.txt is not empty
  how,          \* how the program's run on this test ended
  ran,          \* history: what became of each test that has been run
  report,       \* the four numbers output_acm_result is called with
  leave,        \* the exit code that follows them
  file,         \* result.txt: "old", "empty" or "report"
  status        \* how the process has ended

usage == <<result, time_usage, memory_usage>>
judging == <<test, usage, first, errlog, how, ran>>
output == <<report, leave, file>>
vars == <<task, pc, clock, judging, output, status>>

\* How a run on one test ends.
Outcome == {"AC", "PE", "WA", "VE", "child", "exit", "time", "output", "error",
            "memory", "syscall", "limit"}

Report == [result : Verdict, time : Nat, memory : Nat, test : Nat]

TypeOK ==
  /\ task \in Tasks
  /\ pc \in {"init", "handle", "compile", "scan", "next", "trace", "compare",
             "measure", "open", "close", "leave", "gone"}
  /\ clock \in BOOLEAN
  /\ test \in Nat /\ first \in 0 .. test
  /\ result \in Verdict /\ time_usage \in Nat /\ memory_usage \in Nat
  /\ errlog \in BOOLEAN
  /\ how \in Outcome
  /\ ran \in Seq(Outcome)
  /\ report \in Report
  /\ leave \in {EXIT_OK, EXIT_COMPILE_ERROR}
  /\ file \in {"old", "empty", "report"}
  /\ status \in {NoStatus, Killed} \cup ({"exited"} \X Nat)

Blank == [result |-> OJ_AC, time |-> 0, memory |-> 0, test |-> 0]

Init ==
  /\ task \in Tasks
  /\ pc = "init" /\ clock = FALSE /\ status = NoStatus
  /\ test = 0 /\ first = 0
  /\ result = OJ_AC /\ time_usage = 0 /\ memory_usage = 0
  /\ errlog = task.old
  /\ how = "AC" /\ ran = <<>>
  /\ report = Blank /\ leave = EXIT_OK /\ file = "old"

At(label) == pc = label /\ UNCHANGED task
Goto(label) == pc' = label /\ UNCHANGED <<clock, status>>

\* exit(c) in the judge process
Exit(c) == /\ pc' = "gone" /\ status' = <<"exited", c>>
           /\ UNCHANGED clock

-----------------------------------------------------------------------------
(* main, up to compile *)

\* get_num_of_test as main calls it: check_spj has not been called yet, so a
\* test without an .out file does not count.
Counted == task.out

RefuseToStart ==
  /\ At("init")
  /\ \E c \in BeforeClock \cup {EXIT_PRE_JUDGE_DAA, EXIT_VERY_FIRST} : Exit(c)
  /\ UNCHANGED <<judging, output>>

\* Mutant: the timer of a process that is about to be replaced by execl.
ArmNothing ==
  /\ At("init")
  /\ clock' = FALSE
  /\ pc' = "handle"
  /\ UNCHANGED <<status, judging, output>>

\* malarm(ITIMER_REAL, judge_time_limit); a time of zero disarms the timer.
ArmClock ==
  /\ At("init")
  /\ clock' = (Counted > 0)
  /\ pc' = "handle"
  /\ UNCHANGED <<status, judging, output>>

InstallHandler ==
  /\ At("handle")
  /\ Goto("compile") \/ Exit(EXIT_VERY_FIRST)
  /\ UNCHANGED <<judging, output>>

\* Real time runs out: timeout_hander exits; without it SIGALRM kills.
ClockExpires ==
  /\ clock /\ status = NoStatus
  /\ clock' = FALSE /\ pc' = "gone"
  /\ status' = IF pc = "handle" THEN Killed ELSE <<"exited", EXIT_TIMEOUT>>
  /\ UNCHANGED <<task, judging, output>>

-----------------------------------------------------------------------------
(* compile *)

\* output_acm_result(verdict, ...) and then exit(code)
OutputThenExit(rep, code) ==
  /\ report' = rep /\ leave' = code
  /\ Goto("open")
  /\ UNCHANGED file

CompileError == [Blank EXCEPT !.result = OJ_CE]

CompileSucceeds ==
  /\ At("compile")
  /\ Goto("scan")
  /\ UNCHANGED <<judging, output>>

\* Mutant: every exit(6) of compile follows output_acm_result.
CompileFailsQuietly ==
  /\ At("compile")
  /\ \E code \in {EXIT_OK, EXIT_COMPILE_ERROR} : Exit(code)
  /\ UNCHANGED <<judging, output>>

\* The compiler rejects the program, or writes to stderr (Python), or is
\* killed by a limit, with exit(EXIT_OK); or ends with a status that
\* fix_gcc_result cannot explain, which the child of fork does too when it
\* cannot set its limits or run the compiler.
CompileFails ==
  /\ At("compile")
  /\ \E code \in {EXIT_OK, EXIT_COMPILE_ERROR} : OutputThenExit(CompileError, code)
  /\ UNCHANGED judging

\* fork or waitpid fails, or the compiler is stopped: nothing is written.
CompileBreaks ==
  /\ At("compile")
  /\ Exit(EXIT_COMPILE_ERROR)
  /\ UNCHANGED <<judging, output>>

-----------------------------------------------------------------------------
(* run_solution *)

\* scandir after check_spj: with a special judge every test counts.
Cases == IF task.spj THEN task.in ELSE task.out

ScanTests ==
  /\ At("scan")
  /\ Goto("next") \/ Exit(EXIT_PRE_JUDGE_DAA)
  /\ UNCHANGED <<judging, output>>

\* Mutant: the loop goes on after a failure in ACM too.
NoStop == FALSE

\* if (!result && oj_solution.judge_type == ACM) break;
StopEarly == task.type = "ACM" /\ result # OJ_AC

\* The next test: judge forks the executor.
NextTest ==
  /\ At("next")
  /\ test < Cases /\ ~StopEarly
  /\ Goto("trace") \/ Exit(EXIT_PRE_JUDGE)
  /\ test' = test + 1
  /\ UNCHANGED <<usage, first, errlog, how, ran, output>>

\* The loop ends, and its result is output.
EndTests ==
  /\ At("next")
  /\ test = Cases \/ StopEarly
  /\ OutputThenExit([result |-> result, time |-> time_usage,
                     memory |-> memory_usage, test |-> first], EXIT_OK)
  /\ UNCHANGED judging

-----------------------------------------------------------------------------
(* judge: the wait4 loop *)

\* The loop is left with a verdict on this test.
Break(verdict, outcome) ==
  /\ result' = verdict
  /\ how' = outcome
  /\ Goto("measure")

\* Mutant: a test whose wait4 fails is run again.
TraceRetried ==
  /\ At("trace")
  /\ Goto("next") /\ test' = test - 1
  /\ UNCHANGED <<usage, first, errlog, how, ran, output>>

\* wait4 or ptrace fails.
TraceBreaks ==
  /\ At("trace")
  /\ Exit(EXIT_JUDGE)
  /\ UNCHANGED <<judging, output>>

\* The program, or the child that could not start it, exits; it may have
\* written to stderr.  The exit status matters for Java and Kotlin only.
ProgramExits ==
  /\ At("trace")
  /\ errlog' \in {errlog, TRUE}
  /\ \/ Goto("compare") /\ UNCHANGED <<result, how>>
     \/ task.lang \in {"java", "kotlin"} /\ Break(OJ_RE, "exit")
  /\ UNCHANGED <<time_usage, memory_usage, test, first, ran, output>>

VerdictFor(signal) == CASE signal = "child" -> OJ_AC
                        [] signal = "time" -> OJ_TLE
                        [] signal = "output" -> OJ_OLE
                        [] signal = "error" -> OJ_RE

\* The program is stopped, or has been killed, by a signal.
ProgramSignaled ==
  /\ At("trace")
  /\ \E s \in Signals : /\ Break(VerdictFor(s), s)
                        /\ errlog' = (errlog \/ s = "error")
  /\ UNCHANGED <<time_usage, memory_usage, test, first, ran, output>>

Larger(a, b) == IF a > b THEN a ELSE b

\* A stop for ptrace: the memory is looked at, then the system call.
ProgramTrapped ==
  /\ At("trace")
  /\ \E m \in Memories :
       LET peak == Larger(memory_usage, m)
       IN  /\ memory_usage' = peak
           /\ \/ peak > task.memory_limit /\ Break(OJ_MLE, "memory")
              \/ peak <= task.memory_limit /\ Break(OJ_RF, "syscall")
              \/ peak <= task.memory_limit /\ UNCHANGED <<pc, clock, status, result, how>>
  /\ UNCHANGED <<time_usage, test, first, errlog, ran, output>>

-----------------------------------------------------------------------------
(* judge: the verdict on the test *)

\* oj_compare_output, or the special judge, which may also fail or be killed.
ComparedAs == {"AC", "PE", "WA"} \cup (IF task.spj THEN {"VE"} ELSE {})
VerdictOf(c) == CASE c = "AC" -> OJ_AC [] c = "PE" -> OJ_PE
                  [] c = "WA" -> OJ_WA [] c = "VE" -> OJ_VE

Compare ==
  /\ At("compare")
  /\ \/ \E c \in ComparedAs :
          Break(IF c = "WA" THEN OJ_WA
                ELSE IF result # OJ_PE THEN VerdictOf(c) ELSE OJ_PE, c)
     \/ /\ Exit(IF task.spj THEN EXIT_COMPARE_SPJ ELSE EXIT_COMPARE)
        /\ UNCHANGED <<result, how>>
  /\ UNCHANGED <<time_usage, memory_usage, test, first, errlog, ran, output>>

\* What the limits make of a verdict: over the memory limit is MLE, and over
\* the time limit is TLE whatever else it is.
Limited(verdict, time, memory) ==
  IF time > task.time_limit THEN OJ_TLE
  ELSE IF memory > task.memory_limit THEN OJ_MLE ELSE verdict

\* fix_java_result and the look at stderr_executive.txt turn WA into what the
\* program's messages suggest; a Java program out of memory is given a usage
\* over its limit.
Corrected(verdict, memory) ==
  {[result |-> verdict, memory |-> memory]} \cup
  IF verdict # OJ_WA THEN {}
  ELSE IF task.lang = "java"
  THEN {[result |-> OJ_RE, memory |-> memory],
        [result |-> OJ_MLE, memory |-> task.memory_limit * STD_KB]}
  ELSE {}
Final(verdict, memory) ==
  IF verdict = OJ_WA /\ task.lang = "python" /\ errlog
  THEN {[result |-> OJ_RE, memory |-> memory]}
  ELSE Corrected(verdict, memory)

\* Mutant: the time of a program that was stopped is what it used.
CapUnlessFirst(verdict, time) ==
  IF verdict = OJ_TLE /\ first # 0 THEN task.time_limit ELSE time

\* if (result == OJ_TLE) time_usage = time_limit
Capped(verdict, time) == IF verdict = OJ_TLE THEN task.time_limit ELSE time

\* Mutant: i + 1 where i has been incremented already.
FirstFrom2(verdict) ==
  IF verdict # OJ_AC /\ first = 0 THEN test + 1 ELSE first

\* Mutant: i for i + 1.
FirstFrom0(verdict) ==
  IF verdict # OJ_AC /\ first = 0 THEN test - 1 ELSE first

FirstFailed(verdict) == IF verdict # OJ_AC /\ first = 0 THEN test ELSE first

\* The end of judge, and of the body of run_solution's loop.
Measure ==
  /\ At("measure")
  /\ \E t \in Times, m \in Memories :
       LET time == Larger(time_usage, t)
           memory == Larger(memory_usage, m)
           verdict == Limited(result, time, memory)
       IN  /\ \E f \in Final(verdict, memory) :
                /\ result' = f.result
                /\ memory_usage' = f.memory
                /\ first' = FirstFailed(f.result)
           /\ time_usage' = Capped(verdict, time)
           /\ ran' = Append(ran, IF \/ t > task.time_limit
                                    \/ m > task.memory_limit
                                 THEN "limit" ELSE how)
  /\ Goto("next")
  /\ UNCHANGED <<test, errlog, how, output>>

-----------------------------------------------------------------------------
(* output_acm_result and the end *)

\* fopen("result.txt", "w")
OpenResult ==
  /\ At("open")
  /\ file' = "empty"
  /\ Goto("close")
  /\ UNCHANGED <<judging, report, leave>>

\* fprintf and fclose
CloseResult ==
  /\ At("close")
  /\ file' = "report"
  /\ Goto("leave")
  /\ UNCHANGED <<judging, report, leave>>

Leave ==
  /\ At("leave")
  /\ Exit(leave)
  /\ UNCHANGED <<judging, output>>

\* log_write, which every step calls, cannot lock or write the log file; or
\* init_connet cannot open judged.conf.
LogFails ==
  /\ status = NoStatus
  /\ Exit(EXIT_UNPRIVILEGED)
  /\ UNCHANGED <<task, judging, output>>

\* The process is killed: from outside, or because it writes to a result.txt
\* that it could not open.
Kill ==
  /\ status = NoStatus
  /\ status' = Killed /\ pc' = "gone" /\ clock' = FALSE
  /\ UNCHANGED <<task, judging, output>>

-----------------------------------------------------------------------------
CompileEnds == CompileSucceeds \/ CompileFails \/ CompileBreaks

Proceed ==
  \/ RefuseToStart \/ ArmClock \/ InstallHandler
  \/ ScanTests \/ NextTest \/ EndTests
  \/ TraceBreaks \/ ProgramExits \/ ProgramSignaled \/ ProgramTrapped
  \/ Compare \/ Measure
  \/ OpenResult \/ CloseResult \/ Leave

Next == Proceed \/ CompileEnds \/ ClockExpires \/ LogFails \/ Kill

Spec == Init /\ [][Next]_vars

\* The process goes on and time passes.  Nothing says that the compiler, the
\* executor or the special judge ends: the timers they are given expire, but
\* a program may block SIGALRM and sleep.
Fairness ==
  /\ WF_vars(pc \notin {"compile", "trace", "compare"} /\ Proceed)
  /\ WF_vars(ClockExpires)

FairSpec == Spec /\ Fairness

-----------------------------------------------------------------------------
(* Properties *)

\* The run has succeeded with a verdict on a program that compiled.
Judged == status = <<"exited", EXIT_OK>> /\ report.result # OJ_CE

\* The tests that do not fail: accepted, or broken off by SIGCHLD.
Passed == {"AC", "child"}

\* In ACM mode AC means that every test was run, and each but those that
\* SIGCHLD broke off was compared and found right, within the limits: no test
\* is skipped, and no failure on an earlier test or of another kind is lost.
AcceptedMeansNoneFailed ==
  Judged /\ report.result = OJ_AC /\ task.type = "ACM" =>
    /\ Len(ran) = Cases
    /\ \A i \in DOMAIN ran : ran[i] \in Passed

\* The comment "Ignore" beside SIGCHLD in judge: in ACM mode AC means that the
\* output of every test was compared and found right, SIGCHLD or not.
AcceptedMeansAllAccepted ==
  Judged /\ report.result = OJ_AC /\ task.type = "ACM" =>
    \A i \in DOMAIN ran : ran[i] = "AC"

\* The fourth number of result.txt is the first test that failed, or 0 if
\* none did.
TestIsFirstFailure ==
  Judged => LET failed == {i \in DOMAIN ran : ran[i] \notin Passed}
            IN  IF failed = {} THEN report.test = 0
                ELSE report.test \in failed /\ \A i \in failed : report.test <= i

\* The verdict and the usage reported with it agree: no time over the limit,
\* all of it for TLE, and memory over the limit for MLE, and for no other
\* verdict but TLE.
UsageExplainsVerdict ==
  Judged => /\ report.time <= task.time_limit
            /\ report.result = OJ_TLE => report.time = task.time_limit
            /\ report.result = OJ_MLE => report.memory > task.memory_limit
            /\ report.memory > task.memory_limit => report.result \in {OJ_MLE, OJ_TLE}

\* The comment "previous case is AC" in judge: the problem is accepted only
\* if no test has failed.
AcceptedMeansNoFailure == Judged /\ report.result = OJ_AC => report.test = 0

\* How many steps the process can still take, stops of the program apart:
\* four for each test to come, and those of its other stages.
StepsLeft ==
  LET toCome == 4 * (Cases - test)
  IN  CASE pc = "init" -> toCome + 8    [] pc = "handle" -> toCome + 7
        [] pc = "compile" -> toCome + 6 [] pc = "scan" -> toCome + 5
        [] pc = "trace" -> toCome + 7   [] pc = "compare" -> toCome + 6
        [] pc = "measure" -> toCome + 5 [] pc = "next" -> toCome + 4
        [] pc = "open" -> 3 [] pc = "close" -> 2 [] pc = "leave" -> 1
        [] pc = "gone" -> 0

\* Every step but a stop of the traced program brings the run nearer to its
\* end: no failure or signal makes powerjudge run a test again or compile
\* again.  So a run that does not end is one whose program runs for ever,
\* which the clock is for.
RunsForward ==
  [][(pc = "trace" /\ pc' = "trace") \/ StepsLeft' \in 0 .. StepsLeft - 1]_vars

\* Liveness: powerjudge ends; the judge clock sees to it (judge.h).
Ends == <>(status # NoStatus)

\* JudgeRun implements what the daemon relies on.
Other == EXIT_TIMEOUT
StatusClass == IF status[1] = "exited" /\ status[2] \notin {0, 6, 21}
               THEN <<"exited", Other>> ELSE status
Phase == [old |-> "running", empty |-> "truncated", report |-> "written"]
Process == INSTANCE JudgeProcess
  WITH phase <- IF status # NoStatus THEN "ended" ELSE Phase[file],
       status <- StatusClass

ImplementsJudgeProcess == Process!Spec
=============================================================================
