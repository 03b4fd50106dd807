# PowerJudge in TLA+

Models, model-checking runs and machine-checked proofs for PowerJudge: the
`judged` daemon, which receives submissions and reports verdicts, and
`powerjudge`, the process that judges one submission. File and line numbers
refer to the repository (`src/judged.cpp` and so on).

## 1. The system

| Part | State it keeps | Operations | Hard behaviours | What makes it correct |
|---|---|---|---|---|
| `ThreadSafeQueue` (`thread_safe_queue.hpp`) | `q`, `mut`, `data_cond` | `push`, `GetFrontAndPop` | notify against sleep, spurious wakeups, copy then remove | no lost wakeup; each item handed out once, oldest first; the queue drains |
| daemon, main thread (`judged.cpp` `main`, `work`) | `isRunning`, listening socket, the connection at hand | accept, two reads, acknowledge, push | acknowledges before it pushes; silent or vanished clients; SIGTERM between test and accept | what is acknowledged is judged, in order; SIGTERM ends the daemon |
| daemon, workers (`ThreadWork`, `run`) | a local `oj_solution`, a child | take, fork, exec, waitpid, push outcome | failing fork and exec; interrupted waitpid; stopped, killed or timed-out children | exactly one outcome per submission; success is reported for a run that is over |
| daemon, sender (`SendWork`, `update_result`, `send_multi_result`) | the outcome at hand | take, read `result.txt`, post | stale, empty or overwritten `result.txt`; curl and HTTP failures, a web application that never answers | the verdict posted belongs to the submission, at most once |
| `powerjudge` (`judge.cpp`) | `oj_solution` (verdict and usage so far), clock, test number | compile, run and trace each test, compare, write `result.txt`, exit with a code | the clock may fire anywhere; verdicts merged over tests; exit codes that mean several things | verdict, usage and first failed test agree; it ends; its status tells whether there is a result |
| system call filter (`syscalls.cpp`) | counts per call, `in_syscall` | `init_syscalls`, `is_valid_syscall` | enter/exit parity over several tests | no call beyond its count |
| output comparison (`oj_compare_output`) | two file positions | compare | line ends, white space, end of one file | AC, PE, WA as defined by white-space equality |
| database updater (`db_updater.cpp`) | a connection | progress updates | order against the verdict posted over HTTP | progress never hides a verdict |
| configuration (`read_config.cpp`) | `oj_config` | read once | 16-bit conversions | values in range or defaults |
| logger (`log.cpp`) | one buffer, one file lock | `log_write` | shared by threads, called in signal handlers, exits when it cannot write | a line is one message |
| life cycle (`main`, `check_pid`, `config/judged`) | pid file, port | start, stop, restart | inherited socket, second instance | one daemon per port |

Interactions. The main thread and the workers share `ProcessQueue`; the workers
and the sender share `SendQueue`; every thread reads `isRunning`, which the
SIGTERM handler clears in whatever thread it runs. A worker and its powerjudge
process share nothing but the process status; the process and the sender share
`result.txt`, in a directory that depends on contest and solution only, so that
a rejudge uses the same one. powerjudge traces the program with ptrace, and
keeps real time with one timer.

`PROJECT.json` lists each hazard of this code at its line, with the properties
aimed at it, or the module planned for it.

## 2. The modules

| Module | Role |
|---|---|
| `FifoQueue` | abstract: what the queue promises its callers |
| `ThreadSafeQueue` | the class, one action per statement that touches shared state |
| `MCThreadSafeQueue` | its instance for TLC |
| `ThreadSafeQueueProofs` | types, the two invariants and the refinement, proved |
| `JudgeService` | abstract: what the daemon promises the web application |
| `Judged` | the daemon: main thread, workers, sender, signals, faults |
| `MCJudged` | its instances for TLC |
| `JudgedProofs` | types, four safety properties and the way of a submission, proved |
| `JudgedReportProofs` | order of the reports, successes reported, waiting workers: proved |
| `JudgedServiceProofs` | the refinement to `JudgeService`, and that the jobs are `JudgeProcess`es, proved |
| `JudgedFreshProofs` | freshness of the verdicts posted, proved |
| `JudgedProgress` | the daemon with the database rows its judges write progress to |
| `MCJudgedProgress` | its instance for TLC |
| `JudgedProgressProofs` | progress and verdicts in those rows, proved |
| `JudgeProcess` | abstract: what the daemon may rely on about one powerjudge |
| `JudgeRun` | one powerjudge run |
| `MCJudgeRun` | its instances for TLC |
| `JudgeRunProofs` | types, three safety properties, the refinement and progress, proved |
| `SyscallFilter` | the counts of system calls and the enter/return flag |
| `CompareOutput` | the comparison of outputs, and what it should compute |
| `TracedRun` | a run with its system calls, comparisons and real time |
| `MCTracedRun` | its instance for TLC |
| `TracedRunProofs` | types, four invariants, an action property and the refinement, proved |

`Judged` uses the queues as sequences, which the refinement of
`ThreadSafeQueue` to `FifoQueue` justifies. It sees a powerjudge process as
`JudgeProcess` describes it, and so the two large models meet at a small common
contract, from both sides: `JudgeRun` implements it, and the jobs of `Judged` are
of its kind, no more (JobsBehave) and no less (ProcessesAreJobs).

Each proof module extends the one before it in the order `JudgedProofs`,
`JudgedReportProofs`, `JudgedServiceProofs`, `JudgedFreshProofs`,
`JudgedProgressProofs`, and uses its invariants and lemmas.

### ThreadSafeQueue

`q`, `mut` and the program counters are the class and the callers' positions in
it. `push` is LockForPush, Push, NotifyOne, ReturnFromPush; `GetFrontAndPop` is
LockForTest, TestNotEmpty, Front, Pop, ReturnFromGet. Testing the predicate and
going to sleep with the mutex released is one step, as `wait` promises;
SpuriousWakeup may happen to any sleeper. Consumers call in a loop, as
`ThreadWork` and `SendWork` do. `MaxPush` bounds the pushes.

### Judged

Main thread: MainTest, Accept, Password, ReadRequest, PushRequest. A worker:
LoopTest, Take, Spawn (or ForkFails, ExecFails), Reap. The sender: SendTest,
SendTake, ReadResult, Post (or CurlInitFails, StackOverflows). A job is a powerjudge process,
named by the loop that forked it and its submission: OpenResult, WriteResult,
Exit, Stop, Continue.

- A worker's child whose `execl` fails does not exit: it returns from `run` into
  the loop of `ThreadWork` with private copies of both queues. This is the
  worker's clone, with program counter `pc[Clone(w)]` and queue `copy[w]`. It
  may also be wedged at a mutex that was locked at the fork. One clone per
  worker is a bound; a clone whose own exec fails is replaced by its child.
- SIGTERM is delivered to the process, so POSIX lets any thread handle it. In
  the main thread (which Linux prefers) it interrupts `accept` or `read`; in a
  worker it interrupts `waitpid`, whose status variable is still 0.
- A judge may be stopped by a signal wherever it is, also after it has truncated
  or written `result.txt`, and continued later. A stop is an event for the daemon
  only while the judge's worker waits for it; any other is a delay.
- Post is the end of a transfer. The loop around `curl_multi_perform`
  (`judged.cpp:444`-`516`) has no timeout, so with a web application that accepts
  the connection and does not answer it need not end, and there is no fairness
  for Post. Where curl cannot be initialised, `send_multi_result` and
  `update_system_error` call each other: once or a few times (CurlInitFails),
  after which the verdict is a system error, or until the stack is full and the
  daemon dies (StackOverflows).
- A daemon that dies keeps its state in the model, since nothing of it steps any
  more. What is forgotten then, both queues and what the threads had in hand, is
  forgotten for good; NothingLost says only that up to then nothing was.
- `file` is what each directory's `result.txt` holds: missing, left by an
  earlier life of the daemon, truncated, or the result of a submission. When two
  jobs write one file at once the last writer's result stays, which is a
  simplification of two interleaved streams of at most one `write` each.
- Not modelled: the bytes of requests and replies, the password (a check that
  may go either way), the compiler messages sent along with a verdict.

### JudgedProgress

The daemon of `Judged`, unchanged, and `row`, what each row of the database shows.
powerjudge writes "compiling" and "running test i" there itself
(`update_solution_status`), only while it compiles and runs tests, that is before
it opens `result.txt`: phase "running". An update that fails, or for which there
is no connection, is no update. The verdict comes from the sender by way of the
web application, which is external: that it stores the verdict in the row of the
submission is an assumption. The table depends on whether there is a contest, the row
on the solution alone, where the directory of `Judged` depends on both.

### JudgeRun

`pc` follows `main`: init (arguments, directories), handle (clock armed, handler
not yet installed), compile, scan, next, trace (the wait4 loop), compare,
measure (the end of `judge`), open, close, leave. Nondeterministic: what the
compiler, the program, the special judge and system calls do, CPU time and
memory used. `ran` and `how` are history: what became of each test. Java,
Kotlin and Python differ where the code makes them differ. `Task` is what the
command line and the data directory say, with limits already multiplied for the
language. LogFails is `log_write` calling `exit(1)`; Kill is a signal from
outside, or the write to a `result.txt` that could not be opened.

Abstracted: the special judge is a choice of a verdict; the executor's resource
limits are the signals they raise. The comparison, the system call filter and
the time the clock gives are choices here (the clock may expire in every state in
which it is armed), and are filled in by `TracedRun`.

### TracedRun

A superposition: each action is one of `JudgeRun`'s together with the detail, or
a step of the detail which `JudgeRun` does not see, so that all that holds of
`JudgeRun` holds of it (ImplementsJudgeRun, proved).

- The traced program is in one of four stages: "forked" (the child before its
  `execve`), "user", "kernel" (in a system call), "trap" (a SIGTRAP that stands
  for no call is pending). ExecStop, EnterStop, ReturnStop and OddStop are the
  stops at which wait4 returns, each a ProgramTrapped of `JudgeRun`: first the
  memory, then, if orig_rax is above 0, `is_valid_syscall`. Number 0, `read`, is
  therefore never looked up. `init_syscalls` runs before every test and sets the
  counts, but not `in_syscall`.
- The flag is right as long as every test ends at a stop after which it is as it
  was at the start: the program exits (the last call is entered and does not
  return) or a call is refused. It gets out of step when a test ends by a signal
  or by the memory limit, and in OI mode there is a next test. That test begins
  with the flag inverted: a call with a count of 1 is then counted at its entry,
  looked up again at its return with a count of 0, and refused, although the
  program has made it once (every C program makes such calls, `arch_prctl` for
  one), and `execve` itself goes uncounted. The comments at `syscalls.cpp:15` and
  `:27` promise the count. The flag also gets out of step at a SIGTRAP that is no
  system call (another execve, tgkill). InStep names the histories without either; RestrictedDeserved and
  FlagFollowsProgram are stated for those, CallsWithinCount for all (execve
  apart).
- The comparison (OpenOutput, CompareOn, CompareEnds) is the loop of
  `oj_compare_output`, an iteration a step; what `ungetc` puts back is not
  consumed. ComparedAsDefined compares its verdict with Definition, which
  is written with the visible characters and the trailing white space and knows
  nothing of the loop.
- Real time: a stage (compiler, test, comparison or special judge) takes any of
  Durations, or all that the judge clock leaves it, at which the clock ends the
  run (TimeIsUp). The limits that the children are given, 5347 ms for the compilers
  of C and Pascal and the time limit plus 347 ms for a program, are timers of their
  own. They do not bound the stages, since a program may block SIGALRM
  (`rt_sigprocmask` is in the tables) and sleep: `overran` records that one went on
  after its limit, and `own` adds up what was neither the compiler's time nor a
  program's. The budget of the clock is (15347 ms + the limit) times the counted
  tests. TimeoutExplained says what a timeout means if all tests are counted:
  somebody went on after his limit, or powerjudge, the special judge and the system
  took at least (15347 - 347) ms for each test less 5347 ms. A special judge, which
  has 10347 ms, the compiler of one, and those of Java, Kotlin and Python, which
  have no timer, are all in one or the other; with a single test a slow special
  judge (9653 ms) is enough.
- The table of counts has 1024 places and the number of a call is not compared
  with that. A number beyond it gets any answer here (Answers), and the counts
  within stay as they are; the decrement of whatever lies behind the table is not
  modelled, and powerjudge dying of a number far outside is Kill. InStep excludes
  histories with such a call.

## 3. The runs

| Run | Checks | Shows |
|---|---|---|
| `queue` | TypeOK, NoLostWakeup, TestStillHolds, ImplementsFifoQueue, Drained | the monitor is a correct queue, and always drains |
| `judged_faults` | TypeOK, NothingLost, NothingTwice, FirstComeFirstJudged, OneMoreJobAfterSigterm, WaitsForChild, OnwardOnly, ImplementsJudgeService, JobsBehave | under failing forks, SIGTERM anywhere, and clones with copied queues nothing acknowledged disappears, is duplicated, overtaken or goes back; no worker waits for a child that is gone; a clone forks once for each submission |
| `judged_single` (module `MCJudgedProgress`) | NothingLost, ReportedInOrder, FreshVerdict, NoProgressAfterVerdict, SettlesOnNewest | with one worker, order and freshness of posted verdicts across failing forks and curl and a daemon that dies; progress never hides a verdict, and a rejudged row ends with the newest one |
| `judged_live` | OkMeansEnded, NotFromBefore, AckedIsReported | with stopped judges, failing transfers and curl, and a daemon that may be killed, successes are of runs that are over and no verdict comes from before the daemon's start; every acknowledged submission is reported or lost in transfer, unless a transfer or a judge holds it up for ever or the daemon dies |
| `judge_run` | TypeOK, AcceptedMeansNoneFailed, TestIsFirstFailure, UsageExplainsVerdict, ImplementsJudgeProcess, RunsForward, Ends | the verdict of a run agrees with what happened in it; the run goes forward only, ends, and behaves as the daemon relies on |
| `traced_run` | TracedTypeOK, CallsWithinCount, FlagFollowsProgram, RestrictedDeserved, ComparedAsDefined, TimeoutExplained, IterationConsumes | counts of system calls hold and the flag follows the program over two tests; comparisons give the defined verdict; the judge clock ends no run in which nobody was slow |
| `judged_sigterm` | SigtermExits, violated | the daemon may wait in accept after "Power Judge Exiting.." |
| `judged_eintr` | OkMeansEnded, violated | an interrupted waitpid is reported as a success |
| `judged_silent` | SilentFailureIsSystemError, violated | status 6 without a result posts the verdict of an earlier run |
| `judge_run_oi` | AcceptedMeansNoFailure, violated | in OI mode a test that passes hides one that failed |
| `judge_run_clock` | Ends, violated | no counted test disarms the judge clock |
| `judge_run_child` | AcceptedMeansAllAccepted, violated | a program that sends itself SIGCHLD is accepted without a comparison |

The last six are disagreements between the code and what its own comments and
documentation say; `PROJECT.json` quotes them under "findings".

Bounds. Two producers and three consumers are enough for a wakeup to be
taken by the wrong thread, and four pushes for a second one to arrive meanwhile.
Two workers and two submissions of one solution let a rejudge run beside its
original; a third submission in another directory (`judged_single`) lets order
and directories differ. One SIGTERM suffices: a second changes nothing but to
interrupt another call. Two tests let one verdict meet another, and times and
memories of 1, 2 and 3 around a limit of 2 are below, at and above it.
`traced_run` has two tests, since the second starts with the flag of the first;
calls without limit, with a count of 1 and of 0, and one beyond the table; every file of up to two
characters over four classes, and six longer ones for the end of one file, CR
before and text after white space; a time limit of 10000 ms, with which the
budget of one test would not do for two; and stages of no time, of 10347 ms,
which is a program's whole limit and more than the compiler's, or of all that is
left. Workers are
symmetric where only safety is checked, and so are, in `judged_single`, the two
submissions of one solution.

What the passing runs leave out, on purpose. A stray SIGTERM breaks
OkMeansEnded (`judged_eintr` shows how), and with it NotFromBefore, by a success
for a run that has not opened `result.txt`; both are checked in `judged_live`.
`judge_run` has every signal: a test that SIGCHLD broke off passes
(AcceptedMeansNoneFailed counts it so), and `judge_run_child` shows that it was
not accepted. `judged_live` has no SIGTERM and no failing exec, in which the
code promises no report: the daemon exits with what is queued, and a wedged clone
keeps its worker for ever. It has no failing fork either, which `judged_faults` and
`judged_single` have, and starts with a result of an earlier life in each
directory. The faults of
the daemon are spread over `judged_faults`, `judged_single` and `judged_live`, as
all at once are too many states for two workers; the theorems on NothingLost,
NothingTwice, OnwardOnly, WaitsForChild, JobsBehave and ImplementsJudgeService
hold for all of them together. With two workers an older verdict may be posted for
a rejudge, and verdicts in another order than the submissions came, so
FreshVerdict, ReportedInOrder and SettlesOnNewest are stated for one. A judge that
outlives its report (stopped, a clone's, or after an interrupted waitpid) shows a
reported submission as running, so NoProgressAfterVerdict leaves these faults out.
`judge_run` uses tasks with at least one counted test; `judge_run_clock` the rest.

Fairness. A daemon thread that can run does run (the kernel's scheduler), but
nothing is assumed of those that the daemon waits for: clients, judges and the web
application. AckedIsReported therefore has an exception, HeldUp: a transfer that
does not end, a run of the submission's own that does not end, or such runs in all
workers while it is queued. What it says is that nothing else holds up a submission,
in particular not another's endless judge while a worker is free. In `JudgeRun`
powerjudge itself proceeds and the clock, if armed, expires; that the compiler, the
program or the special judge ends is not assumed, as their timers do not end one
that blocks SIGALRM and sleeps. So Ends rests on the judge clock alone, and
`judge_run_clock` refutes it for uncounted tests, where there is none.

## 4. The proofs

For all values of the constants that meet the modules' assumptions:

- `ThreadSafeQueueProofs`: TypeCorrect, FrontAndPopAgree (TestStillHolds),
  WakeupsNotLost (NoLostWakeup), Refinement (ImplementsFifoQueue). The inductive
  invariant says who owns the mutex at which statement; the counting argument of
  NoLostWakeup compares the length of the queue with the number of attentive
  threads, which a push and its notification change together.
- `JudgedProofs`: TypeCorrect, ConservedByTheDaemon (NothingLost), HandledOnce
  (NothingTwice), OrderOfAcknowledgement (FirstComeFirstJudged), OneMoreJob
  (OneMoreJobAfterSigterm). NothingLost and NothingTwice are inductive together
  with the types and AckInv (a submission is acknowledged at most once, and not
  before it is served): NothingTwice is needed to know that a submission leaves
  its old place when it enters a new one. One lemma per way a submission moves
  (Acknowledge, Enqueue, Dispatch, HandOver, Collect, Deliver) rests on three
  general ones, Stay, Move and Arrival; the other actions move nothing (Quiet).
  OneMoreJob needs LateInv: a worker that has started a late run does not pass
  the test of isRunning again. GoesOnward (OnwardOnly) uses the lemmas of the moves
  once more: since a submission is in one place only, a step that moves it changes
  the set of its places from one place to the next.
- `JudgeRunProofs`: TypeCorrect, UsageExplains and Refinement for any tasks,
  usages and signals; AcceptedMeansAll (AcceptedMeansNoneFailed),
  FirstFailureReported (TestIsFirstFailure) and GoesForward (RunsForward) for all,
  SIGCHLD included, with which judge breaks out of its loop with the verdict AC and
  without comparing any output: such a test passes, and the stronger
  AcceptedMeansAllAccepted is what `judge_run_child` refutes. The properties speak of report, which
  is a copy of what the loop computed, so neither is inductive. UsageInv says that
  the usage explains the verdict of the tests so far whenever the loop stands
  between tests. RecordInv follows ran, the history of the outcomes: in a test,
  that test is not in it yet; before measure, verdict and outcome of the test
  agree (MeasureInv); between tests, first is the first failure in ran
  (RecordOK), and while it is 0 the result is AC and the memory within the limit
  (CleanInv), without which measure could turn a test that was accepted into MLE
  because of an earlier one. The refinement needs FileInv, where on the way to
  exit the file stands, and that a process with a status does nothing more.
  GoesForward needs that the loop does not pass the last test (BoundInv); PlaceTable
  says how many steps are left at each place.
- `TracedRunProofs`: TracedTypeCorrect, ImplementsJudgeRun, CountsKept
  (CallsWithinCount), FlagKept (FlagFollowsProgram), NoneRestrictedEarly
  (RestrictedDeserved), ComparisonMovesOn (IterationConsumes), TimeoutIsExplained
  (TimeoutExplained), VerdictAsDefined (ComparedAsDefined). The three about calls rest on FilterInv, which bounds the sum
  of what a count has left and what has been used of it: loosely, by what the
  stage and the flag allow, in any history, and tightly, as an equation, while
  InStep holds. TimeoutIsExplained assumes nothing of how long a stage takes. It
  rests on ClockInv: while nobody has overrun, the time that has passed is at most
  `own` and the limits of the stages behind (Allowed), each of which is granted by
  the stage itself (TakesGrant). At the end of the budget the limits are at most
  one compiler's and one test's for each test that is counted, and the rest is
  `own`; the nonlinear facts, GrantSuffices and RestOfBudget, are lemmas of their
  own.
  VerdictAsDefined (ComparedAsDefined) holds for files of any length and any
  bytes. Definition says by positions what it is for two files to be alike: as
  many visible characters, and the n-th of one is the n-th of the other, where the
  rank of a position is the number of such characters up to it. Written so, with
  cardinalities and no recursion, it can be proved without an induction of its own.
  CompareInv says that what has been consumed of the two files is alike in this
  sense. That Definition means what a
  reader would write with filtered sequences is evaluated by TLC for every file of
  `traced_run` (DefinitionAssumption).
- `JudgedReportProofs`: ReportsInOrder (ReportedInOrder, with one worker: two may
  finish in any order), OkIsOver (OkMeansEnded, for all faults but a SIGTERM that
  interrupts waitpid, with which `judged_eintr` refutes it) and
  WaitsAreForChildren (WaitsForChild, always). With one worker the daemon is a
  pipeline, and OrderInv says that what has been posted, is at the sender, on
  SendQueue, at the worker and on ProcessQueue are in the order of
  acknowledgement. The other two rest on what a worker's place says of its job
  (StartedInv, OverInv).
- `JudgedFreshProofs`, in its first part: VerdictsAreFresh (FreshVerdict), under Orderly: one worker,
  and no stray SIGTERM, failing execl or stopped judge. Each hypothesis is needed:
  two workers, a clone, or a worker that reports a judge still alive let an older
  run of the directory write after a newer one. Then there is one job at a time
  (AliveInv, CurrentInv), the file holds what a submission acknowledged no
  earlier than the one at hand has left (FileInv), and so does each outcome on
  its way (OutInv, PostsInv). The second part drops the hypotheses of one worker and
  of no stopped judge. NoneFromBefore (NotFromBefore) needs Undiverted, that no
  SIGTERM interrupts waitpid and execl works: both report a success for a run that
  has not opened `result.txt`. The argument follows the file. A run that has opened
  it has removed what was there before for good, as nothing writes "Stale" again
  (OpenedInv); a run that failed before reports no success, save the silent status 6
  (FailedInv); so an outcome that makes the sender read the file is about a run
  that has opened it, or a silent one (LeftInv), and what is read then is of this
  life, which the sender keeps in hand (ReadInv). OwnVerdicts is its corollary for
  submissions whose directories differ: each gets its own verdict.
- `JudgedProgressProofs`: VerdictsStand (NoProgressAfterVerdict) under Awaited,
  which is Orderly for any number of workers: a process that writes progress is
  one that a worker waits for, so its submission is at the worker, and by
  NothingTwice it is not reported. RowsSettle (SettlesOnNewest) under Orderly:
  RowInv follows the last report of each row, and ReportedInOrder makes it that
  of the newest submission.
- `JudgedServiceProofs`: DaemonImplementsService (ImplementsJudgeService), for all
  constants and all faults. RunsOK says that a submission in the hands of a clone,
  of a job, in a file or read from one was acknowledged, and that files hold
  results of their own directory only. The main thread's answer to a client maps
  to Answer, Post to Report or Lose, every other step to a stutter; that a report
  is the first for its submission is NothingTwice. JobsAreProcesses (JobsBehave),
  for all constants and all faults: a loop forks once for a submission, which for a
  worker follows from StartedInv and for a clone from ClonesFork (what it has forked
  for is not in its copy of the queue, and the copy holds nothing twice), and a
  job that lives has no status yet but that of a stop (OpenStatus). ProcessesAreJobs
  is the converse, about one step: where OpenStatus holds and Endings is all of
  Ended, a step of JudgeProcess, written as the daemon's model records it (which of
  the three ways to be over, which signal), is a step of the job.

Only model-checked: the three liveness properties, Drained, AckedIsReported and
Ends, since the prover has no rules for fairness. Their safety halves are proved:
NoLostWakeup (an item and a sleeping consumer do not stay together unnoticed),
OnwardOnly (a submission has five steps to go, and takes none back) and
RunsForward (StepsLeft, a natural number, decreases). What fairness adds is that
the steps are taken. The six expected violations are runs only.

## 5. Not modelled, and the plan

1. `Lifecycle`: pid file, restart, and the listening socket, which has no
   close-on-exec: a powerjudge that outlives the daemon keeps the port, and the
   next daemon cannot bind it.
2. `Logger`: one shared buffer, and a file lock that does not exclude threads of
   one process, so that two threads may mix their lines.
3. The conversions of `read_config.cpp`: port and thread number are cut to 16
   bits.

All three are parts whose interesting behaviours are faults at the edge of the
system rather than promises it keeps; none changes what is shown above, since a
daemon that cannot bind accepts nothing, and no verdict depends on a log line.

Left out for good: the text of requests, commands and HTTP forms, copying the
Python runtime, log rotation and installation scripts, test fixtures, and
`bin/cpplint.py`, Google's style checker, vendored here and no part of the running
system. The map covers about 1390 of the 3190 lines of `src/`, the C++ of the
daemon and of powerjudge; most of the rest is messages, string and file helpers,
the tables of system calls and the copying of run-time libraries.
