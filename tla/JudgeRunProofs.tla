--------------------------- MODULE JudgeRunProofs ---------------------------
(***************************************************************************)
(* Proofs about JudgeRun: the types; that the usage explains the verdict;  *)
(* that AC stands for all tests and the test reported is the first that    *)
(* failed; that the process is one the daemon may rely on; that it goes    *)
(* forward.                                                                *)
(***************************************************************************)
EXTENDS JudgeRun, TLAPS

\* The numbers of judge_core.h are used as such throughout.
USE DEF OJ_AC, OJ_PE, OJ_TLE, OJ_MLE, OJ_WA, OJ_RE, OJ_OLE, OJ_CE, OJ_RF, OJ_VE,
        EXIT_OK, EXIT_UNPRIVILEGED, EXIT_VERY_FIRST, EXIT_COMPILE_ERROR,
        EXIT_PRE_JUDGE, EXIT_PRE_JUDGE_DAA, EXIT_JUDGE, EXIT_COMPARE,
        EXIT_COMPARE_SPJ, EXIT_TIMEOUT, BeforeClock, STD_KB, NoStatus, Killed

-----------------------------------------------------------------------------
(* Types *)

\* What Task says of the task of a state.
LEMMA TaskFacts ==
  ASSUME TypeOK
  PROVE  /\ task \in Task
         /\ task.type \in {"ACM", "OI"}
         /\ task.in \in Nat /\ task.out \in Nat /\ task.out <= task.in
         /\ task.time_limit \in Nat
         /\ task.memory_limit \in Nat /\ task.memory_limit > 0
         /\ task.spj \in BOOLEAN
         /\ Cases \in Nat
  BY JudgeRunAssumption DEF TypeOK, Task, Cases

\* The codes the process exits with are numbers.
LEMMA ExitType ==
  ASSUME NEW c \in Nat, Exit(c)
  PROVE  /\ pc' = "gone" /\ clock' = clock
         /\ status' \in {NoStatus, Killed} \cup ({"exited"} \X Nat)
  BY DEF Exit

\* Every verdict of Measure is a verdict, every usage a number.
LEMMA MeasureType ==
  ASSUME TypeOK, NEW t \in Nat, NEW m \in Nat
  PROVE  LET time == Larger(time_usage, t)
             memory == Larger(memory_usage, m)
             verdict == Limited(result, time, memory)
         IN  /\ time \in Nat /\ memory \in Nat /\ verdict \in Verdict
             /\ Capped(verdict, time) \in Nat
             /\ \A f \in Final(verdict, memory) :
                  f.result \in Verdict /\ f.memory \in Nat
<1> DEFINE time == Larger(time_usage, t)
           memory == Larger(memory_usage, m)
           verdict == Limited(result, time, memory)
<1>1. time \in Nat /\ memory \in Nat
  BY DEF TypeOK, Larger
<1>2. verdict \in Verdict
  BY DEF TypeOK, Limited, Verdict
<1>3. Capped(verdict, time) \in Nat
  BY <1>1, TaskFacts DEF Capped
<1>4. ASSUME NEW f \in Final(verdict, memory)
      PROVE  f.result \in Verdict /\ f.memory \in Nat
  <2>1. task.memory_limit * STD_KB \in Nat
    BY TaskFacts
  <2> QED
    BY <1>1, <1>2, <1>4, <2>1 DEF Final, Corrected, Verdict
<1> QED
  BY <1>1, <1>2, <1>3, <1>4

LEMMA TypeStep == TypeOK /\ [Next]_vars => TypeOK'
<1> SUFFICES ASSUME TypeOK, [Next]_vars
             PROVE  TypeOK'
  OBVIOUS
<1> USE DEF At, Goto, Exit, judging, output, usage
<1>1. CASE RefuseToStart
  BY <1>1 DEF TypeOK, RefuseToStart
<1>2. CASE ArmClock
  BY <1>2, TaskFacts DEF TypeOK, ArmClock, Counted
<1>3. CASE InstallHandler
  BY <1>3 DEF TypeOK, InstallHandler
<1>4. CASE ScanTests
  BY <1>4 DEF TypeOK, ScanTests
<1>5. CASE NextTest
  BY <1>5 DEF TypeOK, NextTest
<1>6. CASE EndTests
  BY <1>6 DEF TypeOK, EndTests, OutputThenExit, Report
<1>7. CASE TraceBreaks
  BY <1>7 DEF TypeOK, TraceBreaks
<1>8. CASE ProgramExits
  <2>1. errlog' \in BOOLEAN
    <3>1. errlog' = errlog \/ errlog' = TRUE
      BY <1>8 DEF ProgramExits
    <3> QED
      BY <3>1 DEF TypeOK
  <2>2. result' \in Verdict /\ how' \in Outcome /\ pc' \in {"compare", "measure"}
    BY <1>8 DEF TypeOK, ProgramExits, Break, Verdict, Outcome
  <2>3. UNCHANGED <<task, clock, status, time_usage, memory_usage, test, first, ran,
                    report, leave, file>>
    BY <1>8 DEF ProgramExits, Break
  <2> QED
    BY <2>1, <2>2, <2>3 DEF TypeOK
<1>9. CASE ProgramSignaled
  <2>1. PICK s \in Signals : Break(VerdictFor(s), s) /\ errlog' = (errlog \/ s = "error")
    BY <1>9 DEF ProgramSignaled
  <2>2. s \in SignalKind
    BY JudgeRunAssumption
  <2>3. VerdictFor(s) \in Verdict /\ s \in Outcome
    BY <2>2 DEF VerdictFor, SignalKind, Verdict, Outcome
  <2> QED
    BY <1>9, <2>1, <2>3 DEF TypeOK, ProgramSignaled, Break
<1>10. CASE ProgramTrapped
  <2>1. PICK m \in Memories :
          /\ memory_usage' = Larger(memory_usage, m)
          /\ \/ Break(OJ_MLE, "memory")
             \/ Break(OJ_RF, "syscall")
             \/ UNCHANGED <<pc, clock, status, result, how>>
    BY <1>10 DEF ProgramTrapped
  <2>2. memory_usage' \in Nat
    BY <2>1, JudgeRunAssumption DEF TypeOK, Larger
  <2>3. result' \in Verdict /\ how' \in Outcome
    BY <2>1 DEF TypeOK, Break, Verdict, Outcome
  <2>4. pc' \in {"trace", "measure"} /\ UNCHANGED <<clock, status>>
    BY <1>10, <2>1 DEF ProgramTrapped, Break
  <2> QED
    BY <1>10, <2>2, <2>3, <2>4 DEF TypeOK, ProgramTrapped
<1>11. CASE Compare
  <2>1. \/ \E c \in ComparedAs :
             Break(IF c = "WA" THEN OJ_WA
                   ELSE IF result # OJ_PE THEN VerdictOf(c) ELSE OJ_PE, c)
        \/ /\ Exit(IF task.spj THEN EXIT_COMPARE_SPJ ELSE EXIT_COMPARE)
           /\ UNCHANGED <<result, how>>
    BY <1>11 DEF Compare
  <2>2. \A c \in ComparedAs : c \in Outcome /\ VerdictOf(c) \in Verdict
    BY DEF ComparedAs, Outcome, VerdictOf, Verdict
  <2>3. result' \in Verdict /\ how' \in Outcome
    BY <2>1, <2>2 DEF TypeOK, Break, Verdict
  <2>4. /\ pc' \in {"measure", "gone"} /\ clock' = clock
        /\ status' \in {NoStatus, Killed} \cup ({"exited"} \X Nat)
    BY <2>1 DEF TypeOK, Break
  <2> QED
    BY <1>11, <2>3, <2>4 DEF TypeOK, Compare
<1>12. CASE Measure
  <2>1. PICK t \in Times, m \in Memories :
          LET time == Larger(time_usage, t)
              memory == Larger(memory_usage, m)
              verdict == Limited(result, time, memory)
          IN  /\ \E f \in Final(verdict, memory) :
                   /\ result' = f.result
                   /\ memory_usage' = f.memory
                   /\ first' = FirstFailed(f.result)
              /\ time_usage' = Capped(verdict, time)
              /\ ran' = Append(ran, IF \/ t > task.time_limit
                                       \/ m > task.memory_limit
                                    THEN "limit" ELSE how)
    BY <1>12 DEF Measure
  <2>2. t \in Nat /\ m \in Nat
    BY JudgeRunAssumption
  <2>3. result' \in Verdict /\ memory_usage' \in Nat /\ time_usage' \in Nat
    BY <2>1, <2>2, MeasureType
  <2>4. first' \in 0 .. test
    BY <2>1 DEF TypeOK, FirstFailed
  <2>5. ran' \in Seq(Outcome)
    BY <2>1 DEF TypeOK, Outcome
  <2> QED
    BY <1>12, <2>3, <2>4, <2>5 DEF TypeOK, Measure
<1>13. CASE OpenResult
  BY <1>13 DEF TypeOK, OpenResult
<1>14. CASE CloseResult
  BY <1>14 DEF TypeOK, CloseResult
<1>15. CASE Leave
  BY <1>15 DEF TypeOK, Leave
<1>16. CASE CompileSucceeds
  BY <1>16 DEF TypeOK, CompileSucceeds
<1>17. CASE CompileFails
  BY <1>17 DEF TypeOK, CompileFails, OutputThenExit, CompileError, Blank, Report, Verdict
<1>18. CASE CompileBreaks
  BY <1>18 DEF TypeOK, CompileBreaks
<1>19. CASE ClockExpires
  BY <1>19 DEF TypeOK, ClockExpires
<1>20. CASE LogFails
  BY <1>20 DEF TypeOK, LogFails
<1>21. CASE Kill
  BY <1>21 DEF TypeOK, Kill
<1>22. CASE UNCHANGED vars
  BY <1>22 DEF TypeOK, vars
<1> QED
  BY <1>1, <1>2, <1>3, <1>4, <1>5, <1>6, <1>7, <1>8, <1>9, <1>10, <1>11, <1>12,
     <1>13, <1>14, <1>15, <1>16, <1>17, <1>18, <1>19, <1>20, <1>21, <1>22
     DEF Next, Proceed, CompileEnds

\* Every variable of a run keeps its type, for all tasks, times, memories and
\* signals.
THEOREM TypeCorrect == Spec => []TypeOK
<1>1. Init => TypeOK
  <2> SUFFICES ASSUME Init PROVE TypeOK
    OBVIOUS
  <2>1. task.old \in BOOLEAN
    BY JudgeRunAssumption DEF Init, Task
  <2>2. errlog \in BOOLEAN
    BY <2>1 DEF Init
  <2>3. report \in Report
    BY DEF Init, Blank, Report, Verdict
  <2>4. /\ task \in Tasks /\ pc = "init" /\ clock = FALSE /\ status = NoStatus
        /\ test = 0 /\ first = 0
        /\ result = OJ_AC /\ time_usage = 0 /\ memory_usage = 0
        /\ how = "AC" /\ ran = <<>> /\ leave = EXIT_OK /\ file = "old"
    BY DEF Init
  <2>5. ran \in Seq(Outcome)
    BY <2>4
  <2>6. clock \in BOOLEAN
    BY <2>4
  <2>7. first \in 0 .. test /\ how \in Outcome /\ result \in Verdict
    BY <2>4 DEF Outcome, Verdict
  <2> QED
    BY <2>2, <2>3, <2>4, <2>5, <2>6, <2>7 DEF TypeOK
<1> QED
  BY <1>1, TypeStep, PTL DEF Spec

-----------------------------------------------------------------------------
(* Usage *)

Starting == {"init", "handle", "compile", "scan"}
InTest == {"trace", "compare", "measure"}
Reporting == \/ pc \in {"open", "close", "leave"}
             \/ status = <<"exited", EXIT_OK>>

\* Usage and verdict agree, as UsageExplainsVerdict has it.
UsageOK(verdict, time, memory) ==
  /\ time <= task.time_limit
  /\ verdict = OJ_TLE => time = task.time_limit
  /\ verdict = OJ_MLE => memory > task.memory_limit
  /\ memory > task.memory_limit => verdict \in {OJ_MLE, OJ_TLE}

\* They agree between tests; within one they need not, but a verdict MLE that
\* is on its way to Measure comes with a memory over the limit.
UsageInv ==
  /\ pc \in Starting \cup {"next"} => UsageOK(result, time_usage, memory_usage)
  /\ pc = "measure" /\ result = OJ_MLE => memory_usage > task.memory_limit
  /\ Reporting /\ report.result # OJ_CE =>
       UsageOK(report.result, report.time, report.memory)

-----------------------------------------------------------------------------
(* The record of the tests *)

NoneFailed == \A i \in 1 .. Len(ran) : ran[i] \in Passed

\* first is the first test in ran that has failed.
RecordOK ==
  /\ first = 0 => NoneFailed
  /\ first # 0 => /\ first \in 1 .. Len(ran) /\ ran[first] \notin Passed
                  /\ \A i \in 1 .. Len(ran) : i < first => ran[i] \in Passed

ACMType == task.type = "ACM"

\* Between tests: all tests so far are on record, and as long as none has
\* failed the result is AC within the memory limit.
BetweenInv ==
  pc \in Starting \cup {"next"} =>
    /\ Len(ran) = test /\ test <= Cases
    /\ ACMType /\ result = OJ_AC => first = 0

\* In a test: it is not on record yet, and in ACM mode none before it failed.
InTestInv ==
  pc \in InTest => /\ Len(ran) = test - 1 /\ test \in 1 .. Cases
                   /\ ACMType => first = 0

CleanInv ==
  pc \in Starting \cup {"next", "trace", "compare"} /\ first = 0 =>
    result = OJ_AC /\ memory_usage <= task.memory_limit

\* About to measure: the verdict and the outcome of the test agree.
MeasureInv ==
  pc = "measure" =>
    /\ how \in Passed /\ first = 0
       => result = OJ_AC /\ memory_usage <= task.memory_limit
    /\ how \notin Passed => result # OJ_AC

ReportInv ==
  Reporting /\ report.result # OJ_CE =>
    /\ RecordOK
    /\ report.test = first
    /\ ACMType /\ report.result = OJ_AC => first = 0 /\ Len(ran) = Cases

\* A process that has ended takes no step.
GoneInv == status # NoStatus => pc = "gone"

RecordInv ==
  /\ GoneInv
  /\ pc \in Starting \cup {"next"} \cup InTest =>
       RecordOK /\ time_usage <= task.time_limit
  /\ BetweenInv /\ InTestInv /\ CleanInv /\ MeasureInv /\ ReportInv

-----------------------------------------------------------------------------
(* Preservation of UsageInv *)

\* A process that has ended without success owes nothing.
LEMMA GoneUsage ==
  ASSUME pc' = "gone", status' # <<"exited", EXIT_OK>>
  PROVE  UsageInv'
  BY DEF UsageInv, Reporting, Starting

\* Nor does a step that changes neither what is judged nor what is reported,
\* unless it moves to another part of the process.
LEMMA SameUsage ==
  ASSUME UsageInv, UNCHANGED <<task, judging, report, status>>,
         pc' \in Starting => pc \in Starting,
         pc' = "next" => pc \in Starting \cup {"next"},
         pc' = "measure" => pc = "measure",
         pc' \in {"open", "close", "leave"} => pc \in {"open", "close", "leave"}
  PROVE  UsageInv'
  BY DEF UsageInv, Reporting, UsageOK, judging, usage

LEMMA MeasureUsage ==
  ASSUME TypeOK, UsageInv, Measure
  PROVE  UsageInv'
<1>1. PICK t \in Times, m \in Memories :
        LET time == Larger(time_usage, t)
            memory == Larger(memory_usage, m)
            verdict == Limited(result, time, memory)
        IN  /\ \E f \in Final(verdict, memory) :
                 /\ result' = f.result
                 /\ memory_usage' = f.memory
                 /\ first' = FirstFailed(f.result)
            /\ time_usage' = Capped(verdict, time)
  BY DEF Measure
<1> DEFINE time == Larger(time_usage, t)
           memory == Larger(memory_usage, m)
           verdict == Limited(result, time, memory)
<1>2. t \in Nat /\ m \in Nat
  BY JudgeRunAssumption
<1>3. /\ time \in Nat /\ memory \in Nat /\ memory >= memory_usage
  BY <1>2 DEF TypeOK, Larger
<1>4. pc = "measure" /\ pc' = "next" /\ UNCHANGED <<task, report, status>>
  BY DEF Measure, At, Goto, output
<1>5. PICK f \in Final(verdict, memory) : result' = f.result /\ memory_usage' = f.memory
  BY <1>1
<1>6. /\ verdict = OJ_MLE => memory > task.memory_limit
      /\ memory > task.memory_limit => verdict \in {OJ_MLE, OJ_TLE}
      /\ time > task.time_limit => verdict = OJ_TLE
  BY <1>3, <1>4, TaskFacts DEF Limited, UsageInv, TypeOK
<1>7. /\ result' = OJ_TLE <=> verdict = OJ_TLE
      /\ result' = OJ_MLE => memory_usage' > task.memory_limit
      /\ memory_usage' > task.memory_limit => result' \in {OJ_MLE, OJ_TLE}
  <2>1. task.memory_limit * STD_KB > task.memory_limit
    BY TaskFacts
  <2>2. CASE verdict # OJ_WA
    BY <1>5, <1>6, <2>2 DEF Final, Corrected
  <2>3. CASE verdict = OJ_WA
    BY <1>5, <1>6, <2>1, <2>3 DEF Final, Corrected
  <2> QED
    BY <2>2, <2>3
<1>8. /\ time_usage' <= task.time_limit
      /\ result' = OJ_TLE => time_usage' = task.time_limit
  <2>1. time_usage' = Capped(verdict, time)
    BY <1>1
  <2> QED
    BY <2>1, <1>3, <1>6, <1>7, TaskFacts DEF Capped
<1>9. UsageOK(result, time_usage, memory_usage)'
  BY <1>4, <1>7, <1>8 DEF UsageOK
<1> QED
  BY <1>4, <1>9 DEF UsageInv, Reporting, Starting, UsageOK

LEMMA UsageStep == TypeOK /\ UsageInv /\ [Next]_vars => UsageInv'
<1> SUFFICES ASSUME TypeOK, UsageInv, [Next]_vars
             PROVE  UsageInv'
  OBVIOUS
<1> USE DEF At, Goto, Exit, output
<1>1. CASE RefuseToStart
  BY <1>1, GoneUsage DEF RefuseToStart
<1>2. CASE ArmClock
  BY <1>2, SameUsage DEF ArmClock, Starting
<1>3. CASE InstallHandler
  BY <1>3, GoneUsage, SameUsage DEF InstallHandler, Starting
<1>4. CASE ScanTests
  BY <1>4, GoneUsage, SameUsage DEF ScanTests, Starting
<1>5. CASE NextTest
  BY <1>5 DEF NextTest, UsageInv, Reporting, Starting, UsageOK
<1>6. CASE EndTests
  BY <1>6 DEF EndTests, OutputThenExit, UsageInv, Reporting, Starting, UsageOK
<1>7. CASE TraceBreaks
  BY <1>7, GoneUsage DEF TraceBreaks
<1>8. CASE ProgramExits
  BY <1>8 DEF ProgramExits, Break, UsageInv, Reporting, Starting, UsageOK
<1>9. CASE ProgramSignaled
  <2>1. PICK s \in Signals : Break(VerdictFor(s), s)
    BY <1>9 DEF ProgramSignaled
  <2>2. VerdictFor(s) # OJ_MLE
    BY JudgeRunAssumption DEF VerdictFor, SignalKind
  <2> QED
    BY <1>9, <2>1, <2>2
       DEF ProgramSignaled, Break, UsageInv, Reporting, Starting, UsageOK
<1>10. CASE ProgramTrapped
  <2>1. PICK m \in Memories :
          /\ memory_usage' = Larger(memory_usage, m)
          /\ \/ /\ Larger(memory_usage, m) > task.memory_limit
                /\ Break(OJ_MLE, "memory")
             \/ Break(OJ_RF, "syscall")
             \/ UNCHANGED <<pc, clock, status, result, how>>
    BY <1>10 DEF ProgramTrapped
  <2> QED
    BY <1>10, <2>1 DEF ProgramTrapped, Break, UsageInv, Reporting, Starting, UsageOK
<1>11. CASE Compare
  <2>1. CASE pc' = "gone"
    BY <1>11, <2>1, GoneUsage DEF Compare, Break
  <2>2. CASE pc' # "gone"
    <3>1. PICK c \in ComparedAs :
            Break(IF c = "WA" THEN OJ_WA
                  ELSE IF result # OJ_PE THEN VerdictOf(c) ELSE OJ_PE, c)
      BY <1>11, <2>2 DEF Compare
    <3>2. VerdictOf(c) # OJ_MLE
      BY DEF ComparedAs, VerdictOf
    <3> QED
      BY <1>11, <3>1, <3>2 DEF Compare, Break, UsageInv, Reporting, Starting, UsageOK
  <2> QED
    BY <2>1, <2>2
<1>12. CASE Measure
  BY <1>12, MeasureUsage
<1>13. CASE OpenResult
  BY <1>13, SameUsage DEF OpenResult, Starting
<1>14. CASE CloseResult
  BY <1>14, SameUsage DEF CloseResult, Starting
<1>15. CASE Leave
  BY <1>15 DEF Leave, UsageInv, Reporting, Starting, UsageOK, judging
<1>16. CASE CompileSucceeds
  BY <1>16, SameUsage DEF CompileSucceeds, Starting
<1>17. CASE CompileFails
  BY <1>17 DEF CompileFails, OutputThenExit, CompileError, Blank,
               UsageInv, Reporting, Starting
<1>18. CASE CompileBreaks
  BY <1>18, GoneUsage DEF CompileBreaks
<1>19. CASE ClockExpires
  BY <1>19, GoneUsage DEF ClockExpires
<1>20. CASE LogFails
  BY <1>20, GoneUsage DEF LogFails
<1>21. CASE Kill
  BY <1>21, GoneUsage DEF Kill
<1>22. CASE UNCHANGED vars
  BY <1>22, SameUsage DEF vars
<1> QED
  BY <1>1, <1>2, <1>3, <1>4, <1>5, <1>6, <1>7, <1>8, <1>9, <1>10, <1>11, <1>12,
     <1>13, <1>14, <1>15, <1>16, <1>17, <1>18, <1>19, <1>20, <1>21, <1>22
     DEF Next, Proceed, CompileEnds

\* The verdict reported by a successful run and its usage agree, for all
\* limits and whatever the tests were.
THEOREM UsageExplains == Spec => []UsageExplainsVerdict
<1>1. Init => UsageInv
  <2> SUFFICES ASSUME Init PROVE UsageInv
    OBVIOUS
  <2>1. task.time_limit \in Nat /\ task.memory_limit \in Nat
    BY JudgeRunAssumption DEF Init, Task
  <2>2. /\ pc = "init" /\ status = NoStatus
        /\ result = OJ_AC /\ time_usage = 0 /\ memory_usage = 0
    BY DEF Init
  <2> QED
    BY <2>1, <2>2 DEF UsageInv, UsageOK, Reporting, Starting
<1>2. UsageInv => UsageExplainsVerdict
  BY DEF UsageInv, UsageOK, Reporting, UsageExplainsVerdict, Judged
<1> QED
  BY <1>1, <1>2, UsageStep, TypeCorrect, PTL DEF Spec

-----------------------------------------------------------------------------
(* Preservation of RecordInv *)

\* A process that has ended without success owes nothing.
LEMMA GoneRecord ==
  ASSUME pc' = "gone", status' # <<"exited", EXIT_OK>>
  PROVE  RecordInv'
  BY DEF RecordInv, GoneInv, BetweenInv, InTestInv, CleanInv, MeasureInv, ReportInv,
         Reporting, Starting, InTest

\* Nor does a step that changes nothing on record and stays in its part.
LEMMA SameRecord ==
  ASSUME RecordInv, UNCHANGED <<task, judging, report, status>>,
         pc' \in Starting \cup {"next"} => pc \in Starting \cup {"next"},
         pc' \in InTest => pc' = pc,
         pc' \in {"open", "close", "leave"} => pc \in {"open", "close", "leave"},
         pc = "gone" => pc' = "gone"
  PROVE  RecordInv'
<1>1. UNCHANGED <<RecordOK, ACMType, Cases>>
  BY DEF RecordOK, NoneFailed, ACMType, Cases, judging, usage
<1> QED
  BY <1>1 DEF RecordInv, GoneInv, BetweenInv, InTestInv, CleanInv, MeasureInv,
              ReportInv, Reporting, InTest, judging, usage

\* Inside a test nothing is put on record; what is left to show is what the
\* new result and outcome are.
LEMMA WithinTest ==
  ASSUME RecordInv, pc \in InTest, pc' \in InTest,
         UNCHANGED <<task, test, first, ran, time_usage, report, status>>,
         CleanInv', MeasureInv'
  PROVE  RecordInv'
<1>1. UNCHANGED <<RecordOK, ACMType, Cases>>
  BY DEF RecordOK, NoneFailed, ACMType, Cases
<1>2. status = NoStatus
  BY DEF RecordInv, GoneInv, InTest
<1> QED
  BY <1>1, <1>2 DEF RecordInv, GoneInv, BetweenInv, InTestInv, ReportInv, Reporting,
                    InTest, Starting

LEMMA CompareRecord ==
  ASSUME TypeOK, RecordInv, Compare
  PROVE  RecordInv'
<1> USE DEF At, Goto, Exit, output
<1>1. CASE pc' = "gone"
  BY <1>1, GoneRecord DEF Compare, Break
<1>2. CASE pc' # "gone"
  <2>1. PICK c \in ComparedAs :
          Break(IF c = "WA" THEN OJ_WA
                ELSE IF result # OJ_PE THEN VerdictOf(c) ELSE OJ_PE, c)
    BY <1>2 DEF Compare
  <2>2. /\ pc = "compare" /\ pc' = "measure"
        /\ UNCHANGED <<task, test, first, ran, time_usage, memory_usage, report, status>>
    BY <2>1 DEF Compare, Break
  <2>3. VerdictOf(c) = OJ_AC <=> c = "AC"
    BY DEF ComparedAs, VerdictOf
  <2>4. how' = c /\ (c # "AC" => result' # OJ_AC)
    BY <2>1, <2>3 DEF Break
  <2>5. c \in Passed <=> c = "AC"
    BY DEF ComparedAs, Passed
  <2>6. c = "AC" /\ first = 0 => result' = OJ_AC
    BY <2>1, <2>2, <2>3 DEF Break, RecordInv, CleanInv
  <2>7. MeasureInv'
    BY <2>2, <2>4, <2>5, <2>6 DEF MeasureInv, RecordInv, CleanInv
  <2>8. CleanInv'
    BY <2>2 DEF CleanInv, Starting
  <2> QED
    BY <2>2, <2>7, <2>8, WithinTest DEF InTest
<1> QED
  BY <1>1, <1>2

\* Measure puts the test on record: as accepted exactly when the result is AC
\* and has been so from the start, and otherwise as a failure.
LEMMA MeasureRecord ==
  ASSUME TypeOK, RecordInv, Measure
  PROVE  RecordInv'
<1>1. PICK t \in Times, m \in Memories :
        LET time == Larger(time_usage, t)
            memory == Larger(memory_usage, m)
            verdict == Limited(result, time, memory)
        IN  /\ \E f \in Final(verdict, memory) :
                 /\ result' = f.result
                 /\ memory_usage' = f.memory
                 /\ first' = FirstFailed(f.result)
            /\ time_usage' = Capped(verdict, time)
            /\ ran' = Append(ran, IF t > task.time_limit \/ m > task.memory_limit
                                  THEN "limit" ELSE how)
  BY DEF Measure
<1> DEFINE time == Larger(time_usage, t)
           memory == Larger(memory_usage, m)
           verdict == Limited(result, time, memory)
           outcome == IF t > task.time_limit \/ m > task.memory_limit
                      THEN "limit" ELSE how
<1>2. t \in Nat /\ m \in Nat /\ outcome \in Outcome
  BY JudgeRunAssumption DEF TypeOK, Outcome
<1>3. /\ pc = "measure" /\ pc' = "next"
      /\ UNCHANGED <<task, test, report, status>>
  BY DEF Measure, At, Goto, output
<1>4. /\ Len(ran) = test - 1 /\ test \in 1 .. Cases
      /\ ACMType => first = 0
      /\ RecordOK /\ time_usage <= task.time_limit
      /\ how \in Passed /\ first = 0
         => result = OJ_AC /\ memory_usage <= task.memory_limit
      /\ how \notin Passed => result # OJ_AC
  BY <1>3 DEF RecordInv, InTestInv, MeasureInv, InTest
<1>5. PICK f \in Final(verdict, memory) :
        /\ result' = f.result /\ memory_usage' = f.memory
        /\ first' = FirstFailed(f.result)
  BY <1>1
<1>6. result' = OJ_AC <=> verdict = OJ_AC
  BY <1>5 DEF Final, Corrected
<1>7. result' = OJ_AC => memory_usage' <= task.memory_limit
  <2>1. time \in Nat /\ memory \in Nat
    BY <1>2 DEF TypeOK, Larger
  <2>2. verdict = OJ_AC => memory <= task.memory_limit
    BY <2>1, TaskFacts DEF Limited
  <2>3. verdict = OJ_AC => memory_usage' = memory
    BY <1>5 DEF Final, Corrected
  <2> QED
    BY <1>6, <2>2, <2>3
<1>8. outcome \notin Passed => result' # OJ_AC
  <2>1. t > task.time_limit => time > task.time_limit
    BY <1>2, TaskFacts DEF TypeOK, Larger
  <2>2. m > task.memory_limit => memory > task.memory_limit
    BY <1>2, TaskFacts DEF TypeOK, Larger
  <2> QED
    BY <1>4, <1>6, <2>1, <2>2 DEF Limited
<1>9. outcome \in Passed /\ first = 0 => result' = OJ_AC
  <2> SUFFICES ASSUME outcome \in Passed, first = 0
               PROVE  result' = OJ_AC
    OBVIOUS
  <2>1. t <= task.time_limit /\ m <= task.memory_limit /\ how \in Passed
    BY <1>2, TaskFacts DEF Passed
  <2>2. time <= task.time_limit /\ memory <= task.memory_limit
    BY <1>2, <1>4, <2>1, TaskFacts DEF TypeOK, Larger
  <2>3. time \in Nat /\ memory \in Nat
    BY <1>2 DEF TypeOK, Larger
  <2> QED
    BY <1>4, <1>6, <2>1, <2>2, <2>3, TaskFacts DEF Limited
<1>10. /\ Len(ran') = test
       /\ \A i \in 1 .. test : ran'[i] = IF i = test THEN outcome ELSE ran[i]
  BY <1>1, <1>2, <1>4 DEF TypeOK
<1>11. RecordOK'
  <2>1. first \in 0 .. test /\ test \in Nat
    BY DEF TypeOK
  <2>2. CASE first # 0
    <3>1. first' = first
      BY <1>5, <2>2 DEF FirstFailed
    <3> QED
      BY <1>4, <1>10, <2>1, <2>2, <3>1 DEF RecordOK
  <2>3. CASE first = 0 /\ result' = OJ_AC
    <3>1. first' = 0
      BY <1>5, <2>3 DEF FirstFailed
    <3>2. NoneFailed'
      BY <1>4, <1>8, <1>10, <2>1, <2>3 DEF RecordOK, NoneFailed
    <3> QED
      BY <3>1, <3>2 DEF RecordOK
  <2>4. CASE first = 0 /\ result' # OJ_AC
    <3>1. first' = test
      BY <1>5, <2>4 DEF FirstFailed
    <3>2. outcome \notin Passed
      BY <1>9, <2>4
    <3>3. \A i \in 1 .. test : i < test => ran'[i] \in Passed
      BY <1>4, <1>10, <2>1, <2>4 DEF RecordOK, NoneFailed
    <3> QED
      BY <1>4, <1>10, <2>1, <3>1, <3>2, <3>3 DEF RecordOK
  <2> QED
    BY <2>2, <2>3, <2>4
<1>12. time_usage' <= task.time_limit
  <2>1. time_usage' = Capped(verdict, time)
    BY <1>1
  <2>2. time \in Nat
    BY <1>2 DEF TypeOK, Larger
  <2>3. time > task.time_limit => verdict = OJ_TLE
    BY DEF Limited
  <2> QED
    BY <2>1, <2>2, <2>3, TaskFacts DEF Capped
<1>13. first' = 0 => result' = OJ_AC
  BY <1>4, <1>5, TaskFacts DEF FirstFailed
<1>14. ACMType /\ result' = OJ_AC => first' = 0
  BY <1>4, <1>5 DEF FirstFailed
<1>15. test <= Cases /\ Cases' = Cases /\ ACMType' = ACMType
  BY <1>3, <1>4, TaskFacts DEF Cases, ACMType
<1>16. status' = NoStatus
  BY <1>3 DEF RecordInv, GoneInv
<1> QED
  BY <1>3, <1>7, <1>10, <1>11, <1>12, <1>13, <1>14, <1>15, <1>16
     DEF RecordInv, GoneInv, BetweenInv, InTestInv, CleanInv, MeasureInv, ReportInv,
         Reporting, Starting, InTest

LEMMA RecordStep ==
  ASSUME TypeOK, RecordInv, [Next]_vars
  PROVE  RecordInv'
<1> USE DEF At, Goto, Exit, output
<1>1. CASE RefuseToStart
  BY <1>1, GoneRecord DEF RefuseToStart
<1>2. CASE ArmClock
  BY <1>2, SameRecord DEF ArmClock, Starting, InTest
<1>3. CASE InstallHandler
  BY <1>3, GoneRecord, SameRecord DEF InstallHandler, Starting, InTest
<1>4. CASE ScanTests
  BY <1>4, GoneRecord, SameRecord DEF ScanTests, Starting, InTest
<1>5. CASE NextTest
  <2>1. CASE pc' = "gone"
    BY <1>5, <2>1, GoneRecord DEF NextTest
  <2>2. CASE pc' # "gone"
    <3>1. /\ pc = "next" /\ pc' = "trace" /\ test' = test + 1
          /\ test < Cases /\ ~StopEarly
      BY <1>5, <2>2 DEF NextTest
    <3>2. UNCHANGED <<result, time_usage, memory_usage, first, ran, report, task, status>>
      BY <1>5, <2>2 DEF NextTest, usage
    <3>3. UNCHANGED <<RecordOK, ACMType, Cases>>
      BY <3>2 DEF RecordOK, NoneFailed, ACMType, Cases
    <3>4. ACMType => result = OJ_AC /\ first = 0
      BY <3>1 DEF StopEarly, ACMType, RecordInv, BetweenInv
    <3>5. InTestInv'
      BY <3>1, <3>2, <3>3, <3>4, TaskFacts DEF TypeOK, InTestInv, RecordInv, BetweenInv
    <3>6. status' = NoStatus
      BY <3>1, <3>2 DEF RecordInv, GoneInv
    <3> QED
      BY <3>1, <3>2, <3>3, <3>5, <3>6
         DEF RecordInv, GoneInv, BetweenInv, CleanInv, MeasureInv, ReportInv,
             Reporting, Starting, InTest
  <2> QED
    BY <2>1, <2>2
<1>6. CASE EndTests
  <2>1. /\ pc = "next" /\ pc' = "open"
        /\ test = Cases \/ StopEarly
        /\ UNCHANGED <<task, judging, status>>
        /\ report'.result = result /\ report'.test = first
    BY <1>6 DEF EndTests, OutputThenExit
  <2>2. UNCHANGED <<RecordOK, ACMType, Cases, result, first, ran>>
    BY <2>1 DEF RecordOK, NoneFailed, ACMType, Cases, judging, usage
  <2>3. ACMType /\ result = OJ_AC => first = 0 /\ Len(ran) = Cases
    BY <2>1 DEF RecordInv, BetweenInv, StopEarly
  <2>4. ReportInv'
    BY <2>1, <2>2, <2>3 DEF ReportInv, RecordInv
  <2>5. status' = NoStatus
    BY <2>1 DEF RecordInv, GoneInv
  <2> QED
    BY <2>1, <2>4, <2>5
       DEF RecordInv, GoneInv, BetweenInv, InTestInv, CleanInv, MeasureInv,
           Starting, InTest
<1>7. CASE TraceBreaks
  BY <1>7, GoneRecord DEF TraceBreaks
<1>8. CASE ProgramExits
  <2>1. /\ pc = "trace" /\ pc' \in {"compare", "measure"}
        /\ UNCHANGED <<task, test, first, ran, time_usage, memory_usage, report, status>>
        /\ pc' = "compare" => UNCHANGED <<result, how>>
        /\ pc' = "measure" => how' = "exit" /\ result' = OJ_RE
    BY <1>8 DEF ProgramExits, Break
  <2>2. CleanInv' /\ MeasureInv'
    BY <2>1 DEF RecordInv, CleanInv, MeasureInv, Starting, Passed
  <2> QED
    BY <2>1, <2>2, WithinTest DEF InTest
<1>9. CASE ProgramSignaled
  <2>1. PICK s \in Signals : Break(VerdictFor(s), s)
    BY <1>9 DEF ProgramSignaled
  <2>2. IF s \in Passed THEN VerdictFor(s) = OJ_AC ELSE VerdictFor(s) # OJ_AC
    <3>1. s \in {"child", "time", "output", "error"}
      BY JudgeRunAssumption DEF SignalKind
    <3> QED
      BY <3>1 DEF VerdictFor, Passed
  <2>3. /\ pc = "trace" /\ pc' = "measure" /\ how' = s /\ result' = VerdictFor(s)
        /\ UNCHANGED <<task, test, first, ran, time_usage, memory_usage, report, status>>
    BY <1>9, <2>1 DEF ProgramSignaled, Break
  <2>4. CleanInv' /\ MeasureInv'
    BY <2>2, <2>3 DEF RecordInv, CleanInv, MeasureInv, Starting
  <2> QED
    BY <2>3, <2>4, WithinTest DEF InTest
<1>10. CASE ProgramTrapped
  <2>1. /\ pc = "trace" /\ pc' \in {"trace", "measure"}
        /\ UNCHANGED <<task, test, first, ran, time_usage, report, status>>
        /\ pc' = "trace" => result' = result /\ memory_usage' <= task.memory_limit
        /\ pc' = "measure" => how' \notin Passed /\ result' # OJ_AC
    BY <1>10 DEF ProgramTrapped, Break, Passed
  <2>2. CleanInv' /\ MeasureInv'
    BY <2>1 DEF RecordInv, CleanInv, MeasureInv, Starting
  <2> QED
    BY <2>1, <2>2, WithinTest DEF InTest
<1>11. CASE Compare
  BY <1>11, CompareRecord
<1>12. CASE Measure
  BY <1>12, MeasureRecord
<1>13. CASE OpenResult
  BY <1>13, SameRecord DEF OpenResult, Starting, InTest
<1>14. CASE CloseResult
  BY <1>14, SameRecord DEF CloseResult, Starting, InTest
<1>15. CASE Leave
  <2>1. /\ pc = "leave" /\ pc' = "gone"
        /\ UNCHANGED <<task, judging, report>>
    BY <1>15 DEF Leave
  <2>2. UNCHANGED <<RecordOK, ACMType, Cases, first, ran>>
    BY <2>1 DEF RecordOK, NoneFailed, ACMType, Cases, judging, usage
  <2>3. ReportInv'
    BY <2>1, <2>2 DEF RecordInv, ReportInv, Reporting
  <2> QED
    BY <2>1, <2>3
       DEF RecordInv, GoneInv, BetweenInv, InTestInv, CleanInv, MeasureInv,
           Starting, InTest
<1>16. CASE CompileSucceeds
  BY <1>16, SameRecord DEF CompileSucceeds, Starting, InTest
<1>17. CASE CompileFails
  <2>1. /\ pc = "compile" /\ pc' = "open" /\ report'.result = OJ_CE
        /\ status' = status
    BY <1>17 DEF CompileFails, OutputThenExit, CompileError, Blank
  <2>2. status' = NoStatus
    BY <2>1 DEF RecordInv, GoneInv
  <2> QED
    BY <2>1, <2>2
       DEF RecordInv, GoneInv, BetweenInv, InTestInv, CleanInv, MeasureInv,
           ReportInv, Starting, InTest
<1>18. CASE CompileBreaks
  BY <1>18, GoneRecord DEF CompileBreaks
<1>19. CASE ClockExpires
  BY <1>19, GoneRecord DEF ClockExpires
<1>20. CASE LogFails
  BY <1>20, GoneRecord DEF LogFails
<1>21. CASE Kill
  BY <1>21, GoneRecord DEF Kill
<1>22. CASE UNCHANGED vars
  BY <1>22, SameRecord DEF vars
<1> QED
  BY <1>1, <1>2, <1>3, <1>4, <1>5, <1>6, <1>7, <1>8, <1>9, <1>10, <1>11, <1>12,
     <1>13, <1>14, <1>15, <1>16, <1>17, <1>18, <1>19, <1>20, <1>21, <1>22
     DEF Next, Proceed, CompileEnds

LEMMA RecordInit == Init => RecordInv
<1> SUFFICES ASSUME Init PROVE RecordInv
  OBVIOUS
<1>1. /\ task.time_limit \in Nat /\ task.memory_limit \in Nat
      /\ task.in \in Nat /\ task.out \in Nat
  BY JudgeRunAssumption DEF Init, Task
<1>2. /\ pc = "init" /\ status = NoStatus /\ test = 0 /\ first = 0 /\ ran = <<>>
      /\ result = OJ_AC /\ time_usage = 0 /\ memory_usage = 0
  BY DEF Init
<1>3. Cases \in Nat
  BY <1>1 DEF Cases
<1> QED
  BY <1>1, <1>2, <1>3
     DEF RecordInv, GoneInv, BetweenInv, InTestInv, CleanInv, MeasureInv, ReportInv,
         Reporting, RecordOK, NoneFailed, Starting, InTest

LEMMA RecordAlways == Spec => [](TypeOK /\ RecordInv)
<1>1. TypeOK /\ RecordInv /\ [Next]_vars => RecordInv'
  BY RecordStep
<1> QED
  BY <1>1, RecordInit, TypeCorrect, PTL DEF Spec

\* In ACM mode AC stands for every test, run, and each but those broken off
\* by SIGCHLD compared and found right, for any number of tests.
THEOREM AcceptedMeansAll == Spec => []AcceptedMeansNoneFailed
<1>1. TypeOK /\ RecordInv => AcceptedMeansNoneFailed
  <2> SUFFICES ASSUME TypeOK, RecordInv, Judged, report.result = OJ_AC,
                      task.type = "ACM"
               PROVE  Len(ran) = Cases /\ \A i \in DOMAIN ran : ran[i] \in Passed
    BY DEF AcceptedMeansNoneFailed
  <2>1. RecordOK /\ first = 0 /\ Len(ran) = Cases
    BY DEF RecordInv, ReportInv, Reporting, Judged, ACMType
  <2>2. DOMAIN ran = 1 .. Len(ran)
    BY DEF TypeOK
  <2> QED
    BY <2>1, <2>2 DEF RecordOK, NoneFailed
<1> QED
  BY <1>1, RecordAlways, PTL

\* The test reported is the first that has failed, for any number of tests
\* and both modes.
THEOREM FirstFailureReported == Spec => []TestIsFirstFailure
<1>1. TypeOK /\ RecordInv => TestIsFirstFailure
  <2> SUFFICES ASSUME TypeOK, RecordInv, Judged
               PROVE  TestIsFirstFailure
    BY DEF TestIsFirstFailure
  <2> DEFINE failed == {i \in DOMAIN ran : ran[i] \notin Passed}
  <2>1. RecordOK /\ report.test = first
    BY DEF RecordInv, ReportInv, Reporting, Judged
  <2>2. DOMAIN ran = 1 .. Len(ran) /\ Len(ran) \in Nat /\ first \in Nat
    BY DEF TypeOK
  <2>3. CASE first = 0
    <3>1. failed = {}
      BY <2>1, <2>2, <2>3 DEF RecordOK, NoneFailed
    <3> QED
      BY <2>1, <2>3, <3>1 DEF TestIsFirstFailure
  <2>4. CASE first # 0
    <3>1. first \in failed
      BY <2>1, <2>2, <2>4 DEF RecordOK
    <3>2. \A i \in failed : first <= i
      BY <2>1, <2>2, <2>4 DEF RecordOK
    <3> QED
      BY <2>1, <3>1, <3>2 DEF TestIsFirstFailure
  <2> QED
    BY <2>3, <2>4
<1> QED
  BY <1>1, RecordAlways, PTL

-----------------------------------------------------------------------------
(* The process is one the daemon may rely on *)

\* result.txt is truncated and completed on the way from open to leave only,
\* and the process that has a status is gone.
FileInv ==
  /\ GoneInv
  /\ pc \notin {"close", "leave", "gone"} => file = "old"
  /\ pc = "close" => file = "empty"
  /\ pc = "leave" => file = "report"

\* The ends that the state of the file allows.
LEMMA ProcessEnds ==
  ASSUME TypeOK, status = NoStatus, file' = file,
         \/ status' = Killed
         \/ \E c \in Nat : /\ status' = <<"exited", c>>
                           /\ \/ c \notin {0, 6, 21}
                              \/ file = "old" /\ c \in {6, 21}
                              \/ file = "report" /\ c \in {0, 6}
  PROVE  Process!Next
<1> DEFINE stage == IF status # NoStatus THEN "ended" ELSE Phase[file]
<1>1. /\ stage' = "ended"
      /\ file = "old" => stage = "running"
      /\ file = "empty" => stage = "truncated"
      /\ file = "report" => stage = "written"
      /\ file \in {"old", "empty", "report"}
  BY DEF TypeOK, Phase
<1>2. StatusClass = Process!NoStatus
  BY DEF StatusClass, Process!NoStatus
<1> DEFINE Allowed(s) ==
             \/ s \in Process!Exited({Other}) \cup Process!Signaled
             \/ file = "old" /\ s \in Process!Exited({6, 21})
             \/ file = "report" /\ s \in Process!Exited({0, 6})
<1>3. Allowed(StatusClass')
  <2>1. CASE status' = Killed
    BY <2>1 DEF StatusClass, Process!Signaled
  <2>2. ASSUME NEW c \in Nat, status' = <<"exited", c>>
        PROVE  StatusClass' = <<"exited", IF c \in {0, 6, 21} THEN c ELSE Other>>
    BY <2>2 DEF StatusClass
  <2>3. \A codes, c : c \in codes => <<"exited", c>> \in Process!Exited(codes)
    BY DEF Process!Exited
  <2>4. ASSUME NEW c \in Nat, status' = <<"exited", c>>,
               \/ c \notin {0, 6, 21}
               \/ file = "old" /\ c \in {6, 21}
               \/ file = "report" /\ c \in {0, 6}
        PROVE  Allowed(StatusClass')
    <3>1. CASE c \notin {0, 6, 21}
      BY <2>2, <2>3, <2>4, <3>1
    <3>2. CASE c \in {0, 6, 21}
      BY <2>2, <2>3, <2>4, <3>2
    <3> QED
      BY <3>1, <3>2
  <2> QED
    BY <2>1, <2>4
<1>4. Process!End(StatusClass')
  BY <1>1, <1>2, <1>3
     DEF Process!End, Process!Advance, Process!Exited, Process!Signaled
<1>5. StatusClass' \in Process!Exited({0, 6, 21, Other}) \cup Process!Signaled
  BY <1>3 DEF Process!Exited, Process!Signaled
<1> QED
  BY <1>4, <1>5 DEF Process!Next

\* What is not an end, and leaves the file alone, is a stutter.
LEMMA ProcessStays ==
  ASSUME UNCHANGED <<file, status>>
  PROVE  UNCHANGED Process!vars
  BY DEF Process!vars, StatusClass

LEMMA ProcessStep ==
  ASSUME TypeOK, FileInv, [Next]_vars
  PROVE  FileInv' /\ [Process!Next]_(Process!vars)
<1> USE DEF At, Goto, Exit, output
<1> DEFINE Quiet == /\ UNCHANGED <<file, status>>
                    /\ pc' = pc \/ /\ pc \notin {"close", "leave", "gone"}
                                   /\ pc' \notin {"close", "leave", "gone"}
           End(codes) == /\ pc' = "gone" /\ file' = file
                         /\ \E c \in codes : c \in Nat /\ status' = <<"exited", c>>
           Running == pc \notin {"close", "leave", "gone"}
<1>1. ASSUME Quiet
      PROVE  FileInv' /\ [Process!Next]_(Process!vars)
  BY <1>1, ProcessStays DEF FileInv, GoneInv
<1>2. ASSUME Running, End(Nat \ {0})
      PROVE  FileInv' /\ [Process!Next]_(Process!vars)
  <2>1. status = NoStatus /\ file = "old"
    BY <1>2 DEF FileInv, GoneInv
  <2> QED
    BY <1>2, <2>1, ProcessEnds DEF FileInv, GoneInv
<1>3. ASSUME status = NoStatus, pc' = "gone", file' = file,
             status' \in {Killed, <<"exited", EXIT_TIMEOUT>>, <<"exited", EXIT_UNPRIVILEGED>>}
      PROVE  FileInv' /\ [Process!Next]_(Process!vars)
  BY <1>3, ProcessEnds DEF FileInv, GoneInv
<1>4. CASE RefuseToStart
  BY <1>2, <1>4 DEF RefuseToStart
<1>5. CASE ArmClock
  BY <1>1, <1>5 DEF ArmClock
<1>6. CASE InstallHandler
  BY <1>1, <1>2, <1>6 DEF InstallHandler
<1>7. CASE ScanTests
  BY <1>1, <1>2, <1>7 DEF ScanTests
<1>8. CASE NextTest
  BY <1>1, <1>2, <1>8 DEF NextTest
<1>9. CASE EndTests
  BY <1>1, <1>9 DEF EndTests, OutputThenExit
<1>10. CASE TraceBreaks
  BY <1>2, <1>10 DEF TraceBreaks
<1>11. CASE ProgramExits
  BY <1>1, <1>11 DEF ProgramExits, Break
<1>12. CASE ProgramSignaled
  BY <1>1, <1>12 DEF ProgramSignaled, Break
<1>13. CASE ProgramTrapped
  BY <1>1, <1>13 DEF ProgramTrapped, Break
<1>14. CASE Compare
  <2>1. pc = "compare" /\ file' = file
    BY <1>14 DEF Compare
  <2>2. CASE pc' = "measure" /\ status' = status
    BY <1>1, <2>1, <2>2
  <2>3. CASE Exit(IF task.spj THEN EXIT_COMPARE_SPJ ELSE EXIT_COMPARE)
    BY <1>2, <2>1, <2>3
  <2> QED
    BY <1>14, <2>2, <2>3 DEF Compare, Break
<1>15. CASE Measure
  BY <1>1, <1>15 DEF Measure
<1>16. CASE OpenResult
  <2>1. /\ pc = "open" /\ pc' = "close" /\ status' = status
        /\ status = NoStatus /\ file = "old" /\ file' = "empty"
    BY <1>16 DEF OpenResult, FileInv, GoneInv
  <2>2. Process!Open
    BY <2>1 DEF Process!Open, Process!Advance, Process!NoStatus, StatusClass, Phase
  <2> QED
    BY <2>1, <2>2 DEF FileInv, GoneInv, Process!Next
<1>17. CASE CloseResult
  <2>1. /\ pc = "close" /\ pc' = "leave" /\ status' = status
        /\ status = NoStatus /\ file = "empty" /\ file' = "report"
    BY <1>17 DEF CloseResult, FileInv, GoneInv
  <2>2. Process!Close
    BY <2>1 DEF Process!Close, Process!Advance, Process!NoStatus, StatusClass, Phase
  <2> QED
    BY <2>1, <2>2 DEF FileInv, GoneInv, Process!Next
<1>18. CASE Leave
  <2>1. /\ pc = "leave" /\ pc' = "gone" /\ file' = file /\ file = "report"
        /\ status = NoStatus /\ status' = <<"exited", leave>> /\ leave \in {0, 6}
    BY <1>18 DEF Leave, TypeOK, FileInv, GoneInv
  <2>2. Process!Next
    BY <2>1, ProcessEnds
  <2> QED
    BY <2>1, <2>2 DEF FileInv, GoneInv
<1>19. CASE CompileSucceeds
  BY <1>1, <1>19 DEF CompileSucceeds
<1>20. CASE CompileFails
  BY <1>1, <1>20 DEF CompileFails, OutputThenExit
<1>21. CASE CompileBreaks
  BY <1>2, <1>21 DEF CompileBreaks
<1>22. CASE ClockExpires
  BY <1>3, <1>22 DEF ClockExpires
<1>23. CASE LogFails
  BY <1>3, <1>23 DEF LogFails
<1>24. CASE Kill
  BY <1>3, <1>24 DEF Kill
<1>25. CASE UNCHANGED vars
  BY <1>1, <1>25 DEF vars
<1> QED
  BY <1>4, <1>5, <1>6, <1>7, <1>8, <1>9, <1>10, <1>11, <1>12, <1>13, <1>14, <1>15,
     <1>16, <1>17, <1>18, <1>19, <1>20, <1>21, <1>22, <1>23, <1>24, <1>25
     DEF Next, Proceed, CompileEnds

\* JudgeRun implements JudgeProcess: in every order of failures, kills and the
\* judge clock, the daemon's picture of one judge process is right.
THEOREM Refinement == Spec => ImplementsJudgeProcess
<1>1. Init => FileInv /\ Process!Init
  BY DEF Init, FileInv, GoneInv, Process!Init, Process!NoStatus, StatusClass, Phase
<1>2. TypeOK /\ FileInv /\ [Next]_vars => FileInv' /\ [Process!Next]_(Process!vars)
  BY ProcessStep
<1> QED
  BY <1>1, <1>2, TypeCorrect, PTL DEF Spec, ImplementsJudgeProcess, Process!Spec
-----------------------------------------------------------------------------
(* The run goes forward *)

\* The loop of run_solution does not pass the last test, and who is gone has
\* a status.
BoundInv ==
  /\ pc \notin {"open", "close", "leave", "gone"} => test <= Cases
  /\ pc = "gone" <=> status # NoStatus

\* How many steps are left, place by place.
AtPlace(label, tests, n) == pc = label => StepsLeft = 4 * tests + n

PlaceTable(tests) ==
  /\ AtPlace("init", tests, 8) /\ AtPlace("handle", tests, 7)
  /\ AtPlace("compile", tests, 6) /\ AtPlace("scan", tests, 5)
  /\ AtPlace("trace", tests, 7) /\ AtPlace("compare", tests, 6)
  /\ AtPlace("measure", tests, 5) /\ AtPlace("next", tests, 4)
  /\ AtPlace("open", 0, 3) /\ AtPlace("close", 0, 2)
  /\ AtPlace("leave", 0, 1) /\ AtPlace("gone", 0, 0)

LEMMA Table == PlaceTable(Cases - test)
  BY DEF PlaceTable, AtPlace, StepsLeft

LEMMA TableNext == PlaceTable(Cases - test)'
  BY DEF PlaceTable, AtPlace, StepsLeft

\* Steps are left as long as the process is there.
LEMMA SomeLeft ==
  ASSUME TypeOK, BoundInv
  PROVE  StepsLeft \in Nat /\ (pc # "gone" => StepsLeft > 0)
<1>1. Cases \in Nat /\ test \in Nat
  BY TaskFacts DEF TypeOK
<1>2. CASE pc \in {"open", "close", "leave", "gone"}
  BY <1>2, Table DEF PlaceTable, AtPlace
<1>3. CASE pc \notin {"open", "close", "leave", "gone"}
  <2>1. Cases - test \in Nat
    BY <1>1, <1>3 DEF BoundInv
  <2> QED
    BY <1>3, <2>1, Table DEF TypeOK, PlaceTable, AtPlace
<1> QED
  BY <1>2, <1>3

\* A step to a place nearer the end, in the same test or out of the loop.
LEMMA Nearer ==
  ASSUME TypeOK, BoundInv, test' = test, UNCHANGED <<task, status>>,
         \/ pc = "init" /\ pc' = "handle"
         \/ pc = "handle" /\ pc' = "compile"
         \/ pc = "compile" /\ pc' \in {"scan", "open"}
         \/ pc = "scan" /\ pc' = "next"
         \/ pc = "next" /\ pc' = "open"
         \/ pc = "trace" /\ pc' \in {"compare", "measure"}
         \/ pc = "compare" /\ pc' = "measure"
         \/ pc = "measure" /\ pc' = "next"
         \/ pc = "open" /\ pc' = "close"
         \/ pc = "close" /\ pc' = "leave"
  PROVE  BoundInv' /\ StepsLeft' \in 0 .. StepsLeft - 1
<1>1. Cases' = Cases /\ Cases \in Nat /\ test \in Nat
  BY TaskFacts DEF TypeOK, Cases
<1>2. BoundInv'
  <2>1. pc # "gone" /\ pc' # "gone" /\ status' = status
    OBVIOUS
  <2>2. status = NoStatus
    BY <2>1 DEF BoundInv
  <2>3. pc' \notin {"open", "close", "leave", "gone"} => test' <= Cases'
    BY <1>1 DEF BoundInv
  <2> QED
    BY <2>1, <2>2, <2>3 DEF BoundInv
<1>3. CASE pc = "open" /\ pc' = "close"
  BY <1>2, <1>3, Table, TableNext DEF PlaceTable, AtPlace
<1>4. CASE pc = "close" /\ pc' = "leave"
  BY <1>2, <1>4, Table, TableNext DEF PlaceTable, AtPlace
<1>5. CASE pc \notin {"open", "close"}
  <2>1. Cases - test \in Nat /\ Cases' - test' = Cases - test
    BY <1>1, <1>5 DEF BoundInv
  <2> DEFINE toCome == Cases - test
  <2>2. /\ pc = "init" => StepsLeft = 4 * toCome + 8
        /\ pc = "handle" => StepsLeft = 4 * toCome + 7
        /\ pc = "compile" => StepsLeft = 4 * toCome + 6
        /\ pc = "scan" => StepsLeft = 4 * toCome + 5
        /\ pc = "trace" => StepsLeft = 4 * toCome + 7
        /\ pc = "compare" => StepsLeft = 4 * toCome + 6
        /\ pc = "measure" => StepsLeft = 4 * toCome + 5
        /\ pc = "next" => StepsLeft = 4 * toCome + 4
    BY Table DEF PlaceTable, AtPlace
  <2>3. PlaceTable(Cases - test)'
    BY TableNext
  <2>4. /\ pc' = "handle" => StepsLeft' = 4 * toCome + 7
        /\ pc' = "compile" => StepsLeft' = 4 * toCome + 6
        /\ pc' = "scan" => StepsLeft' = 4 * toCome + 5
        /\ pc' = "next" => StepsLeft' = 4 * toCome + 4
        /\ pc' = "compare" => StepsLeft' = 4 * toCome + 6
        /\ pc' = "measure" => StepsLeft' = 4 * toCome + 5
        /\ pc' = "open" => StepsLeft' = 3
    BY <2>1, <2>3 DEF PlaceTable, AtPlace
  <2>5. toCome \in Nat
    BY <2>1
  <2> HIDE DEF toCome
  <2> QED
    BY <1>2, <1>5, <2>2, <2>4, <2>5
<1> QED
  BY <1>2, <1>3, <1>4, <1>5

\* The end of the process, wherever it is.
LEMMA Gone ==
  ASSUME TypeOK, BoundInv, pc # "gone", pc' = "gone", status' # NoStatus
  PROVE  BoundInv' /\ StepsLeft' \in 0 .. StepsLeft - 1
<1>1. StepsLeft' = 0
  BY TableNext DEF PlaceTable, AtPlace
<1> QED
  BY <1>1, SomeLeft DEF BoundInv

LEMMA ForwardStep ==
  ASSUME TypeOK, BoundInv, Next
  PROVE  BoundInv' /\ ((pc = "trace" /\ pc' = "trace") \/ StepsLeft' \in 0 .. StepsLeft - 1)
<1> USE DEF At, Goto, Exit, judging
<1>1. CASE RefuseToStart
  BY <1>1, Gone DEF RefuseToStart
<1>2. CASE ArmClock
  BY <1>2, Nearer DEF ArmClock
<1>3. CASE InstallHandler
  BY <1>3, Nearer, Gone DEF InstallHandler
<1>4. CASE ScanTests
  BY <1>4, Nearer, Gone DEF ScanTests
<1>5. CASE NextTest
  <2>1. CASE pc' = "trace"
    <3>1. /\ pc = "next" /\ status' = status
          /\ Cases' = Cases /\ Cases \in Nat /\ test \in Nat
          /\ test < Cases /\ test' = test + 1
      BY <1>5, <2>1, TaskFacts DEF NextTest, Cases, TypeOK
    <3>2. BoundInv'
      BY <2>1, <3>1 DEF BoundInv
    <3>3. StepsLeft = 4 * (Cases - test) + 4 /\ StepsLeft' = 4 * (Cases - (test + 1)) + 7
      BY <2>1, <3>1, Table, TableNext DEF PlaceTable, AtPlace
    <3> QED
      BY <3>1, <3>2, <3>3
  <2>2. CASE pc' # "trace"
    BY <1>5, <2>2, Gone DEF NextTest
  <2> QED
    BY <2>1, <2>2
<1>6. CASE EndTests
  BY <1>6, Nearer DEF EndTests, OutputThenExit
<1>7. CASE TraceBreaks
  BY <1>7, Gone DEF TraceBreaks
<1>8. CASE ProgramExits
  BY <1>8, Nearer DEF ProgramExits, Break
<1>9. CASE ProgramSignaled
  BY <1>9, Nearer DEF ProgramSignaled, Break
<1>10. CASE ProgramTrapped
  <2>1. /\ pc = "trace" /\ pc' \in {"trace", "measure"}
        /\ UNCHANGED <<task, status, test>>
    BY <1>10 DEF ProgramTrapped, Break
  <2>2. CASE pc' = "trace"
    BY <2>1, <2>2 DEF BoundInv, Cases
  <2>3. CASE pc' = "measure"
    BY <2>1, <2>3, Nearer
  <2> QED
    BY <2>1, <2>2, <2>3
<1>11. CASE Compare
  <2>1. pc = "compare" /\ UNCHANGED <<task, test>>
    BY <1>11 DEF Compare
  <2>2. CASE pc' = "measure" /\ status' = status
    BY <2>1, <2>2, Nearer
  <2>3. CASE pc' = "gone" /\ status' # NoStatus
    BY <2>1, <2>3, Gone
  <2> QED
    BY <1>11, <2>2, <2>3 DEF Compare, Break
<1>12. CASE Measure
  BY <1>12, Nearer DEF Measure
<1>13. CASE OpenResult
  BY <1>13, Nearer DEF OpenResult
<1>14. CASE CloseResult
  BY <1>14, Nearer DEF CloseResult
<1>15. CASE Leave
  BY <1>15, Gone DEF Leave
<1>16. CASE CompileSucceeds
  BY <1>16, Nearer DEF CompileSucceeds
<1>17. CASE CompileFails
  BY <1>17, Nearer DEF CompileFails, OutputThenExit
<1>18. CASE CompileBreaks
  BY <1>18, Gone DEF CompileBreaks
<1>19. CASE ClockExpires
  BY <1>19, Gone DEF ClockExpires, BoundInv
<1>20. CASE LogFails
  BY <1>20, Gone DEF LogFails, BoundInv
<1>21. CASE Kill
  BY <1>21, Gone DEF Kill, BoundInv
<1> QED
  BY <1>1, <1>2, <1>3, <1>4, <1>5, <1>6, <1>7, <1>8, <1>9, <1>10, <1>11, <1>12, <1>13,
     <1>14, <1>15, <1>16, <1>17, <1>18, <1>19, <1>20, <1>21
     DEF Next, Proceed, CompileEnds

\* The safety half of "powerjudge ends", for every number of tests: each step
\* but a stop of the traced program uses up one of a number of steps that the
\* task bounds.  What fairness adds, that the steps are taken and that the
\* clock cuts short a program that runs for ever, is for TLC (Ends).
THEOREM GoesForward == Spec => RunsForward
<1>1. Init => BoundInv
  BY JudgeRunAssumption DEF Init, BoundInv, Cases, Task
<1>2. TypeOK /\ BoundInv /\ [Next]_vars
        => /\ BoundInv'
           /\ [(pc = "trace" /\ pc' = "trace") \/ StepsLeft' \in 0 .. StepsLeft - 1]_vars
  <2>1. CASE UNCHANGED vars
    BY <2>1 DEF vars, judging, BoundInv, Cases
  <2> QED
    BY <2>1, ForwardStep
<1> QED
  BY <1>1, <1>2, TypeCorrect, PTL DEF Spec, RunsForward
=============================================================================
