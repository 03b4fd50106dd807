--------------------------- MODULE TracedRunProofs ---------------------------
(***************************************************************************)
(* Proofs about TracedRun: it implements JudgeRun, whose theorems hold of  *)
(* it; the types; that the comparison moves on and finds the verdict that  *)
(* is defined; that the system call filter keeps the counts and, in step   *)
(* with the program, refuses none too early; and that the judge clock ends *)
(* no run whose compiler and programs keep their limits, unless all that   *)
(* they leave of its budget has gone elsewhere.                            *)
(***************************************************************************)
EXTENDS TracedRun, JudgeRunProofs, FiniteSetTheorems

-----------------------------------------------------------------------------
(* Refinement *)

\* A step of TracedRun is one of JudgeRun, or one that JudgeRun does not see.
LEMMA StepOfJudgeRun == [TracedNext]_tracedVars => [Next]_vars
<1> SUFFICES ASSUME [TracedNext]_tracedVars
             PROVE  [Next]_vars
  OBVIOUS
<1>1. CASE StartTest
  BY <1>1 DEF StartTest, Next, Proceed
<1>2. CASE ExecStop \/ EnterStop \/ ReturnStop \/ OddStop
  <2>1. ProgramTrapped
    BY <1>2 DEF ExecStop, EnterStop, ReturnStop, OddStop, Stop
  <2> QED
    BY <2>1 DEF Next, Proceed
<1>3. CASE ProgramEnds
  BY <1>3 DEF ProgramEnds, Next, Proceed
<1>4. CASE OpenOutput \/ CompareOn
  BY <1>4 DEF OpenOutput, CompareOn, Undisturbed
<1>5. CASE CompareEnds
  BY <1>5 DEF CompareEnds, Next, Proceed
<1>6. CASE TimeIsUp
  BY <1>6 DEF TimeIsUp, Next
<1>7. CASE Elsewhere
  BY <1>7 DEF Elsewhere, Next, Proceed
<1>8. CASE UNCHANGED tracedVars
  BY <1>8 DEF tracedVars
<1> QED
  BY <1>1, <1>2, <1>3, <1>4, <1>5, <1>6, <1>7, <1>8 DEF TracedNext

\* powerjudge with its filter, its comparison and its clock behaves as
\* JudgeRun says: what is proved of JudgeRun holds here.
THEOREM ImplementsJudgeRun == TracedSpec => Spec
<1>1. TracedInit => Init
  BY DEF TracedInit
<1> QED
  BY <1>1, StepOfJudgeRun, PTL DEF TracedSpec, Spec

LEMMA JudgeRunTypes == TracedSpec => []TypeOK
  BY ImplementsJudgeRun, TypeCorrect, PTL

-----------------------------------------------------------------------------
(* Types of the detail *)

DetailTypeOK ==
  /\ in_syscall \in BOOLEAN
  /\ syscalls \in [Call -> Int]
  /\ stage \in {"forked", "user", "kernel", "trap"}
  /\ call \in Call /\ used \in [Call -> Nat] /\ odd \in BOOLEAN
  /\ elapsed \in Nat /\ overran \in BOOLEAN /\ own \in Int

CompareTypeOK ==
  /\ cmp \in {"closed", "open", "done"}
  /\ file_out \in Files \cup {<<>>} /\ file_user \in Files \cup {<<>>}
  /\ std_at \in 0 .. Len(file_out) /\ exe_at \in 0 .. Len(file_user)
  /\ found \in {"AC", "PE", "WA"}

LEMMA LimitType == TypeOK => limit \in [Call -> Int] /\ limit[execve] # 0 /\ execve \in Call
  BY FilterAssumption, TracedAssumption, JudgeRunAssumption DEF TypeOK, Task, limit

\* What a stop of the program for ptrace comes to.
LEMMA StopFacts ==
  ASSUME TypeOK, NEW c \in Call, Stop(c)
  PROVE  /\ pc = "trace" /\ UNCHANGED <<task, clock, status, ran, test, comparison>>
         /\ \/ pc' = "measure" /\ how' = "memory" /\ UNCHANGED filter
            \/ c <= 0 /\ pc' = "trace" /\ UNCHANGED filter
            \/ /\ c > 0 /\ is_valid_syscall(c) /\ pc' = "trace"
               /\ InTable(c) => IsAllowed(c)
            \/ /\ c > 0 /\ is_valid_syscall(c) /\ pc' = "measure" /\ how' = "syscall"
               /\ InTable(c) => ~IsAllowed(c)
<1>1. PICK m \in Memories :
        /\ memory_usage' = Larger(memory_usage, m)
        /\ \/ memory_usage' > task.memory_limit /\ Break(OJ_MLE, "memory")
           \/ memory_usage' <= task.memory_limit /\ Break(OJ_RF, "syscall")
           \/ memory_usage' <= task.memory_limit
              /\ UNCHANGED <<pc, clock, status, result, how>>
  BY DEF Stop, ProgramTrapped
<1>2. pc = "trace" /\ UNCHANGED <<task, ran, test, comparison>>
  BY DEF Stop, ProgramTrapped, At
<1>3. UNCHANGED <<clock, status>>
  BY <1>1 DEF Break, Goto
<1>4. memory_usage' \in Nat /\ task.memory_limit \in Nat /\ c \in Int
  BY <1>1, TaskFacts, FilterAssumption, JudgeRunAssumption DEF TypeOK, Larger
<1>5. CASE memory_usage' > task.memory_limit
  <2>1. Break(OJ_MLE, "memory")
    BY <1>1, <1>4, <1>5
  <2>2. UNCHANGED filter
    BY <1>4, <1>5 DEF Stop
  <2> QED
    BY <1>2, <1>3, <2>1, <2>2 DEF Break, Goto
<1>6. CASE memory_usage' <= task.memory_limit
  <2>1. \/ pc' = "measure" /\ how' = "syscall"
        \/ pc' = "trace"
    BY <1>1, <1>2, <1>4, <1>6 DEF Break, Goto
  <2>2. \/ c <= 0 /\ pc' = "trace" /\ UNCHANGED filter
        \/ /\ c > 0 /\ is_valid_syscall(c)
           /\ \E allowed \in Answers(c) : pc' = IF allowed THEN "trace" ELSE "measure"
    BY <1>4, <1>6 DEF Stop
  <2>3. \A allowed \in Answers(c) : InTable(c) => allowed = IsAllowed(c)
    BY DEF Answers
  <2> QED
    BY <1>2, <1>3, <2>1, <2>2, <2>3
<1> QED
  BY <1>4, <1>5, <1>6

LEMMA ValidType ==
  ASSUME DetailTypeOK, NEW c \in Call, is_valid_syscall(c) \/ UNCHANGED filter
  PROVE  in_syscall' \in BOOLEAN /\ syscalls' \in [Call -> Int]
<1>1. CASE is_valid_syscall(c)
  <2>1. in_syscall' \in BOOLEAN
    BY <1>1 DEF is_valid_syscall
  <2>2. CASE InTable(c)
    <3>1. syscalls' = [syscalls EXCEPT ![c] = syscalls'[c]]
          /\ syscalls'[c] \in {syscalls[c], syscalls[c] - 1}
      BY <1>1, <2>2 DEF is_valid_syscall, Decrement, DetailTypeOK
    <3> QED
      BY <2>1, <3>1 DEF DetailTypeOK
  <2>3. CASE ~InTable(c)
    BY <1>1, <2>1, <2>3 DEF is_valid_syscall, Decrement, DetailTypeOK
  <2> QED
    BY <2>2, <2>3
<1>2. CASE UNCHANGED filter
  BY <1>2 DEF DetailTypeOK, filter
<1> QED
  BY <1>1, <1>2

TimingType == elapsed \in Nat /\ overran \in BOOLEAN /\ own \in Int

LEMMA TakesType ==
  ASSUME DetailTypeOK, NEW d \in Int, elapsed + d \in Nat, Takes(d)
  PROVE  TimingType'
<1>1. overran' \in BOOLEAN
  BY Zenon DEF Takes
<1>2. elapsed' \in Nat /\ own' \in Int
  BY DEF Takes, DetailTypeOK
<1> QED
  BY <1>1, <1>2 DEF TimingType

LEMMA ElapseType ==
  ASSUME DetailTypeOK, Elapse
  PROVE  TimingType'
<1>1. CASE UNCHANGED timing
  BY <1>1 DEF timing, TimingType, DetailTypeOK
<1>2. CASE ~UNCHANGED timing
  <2>1. PICK d \in IF pc \in Slow THEN Durations ELSE {0} : Takes(d)
    BY <1>2 DEF Elapse
  <2>2. d \in Nat
    BY <2>1, TracedAssumption
  <2> QED
    BY <2>1, <2>2, TakesType DEF DetailTypeOK
<1> QED
  BY <1>1, <1>2

LEMMA BudgetType == TypeOK => Budget \in Nat
<1> SUFFICES ASSUME TypeOK
             PROVE  Budget \in Nat
  OBVIOUS
<1>1. task.time_limit \in Nat /\ task.out \in Nat
  BY TaskFacts
<1>2. \A a, b \in Nat : (15347 + a) * b \in Nat
  OBVIOUS
<1> QED
  BY <1>1, <1>2 DEF Budget, judge_time_limit, Counted

LEMMA TimeIsUpType ==
  ASSUME TypeOK, DetailTypeOK, TimeIsUp
  PROVE  TimingType'
<1>1. Budget \in Nat /\ elapsed \in Nat
  BY BudgetType DEF DetailTypeOK
<1>2. Budget - elapsed \in Int /\ elapsed + (Budget - elapsed) \in Nat
  BY <1>1
<1> QED
  BY <1>2, TakesType DEF TimeIsUp

LEMMA StopType ==
  ASSUME TypeOK, DetailTypeOK, NEW c \in Call, Stop(c)
  PROVE  in_syscall' \in BOOLEAN /\ syscalls' \in [Call -> Int] /\ TimingType'
<1>1. is_valid_syscall(c) \/ UNCHANGED filter
  BY DEF Stop
<1>2. TimingType'
  BY ElapseType DEF Stop
<1> QED
  BY <1>1, <1>2, ValidType

LEMMA CountingType ==
  ASSUME DetailTypeOK, NEW c \in Call
  PROVE  Counting(c) \in [Call -> Nat]
  BY DEF DetailTypeOK, Counting

LEMMA DetailTypeStep ==
  TypeOK /\ DetailTypeOK /\ [TracedNext]_tracedVars => DetailTypeOK'
<1> SUFFICES ASSUME TypeOK, DetailTypeOK, [TracedNext]_tracedVars
             PROVE  DetailTypeOK'
  OBVIOUS
<1>a. ASSUME Elapse PROVE TimingType'
  BY <1>a, ElapseType
<1> USE DEF TimingType
<1>b. execve \in Call /\ NoneUsed \in [Call -> Nat]
  BY TracedAssumption DEF NoneUsed
<1>1. CASE StartTest
  <2>1. CASE pc' = "trace"
    <3>1. syscalls' = limit /\ UNCHANGED in_syscall
      BY <1>1, <2>1 DEF StartTest, init_syscalls, limit
    <3> QED
      BY <1>1, <1>a, <1>b, <2>1, <3>1, LimitType DEF StartTest, DetailTypeOK
  <2>2. CASE pc' # "trace"
    BY <1>1, <1>a, <2>2 DEF StartTest, DetailTypeOK, filter, program
  <2> QED
    BY <2>1, <2>2
<1>2. CASE ExecStop
  <2>1. Stop(execve) /\ call' = execve /\ UNCHANGED odd
    BY <1>2 DEF ExecStop
  <2>2. stage' \in {"user", "kernel"} /\ used' \in {Counting(execve), used}
    BY <1>2 DEF ExecStop
  <2> QED
    BY <1>b, <2>1, <2>2, StopType, CountingType DEF DetailTypeOK
<1>3. CASE EnterStop
  <2>1. PICK c \in Call : /\ Stop(c) /\ call' = c
                          /\ used' = IF pc' = "trace" THEN Counting(c) ELSE used
    BY <1>3 DEF EnterStop
  <2>2. stage' = "kernel"
    BY <1>3 DEF EnterStop
  <2>3. odd' \in BOOLEAN
    BY <1>3, Zenon DEF EnterStop
  <2> QED
    BY <2>1, <2>2, <2>3, StopType, CountingType DEF DetailTypeOK
<1>4. CASE ReturnStop
  <2>1. Stop(call) /\ UNCHANGED <<call, used, odd>> /\ stage' \in {"user", "trap"}
    BY <1>4 DEF ReturnStop
  <2> QED
    BY <2>1, StopType DEF DetailTypeOK
<1>5. CASE OddStop
  <2>1. Stop(call) /\ UNCHANGED <<call, used>> /\ stage' = "user" /\ odd' = TRUE
    BY <1>5 DEF OddStop
  <2> QED
    BY <2>1, StopType DEF DetailTypeOK
<1>6. CASE ProgramEnds
  BY <1>6, <1>a, <1>b DEF ProgramEnds, DetailTypeOK, filter
<1>7. CASE OpenOutput \/ CompareOn
  BY <1>7 DEF OpenOutput, CompareOn, Undisturbed, DetailTypeOK, filter, program, timing
<1>8. CASE CompareEnds
  BY <1>8, <1>a DEF CompareEnds, DetailTypeOK, filter, program
<1>9. CASE TimeIsUp
  BY <1>9, TimeIsUpType DEF TimeIsUp, DetailTypeOK, filter, program
<1>10. CASE Elsewhere
  BY <1>10, <1>a DEF Elsewhere, DetailTypeOK, filter, program
<1>11. CASE UNCHANGED tracedVars
  BY <1>11 DEF tracedVars, DetailTypeOK, filter, program, timing
<1> QED
  BY <1>1, <1>2, <1>3, <1>4, <1>5, <1>6, <1>7, <1>8, <1>9, <1>10, <1>11 DEF TracedNext

-----------------------------------------------------------------------------
(* The comparison *)

LEMMA FilesType ==
  CompareTypeOK => /\ file_out \in Seq(STRING) /\ file_user \in Seq(STRING)
                   /\ Len(file_out) \in Nat /\ Len(file_user) \in Nat
                   /\ std_at \in Nat /\ exe_at \in Nat
<1> SUFFICES ASSUME CompareTypeOK
             PROVE  /\ file_out \in Seq(STRING) /\ file_user \in Seq(STRING)
                    /\ Len(file_out) \in Nat /\ Len(file_user) \in Nat
                    /\ std_at \in Nat /\ exe_at \in Nat
  OBVIOUS
<1>1. <<>> \in Seq(STRING)
  OBVIOUS
<1>2. file_out \in Files \cup {<<>>} /\ file_user \in Files \cup {<<>>}
  BY DEF CompareTypeOK
<1>3. file_out \in Seq(STRING) /\ file_user \in Seq(STRING)
  BY <1>1, <1>2, FilesAssumption, Zenon
<1> QED
  BY <1>3 DEF CompareTypeOK

\* What an iteration does to the positions, and to the verdict.
LEMMA IterateFacts ==
  ASSUME CompareTypeOK, Iterate
  PROVE  /\ CompareTypeOK'
         /\ cmp = "open" /\ cmp' = "open" =>
              /\ std_at' >= std_at /\ exe_at' >= exe_at
              /\ std_at' + exe_at' > std_at + exe_at
<1>1. PICK m \in PastCR(file_out, std_at), n \in PastCR(file_user, exe_at) :
        \/ AtEnd(m, n)
        \/ /\ m < Len(file_out) /\ n < Len(file_user)
           /\ \/ Equal(m, n)
              \/ Differ(m, n, file_out[m + 1], file_user[n + 1])
  BY DEF Iterate
<1>2. /\ m \in Nat /\ n \in Nat /\ m >= std_at /\ n >= exe_at
      /\ m <= Len(file_out) /\ n <= Len(file_user)
  BY FilesType DEF PastCR
<1>3. UNCHANGED <<file_out, file_user>> /\ cmp = "open"
  BY DEF Iterate
<1>4. CASE AtEnd(m, n)
  <2>1. /\ cmp' = "done" /\ found' \in {found, "WA"}
        /\ std_at' = Len(file_out) /\ exe_at' = Len(file_user)
    BY <1>4 DEF AtEnd
  <2> QED
    BY <1>3, <2>1, FilesType DEF CompareTypeOK
<1>5. CASE m < Len(file_out) /\ n < Len(file_user) /\ Equal(m, n)
  BY <1>2, <1>3, <1>5, FilesType DEF Equal, CompareTypeOK
<1>6. ASSUME NEW a, NEW b, m < Len(file_out), n < Len(file_user), Differ(m, n, a, b)
      PROVE  /\ CompareTypeOK'
             /\ cmp' = "open" => /\ std_at' >= std_at /\ exe_at' >= exe_at
                                 /\ std_at' + exe_at' > std_at + exe_at
  <2>1. std_at' \in {m, m + 1} /\ exe_at' \in {n, n + 1}
    BY <1>6 DEF Differ
  <2>2. std_at' = m + 1 \/ exe_at' = n + 1
    BY <1>6 DEF Differ
  <2>3. cmp' \in {"open", "done"} /\ found' \in {"PE", "WA"}
    BY <1>3, <1>6 DEF Differ
  <2>4. /\ std_at' \in 0 .. Len(file_out) /\ exe_at' \in 0 .. Len(file_user)
        /\ std_at' >= std_at /\ exe_at' >= exe_at
    BY <1>2, <1>6, <2>1, FilesType
  <2>5. std_at' + exe_at' > std_at + exe_at
    BY <1>2, <2>1, <2>2, FilesType
  <2>6. CompareTypeOK'
    BY <1>3, <2>3, <2>4 DEF CompareTypeOK
  <2> QED
    BY <2>4, <2>5, <2>6
<1> QED
  BY <1>1, <1>3, <1>4, <1>5, <1>6

\* What other steps do to the comparison.
LEMMA OtherCompareSteps ==
  ASSUME [TracedNext]_tracedVars, ~Iterate
  PROVE  UNCHANGED comparison \/ OpenFiles \/ CloseFiles
BY DEF TracedNext, tracedVars, StartTest, ExecStop, EnterStop, ReturnStop, OddStop, Stop,
       ProgramEnds, OpenOutput, CompareOn, CompareEnds, TimeIsUp, Elsewhere

LEMMA CompareTypeStep ==
  ASSUME CompareTypeOK, [TracedNext]_tracedVars
  PROVE  CompareTypeOK'
<1>1. CASE Iterate
  BY <1>1, IterateFacts
<1>2. CASE UNCHANGED comparison
  BY <1>2 DEF CompareTypeOK, comparison
<1>3. CASE OpenFiles
  <2>1. file_out' \in Seq(STRING) /\ file_user' \in Seq(STRING)
    BY <1>3, FilesAssumption DEF OpenFiles
  <2> QED
    BY <1>3, <2>1 DEF OpenFiles, CompareTypeOK
<1>4. CASE CloseFiles
  BY <1>4 DEF CloseFiles, CompareTypeOK
<1> QED
  BY <1>1, <1>2, <1>3, <1>4, OtherCompareSteps

\* TypeOK of the whole, for every task, file and table of calls.
THEOREM TracedTypeCorrect == TracedSpec => []TracedTypeOK
<1>1. ASSUME TracedInit
      PROVE  DetailTypeOK /\ CompareTypeOK
  <2>1. in_syscall \in BOOLEAN /\ odd \in BOOLEAN /\ overran \in BOOLEAN
    BY <1>1, Zenon DEF TracedInit, InitFilter
  <2>2. DetailTypeOK
    BY <1>1, <2>1, TracedAssumption DEF TracedInit, InitFilter, NoneUsed, DetailTypeOK
  <2>3. CompareTypeOK
    BY <1>1 DEF TracedInit, InitCompare, CompareTypeOK
  <2> QED
    BY <2>2, <2>3
<1>2. TypeOK /\ DetailTypeOK /\ CompareTypeOK /\ [TracedNext]_tracedVars
        => DetailTypeOK' /\ CompareTypeOK'
  BY DetailTypeStep, CompareTypeStep
<1>3. TracedTypeOK <=> TypeOK /\ DetailTypeOK /\ CompareTypeOK
  BY DEF TracedTypeOK, DetailTypeOK, CompareTypeOK
<1> QED
  BY <1>1, <1>2, <1>3, JudgeRunTypes, PTL DEF TracedSpec

LEMMA TracedTypes == TracedSpec => [](TypeOK /\ DetailTypeOK /\ CompareTypeOK)
<1>1. TracedTypeOK <=> TypeOK /\ DetailTypeOK /\ CompareTypeOK
  BY DEF TracedTypeOK, DetailTypeOK, CompareTypeOK
<1> QED
  BY <1>1, TracedTypeCorrect, PTL

\* For all files an iteration consumes a character and takes none back.
THEOREM ComparisonMovesOn == TracedSpec => IterationConsumes
<1>1. ASSUME CompareTypeOK, [TracedNext]_tracedVars
      PROVE  [cmp = "open" /\ cmp' = "open" =>
                 /\ std_at' >= std_at /\ exe_at' >= exe_at
                 /\ std_at' + exe_at' > std_at + exe_at]_comparison
  <2>1. CASE Iterate
    BY <1>1, <2>1, IterateFacts
  <2>2. CASE UNCHANGED comparison
    BY <2>2
  <2>3. CASE OpenFiles \/ CloseFiles
    BY <2>3 DEF OpenFiles, CloseFiles
  <2> QED
    BY <1>1, <2>1, <2>2, <2>3, OtherCompareSteps
<1> QED
  BY <1>1, TracedTypes, PTL DEF TracedSpec, IterationConsumes

-----------------------------------------------------------------------------
(* The comparison computes Definition *)

\* Rank counts: it is a number, passes over what is not in S, goes up by one
\* at a member of S, and is the whole of S at the end.
LEMMA RankType ==
  ASSUME NEW N \in Nat, NEW S \in SUBSET (1 .. N), NEW k
  PROVE  /\ IsFiniteSet(S) /\ IsFiniteSet({i \in S : i <= k})
         /\ Rank(S, k) \in Nat
<1>1. IsFiniteSet(1 .. N)
  BY FS_Interval
<1>2. IsFiniteSet(S)
  BY <1>1, FS_Subset
<1>3. IsFiniteSet({i \in S : i <= k})
  BY <1>2, FS_Subset
<1> QED
  BY <1>2, <1>3, FS_CardinalityType DEF Rank

LEMMA RankSkips ==
  ASSUME NEW N \in Nat, NEW S \in SUBSET (1 .. N), NEW k \in Nat, NEW l \in Nat,
         k <= l, \A i \in S : i <= k \/ i > l
  PROVE  Rank(S, l) = Rank(S, k)
<1>1. \A i \in S : i <= l <=> i <= k
  OBVIOUS
<1>2. {i \in S : i <= l} = {i \in S : i <= k}
  BY <1>1
<1> QED
  BY <1>2 DEF Rank

LEMMA RankCounts ==
  ASSUME NEW N \in Nat, NEW S \in SUBSET (1 .. N), NEW k \in Nat, k + 1 \in S
  PROVE  Rank(S, k + 1) = Rank(S, k) + 1
<1>0. \A i \in S : i <= k + 1 <=> i <= k \/ i = k + 1
  OBVIOUS
<1>3. IsFiniteSet({i \in S : i <= k})
  BY RankType
<1>1. {i \in S : i <= k + 1} = {i \in S : i <= k} \cup {k + 1}
  BY <1>0
<1>2. k + 1 \notin {i \in S : i <= k}
  OBVIOUS
<1>4. Cardinality({i \in S : i <= k + 1}) = Cardinality({i \in S : i <= k}) + 1
  BY <1>1, <1>2, <1>3, FS_AddElement
<1> QED
  BY <1>4 DEF Rank

LEMMA RankGrows ==
  ASSUME NEW N \in Nat, NEW S \in SUBSET (1 .. N), NEW k \in Nat, NEW l \in Nat, k <= l
  PROVE  /\ Rank(S, k) <= Rank(S, l)
         /\ k < l /\ l \in S => Rank(S, k) < Rank(S, l)
<1>0. ASSUME NEW a \in Nat, NEW b \in Nat, a <= b
      PROVE  Rank(S, a) <= Rank(S, b)
  <2>1. \A i \in S : i <= a => i <= b
    BY <1>0
  <2>2. {i \in S : i <= a} \in SUBSET {i \in S : i <= b}
    BY <2>1
  <2>3. IsFiniteSet({i \in S : i <= b})
    BY RankType
  <2>4. Cardinality({i \in S : i <= a}) <= Cardinality({i \in S : i <= b})
    BY <2>2, <2>3, FS_Subset
  <2> QED
    BY <2>4 DEF Rank
<1>2. Rank(S, k) <= Rank(S, l)
  BY <1>0
<1>3. ASSUME k < l, l \in S
      PROVE  Rank(S, k) < Rank(S, l)
  <2>1. l - 1 \in Nat /\ (l - 1) + 1 = l /\ k <= l - 1
    BY <1>3
  <2>2. Rank(S, l) = Rank(S, l - 1) + 1
    BY <1>3, <2>1, RankCounts
  <2>3. Rank(S, k) <= Rank(S, l - 1)
    BY <1>0, <2>1
  <2>4. Rank(S, k) \in Nat /\ Rank(S, l - 1) \in Nat
    BY RankType
  <2> QED
    BY <2>2, <2>3, <2>4
<1> QED
  BY <1>2, <1>3

LEMMA RankAll ==
  ASSUME NEW N \in Nat, NEW S \in SUBSET (1 .. N), NEW k \in Nat,
         \A i \in S : i <= k
  PROVE  Rank(S, k) = Cardinality(S)
<1>1. {i \in S : i <= k} = S
  OBVIOUS
<1> QED
  BY <1>1 DEF Rank

\* The characters at S in f up to m are those at T in g up to n.
Alike(f, S, m, g, T, n) ==
  /\ Rank(S, m) = Rank(T, n)
  /\ \A i \in S, j \in T :
       i <= m /\ j <= n /\ Rank(S, i) = Rank(T, j) => f[i] = g[j]

LEMMA AlikeTurned ==
  ASSUME NEW f, NEW S, NEW m, NEW g, NEW T, NEW n
  PROVE  /\ Alike(f, S, m, g, T, n) <=> Alike(g, T, n, f, S, m)
         /\ Agree(f, S, g, T) <=> Agree(g, T, f, S)
BY DEF Alike, Agree

LEMMA AlikeSkips ==
  ASSUME NEW M \in Nat, NEW S \in SUBSET (1 .. M), NEW m \in Nat, NEW k \in Nat,
         NEW N \in Nat, NEW T \in SUBSET (1 .. N), NEW n \in Nat, NEW l \in Nat,
         NEW f, NEW g, Alike(f, S, m, g, T, n),
         m <= k, \A i \in S : i <= m \/ i > k,
         n <= l, \A j \in T : j <= n \/ j > l
  PROVE  Alike(f, S, k, g, T, l)
<1>1. Rank(S, k) = Rank(S, m) /\ Rank(T, l) = Rank(T, n)
  BY RankSkips
<1>2. \A i \in S : i <= k => i <= m
  OBVIOUS
<1>3. \A j \in T : j <= l => j <= n
  OBVIOUS
<1> QED
  BY <1>1, <1>2, <1>3 DEF Alike

\* The next characters have the same rank: if they are equal the likeness
\* goes on, if they are not there is none.
LEMMA AlikeNext ==
  ASSUME NEW M \in Nat, NEW S \in SUBSET (1 .. M), NEW m \in Nat, m + 1 \in S,
         NEW N \in Nat, NEW T \in SUBSET (1 .. N), NEW n \in Nat, n + 1 \in T,
         NEW f, NEW g, Alike(f, S, m, g, T, n)
  PROVE  /\ f[m + 1] = g[n + 1] => Alike(f, S, m + 1, g, T, n + 1)
         /\ f[m + 1] # g[n + 1] => ~Agree(f, S, g, T)
<1>1. /\ Rank(S, m + 1) = Rank(S, m) + 1 /\ Rank(T, n + 1) = Rank(T, n) + 1
      /\ Rank(S, m) = Rank(T, n) /\ Rank(S, m) \in Nat
  BY RankCounts, RankType DEF Alike
<1>2. ASSUME f[m + 1] = g[n + 1], NEW i \in S, NEW j \in T, i <= m + 1, j <= n + 1,
             Rank(S, i) = Rank(T, j)
      PROVE  f[i] = g[j]
  <2>0. i \in Nat /\ j \in Nat
    OBVIOUS
  <2>1. CASE i <= m /\ j <= n
    BY <1>2, <2>1 DEF Alike
  <2>2. CASE i = m + 1 /\ j = n + 1
    BY <1>2, <2>2
  <2>3. CASE i <= m /\ j = n + 1
    <3>1. Rank(S, i) <= Rank(S, m)
      BY <2>0, <2>3, RankGrows
    <3> QED
      BY <1>1, <1>2, <2>3, <3>1, <2>0, RankType
  <2>4. CASE i = m + 1 /\ j <= n
    <3>1. Rank(T, j) <= Rank(T, n)
      BY <2>0, <2>4, RankGrows
    <3> QED
      BY <1>1, <1>2, <2>4, <3>1, <2>0, RankType
  <2> QED
    BY <1>2, <2>0, <2>1, <2>2, <2>3, <2>4
<1> QED
  BY <1>1, <1>2 DEF Alike, Agree

\* When the characters of f are exhausted they agree with those of g, and
\* what g has besides comes later.
LEMMA AlikeToEnd ==
  ASSUME NEW M \in Nat, NEW S \in SUBSET (1 .. M), NEW m \in Nat,
         NEW N \in Nat, NEW T \in SUBSET (1 .. N), NEW n \in Nat,
         NEW f, NEW g, Alike(f, S, m, g, T, n), \A i \in S : i <= m
  PROVE  /\ Agree(f, S, g, T)
         /\ Cardinality(S) <= Cardinality(T)
         /\ \A j \in T : Rank(T, j) > Cardinality(S) => j > n
         /\ \A j \in T : j > n => Cardinality(S) < Cardinality(T)
<1>1. Cardinality(S) = Rank(T, n) /\ Cardinality(S) = Rank(S, m)
  BY RankAll DEF Alike
<1>0. /\ \A i \in S : i \in Nat /\ Rank(S, i) \in Nat
      /\ \A j \in T : j \in Nat /\ j <= N + n /\ Rank(T, j) \in Nat
      /\ Rank(S, m) \in Nat /\ Rank(T, n) \in Nat /\ Rank(T, N + n) \in Nat
      /\ n <= N + n /\ N + n \in Nat
  <2>1. \A k : Rank(S, k) \in Nat /\ Rank(T, k) \in Nat
    BY RankType
  <2> QED
    BY <2>1
<1>2. Cardinality(T) = Rank(T, N + n)
  <2>1. {j \in T : j <= N + n} = T
    BY <1>0
  <2> QED
    BY <2>1 DEF Rank
<1>3. Cardinality(S) <= Cardinality(T)
  BY <1>0, <1>1, <1>2, RankGrows
<1>4. ASSUME NEW j \in T, j > n
      PROVE  Rank(T, j) > Rank(T, n) /\ Rank(T, n) < Cardinality(T)
  <2>1. j \in Nat /\ n < j /\ n <= j /\ j <= N + n
    BY <1>0, <1>4
  <2>2. Rank(T, n) < Rank(T, j)
    BY <2>1, RankGrows
  <2>3. Rank(T, j) <= Rank(T, N + n)
    BY <1>0, <2>1, RankGrows
  <2> QED
    BY <1>0, <1>2, <2>2, <2>3
<1>5. ASSUME NEW j \in T, j <= n
      PROVE  Rank(T, j) <= Rank(T, n)
  BY <1>0, <1>5, RankGrows
<1>6. ASSUME NEW i \in S, NEW j \in T, Rank(S, i) = Rank(T, j)
      PROVE  f[i] = g[j]
  <2>1. i <= m
    OBVIOUS
  <2>2. Rank(S, i) <= Rank(S, m)
    BY <1>0, <2>1, RankGrows
  <2>3. j <= n
    BY <1>0, <1>1, <1>4, <1>6, <2>2
  <2> QED
    BY <1>6, <2>1, <2>3 DEF Alike
<1>7. \A j \in T : Rank(T, j) > Cardinality(S) => j > n
  BY <1>0, <1>1, <1>5
<1> QED
  BY <1>1, <1>3, <1>4, <1>6, <1>7 DEF Agree

\* While the loop runs what can be seen of both files is alike so far; so is
\* the text, until the first difference, which makes it differ for good.
CompareInv ==
  cmp = "open" =>
    /\ found # "WA"
    /\ Alike(file_out, Visible(file_out), std_at,
             file_user, Visible(file_user), exe_at)
    /\ found = "AC" => Alike(file_out, Text(file_out), std_at,
                             file_user, Text(file_user), exe_at)
    /\ found = "PE" => ~Agree(file_out, Text(file_out), file_user, Text(file_user))

LEMMA CharactersType ==
  ASSUME NEW f \in Seq(STRING)
  PROVE  /\ Text(f) \in SUBSET (1 .. Len(f)) /\ Visible(f) \in SUBSET (1 .. Len(f))
         /\ Visible(f) \subseteq Text(f)
         /\ \A k \in 1 .. Len(f) : k \in Text(f) <=> f[k] # CR
         /\ \A k \in 1 .. Len(f) :
              k \in Visible(f) <=> f[k] # CR /\ ~is_space_char(f[k])
BY DEF Text, Visible

\* The carriage returns that are read over are no text.
LEMMA PastCRFacts ==
  ASSUME NEW f \in Seq(STRING), NEW k \in 0 .. Len(f), NEW m \in PastCR(f, k)
  PROVE  /\ m \in Nat /\ k <= m /\ m <= Len(f)
         /\ \A i \in Text(f) : i <= k \/ i > m
         /\ \A i \in Visible(f) : i <= k \/ i > m
         /\ m < Len(f) => /\ m + 1 \in Text(f)
                          /\ m + 1 \in Visible(f) <=> ~is_space_char(f[m + 1])
<1>0. Len(f) \in Nat /\ k \in Nat
  OBVIOUS
<1>1. /\ m \in Nat /\ k <= m /\ m <= Len(f)
      /\ \A i \in k + 1 .. m : f[i] = CR
      /\ m = Len(f) \/ f[m + 1] # CR
  BY <1>0 DEF PastCR
<1>2. \A i \in Text(f) : i \in 1 .. Len(f) /\ f[i] # CR
  BY CharactersType
<1>3. \A i \in Text(f) : i <= k \/ i > m
  BY <1>0, <1>1, <1>2
<1>4. \A i \in Visible(f) : i <= k \/ i > m
  BY <1>3, CharactersType
<1>5. ASSUME m < Len(f)
      PROVE  /\ m + 1 \in Text(f)
             /\ m + 1 \in Visible(f) <=> ~is_space_char(f[m + 1])
  <2>1. m + 1 \in 1 .. Len(f) /\ f[m + 1] # CR
    BY <1>0, <1>1, <1>5
  <2> QED
    BY <2>1, CharactersType
<1> QED
  BY <1>1, <1>3, <1>4, <1>5

LEMMA OpenAlike ==
  ASSUME NEW f \in Seq(STRING), NEW g \in Seq(STRING)
  PROVE  /\ Alike(f, Visible(f), 0, g, Visible(g), 0)
         /\ Alike(f, Text(f), 0, g, Text(g), 0)
<1>1. ASSUME NEW h \in Seq(STRING)
      PROVE  Rank(Text(h), 0) = 0 /\ Rank(Visible(h), 0) = 0
  <2>1. {i \in Text(h) : i <= 0} = {} /\ {i \in Visible(h) : i <= 0} = {}
    BY CharactersType
  <2> QED
    BY <2>1, FS_EmptySet DEF Rank
<1>2. /\ \A i \in Text(f) : ~(i <= 0)
      /\ \A i \in Visible(f) : ~(i <= 0)
  BY CharactersType
<1> QED
  BY <1>1, <1>2 DEF Alike

\* The loop ends because a file does, with the text alike so far or known to
\* differ: the rest of the other file decides.
LEMMA EndVerdict ==
  ASSUME NEW f \in Seq(STRING), NEW g \in Seq(STRING),
         NEW m \in 0 .. Len(f), NEW n \in 0 .. Len(g), m = Len(f),
         Alike(f, Visible(f), m, g, Visible(g), n),
         NEW v \in {"AC", "PE"},
         v = "AC" => Alike(f, Text(f), m, g, Text(g), n),
         v = "PE" => ~Agree(f, Text(f), g, Text(g))
  PROVE  Definition(f, g) =
           IF \A k \in n + 1 .. Len(g) : is_space_char(g[k]) \/ g[k] = CR
           THEN v ELSE "WA"
<1>0. /\ Len(f) \in Nat /\ Len(g) \in Nat /\ m \in Nat /\ n \in Nat
      /\ Text(f) \in SUBSET (1 .. Len(f)) /\ Visible(f) \in SUBSET (1 .. Len(f))
      /\ Text(g) \in SUBSET (1 .. Len(g)) /\ Visible(g) \in SUBSET (1 .. Len(g))
  BY CharactersType
<1>1. (\A i \in Visible(f) : i <= m) /\ (\A i \in Text(f) : i <= m)
  BY <1>0
<1>2. /\ Agree(f, Visible(f), g, Visible(g))
      /\ Cardinality(Visible(f)) = Rank(Visible(g), n)
      /\ \A j \in Visible(g) :
           j > n => Cardinality(Visible(f)) < Cardinality(Visible(g))
  <2>1. Agree(f, Visible(f), g, Visible(g))
    BY <1>0, <1>1, AlikeToEnd
  <2>2. Cardinality(Visible(f)) = Rank(Visible(g), n)
    BY <1>0, <1>1, RankAll DEF Alike
  <2>3. \A j \in Visible(g) :
           j > n => Cardinality(Visible(f)) < Cardinality(Visible(g))
    BY <1>0, <1>1, AlikeToEnd
  <2> QED
    BY <2>1, <2>2, <2>3
<1>3. Cardinality(Visible(f)) \in Nat /\ Cardinality(Visible(g)) \in Nat
  <2>1. IsFiniteSet(Visible(f)) /\ IsFiniteSet(Visible(g))
    BY <1>0, RankType
  <2> QED
    BY <2>1, FS_CardinalityType
<1>4. CASE \A k \in n + 1 .. Len(g) : is_space_char(g[k]) \/ g[k] = CR
  <2>1. \A j \in Visible(g) : j <= n
    BY <1>0, <1>4, CharactersType
  <2>2. Rank(Visible(g), n) = Cardinality(Visible(g))
    BY <1>0, <2>1, RankAll
  <2>3. SameVisible(f, g)
    BY <1>2, <2>2 DEF SameVisible
  <2>4. CASE v = "AC"
    <3>1. /\ Agree(f, Text(f), g, Text(g))
          /\ Cardinality(Text(f)) <= Cardinality(Text(g))
          /\ \A j \in Text(g) : Rank(Text(g), j) > Cardinality(Text(f)) => j > n
      BY <1>0, <1>1, <2>4, AlikeToEnd
    <3>2. \A j \in Text(g) : j > n => is_space_char(g[j])
      BY <1>0, <1>4, CharactersType
    <3>3. Extends(g, f)
      BY <3>1, <3>2 DEF Extends
    <3> QED
      BY <1>4, <2>3, <2>4, <3>3 DEF Definition
  <2>5. CASE v = "PE"
    <3>1. ~Extends(g, f) /\ ~Extends(f, g)
      BY <2>5, AlikeTurned DEF Extends
    <3> QED
      BY <1>4, <2>3, <2>5, <3>1 DEF Definition
  <2> QED
    BY <2>4, <2>5
<1>5. CASE \E k \in n + 1 .. Len(g) : ~is_space_char(g[k]) /\ g[k] # CR
  <2>1. \E j \in Visible(g) : j > n
    BY <1>0, <1>5, CharactersType
  <2>2. ~SameVisible(f, g)
    BY <1>2, <1>3, <2>1 DEF SameVisible
  <2> QED
    BY <1>5, <2>2 DEF Definition
<1> QED
  BY <1>4, <1>5

LEMMA DefinitionTurned ==
  ASSUME NEW f, NEW g
  PROVE  Definition(f, g) = Definition(g, f)
BY AlikeTurned DEF Definition, SameVisible

LEMMA CompareStep ==
  ASSUME CompareTypeOK, CompareInv, Iterate
  PROVE  CompareInv' /\ ComparedAsDefined'
<1> DEFINE f == file_out
           g == file_user
<1>0. /\ f \in Seq(STRING) /\ g \in Seq(STRING) /\ Len(f) \in Nat /\ Len(g) \in Nat
      /\ std_at \in 0 .. Len(f) /\ exe_at \in 0 .. Len(g)
      /\ found \in {"AC", "PE"} /\ cmp = "open"
      /\ f' = f /\ g' = g
  BY FilesType DEF CompareTypeOK, CompareInv, Iterate
<1>1. PICK m \in PastCR(f, std_at), n \in PastCR(g, exe_at) :
        \/ AtEnd(m, n)
        \/ /\ m < Len(f) /\ n < Len(g)
           /\ \/ f[m + 1] = g[n + 1] /\ Equal(m, n)
              \/ f[m + 1] # g[n + 1] /\ Differ(m, n, f[m + 1], g[n + 1])
  BY DEF Iterate
<1>2. /\ m \in Nat /\ n \in Nat /\ std_at <= m /\ exe_at <= n
      /\ m <= Len(f) /\ n <= Len(g)
      /\ \A i \in Text(f) : i <= std_at \/ i > m
      /\ \A i \in Visible(f) : i <= std_at \/ i > m
      /\ \A i \in Text(g) : i <= exe_at \/ i > n
      /\ \A i \in Visible(g) : i <= exe_at \/ i > n
      /\ m < Len(f) => /\ m + 1 \in Text(f)
                       /\ m + 1 \in Visible(f) <=> ~is_space_char(f[m + 1])
      /\ n < Len(g) => /\ n + 1 \in Text(g)
                       /\ n + 1 \in Visible(g) <=> ~is_space_char(g[n + 1])
  BY <1>0, PastCRFacts
<1>3. /\ Text(f) \in SUBSET (1 .. Len(f)) /\ Visible(f) \in SUBSET (1 .. Len(f))
      /\ Text(g) \in SUBSET (1 .. Len(g)) /\ Visible(g) \in SUBSET (1 .. Len(g))
  BY <1>0, CharactersType
<1>4. std_at \in Nat /\ exe_at \in Nat
  BY <1>0
<1>5. Alike(f, Visible(f), m, g, Visible(g), n)
  <2>1. Alike(f, Visible(f), std_at, g, Visible(g), exe_at)
    BY <1>0 DEF CompareInv
  <2> QED
    BY <1>0, <1>2, <1>3, <1>4, <2>1, AlikeSkips
<1>6. found = "AC" => Alike(f, Text(f), m, g, Text(g), n)
  <2>1. found = "AC" => Alike(f, Text(f), std_at, g, Text(g), exe_at)
    BY <1>0 DEF CompareInv
  <2> QED
    BY <1>0, <1>2, <1>3, <1>4, <2>1, AlikeSkips
<1>7. found = "PE" => ~Agree(f, Text(f), g, Text(g))
  BY <1>0 DEF CompareInv
<1>8. CASE AtEnd(m, n)
  <2>1. /\ m = Len(f) \/ n = Len(g)
        /\ cmp' = "done"
        /\ found' = IF /\ \A k \in m + 1 .. Len(f) : is_space_char(f[k]) \/ f[k] = CR
                       /\ \A k \in n + 1 .. Len(g) : is_space_char(g[k]) \/ g[k] = CR
                    THEN found ELSE "WA"
    BY <1>8 DEF AtEnd
  <2>2. CASE m = Len(f)
    <3>1. \A k \in m + 1 .. Len(f) : FALSE
      BY <1>0, <2>2
    <3>2. Definition(f, g) =
            IF \A k \in n + 1 .. Len(g) : is_space_char(g[k]) \/ g[k] = CR
            THEN found ELSE "WA"
      BY <1>0, <1>2, <1>5, <1>6, <1>7, <2>2, EndVerdict
    <3>3. found' = Definition(f, g)
      BY <2>1, <3>1, <3>2
    <3> QED
      BY <1>0, <2>1, <3>3 DEF CompareInv, ComparedAsDefined
  <2>3. CASE n = Len(g)
    <3>1. \A k \in n + 1 .. Len(g) : FALSE
      BY <1>0, <2>3
    <3>2. /\ Alike(g, Visible(g), n, f, Visible(f), m)
          /\ found = "AC" => Alike(g, Text(g), n, f, Text(f), m)
          /\ found = "PE" => ~Agree(g, Text(g), f, Text(f))
      BY <1>5, <1>6, <1>7, AlikeTurned
    <3>3. Definition(g, f) =
            IF \A k \in m + 1 .. Len(f) : is_space_char(f[k]) \/ f[k] = CR
            THEN found ELSE "WA"
      BY <1>0, <1>2, <2>3, <3>2, EndVerdict
    <3>4. found' = Definition(f, g)
      BY <2>1, <3>1, <3>3, DefinitionTurned
    <3> QED
      BY <1>0, <2>1, <3>4 DEF CompareInv, ComparedAsDefined
  <2> QED
    BY <2>1, <2>2, <2>3
<1>9. CASE m < Len(f) /\ n < Len(g) /\ f[m + 1] = g[n + 1] /\ Equal(m, n)
  <2>1. /\ std_at' = m + 1 /\ exe_at' = n + 1 /\ cmp' = "open" /\ found' = found
    BY <1>0, <1>9 DEF Equal
  <2>2. found = "AC" => Alike(f, Text(f), m + 1, g, Text(g), n + 1)
    BY <1>0, <1>2, <1>3, <1>6, <1>9, AlikeNext
  <2>3. Alike(f, Visible(f), m + 1, g, Visible(g), n + 1)
    <3>1. CASE is_space_char(f[m + 1])
      <4>1. m + 1 \notin Visible(f) /\ n + 1 \notin Visible(g)
        BY <1>2, <1>9, <3>1
      <4>2. /\ \A i \in Visible(f) : i <= m \/ i > m + 1
            /\ \A i \in Visible(g) : i <= n \/ i > n + 1
        BY <1>2, <1>3, <4>1
      <4>3. \A k, l \in Nat :
              /\ m <= k /\ \A i \in Visible(f) : i <= m \/ i > k
              /\ n <= l /\ \A i \in Visible(g) : i <= n \/ i > l
              => Alike(f, Visible(f), k, g, Visible(g), l)
        BY <1>0, <1>2, <1>3, <1>5, AlikeSkips
      <4> QED
        BY <1>2, <4>2, <4>3
    <3>2. CASE ~is_space_char(f[m + 1])
      BY <1>0, <1>2, <1>3, <1>5, <1>9, <3>2, AlikeNext
    <3> QED
      BY <3>1, <3>2
  <2> QED
    BY <1>0, <1>7, <2>1, <2>2, <2>3 DEF CompareInv, ComparedAsDefined
<1>10. CASE /\ m < Len(f) /\ n < Len(g) /\ f[m + 1] # g[n + 1]
            /\ Differ(m, n, f[m + 1], g[n + 1])
  <2>1. CASE is_space_char(f[m + 1]) \/ is_space_char(g[n + 1])
    <3>1. /\ cmp' = "open" /\ found' = "PE"
          /\ std_at' = IF is_space_char(f[m + 1]) THEN m + 1 ELSE m
          /\ exe_at' = IF is_space_char(g[n + 1]) THEN n + 1 ELSE n
      BY <1>0, <1>10, <2>1 DEF Differ
    <3>2. ~Agree(f, Text(f), g, Text(g))
      <4>1. CASE found = "PE"
        BY <4>1, <1>7
      <4>2. CASE found = "AC"
        <5>1. m + 1 \in Text(f) /\ n + 1 \in Text(g) /\ f[m + 1] # g[n + 1]
          BY <1>2, <1>10
        <5>2. Alike(f, Text(f), m, g, Text(g), n)
          BY <1>6, <4>2
        <5> QED
          BY <1>0, <1>2, <1>3, <5>1, <5>2, AlikeNext
      <4> QED
        BY <1>0, <4>1, <4>2
    <3>3. /\ std_at' \in Nat /\ m <= std_at' /\ exe_at' \in Nat /\ n <= exe_at'
          /\ \A i \in Visible(f) : i <= m \/ i > std_at'
          /\ \A i \in Visible(g) : i <= n \/ i > exe_at'
      BY <1>2, <1>3, <1>10, <3>1
    <3>4. Alike(f, Visible(f), std_at', g, Visible(g), exe_at')
      BY <1>0, <1>2, <1>3, <1>5, <3>3, AlikeSkips
    <3> QED
      BY <1>0, <3>1, <3>2, <3>4 DEF CompareInv, ComparedAsDefined
  <2>2. CASE ~is_space_char(f[m + 1]) /\ ~is_space_char(g[n + 1])
    <3>1. cmp' = "done" /\ found' = "WA"
      BY <1>10, <2>2 DEF Differ
    <3>2. ~Agree(f, Visible(f), g, Visible(g))
      BY <1>0, <1>2, <1>3, <1>5, <1>10, <2>2, AlikeNext
    <3>3. Definition(f, g) = "WA"
      BY <3>2 DEF Definition, SameVisible
    <3> QED
      BY <1>0, <3>1, <3>3 DEF CompareInv, ComparedAsDefined
  <2> QED
    BY <2>1, <2>2
<1> QED
  BY <1>1, <1>8, <1>9, <1>10

\* For all files of any length the loop's verdict is the one defined.
THEOREM VerdictAsDefined == TracedSpec => []ComparedAsDefined
<1>1. TracedInit => CompareInv /\ ComparedAsDefined
  BY DEF TracedInit, InitCompare, CompareInv, ComparedAsDefined
<1>2. ASSUME CompareTypeOK, CompareTypeOK', CompareInv, ComparedAsDefined,
             [TracedNext]_tracedVars
      PROVE  CompareInv' /\ ComparedAsDefined'
  <2>1. CASE Iterate
    BY <1>2, <2>1, CompareStep
  <2>2. CASE UNCHANGED comparison
    BY <1>2, <2>2 DEF CompareInv, ComparedAsDefined, comparison
  <2>3. CASE OpenFiles
    <3>1. file_out' \in Seq(STRING) /\ file_user' \in Seq(STRING)
      BY <2>3, FilesAssumption DEF OpenFiles
    <3>2. /\ Alike(file_out', Visible(file_out'), 0, file_user', Visible(file_user'), 0)
          /\ Alike(file_out', Text(file_out'), 0, file_user', Text(file_user'), 0)
      BY <3>1, OpenAlike
    <3>3. /\ cmp' = "open" /\ found' = "AC" /\ std_at' = 0 /\ exe_at' = 0
      BY <2>3 DEF OpenFiles
    <3> QED
      BY <3>2, <3>3 DEF CompareInv, ComparedAsDefined
  <2>4. CASE CloseFiles
    BY <2>4 DEF CloseFiles, CompareInv, ComparedAsDefined
  <2> QED
    BY <1>2, <2>1, <2>2, <2>3, <2>4, OtherCompareSteps
<1> QED
  BY <1>1, <1>2, TracedTypes, PTL DEF TracedSpec

-----------------------------------------------------------------------------
(* The judge clock *)

\* A program that takes all the time it has.
TestTime == task.time_limit + time_limit_addtion

\* What the stages before pc may have taken without going over a limit, and
\* what the stage itself may take.
Allowed == IF pc \in {"init", "handle", "compile"} THEN 0
           ELSE compile_time_limit + (IF pc = "trace" THEN test - 1 ELSE test) * TestTime
Grant == IF pc = "compile" THEN compile_time_limit
         ELSE IF pc = "trace" THEN TestTime ELSE 0

TimeInv ==
  /\ clock => Counted > 0
  /\ test <= Cases
  /\ pc = "gone" <=> status # NoStatus
  /\ pc \in {"init", "handle", "compile", "scan"} => test = 0
  /\ pc = "trace" => test >= 1
  /\ ~overran /\ pc # "gone" => elapsed <= own + Allowed

ClockInv == TimeInv /\ TimeoutExplained

LEMMA TimeFacts ==
  ASSUME TypeOK, DetailTypeOK
  PROVE  /\ task.time_limit \in Nat /\ Cases \in Nat /\ Counted \in Nat /\ test \in Nat
         /\ TestTime \in Nat /\ TestTime = task.time_limit + 347
         /\ test * TestTime \in Nat /\ (test - 1) * TestTime = test * TestTime - TestTime
         /\ elapsed \in Nat /\ own \in Int
<1>1. task.time_limit \in Nat /\ Cases \in Nat /\ task.out \in Nat
  BY TaskFacts
<1>2. TestTime \in Nat /\ TestTime = task.time_limit + 347 /\ test \in Nat
  BY <1>1 DEF TestTime, time_limit_addtion, TypeOK
<1>3. \A k, t \in Nat : k * t \in Nat /\ (k - 1) * t = k * t - t
  OBVIOUS
<1> QED
  BY <1>1, <1>2, <1>3 DEF Counted, DetailTypeOK

\* A stage that goes over no limit takes what it is granted, or it is the
\* time of others.
LEMMA TakesGrant ==
  ASSUME TypeOK, DetailTypeOK, NEW d \in Int, Takes(d), ~overran'
  PROVE  ~overran /\ elapsed' - own' <= elapsed - own + Grant
<1>1. /\ ~overran
      /\ pc = "compile" => d <= 5347
      /\ pc = "trace" => d <= TestTime
      /\ elapsed' = elapsed + d
      /\ own' = IF pc \in {"compile", "trace"} THEN own ELSE own + d
  BY TimeFacts DEF Takes, compile_time_limit, TestTime
<1>2. Grant = IF pc = "compile" THEN 5347 ELSE IF pc = "trace" THEN TestTime ELSE 0
  BY DEF Grant, compile_time_limit
<1> QED
  BY <1>1, <1>2, TimeFacts

\* So at its end at most this much is not the time of others.
LEMMA GrantSuffices ==
  ASSUME TypeOK, DetailTypeOK, TimeInv, NEW d \in Int, Takes(d), ~overran', pc # "gone"
  PROVE  /\ elapsed' <= own' + 5347 + test * TestTime
         /\ pc \in {"init", "handle"} => elapsed' <= own'
<1> DEFINE P == test * TestTime
<1>1. elapsed <= own + Allowed /\ elapsed' - own' <= elapsed - own + Grant
  BY TakesGrant DEF TimeInv
<1>2. /\ elapsed' = elapsed + d
      /\ own' = IF pc \in {"compile", "trace"} THEN own ELSE own + d
      /\ elapsed \in Int /\ own \in Int /\ TestTime \in Nat
  BY TimeFacts DEF Takes
<1>3. P \in Nat
  BY TimeFacts
<1>4. Allowed = IF pc \in {"init", "handle", "compile"} THEN 0
                ELSE 5347 + (IF pc = "trace" THEN P - TestTime ELSE P)
  BY TimeFacts DEF Allowed, compile_time_limit
<1>5. Grant = IF pc = "compile" THEN 5347 ELSE IF pc = "trace" THEN TestTime ELSE 0
  BY DEF Grant, compile_time_limit
<1> HIDE DEF P
<1>6. Allowed \in Int /\ Grant \in Int /\ Allowed + Grant <= 5347 + P
      /\ (pc \in {"init", "handle"} => Allowed + Grant = 0)
  BY <1>2, <1>3, <1>4, <1>5
<1>7. elapsed + d <= own' + (Allowed + Grant)
  <2>1. CASE pc \in {"compile", "trace"}
    <3>1. own' = own /\ elapsed + d - own <= elapsed - own + Grant
      BY <1>1, <1>2, <2>1
    <3> QED
      BY <1>1, <1>2, <1>6, <3>1
  <2>2. CASE pc \notin {"compile", "trace"}
    <3>1. own' = own + d /\ elapsed <= own + Allowed /\ Grant = 0
      BY <1>1, <1>2, <1>5, <2>2
    <3> QED
      BY <1>2, <1>6, <3>1
  <2> QED
    BY <2>1, <2>2
<1>8. elapsed' <= own' + 5347 + P /\ (pc \in {"init", "handle"} => elapsed' <= own')
  <2>1. elapsed + d <= own' + 5347 + P
    BY <1>2, <1>3, <1>6, <1>7
  <2>2. pc \in {"init", "handle"} => elapsed + d <= own'
    BY <1>2, <1>6, <1>7
  <2> QED
    BY <1>2, <2>1, <2>2
<1> QED
  BY <1>8 DEF P

LEMMA RestOfBudget ==
  ASSUME NEW b \in Int, NEW p \in Int, NEW q \in Int, NEW o \in Int,
         b + p <= o + 5347 + q, q <= p
  PROVE  o >= b - 5347
  OBVIOUS

\* The clock has run out, but the limits were kept: the rest of the budget
\* has gone elsewhere.
LEMMA TimeUpExplained ==
  ASSUME TypeOK, DetailTypeOK, TimeInv, TimeIsUp, Cases = Counted, ~overran'
  PROVE  own' >= 15000 * Counted - 5347
<1> DEFINE n == Counted
           L == task.time_limit
<1>1. clock /\ pc # "gone" /\ Takes(Budget - elapsed)
  BY DEF TimeIsUp, ClockExpires, TimeInv
<1>2. Budget \in Nat /\ Budget - elapsed \in Int
  BY BudgetType, TimeFacts
<1>3. elapsed' <= own' + 5347 + test * TestTime
  BY <1>1, <1>2, GrantSuffices
<1>4. elapsed' = Budget /\ own' \in Int
  BY <1>1, <1>2, TimeFacts DEF Takes
<1>5. n \in Nat /\ L \in Nat /\ test \in Nat /\ test <= n /\ TestTime = L + 347
  BY TimeFacts DEF TimeInv
<1>6. Budget = (15347 + L) * n
  BY DEF Budget, judge_time_limit
<1> HIDE DEF n, L
<1>7. test * TestTime <= n * TestTime
  BY <1>5
<1>8. (15347 + L) * n = 15000 * n + n * TestTime
  BY <1>5
<1>9. n * TestTime \in Nat /\ test * TestTime \in Nat /\ 15000 * n \in Nat
  BY <1>5
<1>10. own' >= 15000 * n - 5347
  BY <1>3, <1>4, <1>6, <1>7, <1>8, <1>9, RestOfBudget
<1> QED
  BY <1>10 DEF n

\* The rest of a step, from what it does to pc, the test and the clock.
LEMMA TimeMoves ==
  ASSUME TypeOK, DetailTypeOK, TimeInv, Elapse, UNCHANGED task, pc # "gone",
         pc' = "gone" <=> status' # NoStatus,
         clock' => Counted > 0,
         \/ pc' \in {pc, "gone"} /\ UNCHANGED test
         \/ pc = "init" /\ pc' = "handle" /\ UNCHANGED test
         \/ pc = "handle" /\ pc' = "compile" /\ UNCHANGED test
         \/ pc = "compile" /\ pc' \in {"scan", "open"} /\ UNCHANGED test
         \/ pc = "scan" /\ pc' = "next" /\ UNCHANGED test
         \/ pc = "next" /\ pc' \in {"trace", "gone"} /\ test' = test + 1 /\ test < Cases
         \/ pc = "trace" /\ pc' \in {"compare", "measure"} /\ UNCHANGED test
         \/ pc = "compare" /\ pc' = "measure" /\ UNCHANGED test
         \/ pc \in {"measure", "next", "open", "close"}
            /\ pc' \in {"next", "open", "close", "leave"} /\ UNCHANGED test
  PROVE  TimeInv'
<1>1. TestTime' = TestTime /\ Cases' = Cases /\ Counted' = Counted
  BY DEF TestTime, Cases, Counted
<1>2. /\ clock' => Counted' > 0
      /\ test' <= Cases'
      /\ pc' = "gone" <=> status' # NoStatus
      /\ pc' \in {"init", "handle", "compile", "scan"} => test' = 0
      /\ pc' = "trace" => test' >= 1
  BY <1>1, TimeFacts DEF TimeInv
<1>3. ASSUME ~overran', pc' # "gone"
      PROVE  elapsed' <= own' + Allowed'
  <2>1. CASE pc' = pc /\ UNCHANGED test
    <3>1. UNCHANGED timing
      BY <2>1 DEF Elapse
    <3> QED
      BY <1>1, <1>3, <2>1, <3>1 DEF timing, TimeInv, Allowed
  <2>2. CASE pc' # pc
    <3>1. PICK d \in IF pc \in Slow THEN Durations ELSE {0} : Takes(d)
      BY <1>3, <2>2 DEF Elapse
    <3>2. d \in Int
      BY TracedAssumption
    <3>3. /\ elapsed' <= own' + 5347 + test * TestTime
          /\ pc \in {"init", "handle"} => elapsed' <= own'
      BY <1>3, <3>1, <3>2, GrantSuffices
    <3>4. CASE pc' \in {"init", "handle", "compile"}
      <4>1. Allowed' = 0 /\ pc \in {"init", "handle"} /\ own' \in Int
        BY <2>2, <3>1, <3>2, <3>4, TimeFacts DEF Allowed, Takes
      <4> QED
        BY <3>3, <4>1
    <3>5. CASE pc' \notin {"init", "handle", "compile"}
      <4>1. (IF pc' = "trace" THEN test' - 1 ELSE test') = test
        BY <1>3, <2>2, <3>5, TimeFacts
      <4>2. Allowed' = 5347 + test * TestTime
        BY <1>1, <3>5, <4>1 DEF Allowed, compile_time_limit
      <4>3. own' \in Int /\ test * TestTime \in Int
        BY <3>1, <3>2, TimeFacts DEF Takes
      <4> QED
        BY <3>3, <4>2, <4>3
    <3> QED
      BY <3>4, <3>5
  <2> QED
    BY <1>3, <2>1, <2>2
<1> QED
  BY <1>2, <1>3 DEF TimeInv

LEMMA ClockStep ==
  TypeOK /\ DetailTypeOK /\ ClockInv /\ [TracedNext]_tracedVars => ClockInv'
<1> SUFFICES ASSUME TypeOK, DetailTypeOK, TimeInv, TimeoutExplained,
                    [TracedNext]_tracedVars
             PROVE  TimeInv' /\ TimeoutExplained'
  BY DEF ClockInv
<1>a. task' = task /\ Cases' = Cases /\ Counted' = Counted
  <2>1. task' = task
    BY StepOfJudgeRun DEF Next, vars, Proceed, CompileEnds, RefuseToStart, ArmClock,
       InstallHandler, ScanTests, NextTest, EndTests, TraceBreaks, ProgramExits,
       ProgramSignaled, ProgramTrapped, Compare, Measure, OpenResult, CloseResult, Leave,
       CompileSucceeds, CompileFails, CompileBreaks, ClockExpires, LogFails, Kill, At
  <2> QED
    BY <2>1 DEF Cases, Counted
<1>b. ASSUME status' # <<"exited", EXIT_TIMEOUT>>
      PROVE  TimeoutExplained'
  BY <1>b DEF TimeoutExplained
<1>c. CASE UNCHANGED <<vars, timing>>
  BY <1>c DEF vars, judging, timing, TimeInv, TimeoutExplained, Allowed, TestTime, Cases, Counted
<1>d. clock => Counted > 0
  BY DEF TimeInv
<1> USE DEF At, Goto, Exit, NoStatus, EXIT_TIMEOUT
<1>e. pc # "gone" <=> status = NoStatus
  BY DEF TimeInv
<1>1. CASE StartTest
  <2>1. /\ Elapse /\ pc = "next" /\ test' = test + 1 /\ test < Cases /\ UNCHANGED clock
        /\ \/ pc' = "trace" /\ UNCHANGED status
           \/ pc' = "gone" /\ status' = <<"exited", EXIT_PRE_JUDGE>>
    BY <1>1 DEF StartTest, NextTest
  <2> QED
    BY <1>a, <1>b, <1>d, <1>e, <2>1, TimeMoves DEF EXIT_PRE_JUDGE
<1>2. ASSUME NEW c \in Call, Stop(c)
      PROVE  TimeInv' /\ TimeoutExplained'
  <2>1. Elapse /\ pc = "trace" /\ pc' \in {"trace", "measure"}
        /\ UNCHANGED <<clock, status, test>>
    BY <1>2, StopFacts DEF Stop
  <2> QED
    BY <1>a, <1>b, <1>d, <1>e, <2>1, TimeMoves
<1>3. CASE ExecStop \/ EnterStop \/ ReturnStop \/ OddStop
  <2>1. \E c \in Call : Stop(c)
    BY <1>3, TracedAssumption DEF ExecStop, EnterStop, ReturnStop, OddStop, DetailTypeOK
  <2> QED
    BY <1>2, <2>1
<1>4. CASE ProgramEnds
  <2>1. Elapse /\ pc = "trace" /\ pc' \in {"compare", "measure"}
        /\ UNCHANGED <<clock, status, test>>
    BY <1>4 DEF ProgramEnds, ProgramExits, Break
  <2> QED
    BY <1>a, <1>b, <1>d, <1>e, <2>1, TimeMoves
<1>5. CASE OpenOutput \/ CompareOn \/ UNCHANGED tracedVars
  BY <1>c, <1>5 DEF OpenOutput, CompareOn, Undisturbed, tracedVars
<1>6. CASE CompareEnds
  <2>1. /\ Elapse /\ pc = "compare" /\ UNCHANGED <<clock, test>>
        /\ \/ pc' = "measure" /\ UNCHANGED status
           \/ /\ pc' = "gone"
              /\ status' = <<"exited", IF task.spj THEN EXIT_COMPARE_SPJ ELSE EXIT_COMPARE>>
    BY <1>6 DEF CompareEnds, Compare, Break
  <2> QED
    BY <1>a, <1>b, <1>d, <1>e, <2>1, TimeMoves DEF EXIT_COMPARE_SPJ, EXIT_COMPARE
<1>7. CASE TimeIsUp
  <2>1. /\ pc' = "gone" /\ status' # NoStatus /\ UNCHANGED test /\ ~clock'
    BY <1>7 DEF TimeIsUp, ClockExpires, judging, Killed
  <2>2. TimeInv'
    BY <1>a, <2>1 DEF TimeInv
  <2>3. TimeoutExplained'
    BY <1>a, <1>7, TimeUpExplained, TimeFacts
    DEF TimeoutExplained, judge_time_limit, time_limit_addtion, compile_time_limit
  <2> QED
    BY <2>2, <2>3
<1>8. CASE Elsewhere
  <2> Elapse
    BY <1>8 DEF Elsewhere
  <2>1. CASE RefuseToStart \/ TraceBreaks \/ LogFails \/ Kill
    <3>1. /\ pc # "gone" /\ pc' = "gone" /\ UNCHANGED test /\ status' # NoStatus
          /\ clock' => clock
          /\ status' # <<"exited", EXIT_TIMEOUT>>
      BY <1>e, <2>1 DEF RefuseToStart, TraceBreaks, LogFails, Kill, judging, BeforeClock, Killed,
         EXIT_PRE_JUDGE_DAA, EXIT_VERY_FIRST, EXIT_JUDGE, EXIT_UNPRIVILEGED
    <3> QED
      BY <1>a, <1>b, <1>d, <3>1, TimeMoves
  <2>2. CASE ArmClock
    <3>1. /\ pc = "init" /\ pc' = "handle" /\ UNCHANGED <<test, status>>
          /\ clock' = (Counted > 0)
      BY <2>2 DEF ArmClock, judging
    <3>2. clock' => Counted > 0
      BY <3>1, Zenon
    <3> QED
      BY <1>a, <1>b, <1>e, <3>1, <3>2, TimeMoves
  <2>3. CASE InstallHandler \/ CompileEnds \/ ScanTests
    <3>1. /\ UNCHANGED <<clock, test>>
          /\ \/ pc = "handle" /\ pc' = "compile" /\ UNCHANGED status
             \/ pc = "compile" /\ pc' \in {"scan", "open"} /\ UNCHANGED status
             \/ pc = "scan" /\ pc' = "next" /\ UNCHANGED status
             \/ pc # "gone" /\ pc' = "gone" /\ status' \in {<<"exited", EXIT_VERY_FIRST>>,
                   <<"exited", EXIT_COMPILE_ERROR>>, <<"exited", EXIT_PRE_JUDGE_DAA>>}
      BY <2>3 DEF InstallHandler, CompileEnds, CompileSucceeds, CompileFails, CompileBreaks,
         ScanTests, OutputThenExit, judging
    <3> QED
      BY <1>a, <1>b, <1>d, <1>e, <3>1, TimeMoves
      DEF EXIT_VERY_FIRST, EXIT_COMPILE_ERROR, EXIT_PRE_JUDGE_DAA
  <2>4. CASE EndTests \/ Measure \/ OpenResult \/ CloseResult
    <3>1. /\ UNCHANGED <<clock, status, test>>
          /\ pc \in {"measure", "next", "open", "close"}
          /\ pc' \in {"next", "open", "close", "leave"}
      BY <2>4 DEF EndTests, Measure, OpenResult, CloseResult, OutputThenExit, judging
    <3> QED
      BY <1>a, <1>b, <1>d, <1>e, <3>1, TimeMoves
  <2>5. CASE ProgramSignaled
    <3>1. pc = "trace" /\ pc' = "measure" /\ UNCHANGED <<clock, status, test>>
      BY <2>5 DEF ProgramSignaled, Break
    <3> QED
      BY <1>a, <1>b, <1>d, <1>e, <3>1, TimeMoves
  <2>6. CASE Leave
    <3>1. pc = "leave" /\ pc' = "gone" /\ status' = <<"exited", leave>> /\ UNCHANGED <<clock, test>>
      BY <2>6 DEF Leave, judging
    <3>2. leave # EXIT_TIMEOUT
      BY DEF TypeOK, EXIT_OK, EXIT_COMPILE_ERROR
    <3> QED
      BY <1>a, <1>b, <1>d, <1>e, <3>1, <3>2, TimeMoves
  <2> QED
    BY <1>8, <2>1, <2>2, <2>3, <2>4, <2>5, <2>6 DEF Elsewhere
<1> QED
  BY <1>1, <1>3, <1>4, <1>5, <1>6, <1>7, <1>8 DEF TracedNext

\* For every number of tests, every time limit and whatever the compiler, the
\* programs and the special judge do, the judge clock ends only a run in which
\* a limit was passed, or what is left of its budget was taken elsewhere.
THEOREM TimeoutIsExplained == TracedSpec => []TimeoutExplained
<1>1. ASSUME TracedInit, TypeOK
      PROVE  ClockInv
  <2>1. Allowed = 0
    BY <1>1 DEF TracedInit, Init, Allowed
  <2> QED
    BY <1>1, <2>1, TaskFacts
    DEF TracedInit, Init, ClockInv, TimeInv, TimeoutExplained, NoStatus
<1>2. ClockInv => TimeoutExplained
  BY DEF ClockInv
<1> QED
  BY <1>1, <1>2, ClockStep, TracedTypes, PTL DEF TracedSpec

-----------------------------------------------------------------------------
(* The system call filter *)

InKernel(c) == stage = "kernel" /\ call = c

\* A limited call, whatever the flag says: one that has been let through may
\* still have to be counted, at its return, if the flag is right.
Loose(c) ==
  /\ syscalls[c] >= 0
  /\ InKernel(c) /\ in_syscall => /\ syscalls[c] > 0
                                 /\ syscalls[c] + used[c] <= limit[c] + 1
  /\ ~(InKernel(c) /\ in_syscall) => syscalls[c] + used[c] <= limit[c]

\* The same while the flag is right: nothing is lost.
Tight(c) ==
  /\ syscalls[c] >= 0
  /\ InKernel(c) => syscalls[c] > 0 /\ syscalls[c] + used[c] = limit[c] + 1
  /\ ~InKernel(c) => syscalls[c] + used[c] = limit[c]

Flag == stage = "forked" \/ (stage = "kernel" /\ call > 0)

Fresh == stage = "forked" => syscalls = limit /\ used = NoneUsed
Free == \A c \in Call : limit[c] < 0 => syscalls[c] = limit[c]
AllLoose ==
  \A c \in Call : c > 0 /\ InTable(c) /\ limit[c] >= 0 /\ c # execve => Loose(c)
AllTight == \A c \in Call : c > 0 /\ InTable(c) /\ limit[c] >= 0 => Tight(c)

\* In step, the call that the program is in is one of the table.
Tracing == /\ Fresh /\ Free /\ AllLoose
           /\ InStep => (in_syscall <=> Flag) /\ AllTight
           /\ InStep /\ stage = "kernel" => InTable(call)

\* From one test to the next the flag is kept.
FilterInv ==
  /\ pc = "trace" => Tracing
  /\ pc \in {"init", "handle", "compile", "scan", "next", "compare"} /\ InStep => in_syscall
  /\ pc = "measure" /\ InStep /\ how \in Regular => in_syscall
  /\ RestrictedDeserved

LEMMA CallFacts ==
  ASSUME TypeOK, DetailTypeOK, NEW c \in Call
  PROVE  /\ c \in Int /\ limit[c] \in Int /\ syscalls[c] \in Int /\ used[c] \in Nat
         /\ execve \in Call /\ execve \in Int /\ limit[execve] # 0 /\ execve > 0
  BY FilterAssumption, TracedAssumption, LimitType DEF DetailTypeOK

\* What is_valid_syscall does to the counts.
LEMMA ValidCounts ==
  ASSUME TypeOK, DetailTypeOK, NEW c \in Call, is_valid_syscall(c)
  PROVE  /\ in_syscall' <=> ~in_syscall
         /\ \A d \in Call : d # c \/ ~InTable(c) => syscalls'[d] = syscalls[d]
         /\ InTable(c) => syscalls'[c] = IF syscalls[c] > 0 /\ in_syscall
                                         THEN syscalls[c] - 1 ELSE syscalls[c]
<1>1. in_syscall' <=> ~in_syscall
  BY DEF is_valid_syscall
<1>2. CASE InTable(c)
  <2>1. syscalls' = [syscalls EXCEPT ![c] = IF syscalls[c] > 0 /\ in_syscall
                                            THEN syscalls[c] - 1 ELSE syscalls[c]]
    BY <1>1, <1>2 DEF is_valid_syscall, Decrement
  <2> QED
    BY <1>1, <1>2, <2>1 DEF DetailTypeOK
<1>3. CASE ~InTable(c)
  BY <1>1, <1>3 DEF is_valid_syscall, Decrement
<1> QED
  BY <1>2, <1>3

LEMMA CountingFacts ==
  ASSUME TypeOK, DetailTypeOK, NEW c \in Call
  PROVE  /\ \A d \in Call : d # c => Counting(c)[d] = used[d]
         /\ ~InTable(c) => Counting(c) = used
         /\ InTable(c) /\ limit[c] >= 0 => Counting(c)[c] = used[c] + 1
  BY CallFacts DEF Counting, DetailTypeOK

\* A step that looks a call up leaves those without a limit so.
LEMMA FreeKept ==
  ASSUME TypeOK, DetailTypeOK, NEW c \in Call, Free,
         is_valid_syscall(c) \/ UNCHANGED filter, task' = task
  PROVE  Free'
<1>1. CASE UNCHANGED filter
  BY <1>1 DEF Free, filter, limit
<1>2. CASE is_valid_syscall(c)
  <2> SUFFICES ASSUME NEW d \in Call, limit[d] < 0
               PROVE  syscalls'[d] = limit[d]
    BY DEF Free, limit
  <2>1. syscalls[d] = limit[d]
    BY DEF Free
  <2> QED
    BY <1>2, <2>1, ValidCounts, CallFacts
<1> QED
  BY <1>1, <1>2

\* A test that ends for its memory leaves nothing to show.
LEMMA MemoryEnds ==
  ASSUME pc' = "measure", how' = "memory"
  PROVE  FilterInv'
  BY DEF FilterInv, Regular, RestrictedDeserved

LEMMA ExecKeeps ==
  ASSUME TypeOK, DetailTypeOK, Tracing, ExecStop
  PROVE  FilterInv'
<1>1. /\ Stop(execve) /\ stage = "forked" /\ UNCHANGED odd /\ call' = execve
      /\ pc' = "trace" => stage' = "user" /\ used' = Counting(execve)
  BY DEF ExecStop
<1>2. execve \in Call /\ execve > 0 /\ InTable(execve)
  BY TracedAssumption
<1>3. syscalls = limit /\ used = NoneUsed /\ IsAllowed(execve)
  BY <1>1, <1>2, LimitType DEF Tracing, Fresh, IsAllowed
<1>4. CASE pc' = "measure" /\ how' = "memory"
  BY <1>4, MemoryEnds
<1>5. CASE is_valid_syscall(execve) /\ pc' = "trace"
  <2>1. task' = task /\ ran' = ran
    BY <1>1, <1>2, StopFacts
  <2>2. stage' = "user" /\ used' = Counting(execve) /\ limit' = limit
    BY <1>1, <1>5, <2>1 DEF limit
  <2>3. Free'
    BY <1>2, <1>5, <2>1, FreeKept DEF Tracing
  <2>4. AllLoose'
    <3> SUFFICES ASSUME NEW d \in Call, InTable(d), limit[d] >= 0, d # execve
                 PROVE  Loose(d)'
      BY <2>2 DEF AllLoose
    <3>1. syscalls'[d] = limit[d] /\ used'[d] = 0
      BY <1>2, <1>3, <1>5, <2>2, ValidCounts, CountingFacts DEF NoneUsed
    <3> QED
      BY <2>2, <3>1, CallFacts DEF Loose, InKernel
  <2>5. ASSUME InStep'
        PROVE  (in_syscall' <=> Flag') /\ AllTight'
    <3>1. in_syscall
      BY <1>1, <2>1, <2>5 DEF Tracing, InStep, Flag
    <3>2. ~in_syscall' /\ ~Flag'
      BY <1>2, <1>5, <2>2, <3>1, ValidCounts DEF Flag
    <3>3. ASSUME NEW d \in Call, InTable(d), limit[d] >= 0
          PROVE  Tight(d)'
      <4>1. used[d] = 0 /\ syscalls[d] = limit[d]
        BY <1>3 DEF NoneUsed
      <4>2. CASE d # execve
        BY <1>2, <1>5, <2>2, <3>3, <4>1, <4>2, ValidCounts, CountingFacts, CallFacts
        DEF Tight, InKernel
      <4>3. CASE d = execve
        <5>1. syscalls'[d] = limit[d] - 1 /\ used'[d] = 1
          BY <1>2, <1>5, <2>2, <3>1, <3>3, <4>1, <4>3, ValidCounts, CountingFacts, CallFacts
        <5> QED
          BY <2>2, <3>3, <4>3, <5>1, CallFacts DEF Tight, InKernel
      <4> QED
        BY <4>2, <4>3
    <3> QED
      BY <2>2, <3>2, <3>3 DEF AllTight
  <2> QED
    BY <1>5, <2>2, <2>3, <2>4, <2>5
    DEF FilterInv, Tracing, Fresh, RestrictedDeserved
<1> QED
  BY <1>1, <1>2, <1>3, <1>4, <1>5, StopFacts, CallFacts

LEMMA EnterKeeps ==
  ASSUME TypeOK, DetailTypeOK, Tracing, EnterStop
  PROVE  FilterInv'
<1>0. PICK c \in Call : /\ Stop(c)
                        /\ call' = c
                        /\ used' = IF pc' = "trace" THEN Counting(c) ELSE used
                        /\ odd' = (odd \/ ~InTable(c))
  BY Zenon DEF EnterStop
<1>1. Stop(c) /\ call' = c /\ (used' = IF pc' = "trace" THEN Counting(c) ELSE used)
  BY <1>0
<1>a. odd' <=> odd \/ ~InTable(c)
  BY <1>0, Zenon
<1>2. stage = "user" /\ stage' = "kernel"
  BY DEF EnterStop
<1>b. task' = task /\ ran' = ran
  BY <1>1, StopFacts
<1>c. InStep' <=> InStep /\ InTable(c)
  BY <1>a, <1>b DEF InStep
<1>3. /\ task' = task /\ ran' = ran /\ limit' = limit
      /\ InStep' <=> InStep /\ InTable(c)
  BY <1>b, <1>c DEF limit
<1>4. c \in Int /\ ~Flag /\ (Flag' <=> c > 0)
  BY <1>1, <1>2, CallFacts DEF Flag
<1>5. ASSUME pc' = "trace", NEW d \in Call, d # c,
             is_valid_syscall(c) \/ UNCHANGED filter
      PROVE  /\ Loose(d) => Loose(d)'
             /\ Tight(d) => Tight(d)'
  <2>1. syscalls'[d] = syscalls[d] /\ used'[d] = used[d]
    BY <1>1, <1>5, ValidCounts, CountingFacts DEF filter
  <2> QED
    BY <1>1, <1>2, <1>3, <1>5, <2>1, CallFacts DEF Loose, Tight, InKernel
<1>6. CASE pc' = "measure" /\ how' = "memory"
  BY <1>6, MemoryEnds
<1>7. CASE c <= 0 /\ pc' = "trace" /\ UNCHANGED filter
  <2>1. Free'
    BY <1>1, <1>3, <1>7, FreeKept DEF Tracing
  <2>2. \A d \in Call : d > 0 => d # c
    BY <1>4, <1>7, CallFacts
  <2>3. AllLoose'
    BY <1>3, <1>5, <1>7, <2>2 DEF AllLoose, Tracing
  <2>4. InStep' => (in_syscall' <=> Flag') /\ AllTight'
    BY <1>3, <1>4, <1>5, <1>7, <2>2 DEF AllTight, Tracing, filter
  <2>5. InStep' => InTable(call')
    BY <1>1, <1>3
  <2> QED
    BY <1>2, <1>7, <2>1, <2>3, <2>4, <2>5 DEF FilterInv, Tracing, Fresh, RestrictedDeserved
<1>8. CASE c > 0 /\ is_valid_syscall(c) /\ (InTable(c) => IsAllowed(c)) /\ pc' = "trace"
  <2>1. Free'
    BY <1>1, <1>3, <1>8, FreeKept DEF Tracing
  <2>2. ASSUME InTable(c), limit[c] >= 0
        PROVE  /\ Loose(c) => Loose(c)'
               /\ Tight(c) /\ ~in_syscall => Tight(c)'
    <3>1. used'[c] = used[c] + 1 /\ syscalls[c] # 0
      BY <1>1, <1>8, <2>2, CountingFacts DEF IsAllowed
    <3>2. ~InKernel(c) /\ InKernel(c)'
      BY <1>1, <1>2 DEF InKernel
    <3> QED
      BY <1>3, <1>8, <2>2, <3>1, <3>2, ValidCounts, CallFacts DEF Loose, Tight
  <2>3. AllLoose'
    BY <1>3, <1>5, <1>8, <2>2 DEF AllLoose, Tracing
  <2>4. ASSUME InStep'
        PROVE  (in_syscall' <=> Flag') /\ AllTight'
    <3>1. ~in_syscall /\ AllTight
      BY <1>3, <1>4, <2>4 DEF Tracing
    <3>2. in_syscall' /\ Flag'
      BY <1>4, <1>8, <3>1, ValidCounts
    <3>3. AllTight'
      BY <1>3, <1>5, <1>8, <2>2, <3>1 DEF AllTight
    <3> QED
      BY <3>2, <3>3
  <2>5. InStep' => InTable(call')
    BY <1>1, <1>3
  <2> QED
    BY <1>2, <1>8, <2>1, <2>3, <2>4, <2>5 DEF FilterInv, Tracing, Fresh, RestrictedDeserved
<1>9. CASE /\ c > 0 /\ is_valid_syscall(c) /\ (InTable(c) => ~IsAllowed(c))
           /\ pc' = "measure" /\ how' = "syscall"
  <2> SUFFICES ASSUME InStep'
               PROVE  in_syscall' /\ limit[c] >= 0 /\ used'[c] = limit[c]
    BY <1>1, <1>2, <1>3, <1>9 DEF FilterInv, RestrictedDeserved
  <2>1. ~in_syscall /\ AllTight /\ Free
    BY <1>3, <1>4 DEF Tracing
  <2>2. in_syscall'
    BY <1>9, <2>1, ValidCounts
  <2>3. InTable(c) /\ syscalls[c] = 0 /\ used' = used
    BY <1>1, <1>3, <1>9 DEF IsAllowed
  <2>4. limit[c] >= 0
    BY <2>1, <2>3, CallFacts DEF Free
  <2>5. used[c] = limit[c]
    BY <1>2, <1>9, <2>1, <2>3, <2>4, CallFacts DEF AllTight, Tight, InKernel
  <2> QED
    BY <2>2, <2>3, <2>4, <2>5
<1> QED
  BY <1>1, <1>6, <1>7, <1>8, <1>9, StopFacts

\* A return, or a SIGTRAP, with the same call in orig_rax: the program is not
\* in a call afterwards.
LEMMA BackInUser ==
  ASSUME TypeOK, DetailTypeOK, Tracing, Stop(call), UNCHANGED <<call, used>>,
         stage \in {"kernel", "trap"}, stage' \in {"user", "trap"},
         odd' = TRUE \/ (stage = "kernel" /\ odd' = odd)
  PROVE  FilterInv'
<1>1. call \in Call /\ call \in Int
  BY CallFacts DEF DetailTypeOK
<1>2. /\ task' = task /\ ran' = ran /\ limit' = limit
      /\ InStep' => InStep /\ stage = "kernel"
  BY <1>1, StopFacts DEF InStep, limit
<1>3. ~Flag' /\ \A c : ~InKernel(c)'
  BY DEF Flag, InKernel
<1>4. CASE pc' = "measure" /\ how' = "memory"
  BY <1>4, MemoryEnds
<1>5. ASSUME pc' = "trace", NEW d \in Call, InTable(d), limit[d] >= 0,
             \/ UNCHANGED filter /\ d # call
             \/ is_valid_syscall(call)
      PROVE  /\ Loose(d) => Loose(d)'
             /\ InStep' /\ (InStep => in_syscall \/ d # call) /\ Tight(d) => Tight(d)'
  <2>1. CASE d # call
    <3>1. syscalls'[d] = syscalls[d] /\ used'[d] = used[d]
      BY <1>1, <1>5, <2>1, ValidCounts DEF filter
    <3> QED
      BY <1>2, <1>3, <2>1, <3>1, CallFacts DEF Loose, Tight, InKernel
  <2>2. CASE d = call /\ is_valid_syscall(call)
    <3>1. syscalls'[d] = IF syscalls[d] > 0 /\ in_syscall THEN syscalls[d] - 1 ELSE syscalls[d]
      BY <1>5, <2>2, ValidCounts
    <3>2. used'[d] = used[d] /\ ~InKernel(d)' /\ limit'[d] = limit[d]
      BY <1>2, <1>3
    <3>3. Loose(d) => Loose(d)'
      BY <3>1, <3>2, CallFacts DEF Loose
    <3>4. ASSUME InStep', InStep => in_syscall, Tight(d)
          PROVE  Tight(d)'
      <4>1. InKernel(d) /\ in_syscall
        BY <1>2, <2>2, <3>4 DEF InKernel
      <4> QED
        BY <3>1, <3>2, <3>4, <4>1, CallFacts DEF Tight
    <3> QED
      BY <2>2, <3>3, <3>4
  <2> QED
    BY <1>5, <2>1, <2>2
<1>6. CASE call <= 0 /\ pc' = "trace" /\ UNCHANGED filter
  <2>1. Free'
    BY <1>1, <1>2, <1>6, FreeKept DEF Tracing
  <2>2. \A d \in Call : d > 0 => d # call
    BY <1>1, <1>6, CallFacts
  <2>3. AllLoose'
    BY <1>2, <1>5, <1>6, <2>2 DEF AllLoose, Tracing
  <2>4. ASSUME InStep'
        PROVE  (in_syscall' <=> Flag') /\ AllTight'
    <3>1. ~Flag /\ ~in_syscall /\ AllTight
      BY <1>1, <1>2, <1>6, <2>4 DEF Tracing, Flag
    <3>2. AllTight'
      BY <1>2, <1>5, <1>6, <2>2, <2>4, <3>1 DEF AllTight
    <3> QED
      BY <1>3, <1>6, <3>1, <3>2 DEF filter
  <2> QED
    BY <1>6, <2>1, <2>3, <2>4 DEF FilterInv, Tracing, Fresh, RestrictedDeserved
<1>7. CASE call > 0 /\ is_valid_syscall(call) /\ pc' = "trace"
  <2>1. Free'
    BY <1>1, <1>2, <1>7, FreeKept DEF Tracing
  <2>2. AllLoose'
    BY <1>2, <1>5, <1>7 DEF AllLoose, Tracing
  <2>3. ASSUME InStep'
        PROVE  (in_syscall' <=> Flag') /\ AllTight'
    <3>1. Flag /\ in_syscall /\ AllTight
      BY <1>2, <1>7, <2>3 DEF Tracing, Flag
    <3>2. AllTight'
      BY <1>2, <1>5, <1>7, <2>3, <3>1 DEF AllTight
    <3>3. ~in_syscall'
      BY <1>1, <1>7, <3>1, ValidCounts
    <3> QED
      BY <1>3, <3>2, <3>3
  <2> QED
    BY <1>7, <2>1, <2>2, <2>3 DEF FilterInv, Tracing, Fresh, RestrictedDeserved
<1>8. CASE call > 0 /\ (InTable(call) => ~IsAllowed(call)) /\ pc' = "measure" /\ how' = "syscall"
  <2>1. ASSUME InStep' PROVE FALSE
    <3>0. InTable(call)
      BY <1>2, <2>1 DEF Tracing
    <3>1. Free /\ AllTight /\ InKernel(call)
      BY <1>2, <2>1 DEF Tracing, InKernel
    <3>2. CASE limit[call] < 0
      BY <1>1, <1>8, <3>0, <3>1, <3>2 DEF Free, IsAllowed
    <3>3. CASE limit[call] >= 0
      BY <1>1, <1>8, <3>0, <3>1, <3>3 DEF AllTight, Tight, IsAllowed
    <3> QED
      BY <1>1, <3>2, <3>3, CallFacts
  <2> QED
    BY <1>8, <2>1 DEF FilterInv, RestrictedDeserved
<1> QED
  BY <1>1, <1>4, <1>6, <1>7, <1>8, StopFacts

\* How a test's outcome is put on record.
LEMMA MeasureSteps ==
  ASSUME TypeOK, Measure
  PROVE  /\ pc = "measure" /\ pc' = "next" /\ task' = task
         /\ \E x \in {"limit", how} : ran' = Append(ran, x)
  BY DEF Measure, At, Goto

\* What has been put on record stays, so a run that is in step was before.
LEMMA InStepBefore ==
  ASSUME TypeOK, odd' = odd, NEW x, ran' = Append(ran, x), InStep'
  PROVE  InStep /\ x \in Regular
<1>1. ran \in Seq(Outcome)
  BY DEF TypeOK
<1>2. /\ Len(ran) \in Nat /\ DOMAIN ran = 1 .. Len(ran)
      /\ DOMAIN ran' = 1 .. Len(ran) + 1
      /\ ran'[Len(ran) + 1] = x /\ \A k \in DOMAIN ran : ran'[k] = ran[k]
  BY <1>1
<1> QED
  BY <1>2 DEF InStep

LEMMA StartKeeps ==
  ASSUME TypeOK, DetailTypeOK, FilterInv, StartTest
  PROVE  FilterInv'
<1>1. /\ pc = "next" /\ task' = task /\ ran' = ran
      /\ pc' \in {"trace", "gone"}
  BY DEF StartTest, NextTest, At, Goto, Exit
<1>2. CASE pc' = "gone"
  BY <1>2 DEF FilterInv, RestrictedDeserved
<1>3. CASE pc' = "trace"
  <2>1. /\ syscalls' = limit /\ in_syscall' = in_syscall
        /\ stage' = "forked" /\ used' = NoneUsed /\ odd' = odd
    BY <1>3 DEF StartTest, init_syscalls, limit
  <2>2. limit' = limit /\ (InStep' => in_syscall) /\ Flag' /\ \A c : ~InKernel(c)'
    BY <1>1, <2>1 DEF FilterInv, InStep, limit, Flag, InKernel
  <2>3. \A c \in Call : syscalls'[c] = limit[c] /\ used'[c] = 0
    BY <2>1 DEF NoneUsed
  <2>4. Fresh' /\ Free'
    BY <2>1, <2>2, <2>3 DEF Fresh, Free, NoneUsed
  <2>5. AllLoose' /\ AllTight'
    BY <2>2, <2>3, CallFacts DEF AllLoose, AllTight, Loose, Tight
  <2> QED
    BY <1>3, <2>1, <2>2, <2>4, <2>5 DEF FilterInv, Tracing, RestrictedDeserved
<1> QED
  BY <1>1, <1>2, <1>3

LEMMA ElsewhereKeeps ==
  ASSUME TypeOK, FilterInv, Elsewhere
  PROVE  FilterInv'
<1>1. UNCHANGED <<filter, program>>
  BY DEF Elsewhere
<1> USE DEF At, Goto, Exit
<1>2. CASE Measure
  <2>1. PICK x \in {"limit", how} : ran' = Append(ran, x)
    BY <1>2, MeasureSteps
  <2>2. pc = "measure" /\ pc' = "next" /\ odd' = odd /\ in_syscall' = in_syscall
    BY <1>1, <1>2, MeasureSteps DEF filter, program
  <2>3. InStep' => in_syscall
    BY <2>1, <2>2, InStepBefore DEF FilterInv, Regular
  <2> QED
    BY <2>2, <2>3 DEF FilterInv, RestrictedDeserved
<1>3. CASE ProgramSignaled
  <2>1. PICK s \in Signals : Break(VerdictFor(s), s)
    BY <1>3 DEF ProgramSignaled
  <2>2. pc' = "measure" /\ how' \in SignalKind
    BY <2>1, JudgeRunAssumption DEF Break
  <2> QED
    BY <2>2 DEF FilterInv, RestrictedDeserved, SignalKind, Regular
<1>4. CASE ArmClock \/ InstallHandler \/ CompileEnds \/ ScanTests
  <2>1. /\ pc \in {"init", "handle", "compile", "scan"} /\ UNCHANGED ran
        /\ pc' \in {"handle", "compile", "scan", "next", "open", "gone"}
    BY <1>4 DEF ArmClock, InstallHandler, CompileEnds, CompileSucceeds, CompileFails,
       CompileBreaks, ScanTests, OutputThenExit, judging
  <2>2. InStep' <=> InStep
    BY <1>1, <2>1 DEF InStep, program
  <2>3. in_syscall' = in_syscall
    BY <1>1 DEF filter
  <2> QED
    BY <2>1, <2>2, <2>3 DEF FilterInv, RestrictedDeserved
<1>5. CASE \/ RefuseToStart \/ EndTests \/ TraceBreaks
           \/ OpenResult \/ CloseResult \/ Leave \/ LogFails \/ Kill
  <2>1. pc' \in {"open", "close", "leave", "gone"}
    BY <1>5 DEF RefuseToStart, EndTests, TraceBreaks, OpenResult, CloseResult, Leave,
       LogFails, Kill, OutputThenExit
  <2> QED
    BY <2>1 DEF FilterInv, RestrictedDeserved
<1> QED
  BY <1>2, <1>3, <1>4, <1>5 DEF Elsewhere

LEMMA FilterStep ==
  TypeOK /\ DetailTypeOK /\ FilterInv /\ [TracedNext]_tracedVars => FilterInv'
<1> SUFFICES ASSUME TypeOK, DetailTypeOK, FilterInv, [TracedNext]_tracedVars
             PROVE  FilterInv'
  OBVIOUS
<1>1. CASE StartTest
  BY <1>1, StartKeeps
<1>2. CASE ExecStop \/ EnterStop \/ ReturnStop \/ OddStop
  <2>1. \E c \in Call : Stop(c)
    BY <1>2, TracedAssumption DEF ExecStop, EnterStop, ReturnStop, OddStop, DetailTypeOK
  <2>2. Tracing
    BY <2>1, StopFacts DEF FilterInv
  <2>3. CASE ReturnStop \/ OddStop
    <3>1. /\ Stop(call) /\ UNCHANGED <<call, used>>
          /\ stage \in {"kernel", "trap"} /\ stage' \in {"user", "trap"}
          /\ odd' = TRUE \/ (stage = "kernel" /\ odd' = odd)
      BY <2>3 DEF ReturnStop, OddStop
    <3> QED
      BY <2>2, <3>1, BackInUser
  <2> QED
    BY <1>2, <2>2, <2>3, ExecKeeps, EnterKeeps
<1>3. CASE ProgramEnds
  <2>1. /\ pc = "trace" /\ UNCHANGED <<ran, odd, filter>>
        /\ pc' = "compare" \/ (pc' = "measure" /\ how' = "exit")
    BY <1>3 DEF ProgramEnds, ProgramExits, At, Goto, Break
  <2>2. Flag
    BY <1>3, TracedAssumption DEF ProgramEnds, Flag
  <2>3. InStep' => in_syscall'
    BY <2>1, <2>2 DEF FilterInv, Tracing, InStep, filter
  <2> QED
    BY <2>1, <2>3 DEF FilterInv, RestrictedDeserved
<1>4. CASE OpenOutput \/ CompareOn \/ UNCHANGED tracedVars
  <2>1. UNCHANGED <<vars, filter, program>>
    BY <1>4 DEF OpenOutput, CompareOn, Undisturbed, tracedVars
  <2> QED
    BY <2>1
    DEF vars, judging, filter, program, FilterInv, Tracing, Fresh, Free, AllLoose, AllTight,
        Loose, Tight, InKernel, Flag, InStep, RestrictedDeserved, limit
<1>5. CASE CompareEnds
  <2>1. /\ pc = "compare" /\ UNCHANGED <<ran, odd, in_syscall>>
        /\ \/ pc' = "gone"
           \/ pc' = "measure" /\ how' \in {"AC", "PE", "WA", "VE"}
    BY <1>5 DEF CompareEnds, Compare, At, Goto, Exit, Break, ComparedAs, filter, program
  <2>2. InStep' <=> InStep
    BY <2>1 DEF InStep
  <2> QED
    BY <2>1, <2>2 DEF FilterInv, RestrictedDeserved
<1>6. CASE TimeIsUp
  BY <1>6 DEF TimeIsUp, ClockExpires, FilterInv, RestrictedDeserved
<1>7. CASE Elsewhere
  BY <1>7, ElsewhereKeeps
<1> QED
  BY <1>1, <1>2, <1>3, <1>4, <1>5, <1>6, <1>7 DEF TracedNext

LEMMA FilterAlways == TracedSpec => [](TypeOK /\ DetailTypeOK /\ FilterInv)
<1>1. TracedInit => FilterInv
  BY DEF TracedInit, Init, InitFilter, FilterInv, RestrictedDeserved
<1> QED
  BY <1>1, FilterStep, TracedTypes, PTL DEF TracedSpec

\* For every table of calls and every program: no call is let through more
\* often than its count, even when the flag has lost the program.
THEOREM CountsKept == TracedSpec => []CallsWithinCount
<1>1. ASSUME TypeOK, DetailTypeOK, FilterInv
      PROVE  CallsWithinCount
  <2> SUFFICES ASSUME pc = "trace", NEW c \in Call, c > 0, InTable(c), limit[c] >= 0,
                      c # execve \/ InStep
               PROVE  used[c] <= limit[c]
    BY DEF CallsWithinCount
  <2>1. Loose(c) \/ Tight(c)
    BY <1>1 DEF FilterInv, Tracing, AllLoose, AllTight
  <2> QED
    BY <1>1, <2>1, CallFacts DEF Loose, Tight
<1> QED
  BY <1>1, FilterAlways, PTL

\* While the stops come as they should, the flag is right, over all tests.
THEOREM FlagKept == TracedSpec => []FlagFollowsProgram
<1>1. FilterInv => FlagFollowsProgram
  BY DEF FilterInv, Tracing, Flag, FlagFollowsProgram
<1> QED
  BY <1>1, FilterAlways, PTL

\* Then whoever is ended for a restricted function has used up the call.
THEOREM NoneRestrictedEarly == TracedSpec => []RestrictedDeserved
<1>1. FilterInv => RestrictedDeserved
  BY DEF FilterInv
<1> QED
  BY <1>1, FilterAlways, PTL
=============================================================================
