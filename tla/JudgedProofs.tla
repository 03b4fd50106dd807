---------------------------- MODULE JudgedProofs ----------------------------
(***************************************************************************)
(* For any sets of submissions and workers, any ids and any faults: what   *)
(* Judged's runs check on small instances.                                 *)
(***************************************************************************)
EXTENDS Judged, FiniteSetTheorems, TLAPS

-----------------------------------------------------------------------------
(* Sequences *)

LEMMA HeadTailType ==
  ASSUME NEW S, NEW s \in Seq(S), s # <<>>
  PROVE  Head(s) \in S /\ Tail(s) \in Seq(S)
OBVIOUS

LEMMA AppendType ==
  ASSUME NEW S, NEW s \in Seq(S), NEW x \in S
  PROVE  Append(s, x) \in Seq(S)
OBVIOUS

-----------------------------------------------------------------------------
(* Type correctness *)

LEMMA Names ==
  /\ \A w \in Worker : Thread(w) \in Loop /\ IsThread(Thread(w))
  /\ \A w \in Worker : Clone(w) \in Loop /\ ~IsThread(Clone(w))
  /\ \A v, w \in Worker : Thread(v) = Thread(w) => v = w
  /\ \A v, w \in Worker : Thread(v) # Clone(w)
  /\ \A l \in Loop : IsThread(l) => \E w \in Worker : l = Thread(w)
  /\ \A j \in Job : j[2] \in Request /\ WorkDir(j[2]) \in Dir
  /\ NoReq \notin Request
BY JudgedAssumption
DEF Loop, Job, Thread, Clone, IsThread, Dir, NotRequests

\* A loop that has a submission names a job.
LEMMA JobNamed ==
  ASSUME LoopTypeOK, NEW l \in Loop, pc[l] \in {"fork", "wait"}
  PROVE  cur[l] \in Request /\ JobOf(l) \in Job
BY DEF LoopTypeOK, JobOf, Job

LEMMA CodeForType == \A s \in Status : CodeFor(s) \in Code
BY DEF CodeFor, Code, Status, Stopped, Ended, NoStatus, EXIT_OK, EXIT_COMPILE_ERROR,
       EXIT_FORK_ERROR, EXIT_JUDGE, EXIT_TIMEOUT, OJ_SE, SIGKILL, SIGSTOP

\* What a loop pushes is an outcome.
LEMMA PushType ==
  ASSUME QueueTypeOK, NEW l \in Loop, cur[l] \in Request,
         NEW code \in Code, Push(l, code), UNCHANGED ProcessQueue
  PROVE  QueueTypeOK'
<1>1. [code |-> code, req |-> cur[l]] \in Item
  BY DEF Item
<1>2. QED
  BY <1>1, AppendType DEF QueueTypeOK, Push

LEMMA ReturnType ==
  ASSUME LoopTypeOK, NEW l \in Loop, Return(l), UNCHANGED <<copy, late>>
  PROVE  LoopTypeOK'
BY Names DEF LoopTypeOK, Return

LEMMA InitType == Init => TypeOK
<1> SUFFICES ASSUME Init PROVE TypeOK
  OBVIOUS
<1> USE Names DEF Init
<1>1. LifeTypeOK
  BY DEF LifeTypeOK
<1>2. MainTypeOK
  BY DEF MainTypeOK
<1>3. LoopTypeOK
  BY DEF LoopTypeOK
<1>4. JobTypeOK
  BY DEF JobTypeOK, Living, Status
<1>5. SenderTypeOK
  BY DEF SenderTypeOK, Verdict
<1>6. QueueTypeOK
  BY DEF QueueTypeOK
<1>7. QED
  BY <1>1, <1>2, <1>3, <1>4, <1>5, <1>6 DEF TypeOK

\* A group of variables that does not change keeps its type.
LEMMA Unchanged ==
  /\ LifeTypeOK /\ UNCHANGED life => LifeTypeOK'
  /\ MainTypeOK /\ UNCHANGED main => MainTypeOK'
  /\ LoopTypeOK /\ UNCHANGED loops => LoopTypeOK'
  /\ JobTypeOK /\ UNCHANGED jobs => JobTypeOK'
  /\ SenderTypeOK /\ UNCHANGED sender => SenderTypeOK'
  /\ QueueTypeOK /\ UNCHANGED queues => QueueTypeOK'
BY DEF LifeTypeOK, MainTypeOK, LoopTypeOK, JobTypeOK, Living, SenderTypeOK, QueueTypeOK,
       life, main, loops, jobs, sender, queues

LEMMA MainKeepsType ==
  TypeOK /\ (\/ MainTest \/ Password \/ ReadRequest \/ PushRequest
             \/ \E r \in Request : Accept(r)) => TypeOK'
<1> SUFFICES ASSUME TypeOK,
                    \/ MainTest \/ Password \/ ReadRequest \/ PushRequest
                    \/ \E r \in Request : Accept(r)
             PROVE  TypeOK'
  OBVIOUS
<1>1. CASE MainTest
  <2>1. LifeTypeOK' /\ MainTypeOK'
    BY <1>1 DEF TypeOK, MainTest, LifeTypeOK, MainTypeOK
  <2>2. QED
    BY <1>1, <2>1, Unchanged DEF TypeOK, MainTest
<1>2. CASE Password
  <2>1. MainTypeOK'
    BY <1>2, Names DEF TypeOK, Password, HangUp, MainTypeOK
  <2>2. QED
    BY <1>2, <2>1, Unchanged DEF TypeOK, Password
<1>3. CASE ReadRequest
  <2>1. MainTypeOK'
    <3>1. conn \in Request
      BY <1>3 DEF TypeOK, MainTypeOK, ReadRequest
    <3>2. acks' \in Seq(Request)
      BY <1>3, <3>1, AppendType DEF TypeOK, MainTypeOK, ReadRequest, HangUp
    <3>3. QED
      BY <1>3, <3>2, Names DEF TypeOK, ReadRequest, HangUp, MainTypeOK
  <2>2. QED
    BY <1>3, <2>1, Unchanged DEF TypeOK, ReadRequest
<1>4. CASE PushRequest
  <2>1. MainTypeOK'
    BY <1>4 DEF TypeOK, PushRequest, MainTypeOK
  <2>2. QueueTypeOK'
    BY <1>4, AppendType DEF TypeOK, PushRequest, MainTypeOK, QueueTypeOK
  <2>3. QED
    BY <1>4, <2>1, <2>2, Unchanged DEF TypeOK, PushRequest
<1>5. ASSUME NEW r \in Request, Accept(r)
      PROVE  TypeOK'
  <2>1. MainTypeOK'
    BY <1>5, Names DEF TypeOK, Accept, MainTypeOK
  <2>2. QED
    BY <1>5, <2>1, Unchanged DEF TypeOK, Accept
<1>6. QED
  BY <1>1, <1>2, <1>3, <1>4, <1>5

LEMMA LoopKeepsType ==
  ASSUME TypeOK, NEW l \in Loop, LoopStep(l) \/ ForkFails(l)
  PROVE  TypeOK'
<1>1. CASE LoopTest(l)
  <2>1. LoopTypeOK'
    BY <1>1 DEF TypeOK, LoopTest, LoopTypeOK
  <2>2. QED
    BY <1>1, <2>1, Unchanged DEF TypeOK, LoopTest
<1>2. CASE Spawn(l)
  <2>1. pc[l] = "fork" /\ JobOf(l) \in Job
    BY <1>2, JobNamed DEF TypeOK, Spawn, Fork
  <2>2. LoopTypeOK'
    BY <1>2, <2>1 DEF TypeOK, Spawn, Fork, LoopTypeOK
  <2>3. JobTypeOK'
    BY <1>2, <2>1 DEF TypeOK, Spawn, JobTypeOK, Living
  <2>4. QED
    BY <1>2, <2>2, <2>3, Unchanged DEF TypeOK, Spawn
<1>3. CASE Reap(l)
  <2>1. pc[l] = "wait" /\ cur[l] \in Request /\ JobOf(l) \in Job
    BY <1>3, JobNamed DEF TypeOK, Reap
  <2>2. LoopTypeOK'
    BY <1>3, ReturnType DEF TypeOK, Reap
  <2>3. JobTypeOK'
    BY <1>3, <2>1 DEF TypeOK, Reap, JobTypeOK, Living, Status
  <2>4. CodeFor(status[JobOf(l)]) \in Code
    BY <2>1, CodeForType DEF TypeOK, JobTypeOK, Living
  <2>5. QueueTypeOK'
    BY <1>3, <2>1, <2>4, PushType DEF TypeOK, Reap
  <2>6. QED
    BY <1>3, <2>2, <2>3, <2>5, Unchanged DEF TypeOK, Reap
<1>4. CASE ForkFails(l)
  <2>1. pc[l] = "fork" /\ cur[l] \in Request
    BY <1>4, JobNamed DEF TypeOK, ForkFails
  <2>2. LoopTypeOK'
    BY <1>4, ReturnType DEF TypeOK, ForkFails
  <2>3. QueueTypeOK'
    BY <1>4, <2>1, PushType DEF TypeOK, ForkFails, Code
  <2>4. QED
    BY <1>4, <2>2, <2>3, Unchanged DEF TypeOK, ForkFails
<1>5. QED
  BY <1>1, <1>2, <1>3, <1>4 DEF LoopStep

LEMMA SigtermType == LifeTypeOK /\ Sigterm => LifeTypeOK'
<1> SUFFICES ASSUME LifeTypeOK, Sigterm PROVE LifeTypeOK'
  OBVIOUS
<1>1. sigterms' \in Nat /\ daemon' \in {"up", "exited", "killed"}
  BY SMT DEF LifeTypeOK, Sigterm
<1>2. isRunning' \in BOOLEAN
  BY Zenon DEF Sigterm
<1>3. QED
  BY <1>1, <1>2 DEF LifeTypeOK

LEMMA WorkerKeepsType ==
  ASSUME TypeOK, NEW w \in Worker,
         \/ Take(w) \/ TakeCopy(w) \/ ExecFails(w) \/ ExecFailsAgain(w)
         \/ SigtermInWorker(w)
  PROVE  TypeOK'
<1> USE Names
<1>1. CASE Take(w)
  <2>1. Head(ProcessQueue) \in Request /\ QueueTypeOK'
    BY <1>1, HeadTailType DEF TypeOK, Take, QueueTypeOK
  <2>2. LoopTypeOK'
    BY <1>1, <2>1 DEF TypeOK, Take, LoopTypeOK
  <2>3. QED
    BY <1>1, <2>1, <2>2, Unchanged DEF TypeOK, Take
<1>2. CASE TakeCopy(w)
  <2>1. Head(copy[w]) \in Request /\ Tail(copy[w]) \in Seq(Request)
    BY <1>2, HeadTailType DEF TypeOK, TakeCopy, LoopTypeOK
  <2>2. LoopTypeOK'
    BY <1>2, <2>1 DEF TypeOK, TakeCopy, LoopTypeOK
  <2>3. QED
    BY <1>2, <2>2, Unchanged DEF TypeOK, TakeCopy
<1>3. CASE ExecFails(w)
  <2>1. /\ pc[Thread(w)] = "fork" /\ pc[Clone(w)] = "absent"
        /\ JobOf(Thread(w)) \in Job
    BY <1>3, JobNamed DEF TypeOK, ExecFails, Fork
  <2>2. LoopTypeOK'
    <3>1. cur' = cur /\ late' \in SUBSET Job
      BY <1>3, <2>1 DEF TypeOK, ExecFails, Fork, LoopTypeOK
    <3>2. copy' = copy \/ copy' = [copy EXCEPT ![w] = ProcessQueue]
      BY <1>3 DEF ExecFails
    <3>3. copy' \in [Worker -> Seq(Request)]
      BY <3>2 DEF TypeOK, LoopTypeOK, QueueTypeOK
    <3>4. PICK s \in {"test", "done", "wedged"} :
            pc' = [pc EXCEPT ![Thread(w)] = "wait", ![Clone(w)] = s]
      BY <1>3 DEF ExecFails
    <3>5. pc' \in [Loop -> {"absent", "test", "get", "fork", "wait", "done", "wedged"}]
      BY <3>4 DEF TypeOK, LoopTypeOK
    <3>6. ASSUME NEW l \in Loop
          PROVE  cur'[l] # NoReq <=> pc'[l] \in {"fork", "wait"}
      <4>1. cur[l] # NoReq <=> pc[l] \in {"fork", "wait"}
        BY DEF TypeOK, LoopTypeOK
      <4>2. pc'[l] = IF l = Clone(w) THEN s ELSE IF l = Thread(w) THEN "wait" ELSE pc[l]
        BY <3>4 DEF TypeOK, LoopTypeOK
      <4>3. QED
        BY <2>1, <3>1, <4>1, <4>2
    <3>7. QED
      BY <3>1, <3>3, <3>5, <3>6 DEF TypeOK, LoopTypeOK
  <2>3. JobTypeOK'
    BY <1>3, <2>1 DEF TypeOK, ExecFails, JobTypeOK, Over, Living, Status, Ended
  <2>4. QED
    BY <1>3, <2>2, <2>3, Unchanged DEF TypeOK, ExecFails
<1>4. CASE ExecFailsAgain(w)
  <2>1. JobOf(Clone(w)) \in Job
    BY <1>4, JobNamed DEF TypeOK, ExecFailsAgain
  <2>2. LoopTypeOK'
    BY <1>4, ReturnType DEF TypeOK, ExecFailsAgain
  <2>3. JobTypeOK'
    BY <1>4, <2>1 DEF TypeOK, ExecFailsAgain, JobTypeOK, Living
  <2>4. QED
    BY <1>4, <2>2, <2>3, Unchanged DEF TypeOK, ExecFailsAgain
<1>5. CASE SigtermInWorker(w)
  <2>1. cur[Thread(w)] \in Request
    BY <1>5, JobNamed DEF TypeOK, SigtermInWorker
  <2>2. LoopTypeOK'
    BY <1>5, ReturnType DEF TypeOK, SigtermInWorker
  <2>3. CodeFor(<<"exited", 0>>) \in Code
    BY CodeForType DEF Status, Stopped, Ended, EXIT_OK
  <2>4. QueueTypeOK'
    BY <1>5, <2>1, <2>3, PushType DEF TypeOK, SigtermInWorker
  <2>5. LifeTypeOK'
    BY <1>5, SigtermType DEF TypeOK, SigtermInWorker
  <2>6. QED
    BY <1>5, <2>2, <2>4, <2>5, Unchanged DEF TypeOK, SigtermInWorker
<1>6. QED
  BY <1>1, <1>2, <1>3, <1>4, <1>5

LEMMA JobKeepsType ==
  ASSUME TypeOK, NEW j \in Job, JobStep(j) \/ Stop(j) \/ Continue(j)
  PROVE  TypeOK'
<1> USE Names DEF Advance
<1>1. JobTypeOK'
  <2> USE DEF TypeOK, JobTypeOK, Living
  <2>1. CASE OpenResult(j)
    BY <2>1 DEF OpenResult
  <2>2. CASE WriteResult(j)
    BY <2>2 DEF WriteResult
  <2>3. CASE Exit(j)
    <3>1. PICK s \in Endings : /\ phase' \in { [phase EXCEPT ![j] = "silent"],
                                               [phase EXCEPT ![j] = "failed"],
                                               [phase EXCEPT ![j] = "ended"] }
                               /\ status' = [status EXCEPT ![j] = s]
                               /\ UNCHANGED file
      BY <2>3 DEF Exit
    <3>2. s \in Status
      BY JudgedAssumption DEF Status
    <3>3. QED
      BY <3>1, <3>2 DEF Over
  <2>4. CASE Stop(j)
    BY <2>4 DEF Stop, Status, Stopped
  <2>5. CASE Continue(j)
    BY <2>5 DEF Continue, Status
  <2>6. QED
    BY <2>1, <2>2, <2>3, <2>4, <2>5 DEF JobStep
<1>2. UNCHANGED <<life, main, loops, sender, queues>>
  BY DEF JobStep, OpenResult, WriteResult, Exit, Stop, Continue
<1>3. QED
  BY <1>1, <1>2, Unchanged DEF TypeOK

LEMMA SenderKeepsType ==
  TypeOK /\ (SenderStep \/ CurlInitFails) => TypeOK'
<1> SUFFICES ASSUME TypeOK, SenderStep \/ CurlInitFails PROVE TypeOK'
  OBVIOUS
<1> USE Names
<1>1. CASE SendTest
  <2>1. SenderTypeOK'
    BY <1>1 DEF TypeOK, SendTest, SenderTypeOK
  <2>2. QED
    BY <1>1, <2>1, Unchanged DEF TypeOK, SendTest
<1>2. CASE SendTake
  <2>1. Head(SendQueue) \in Item /\ QueueTypeOK'
    BY <1>2, HeadTailType DEF TypeOK, SendTake, QueueTypeOK
  <2>2. NoItem \notin Item
    BY DEF NoItem, Item
  <2>3. SenderTypeOK'
    BY <1>2, <2>1, <2>2 DEF TypeOK, SendTake, SenderTypeOK
  <2>4. QED
    BY <1>2, <2>1, <2>3, Unchanged DEF TypeOK, SendTake
<1>3. CASE ReadResult
  <2>1. item \in Item /\ WorkDir(item.req) \in Dir
    BY <1>3 DEF TypeOK, ReadResult, SenderTypeOK, Item, Dir
  <2>2. out' \in Verdict
    BY <1>3, <2>1 DEF TypeOK, ReadResult, JobTypeOK, Living, Readable, Verdict
  <2>3. SenderTypeOK'
    BY <1>3, <2>2 DEF TypeOK, ReadResult, SenderTypeOK
  <2>4. QED
    BY <1>3, <2>3, Unchanged DEF TypeOK, ReadResult
<1>4. CASE Post
  <2>1. item \in Item /\ item.req \in Request
    BY <1>4 DEF TypeOK, Post, SenderTypeOK, Item
  <2>2. posts' \in Seq([req : Request, by : Verdict])
    <3>1. [req |-> item.req, by |-> out] \in [req : Request, by : Verdict]
      BY <2>1 DEF TypeOK, SenderTypeOK
    <3>2. posts \in Seq([req : Request, by : Verdict])
      BY DEF TypeOK, SenderTypeOK
    <3>3. Append(posts, [req |-> item.req, by |-> out]) \in Seq([req : Request, by : Verdict])
      BY <3>1, <3>2, AppendType
    <3>4. QED
      BY <1>4, <3>2, <3>3 DEF Post
  <2>3. SenderTypeOK'
    BY <1>4, <2>1, <2>2 DEF TypeOK, Post, SenderTypeOK, Verdict
  <2>4. QED
    BY <1>4, <2>3, Unchanged DEF TypeOK, Post
<1>5. CASE CurlInitFails
  <2>1. SenderTypeOK'
    BY <1>5 DEF TypeOK, CurlInitFails, SenderTypeOK, Verdict
  <2>2. QED
    BY <1>5, <2>1, Unchanged DEF TypeOK, CurlInitFails
<1>6. QED
  BY <1>1, <1>2, <1>3, <1>4, <1>5 DEF SenderStep

LEMMA SignalKeepsType ==
  TypeOK /\ (SigtermInMain \/ ReplyToGonePeer \/ StackOverflows \/ Kill) => TypeOK'
<1> SUFFICES ASSUME TypeOK, SigtermInMain \/ ReplyToGonePeer \/ StackOverflows \/ Kill
             PROVE  TypeOK'
  OBVIOUS
<1>1. LifeTypeOK'
  <2>1. CASE SigtermInMain
    BY <2>1, SigtermType DEF TypeOK, SigtermInMain
  <2>2. CASE ReplyToGonePeer \/ StackOverflows \/ Kill
    BY <2>2 DEF TypeOK, LifeTypeOK, ReplyToGonePeer, StackOverflows, Kill
  <2>3. QED
    BY <2>1, <2>2
<1>2. MainTypeOK'
  BY Names DEF TypeOK, MainTypeOK, SigtermInMain, HangUp, ReplyToGonePeer,
      StackOverflows, Kill, main
<1>3. UNCHANGED <<loops, jobs, sender, queues>>
  BY DEF SigtermInMain, ReplyToGonePeer, StackOverflows, Kill
<1>4. QED
  BY <1>1, <1>2, <1>3, Unchanged DEF TypeOK

LEMMA TypeKept == TypeOK /\ [Next]_vars => TypeOK'
<1> SUFFICES ASSUME TypeOK, [Next]_vars PROVE TypeOK'
  OBVIOUS
<1>1. CASE UNCHANGED vars
  BY <1>1, Unchanged DEF TypeOK, vars
<1>2. CASE Next
  BY <1>2, MainKeepsType, LoopKeepsType, WorkerKeepsType, JobKeepsType,
     SenderKeepsType, SignalKeepsType DEF Next
<1>3. QED
  BY <1>1, <1>2

\* Every reachable state of the daemon is well typed.
THEOREM TypeCorrect == Spec => []TypeOK
BY InitType, TypeKept, PTL DEF Spec

-----------------------------------------------------------------------------
(* Conservation of the acknowledged submissions.                           *)
(*                                                                         *)
(* Besides NothingLost and NothingTwice the invariant needs that a client  *)
(* connects once (AckInv): otherwise a submission could be acknowledged a  *)
(* second time while it is already on its way.  Then a step of the daemon  *)
(* either adds the submission it acknowledges to the main thread's hand    *)
(* (Arrival), or moves one submission from one place to another (Move), or *)
(* leaves every place as it is (Stay).                                     *)

AckInv == /\ Accepted \subseteq served
          /\ conn # NoReq => conn \in served
          /\ mpc \in {"password", "request"} => conn \notin Accepted

Conserved == NothingLost /\ InOnePlace

LEMMA Stay ==
  ASSUME Conserved, Accepted' = Accepted,
         \A r \in Request, p \in Place : IsAt(r, p)' <=> IsAt(r, p)
  PROVE  Conserved'
<1>1. \A r \in Request : Places(r)' = Places(r)
  BY DEF Places
<1>2. NothingLost'
  BY <1>1 DEF Conserved, NothingLost
<1>3. InOnePlace'
  BY <1>1 DEF Conserved, InOnePlace
<1>4. QED
  BY <1>2, <1>3 DEF Conserved

\* Submission s leaves a for b, and everything else stays where it is.
Moved(s, a, b) ==
  /\ s \in Request /\ a \in Place /\ b \in Place \ {a} /\ IsAt(s, a)
  /\ \A r \in Request, p \in Place \ {a, b} : IsAt(r, p)' <=> IsAt(r, p)
  /\ \A r \in Request : IsAt(r, a)' <=> IsAt(r, a) /\ r # s
  /\ \A r \in Request : IsAt(r, b)' <=> IsAt(r, b) \/ r = s

LEMMA Move ==
  ASSUME Conserved, Accepted' = Accepted, NEW s, NEW a, NEW b, Moved(s, a, b)
  PROVE  Conserved'
<1> USE DEF Moved
<1>1. \A r \in Request \ {s} : Places(r)' = Places(r)
  BY DEF Places
<1>2. Places(s) = {a}
  BY DEF Conserved, InOnePlace, Places
<1>3. Places(s)' = {b}
  BY <1>2 DEF Places
<1>4. NothingLost'
  BY <1>1, <1>2, <1>3 DEF Conserved, NothingLost
<1>5. InOnePlace'
  BY <1>1, <1>3 DEF Conserved, InOnePlace
<1>6. QED
  BY <1>4, <1>5 DEF Conserved

LEMMA Arrival ==
  ASSUME Conserved, NEW s \in Request, s \notin Accepted,
         Accepted' = Accepted \cup {s}, NEW a \in Place,
         \A r \in Request, p \in Place : IsAt(r, p)' <=> IsAt(r, p) \/ (r = s /\ p = a)
  PROVE  Conserved'
<1>1. \A r \in Request \ {s} : Places(r)' = Places(r)
  BY DEF Places
<1>2. Places(s) = {}
  BY DEF Conserved, NothingLost
<1>3. Places(s)' = {a}
  BY <1>2 DEF Places
<1>4. NothingLost'
  BY <1>1, <1>3 DEF Conserved, NothingLost
<1>5. InOnePlace'
  BY <1>1, <1>3 DEF Conserved, InOnePlace
<1>6. QED
  BY <1>4, <1>5 DEF Conserved

\* Append and Tail, position by position.
LEMMA AppendAt ==
  ASSUME NEW S, NEW s \in Seq(S), NEW x \in S
  PROVE  /\ DOMAIN Append(s, x) = 1 .. Len(s) + 1 /\ DOMAIN s = 1 .. Len(s)
         /\ Len(s) \in Nat
         /\ \A i \in 1 .. Len(s) : Append(s, x)[i] = s[i]
         /\ Append(s, x)[Len(s) + 1] = x
OBVIOUS

LEMMA TailAt ==
  ASSUME NEW S, NEW s \in Seq(S), s # <<>>
  PROVE  /\ DOMAIN Tail(s) = 1 .. Len(s) - 1 /\ DOMAIN s = 1 .. Len(s)
         /\ Len(s) \in Nat \ {0}
         /\ \A i \in 1 .. Len(s) - 1 : Tail(s)[i] = s[i + 1]
         /\ Head(s) = s[1]
OBVIOUS

\* Acknowledging: the elements of acks.
LEMMA AcceptedGrows ==
  ASSUME NEW s \in Request, acks \in Seq(Request), acks' = Append(acks, s)
  PROVE  Accepted' = Accepted \cup {s}
<1>1. \A x : x \in Elems(acks') <=> x \in Elems(acks) \/ x = s
  BY AppendAt DEF Elems
<1>2. QED
  BY <1>1 DEF Accepted

\* Each place is a matter of a few variables.
LEMMA Frame ==
  \A r \in Request :
    /\ UNCHANGED <<mpc, conn>> => (IsAt(r, "main")' <=> IsAt(r, "main"))
    /\ mpc # "push" /\ mpc' # "push" => (IsAt(r, "main")' <=> IsAt(r, "main"))
    /\ UNCHANGED ProcessQueue => (IsAt(r, "ProcessQueue")' <=> IsAt(r, "ProcessQueue"))
    /\ UNCHANGED SendQueue => (IsAt(r, "SendQueue")' <=> IsAt(r, "SendQueue"))
    /\ UNCHANGED <<spc, item>> => (IsAt(r, "sender")' <=> IsAt(r, "sender"))
    /\ UNCHANGED posts => (IsAt(r, "posted")' <=> IsAt(r, "posted"))
    /\ UNCHANGED undelivered => (IsAt(r, "undelivered")' <=> IsAt(r, "undelivered"))
BY DEF IsAt

LEMMA WorkerFrame ==
  ASSUME \A w \in Worker : /\ Judging(w)' <=> Judging(w)
                           /\ Judging(w) => cur'[Thread(w)] = cur[Thread(w)]
  PROVE  \A r \in Request : IsAt(r, "worker")' <=> IsAt(r, "worker")
BY DEF IsAt

\* The invariant: what TypeOK, AckInv and the two properties say together.
CInv == TypeOK /\ AckInv /\ NothingLost /\ NothingTwice

LEMMA InitCInv == Init => CInv
<1> SUFFICES ASSUME Init PROVE CInv
  OBVIOUS
<1>1. TypeOK
  BY InitType
<1>2. Accepted = {}
  BY DEF Init, Accepted, Elems
<1>3. AckInv
  BY <1>2 DEF Init, AckInv
<1>4. \A r \in Request, p \in Place : ~IsAt(r, p)
  BY Names DEF Init, IsAt, Judging
<1>5. NothingLost /\ InOnePlace
  BY <1>2, <1>4 DEF NothingLost, InOnePlace, Places
<1>6. OnceThere
  BY Names DEF Init, OnceThere, Judging
<1>7. QED
  BY <1>1, <1>3, <1>5, <1>6 DEF CInv, NothingTwice

LEMMA AckInvKept == CInv /\ [Next]_vars => AckInv'
<1> SUFFICES ASSUME CInv, [Next]_vars PROVE AckInv'
  OBVIOUS
<1> USE DEF CInv, AckInv
<1>1. CASE UNCHANGED main
  BY <1>1 DEF main, Accepted
<1>2. CASE mpc' = "test" /\ conn' = NoReq /\ UNCHANGED <<served, acks>>
  BY <1>2 DEF Accepted
<1>3. CASE MainTest
  BY <1>3 DEF MainTest, Accepted, TypeOK, MainTypeOK
<1>4. CASE Password
  BY <1>2, <1>4 DEF Password, HangUp, Accepted
<1>5. CASE ReadRequest
  <2>1. conn \in Request /\ conn \in served
    BY <1>5 DEF ReadRequest, TypeOK, MainTypeOK
  <2>2. CASE HangUp
    BY <1>2, <2>2 DEF HangUp
  <2>3. CASE mpc' = "push" /\ acks' = Append(acks, conn) /\ UNCHANGED <<conn, served>>
    <3>1. Accepted' = Accepted \cup {conn}
      BY <2>1, <2>3, AcceptedGrows DEF TypeOK, MainTypeOK
    <3>2. QED
      BY <2>1, <2>3, <3>1
  <2>4. QED
    BY <1>5, <2>2, <2>3 DEF ReadRequest
<1>6. CASE PushRequest
  BY <1>2, <1>6 DEF PushRequest
<1>7. ASSUME NEW r \in Request, Accept(r) PROVE AckInv'
  BY <1>7 DEF Accept, Accepted
<1>8. CASE SigtermInMain
  <2>1. CASE UNCHANGED main
    BY <1>1, <2>1
  <2>2. CASE mpc = "accept" /\ mpc' = "test" /\ UNCHANGED <<conn, served, acks>>
    BY <2>2 DEF Accepted, TypeOK, MainTypeOK
  <2>3. CASE HangUp
    BY <1>2, <2>3 DEF HangUp
  <2>4. QED
    BY <1>8, <2>1, <2>2, <2>3 DEF SigtermInMain
<1>9. CASE \/ \E l \in Loop : LoopStep(l) \/ ForkFails(l)
           \/ \E w \in Worker : \/ Take(w) \/ TakeCopy(w) \/ ExecFails(w)
                                \/ ExecFailsAgain(w) \/ SigtermInWorker(w)
           \/ \E j \in Job : JobStep(j) \/ Stop(j) \/ Continue(j)
           \/ SenderStep \/ CurlInitFails \/ ReplyToGonePeer \/ StackOverflows \/ Kill
           \/ UNCHANGED vars
  <2>1. UNCHANGED main
    BY <1>9 DEF LoopStep, LoopTest, Spawn, Reap, ForkFails, Take, TakeCopy,
      ExecFails, ExecFailsAgain, SigtermInWorker, JobStep, OpenResult,
      WriteResult, Exit, Stop, Continue, Advance, SenderStep, SendTest,
      SendTake, ReadResult, Post, CurlInitFails, ReplyToGonePeer, StackOverflows, Kill, vars
  <2>2. QED
    BY <1>1, <2>1
<1>10. QED
  BY <1>3, <1>4, <1>5, <1>6, <1>7, <1>8, <1>9 DEF Next

-----------------------------------------------------------------------------
(* The steps that move a submission *)

Acknowledges == /\ ReadRequest
                /\ mpc' = "push" /\ acks' = Append(acks, conn) /\ UNCHANGED conn

LEMMA Acknowledge ==
  ASSUME CInv, Acknowledges
  PROVE  /\ Conserved' /\ OnceThere'
         /\ conn \in Request /\ conn \notin Accepted
         /\ \A r \in Request, p \in Place :
              IsAt(r, p)' <=> IsAt(r, p) \/ (r = conn /\ p = "main")
<1> USE DEF Acknowledges
<1>1. conn \in Request /\ conn \notin Accepted /\ mpc # "push"
  BY DEF ReadRequest, CInv, TypeOK, MainTypeOK, AckInv
<1>2. Accepted' = Accepted \cup {conn}
  BY <1>1, AcceptedGrows DEF CInv, TypeOK, MainTypeOK
<1>3. UNCHANGED <<loops, sender, queues>>
  BY DEF ReadRequest
<1>4. \A r \in Request, p \in Place :
        IsAt(r, p)' <=> IsAt(r, p) \/ (r = conn /\ p = "main")
  BY <1>1, <1>3 DEF IsAt, Judging, loops, sender, queues
<1>5. Conserved'
  BY <1>1, <1>2, <1>4, Arrival DEF CInv, NothingTwice, Conserved, Place
<1>6. OnceThere'
  BY <1>3 DEF CInv, NothingTwice, OnceThere, Judging, loops, sender, queues
<1>7. QED
  BY <1>1, <1>4, <1>5, <1>6

LEMMA Enqueue ==
  ASSUME CInv, PushRequest
  PROVE  Conserved' /\ OnceThere' /\ Moved(conn, "main", "ProcessQueue")
<1>1. /\ conn \in Request /\ mpc = "push" /\ mpc' = "test"
      /\ ProcessQueue' = Append(ProcessQueue, conn)
      /\ ProcessQueue \in Seq(Request)
      /\ acks' = acks /\ UNCHANGED <<loops, sender, SendQueue>>
  BY DEF PushRequest, CInv, TypeOK, MainTypeOK, QueueTypeOK
<1>2. IsAt(conn, "main") /\ \A r \in Request : IsAt(r, "main") <=> r = conn
  BY <1>1 DEF IsAt
<1>3. \A r \in Request : IsAt(r, "main")' <=> IsAt(r, "main") /\ r # conn
  BY <1>1 DEF IsAt
<1>4. \A r \in Request : IsAt(r, "ProcessQueue")' <=> IsAt(r, "ProcessQueue") \/ r = conn
  BY <1>1, AppendAt DEF IsAt
<1>5. \A r \in Request, p \in Place \ {"main", "ProcessQueue"} : IsAt(r, p)' <=> IsAt(r, p)
  BY <1>1 DEF IsAt, Place, Judging, loops, sender
<1>. Moved(conn, "main", "ProcessQueue")
  BY <1>1, <1>2, <1>3, <1>4, <1>5 DEF Moved, Place
<1>6. Conserved'
  BY <1>1, Move DEF CInv, NothingTwice, Conserved, Accepted
<1>7. ~IsAt(conn, "ProcessQueue")
  BY <1>1, <1>2 DEF CInv, NothingTwice, InOnePlace, Places, Place
<1>8. \A i \in DOMAIN ProcessQueue : ProcessQueue[i] # conn
  BY <1>7 DEF IsAt
<1>9. \A i, j \in DOMAIN ProcessQueue' : ProcessQueue'[i] = ProcessQueue'[j] => i = j
  BY <1>1, <1>8, AppendAt DEF CInv, NothingTwice, OnceThere
<1>10. OnceThere'
  BY <1>1, <1>9 DEF CInv, NothingTwice, OnceThere, Judging, loops, sender
<1>11. QED
  BY <1>6, <1>10

LEMMA Dispatch ==
  ASSUME CInv, NEW w \in Worker, Take(w)
  PROVE  Conserved' /\ OnceThere' /\ Moved(Head(ProcessQueue), "ProcessQueue", "worker")
<1> DEFINE s == Head(ProcessQueue)
<1>1. /\ ProcessQueue # <<>> /\ ProcessQueue \in Seq(Request)
      /\ ProcessQueue' = Tail(ProcessQueue) /\ s \in Request
      /\ pc[Thread(w)] = "get"
      /\ UNCHANGED <<mpc, conn, acks, sender, SendQueue>>
  BY HeadTailType DEF Take, CInv, TypeOK, QueueTypeOK, main
<1>2. \A v \in Worker : /\ Judging(v)' <=> Judging(v) \/ v = w
                        /\ cur'[Thread(v)] = IF v = w THEN s ELSE cur[Thread(v)]
  BY Names DEF Take, Judging, CInv, TypeOK, LoopTypeOK
<1>3. ~Judging(w)
  BY <1>1 DEF Judging
<1>4. IsAt(s, "ProcessQueue")
  BY <1>1, TailAt DEF IsAt
<1>5. \A i \in DOMAIN ProcessQueue : ProcessQueue[i] = s => i = 1
  BY <1>1, TailAt DEF CInv, NothingTwice, OnceThere
<1>6. \A r \in Request : IsAt(r, "ProcessQueue")' <=> IsAt(r, "ProcessQueue") /\ r # s
  <2>1. ASSUME NEW r \in Request, IsAt(r, "ProcessQueue")'
        PROVE  IsAt(r, "ProcessQueue") /\ r # s
    <3>1. PICK i \in 1 .. Len(ProcessQueue) - 1 : ProcessQueue[i + 1] = r
      BY <1>1, <2>1, TailAt DEF IsAt
    <3>2. i + 1 \in DOMAIN ProcessQueue /\ i + 1 # 1
      BY <1>1, TailAt
    <3>3. QED
      BY <1>5, <3>1, <3>2 DEF IsAt
  <2>2. ASSUME NEW r \in Request, IsAt(r, "ProcessQueue"), r # s
        PROVE  IsAt(r, "ProcessQueue")'
    <3>1. PICK i \in DOMAIN ProcessQueue : ProcessQueue[i] = r
      BY <2>2 DEF IsAt
    <3>2. i # 1 /\ i \in 1 .. Len(ProcessQueue) /\ Len(ProcessQueue) \in Nat
      BY <1>1, <2>2, <3>1, TailAt
    <3>3. i - 1 \in DOMAIN ProcessQueue' /\ ProcessQueue'[i - 1] = r
      BY <1>1, <3>1, <3>2, TailAt
    <3>4. QED
      BY <3>3 DEF IsAt
  <2>3. QED
    BY <2>1, <2>2
<1>7. \A r \in Request : IsAt(r, "worker")' <=> IsAt(r, "worker") \/ r = s
  BY <1>2, <1>3 DEF IsAt
<1>8. \A r \in Request, p \in Place \ {"ProcessQueue", "worker"} : IsAt(r, p)' <=> IsAt(r, p)
  BY <1>1 DEF IsAt, Place, sender
<1>. Moved(s, "ProcessQueue", "worker")
  BY <1>1, <1>4, <1>6, <1>7, <1>8 DEF Moved, Place
<1>9. Conserved'
  BY <1>1, Move DEF CInv, NothingTwice, Conserved, Accepted
<1>10. \A v \in Worker : Judging(v) => cur[Thread(v)] # s
  <2>1. ~IsAt(s, "worker")
    BY <1>1, <1>4 DEF CInv, NothingTwice, InOnePlace, Places, Place
  <2>2. QED
    BY <2>1 DEF IsAt
<1>11. \A i, j \in DOMAIN ProcessQueue' : ProcessQueue'[i] = ProcessQueue'[j] => i = j
  BY <1>1, TailAt DEF CInv, NothingTwice, OnceThere
<1>12. OnceThere'
  BY <1>1, <1>2, <1>3, <1>10, <1>11 DEF CInv, NothingTwice, OnceThere, sender
<1>13. QED
  BY <1>9, <1>12

\* A worker that ends its round hands its submission over to the sender.
Finishes(w, code) ==
  /\ Judging(w) /\ Push(Thread(w), code) /\ Return(Thread(w))
  /\ UNCHANGED <<main, sender, ProcessQueue>>

LEMMA HandOver ==
  ASSUME CInv, NEW w \in Worker, NEW code \in Code, Finishes(w, code)
  PROVE  Conserved' /\ OnceThere' /\ Moved(cur[Thread(w)], "worker", "SendQueue")
<1> DEFINE s == cur[Thread(w)]
           x == [code |-> code, req |-> s]
<1> USE DEF Finishes
<1>1. /\ s \in Request /\ x \in Item /\ SendQueue \in Seq(Item)
      /\ SendQueue' = Append(SendQueue, x)
      /\ UNCHANGED <<mpc, conn, acks, spc, item, posts, undelivered>>
  BY Names DEF CInv, TypeOK, LoopTypeOK, QueueTypeOK, Judging, Push, Item, main, sender
<1>2. \A v \in Worker : /\ Judging(v)' <=> Judging(v) /\ v # w
                        /\ v # w => cur'[Thread(v)] = cur[Thread(v)]
  BY Names DEF Return, Judging, CInv, TypeOK, LoopTypeOK
<1>3. \A v \in Worker : Judging(v) /\ cur[Thread(v)] = s => v = w
  BY DEF CInv, NothingTwice, OnceThere
<1>4. IsAt(s, "worker")
  BY DEF IsAt
<1>5. \A r \in Request : IsAt(r, "worker")' <=> IsAt(r, "worker") /\ r # s
  BY <1>2, <1>3 DEF IsAt
<1>6. \A r \in Request : IsAt(r, "SendQueue")' <=> IsAt(r, "SendQueue") \/ r = s
  <2>1. /\ DOMAIN SendQueue' = 1 .. Len(SendQueue) + 1
        /\ DOMAIN SendQueue = 1 .. Len(SendQueue) /\ Len(SendQueue) \in Nat
        /\ \A i \in 1 .. Len(SendQueue) : SendQueue'[i] = SendQueue[i]
        /\ SendQueue'[Len(SendQueue) + 1].req = s
    BY <1>1, AppendAt
  <2>2. QED
    BY <2>1 DEF IsAt
<1>7. \A r \in Request, p \in Place \ {"worker", "SendQueue"} : IsAt(r, p)' <=> IsAt(r, p)
  BY <1>1 DEF IsAt, Place
<1>. Moved(s, "worker", "SendQueue")
  BY <1>1, <1>4, <1>5, <1>6, <1>7 DEF Moved, Place
<1>8. Conserved'
  BY <1>1, Move DEF CInv, NothingTwice, Conserved, Accepted
<1>9. \A i \in DOMAIN SendQueue : SendQueue[i].req # s
  <2>1. ~IsAt(s, "SendQueue")
    BY <1>1, <1>4 DEF CInv, NothingTwice, InOnePlace, Places, Place
  <2>2. QED
    BY <2>1 DEF IsAt
<1>10. \A i, j \in DOMAIN SendQueue' : SendQueue'[i].req = SendQueue'[j].req => i = j
  BY <1>1, <1>9, AppendAt DEF CInv, NothingTwice, OnceThere
<1>11. OnceThere'
  BY <1>1, <1>2, <1>10 DEF CInv, NothingTwice, OnceThere
<1>12. QED
  BY <1>8, <1>11

\* The sender takes an outcome.
LEMMA Collect ==
  ASSUME CInv, SendTake
  PROVE  Conserved' /\ OnceThere' /\ Moved(Head(SendQueue).req, "SendQueue", "sender")
<1> DEFINE s == Head(SendQueue).req
<1>1. /\ SendQueue # <<>> /\ SendQueue \in Seq(Item) /\ Head(SendQueue) \in Item
      /\ SendQueue' = Tail(SendQueue) /\ item' = Head(SendQueue)
      /\ s \in Request /\ spc = "get" /\ spc' = "read"
      /\ UNCHANGED <<mpc, conn, acks, loops, ProcessQueue, posts, undelivered>>
  <2>1. SendQueue # <<>> /\ SendQueue \in Seq(Item)
    BY DEF SendTake, CInv, TypeOK, QueueTypeOK
  <2>2. Head(SendQueue) \in Item
    BY <2>1, HeadTailType
  <2>3. Head(SendQueue).req \in Request
    BY <2>2 DEF Item
  <2>4. QED
    BY <2>1, <2>2, <2>3 DEF SendTake, main
<1>2. IsAt(s, "SendQueue")
  BY <1>1, TailAt DEF IsAt
<1>3. \A i \in DOMAIN SendQueue : SendQueue[i].req = s => i = 1
  BY <1>1, TailAt DEF CInv, NothingTwice, OnceThere
<1>4. \A r \in Request : IsAt(r, "SendQueue")' <=> IsAt(r, "SendQueue") /\ r # s
  <2>1. ASSUME NEW r \in Request, IsAt(r, "SendQueue")'
        PROVE  IsAt(r, "SendQueue") /\ r # s
    <3>1. PICK i \in 1 .. Len(SendQueue) - 1 : SendQueue[i + 1].req = r
      BY <1>1, <2>1, TailAt DEF IsAt
    <3>2. i + 1 \in DOMAIN SendQueue /\ i + 1 # 1
      BY <1>1, TailAt
    <3>3. QED
      BY <1>3, <3>1, <3>2 DEF IsAt
  <2>2. ASSUME NEW r \in Request, IsAt(r, "SendQueue"), r # s
        PROVE  IsAt(r, "SendQueue")'
    <3>1. PICK i \in DOMAIN SendQueue : SendQueue[i].req = r
      BY <2>2 DEF IsAt
    <3>2. i # 1 /\ i \in 1 .. Len(SendQueue) /\ Len(SendQueue) \in Nat
      BY <1>1, <2>2, <3>1, TailAt
    <3>3. i - 1 \in DOMAIN SendQueue' /\ SendQueue'[i - 1].req = r
      BY <1>1, <3>1, <3>2, TailAt
    <3>4. QED
      BY <3>3 DEF IsAt
  <2>3. QED
    BY <2>1, <2>2
<1>5. \A r \in Request : IsAt(r, "sender")' <=> IsAt(r, "sender") \/ r = s
  BY <1>1 DEF IsAt
<1>6. \A r \in Request, p \in Place \ {"SendQueue", "sender"} : IsAt(r, p)' <=> IsAt(r, p)
  BY <1>1 DEF IsAt, Place, Judging, loops
<1>. Moved(s, "SendQueue", "sender")
  BY <1>1, <1>2, <1>4, <1>5, <1>6 DEF Moved, Place
<1>7. Conserved'
  BY <1>1, Move DEF CInv, NothingTwice, Conserved, Accepted
<1>8. \A i, j \in DOMAIN SendQueue' : SendQueue'[i].req = SendQueue'[j].req => i = j
  BY <1>1, TailAt DEF CInv, NothingTwice, OnceThere
<1>9. OnceThere'
  BY <1>1, <1>8 DEF CInv, NothingTwice, OnceThere, Judging, loops
<1>10. QED
  BY <1>7, <1>9

\* The transfer ends, one way or the other.
LEMMA Deliver ==
  ASSUME CInv, Post
  PROVE  /\ Conserved' /\ OnceThere'
         /\ \/ Moved(item.req, "sender", "posted")
            \/ Moved(item.req, "sender", "undelivered")
<1> DEFINE s == item.req
<1>1. /\ s \in Request /\ spc = "post" /\ spc' = "test" /\ out \in Verdict
      /\ UNCHANGED <<mpc, conn, acks, loops, queues>>
  BY DEF Post, CInv, TypeOK, SenderTypeOK, Item, main
<1>2. IsAt(s, "sender") /\ \A r \in Request : IsAt(r, "sender") <=> r = s
  BY <1>1 DEF IsAt
<1>3. \A r \in Request : IsAt(r, "sender")' <=> IsAt(r, "sender") /\ r # s
  BY <1>1, <1>2 DEF IsAt
<1>4. CASE posts' = Append(posts, [req |-> s, by |-> out]) /\ UNCHANGED undelivered
  <2>1. /\ DOMAIN posts' = 1 .. Len(posts) + 1
        /\ DOMAIN posts = 1 .. Len(posts) /\ Len(posts) \in Nat
        /\ \A i \in 1 .. Len(posts) : posts'[i] = posts[i]
        /\ posts'[Len(posts) + 1].req = s
    <3>1. [req |-> s, by |-> out] \in [req : Request, by : Verdict]
      BY <1>1
    <3>2. posts \in Seq([req : Request, by : Verdict])
      BY DEF CInv, TypeOK, SenderTypeOK
    <3>3. QED
      BY <1>4, <3>1, <3>2, AppendAt
  <2>2. \A r \in Request : IsAt(r, "posted")' <=> IsAt(r, "posted") \/ r = s
    BY <2>1 DEF IsAt
  <2>3. \A r \in Request, p \in Place \ {"sender", "posted"} : IsAt(r, p)' <=> IsAt(r, p)
    BY <1>1, <1>4 DEF IsAt, Place, Judging, loops, queues
  <2>. Moved(s, "sender", "posted")
    BY <1>1, <1>2, <1>3, <2>2, <2>3 DEF Moved, Place
  <2>4. Conserved'
    BY <1>1, Move DEF CInv, NothingTwice, Conserved, Accepted
  <2>5. ~IsAt(s, "posted")
    BY <1>1, <1>2 DEF CInv, NothingTwice, InOnePlace, Places, Place
  <2>6. \A i \in DOMAIN posts : posts[i].req # s
    BY <2>5 DEF IsAt
  <2>7. \A i, j \in DOMAIN posts' : posts'[i].req = posts'[j].req => i = j
    BY <2>1, <2>6 DEF CInv, NothingTwice, OnceThere
  <2>8. OnceThere'
    BY <1>1, <2>7 DEF CInv, NothingTwice, OnceThere, Judging, loops, queues
  <2>9. QED
    BY <2>4, <2>8
<1>5. CASE undelivered' = undelivered \cup {s} /\ UNCHANGED posts
  <2>1. \A r \in Request : IsAt(r, "undelivered")' <=> IsAt(r, "undelivered") \/ r = s
    BY <1>5 DEF IsAt
  <2>2. \A r \in Request, p \in Place \ {"sender", "undelivered"} : IsAt(r, p)' <=> IsAt(r, p)
    BY <1>1, <1>5 DEF IsAt, Place, Judging, loops, queues
  <2>. Moved(s, "sender", "undelivered")
    BY <1>1, <1>2, <1>3, <2>1, <2>2 DEF Moved, Place
  <2>3. Conserved'
    BY <1>1, Move DEF CInv, NothingTwice, Conserved, Accepted
  <2>4. OnceThere'
    BY <1>1, <1>5 DEF CInv, NothingTwice, OnceThere, Judging, loops, queues
  <2>5. QED
    BY <2>3, <2>4
<1>6. QED
  BY <1>4, <1>5 DEF Post

-----------------------------------------------------------------------------
(* The steps that move nothing *)

Quiet == /\ Accepted' = Accepted
         /\ \A r \in Request, p \in Place : IsAt(r, p)' <=> IsAt(r, p)
         /\ OnceThere'

LEMMA QuietKeeps ==
  ASSUME CInv, Quiet
  PROVE  Conserved' /\ OnceThere'
BY Stay DEF Quiet, CInv, NothingTwice, Conserved

\* Nothing moves as long as the queues, the sender's hand, the reports and
\* what the workers judge stay as they are, and the main thread holds nothing.
LEMMA QuietWhen ==
  ASSUME CInv, UNCHANGED <<queues, posts, undelivered, acks>>,
         UNCHANGED <<mpc, conn>> \/ (mpc # "push" /\ mpc' # "push"),
         \/ UNCHANGED <<spc, item>>
         \/ UNCHANGED item /\ (spc \in {"read", "post"} <=> spc' \in {"read", "post"}),
         \A w \in Worker : /\ Judging(w)' <=> Judging(w)
                           /\ Judging(w) => cur'[Thread(w)] = cur[Thread(w)]
  PROVE  Quiet
<1>1. \A r \in Request : IsAt(r, "sender")' <=> IsAt(r, "sender")
  BY DEF IsAt
<1>2. \A r \in Request, p \in Place : IsAt(r, p)' <=> IsAt(r, p)
  BY <1>1, Frame, WorkerFrame DEF Place, queues
<1>3. OnceThere'
  BY DEF CInv, NothingTwice, OnceThere, queues
<1>4. QED
  BY <1>2, <1>3 DEF Quiet, Accepted

LEMMA MainQuiet ==
  ASSUME CInv,
         \/ MainTest \/ Password \/ (ReadRequest /\ HangUp)
         \/ SigtermInMain \/ ReplyToGonePeer \/ StackOverflows \/ Kill
  PROVE  Quiet
<1>1. UNCHANGED <<loops, sender, queues, acks>>
  BY DEF MainTest, Password, ReadRequest, HangUp, SigtermInMain,
         ReplyToGonePeer, StackOverflows, Kill, main
<1>2. UNCHANGED <<mpc, conn>> \/ (mpc # "push" /\ mpc' # "push")
  BY DEF MainTest, Password, ReadRequest, HangUp, SigtermInMain,
         ReplyToGonePeer, StackOverflows, Kill, main
<1>3. QED
  BY <1>1, <1>2, QuietWhen DEF loops, sender, Judging

LEMMA AcceptQuiet ==
  ASSUME CInv, NEW r \in Request, Accept(r)
  PROVE  Quiet
BY QuietWhen DEF Accept, loops, sender, Judging

LEMMA SenderQuiet ==
  ASSUME CInv, SendTest \/ ReadResult \/ CurlInitFails
  PROVE  Quiet
BY QuietWhen DEF SendTest, ReadResult, CurlInitFails, main, loops, Judging

LEMMA JobQuiet ==
  ASSUME CInv, NEW j \in Job, JobStep(j) \/ Stop(j) \/ Continue(j)
  PROVE  Quiet
<1>1. UNCHANGED <<life, main, loops, sender, queues>>
  BY DEF JobStep, OpenResult, WriteResult, Exit, Stop, Continue, Advance
<1>2. QED
  BY <1>1, QuietWhen DEF main, loops, sender, Judging

\* A loop that goes on without a submission, or forks for the one it has.
LEMMA LoopQuiet ==
  ASSUME CInv, NEW l \in Loop, LoopTest(l) \/ Spawn(l)
  PROVE  Quiet
<1>1. UNCHANGED <<main, sender, queues, cur>>
  BY DEF LoopTest, Spawn, Fork
<1>2. \A w \in Worker : Judging(w)' <=> Judging(w)
  BY Names DEF LoopTest, Spawn, Fork, Judging, CInv, TypeOK, LoopTypeOK
<1>3. QED
  BY <1>1, <1>2, QuietWhen DEF main, sender

\* What a clone does moves nothing.
LEMMA CloneQuiet ==
  ASSUME CInv, NEW w \in Worker,
         \/ TakeCopy(w) \/ ExecFails(w) \/ ExecFailsAgain(w)
         \/ Reap(Clone(w)) \/ ForkFails(Clone(w))
  PROVE  Quiet
<1>1. UNCHANGED <<main, sender, queues>>
  BY Names DEF TakeCopy, ExecFails, ExecFailsAgain, Reap, ForkFails, Push, queues
<1>2. \A v \in Worker : cur'[Thread(v)] = cur[Thread(v)]
  BY Names DEF TakeCopy, ExecFails, Fork, ExecFailsAgain, Reap, ForkFails, Return,
               CInv, TypeOK, LoopTypeOK
<1>3. \A v \in Worker : Judging(v)' <=> Judging(v)
  <2>1. CASE ExecFails(w)
    <3>1. PICK s \in {"test", "done", "wedged"} :
            pc' = [pc EXCEPT ![Thread(w)] = "wait", ![Clone(w)] = s]
      BY <2>1 DEF ExecFails
    <3>2. pc[Thread(w)] = "fork"
      BY <2>1 DEF ExecFails, Fork
    <3>3. QED
      BY <3>1, <3>2, Names DEF Judging, CInv, TypeOK, LoopTypeOK
  <2>2. CASE TakeCopy(w) \/ ExecFailsAgain(w) \/ Reap(Clone(w)) \/ ForkFails(Clone(w))
    BY <2>2, Names DEF TakeCopy, ExecFailsAgain, Reap, ForkFails, Return, Judging,
                       CInv, TypeOK, LoopTypeOK
  <2>3. QED
    BY <2>1, <2>2
<1>4. QED
  BY <1>1, <1>2, <1>3, QuietWhen DEF main, sender

-----------------------------------------------------------------------------
(* Every step *)

\* A worker's round ends in one of three ways.
EndsRound(w, code) ==
  \/ Reap(Thread(w)) /\ code = CodeFor(status[JobOf(Thread(w))])
  \/ ForkFails(Thread(w)) /\ code = EXIT_FORK_ERROR
  \/ SigtermInWorker(w) /\ code = CodeFor(<<"exited", 0>>)

LEMMA RoundEnds ==
  ASSUME CInv, NEW w \in Worker,
         Reap(Thread(w)) \/ ForkFails(Thread(w)) \/ SigtermInWorker(w)
  PROVE  \E code \in Code : Finishes(w, code) /\ EndsRound(w, code)
<1>1. Judging(w) /\ Return(Thread(w)) /\ UNCHANGED <<main, sender, ProcessQueue>>
  BY DEF Reap, ForkFails, SigtermInWorker, Judging
<1>2. PICK code \in Code : Push(Thread(w), code) /\ EndsRound(w, code)
  <2>1. CASE Reap(Thread(w))
    <3>1. JobOf(Thread(w)) \in Job
      BY <2>1, Names, JobNamed DEF Reap, CInv, TypeOK
    <3>2. CodeFor(status[JobOf(Thread(w))]) \in Code
      BY <3>1, CodeForType DEF CInv, TypeOK, JobTypeOK, Living
    <3>3. QED
      BY <2>1, <3>2 DEF Reap, EndsRound
  <2>2. CASE ForkFails(Thread(w))
    BY <2>2 DEF ForkFails, Code, EndsRound
  <2>3. CASE SigtermInWorker(w)
    <3>1. CodeFor(<<"exited", 0>>) \in Code
      BY CodeForType DEF Status, Stopped, Ended, EXIT_OK
    <3>2. QED
      BY <2>3, <3>1 DEF SigtermInWorker, EndsRound
  <2>4. QED
    BY <2>1, <2>2, <2>3
<1>3. QED
  BY <1>1, <1>2 DEF Finishes

\* What a step can be, as far as the submissions are concerned.
StepKind ==
  \/ Quiet /\ UNCHANGED <<queues, posts, acks, item>>
  \/ Acknowledges
  \/ PushRequest
  \/ \E w \in Worker :
       \/ Take(w)
       \/ \E code \in Code : Finishes(w, code) /\ EndsRound(w, code)
  \/ SendTake
  \/ Post

LEMMA StepKinds == CInv /\ [Next]_vars => StepKind
<1> SUFFICES ASSUME CInv, [Next]_vars PROVE StepKind
  OBVIOUS
<1>1. CASE MainTest \/ Password \/ SigtermInMain \/ ReplyToGonePeer \/ StackOverflows \/ Kill
  <2>1. UNCHANGED <<queues, posts, acks, item>>
    BY <1>1 DEF MainTest, Password, SigtermInMain, ReplyToGonePeer, StackOverflows,
        Kill, HangUp,
                main, sender
  <2>2. QED
    BY <1>1, <2>1, MainQuiet DEF StepKind
<1>2. CASE ReadRequest
  <2>1. CASE HangUp
    <3>1. Quiet
      BY <1>2, <2>1, MainQuiet
    <3>2. UNCHANGED <<queues, posts, acks, item>>
      BY <1>2, <2>1 DEF ReadRequest, HangUp, sender
    <3>3. QED
      BY <3>1, <3>2 DEF StepKind
  <2>2. CASE mpc' = "push" /\ acks' = Append(acks, conn) /\ UNCHANGED conn
    BY <1>2, <2>2 DEF StepKind, Acknowledges
  <2>3. QED
    BY <1>2, <2>1, <2>2 DEF ReadRequest
<1>3. ASSUME NEW l \in Loop, LoopStep(l) \/ ForkFails(l)
      PROVE  StepKind
  <2>1. CASE LoopTest(l) \/ Spawn(l)
    <3>1. UNCHANGED <<queues, posts, acks, item>>
      BY <2>1 DEF LoopTest, Spawn, main, sender
    <3>2. QED
      BY <2>1, <3>1, LoopQuiet DEF StepKind
  <2>2. ASSUME NEW w \in Worker, l = Clone(w), Reap(l) \/ ForkFails(l)
        PROVE  StepKind
    <3>1. UNCHANGED <<queues, posts, acks, item>>
      BY <2>2, Names DEF Reap, ForkFails, Push, main, sender, queues
    <3>2. QED
      BY <2>2, <3>1, CloneQuiet DEF StepKind
  <2>3. ASSUME NEW w \in Worker, l = Thread(w), Reap(l) \/ ForkFails(l)
        PROVE  StepKind
    BY <2>3, RoundEnds DEF StepKind
  <2>4. \E w \in Worker : l = Thread(w) \/ l = Clone(w)
    BY DEF Loop, Thread, Clone
  <2>5. QED
    BY <1>3, <2>1, <2>2, <2>3, <2>4 DEF LoopStep
<1>4. ASSUME NEW w \in Worker,
             \/ Take(w) \/ TakeCopy(w) \/ ExecFails(w) \/ ExecFailsAgain(w)
             \/ SigtermInWorker(w)
      PROVE  StepKind
  <2>1. CASE Take(w) \/ SigtermInWorker(w)
    BY <2>1, RoundEnds DEF StepKind
  <2>2. CASE TakeCopy(w) \/ ExecFails(w) \/ ExecFailsAgain(w)
    <3>1. UNCHANGED <<queues, posts, acks, item>>
      BY <2>2 DEF TakeCopy, ExecFails, ExecFailsAgain, main, sender
    <3>2. QED
      BY <2>2, <3>1, CloneQuiet DEF StepKind
  <2>3. QED
    BY <1>4, <2>1, <2>2
<1>5. ASSUME NEW j \in Job, JobStep(j) \/ Stop(j) \/ Continue(j)
      PROVE  StepKind
  <2>1. UNCHANGED <<queues, posts, acks, item>>
    BY <1>5 DEF JobStep, OpenResult, WriteResult, Exit, Stop, Continue, Advance,
                main, sender
  <2>2. QED
    BY <1>5, <2>1, JobQuiet DEF StepKind
<1>6. CASE SenderStep \/ CurlInitFails
  <2>1. CASE SendTest \/ ReadResult \/ CurlInitFails
    <3>1. UNCHANGED <<queues, posts, acks, item>>
      BY <2>1 DEF SendTest, ReadResult, CurlInitFails, main
    <3>2. QED
      BY <2>1, <3>1, SenderQuiet DEF StepKind
  <2>2. QED
    BY <1>6, <2>1 DEF SenderStep, StepKind
<1>7. ASSUME NEW r \in Request, Accept(r)
      PROVE  StepKind
  <2>1. UNCHANGED <<queues, posts, acks, item>>
    BY <1>7 DEF Accept, sender
  <2>2. QED
    BY <1>7, <2>1, AcceptQuiet DEF StepKind
<1>8. CASE UNCHANGED vars
  <2>1. UNCHANGED <<main, loops, sender, queues>>
    BY <1>8 DEF vars
  <2>2. Quiet
    BY <2>1, QuietWhen DEF main, loops, sender, Judging
  <2>3. QED
    BY <2>1, <2>2 DEF StepKind, main, sender
<1>9. QED
  BY <1>1, <1>2, <1>3, <1>4, <1>5, <1>6, <1>7, <1>8 DEF Next, StepKind

LEMMA NextCInv == CInv /\ [Next]_vars => CInv'
<1> SUFFICES ASSUME CInv, [Next]_vars PROVE CInv'
  OBVIOUS
<1>1. TypeOK'
  BY TypeKept DEF CInv
<1>2. AckInv'
  BY AckInvKept
<1>3. Conserved' /\ OnceThere'
  BY StepKinds, QuietKeeps, Acknowledge, Enqueue, Dispatch, HandOver, Collect, Deliver
  DEF StepKind
<1>4. QED
  BY <1>1, <1>2, <1>3 DEF CInv, Conserved, NothingTwice

LEMMA Conservation == Spec => []CInv
BY InitCInv, NextCInv, PTL DEF Spec

\* No acknowledged submission disappears inside the daemon and none appears
\* that was not acknowledged, whatever faults happen.
THEOREM ConservedByTheDaemon == Spec => []NothingLost
<1>1. CInv => NothingLost
  BY DEF CInv
<1>2. QED
  BY Conservation, <1>1, PTL

\* No submission is in two places, or twice in one: none is judged twice by
\* the daemon's threads or reported twice.
THEOREM HandledOnce == Spec => []NothingTwice
<1>1. CInv => NothingTwice
  BY DEF CInv
<1>2. QED
  BY Conservation, <1>1, PTL

-----------------------------------------------------------------------------
(* The way through the daemon.  A step that moves a submission moves that   *)
(* one alone, by one place, because it was nowhere else.                   *)

OnItsWay(r) ==
  \/ Places(r)' = Places(r)
  \/ Places(r) = {} /\ Places(r)' = {"main"}
  \/ \E move \in NextPlace : Places(r) = {move[1]} /\ Places(r)' = {move[2]}

LEMMA MovesOn ==
  ASSUME Conserved, NEW s, NEW a, NEW b, Moved(s, a, b), <<a, b>> \in NextPlace,
         NEW r \in Request
  PROVE  OnItsWay(r)
<1> USE DEF Moved
<1>1. CASE r = s
  <2>1. Places(s) = {a}
    BY DEF Conserved, InOnePlace, Places
  <2>2. Places(s)' = {b}
    BY <2>1 DEF Places
  <2>3. QED
    BY <1>1, <2>1, <2>2 DEF OnItsWay
<1>2. CASE r # s
  <2>1. Places(r)' = Places(r)
    BY <1>2 DEF Places
  <2>2. QED
    BY <2>1 DEF OnItsWay
<1>3. QED
  BY <1>1, <1>2

LEMMA StepGoesOn == CInv /\ [Next]_vars => \A r \in Request : OnItsWay(r)
<1> SUFFICES ASSUME CInv, [Next]_vars, NEW r \in Request
             PROVE  OnItsWay(r)
  OBVIOUS
<1>1. Conserved
  BY DEF CInv, NothingTwice, Conserved
<1>2. CASE Quiet
  <2>1. Places(r)' = Places(r)
    BY <1>2 DEF Quiet, Places
  <2>2. QED
    BY <2>1 DEF OnItsWay
<1>3. CASE Acknowledges
  <2>1. /\ conn \in Request /\ conn \notin Accepted
        /\ \A q \in Request, p \in Place :
             IsAt(q, p)' <=> IsAt(q, p) \/ (q = conn /\ p = "main")
    BY <1>3, Acknowledge
  <2>2. Places(conn) = {}
    BY <1>1, <2>1 DEF Conserved, NothingLost
  <2>3. r = conn => Places(r)' = {"main"}
    BY <2>1, <2>2 DEF Places, Place
  <2>4. r # conn => Places(r)' = Places(r)
    BY <2>1 DEF Places
  <2>5. QED
    BY <2>2, <2>3, <2>4 DEF OnItsWay
<1>4. CASE PushRequest
  BY <1>1, <1>4, Enqueue, MovesOn DEF NextPlace
<1>5. ASSUME NEW w \in Worker, Take(w)
      PROVE  OnItsWay(r)
  BY <1>1, <1>5, Dispatch, MovesOn DEF NextPlace
<1>6. ASSUME NEW w \in Worker, NEW code \in Code, Finishes(w, code)
      PROVE  OnItsWay(r)
  BY <1>1, <1>6, HandOver, MovesOn DEF NextPlace
<1>7. CASE SendTake
  BY <1>1, <1>7, Collect, MovesOn DEF NextPlace
<1>8. CASE Post
  <2>1. <<"sender", "posted">> \in NextPlace /\ <<"sender", "undelivered">> \in NextPlace
    BY DEF NextPlace
  <2>2. QED
    BY <1>1, <1>8, <2>1, Deliver, MovesOn
<1>9. QED
  BY <1>2, <1>3, <1>4, <1>5, <1>6, <1>7, <1>8, StepKinds DEF StepKind

\* A submission goes through the daemon one place at a time and never back,
\* whatever fails: nothing is requeued, retried or taken back.
THEOREM GoesOnward == Spec => OnwardOnly
<1>1. CInv /\ [Next]_vars =>
        [\A r \in Request :
           \/ Places(r)' = Places(r)
           \/ Places(r) = {} /\ Places(r)' = {"main"}
           \/ \E move \in NextPlace :
                Places(r) = {move[1]} /\ Places(r)' = {move[2]}]_vars
  BY StepGoesOn DEF OnItsWay
<1>2. QED
  BY <1>1, Conservation, PTL DEF Spec, OnwardOnly

-----------------------------------------------------------------------------
(* The order of judging: Waiting is the end of acks.  A step either leaves  *)
(* both as they are, or appends the same submission to both, or takes the  *)
(* first away from Waiting.                                                *)

Waits == Waiting \in Seq(Request) /\ acks \in Seq(Request) /\ FirstComeFirstJudged

LEMMA WaitingType == TypeOK => Waiting \in Seq(Request)
<1> SUFFICES ASSUME TypeOK PROVE Waiting \in Seq(Request)
  OBVIOUS
<1>1. CASE mpc = "push"
  <2>1. conn \in Request /\ ProcessQueue \in Seq(Request)
    BY <1>1 DEF TypeOK, MainTypeOK, QueueTypeOK
  <2>2. QED
    BY <1>1, <2>1, AppendType DEF Waiting
<1>2. CASE mpc # "push"
  BY <1>2 DEF Waiting, TypeOK, QueueTypeOK
<1>3. QED
  BY <1>1, <1>2

LEMMA OrderOnAck ==
  ASSUME Waits, NEW s \in Request, Waiting' = Append(Waiting, s), acks' = Append(acks, s)
  PROVE  FirstComeFirstJudged'
<1>1. /\ Len(Waiting') = Len(Waiting) + 1 /\ Len(acks') = Len(acks) + 1
      /\ Len(Waiting) \in Nat /\ Len(acks) \in Nat
      /\ \A i \in 1 .. Len(Waiting) : Waiting'[i] = Waiting[i]
      /\ \A i \in 1 .. Len(acks) : acks'[i] = acks[i]
      /\ Waiting'[Len(Waiting) + 1] = s /\ acks'[Len(acks) + 1] = s
  BY DEF Waits
<1>2. ASSUME NEW i \in 1 .. Len(Waiting')
      PROVE  Waiting'[i] = acks'[Len(acks') - Len(Waiting') + i]
  <2>1. CASE i = Len(Waiting) + 1
    BY <1>1, <2>1
  <2>2. CASE i \in 1 .. Len(Waiting)
    <3>1. /\ Len(acks') - Len(Waiting') + i = Len(acks) - Len(Waiting) + i
          /\ Len(acks) - Len(Waiting) + i \in 1 .. Len(acks)
      BY <1>1, <2>2 DEF Waits, FirstComeFirstJudged
    <3>2. QED
      BY <1>1, <2>2, <3>1 DEF Waits, FirstComeFirstJudged
  <2>3. i = Len(Waiting) + 1 \/ i \in 1 .. Len(Waiting)
    BY <1>1
  <2>4. QED
    BY <2>1, <2>2, <2>3
<1>3. Len(Waiting') <= Len(acks')
  BY <1>1 DEF Waits, FirstComeFirstJudged
<1>4. QED
  BY <1>2, <1>3 DEF FirstComeFirstJudged

LEMMA OrderOnTake ==
  ASSUME Waits, Waiting # <<>>, Waiting' = Tail(Waiting), acks' = acks
  PROVE  FirstComeFirstJudged'
<1>1. /\ Len(Waiting') = Len(Waiting) - 1
      /\ Len(Waiting) \in Nat \ {0} /\ Len(acks) \in Nat
      /\ \A i \in 1 .. Len(Waiting) - 1 : Waiting'[i] = Waiting[i + 1]
  BY DEF Waits
<1>2. ASSUME NEW i \in 1 .. Len(Waiting')
      PROVE  Waiting'[i] = acks'[Len(acks') - Len(Waiting') + i]
  <2>1. /\ i + 1 \in 1 .. Len(Waiting)
        /\ Len(acks) - Len(Waiting') + i = Len(acks) - Len(Waiting) + (i + 1)
        /\ Waiting'[i] = Waiting[i + 1]
    BY <1>1
  <2>2. Waiting[i + 1] = acks[Len(acks) - Len(Waiting) + (i + 1)]
    BY <2>1 DEF Waits, FirstComeFirstJudged
  <2>3. QED
    BY <2>1, <2>2
<1>3. Len(Waiting') <= Len(acks')
  BY <1>1 DEF Waits, FirstComeFirstJudged
<1>4. QED
  BY <1>2, <1>3 DEF FirstComeFirstJudged

LEMMA TakeFromWaiting ==
  ASSUME TypeOK, NEW w \in Worker, Take(w)
  PROVE  Waiting # <<>> /\ Waiting' = Tail(Waiting)
<1>1. /\ ProcessQueue \in Seq(Request) /\ ProcessQueue # <<>>
      /\ ProcessQueue' = Tail(ProcessQueue) /\ UNCHANGED <<mpc, conn>>
  BY DEF TypeOK, QueueTypeOK, Take, main
<1>2. CASE mpc = "push"
  <2>1. conn \in Request
    BY <1>2 DEF TypeOK, MainTypeOK
  <2>2. /\ Append(ProcessQueue, conn) # <<>>
        /\ Tail(Append(ProcessQueue, conn)) = Append(Tail(ProcessQueue), conn)
    BY <1>1, <2>1
  <2>3. QED
    BY <1>1, <1>2, <2>2 DEF Waiting
<1>3. CASE mpc # "push"
  BY <1>1, <1>3 DEF Waiting
<1>4. QED
  BY <1>2, <1>3

LEMMA OrderKept ==
  TypeOK /\ FirstComeFirstJudged /\ [Next]_vars => FirstComeFirstJudged'
<1> SUFFICES ASSUME TypeOK, FirstComeFirstJudged, [Next]_vars
             PROVE  FirstComeFirstJudged'
  OBVIOUS
<1>1. Waits
  BY WaitingType DEF Waits, TypeOK, MainTypeOK
<1>2. CASE UNCHANGED <<Waiting, acks>>
  BY <1>2 DEF FirstComeFirstJudged
<1>3. CASE UNCHANGED <<ProcessQueue, acks, mpc, conn>>
  BY <1>2, <1>3 DEF Waiting
<1>4. CASE UNCHANGED <<ProcessQueue, acks>> /\ mpc # "push" /\ mpc' # "push"
  BY <1>2, <1>4 DEF Waiting
<1>5. CASE MainTest \/ Password \/ SigtermInMain
  BY <1>3, <1>4, <1>5 DEF MainTest, Password, SigtermInMain, HangUp, main, queues
<1>6. ASSUME NEW r \in Request, Accept(r) PROVE FirstComeFirstJudged'
  BY <1>4, <1>6 DEF Accept, queues
<1>7. CASE ReadRequest
  <2>1. CASE HangUp
    BY <1>4, <1>7, <2>1 DEF ReadRequest, HangUp, queues
  <2>2. CASE mpc' = "push" /\ acks' = Append(acks, conn) /\ UNCHANGED <<conn, served>>
    <3>1. conn \in Request /\ Waiting' = Append(Waiting, conn)
      BY <1>7, <2>2 DEF ReadRequest, Waiting, queues, TypeOK, MainTypeOK
    <3>2. QED
      BY <1>1, <2>2, <3>1, OrderOnAck
  <2>3. QED
    BY <1>7, <2>1, <2>2 DEF ReadRequest
<1>8. CASE PushRequest
  BY <1>2, <1>8 DEF PushRequest, Waiting
<1>9. ASSUME NEW w \in Worker, Take(w) PROVE FirstComeFirstJudged'
  <2>1. acks' = acks
    BY <1>9 DEF Take, main
  <2>2. QED
    BY <1>1, <1>9, <2>1, TakeFromWaiting, OrderOnTake
<1>10. CASE \/ \E l \in Loop : LoopStep(l) \/ ForkFails(l)
            \/ \E w \in Worker : \/ TakeCopy(w) \/ ExecFails(w)
                                 \/ ExecFailsAgain(w) \/ SigtermInWorker(w)
            \/ \E j \in Job : JobStep(j) \/ Stop(j) \/ Continue(j)
            \/ SenderStep \/ CurlInitFails \/ ReplyToGonePeer \/ StackOverflows \/ Kill
            \/ UNCHANGED vars
  <2>1. UNCHANGED <<ProcessQueue, main>>
    BY <1>10 DEF LoopStep, LoopTest, Spawn, Reap, ForkFails, TakeCopy,
      ExecFails, ExecFailsAgain, SigtermInWorker, JobStep, OpenResult,
      WriteResult, Exit, Stop, Continue, Advance, SenderStep, SendTest,
      SendTake, ReadResult, Post, CurlInitFails, ReplyToGonePeer, StackOverflows, Kill, vars, queues
  <2>2. QED
    BY <1>3, <2>1 DEF main
<1>11. QED
  BY <1>5, <1>6, <1>7, <1>8, <1>9, <1>10 DEF Next

\* Submissions are judged in the order of their acknowledgements.
THEOREM OrderOfAcknowledgement == Spec => []FirstComeFirstJudged
<1>1. Init => FirstComeFirstJudged
  BY DEF Init, FirstComeFirstJudged, Waiting
<1>2. QED
  BY <1>1, OrderKept, TypeCorrect, PTL DEF Spec

-----------------------------------------------------------------------------
(* After SIGTERM.  A worker that has started one submission since will not *)
(* take another: its next test of isRunning ends it.                       *)

LateInv ==
  /\ \A i, j \in late : i[1] = j[1] => i = j
  /\ \A j \in late : /\ ~isRunning
                     /\ IsThread(j[1])
                     /\ pc[j[1]] \in {"wait", "test", "done"}

LEMMA LateForks ==
  ASSUME TypeOK, LateInv, NEW l \in Loop, Fork(l), UNCHANGED isRunning,
         pc'[l] = "wait", \A k \in Loop \ {l} : IsThread(k) => pc'[k] = pc[k]
  PROVE  LateInv'
<1>1. pc[l] = "fork" /\ JobOf(l)[1] = l
  BY DEF Fork, JobOf
<1>2. \A j \in late : j[1] \in Loop
  BY DEF TypeOK, LoopTypeOK, Job
<1>3. \A j \in late : j[1] # l
  BY <1>1 DEF LateInv
<1>4. QED
  BY <1>1, <1>2, <1>3 DEF Fork, LateInv

\* A loop that does not fork: its pc may change only as a late worker's does.
LEMMA LateStays ==
  ASSUME TypeOK, LateInv, UNCHANGED late, isRunning' => isRunning,
         \A l \in Loop : pc'[l] # pc[l] /\ IsThread(l) /\ ~isRunning =>
           pc[l] \notin {"wait", "test", "done"} \/ pc'[l] \in {"test", "done"}
  PROVE  LateInv'
<1>1. \A j \in late : j[1] \in Loop
  BY DEF TypeOK, LoopTypeOK, Job
<1>2. QED
  BY <1>1 DEF LateInv

LEMMA LateKept == TypeOK /\ LateInv /\ [Next]_vars => LateInv'
<1> SUFFICES ASSUME TypeOK, LateInv, [Next]_vars PROVE LateInv'
  OBVIOUS
<1>1. CASE UNCHANGED loops /\ (isRunning' => isRunning)
  BY <1>1, LateStays DEF loops
<1>2. ASSUME NEW l \in Loop, Return(l), UNCHANGED late, isRunning' => isRunning
      PROVE  LateInv'
  BY <1>2, LateStays DEF Return, TypeOK, LoopTypeOK
<1>3. ASSUME NEW l \in Loop, LoopStep(l) \/ ForkFails(l)
      PROVE  LateInv'
  <2>1. CASE LoopTest(l)
    BY <2>1, LateStays DEF LoopTest, TypeOK, LoopTypeOK, life
  <2>2. CASE Spawn(l)
    BY <2>2, LateForks DEF Spawn, TypeOK, LoopTypeOK, life
  <2>3. CASE Reap(l) \/ ForkFails(l)
    BY <1>2, <2>3 DEF Reap, ForkFails, life
  <2>4. QED
    BY <1>3, <2>1, <2>2, <2>3 DEF LoopStep
<1>4. ASSUME NEW w \in Worker,
             \/ Take(w) \/ TakeCopy(w) \/ ExecFails(w) \/ ExecFailsAgain(w)
             \/ SigtermInWorker(w)
      PROVE  LateInv'
  <2> USE Names
  <2>1. CASE Take(w)
    BY <2>1, LateStays DEF Take, TypeOK, LoopTypeOK, life
  <2>2. CASE TakeCopy(w)
    BY <2>2, LateStays DEF TakeCopy, TypeOK, LoopTypeOK, life
  <2>3. CASE ExecFails(w)
    <3>1. PICK s \in {"test", "done", "wedged"} :
            pc' = [pc EXCEPT ![Thread(w)] = "wait", ![Clone(w)] = s]
      BY <2>3 DEF ExecFails
    <3>2. /\ pc'[Thread(w)] = "wait"
          /\ \A k \in Loop \ {Thread(w)} : IsThread(k) => pc'[k] = pc[k]
      BY <3>1 DEF TypeOK, LoopTypeOK
    <3>3. Fork(Thread(w)) /\ UNCHANGED isRunning
      BY <2>3 DEF ExecFails, life
    <3>4. QED
      BY <3>2, <3>3, LateForks
  <2>4. CASE ExecFailsAgain(w)
    BY <1>2, <2>4 DEF ExecFailsAgain, life
  <2>5. CASE SigtermInWorker(w)
    BY <1>2, <2>5 DEF SigtermInWorker, Sigterm
  <2>6. QED
    BY <1>4, <2>1, <2>2, <2>3, <2>4, <2>5
<1>5. CASE \/ MainTest \/ Password \/ ReadRequest \/ PushRequest
           \/ \E r \in Request : Accept(r)
           \/ \E j \in Job : JobStep(j) \/ Stop(j) \/ Continue(j)
           \/ SenderStep \/ CurlInitFails \/ SigtermInMain \/ ReplyToGonePeer \/ StackOverflows
           \/ Kill \/ UNCHANGED vars
  <2>1. UNCHANGED loops /\ (isRunning' => isRunning)
    BY <1>5 DEF MainTest, Password, ReadRequest, PushRequest, Accept, JobStep,
      OpenResult, WriteResult, Exit, Stop, Continue, Advance, SenderStep,
      SendTest, SendTake, ReadResult, Post, CurlInitFails, SigtermInMain,
      Sigterm, ReplyToGonePeer, StackOverflows, Kill, life, vars
  <2>2. QED
    BY <1>1, <2>1
<1>6. QED
  BY <1>3, <1>4, <1>5 DEF Next

\* A set with at most one element.
LEMMA AtMostOne ==
  ASSUME NEW S, \A x, y \in S : x = y
  PROVE  Cardinality(S) <= 1
<1>1. CASE S = {}
  BY <1>1, FS_EmptySet
<1>2. CASE \E x : S = {x}
  BY <1>2, FS_Singleton
<1>3. QED
  BY <1>1, <1>2

\* Once SIGTERM is handled each worker starts one more submission at most.
THEOREM OneMoreJob == Spec => []OneMoreJobAfterSigterm
<1>1. Init => LateInv
  BY DEF Init, LateInv
<1>2. LateInv => OneMoreJobAfterSigterm
  <2> SUFFICES ASSUME LateInv, NEW w \in Worker
               PROVE  Cardinality({j \in late : j[1] = Thread(w)}) <= 1
    BY DEF OneMoreJobAfterSigterm
  <2>1. \A i, j \in {k \in late : k[1] = Thread(w)} : i = j
    BY DEF LateInv
  <2>2. QED
    BY <2>1, AtMostOne
<1>3. QED
  BY <1>1, <1>2, LateKept, TypeCorrect, PTL DEF Spec
=============================================================================
