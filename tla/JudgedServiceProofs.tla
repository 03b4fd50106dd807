------------------------ MODULE JudgedServiceProofs ------------------------
(***************************************************************************)
(* Judged implements JudgeService, whatever faults happen.  Only three     *)
(* kinds of steps are seen by the web application: the connection of a     *)
(* submission ends with or without its acknowledgement (Answer), and a     *)
(* verdict is delivered (Report) or lost (Lose).                           *)
(*                                                                         *)
(* The invariant is about result.txt: what a run has left in a directory   *)
(* belongs to an acknowledged submission of that directory.  The clones    *)
(* are covered because their private queues hold what was acknowledged.    *)
(*                                                                         *)
(* And the jobs are JudgeProcesses, no more and no less, so that what is   *)
(* proved of the daemon holds for the powerjudge of JudgeRun.              *)
(***************************************************************************)
EXTENDS JudgedReportProofs

CloneOK ==
  \A w \in Worker :
    /\ cur[Clone(w)] # NoReq => cur[Clone(w)] \in Accepted
    /\ \A i \in DOMAIN copy[w] : copy[w][i] \in Accepted

JobsOK == \A j \in Job : phase[j] # "none" => j[2] \in Accepted

FileOK == \A d \in Dir :
            file[d] \in Request => file[d] \in Accepted /\ WorkDir(file[d]) = d

OutOK == spc = "post" /\ out \in Request
         => out \in Accepted /\ WorkDir(out) = WorkDir(item.req)

RunsOK == CloneOK /\ JobsOK /\ FileOK /\ OutOK

LEMMA StaysAccepted ==
  ASSUME CInv, [Next]_vars, NEW r \in Accepted
  PROVE  r \in Accepted'
<1>1. acks \in Seq(Request) /\ r \in Request
  BY DEF CInv, TypeOK, MainTypeOK, Accepted, Elems
<1>2. CASE Acknowledges
  BY <1>1, <1>2, Acknowledge, AcceptedGrows DEF Acknowledges
<1>3. CASE ~Acknowledges
  <2>1. Quiet \/ UNCHANGED acks
    BY <1>3, StepKinds DEF StepKind, PushRequest, Take, Finishes, SendTake, Post, main
  <2>2. QED
    BY <2>1 DEF Quiet, Accepted
<1>4. QED
  BY <1>2, <1>3

\* What a loop works on has been acknowledged.
LEMMA LoopHolds ==
  ASSUME CInv, CloneOK, NEW l \in Loop, pc[l] \in {"fork", "wait"}
  PROVE  cur[l] \in Accepted /\ JobOf(l) \in Job /\ JobOf(l)[2] = cur[l]
<1>1. cur[l] \in Request /\ JobOf(l) \in Job /\ JobOf(l)[2] = cur[l]
  BY JobNamed DEF CInv, TypeOK, JobOf
<1>2. PICK w \in Worker : l = Thread(w) \/ l = Clone(w)
  BY DEF Loop, Thread, Clone
<1>3. CASE l = Thread(w)
  <2>1. IsAt(cur[l], "worker")
    BY <1>3 DEF IsAt, Judging
  <2>2. QED
    BY <1>1, <2>1 DEF CInv, NothingLost, Places, Place
<1>4. CASE l = Clone(w)
  BY <1>1, <1>4, Names DEF CloneOK
<1>5. QED
  BY <1>2, <1>3, <1>4

LEMMA CloneOKKept == CInv /\ CloneOK /\ [Next]_vars => CloneOK'
<1> SUFFICES ASSUME CInv, CloneOK, [Next]_vars, NEW w \in Worker
             PROVE  /\ cur'[Clone(w)] # NoReq => cur'[Clone(w)] \in Accepted'
                    /\ \A i \in DOMAIN copy'[w] : copy'[w][i] \in Accepted'
  BY DEF CloneOK
<1> USE Names
<1>0. Clone(w) \in Loop /\ copy[w] \in Seq(Request)
  BY DEF CInv, TypeOK, LoopTypeOK
<1>1. \A r \in Accepted : r \in Accepted'
  BY StaysAccepted
<1>2. CASE cur'[Clone(w)] \in {cur[Clone(w)], NoReq} /\ copy'[w] = copy[w]
  BY <1>1, <1>2 DEF CloneOK
<1>3. CASE \E l \in Loop : LoopStep(l) \/ ForkFails(l)
  BY <1>0, <1>2, <1>3 DEF LoopStep, LoopTest, Spawn, Fork, Reap, ForkFails, Return,
                          CInv, TypeOK, LoopTypeOK
<1>4. CASE \E v \in Worker : Take(v)
  BY <1>0, <1>2, <1>4 DEF Take, CInv, TypeOK, LoopTypeOK
<1>5. CASE \E v \in Worker : TakeCopy(v)
  <2>1. PICK v \in Worker : TakeCopy(v)
    BY <1>5
  <2>2. CASE v # w
    <3>1. Clone(v) # Clone(w)
      BY <2>2 DEF Clone
    <3>2. QED
      BY <1>0, <1>2, <2>1, <2>2, <3>1 DEF TakeCopy, CInv, TypeOK, LoopTypeOK
  <2>3. CASE v = w
    <3>1. /\ cur'[Clone(w)] = Head(copy[w]) /\ copy'[w] = Tail(copy[w]) /\ copy[w] # <<>>
      BY <1>0, <2>1, <2>3 DEF TakeCopy, CInv, TypeOK, LoopTypeOK
    <3>2. /\ DOMAIN Tail(copy[w]) = 1 .. Len(copy[w]) - 1
          /\ DOMAIN copy[w] = 1 .. Len(copy[w]) /\ Len(copy[w]) \in Nat \ {0}
          /\ \A i \in 1 .. Len(copy[w]) - 1 : Tail(copy[w])[i] = copy[w][i + 1]
          /\ Head(copy[w]) = copy[w][1]
      BY <1>0, <3>1, TailAt
    <3>3. \A i \in DOMAIN copy[w] : copy[w][i] \in Accepted
      BY DEF CloneOK
    <3>4. QED
      BY <1>1, <3>1, <3>2, <3>3
  <2>4. QED
    BY <2>2, <2>3
<1>6. CASE \E v \in Worker : ExecFails(v)
  <2>1. PICK v \in Worker : ExecFails(v)
    BY <1>6
  <2>2. cur' = cur /\ (copy'[w] = copy[w] \/ copy'[w] = ProcessQueue)
    BY <1>0, <2>1 DEF ExecFails, Fork, CInv, TypeOK, LoopTypeOK
  <2>3. \A i \in DOMAIN ProcessQueue : ProcessQueue[i] \in Accepted
    <3>1. \A i \in DOMAIN ProcessQueue : ProcessQueue[i] \in Request
      BY DEF CInv, TypeOK, QueueTypeOK
    <3>2. \A i \in DOMAIN ProcessQueue : IsAt(ProcessQueue[i], "ProcessQueue")
      BY Zenon DEF IsAt
    <3>3. QED
      BY <3>1, <3>2 DEF CInv, NothingLost, Places, Place
  <2>4. QED
    BY <1>1, <2>2, <2>3 DEF CloneOK
<1>7. CASE \E v \in Worker : ExecFailsAgain(v) \/ SigtermInWorker(v)
  BY <1>0, <1>2, <1>7 DEF ExecFailsAgain, SigtermInWorker, Return, CInv, TypeOK, LoopTypeOK
<1>8. CASE \E i \in Job : JobStep(i) \/ Stop(i) \/ Continue(i)
  BY <1>2, <1>8
  DEF JobStep, OpenResult, WriteResult, Exit, Stop, Continue, Advance, loops
<1>9. CASE \/ MainTest \/ Password \/ ReadRequest \/ PushRequest
           \/ \E s \in Request : Accept(s)
           \/ SenderStep \/ CurlInitFails \/ SigtermInMain \/ ReplyToGonePeer \/ StackOverflows
           \/ Kill \/ UNCHANGED vars
  BY <1>2, <1>9 DEF MainTest, Password, ReadRequest, PushRequest, Accept, SenderStep, loops,
      SendTest, SendTake, ReadResult, Post, CurlInitFails, SigtermInMain,
      ReplyToGonePeer, StackOverflows, Kill, vars
<1>10. QED
  BY <1>3, <1>4, <1>5, <1>6, <1>7, <1>8, <1>9 DEF Next

LEMMA JobsOKKept == CInv /\ CloneOK /\ JobsOK /\ [Next]_vars => JobsOK'
<1> SUFFICES ASSUME CInv, CloneOK, JobsOK, [Next]_vars,
                    NEW j \in Job, phase'[j] # "none"
             PROVE  j[2] \in Accepted'
  BY DEF JobsOK
<1> SUFFICES phase[j] # "none" \/ j[2] \in Accepted
  <2>1. j[2] \in Accepted
    BY DEF JobsOK
  <2>2. QED
    BY <2>1, StaysAccepted
<1> USE Names
<1>1. CASE phase'[j] = phase[j]
  BY <1>1
<1>2. CASE \E l \in Loop : LoopStep(l) \/ ForkFails(l)
  <2>1. PICK l \in Loop : LoopStep(l) \/ ForkFails(l)
    BY <1>2
  <2>2. CASE Spawn(l)
    BY <2>2, LoopHolds DEF Spawn, Fork, CInv, TypeOK, JobTypeOK, Living
  <2>3. QED
    BY <1>1, <2>1, <2>2 DEF LoopStep, LoopTest, Reap, ForkFails, jobs
<1>3. CASE \E v \in Worker : ExecFails(v)
  <2>1. PICK v \in Worker : ExecFails(v)
    BY <1>3
  <2>2. pc[Thread(v)] = "fork" /\ \A k \in Job : phase'[k] # phase[k] => k = JobOf(Thread(v))
    BY <2>1 DEF ExecFails, Fork, CInv, TypeOK, JobTypeOK, Living
  <2>3. QED
    BY <1>1, <2>2, LoopHolds
<1>4. CASE \E v \in Worker : ExecFailsAgain(v)
  <2>1. PICK v \in Worker : ExecFailsAgain(v)
    BY <1>4
  <2>2. pc[Clone(v)] = "fork" /\ \A k \in Job : phase'[k] # phase[k] => k = JobOf(Clone(v))
    BY <2>1 DEF ExecFailsAgain, CInv, TypeOK, JobTypeOK, Living
  <2>3. QED
    BY <1>1, <2>2, LoopHolds
<1>5. CASE \E i \in Job : JobStep(i) \/ Stop(i) \/ Continue(i)
  BY <1>1, <1>5
  DEF JobStep, OpenResult, WriteResult, Exit, Stop, Continue, Advance, CInv, TypeOK,
      JobTypeOK, Living
<1>6. CASE \E v \in Worker : Take(v) \/ TakeCopy(v) \/ SigtermInWorker(v)
  BY <1>1, <1>6 DEF Take, TakeCopy, SigtermInWorker, jobs
<1>7. CASE \/ MainTest \/ Password \/ ReadRequest \/ PushRequest
           \/ \E s \in Request : Accept(s)
           \/ SenderStep \/ CurlInitFails \/ SigtermInMain \/ ReplyToGonePeer \/ StackOverflows
           \/ Kill \/ UNCHANGED vars
  BY <1>1, <1>7 DEF MainTest, Password, ReadRequest, PushRequest, Accept, SenderStep, jobs,
      SendTest, SendTake, ReadResult, Post, CurlInitFails, SigtermInMain,
      ReplyToGonePeer, StackOverflows, Kill, vars
<1>8. QED
  BY <1>2, <1>3, <1>4, <1>5, <1>6, <1>7 DEF Next

LEMMA FileOKKept == CInv /\ JobsOK /\ FileOK /\ [Next]_vars => FileOK'
<1> SUFFICES ASSUME CInv, JobsOK, FileOK, [Next]_vars, NEW d \in Dir, file'[d] \in Request
             PROVE  file'[d] \in Accepted' /\ WorkDir(file'[d]) = d
  BY DEF FileOK
<1>1. \A r \in Accepted : r \in Accepted'
  BY StaysAccepted
<1>2. CASE file'[d] = file[d]
  BY <1>1, <1>2 DEF FileOK
<1>3. CASE \E i \in Job : JobStep(i) \/ Stop(i) \/ Continue(i)
  <2>1. PICK i \in Job : JobStep(i) \/ Stop(i) \/ Continue(i)
    BY <1>3
  <2>2. phase[i] # "none" /\ file'[d] \in {file[d], Empty, i[2]}
        /\ (file'[d] # file[d] => d = WorkDir(i[2]))
    BY <2>1 DEF JobStep, OpenResult, WriteResult, Exit, Stop, Continue, Advance,
                CInv, TypeOK, JobTypeOK, Living
  <2>3. Empty \notin Request
    BY JudgedAssumption DEF NotRequests
  <2>4. QED
    BY <1>1, <1>2, <2>2, <2>3 DEF JobsOK
<1>4. CASE \/ \E l \in Loop : LoopStep(l) \/ ForkFails(l)
           \/ \E v \in Worker : \/ Take(v) \/ TakeCopy(v) \/ ExecFails(v)
                                \/ ExecFailsAgain(v) \/ SigtermInWorker(v)
  BY <1>2, <1>4 DEF LoopStep, LoopTest, Spawn, Reap, ForkFails, Take, TakeCopy, ExecFails,
                    ExecFailsAgain, SigtermInWorker, jobs
<1>5. CASE \/ MainTest \/ Password \/ ReadRequest \/ PushRequest
           \/ \E s \in Request : Accept(s)
           \/ SenderStep \/ CurlInitFails \/ SigtermInMain \/ ReplyToGonePeer \/ StackOverflows
           \/ Kill \/ UNCHANGED vars
  BY <1>2, <1>5 DEF MainTest, Password, ReadRequest, PushRequest, Accept, SenderStep, jobs,
      SendTest, SendTake, ReadResult, Post, CurlInitFails, SigtermInMain,
      ReplyToGonePeer, StackOverflows, Kill, vars
<1>6. QED
  BY <1>3, <1>4, <1>5 DEF Next

LEMMA OutOKKept == CInv /\ FileOK /\ OutOK /\ [Next]_vars => OutOK'
<1> SUFFICES ASSUME CInv, FileOK, OutOK, [Next]_vars, spc' = "post", out' \in Request
             PROVE  out' \in Accepted' /\ WorkDir(out') = WorkDir(item'.req)
  BY DEF OutOK
<1>1. \A r \in Accepted : r \in Accepted'
  BY StaysAccepted
<1>2. CASE UNCHANGED <<spc, item, out>>
  BY <1>1, <1>2 DEF OutOK
<1>3. CASE SenderStep \/ CurlInitFails
  <2>1. SE \notin Request
    BY JudgedAssumption DEF NotRequests
  <2>2. ReadResult /\ out' = file[WorkDir(item.req)] /\ item' = item
    BY <1>3, <2>1 DEF SenderStep, SendTest, SendTake, ReadResult, Post, CurlInitFails
  <2>3. item.req \in Request
    BY <2>2 DEF ReadResult, CInv, TypeOK, SenderTypeOK, Item
  <2>4. QED
    BY <1>1, <2>2, <2>3 DEF FileOK, Dir
<1>4. CASE \/ \E l \in Loop : LoopStep(l) \/ ForkFails(l)
           \/ \E v \in Worker : \/ Take(v) \/ TakeCopy(v) \/ ExecFails(v)
                                \/ ExecFailsAgain(v) \/ SigtermInWorker(v)
           \/ \E i \in Job : JobStep(i) \/ Stop(i) \/ Continue(i)
  BY <1>2, <1>4 DEF LoopStep, LoopTest, Spawn, Reap, ForkFails, Take, TakeCopy, ExecFails,
                    ExecFailsAgain, SigtermInWorker, sender,
                    JobStep, OpenResult, WriteResult, Exit, Stop, Continue, Advance
<1>5. CASE \/ MainTest \/ Password \/ ReadRequest \/ PushRequest
           \/ \E s \in Request : Accept(s)
           \/ SigtermInMain \/ ReplyToGonePeer \/ StackOverflows \/ Kill \/ UNCHANGED vars
  BY <1>2, <1>5 DEF MainTest, Password, ReadRequest, PushRequest, Accept, sender,
      SigtermInMain, ReplyToGonePeer, StackOverflows, Kill, vars
<1>6. QED
  BY <1>3, <1>4, <1>5 DEF Next

LEMMA RunsOKHolds == Spec => [](CInv /\ RunsOK)
<1>1. Init => RunsOK
  <2> SUFFICES ASSUME Init PROVE RunsOK
    OBVIOUS
  <2>1. CloneOK /\ JobsOK
    BY Names DEF Init, CloneOK, JobsOK
  <2>2. FileOK /\ OutOK
    BY JudgedAssumption DEF Init, FileOK, OutOK, NotRequests
  <2>3. QED
    BY <2>1, <2>2 DEF RunsOK
<1>2. CInv /\ RunsOK /\ [Next]_vars => RunsOK'
  BY CloneOKKept, JobsOKKept, FileOKKept, OutOKKept DEF RunsOK
<1>3. QED
  BY <1>1, <1>2, InitCInv, NextCInv, PTL DEF Spec

-----------------------------------------------------------------------------
(* The refinement: what a step does to the abstract state *)

VerdictOf(r) == IF IsAt(r, "posted")
                THEN posts[CHOOSE i \in DOMAIN posts : posts[i].req = r].by
                ELSE NoReq

AbstractStage == [r \in Request |-> StageOf(r)]
AbstractVerdict == [r \in Request |-> VerdictOf(r)]

SameStage(r) == StageOf(r)' = StageOf(r)
SameVerdict(r) == VerdictOf(r)' = VerdictOf(r)

LEMMA Stutter ==
  ASSUME \A r \in Request : SameStage(r) /\ SameVerdict(r)
  PROVE  UNCHANGED Service!vars
BY DEF Service!vars, SameStage, SameVerdict, VerdictOf

LEMMA Enters ==
  ASSUME NEW s \in Request, NEW to, StageOf(s)' = to,
         \A r \in Request \ {s} : SameStage(r)
  PROVE  Service!Enter(s, to)
BY DEF Service!Enter, SameStage

\* A submission that is not accepted has not been reported either.
LEMMA StageIs ==
  ASSUME CInv, NEW r \in Request
  PROVE  /\ r \notin Accepted
            => /\ ~IsAt(r, "posted") /\ r \notin undelivered
               /\ StageOf(r) = IF r \in served /\ conn # r THEN "refused" ELSE "new"
         /\ r \in Accepted => StageOf(r) \in {"accepted", "reported", "undelivered"}
         /\ IsAt(r, "main") \/ IsAt(r, "sender") => StageOf(r) = "accepted" /\ r \in Accepted
<1>1. r \in undelivered <=> IsAt(r, "undelivered")
  BY DEF IsAt
<1>2. IsAt(r, "posted") \/ IsAt(r, "undelivered") => r \in Accepted
  BY DEF CInv, NothingLost, Places, Place
<1>3. IsAt(r, "main") \/ IsAt(r, "sender")
      => ~IsAt(r, "posted") /\ ~IsAt(r, "undelivered") /\ r \in Accepted
  BY DEF CInv, NothingLost, NothingTwice, InOnePlace, Places, Place
<1>4. QED
  BY <1>1, <1>2, <1>3 DEF StageOf

\* Whose stage and verdict stay.
LEMMA Same ==
  ASSUME UNCHANGED <<posts, undelivered>>, NEW r \in Request
  PROVE  /\ SameVerdict(r)
         /\ (r \in Accepted' <=> r \in Accepted)
            /\ (\/ r \in Accepted
                \/ (r \in served' /\ conn' # r) <=> (r \in served /\ conn # r))
            => SameStage(r)
<1>1. IsAt(r, "posted")' <=> IsAt(r, "posted")
  BY Frame
<1>2. QED
  BY <1>1 DEF SameVerdict, VerdictOf, SameStage, StageOf

LEMMA ServiceSteps ==
  ASSUME CInv, [Next]_vars
  PROVE  \/ UNCHANGED <<acks, served, conn, posts, undelivered>>
         \/ \E r \in Request : Accept(r)
         \/ /\ HangUp /\ mpc \in {"password", "request"}
            /\ UNCHANGED <<posts, undelivered>>
         \/ Acknowledges
         \/ PushRequest
         \/ Post
<1>1. CASE \/ \E l \in Loop : LoopStep(l) \/ ForkFails(l)
           \/ \E v \in Worker : \/ Take(v) \/ TakeCopy(v) \/ ExecFails(v)
                                \/ ExecFailsAgain(v) \/ SigtermInWorker(v)
           \/ \E i \in Job : JobStep(i) \/ Stop(i) \/ Continue(i)
  BY <1>1 DEF LoopStep, LoopTest, Spawn, Reap, ForkFails, Take, TakeCopy, ExecFails,
                    ExecFailsAgain, SigtermInWorker, sender, main,
                    JobStep, OpenResult, WriteResult, Exit, Stop, Continue, Advance
<1>2. CASE SenderStep \/ CurlInitFails
  BY <1>2 DEF SenderStep, SendTest, SendTake, ReadResult, CurlInitFails, main
<1>3. CASE \/ MainTest \/ Password \/ SigtermInMain \/ ReplyToGonePeer \/ StackOverflows
           \/ Kill \/ UNCHANGED vars
  BY <1>3 DEF MainTest, Password, SigtermInMain, ReplyToGonePeer, StackOverflows, Kill,
      vars, sender, main
<1>4. CASE ReadRequest
  BY <1>4 DEF ReadRequest, Acknowledges, sender
<1>5. QED
  BY <1>1, <1>2, <1>3, <1>4 DEF Next

LEMMA ServiceOnMain ==
  ASSUME CInv, CInv',
         \/ UNCHANGED <<acks, served, conn, posts, undelivered>>
         \/ \E r \in Request : Accept(r)
         \/ /\ HangUp /\ mpc \in {"password", "request"}
            /\ UNCHANGED <<posts, undelivered>>
         \/ Acknowledges
         \/ PushRequest
  PROVE  [Service!Next]_(Service!vars)
<1> /\ UNCHANGED <<posts, undelivered>>
    /\ \A r \in Request : SameVerdict(r)
  <2>1. UNCHANGED <<posts, undelivered>>
    BY DEF Accept, Acknowledges, ReadRequest, PushRequest, sender
  <2>2. QED
    BY <2>1, Same
<1> acks \in Seq(Request)
  BY DEF CInv, TypeOK, MainTypeOK
<1>1. CASE UNCHANGED <<acks, served, conn, posts, undelivered>>
  <2>1. \A r \in Request : SameStage(r)
    BY <1>1, Same DEF Accepted
  <2>2. QED
    BY <2>1, Stutter
<1>2. CASE \E r \in Request : Accept(r)
  <2>1. PICK s \in Request : Accept(s)
    BY <1>2
  <2>2. conn = NoReq /\ conn' = s /\ served' = served \cup {s} /\ s \notin served
        /\ UNCHANGED acks
    BY <2>1 DEF Accept, CInv, TypeOK, MainTypeOK
  <2>3. \A r \in Request : SameStage(r)
    BY <2>2, Same, Names DEF Accepted
  <2>4. QED
    BY <2>3, Stutter
<1>3. CASE PushRequest
  <2>1. mpc = "push" /\ conn' = NoReq /\ UNCHANGED <<acks, served>>
    BY <1>3 DEF PushRequest
  <2>2. conn \in Request /\ IsAt(conn, "main")
    BY <2>1 DEF IsAt, CInv, TypeOK, MainTypeOK
  <2>3. conn \in Accepted
    BY <2>2, StageIs
  <2>4. \A r \in Request : SameStage(r)
    BY <2>1, <2>3, Same, Names DEF Accepted
  <2>5. QED
    BY <2>4, Stutter
<1>4. CASE HangUp /\ mpc \in {"password", "request"}
  <2>1. PICK s \in Request : s = conn
    BY <1>4 DEF CInv, TypeOK, MainTypeOK
  <2>2. s \in served /\ s \notin Accepted /\ s # NoReq
    BY <1>4, <2>1, Names DEF CInv, AckInv
  <2>3. conn' = NoReq /\ Accepted' = Accepted /\ served' = served
    BY <1>4 DEF HangUp, Accepted
  <2>4. \A r \in Request \ {s} : SameStage(r)
    BY <2>1, <2>3, Same, Names
  <2>5. StageOf(s) = "new"
    BY <2>1, <2>2, StageIs
  <2>6. StageOf(s)' = "refused"
    <3>1. ~IsAt(s, "posted") /\ s \notin undelivered
      BY <2>2, StageIs
    <3>2. ~IsAt(s, "posted")'
      BY <3>1, Frame
    <3>3. QED
      BY <2>2, <2>3, <3>1, <3>2 DEF StageOf
  <2>7. Service!Enter(s, "refused")
    BY <2>4, <2>6, Enters
  <2>8. Service!Answer(s)
    BY <2>5, <2>7 DEF Service!Answer, SameVerdict, VerdictOf
  <2>9. QED
    BY <2>8 DEF Service!Next
<1>5. CASE Acknowledges
  <2>1. PICK s \in Request : s = conn
    BY <1>5, Acknowledge
  <2>2. s \notin Accepted /\ Accepted' = Accepted \cup {s} /\ conn' = conn /\ served' = served
    BY <1>5, <2>1, Acknowledge, AcceptedGrows DEF Acknowledges, ReadRequest, HangUp,
       CInv, TypeOK, MainTypeOK
  <2>3. \A r \in Request \ {s} : SameStage(r)
    BY <2>2, Same
  <2>4. StageOf(s) = "new"
    BY <2>1, <2>2, StageIs
  <2>5. StageOf(s)' = "accepted"
    <3>1. ~IsAt(s, "posted") /\ s \notin undelivered
      BY <2>2, StageIs
    <3>2. ~IsAt(s, "posted")'
      BY <3>1, Frame
    <3>3. QED
      BY <2>2, <3>1, <3>2 DEF StageOf
  <2>6. Service!Enter(s, "accepted")
    BY <2>3, <2>5, Enters
  <2>7. Service!Answer(s)
    BY <2>4, <2>6 DEF Service!Answer, SameVerdict, VerdictOf
  <2>8. QED
    BY <2>7 DEF Service!Next
<1>6. QED
  BY <1>1, <1>2, <1>3, <1>4, <1>5

\* The verdict of a delivery is one that the service may report.
LEMMA Reportable ==
  ASSUME CInv, OutOK, spc = "post", NEW s \in Request, s = item.req
  PROVE  /\ out \in Verdict /\ out \in SameDir(s) \cup {Stale, SE}
         /\ out \in Request => StageOf(out) \notin {"new", "refused"}
<1>1. out \in Verdict
  BY DEF CInv, TypeOK, SenderTypeOK
<1>2. CASE out \notin Request
  BY <1>1, <1>2 DEF Verdict
<1>3. CASE out \in Request
  <2>1. out \in Accepted /\ WorkDir(out) = WorkDir(s)
    BY <1>3 DEF OutOK
  <2>2. StageOf(out) \in {"accepted", "reported", "undelivered"}
    BY <1>3, <2>1, StageIs
  <2>3. QED
    BY <1>1, <1>3, <2>1, <2>2 DEF SameDir
<1>4. QED
  BY <1>2, <1>3

LEMMA ServiceOnPost ==
  ASSUME CInv, CInv', OutOK, Post
  PROVE  [Service!Next]_(Service!vars)
<1>1. PICK s \in Request : s = item.req
  BY DEF Post, CInv, TypeOK, SenderTypeOK, Item
<1>2. IsAt(s, "sender")
  BY <1>1 DEF Post, IsAt
<1>3. StageOf(s) = "accepted" /\ s \in Accepted
  BY <1>2, StageIs
<1>4. /\ UNCHANGED <<acks, served, conn>> /\ Accepted' = Accepted
      /\ ~IsAt(s, "posted") /\ s \notin undelivered
  BY <1>3 DEF Post, main, Accepted, StageOf
<1>5. CASE undelivered' = undelivered \cup {s} /\ UNCHANGED posts
  <2>1. \A r \in Request : /\ IsAt(r, "posted")' <=> IsAt(r, "posted")
                           /\ SameVerdict(r)
    BY <1>5, Frame DEF SameVerdict, VerdictOf
  <2>2. \A r \in Request \ {s} : SameStage(r)
    BY <1>4, <1>5, <2>1 DEF SameStage, StageOf
  <2>3. StageOf(s)' = "undelivered"
    BY <1>4, <1>5, <2>1 DEF StageOf
  <2>4. Service!Enter(s, "undelivered")
    BY <2>2, <2>3, Enters
  <2>5. Service!Lose(s)
    BY <1>3, <2>1, <2>4 DEF Service!Lose, SameVerdict, VerdictOf
  <2>6. QED
    BY <2>5 DEF Service!Next
<1>6. CASE posts' = Append(posts, [req |-> s, by |-> out]) /\ UNCHANGED undelivered
  <2> PICK v \in Verdict : v = out
    BY <1>1, Reportable DEF Post
  <2>1. /\ v \in SameDir(s) \cup {Stale, SE}
        /\ v \in Request => StageOf(v) \notin {"new", "refused"}
    BY <1>1, Reportable DEF Post
  <2>2. /\ DOMAIN posts' = 1 .. Len(posts) + 1 /\ DOMAIN posts = 1 .. Len(posts)
        /\ Len(posts) \in Nat
        /\ \A i \in 1 .. Len(posts) : posts'[i] = posts[i]
        /\ posts'[Len(posts) + 1] = [req |-> s, by |-> v]
    <3>1. posts \in Seq([req : Request, by : Verdict])
          /\ [req |-> s, by |-> v] \in [req : Request, by : Verdict]
      BY DEF CInv, TypeOK, SenderTypeOK
    <3>2. QED
      BY <1>6, <3>1, AppendAt
  <2>3. \A i, k \in DOMAIN posts' : posts'[i].req = posts'[k].req => i = k
    BY DEF CInv, NothingTwice, OnceThere
  <2>4. \A r \in Request \ {s} : IsAt(r, "posted")' <=> IsAt(r, "posted")
    BY <2>2 DEF IsAt
  <2>5. IsAt(s, "posted")'
    BY <2>2 DEF IsAt
  <2>6. VerdictOf(s)' = v
    <3>1. PICK n \in DOMAIN posts' : posts'[n].req = s /\ posts'[n].by = v
      BY <2>2
    <3>2. (CHOOSE i \in DOMAIN posts' : posts'[i].req = s) = n
      BY <2>3, <3>1
    <3>3. VerdictOf(s)' = posts'[CHOOSE i \in DOMAIN posts' : posts'[i].req = s].by
      BY <2>5 DEF VerdictOf
    <3>4. QED
      BY <3>1, <3>2, <3>3
  <2>7. ASSUME NEW r \in Request \ {s}
        PROVE  SameVerdict(r)
    <3>1. CASE IsAt(r, "posted")
      <4>1. PICK i \in DOMAIN posts : posts[i].req = r
        BY <3>1 DEF IsAt
      <4>2. i \in DOMAIN posts' /\ posts'[i] = posts[i]
        BY <2>2, <4>1
      <4>3. (CHOOSE k \in DOMAIN posts' : posts'[k].req = r) = i
        BY <2>3, <4>1, <4>2
      <4>4. (CHOOSE k \in DOMAIN posts : posts[k].req = r) = i
        BY <4>1 DEF CInv, NothingTwice, OnceThere
      <4>5. VerdictOf(r) = posts[i].by
        BY <3>1, <4>4 DEF VerdictOf
      <4>6. VerdictOf(r)' = posts'[CHOOSE k \in DOMAIN posts' : posts'[k].req = r].by
        BY <2>4, <3>1 DEF VerdictOf
      <4>7. QED
        BY <4>2, <4>3, <4>5, <4>6 DEF SameVerdict
    <3>2. CASE ~IsAt(r, "posted")
      BY <2>4, <3>2 DEF SameVerdict, VerdictOf
    <3>3. QED
      BY <3>1, <3>2
  <2>8. \A r \in Request \ {s} : SameStage(r)
    BY <1>4, <1>6, <2>4 DEF SameStage, StageOf
  <2>9. StageOf(s)' = "reported"
    BY <2>5 DEF StageOf
  <2>10. Service!Enter(s, "reported")
    BY <2>8, <2>9, Enters
  <2>11. AbstractVerdict' = [AbstractVerdict EXCEPT ![s] = v]
    BY <2>6, <2>7 DEF AbstractVerdict, SameVerdict
  <2>12. Service!Report(s, v)
    BY <1>3, <2>1, <2>10, <2>11 DEF Service!Report, AbstractVerdict, VerdictOf
  <2>13. QED
    BY <2>12 DEF Service!Next
<1>7. QED
  BY <1>1, <1>5, <1>6 DEF Post

LEMMA ServiceInit == Init => Service!Init
<1> SUFFICES ASSUME Init PROVE Service!Init
  OBVIOUS
<1>1. \A r \in Request : ~IsAt(r, "posted")
  BY DEF Init, IsAt
<1>2. \A r \in Request : StageOf(r) = "new" /\ VerdictOf(r) = NoReq
  BY <1>1 DEF Init, StageOf, VerdictOf, Accepted, Elems
<1>3. QED
  BY <1>2 DEF Service!Init, VerdictOf

\* The daemon implements the service, for any number of workers and clients
\* and whatever faults happen: nothing is reported that was not accepted,
\* nothing twice, and no verdict that no accepted run in the directory left.
THEOREM DaemonImplementsService == Spec => ImplementsJudgeService
<1>1. /\ CInv /\ RunsOK /\ CInv' /\ [Next]_vars => [Service!Next]_(Service!vars)
  BY ServiceSteps, ServiceOnMain, ServiceOnPost DEF RunsOK
<1>2. QED
  BY <1>1, ServiceInit, RunsOKHolds, PTL
  DEF Spec, ImplementsJudgeService, Service!Spec
-----------------------------------------------------------------------------
(* A job is a JudgeProcess: the daemon's side of what JudgeRun promises.   *)

\* A job that has not ended has no status to hand out but that of a stop.
OpenStatus ==
  \A j \in Job :
    /\ phase[j] = "none" => status[j] = NoStatus
    /\ phase[j] \in Living => status[j] \in {NoStatus, Stopped}

\* What a clone has forked for is not in its copy of the queue, nor about to
\* be forked for again.
CloneDone(w, r) ==
  /\ pc[Clone(w)] # "absent"
  /\ ~(pc[Clone(w)] = "fork" /\ cur[Clone(w)] = r)
  /\ \A i \in DOMAIN copy[w] : copy[w][i] # r

CloneForks(w) ==
  /\ \A r \in Request : phase[<<Clone(w), r>>] # "none" => CloneDone(w, r)
  /\ \A i, k \in DOMAIN copy[w] : copy[w][i] = copy[w][k] => i = k
  /\ pc[Clone(w)] = "fork" => \A i \in DOMAIN copy[w] : copy[w][i] # cur[Clone(w)]

ClonesFork == \A w \in Worker : CloneForks(w)

\* What a step is to a job: the daemon leaves it alone, but for its status,
\* once that is there; or forks it; or the job moves by itself.
LeavesJob(j) == /\ phase'[j] = phase[j]
                /\ \/ status'[j] = status[j]
                   \/ Reported(j) /\ status'[j] = NoStatus

ForksJob(j) == \E l \in Loop :
  /\ pc[l] = "fork" /\ pc'[l] \in {"wait", "test"} /\ j = JobOf(l)
  /\ phase'[j] \in {"running", "cloned", "failed"}
  /\ phase'[j] = "running" => status'[j] = status[j]
  /\ status'[j] \in {status[j], <<"exited", EXIT_OK>>}

LEMMA JobCases ==
  ASSUME CInv, [Next]_vars, NEW j \in Job
  PROVE  LeavesJob(j) \/ ForksJob(j) \/ JobStep(j) \/ Stop(j) \/ Continue(j)
<1> USE Names
<1>1. /\ phase \in [Job -> {"none", "cloned"} \cup Living \cup Over]
      /\ status \in [Job -> Status]
      /\ pc \in [Loop -> {"absent", "test", "get", "fork", "wait", "done", "wedged"}]
  BY DEF CInv, TypeOK, JobTypeOK, Living, LoopTypeOK
<1>2. CASE UNCHANGED jobs
  BY <1>2 DEF LeavesJob, jobs
<1>3. CASE \E l \in Loop : LoopStep(l) \/ ForkFails(l)
  <2>1. PICK l \in Loop : LoopStep(l) \/ ForkFails(l)
    BY <1>3
  <2>2. CASE Spawn(l)
    <3>1. /\ pc[l] = "fork" /\ status' = status /\ pc' = [pc EXCEPT ![l] = "wait"]
          /\ phase' = [phase EXCEPT ![JobOf(l)] = "running"]
      BY <2>2 DEF Spawn, Fork
    <3>2. CASE j = JobOf(l)
      BY <1>1, <3>1, <3>2 DEF ForksJob
    <3>3. CASE j # JobOf(l)
      BY <1>1, <3>1, <3>3 DEF LeavesJob
    <3> QED
      BY <3>2, <3>3
  <2>3. CASE Reap(l)
    <3>1. /\ Reported(JobOf(l)) /\ phase' = phase
          /\ status' = [status EXCEPT ![JobOf(l)] = NoStatus]
      BY <2>3 DEF Reap
    <3> QED
      BY <1>1, <3>1 DEF LeavesJob
  <2> QED
    BY <1>2, <2>1, <2>2, <2>3 DEF LoopStep, LoopTest, ForkFails
<1>4. CASE \E v \in Worker : ExecFails(v)
  <2>1. PICK v \in Worker : ExecFails(v)
    BY <1>4
  <2>2. /\ pc[Thread(v)] = "fork"
        /\ \E y \in {"test", "done", "wedged"} :
             pc' = [pc EXCEPT ![Thread(v)] = "wait", ![Clone(v)] = y]
        /\ \E x \in {"cloned", "failed"} :
             phase' = [phase EXCEPT ![JobOf(Thread(v))] = x]
        /\ status' = status
           \/ status' = [status EXCEPT ![JobOf(Thread(v))] = <<"exited", EXIT_OK>>]
    BY <2>1 DEF ExecFails, Fork
  <2>3. CASE j = JobOf(Thread(v))
    BY <1>1, <2>2, <2>3 DEF ForksJob
  <2>4. CASE j # JobOf(Thread(v))
    BY <1>1, <2>2, <2>4 DEF LeavesJob
  <2> QED
    BY <2>3, <2>4
<1>5. CASE \E v \in Worker : ExecFailsAgain(v)
  <2>1. PICK v \in Worker : ExecFailsAgain(v)
    BY <1>5
  <2>2. /\ pc[Clone(v)] = "fork" /\ pc' = [pc EXCEPT ![Clone(v)] = "test"]
        /\ status' = status
        /\ phase' = [phase EXCEPT ![JobOf(Clone(v))] = "cloned"]
    BY <2>1 DEF ExecFailsAgain, Return
  <2>3. CASE j = JobOf(Clone(v))
    BY <1>1, <2>2, <2>3 DEF ForksJob
  <2>4. CASE j # JobOf(Clone(v))
    BY <1>1, <2>2, <2>4 DEF LeavesJob
  <2> QED
    BY <2>3, <2>4
<1>6. CASE \E i \in Job : JobStep(i) \/ Stop(i) \/ Continue(i)
  <2>1. PICK i \in Job : JobStep(i) \/ Stop(i) \/ Continue(i)
    BY <1>6
  <2>2. CASE i # j
    BY <1>1, <2>1, <2>2 DEF LeavesJob, JobStep, OpenResult, WriteResult, Exit, Stop, Continue,
                            Advance
  <2> QED
    BY <2>1, <2>2
<1>7. CASE \E v \in Worker : Take(v) \/ TakeCopy(v) \/ SigtermInWorker(v)
  BY <1>2, <1>7 DEF Take, TakeCopy, SigtermInWorker
<1>8. CASE \/ MainTest \/ Password \/ ReadRequest \/ PushRequest
           \/ \E s \in Request : Accept(s)
           \/ SenderStep \/ CurlInitFails \/ SigtermInMain \/ ReplyToGonePeer \/ StackOverflows
           \/ Kill \/ UNCHANGED vars
  BY <1>2, <1>8 DEF MainTest, Password, ReadRequest, PushRequest, Accept, SenderStep,
      SendTest, SendTake, ReadResult, Post, CurlInitFails, SigtermInMain,
      ReplyToGonePeer, StackOverflows, Kill, vars
<1> QED
  BY <1>3, <1>4, <1>5, <1>6, <1>7, <1>8 DEF Next

\* A loop forks for a job that has not been forked before.
LEMMA ForksOnce ==
  ASSUME CInv, StartedInv, ClonesFork, NEW l \in Loop, pc[l] = "fork"
  PROVE  JobOf(l) \in Job /\ phase[JobOf(l)] = "none"
<1>1. JobOf(l) \in Job /\ cur[l] \in Request
  BY JobNamed DEF CInv, TypeOK
<1>2. PICK w \in Worker : l = Thread(w) \/ l = Clone(w)
  BY DEF Loop, Thread, Clone
<1>3. CASE l = Thread(w)
  BY <1>1, <1>3 DEF StartedInv, Judging, JobOf
<1>4. CASE l = Clone(w)
  BY <1>1, <1>4 DEF ClonesFork, CloneForks, CloneDone, JobOf
<1> QED
  BY <1>1, <1>2, <1>3, <1>4

LEMMA OpenStatusKept ==
  CInv /\ StartedInv /\ ClonesFork /\ OpenStatus /\ [Next]_vars => OpenStatus'
<1> SUFFICES ASSUME CInv, StartedInv, ClonesFork, OpenStatus, [Next]_vars, NEW j \in Job
             PROVE  /\ phase'[j] = "none" => status'[j] = NoStatus
                    /\ phase'[j] \in Living => status'[j] \in {NoStatus, Stopped}
  BY DEF OpenStatus
<1>1. /\ phase[j] = "none" => status[j] = NoStatus
      /\ phase[j] \in Living => status[j] \in {NoStatus, Stopped}
  BY DEF OpenStatus
<1>2. CASE LeavesJob(j)
  BY <1>1, <1>2 DEF LeavesJob
<1>3. CASE ForksJob(j)
  <2>1. phase[j] = "none"
    BY <1>3, ForksOnce DEF ForksJob
  <2> QED
    BY <1>1, <1>3, <2>1 DEF ForksJob, Living
<1>4. CASE JobStep(j) \/ Stop(j) \/ Continue(j)
  <2> USE <1>1 DEF CInv, TypeOK, JobTypeOK, Living, Advance
  <2>1. CASE OpenResult(j)
    BY <2>1 DEF OpenResult
  <2>2. CASE WriteResult(j)
    BY <2>2 DEF WriteResult
  <2>3. CASE Exit(j)
    <3>1. phase'[j] \in Over
      BY <2>3 DEF Exit, Over
    <3> QED
      BY <3>1 DEF Over
  <2>4. CASE Stop(j)
    BY <2>4 DEF Stop
  <2>5. CASE Continue(j)
    BY <2>5 DEF Continue
  <2> QED
    BY <1>4, <2>1, <2>2, <2>3, <2>4, <2>5 DEF JobStep
<1> QED
  BY <1>2, <1>3, <1>4, JobCases

\* A clone's jobs move when the clone forks them, and by themselves.
LEMMA CloneJobs ==
  ASSUME CInv, [Next]_vars, NEW w \in Worker, NEW r \in Request,
         phase[<<Clone(w), r>>] = "none", phase'[<<Clone(w), r>>] # "none"
  PROVE  /\ pc[Clone(w)] = "fork" /\ pc'[Clone(w)] \in {"wait", "test"}
         /\ cur[Clone(w)] = r
<1> DEFINE j == <<Clone(w), r>>
<1>1. j \in Job
  BY Names DEF Job
<1>2. ForksJob(j)
  BY <1>1, JobCases DEF LeavesJob, JobStep, OpenResult, WriteResult, Exit, Stop, Continue,
                        Advance
<1> QED
  BY <1>2 DEF ForksJob, JobOf

\* What a step is to a clone's loop and its copy of the queue.
CloneRests(w) ==
  /\ copy'[w] = copy[w]
  /\ \/ pc'[Clone(w)] = pc[Clone(w)] /\ cur'[Clone(w)] = cur[Clone(w)]
     \/ pc'[Clone(w)] \notin {"absent", "fork"}

CloneStarts(w) ==
  /\ pc[Clone(w)] = "absent" /\ pc'[Clone(w)] \notin {"absent", "fork"}
  /\ copy'[w] \in {copy[w], ProcessQueue}

LEMMA CloneCases ==
  ASSUME CInv, [Next]_vars, NEW w \in Worker
  PROVE  CloneRests(w) \/ CloneStarts(w) \/ TakeCopy(w)
<1> USE Names
<1>1. /\ Clone(w) \in Loop /\ pc \in [Loop -> {"absent", "test", "get", "fork", "wait",
                                               "done", "wedged"}]
      /\ cur \in [Loop -> Request \cup {NoReq}] /\ copy \in [Worker -> Seq(Request)]
  BY DEF CInv, TypeOK, LoopTypeOK
<1>2. CASE UNCHANGED loops
  BY <1>2 DEF CloneRests, loops
<1>3. CASE \E l \in Loop : LoopStep(l) \/ ForkFails(l)
  BY <1>1, <1>3 DEF CloneRests, LoopStep, LoopTest, Spawn, Fork, Reap, ForkFails, Return
<1>4. CASE \E v \in Worker : ExecFails(v)
  <2>1. PICK v \in Worker : ExecFails(v)
    BY <1>4
  <2>2. CASE v = w
    BY <1>1, <2>1, <2>2 DEF CloneStarts, ExecFails
  <2>3. CASE v # w
    <3>1. Clone(v) # Clone(w)
      BY <2>3 DEF Clone
    <3> QED
      BY <1>1, <2>1, <2>3, <3>1 DEF CloneRests, ExecFails, Fork
  <2> QED
    BY <2>2, <2>3
<1>5. CASE \E v \in Worker : TakeCopy(v)
  <2>1. PICK v \in Worker : TakeCopy(v)
    BY <1>5
  <2>2. CASE v # w
    <3>1. Clone(v) # Clone(w)
      BY <2>2 DEF Clone
    <3> QED
      BY <1>1, <2>1, <2>2, <3>1 DEF CloneRests, TakeCopy
  <2> QED
    BY <2>1, <2>2
<1>6. CASE \E v \in Worker : Take(v) \/ ExecFailsAgain(v) \/ SigtermInWorker(v)
  BY <1>1, <1>6 DEF CloneRests, Take, ExecFailsAgain, SigtermInWorker, Return
<1>7. CASE \E i \in Job : JobStep(i) \/ Stop(i) \/ Continue(i)
  BY <1>2, <1>7
  DEF JobStep, OpenResult, WriteResult, Exit, Stop, Continue, Advance
<1>8. CASE \/ MainTest \/ Password \/ ReadRequest \/ PushRequest
           \/ \E s \in Request : Accept(s)
           \/ SenderStep \/ CurlInitFails \/ SigtermInMain \/ ReplyToGonePeer \/ StackOverflows
           \/ Kill \/ UNCHANGED vars
  BY <1>2, <1>8 DEF MainTest, Password, ReadRequest, PushRequest, Accept, SenderStep,
      SendTest, SendTake, ReadResult, Post, CurlInitFails, SigtermInMain,
      ReplyToGonePeer, StackOverflows, Kill, vars
<1> QED
  BY <1>3, <1>4, <1>5, <1>6, <1>7, <1>8 DEF Next

LEMMA ClonesForkKept == CInv /\ ClonesFork /\ [Next]_vars => ClonesFork'
<1> SUFFICES ASSUME CInv, ClonesFork, [Next]_vars, NEW w \in Worker
             PROVE  CloneForks(w)'
  BY DEF ClonesFork
<1>1. CloneForks(w) /\ copy[w] \in Seq(Request)
  BY DEF ClonesFork, CInv, TypeOK, LoopTypeOK
<1>2. CASE CloneRests(w)
  <2>1. ASSUME NEW r \in Request, phase'[<<Clone(w), r>>] # "none"
        PROVE  CloneDone(w, r)'
    <3>1. CASE phase[<<Clone(w), r>>] # "none"
      BY <1>1, <1>2, <3>1 DEF CloneForks, CloneRests, CloneDone
    <3>2. CASE phase[<<Clone(w), r>>] = "none"
      <4>1. /\ pc[Clone(w)] = "fork" /\ pc'[Clone(w)] \in {"wait", "test"}
            /\ cur[Clone(w)] = r
        BY <2>1, <3>2, CloneJobs
      <4> QED
        BY <1>1, <1>2, <4>1 DEF CloneForks, CloneRests, CloneDone
    <3> QED
      BY <3>1, <3>2
  <2> QED
    BY <1>1, <1>2, <2>1 DEF CloneForks, CloneRests
<1>3. CASE CloneStarts(w)
  <2>1. \A r \in Request : phase[<<Clone(w), r>>] = "none"
    BY <1>1, <1>3 DEF CloneForks, CloneDone, CloneStarts
  <2>2. \A r \in Request : phase'[<<Clone(w), r>>] = "none"
    BY <1>3, <2>1, CloneJobs DEF CloneStarts
  <2>3. \A i, k \in DOMAIN copy'[w] : copy'[w][i] = copy'[w][k] => i = k
    BY <1>1, <1>3 DEF CloneForks, CloneStarts, CInv, NothingTwice, OnceThere
  <2> QED
    BY <1>3, <2>2, <2>3 DEF CloneForks, CloneStarts
<1>4. CASE TakeCopy(w)
  <2>1. /\ copy[w] # <<>> /\ copy'[w] = Tail(copy[w]) /\ cur'[Clone(w)] = Head(copy[w])
        /\ pc[Clone(w)] # "absent" /\ pc'[Clone(w)] = "fork" /\ phase' = phase
    BY <1>4, Names DEF TakeCopy, jobs, CInv, TypeOK, LoopTypeOK
  <2>2. /\ DOMAIN Tail(copy[w]) = 1 .. Len(copy[w]) - 1
        /\ DOMAIN copy[w] = 1 .. Len(copy[w]) /\ Len(copy[w]) \in Nat \ {0}
        /\ \A i \in 1 .. Len(copy[w]) - 1 : Tail(copy[w])[i] = copy[w][i + 1]
        /\ Head(copy[w]) = copy[w][1]
    BY <1>1, <2>1, TailAt
  <2>3. \A r \in Request : phase'[<<Clone(w), r>>] # "none" => CloneDone(w, r)'
    BY <1>1, <2>1, <2>2 DEF CloneForks, CloneDone
  <2>4. ASSUME NEW i \in DOMAIN copy'[w], NEW k \in DOMAIN copy'[w],
               copy'[w][i] = copy'[w][k]
        PROVE  i = k
    <3>1. i + 1 \in DOMAIN copy[w] /\ k + 1 \in DOMAIN copy[w]
      BY <2>1, <2>2
    <3>2. copy[w][i + 1] = copy[w][k + 1]
      BY <2>1, <2>2, <2>4
    <3>3. i + 1 = k + 1
      BY <1>1, <3>1, <3>2 DEF CloneForks
    <3> QED
      BY <2>1, <2>2, <3>3
  <2>5. \A i \in DOMAIN copy'[w] : copy'[w][i] # cur'[Clone(w)]
    BY <1>1, <2>1, <2>2 DEF CloneForks
  <2> QED
    BY <2>3, <2>4, <2>5 DEF CloneForks
<1> QED
  BY <1>2, <1>3, <1>4, CloneCases

\* The step of a job is one of the process it is.
LEMMA JobBehaves ==
  ASSUME CInv, OpenStatus, NEW j \in Job, JobStep(j)
  PROVE  phase[j] \in Living /\ Process(j)!Next
<1>1. /\ phase \in [Job -> {"none", "cloned"} \cup Living \cup Over]
      /\ status \in [Job -> Status]
  BY DEF CInv, TypeOK, JobTypeOK, Living
<1>2. phase[j] \in Living /\ status[j] # Stopped => status[j] = NoStatus
  BY DEF OpenStatus
<1> USE DEF NoStatus, Stopped, Process!NoStatus, Process!Advance, Over, Living
<1>3. CASE OpenResult(j)
  <2>1. Process(j)!Open
    BY <1>1, <1>2, <1>3 DEF OpenResult, Advance, Process!Open
  <2> QED
    BY <1>3, <2>1 DEF OpenResult, Advance, Process!Next
<1>4. CASE WriteResult(j)
  <2>1. Process(j)!Close
    BY <1>1, <1>2, <1>4 DEF WriteResult, Advance, Process!Close
  <2> QED
    BY <1>4, <2>1 DEF WriteResult, Advance, Process!Next
<1>5. CASE Exit(j)
  <2>1. PICK s \in Ended :
          /\ \/ /\ s # <<"exited", EXIT_OK>>
                /\ phase[j] = "running"
             \/ /\ s \in {<<"exited", EXIT_TIMEOUT>>, <<"signaled", SIGKILL>>}
                /\ phase[j] = "truncated"
             \/ /\ s # <<"exited", EXIT_JUDGE>>
                /\ phase[j] = "written"
          /\ status[j] # Stopped /\ status' = [status EXCEPT ![j] = s]
          /\ \E x \in Over : phase' = [phase EXCEPT ![j] = x]
    BY <1>5, JudgedAssumption DEF Exit, Advance
  <2> DEFINE t == IF s[1] = "signaled" THEN <<"signaled", 0>> ELSE s
  <2>2. /\ status'[j] = s /\ phase'[j] \in Over /\ status[j] = NoStatus
    BY <1>1, <1>2, <2>1
  <2>3. /\ phase[j] = "running" => t \in Process(j)!Exited({6, 21, EXIT_TIMEOUT}) \cup Process(j)!Signaled
        /\ phase[j] = "truncated" => t \in Process(j)!Exited({EXIT_TIMEOUT}) \cup Process(j)!Signaled
        /\ phase[j] = "written" => t \in Process(j)!Exited({0, 6, EXIT_TIMEOUT}) \cup Process(j)!Signaled
    BY <2>1 DEF Process!Exited, Process!Signaled, Ended, EXIT_OK, EXIT_COMPILE_ERROR,
                EXIT_JUDGE, EXIT_TIMEOUT, SIGKILL
  <2>4. Process(j)!End(t)
    BY <2>1, <2>2, <2>3 DEF Process!End, Ended
  <2>5. t \in Process(j)!Exited({0, 6, 21, EXIT_TIMEOUT}) \cup Process(j)!Signaled
    BY <2>1, <2>3 DEF Process!Exited
  <2> QED
    BY <2>1, <2>4, <2>5 DEF Process!Next
<1> QED
  BY <1>3, <1>4, <1>5 DEF JobStep

LEMMA JobKept ==
  ASSUME CInv, StartedInv, ClonesFork, OpenStatus, [Next]_vars, NEW j \in Job
  PROVE  BehavesInStep(j)
<1> USE DEF NoStatus, Stopped, Over, Living
<1>1. /\ phase[j] \in {"none", "cloned"} \cup Living \cup Over
      /\ phase[j] = "none" => status[j] = NoStatus
      /\ phase[j] \in Living => status[j] \in {NoStatus, Stopped}
  BY DEF OpenStatus, CInv, TypeOK, JobTypeOK, Living
<1>2. CASE LeavesJob(j)
  <2>1. phase'[j] = phase[j]
    BY <1>2 DEF LeavesJob
  <2>2. phase[j] \in Living => UNCHANGED Process(j)!vars
    BY <1>1, <1>2 DEF LeavesJob, Process!vars, Reported
  <2> QED
    BY <2>1, <2>2 DEF BehavesInStep
<1>3. CASE ForksJob(j)
  <2>1. phase[j] = "none" /\ status[j] = NoStatus
    BY <1>1, <1>3, ForksOnce DEF ForksJob
  <2>2. phase'[j] \in Living => phase'[j] = "running" /\ status'[j] = NoStatus
    BY <1>3, <2>1 DEF ForksJob
  <2> QED
    BY <2>1, <2>2 DEF BehavesInStep, Process!Init, Process!NoStatus
<1>4. CASE JobStep(j)
  BY <1>4, JobBehaves DEF BehavesInStep
<1>5. CASE Stop(j) \/ Continue(j)
  <2>1. /\ phase[j] \in Living /\ phase'[j] = phase[j]
        /\ status'[j] \in {NoStatus, Stopped}
    BY <1>1, <1>5 DEF Stop, Continue, CInv, TypeOK, JobTypeOK
  <2>2. UNCHANGED Process(j)!vars
    BY <1>1, <2>1 DEF Process!vars
  <2> QED
    BY <2>1, <2>2 DEF BehavesInStep
<1> QED
  BY <1>2, <1>3, <1>4, <1>5, JobCases

\* Each job of the daemon, of a worker thread or of a clone, is a JudgeProcess
\* from its fork to its end: for any number of workers and submissions and
\* whatever faults happen.
THEOREM JobsAreProcesses == Spec => JobsBehave
<1>1. Init => StartedInv /\ ClonesFork /\ OpenStatus
  BY Names DEF Init, StartedInv, ClonesFork, CloneForks, OpenStatus, Job
<1>2. CInv /\ StartedInv /\ ClonesFork /\ OpenStatus /\ [Next]_vars
      => StartedInv' /\ ClonesFork' /\ OpenStatus' /\ [\A j \in Job : BehavesInStep(j)]_vars
  BY StartedInvKept, ClonesForkKept, OpenStatusKept, JobKept
<1> QED
  BY <1>1, <1>2, InitCInv, NextCInv, PTL DEF Spec, JobsBehave

\* And nothing that a JudgeProcess may do is left out of the daemon's model:
\* where Endings is all of Ended, each of its steps, of which JudgeRun's are
\* some, is one the job can take while it is not stopped.  So what is proved
\* of the daemon holds for the powerjudge processes that JudgeRun describes.
THEOREM ProcessesAreJobs ==
  ASSUME TypeOK, OpenStatus, Endings = Ended,
         NEW j \in Job, phase[j] \in Living, status[j] # Stopped,
         NEW p \in {"truncated", "written", "ended", "failed", "silent"},
         NEW s \in Ended \cup {NoStatus},
         phase' = [phase EXCEPT ![j] = p], status' = [status EXCEPT ![j] = s],
         Process(j)!Next,
         p \in Over => p = CASE phase[j] = "written" -> "ended"
                             [] phase[j] # "written" /\ s = <<"exited", EXIT_COMPILE_ERROR>>
                                -> "silent"
                             [] OTHER -> "failed",
         file' = CASE p = "truncated" -> [file EXCEPT ![WorkDir(j[2])] = Empty]
                   [] p = "written" -> [file EXCEPT ![WorkDir(j[2])] = j[2]]
                   [] OTHER -> file,
         UNCHANGED <<life, main, loops, sender, queues>>
  PROVE  JobStep(j)
<1> USE DEF NoStatus, Stopped, Over, Living, Process!NoStatus, Process!Advance
<1>1. /\ status[j] = NoStatus /\ phase'[j] = p /\ status'[j] = s
  BY DEF OpenStatus, TypeOK, JobTypeOK
<1>2. status[j][1] = "none"
  BY <1>1
<1>3. CASE Process(j)!Open
  <2>1. phase[j] = "running" /\ p = "truncated" /\ s = NoStatus
    BY <1>1, <1>2, <1>3 DEF Process!Open, Ended
  <2>2. status' = status
    BY <1>1, <2>1 DEF TypeOK, JobTypeOK
  <2> QED
    BY <2>1, <2>2 DEF JobStep, OpenResult, Advance
<1>4. CASE Process(j)!Close
  <2>1. phase[j] = "truncated" /\ p = "written" /\ s = NoStatus
    BY <1>1, <1>2, <1>4 DEF Process!Close, Ended
  <2>2. status' = status
    BY <1>1, <2>1 DEF TypeOK, JobTypeOK
  <2> QED
    BY <2>1, <2>2 DEF JobStep, WriteResult, Advance
<1>5. ASSUME NEW t \in Process(j)!Exited({0, 6, 21, EXIT_TIMEOUT}) \cup Process(j)!Signaled,
             Process(j)!End(t)
      PROVE  JobStep(j)
  <2>1. /\ p \in Over
        /\ t = IF s[1] = "signaled" THEN <<"signaled", 0>> ELSE s
        /\ \/ phase[j] = "running" /\ t \in Process(j)!Exited({6, 21, EXIT_TIMEOUT}) \cup Process(j)!Signaled
           \/ phase[j] = "truncated" /\ t \in Process(j)!Exited({EXIT_TIMEOUT}) \cup Process(j)!Signaled
           \/ phase[j] = "written" /\ t \in Process(j)!Exited({0, 6, EXIT_TIMEOUT}) \cup Process(j)!Signaled
    BY <1>1, <1>5 DEF Process!End, Ended
  <2>2. /\ s \in Ended
        /\ phase[j] = "running" => s # <<"exited", EXIT_OK>>
        /\ phase[j] = "truncated" => s \in {<<"exited", EXIT_TIMEOUT>>, <<"signaled", SIGKILL>>}
        /\ phase[j] = "written" => s # <<"exited", EXIT_JUDGE>>
    BY <1>5, <2>1 DEF Process!Exited, Process!Signaled, Ended, EXIT_OK, EXIT_COMPILE_ERROR,
                EXIT_JUDGE, EXIT_TIMEOUT, SIGKILL
  <2>3. file' = file /\ s \in Endings
    BY <2>1, <2>2
  <2>4. CASE phase[j] = "running"
    <3>1. p = IF s = <<"exited", EXIT_COMPILE_ERROR>> THEN "silent" ELSE "failed"
      BY <2>1, <2>4
    <3> QED
      BY <2>2, <2>3, <2>4, <3>1 DEF JobStep, Exit, Advance
  <2>5. CASE phase[j] = "truncated"
    <3>1. p = "failed"
      BY <2>1, <2>2, <2>5 DEF EXIT_TIMEOUT, EXIT_COMPILE_ERROR
    <3> QED
      BY <2>2, <2>3, <2>5, <3>1 DEF JobStep, Exit, Advance
  <2>6. CASE phase[j] = "written"
    <3>1. p = "ended"
      BY <2>1, <2>6
    <3> QED
      BY <2>2, <2>3, <2>6, <3>1 DEF JobStep, Exit, Advance
  <2> QED
    BY <2>4, <2>5, <2>6
<1> QED
  BY <1>3, <1>4, <1>5 DEF Process!Next
=============================================================================
