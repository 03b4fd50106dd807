------------------------- MODULE JudgedFreshProofs -------------------------
(***************************************************************************)
(* The verdict posted for a submission is not an older one.  With one      *)
(* worker the powerjudge processes run one after another, so result.txt    *)
(* holds what the last of them left; what overwrites it before the sender  *)
(* reads it belongs to a submission acknowledged later.  With several      *)
(* workers it is at least one that was judged since the daemon started.    *)
(***************************************************************************)
EXTENDS JudgedServiceProofs

\* Nothing ends a worker's wait before powerjudge has ended.
Awaited == Faults \cap {"strayTerm", "exec", "stop"} = {}

Orderly == OneWorker /\ Awaited

NoClones ==
  \A v \in Worker, r \in Request :
    pc[Clone(v)] = "absent" /\ phase[<<Clone(v), r>>] = "none"

\* A process that is alive is the one the worker waits for.
AliveInv ==
  \A w \in Worker, r \in Request :
    /\ phase[<<Thread(w), r>>] # "cloned"
    /\ phase[<<Thread(w), r>>] \in Living => pc[Thread(w)] = "wait" /\ cur[Thread(w)] = r

NoneStopped == \A j \in Job : status[j] # Stopped

\* What the process the worker waits for has done to result.txt.
CurrentInv ==
  \A w \in Worker, r \in Request :
    pc[Thread(w)] = "wait" /\ cur[Thread(w)] = r =>
      /\ phase[<<Thread(w), r>>] = "truncated" => file[WorkDir(r)] = Empty
      /\ phase[<<Thread(w), r>>] \in {"written", "ended"} => file[WorkDir(r)] = r
      /\ phase[<<Thread(w), r>>] = "failed" => CodeFor(status[<<Thread(w), r>>]) # EXIT_OK

Fresh(r, v) == v \in {r, SE} \/ (v \in Accepted /\ Ahead(r, v))

Silent(r) == \A w \in Worker : phase[<<Thread(w), r>>] = "silent"

FileInv ==
  \A r \in Request :
    Reports(r) => \/ Silent(r)
                  \/ file[WorkDir(r)] = Empty \/ Fresh(r, file[WorkDir(r)])

OutInv == spc = "post" => Fresh(item.req, out) \/ Silent(item.req)

PostsInv == \A i \in DOMAIN posts : Fresh(posts[i].req, posts[i].by) \/ Silent(posts[i].req)

JobsInv == NoClones /\ NoneStopped /\ AliveInv /\ CurrentInv

BaseInv == CInv /\ OrderInv /\ StartedInv

\* What a process does in one step.
LEMMA JobActs ==
  ASSUME TypeOK, NEW i \in Job, RunsJob(i)
  PROVE  /\ phase[i] \in Living /\ phase'[i] \in Living \cup Over
         /\ \A k \in Job \ {i} : phase'[k] = phase[k] /\ status'[k] = status[k]
         /\ \/ /\ phase'[i] = "truncated" /\ file'[WorkDir(i[2])] = Empty
               /\ \A d \in Dir \ {WorkDir(i[2])} : file'[d] = file[d]
            \/ /\ phase'[i] = "written" /\ file'[WorkDir(i[2])] = i[2]
               /\ \A d \in Dir \ {WorkDir(i[2])} : file'[d] = file[d]
            \/ /\ UNCHANGED file
               /\ phase'[i] \in {"truncated", "written"} => phase'[i] = phase[i]
               /\ phase'[i] = "ended" => phase[i] = "written"
               /\ phase'[i] = "failed" => CodeFor(status'[i]) # EXIT_OK
<1>1. WorkDir(i[2]) \in Dir
  BY Names
<1>2. CASE OpenResult(i)
  BY <1>1, <1>2 DEF OpenResult, Advance, TypeOK, JobTypeOK, Living
<1>3. CASE WriteResult(i)
  BY <1>1, <1>3 DEF WriteResult, Advance, TypeOK, JobTypeOK, Living
<1>4. CASE Stop(i) \/ Continue(i)
  BY <1>4 DEF Stop, Continue, TypeOK, JobTypeOK, Living
<1>5. CASE Exit(i)
  <2>1. PICK s \in Endings :
          /\ \/ /\ s # <<"exited", EXIT_OK>>
                /\ Advance(i, "running", IF s = <<"exited", EXIT_COMPILE_ERROR>>
                                         THEN "silent" ELSE "failed")
             \/ /\ s \in {<<"exited", EXIT_TIMEOUT>>, <<"signaled", SIGKILL>>}
                /\ Advance(i, "truncated", "failed")
             \/ /\ s # <<"exited", EXIT_JUDGE>>
                /\ Advance(i, "written", "ended")
          /\ status' = [status EXCEPT ![i] = s]
          /\ UNCHANGED file
    BY <1>5 DEF Exit
  <2>2. s \in Ended /\ status'[i] = s /\ \A k \in Job \ {i} : status'[k] = status[k]
    BY <2>1, JudgedAssumption DEF TypeOK, JobTypeOK, Living
  <2>3. s \notin {<<"exited", EXIT_OK>>, <<"exited", EXIT_COMPILE_ERROR>>}
        => CodeFor(s) # EXIT_OK
    BY <2>2 DEF Ended, CodeFor, EXIT_OK, EXIT_COMPILE_ERROR, EXIT_JUDGE, EXIT_TIMEOUT,
                OJ_SE, SIGKILL
  <2>4. /\ phase[i] \in Living /\ phase'[i] \in Over
        /\ \A k \in Job \ {i} : phase'[k] = phase[k]
        /\ phase'[i] = "ended" => phase[i] = "written"
    BY <2>1 DEF Advance, TypeOK, JobTypeOK, Living, Over
  <2>5. phase'[i] = "failed" =>
          s \notin {<<"exited", EXIT_OK>>, <<"exited", EXIT_COMPILE_ERROR>>}
    BY <2>1 DEF Advance, TypeOK, JobTypeOK, Living, EXIT_OK, EXIT_TIMEOUT, EXIT_COMPILE_ERROR
  <2>6. QED
    BY <2>1, <2>2, <2>3, <2>4, <2>5 DEF Over, Living
<1>6. QED
  BY <1>2, <1>3, <1>4, <1>5 DEF RunsJob, JobStep

LEMMA Files ==
  ASSUME CInv, [Next]_vars
  PROVE  UNCHANGED file \/ \E i \in Job : RunsJob(i)
<1>1. CASE \E i \in Job : JobStep(i) \/ Stop(i) \/ Continue(i)
  BY <1>1 DEF RunsJob, JobStep, OpenResult, WriteResult, Exit, Stop, Continue, Advance
<1>2. CASE \/ MainTest \/ Password \/ ReadRequest \/ PushRequest
           \/ \E s \in Request : Accept(s)
           \/ SenderStep \/ CurlInitFails \/ SigtermInMain \/ ReplyToGonePeer \/ StackOverflows
           \/ Kill \/ UNCHANGED vars
  BY <1>2 DEF MainTest, Password, ReadRequest, PushRequest, Accept, SenderStep, jobs,
      SendTest, SendTake, ReadResult, Post, CurlInitFails, SigtermInMain,
      ReplyToGonePeer, StackOverflows, Kill, vars
<1>3. CASE \/ \E l \in Loop : LoopStep(l) \/ ForkFails(l)
           \/ \E w \in Worker : \/ Take(w) \/ TakeCopy(w) \/ ExecFails(w)
                                \/ ExecFailsAgain(w) \/ SigtermInWorker(w)
  BY <1>3 DEF LoopStep, LoopTest, Spawn, Reap, ForkFails, Take, TakeCopy, ExecFails,
      ExecFailsAgain, SigtermInWorker, jobs
<1>4. QED
  BY <1>1, <1>2, <1>3 DEF Next

LEMMA NoneStoppedKept ==
  ASSUME Awaited
  PROVE  CInv /\ NoneStopped /\ [Next]_vars => NoneStopped'
<1> SUFFICES ASSUME CInv, NoneStopped, [Next]_vars, NEW j \in Job
             PROVE  status'[j] # Stopped
  BY DEF NoneStopped
<1>1. status[j] # Stopped /\ status \in [Job -> Status]
  BY DEF NoneStopped, CInv, TypeOK, JobTypeOK
<1>2. CASE LeavesJob(j) \/ ForksJob(j)
  BY <1>1, <1>2 DEF LeavesJob, ForksJob, NoStatus, Stopped
<1>3. CASE Exit(j)
  <2>1. PICK s \in Ended : status'[j] = s
    BY <1>1, <1>3, JudgedAssumption DEF Exit
  <2>2. QED
    BY <2>1 DEF Ended, Stopped
<1>4. CASE OpenResult(j) \/ WriteResult(j) \/ Continue(j)
  BY <1>1, <1>4 DEF OpenResult, WriteResult, Continue, NoStatus, Stopped
<1>5. ~Stop(j)
  BY DEF Stop, Awaited
<1>6. QED
  BY <1>2, <1>3, <1>4, <1>5, JobCases DEF JobStep

LEMMA NoClonesKept ==
  ASSUME Awaited
  PROVE  CInv /\ NoClones /\ [Next]_vars => NoClones'
<1> SUFFICES ASSUME CInv, NoClones, [Next]_vars, NEW v \in Worker, NEW r \in Request
             PROVE  pc'[Clone(v)] = "absent" /\ phase'[<<Clone(v), r>>] = "none"
  BY DEF NoClones
<1> USE Names
<1> DEFINE k == <<Clone(v), r>>
<1>1. pc[Clone(v)] = "absent" /\ phase[k] = "none" /\ k \in Job /\ Clone(v) \in Loop
  BY DEF NoClones, Job
<1>2. CASE \E i \in Job : JobStep(i) \/ Stop(i) \/ Continue(i)
  <2>1. PICK i \in Job : RunsJob(i)
    BY <1>2 DEF RunsJob, JobStep, OpenResult, WriteResult, Exit, Stop, Continue, Advance
  <2>2. i # k /\ phase'[k] = phase[k]
    BY <1>1, <2>1, JobActs DEF Awaited, CInv, Living
  <2>3. QED
    BY <1>1, <2>1, <2>2 DEF RunsJob, loops
<1>3. CASE \/ MainTest \/ Password \/ ReadRequest \/ PushRequest
           \/ \E s \in Request : Accept(s)
           \/ SenderStep \/ CurlInitFails \/ SigtermInMain \/ ReplyToGonePeer \/ StackOverflows
           \/ Kill \/ UNCHANGED vars
  <2>1. UNCHANGED <<loops, jobs>>
    BY <1>3 DEF MainTest, Password, ReadRequest, PushRequest, Accept, SenderStep,
      SendTest, SendTake, ReadResult, Post, CurlInitFails, SigtermInMain,
      ReplyToGonePeer, StackOverflows, Kill, vars
  <2>2. QED
    BY <1>1, <2>1 DEF loops, jobs
<1>4. CASE \E l \in Loop : LoopStep(l) \/ ForkFails(l)
  <2>1. PICK l \in Loop : LoopStep(l) \/ ForkFails(l)
    BY <1>4
  <2>2. l # Clone(v)
    BY <1>1, <2>1 DEF LoopStep, LoopTest, Spawn, Fork, Reap, ForkFails
  <2>3. pc'[Clone(v)] = "absent"
    BY <1>1, <2>1, <2>2
    DEF LoopStep, LoopTest, Spawn, Reap, ForkFails, Return, CInv, TypeOK, LoopTypeOK
  <2>4. JobOf(l) # k
    BY <2>2 DEF JobOf
  <2>5. phase'[k] = "none"
    BY <1>1, <2>1, <2>4
    DEF LoopStep, LoopTest, Spawn, Reap, ForkFails, jobs, CInv, TypeOK, JobTypeOK, Living
  <2>6. QED
    BY <2>3, <2>5
<1>5. CASE \E w \in Worker : \/ Take(w) \/ TakeCopy(w) \/ ExecFails(w)
                             \/ ExecFailsAgain(w) \/ SigtermInWorker(w)
  <2>1. PICK w \in Worker : Take(w)
    BY <1>5 DEF TakeCopy, NoClones, ExecFails, ExecFailsAgain, SigtermInWorker, Awaited
  <2>2. QED
    BY <1>1, <2>1 DEF Take, jobs, CInv, TypeOK, LoopTypeOK
<1>6. QED
  BY <1>2, <1>3, <1>4, <1>5 DEF Next

\* A process that runs is the one the worker waits for.
LEMMA RunsCurrent ==
  ASSUME Orderly, CInv, NoClones, AliveInv, NEW w \in Worker, NEW i \in Job, RunsJob(i)
  PROVE  i = <<Thread(w), i[2]>> /\ i[2] \in Request /\ pc[Thread(w)] = "wait"
         /\ cur[Thread(w)] = i[2]
<1>1. phase[i] \in Living
  BY JobActs DEF CInv, Orderly, Awaited
<1>2. PICK v \in Worker, r \in Request : i = <<Thread(v), r>> \/ i = <<Clone(v), r>>
  BY DEF Job, Loop, Thread, Clone
<1>3. i = <<Thread(v), r>>
  BY <1>1, <1>2 DEF NoClones, Living
<1>4. v = w
  BY DEF Orderly, OneWorker
<1>5. QED
  BY <1>1, <1>3, <1>4 DEF AliveInv

\* The worker leaves its wait only when the process has ended.
LEMMA KeepsWaiting ==
  ASSUME Awaited, CInv, [Next]_vars, NEW w \in Worker, NEW r \in Request,
         NoneStopped, pc[Thread(w)] = "wait", cur[Thread(w)] = r,
         phase[<<Thread(w), r>>] \in Living
  PROVE  pc'[Thread(w)] = "wait" /\ cur'[Thread(w)] = r
<1>0. status[<<Thread(w), r>>] # Stopped
  BY Names DEF NoneStopped, Job
<1>1. IsAt(r, "worker") /\ ~IsAt(r, "ProcessQueue")
  <2>1. IsAt(r, "worker")
    BY DEF IsAt, Judging
  <2>2. QED
    BY <2>1 DEF CInv, NothingTwice, InOnePlace, Places, Place
<1>2. CASE Quiet
  <2>1. IsAt(r, "worker")'
    BY <1>1, <1>2 DEF Quiet, Place
  <2>2. PICK v \in Worker : Judging(v)' /\ cur'[Thread(v)] = r
    BY <2>1 DEF IsAt
  <2>3. /\ Judging(v) /\ cur[Thread(v)] = r
        /\ pc[Thread(v)] = pc'[Thread(v)] \/ pc[Thread(v)] = "fork"
    BY <1>1, <2>2, Holds
  <2>4. v = w
    BY <2>3 DEF Judging, CInv, NothingTwice, OnceThere
  <2>5. QED
    BY <2>2, <2>3, <2>4
<1>3. CASE Acknowledges \/ PushRequest \/ SendTake \/ Post
  BY <1>3 DEF Acknowledges, ReadRequest, PushRequest, SendTake, Post, loops
<1>4. CASE \E v \in Worker : Take(v) \/ \E code \in Code : EndsRound(v, code)
  <2>1. PICK v \in Worker : Take(v) \/ \E code \in Code : EndsRound(v, code)
    BY <1>4
  <2>2. JobOf(Thread(w)) = <<Thread(w), r>>
    BY DEF JobOf
  <2>3. CASE v = w
    BY <1>0, <2>1, <2>2, <2>3 DEF Take, EndsRound, Reap, Reported, Over, Living, ForkFails,
                            SigtermInWorker, Awaited
  <2>4. CASE v # w
    <3>1. Thread(v) # Thread(w) /\ Thread(w) \in Loop
      BY <2>4, Names
    <3>2. QED
      BY <2>1, <3>1 DEF Take, EndsRound, Reap, ForkFails, SigtermInWorker, Return,
                        CInv, TypeOK, LoopTypeOK
  <2>5. QED
    BY <2>3, <2>4
<1>5. QED
  BY <1>2, <1>3, <1>4, StepKinds DEF StepKind

LEMMA AliveInvKept ==
  ASSUME Awaited
  PROVE  CInv /\ NoClones /\ NoneStopped /\ AliveInv /\ [Next]_vars => AliveInv'
<1> SUFFICES ASSUME CInv, NoClones, NoneStopped, AliveInv, [Next]_vars,
                    NEW w \in Worker, NEW r \in Request
             PROVE  /\ phase'[<<Thread(w), r>>] # "cloned"
                    /\ phase'[<<Thread(w), r>>] \in Living
                       => pc'[Thread(w)] = "wait" /\ cur'[Thread(w)] = r
  BY DEF AliveInv
<1> DEFINE j == <<Thread(w), r>>
<1>1. j \in Job
  BY Names DEF Job
<1>2. CASE KeepsJob(j, Thread(w))
  BY <1>2, KeepsWaiting DEF KeepsJob, AliveInv
<1>3. CASE StartsJob(j, Thread(w))
  BY <1>3 DEF StartsJob, JobOf, Awaited
<1>4. CASE RunsJob(j)
  <2>1. phase'[j] \in Living \cup Over
    BY <1>1, <1>4, JobActs DEF CInv, Awaited
  <2>2. pc[Thread(w)] = "wait" /\ cur[Thread(w)] = r
    BY <1>1, <1>4, JobActs DEF AliveInv, CInv, Awaited
  <2>3. QED
    BY <1>4, <2>1, <2>2 DEF RunsJob, loops, Living, Over
<1>5. QED
  BY <1>2, <1>3, <1>4, Kinds DEF JobKind

LEMMA CurrentInvKept ==
  ASSUME Orderly
  PROVE  CInv /\ JobsInv /\ StartedInv /\ [Next]_vars => CurrentInv'
<1> SUFFICES ASSUME CInv, JobsInv, StartedInv, [Next]_vars, NEW w \in Worker, NEW r \in Request,
                    pc'[Thread(w)] = "wait", cur'[Thread(w)] = r
             PROVE  /\ phase'[<<Thread(w), r>>] = "truncated" => file'[WorkDir(r)] = Empty
                    /\ phase'[<<Thread(w), r>>] \in {"written", "ended"} => file'[WorkDir(r)] = r
                    /\ phase'[<<Thread(w), r>>] = "failed"
                       => CodeFor(status'[<<Thread(w), r>>]) # EXIT_OK
  BY DEF CurrentInv
<1> USE DEF JobsInv
<1> DEFINE j == <<Thread(w), r>>
<1>1. j \in Job /\ j[2] = r
  BY Names DEF Job
<1>2. CASE RunsJob(j)
  <2>1. pc[Thread(w)] = "wait" /\ cur[Thread(w)] = r
    BY <1>1, <1>2, RunsCurrent
  <2>2. CASE UNCHANGED file
    BY <1>1, <1>2, <2>1, <2>2, JobActs DEF CInv, Orderly, Awaited, CurrentInv
  <2>3. CASE file' # file
    BY <1>1, <1>2, <2>3, JobActs DEF CInv, Orderly, Awaited
  <2>4. QED
    BY <2>2, <2>3
<1>3. CASE ~RunsJob(j)
  <2>1. UNCHANGED file
    <3>1. ASSUME NEW i \in Job, RunsJob(i) PROVE FALSE
      BY <1>3, <3>1, RunsCurrent DEF RunsJob, loops
    <3>2. QED
      BY <3>1, Files
  <2>2. CASE StartsJob(j, Thread(w))
    BY <2>2 DEF StartsJob, Orderly, Awaited
  <2>3. CASE KeepsJob(j, Thread(w)) /\ phase[j] # "none"
    <3>1. pc[Thread(w)] = "wait" /\ cur[Thread(w)] = r
      BY <2>3, Holds DEF StartedInv, Judging
    <3>2. QED
      BY <2>1, <2>3, <3>1 DEF KeepsJob, CurrentInv
  <2>4. QED
    BY <1>3, <2>2, <2>3, Kinds DEF JobKind, KeepsJob
<1>4. QED
  BY <1>2, <1>3

\* What has been said of a submission stays true of it.
LEMMA AheadStays ==
  ASSUME CInv, OrderInv, [Next]_vars, NEW r \in Accepted, NEW v \in Accepted, Ahead(r, v)
  PROVE  v \in Accepted' /\ Ahead(r, v)'
<1>1. r \in Request /\ v \in Request /\ acks \in Seq(Request)
  BY DEF CInv, TypeOK, MainTypeOK, Accepted, Elems
<1>2. v \in Accepted'
  BY <1>1, Upstream
<1>3. CASE Acknowledges
  <2>1. PICK s \in Request : s = conn
    BY <1>3, Acknowledge
  <2>2. s \notin Accepted /\ acks' = Append(acks, s)
    BY <1>3, <2>1, Acknowledge DEF Acknowledges
  <2>3. AckPosition(r)' = AckPosition(r) /\ AckPosition(v)' = AckPosition(v)
    BY <1>1, <2>2, PositionsKept DEF OrderInv
  <2>4. QED
    BY <1>2, <2>3 DEF Ahead
<1>4. CASE ~Acknowledges
  <2>1. UNCHANGED acks
    BY <1>4, StepKinds DEF StepKind, PushRequest, Take, Finishes, SendTake, Post, main
  <2>2. QED
    BY <1>2, <2>1 DEF Ahead, AckPosition
<1>5. QED
  BY <1>3, <1>4

LEMMA FreshStays ==
  ASSUME CInv, OrderInv, [Next]_vars, NEW r \in Accepted, NEW v, Fresh(r, v)
  PROVE  Fresh(r, v)'
BY AheadStays DEF Fresh

LEMMA SilentStays ==
  ASSUME Orderly, CInv, [Next]_vars, NEW r \in Request, ~IsAt(r, "worker"), Silent(r)
  PROVE  Silent(r)'
<1> SUFFICES ASSUME NEW w \in Worker PROVE phase'[<<Thread(w), r>>] = "silent"
  BY DEF Silent
<1> DEFINE j == <<Thread(w), r>>
<1>1. phase[j] = "silent" /\ j \in Job
  BY Names DEF Silent, Job
<1>2. ~StartsJob(j, Thread(w))
  BY DEF StartsJob, JobOf, IsAt, Judging
<1>3. ~RunsJob(j)
  BY <1>1, JobActs DEF CInv, Orderly, Awaited, Living
<1>4. QED
  BY <1>1, <1>2, <1>3, Kinds DEF JobKind, KeepsJob

LEMMA FileInvKept ==
  ASSUME Orderly
  PROVE  BaseInv /\ JobsInv /\ FileInv /\ [Next]_vars => FileInv'
<1> SUFFICES ASSUME BaseInv, JobsInv, FileInv, [Next]_vars, NEW r \in Request, Reports(r)'
             PROVE  \/ Silent(r)'
                    \/ file'[WorkDir(r)] = Empty \/ Fresh(r, file[WorkDir(r)])'
  BY DEF FileInv
<1> USE DEF BaseInv, JobsInv
<1>1. CASE ~Reports(r)
  <2>1. PICK w \in Worker : /\ Finishes(w, EXIT_OK) /\ EndsRound(w, EXIT_OK)
                            /\ cur[Thread(w)] = r
    BY <1>1, ReportsStep
  <2> DEFINE j == <<Thread(w), r>>
  <2>2. JobOf(Thread(w)) = j
    BY <2>1 DEF JobOf
  <2>3. Reap(Thread(w)) /\ EXIT_OK = CodeFor(status[j])
    BY <2>1, <2>2 DEF EndsRound, Orderly, Awaited, SigtermInWorker, EXIT_OK, EXIT_FORK_ERROR
  <2>4. phase[j] \in Over /\ phase' = phase /\ file' = file /\ pc[Thread(w)] = "wait"
    BY <2>2, <2>3, Names DEF Reap, Reported, NoneStopped, Job
  <2>5. CASE phase[j] = "ended"
    BY <2>1, <2>4, <2>5 DEF CurrentInv, Fresh
  <2>6. CASE phase[j] = "silent"
    BY <2>4, <2>6 DEF Silent, Orderly, OneWorker
  <2>7. phase[j] # "failed"
    BY <2>1, <2>3, <2>4 DEF CurrentInv
  <2>8. QED
    BY <2>4, <2>5, <2>6, <2>7 DEF Over
<1>2. CASE Reports(r)
  <2>1. ~IsAt(r, "worker") /\ r \in Accepted
    BY <1>2, ReportsAt
  <2>2. CASE Silent(r)
    BY <2>1, <2>2, SilentStays
  <2>3. CASE ~Silent(r) /\ file'[WorkDir(r)] = file[WorkDir(r)]
    <3>1. PICK f : f = file[WorkDir(r)]
      OBVIOUS
    <3>2. f = Empty \/ Fresh(r, f)
      BY <1>2, <2>3, <3>1 DEF FileInv
    <3>3. f = Empty \/ Fresh(r, f)'
      BY <2>1, <3>2, FreshStays
    <3>4. f = file'[WorkDir(r)]
      BY <2>3, <3>1
    <3>5. QED
      BY <3>3, <3>4 DEF Fresh
  <2>4. CASE file'[WorkDir(r)] # file[WorkDir(r)]
    <3>1. PICK i \in Job : RunsJob(i)
      BY <2>4, Files
    <3>2. file'[WorkDir(r)] \in {Empty, i[2]}
      BY <2>4, <3>1, JobActs DEF CInv, Orderly, Awaited, Dir
    <3>3. PICK s \in Request : s = i[2]
      BY <3>1, Names
    <3>4. PICK w \in Worker : TRUE
      BY <3>1 DEF Job, Loop
    <3>5. IsAt(s, "worker")
      BY <3>1, <3>3, <3>4, RunsCurrent DEF IsAt, Judging
    <3>6. IsAt(r, "SendQueue") \/ IsAt(r, "sender")
      <4>1. [code |-> EXIT_OK, req |-> r] # NoItem
        BY Names DEF NoItem
      <4>2. QED
        BY <1>2, <4>1 DEF Reports, Elems, IsAt, CInv, TypeOK, SenderTypeOK
    <3>7. Ahead(r, s)
      BY <3>5, <3>6, Distances DEF OrderInv, InOrder
    <3>8. s \in Accepted
      BY <3>5, InPlaceAccepted DEF Place
    <3>9. Fresh(r, s)'
      BY <2>1, <3>7, <3>8, FreshStays DEF Fresh
    <3>10. QED
      BY <3>2, <3>3, <3>9 DEF Fresh
  <2>5. QED
    BY <2>2, <2>3, <2>4
<1>3. QED
  BY <1>1, <1>2

LEMMA SenderMoves ==
  ASSUME CInv, [Next]_vars
  PROVE  \/ UNCHANGED <<spc, item, out, posts>>
         \/ ReadResult \/ CurlInitFails \/ Post
         \/ spc' \in {"test", "get", "read", "done"} /\ UNCHANGED posts
<1>1. CASE \E i \in Job : JobStep(i) \/ Stop(i) \/ Continue(i)
  BY <1>1 DEF JobStep, OpenResult, WriteResult, Exit, Stop, Continue, Advance, sender
<1>2. CASE SendTest \/ SendTake
  BY <1>2 DEF SendTest, SendTake
<1>3. CASE \/ MainTest \/ Password \/ ReadRequest \/ PushRequest
           \/ \E s \in Request : Accept(s)
           \/ SigtermInMain \/ ReplyToGonePeer \/ StackOverflows \/ Kill \/ UNCHANGED vars
  BY <1>3 DEF MainTest, Password, ReadRequest, PushRequest, Accept, SigtermInMain,
      ReplyToGonePeer, StackOverflows, Kill, vars, sender
<1>4. CASE \/ \E l \in Loop : LoopStep(l) \/ ForkFails(l)
           \/ \E w \in Worker : \/ Take(w) \/ TakeCopy(w) \/ ExecFails(w)
                                \/ ExecFailsAgain(w) \/ SigtermInWorker(w)
  BY <1>4 DEF LoopStep, LoopTest, Spawn, Reap, ForkFails, Take, TakeCopy, ExecFails,
      ExecFailsAgain, SigtermInWorker, sender
<1>5. QED
  BY <1>1, <1>2, <1>3, <1>4 DEF Next, SenderStep

\* The submission in the sender's hand is not with the worker any more.
LEMMA InHand ==
  ASSUME CInv, spc \in {"read", "post"}
  PROVE  item.req \in Accepted /\ item.req \in Request /\ ~IsAt(item.req, "worker")
         /\ item \in Item
<1>1. item \in Item /\ item.req \in Request
  BY DEF CInv, TypeOK, SenderTypeOK, Item
<1>2. IsAt(item.req, "sender")
  BY DEF IsAt
<1>3. QED
  BY <1>1, <1>2, InPlaceAccepted DEF CInv, NothingTwice, InOnePlace, Places, Place

LEMMA OutInvKept ==
  ASSUME Orderly
  PROVE  BaseInv /\ FileInv /\ OutInv /\ [Next]_vars => OutInv'
<1> SUFFICES ASSUME BaseInv, FileInv, OutInv, [Next]_vars, spc' = "post"
             PROVE  Fresh(item.req, out)' \/ Silent(item.req)'
  BY DEF OutInv
<1> USE DEF BaseInv
<1>1. CASE UNCHANGED <<spc, item, out, posts>>
  <2>1. PICK r \in Request : r = item.req
    BY <1>1, InHand
  <2>2. PICK o : o = out
    OBVIOUS
  <2>3. Fresh(r, o) \/ Silent(r)
    BY <1>1, <2>1, <2>2 DEF OutInv
  <2>4. Fresh(r, o)' \/ Silent(r)'
    BY <1>1, <2>1, <2>3, InHand, FreshStays, SilentStays
  <2>5. r = item'.req /\ o = out'
    BY <1>1, <2>1, <2>2
  <2>6. QED
    BY <2>4, <2>5 DEF Fresh, Silent, Ahead, AckPosition
<1>2. CASE CurlInitFails
  BY <1>2 DEF CurlInitFails, Fresh
<1>3. CASE ReadResult
  <2>1. PICK r \in Request : r = item.req
    BY <1>3, InHand DEF ReadResult
  <2>2. PICK f : f = file[WorkDir(r)]
    OBVIOUS
  <2>3. out' = (IF item.code = EXIT_OK /\ Readable(f) THEN f ELSE SE) /\ item' = item
    BY <1>3, <2>1, <2>2 DEF ReadResult
  <2>4. CASE item.code = EXIT_OK /\ Readable(f)
    <3>1. item = [code |-> EXIT_OK, req |-> r]
      BY <1>3, <2>1, <2>4, InHand DEF ReadResult, Item
    <3>2. Silent(r) \/ Fresh(r, f)
      BY <2>2, <2>4, <3>1 DEF FileInv, Reports, Readable
    <3>3. Silent(r)' \/ Fresh(r, f)'
      BY <1>3, <2>1, <3>2, InHand, FreshStays, SilentStays DEF ReadResult
    <3>4. r = item'.req /\ f = out'
      BY <2>1, <2>3, <2>4
    <3>5. QED
      BY <3>3, <3>4 DEF Fresh, Silent, Ahead, AckPosition
  <2>5. CASE ~(item.code = EXIT_OK /\ Readable(f))
    BY <2>3, <2>5 DEF Fresh
  <2>6. QED
    BY <2>4, <2>5
<1>4. QED
  BY <1>1, <1>2, <1>3, SenderMoves DEF Post

LEMMA PostsInvKept ==
  ASSUME Orderly
  PROVE  BaseInv /\ OutInv /\ PostsInv /\ [Next]_vars => PostsInv'
<1> SUFFICES ASSUME BaseInv, OutInv, PostsInv, [Next]_vars, NEW i \in DOMAIN posts'
             PROVE  Fresh(posts[i].req, posts[i].by)' \/ Silent(posts[i].req)'
  BY DEF PostsInv
<1> USE DEF BaseInv
<1>1. CASE i \in DOMAIN posts /\ posts'[i] = posts[i]
  <2>1. posts[i].req \in Request /\ IsAt(posts[i].req, "posted")
    BY <1>1, Occupants DEF CInv
  <2>2. PICK r \in Request : r = posts[i].req
    BY <2>1
  <2>3. PICK v : v = posts[i].by
    OBVIOUS
  <2>4. Fresh(r, v) \/ Silent(r)
    BY <1>1, <2>2, <2>3 DEF PostsInv
  <2>5. r \in Accepted /\ ~IsAt(r, "worker")
    BY <2>1, <2>2, InPlaceAccepted DEF CInv, NothingTwice, InOnePlace, Places, Place
  <2>6. Fresh(r, v)' \/ Silent(r)'
    BY <2>4, <2>5, FreshStays, SilentStays
  <2>7. r = posts'[i].req /\ v = posts'[i].by
    BY <1>1, <2>2, <2>3
  <2>8. QED
    BY <2>6, <2>7 DEF Fresh, Silent, Ahead, AckPosition
<1>2. CASE posts' # posts
  <2>1. Post /\ spc = "post" /\ posts' = Append(posts, [req |-> item.req, by |-> out])
    BY <1>2, SenderMoves DEF ReadResult, CurlInitFails, Post
  <2>2. PICK r \in Request : r = item.req
    BY <2>1, InHand
  <2>3. PICK o \in Verdict : o = out
    BY DEF CInv, TypeOK, SenderTypeOK
  <2>4. posts \in Seq([req : Request, by : Verdict]) /\ posts' = Append(posts, [req |-> r, by |-> o])
        /\ [req |-> r, by |-> o] \in [req : Request, by : Verdict]
    BY <2>1, <2>2, <2>3 DEF CInv, TypeOK, SenderTypeOK
  <2>5. /\ DOMAIN posts' = 1 .. Len(posts) + 1 /\ DOMAIN posts = 1 .. Len(posts)
        /\ Len(posts) \in Nat
        /\ \A k \in 1 .. Len(posts) : posts'[k] = posts[k]
        /\ posts'[Len(posts) + 1] = [req |-> r, by |-> o]
    BY <2>4, AppendAt
  <2>6. CASE i \in DOMAIN posts
    BY <1>1, <2>5, <2>6
  <2>7. CASE i = Len(posts) + 1
    <3>1. Fresh(r, o) \/ Silent(r)
      BY <2>1, <2>2, <2>3 DEF OutInv
    <3>2. Fresh(r, o)' \/ Silent(r)'
      BY <2>1, <2>2, <3>1, InHand, FreshStays, SilentStays
    <3>3. r = posts'[i].req /\ o = posts'[i].by
      BY <2>5, <2>7
    <3>4. QED
      BY <3>2, <3>3 DEF Fresh, Silent, Ahead, AckPosition
  <2>8. QED
    BY <2>5, <2>6, <2>7
<1>3. QED
  BY <1>1, <1>2

FreshInv == BaseInv /\ JobsInv /\ FileInv /\ OutInv /\ PostsInv

LEMMA FreshInvInit ==
  ASSUME Orderly
  PROVE  Init => FreshInv
<1> SUFFICES ASSUME Init PROVE FreshInv
  OBVIOUS
<1>1. BaseInv
  BY Names, InitCInv, OrderInvInit DEF Init, BaseInv, StartedInv, Job
<1>2. JobsInv
  BY Names DEF Init, JobsInv, NoClones, NoneStopped, AliveInv, CurrentInv, Living, NoStatus,
            Stopped, Job
<1>3. FileInv
  BY Names DEF Init, FileInv, Reports, Elems, NoItem
<1>4. OutInv /\ PostsInv
  BY DEF Init, OutInv, PostsInv
<1>5. QED
  BY <1>1, <1>2, <1>3, <1>4 DEF FreshInv

LEMMA FreshInvKept ==
  ASSUME Orderly
  PROVE  FreshInv /\ [Next]_vars => FreshInv'
<1>1. BaseInv /\ [Next]_vars => BaseInv'
  BY NextCInv, OrderInvKept, StartedInvKept DEF BaseInv, Orderly
<1>2. BaseInv /\ JobsInv /\ [Next]_vars => JobsInv'
  BY NoClonesKept, NoneStoppedKept, AliveInvKept, CurrentInvKept DEF Orderly, BaseInv, JobsInv
<1>3. QED
  BY <1>1, <1>2, FileInvKept, OutInvKept, PostsInvKept DEF FreshInv

\* With one worker, and powerjudge awaited until it has ended, the verdict
\* posted is the submission's own, a later one's or a system error; it is an
\* older one only after a compile error without a result.
THEOREM VerdictsAreFresh ==
  ASSUME Orderly
  PROVE  Spec => []FreshVerdict
<1>1. FreshInv => FreshVerdict
  <2> SUFFICES ASSUME FreshInv, NEW i \in DOMAIN posts, NEW w \in Worker
               PROVE  LET r == posts[i].req
                          v == posts[i].by
                      IN  \/ v \in {r, SE}
                          \/ v \in Request /\ AckPosition(v) > AckPosition(r)
                          \/ phase[<<Thread(w), r>>] = "silent"
    BY DEF FreshVerdict
  <2>1. Fresh(posts[i].req, posts[i].by) \/ Silent(posts[i].req)
    BY DEF FreshInv, PostsInv
  <2>2. \A v \in Accepted : v \in Request /\ AckPosition(v) \in Nat
    BY PositionType DEF FreshInv, BaseInv, CInv, TypeOK, MainTypeOK, Accepted, Elems
  <2>3. posts[i].req \in Request /\ IsAt(posts[i].req, "posted")
    BY Occupants DEF FreshInv, BaseInv, CInv
  <2>4. AckPosition(posts[i].req) \in Nat
    BY <2>3, InPlaceAccepted DEF FreshInv, BaseInv, Place
  <2>5. QED
    BY <2>1, <2>2, <2>4 DEF Fresh, Silent, Ahead
<1>2. QED
  BY <1>1, FreshInvInit, FreshInvKept, PTL DEF Spec
-----------------------------------------------------------------------------
(* Any number of workers, and powerjudge may be stopped and go on.  What    *)
(* result.txt held before the daemon started is gone once a judging run    *)
(* has opened it, and nobody writes it again; so it is reported only after *)
(* a run that did not open it and ended like one that had.                 *)

Undiverted == Faults \cap {"strayTerm", "exec"} = {}

SilentRun(r) == \E w \in Worker : phase[<<Thread(w), r>>] = "silent"

Due(r, v) == v \in SameDir(r) \cup {SE}

OpenedInv ==
  \A w \in Worker, r \in Request :
    phase[<<Thread(w), r>>] \in {"truncated", "written", "ended"}
    => file[WorkDir(r)] # Stale

FailedInv ==
  \A w \in Worker, r \in Request :
    /\ pc[Thread(w)] = "wait" /\ cur[Thread(w)] = r
    /\ phase[<<Thread(w), r>>] = "failed"
    => CodeFor(status[<<Thread(w), r>>]) # EXIT_OK

LeftInv == \A r \in Request : Reports(r) => file[WorkDir(r)] # Stale \/ SilentRun(r)

ReadInv == spc = "post" => Due(item.req, out) \/ SilentRun(item.req)

LEMMA JobLeaves ==
  ASSUME TypeOK, NEW i \in Job, RunsJob(i)
  PROVE  /\ \A d \in Dir : file[d] # Stale => file'[d] # Stale
         /\ phase'[i] \in {"truncated", "written"} /\ phase'[i] # phase[i]
            => file'[WorkDir(i[2])] # Stale
         /\ phase'[i] = "ended" => phase[i] = "written"
         /\ phase'[i] = "failed" => CodeFor(status'[i]) # EXIT_OK
<1>1. i[2] \in Request /\ WorkDir(i[2]) \in Dir /\ Stale \notin Request /\ Stale # Empty
  BY Names, JudgedAssumption DEF NotRequests
<1>2. QED
  BY <1>1, JobActs

\* Nobody restores what was in result.txt.
LEMMA StaleNoMore ==
  ASSUME CInv, [Next]_vars, NEW d \in Dir, file[d] # Stale
  PROVE  file'[d] # Stale
BY Files, JobLeaves DEF CInv

LEMMA SilentRunStays ==
  ASSUME CInv, StartedInv, [Next]_vars, NEW r \in Request, SilentRun(r)
  PROVE  SilentRun(r)'
<1>1. PICK w \in Worker : phase[<<Thread(w), r>>] = "silent"
  BY DEF SilentRun
<1> DEFINE j == <<Thread(w), r>>
<1>2. j \in Job
  BY Names DEF Job
<1>3. ~RunsJob(j)
  BY <1>1, <1>2, JobRuns DEF CInv, Living, Over
<1>4. ~StartsJob(j, Thread(w))
  <2>1. JobOf(Thread(w)) = j => cur[Thread(w)] = r
    BY DEF JobOf
  <2>2. QED
    BY <1>1, <2>1 DEF StartsJob, StartedInv, Judging
<1>5. phase'[j] = "silent"
  BY <1>1, <1>3, <1>4, Kinds DEF JobKind, KeepsJob
<1>6. QED
  BY <1>5 DEF SilentRun

LEMMA OpenedInvKept == CInv /\ OpenedInv /\ [Next]_vars => OpenedInv'
<1> SUFFICES ASSUME CInv, OpenedInv, [Next]_vars, NEW w \in Worker, NEW r \in Request,
                    phase'[<<Thread(w), r>>] \in {"truncated", "written", "ended"}
             PROVE  file'[WorkDir(r)] # Stale
  BY DEF OpenedInv
<1> DEFINE j == <<Thread(w), r>>
<1>1. j \in Job /\ j[2] = r /\ WorkDir(r) \in Dir
  BY Names DEF Job, Dir
<1>2. CASE phase[j] \in {"truncated", "written", "ended"}
  BY <1>1, <1>2, StaleNoMore DEF OpenedInv
<1>3. CASE phase[j] \notin {"truncated", "written", "ended"}
  <2>1. RunsJob(j)
    BY <1>3, Kinds DEF JobKind, KeepsJob, StartsJob
  <2>2. QED
    BY <1>1, <1>3, <2>1, JobLeaves DEF CInv
<1>4. QED
  BY <1>2, <1>3

LEMMA FailedInvKept ==
  ASSUME Undiverted
  PROVE  CInv /\ StartedInv /\ FailedInv /\ [Next]_vars => FailedInv'
<1> SUFFICES ASSUME CInv, StartedInv, FailedInv, [Next]_vars,
                    NEW w \in Worker, NEW r \in Request,
                    pc'[Thread(w)] = "wait", cur'[Thread(w)] = r,
                    phase'[<<Thread(w), r>>] = "failed"
             PROVE  CodeFor(status'[<<Thread(w), r>>]) # EXIT_OK
  BY DEF FailedInv
<1> DEFINE j == <<Thread(w), r>>
<1>1. j \in Job
  BY Names DEF Job
<1>2. CASE RunsJob(j)
  BY <1>1, <1>2, JobLeaves DEF CInv
<1>3. ~StartsJob(j, Thread(w))
  BY DEF StartsJob, Undiverted
<1>4. CASE KeepsJob(j, Thread(w))
  <2>1. phase[j] = "failed" /\ status'[j] = status[j]
    BY <1>4 DEF KeepsJob
  <2>2. ~IsAt(r, "ProcessQueue") /\ (Judging(w) /\ cur[Thread(w)] = r => pc[Thread(w)] = "wait")
    BY <2>1 DEF StartedInv
  <2>3. pc[Thread(w)] = "wait" /\ cur[Thread(w)] = r
    BY <2>2, Holds DEF Judging
  <2>4. QED
    BY <2>1, <2>3 DEF FailedInv
<1>5. QED
  BY <1>2, <1>3, <1>4, Kinds DEF JobKind

LEMMA LeftInvKept ==
  ASSUME Undiverted
  PROVE  /\ CInv /\ StartedInv /\ OpenedInv /\ FailedInv /\ LeftInv
         /\ [Next]_vars
         => LeftInv'
<1> SUFFICES ASSUME CInv, StartedInv,  OpenedInv, FailedInv, LeftInv, [Next]_vars,
                    NEW r \in Request, Reports(r)'
             PROVE  file'[WorkDir(r)] # Stale \/ SilentRun(r)'
  BY DEF LeftInv
<1>1. WorkDir(r) \in Dir
  BY DEF Dir
<1>2. CASE Reports(r)
  BY <1>1, <1>2, StaleNoMore, SilentRunStays DEF LeftInv
<1>3. CASE ~Reports(r)
  <2>1. PICK w \in Worker : /\ Finishes(w, EXIT_OK) /\ EndsRound(w, EXIT_OK)
                            /\ cur[Thread(w)] = r
    BY <1>3, ReportsStep
  <2> DEFINE j == <<Thread(w), r>>
  <2>2. JobOf(Thread(w)) = j
    BY <2>1 DEF JobOf
  <2>3. Reap(Thread(w)) /\ EXIT_OK = CodeFor(status[j])
    BY <2>1, <2>2 DEF EndsRound, Undiverted, SigtermInWorker, EXIT_OK, EXIT_FORK_ERROR
  <2>4. phase[j] \in Over /\ phase' = phase /\ file' = file /\ pc[Thread(w)] = "wait"
    <3>1. CodeFor(Stopped) # EXIT_OK
      BY DEF CodeFor, Stopped, SIGSTOP, EXIT_OK
    <3>2. QED
      BY <2>2, <2>3, <3>1 DEF Reap, Reported
  <2>5. CASE phase[j] = "ended"
    BY <2>4, <2>5 DEF OpenedInv
  <2>6. CASE phase[j] = "silent"
    BY <2>4, <2>6 DEF SilentRun
  <2>7. phase[j] # "failed"
    BY <2>1, <2>3, <2>4 DEF FailedInv
  <2>8. QED
    BY <2>4, <2>5, <2>6, <2>7 DEF Over
<1>4. QED
  BY <1>2, <1>3

LEMMA ReadInvKept ==
  CInv /\ FileOK /\ StartedInv /\ LeftInv /\ ReadInv /\ [Next]_vars => ReadInv'
<1> SUFFICES ASSUME CInv, FileOK, StartedInv, LeftInv, ReadInv, [Next]_vars, spc' = "post"
             PROVE  Due(item.req, out)' \/ SilentRun(item.req)'
  BY DEF ReadInv
<1>1. CASE UNCHANGED <<spc, item, out, posts>>
  <2>1. PICK r \in Request : r = item.req
    BY <1>1, InHand
  <2>2. Due(r, out) \/ SilentRun(r)
    BY <1>1, <2>1 DEF ReadInv
  <2>3. Due(r, out') \/ SilentRun(r)'
    BY <1>1, <2>2, SilentRunStays
  <2>4. r = item'.req
    BY <1>1, <2>1
  <2>5. QED
    BY <2>3, <2>4 DEF Due, SilentRun, SameDir
<1>2. CASE CurlInitFails
  BY <1>2 DEF CurlInitFails, Due
<1>3. CASE ReadResult
  <2>1. PICK r \in Request : r = item.req
    BY <1>3, InHand DEF ReadResult
  <2>2. PICK f : f = file[WorkDir(r)]
    OBVIOUS
  <2>3. out' = (IF item.code = EXIT_OK /\ Readable(f) THEN f ELSE SE) /\ item' = item
    BY <1>3, <2>1, <2>2 DEF ReadResult
  <2>4. CASE item.code = EXIT_OK /\ Readable(f)
    <3>1. item = [code |-> EXIT_OK, req |-> r]
      BY <1>3, <2>1, <2>4, InHand DEF ReadResult, Item
    <3>2. SilentRun(r) \/ f # Stale
      BY <2>2, <3>1 DEF LeftInv, Reports
    <3>3. WorkDir(r) \in Dir /\ f \in Request \cup {Missing, Empty, Stale}
      BY <2>2 DEF Dir, CInv, TypeOK, JobTypeOK, Living
    <3>4. f \in Request => f \in SameDir(r)
      BY <2>2, <3>3 DEF FileOK, SameDir
    <3>5. SilentRun(r) \/ Due(r, f)
      BY <2>4, <3>2, <3>3, <3>4 DEF Readable, Due
    <3>6. SilentRun(r)' \/ Due(r, f)
      BY <3>5, SilentRunStays
    <3>7. r = item'.req /\ f = out'
      BY <2>1, <2>3, <2>4
    <3>8. QED
      BY <3>6, <3>7 DEF Due, SilentRun, SameDir
  <2>5. CASE ~(item.code = EXIT_OK /\ Readable(f))
    BY <2>3, <2>5 DEF Due
  <2>6. QED
    BY <2>4, <2>5
<1>4. QED
  BY <1>1, <1>2, <1>3, SenderMoves DEF Post

\* A verdict that is posted is the one in the sender's hand, and stays posted.
LEMMA PostsGrow ==
  ASSUME CInv, [Next]_vars, NEW i \in DOMAIN posts'
  PROVE  \/ i \in DOMAIN posts /\ posts'[i] = posts[i]
         \/ spc = "post" /\ posts'[i] = [req |-> item.req, by |-> out]
<1>1. CASE UNCHANGED posts
  BY <1>1
<1>2. CASE posts' # posts
  <2>1. Post /\ spc = "post" /\ posts' = Append(posts, [req |-> item.req, by |-> out])
    BY <1>2, SenderMoves DEF ReadResult, CurlInitFails, Post
  <2>2. posts \in Seq([req : Request, by : Verdict])
        /\ [req |-> item.req, by |-> out] \in [req : Request, by : Verdict]
    BY <2>1, InHand DEF CInv, TypeOK, SenderTypeOK
  <2>3. /\ DOMAIN posts' = 1 .. Len(posts) + 1 /\ DOMAIN posts = 1 .. Len(posts)
        /\ Len(posts) \in Nat
        /\ \A k \in 1 .. Len(posts) : posts'[k] = posts[k]
        /\ posts'[Len(posts) + 1] = [req |-> item.req, by |-> out]
    BY <2>1, <2>2, AppendAt
  <2>4. QED
    BY <2>1, <2>3
<1>3. QED
  BY <1>1, <1>2

LEMMA NotFromBeforeKept ==
  CInv /\ StartedInv /\ ReadInv /\ NotFromBefore /\ [Next]_vars => NotFromBefore'
<1> SUFFICES ASSUME CInv, StartedInv, ReadInv, NotFromBefore, [Next]_vars,
                    NEW i \in DOMAIN posts'
             PROVE  Due(posts[i].req, posts[i].by)' \/ SilentRun(posts[i].req)'
  BY DEF NotFromBefore, Due, SilentRun, SameDir
<1>1. CASE i \in DOMAIN posts /\ posts'[i] = posts[i]
  <2>1. posts[i].req \in Request
    BY <1>1, Occupants DEF CInv
  <2>2. Due(posts[i].req, posts[i].by) \/ SilentRun(posts[i].req)
    BY <1>1 DEF NotFromBefore, Due, SilentRun
  <2>3. PICK r \in Request : r = posts[i].req
    BY <2>1
  <2>4. Due(r, posts[i].by) \/ SilentRun(r)'
    BY <2>2, <2>3, SilentRunStays
  <2>5. QED
    BY <1>1, <2>3, <2>4 DEF SilentRun
<1>2. CASE spc = "post" /\ posts'[i] = [req |-> item.req, by |-> out]
  <2>1. PICK r \in Request : r = item.req
    BY <1>2, InHand
  <2>2. Due(r, out) \/ SilentRun(r)
    BY <1>2, <2>1 DEF ReadInv
  <2>3. Due(r, out) \/ SilentRun(r)'
    BY <2>2, SilentRunStays
  <2>4. posts'[i].req = r /\ posts'[i].by = out
    BY <1>2, <2>1
  <2>5. QED
    BY <2>3, <2>4 DEF SilentRun
<1>3. QED
  BY <1>1, <1>2, PostsGrow

\* However many workers there are, no verdict is what result.txt held before
\* the daemon started, save after a status 6 without a result.
THEOREM NoneFromBefore ==
  ASSUME Undiverted
  PROVE  Spec => []NotFromBefore
<1> DEFINE Inv == /\ CInv /\ StartedInv /\ OpenedInv /\ FailedInv
                  /\ LeftInv /\ ReadInv /\ NotFromBefore
<1>1. Init => Inv
  <2> SUFFICES ASSUME Init PROVE Inv
    OBVIOUS
  <2>1. CInv /\ StartedInv
    BY Names, InitCInv DEF Init, StartedInv,  Job
  <2>2. OpenedInv /\ FailedInv
    BY Names DEF Init, OpenedInv, FailedInv, Job
  <2>3. LeftInv
    BY Names DEF Init, LeftInv, Reports, Elems, NoItem
  <2>4. ReadInv /\ NotFromBefore
    BY DEF Init, ReadInv, NotFromBefore
  <2>5. QED
    BY <2>1, <2>2, <2>3, <2>4
<1>2. Inv /\ FileOK /\ [Next]_vars => Inv'
  BY NextCInv, StartedInvKept, OpenedInvKept, FailedInvKept, LeftInvKept,
     ReadInvKept, NotFromBeforeKept
<1>3. Spec => []FileOK
  <2>1. CInv /\ RunsOK => FileOK
    BY DEF RunsOK
  <2>2. QED
    BY <2>1, RunsOKHolds, PTL
<1>4. Inv => NotFromBefore
  OBVIOUS
<1> HIDE DEF Inv
<1>5. QED
  BY <1>1, <1>2, <1>3, <1>4, PTL DEF Spec

OwnVerdict == \A i \in DOMAIN posts : \/ posts[i].by \in {posts[i].req, SE}
                                      \/ SilentRun(posts[i].req)

\* If moreover no two submissions share a directory, the verdict posted is
\* the submission's own, however many workers there are.
THEOREM OwnVerdicts ==
  ASSUME Undiverted, \A r, s \in Request : WorkDir(r) = WorkDir(s) => r = s
  PROVE  Spec => []OwnVerdict
<1>1. CInv /\ NotFromBefore => OwnVerdict
  <2> SUFFICES ASSUME CInv, NotFromBefore, NEW i \in DOMAIN posts
               PROVE  posts[i].by \in {posts[i].req, SE} \/ SilentRun(posts[i].req)
    BY DEF OwnVerdict
  <2>1. posts[i].req \in Request
    BY Occupants DEF CInv
  <2>2. QED
    BY <2>1 DEF NotFromBefore, SameDir, SilentRun
<1>2. QED
  BY <1>1, Conservation, NoneFromBefore, PTL
=============================================================================
