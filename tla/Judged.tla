------------------------------- MODULE Judged -------------------------------
(***************************************************************************)
(* The judged daemon of judged.cpp: the main thread accepts submissions,   *)
(* acknowledges them and pushes them on ProcessQueue; each of thread_num   *)
(* workers takes one, forks a powerjudge process for it, waits for that    *)
(* process and pushes the outcome on SendQueue; the sender takes outcomes, *)
(* reads the result.txt the process left and posts the verdict.            *)
(*                                                                         *)
(* Both queues are sequences here: ThreadSafeQueue implements FifoQueue.   *)
(*                                                                         *)
(* A powerjudge process is seen as the daemon sees it: it opens            *)
(* result.txt, writes it, and ends with some status.  It is a job, named   *)
(* by the loop that forked it and the submission it judges.                *)
(*                                                                         *)
(* When execl fails the child does not exit: it returns from run into      *)
(* ThreadWork's loop, a second process with private copies of both queues. *)
(* That process is the clone of the worker.                                *)
(***************************************************************************)
EXTENDS Integers, Sequences, FiniteSets

CONSTANTS
  Request,     \* submissions; each is sent on a connection of its own
  Worker,      \* the ThreadWork threads
  sid, cid,    \* the solution and contest ids of each submission
  Faults,      \* which of FaultKind may happen
  Endings,     \* the statuses, of Ended, that a powerjudge process ends with
  MaxSigterm,  \* bound on the number of SIGTERMs
  NoReq,       \* "no submission"
  Missing,     \* result.txt does not exist
  Empty,       \* result.txt has been truncated and not yet written
  Stale,       \* result.txt holds the result of an earlier run
  SE           \* the verdict "system error"

FaultKind == {"term",      \* SIGTERM, handled by the main thread
              "strayTerm", \* SIGTERM, handled by a worker inside waitpid
              "kill",      \* the daemon process is killed
              "pipe",      \* a client closes before its reply is written
              "fork",      \* fork fails
              "exec",      \* execl of powerjudge fails
              "stop",      \* powerjudge is stopped by a signal
              "curl",      \* curl cannot be initialised
              "http"}      \* the transfer to the web application fails

NotRequests == {NoReq, Missing, Empty, Stale, SE}

\* Exit codes of judge_core.h; EXIT_TIMEOUT stands for all the others that
\* powerjudge ends with, which the daemon treats alike.
EXIT_OK == 0
EXIT_COMPILE_ERROR == 6
EXIT_FORK_ERROR == 13
EXIT_JUDGE == 21
EXIT_TIMEOUT == 36
OJ_SE == 9
SIGKILL == 9
SIGSTOP == 19

NoStatus == <<"none", 0>>
Ended == {<<"exited", EXIT_OK>>, <<"exited", EXIT_COMPILE_ERROR>>,
          <<"exited", EXIT_JUDGE>>, <<"exited", EXIT_TIMEOUT>>,
          <<"signaled", SIGKILL>>}
Stopped == <<"stopped", SIGSTOP>>
Status == Ended \cup {NoStatus, Stopped}

ASSUME JudgedAssumption ==
  /\ sid \in [Request -> Nat] /\ cid \in [Request -> Int]
  /\ Faults \subseteq FaultKind /\ Endings \subseteq Ended
  /\ MaxSigterm \in Nat
  /\ NotRequests \cap Request = {}
  /\ NoReq \notin {Missing, Empty, Stale, SE}
  /\ Missing \notin {Empty, Stale, SE} /\ Empty \notin {Stale, SE} /\ Stale # SE

\* The directory of a submission: contests have one of their own.
WorkDir(r) == <<IF cid[r] > 0 THEN cid[r] ELSE 0, sid[r]>>
Dir == {WorkDir(r) : r \in Request}

Thread(w) == <<w, "thread">>
Clone(w) == <<w, "clone">>
Loop == Worker \X {"thread", "clone"}
IsThread(l) == l[2] = "thread"
Job == Loop \X Request

VARIABLES
  isRunning,    \* the global flag the signal handler clears
  daemon,       \* "up", "exited" (main returned) or "killed"
  sigterms,     \* SIGTERMs so far
  mpc, conn,    \* main thread: next statement, submission being received
  served,       \* submissions whose client has connected
  acks,         \* submissions acknowledged, in order
  ProcessQueue, \* submissions acknowledged and not yet taken
  SendQueue,    \* outcomes [code, req] for the sender
  pc, cur,      \* of each loop: next statement, its local oj_solution
  copy,         \* copy[w]: the clone's private copy of ProcessQueue
  phase,        \* of each job: how far the process has come
  status,       \* of each job: the status waitpid returns for it
  late,         \* jobs a worker forked after isRunning was cleared
  file,         \* of each directory: what result.txt holds
  spc, item,    \* sender: next statement, the outcome in hand
  out,          \* sender: the verdict it is about to post
  posts,        \* verdicts delivered, [req, by], in order
  undelivered   \* submissions whose verdict was lost in transfer

life == <<isRunning, daemon, sigterms>>
main == <<mpc, conn, served, acks>>
loops == <<pc, cur, copy, late>>
jobs == <<phase, status, file>>
sender == <<spc, item, out, posts, undelivered>>
queues == <<ProcessQueue, SendQueue>>
vars == <<life, main, loops, jobs, sender, queues>>

\* A job has ended: with a complete result, or without one; "silent" is
\* without one and with the status of a compile error.
Over == {"ended", "failed", "silent"}

\* A job that goes on; it may be stopped, which its status says.
Living == {"running", "truncated", "written"}

\* Mutant: waitpid with WNOHANG, which returns for a running child too.
ReportedAtOnce(j) == phase[j] \in Over \cup Living

\* What waitpid with WUNTRACED returns for.
Reported(j) == phase[j] \in Over \/ status[j] = Stopped

Code == {EXIT_OK, EXIT_COMPILE_ERROR, EXIT_FORK_ERROR, EXIT_JUDGE,
         EXIT_TIMEOUT, OJ_SE, SIGKILL, SIGSTOP}
Item == [code : Code, req : Request]
NoItem == [code |-> EXIT_OK, req |-> NoReq]
Verdict == Request \cup {Stale, SE}

LifeTypeOK == /\ isRunning \in BOOLEAN
              /\ daemon \in {"up", "exited", "killed"}
              /\ sigterms \in Nat

MainTypeOK ==
  /\ mpc \in {"test", "accept", "password", "request", "push"}
  /\ conn \in Request \cup {NoReq}
  /\ conn = NoReq <=> mpc \in {"test", "accept"}
  /\ served \in SUBSET Request
  /\ acks \in Seq(Request)

LoopTypeOK ==
  /\ pc \in [Loop -> {"absent", "test", "get", "fork", "wait", "done", "wedged"}]
  /\ cur \in [Loop -> Request \cup {NoReq}]
  /\ \A l \in Loop : cur[l] # NoReq <=> pc[l] \in {"fork", "wait"}
  /\ copy \in [Worker -> Seq(Request)]
  /\ late \in SUBSET Job

JobTypeOK ==
  /\ phase \in [Job -> {"none", "cloned"} \cup Living \cup Over]
  /\ status \in [Job -> Status]
  /\ file \in [Dir -> Request \cup {Missing, Empty, Stale}]

SenderTypeOK ==
  /\ spc \in {"test", "get", "read", "post", "done"}
  /\ item \in Item \cup {NoItem}
  /\ item # NoItem <=> spc \in {"read", "post"}
  /\ out \in Verdict
  /\ posts \in Seq([req : Request, by : Verdict])
  /\ undelivered \in SUBSET Request

QueueTypeOK == /\ ProcessQueue \in Seq(Request)
               /\ SendQueue \in Seq(Item)

TypeOK == /\ LifeTypeOK /\ MainTypeOK /\ LoopTypeOK
          /\ JobTypeOK /\ SenderTypeOK /\ QueueTypeOK

Init ==
  /\ isRunning = TRUE /\ daemon = "up" /\ sigterms = 0
  /\ mpc = "test" /\ conn = NoReq /\ served = {} /\ acks = <<>>
  /\ ProcessQueue = <<>> /\ SendQueue = <<>>
  /\ pc = [l \in Loop |-> IF IsThread(l) THEN "test" ELSE "absent"]
  /\ cur = [l \in Loop |-> NoReq]
  /\ copy = [w \in Worker |-> <<>>]
  /\ phase = [j \in Job |-> "none"] /\ status = [j \in Job |-> NoStatus]
  /\ late = {}
  /\ file \in [Dir -> {Missing, Stale}]
  /\ spc = "test" /\ item = NoItem /\ out = SE
  /\ posts = <<>> /\ undelivered = {}

-----------------------------------------------------------------------------
(* The main thread *)

\* while (isRunning); when it ends main removes the pid file and returns,
\* and every thread of the process ends with it.
MainTest ==
  /\ daemon = "up" /\ mpc = "test"
  /\ \/ isRunning /\ mpc' = "accept" /\ UNCHANGED daemon
     \/ ~isRunning /\ daemon' = "exited" /\ UNCHANGED mpc
  /\ UNCHANGED <<isRunning, sigterms, conn, served, acks>>
  /\ UNCHANGED <<loops, jobs, sender, queues>>

\* A client connects and accept returns.
Accept(r) ==
  /\ daemon = "up" /\ mpc = "accept"
  /\ r \notin served
  /\ served' = served \cup {r}
  /\ mpc' = "password" /\ conn' = r
  /\ UNCHANGED acks
  /\ UNCHANGED <<life, loops, jobs, sender, queues>>

\* The connection is closed without an acknowledgement.
HangUp == /\ mpc' = "test" /\ conn' = NoReq
          /\ UNCHANGED <<served, acks>>

\* The first read returns, with the password or with anything else.
Password ==
  /\ daemon = "up" /\ mpc = "password"
  /\ \/ HangUp
     \/ mpc' = "request" /\ UNCHANGED <<conn, served, acks>>
  /\ UNCHANGED <<life, loops, jobs, sender, queues>>

\* The second read returns.  A request that parses is acknowledged and the
\* connection closed; it is not on ProcessQueue yet.
ReadRequest ==
  /\ daemon = "up" /\ mpc = "request"
  /\ \/ HangUp
     \/ /\ mpc' = "push"
        /\ acks' = Append(acks, conn)
        /\ UNCHANGED <<conn, served>>
  /\ UNCHANGED <<life, loops, jobs, sender, queues>>

\* Mutant: the newest submission first.
PushInFront ==
  /\ daemon = "up" /\ mpc = "push"
  /\ ProcessQueue' = <<conn>> \o ProcessQueue
  /\ mpc' = "test" /\ conn' = NoReq
  /\ UNCHANGED <<served, acks, SendQueue>>
  /\ UNCHANGED <<life, loops, jobs, sender>>

\* ProcessQueue.push(oj_solution)
PushRequest ==
  /\ daemon = "up" /\ mpc = "push"
  /\ ProcessQueue' = Append(ProcessQueue, conn)
  /\ mpc' = "test" /\ conn' = NoReq
  /\ UNCHANGED <<served, acks, SendQueue>>
  /\ UNCHANGED <<life, loops, jobs, sender>>

-----------------------------------------------------------------------------
(* Loops: a worker thread, or its clone *)

\* The threads end with the daemon; the clones are processes of their own.
CanStep(l) == IsThread(l) => daemon = "up"

\* Mutant: a failure is logged and not reported.
PushIfSucceeded(l, code) ==
  IF IsThread(l) /\ code = EXIT_OK
  THEN SendQueue' = Append(SendQueue, [code |-> code, req |-> cur[l]])
  ELSE UNCHANGED SendQueue

\* Mutant: the clone shares the daemon's memory, as after vfork.
PushShared(l, code) ==
  SendQueue' = Append(SendQueue, [code |-> code, req |-> cur[l]])

\* Mutant: the newest outcome first.
PushOutcomeInFront(l, code) ==
  IF IsThread(l)
  THEN SendQueue' = <<[code |-> code, req |-> cur[l]]>> \o SendQueue
  ELSE UNCHANGED SendQueue

\* SendQueue.push: a clone pushes on a private copy that nobody reads.
Push(l, code) ==
  IF IsThread(l)
  THEN SendQueue' = Append(SendQueue, [code |-> code, req |-> cur[l]])
  ELSE UNCHANGED SendQueue

\* Mutant: the submission judged last is still there for the next round.
ReturnWithSolution(l) == /\ pc' = [pc EXCEPT ![l] = "test"]
                         /\ UNCHANGED cur

\* run returns to the loop.
Return(l) == /\ pc' = [pc EXCEPT ![l] = "test"]
             /\ cur' = [cur EXCEPT ![l] = NoReq]

\* Mutant: while (true).
LoopForever(l) ==
  /\ CanStep(l) /\ pc[l] = "test"
  /\ pc' = [pc EXCEPT ![l] = "get"]
  /\ UNCHANGED <<cur, copy, late>>
  /\ UNCHANGED <<life, main, jobs, sender, queues>>

\* while (isRunning) of ThreadWork; a clone was forked while it was set, and
\* its copy of the flag does not change.
LoopTest(l) ==
  /\ CanStep(l) /\ pc[l] = "test"
  /\ pc' = [pc EXCEPT ![l] = IF isRunning \/ ~IsThread(l) THEN "get" ELSE "done"]
  /\ UNCHANGED <<cur, copy, late>>
  /\ UNCHANGED <<life, main, jobs, sender, queues>>

\* ProcessQueue.GetFrontAndPop() in a worker thread.
Take(w) ==
  /\ daemon = "up" /\ pc[Thread(w)] = "get"
  /\ ProcessQueue # <<>>
  /\ ProcessQueue' = Tail(ProcessQueue)
  /\ cur' = [cur EXCEPT ![Thread(w)] = Head(ProcessQueue)]
  /\ pc' = [pc EXCEPT ![Thread(w)] = "fork"]
  /\ UNCHANGED <<copy, late, SendQueue>>
  /\ UNCHANGED <<life, main, jobs, sender>>

\* Mutant: the clone reads the front of its copy and does not pop it.
TakeCopyKept(w) ==
  /\ pc[Clone(w)] = "get"
  /\ copy[w] # <<>>
  /\ cur' = [cur EXCEPT ![Clone(w)] = Head(copy[w])]
  /\ pc' = [pc EXCEPT ![Clone(w)] = "fork"]
  /\ UNCHANGED <<copy, late>>
  /\ UNCHANGED <<life, main, jobs, sender, queues>>

\* ProcessQueue.GetFrontAndPop() in a clone, on its copy.
TakeCopy(w) ==
  /\ pc[Clone(w)] = "get"
  /\ copy[w] # <<>>
  /\ copy' = [copy EXCEPT ![w] = Tail(copy[w])]
  /\ cur' = [cur EXCEPT ![Clone(w)] = Head(copy[w])]
  /\ pc' = [pc EXCEPT ![Clone(w)] = "fork"]
  /\ UNCHANGED late
  /\ UNCHANGED <<life, main, jobs, sender, queues>>

\* Mutant: a submission whose fork fails is queued again, to be retried.
ForkFailsRequeued(l) ==
  /\ "fork" \in Faults
  /\ CanStep(l) /\ pc[l] = "fork"
  /\ ProcessQueue' = Append(ProcessQueue, cur[l])
  /\ Return(l)
  /\ UNCHANGED <<copy, late, SendQueue>>
  /\ UNCHANGED <<life, main, jobs, sender>>

ForkFails(l) ==
  /\ "fork" \in Faults
  /\ CanStep(l) /\ pc[l] = "fork"
  /\ Push(l, EXIT_FORK_ERROR)
  /\ Return(l)
  /\ UNCHANGED <<copy, late, ProcessQueue>>
  /\ UNCHANGED <<life, main, jobs, sender>>

\* The job that loop l has forked, or is about to fork.
JobOf(l) == <<l, cur[l]>>

Fork(l) ==
  /\ CanStep(l) /\ pc[l] = "fork"
  /\ late' = IF IsThread(l) /\ ~isRunning THEN late \cup {JobOf(l)} ELSE late
  /\ UNCHANGED cur

\* The child becomes powerjudge.
Spawn(l) ==
  /\ Fork(l)
  /\ pc' = [pc EXCEPT ![l] = "wait"]
  /\ phase' = [phase EXCEPT ![JobOf(l)] = "running"]
  /\ UNCHANGED <<copy, status, file>>
  /\ UNCHANGED <<life, main, sender, queues>>

\* execl fails in the child of a worker thread, which pushes EXIT_EXEC_ERROR
\* on its own SendQueue and goes on as a clone; or stops for ever at a mutex
\* that another thread held at the fork; or, if isRunning is no longer set,
\* leaves ThreadWork and so ends the child with status 0.
\* Bound: one clone per worker.
ExecFails(w) ==
  /\ "exec" \in Faults
  /\ Fork(Thread(w))
  /\ pc[Clone(w)] = "absent"
  /\ \/ /\ isRunning
        /\ pc' = [pc EXCEPT ![Thread(w)] = "wait", ![Clone(w)] = "test"]
        /\ copy' = [copy EXCEPT ![w] = ProcessQueue]
        /\ phase' = [phase EXCEPT ![JobOf(Thread(w))] = "cloned"]
        /\ UNCHANGED status
     \/ /\ ~isRunning
        /\ pc' = [pc EXCEPT ![Thread(w)] = "wait", ![Clone(w)] = "done"]
        /\ phase' = [phase EXCEPT ![JobOf(Thread(w))] = "failed"]
        /\ status' = [status EXCEPT ![JobOf(Thread(w))] = <<"exited", EXIT_OK>>]
        /\ UNCHANGED copy
     \/ /\ pc' = [pc EXCEPT ![Thread(w)] = "wait", ![Clone(w)] = "wedged"]
        /\ phase' = [phase EXCEPT ![JobOf(Thread(w))] = "cloned"]
        /\ UNCHANGED <<copy, status>>
  /\ UNCHANGED file
  /\ UNCHANGED <<life, main, sender, queues>>

\* execl fails again in a clone: the clone waits for ever for its child, and
\* the child goes on in its place.
ExecFailsAgain(w) ==
  /\ "exec" \in Faults
  /\ pc[Clone(w)] = "fork"
  /\ phase' = [phase EXCEPT ![JobOf(Clone(w))] = "cloned"]
  /\ Return(Clone(w))
  /\ UNCHANGED <<copy, late, status, file>>
  /\ UNCHANGED <<life, main, sender, queues>>

\* Mutant: every normal termination is a success.
CodeForAnyExit(s) == IF s[1] = "exited" THEN EXIT_OK ELSE s[2]

\* What run pushes for the status waitpid has returned.
CodeFor(s) ==
  IF s[1] = "exited"
  THEN CASE s[2] \in {EXIT_OK, EXIT_COMPILE_ERROR} -> EXIT_OK
         [] s[2] = EXIT_JUDGE -> OJ_SE
         [] OTHER -> s[2]
  ELSE s[2]

\* waitpid returns because the child has ended or is stopped; the status is
\* handed out once.
Reap(l) ==
  /\ CanStep(l) /\ pc[l] = "wait"
  /\ Reported(JobOf(l))
  /\ Push(l, CodeFor(status[JobOf(l)]))
  /\ status' = [status EXCEPT ![JobOf(l)] = NoStatus]
  /\ Return(l)
  /\ UNCHANGED <<copy, late, ProcessQueue, phase, file>>
  /\ UNCHANGED <<life, main, sender>>

-----------------------------------------------------------------------------
(* Jobs: the powerjudge processes *)

Advance(j, from, to) ==
  /\ phase[j] = from /\ status[j] # Stopped
  /\ phase' = [phase EXCEPT ![j] = to]
  /\ UNCHANGED <<life, main, loops, sender, queues>>

\* fopen("result.txt", "w")
OpenResult(j) ==
  /\ Advance(j, "running", "truncated")
  /\ file' = [file EXCEPT ![WorkDir(j[2])] = Empty]
  /\ UNCHANGED status

\* fclose; of two jobs that write one file, the last leaves its result.
WriteResult(j) ==
  /\ Advance(j, "truncated", "written")
  /\ file' = [file EXCEPT ![WorkDir(j[2])] = j[2]]
  /\ UNCHANGED status

\* Mutant: SIGCHLD is ignored, so that the kernel keeps no status.
ExitUnseen(j) ==
  /\ Advance(j, "running", "failed")
  /\ status' = [status EXCEPT ![j] = NoStatus]
  /\ UNCHANGED file

\* The process ends: in success or with a compile error once result.txt is
\* written; with the same status 6 when the compiler could not be run, and
\* nothing is written; by its own timeout or by a signal anywhere.
Exit(j) ==
  \E s \in Endings :
    /\ \/ /\ s # <<"exited", EXIT_OK>>
          /\ Advance(j, "running", IF s = <<"exited", EXIT_COMPILE_ERROR>>
                                   THEN "silent" ELSE "failed")
       \/ /\ s \in {<<"exited", EXIT_TIMEOUT>>, <<"signaled", SIGKILL>>}
          /\ Advance(j, "truncated", "failed")
       \/ /\ s # <<"exited", EXIT_JUDGE>>
          /\ Advance(j, "written", "ended")
    /\ status' = [status EXCEPT ![j] = s]
    /\ UNCHANGED file

\* A signal stops the process wherever it is, while its loop waits for it: a
\* stop that waitpid does not report is only a delay, and so is the time for
\* which the process stays stopped once it has been reported.
Stop(j) ==
  /\ "stop" \in Faults
  /\ phase[j] \in Living
  /\ pc[j[1]] = "wait" /\ cur[j[1]] = j[2]
  /\ status' = [status EXCEPT ![j] = Stopped]
  /\ UNCHANGED <<life, main, loops, sender, queues, phase, file>>

Continue(j) ==
  /\ phase[j] \in Living /\ status[j] = Stopped
  /\ status' = [status EXCEPT ![j] = NoStatus]
  /\ UNCHANGED <<life, main, loops, sender, queues, phase, file>>

-----------------------------------------------------------------------------
(* The sender *)

\* while (isRunning) of SendWork
SendTest ==
  /\ daemon = "up" /\ spc = "test"
  /\ spc' = IF isRunning THEN "get" ELSE "done"
  /\ UNCHANGED <<item, out, posts, undelivered>>
  /\ UNCHANGED <<life, main, loops, jobs, queues>>

\* SendQueue.GetFrontAndPop()
SendTake ==
  /\ daemon = "up" /\ spc = "get"
  /\ SendQueue # <<>>
  /\ item' = Head(SendQueue) /\ SendQueue' = Tail(SendQueue)
  /\ spc' = "read"
  /\ UNCHANGED <<out, posts, undelivered, ProcessQueue>>
  /\ UNCHANGED <<life, main, loops, jobs>>

\* Mutant: the number of fields that fscanf has read is not examined.
ReadableIfOpened(content) == content # Missing

\* fopen succeeds and fscanf reads four numbers.
Readable(content) == content \notin {Missing, Empty}

\* update_result for EXIT_OK: the file as it is now.  A file that is absent
\* or has fewer than four numbers is a system error, as is any other code.
ReadResult ==
  /\ daemon = "up" /\ spc = "read"
  /\ LET content == file[WorkDir(item.req)]
     IN  out' = IF item.code = EXIT_OK /\ Readable(content) THEN content ELSE SE
  /\ spc' = "post"
  /\ UNCHANGED <<item, posts, undelivered>>
  /\ UNCHANGED <<life, main, loops, jobs, queues>>

\* send_multi_result cannot initialise curl and calls update_system_error,
\* which calls send_multi_result again.
CurlInitFails ==
  /\ "curl" \in Faults
  /\ daemon = "up" /\ spc = "post"
  /\ out' = SE
  /\ UNCHANGED <<spc, item, posts, undelivered>>
  /\ UNCHANGED <<life, main, loops, jobs, queues>>

\* Nor can it ever: each calls the other until the stack is full, which ends
\* the daemon.
StackOverflows ==
  /\ "curl" \in Faults
  /\ daemon = "up" /\ spc = "post"
  /\ daemon' = "killed"
  /\ UNCHANGED <<isRunning, sigterms>>
  /\ UNCHANGED <<main, loops, jobs, sender, queues>>

\* The transfer ends; whether it succeeded is not examined.  It has no
\* timeout: with a web application that does not answer it never ends.
Post ==
  /\ daemon = "up" /\ spc = "post"
  /\ \/ /\ posts' = Append(posts, [req |-> item.req, by |-> out])
        /\ UNCHANGED undelivered
     \/ /\ "http" \in Faults
        /\ undelivered' = undelivered \cup {item.req}
        /\ UNCHANGED posts
  /\ spc' = "test" /\ item' = NoItem /\ out' = SE
  /\ UNCHANGED <<life, main, loops, jobs, queues>>

-----------------------------------------------------------------------------
(* Signals and the end of the daemon *)

\* Bound: MaxSigterm signals.
Sigterm == /\ daemon = "up"
           /\ sigterms < MaxSigterm
           /\ sigterms' = sigterms + 1
           /\ isRunning' = FALSE
           /\ UNCHANGED daemon

\* The handler runs in the main thread.  The system call it interrupts, if
\* it has begun, fails with EINTR, since sa_flags has no SA_RESTART: accept
\* returns to the loop, a read of the client ends the connection.
SigtermInMain ==
  /\ "term" \in Faults
  /\ Sigterm
  /\ \/ UNCHANGED main
     \/ mpc = "accept" /\ mpc' = "test" /\ UNCHANGED <<conn, served, acks>>
     \/ mpc \in {"password", "request"} /\ HangUp
  /\ UNCHANGED <<loops, jobs, sender, queues>>

\* The handler runs in a worker: waitpid returns -1 and leaves status = 0,
\* which WIFEXITED takes for a normal end with status 0.
SigtermInWorker(w) ==
  /\ "strayTerm" \in Faults
  /\ Sigterm
  /\ pc[Thread(w)] = "wait"
  /\ Push(Thread(w), CodeFor(<<"exited", 0>>))
  /\ Return(Thread(w))
  /\ UNCHANGED <<copy, late, ProcessQueue>>
  /\ UNCHANGED <<main, jobs, sender>>

\* A reply is written to a client that is gone: SIGPIPE, not handled.
ReplyToGonePeer ==
  /\ "pipe" \in Faults
  /\ daemon = "up" /\ mpc \in {"password", "request"}
  /\ daemon' = "killed"
  /\ UNCHANGED <<isRunning, sigterms>>
  /\ UNCHANGED <<main, loops, jobs, sender, queues>>

\* The daemon is killed, or exits because it cannot write its log.
Kill ==
  /\ "kill" \in Faults
  /\ daemon = "up" /\ daemon' = "killed"
  /\ UNCHANGED <<isRunning, sigterms>>
  /\ UNCHANGED <<main, loops, jobs, sender, queues>>

-----------------------------------------------------------------------------
LoopStep(l) == LoopTest(l) \/ Spawn(l) \/ Reap(l)
ThreadStep(w) == LoopStep(Thread(w)) \/ Take(w)
JobStep(j) == OpenResult(j) \/ WriteResult(j) \/ Exit(j)
SenderStep == SendTest \/ SendTake \/ ReadResult \/ Post

Next ==
  \/ MainTest \/ Password \/ ReadRequest \/ PushRequest
  \/ \E r \in Request : Accept(r)
  \/ \E l \in Loop : LoopStep(l) \/ ForkFails(l)
  \/ \E w \in Worker : Take(w) \/ TakeCopy(w) \/ ExecFails(w) \/ ExecFailsAgain(w)
  \/ \E j \in Job : JobStep(j) \/ Stop(j) \/ Continue(j)
  \/ SenderStep \/ CurlInitFails \/ StackOverflows
  \/ SigtermInMain \/ \E w \in Worker : SigtermInWorker(w)
  \/ ReplyToGonePeer \/ Kill

Spec == Init /\ [][Next]_vars

\* A thread that can run does run.  Nothing says that a powerjudge process
\* ends or that the web application answers, and what clients, signals and
\* faults do is not fair either.
Fairness ==
  /\ WF_vars(MainTest \/ PushRequest)
  /\ \A w \in Worker : WF_vars(ThreadStep(w))
  /\ WF_vars(SendTest \/ SendTake \/ ReadResult)

FairSpec == Spec /\ Fairness

-----------------------------------------------------------------------------
(* Properties *)

Elems(seq) == {seq[i] : i \in DOMAIN seq}

Accepted == Elems(acks)

\* The places an acknowledged submission can be.
Place == {"main", "ProcessQueue", "worker", "SendQueue", "sender", "posted",
          "undelivered"}

Judging(w) == pc[Thread(w)] \in {"fork", "wait"}

IsAt(r, place) ==
  \/ place = "main" /\ mpc = "push" /\ conn = r
  \/ place = "ProcessQueue" /\ \E i \in DOMAIN ProcessQueue : ProcessQueue[i] = r
  \/ place = "worker" /\ \E w \in Worker : Judging(w) /\ cur[Thread(w)] = r
  \/ place = "SendQueue" /\ \E i \in DOMAIN SendQueue : SendQueue[i].req = r
  \/ place = "sender" /\ spc \in {"read", "post"} /\ item.req = r
  \/ place = "posted" /\ \E i \in DOMAIN posts : posts[i].req = r
  \/ place = "undelivered" /\ r \in undelivered

Places(r) == {p \in Place : IsAt(r, p)}

\* No acknowledged submission disappears inside the daemon, and nothing that
\* was not acknowledged appears: whatever faults happen, each is in the hands
\* of one of the threads, on a queue, reported, or lost in transfer.  Threads
\* and queues end with the process: of a dead daemon this says only what it
\* had in hand, all of which is then forgotten but what was reported.
NothingLost == \A r \in Request : r \in Accepted <=> Places(r) # {}

InOnePlace == \A r \in Request : \A p1, p2 \in Places(r) : p1 = p2

OnceThere ==
  /\ \A i, j \in DOMAIN ProcessQueue : ProcessQueue[i] = ProcessQueue[j] => i = j
  /\ \A v, w \in Worker :
       Judging(v) /\ Judging(w) /\ cur[Thread(v)] = cur[Thread(w)] => v = w
  /\ \A i, j \in DOMAIN SendQueue : SendQueue[i].req = SendQueue[j].req => i = j
  /\ \A i, j \in DOMAIN posts : posts[i].req = posts[j].req => i = j

\* And it is in one place only, once: none is judged twice by the daemon's
\* threads or reported twice, whatever an interrupted waitpid, a failed fork
\* or a clone with a copy of the queue does.
NothingTwice == InOnePlace /\ OnceThere

\* The steps of a submission's way through the daemon.
NextPlace == {<<"main", "ProcessQueue">>, <<"ProcessQueue", "worker">>,
              <<"worker", "SendQueue">>, <<"SendQueue", "sender">>,
              <<"sender", "posted">>, <<"sender", "undelivered">>}

\* A submission enters the daemon by its acknowledgement and then goes one
\* place on at a time, never back and never past one: no fault, retry or
\* interrupted wait requeues it, and what is posted stays posted.  So it can
\* be delayed, but not for ever by steps of its own.
OnwardOnly ==
  [][\A r \in Request :
       \/ Places(r)' = Places(r)
       \/ Places(r) = {} /\ Places(r)' = {"main"}
       \/ \E move \in NextPlace :
            Places(r) = {move[1]} /\ Places(r)' = {move[2]}]_vars

\* Submissions are judged in the order of their acknowledgements: what waits
\* in ProcessQueue, and in the main thread's hand, is the end of acks.
Waiting == IF mpc = "push" THEN Append(ProcessQueue, conn) ELSE ProcessQueue
FirstComeFirstJudged ==
  /\ Len(Waiting) <= Len(acks)
  /\ \A i \in 1 .. Len(Waiting) :
       Waiting[i] = acks[Len(acks) - Len(Waiting) + i]

\* Once SIGTERM is handled each worker starts one more submission at most:
\* the one it takes while it is already past its test of isRunning.
OneMoreJobAfterSigterm ==
  \A w \in Worker : Cardinality({j \in late : j[1] = Thread(w)}) <= 1

\* EXIT_OK tells the sender that result.txt is complete: the powerjudge run
\* for the submission is over ("normal termination" in run).
OkMeansEnded ==
  \A w \in Worker, r \in Request :
    /\ \/ [code |-> EXIT_OK, req |-> r] \in Elems(SendQueue)
       \/ item = [code |-> EXIT_OK, req |-> r]
    /\ phase[<<Thread(w), r>>] # "none"
    => phase[<<Thread(w), r>>] \in Over

\* A worker that waits can be woken: its child is alive, or has ended and its
\* status is still to be handed out.  Whoever waits for ever waits for a
\* child that goes on as a clone, never for one that is gone.
WaitsForChild ==
  \A w \in Worker :
    LET j == JobOf(Thread(w))
    IN  pc[Thread(w)] = "wait" =>
          /\ phase[j] # "none"
          /\ phase[j] \in Over => status[j] # NoStatus
          /\ phase[j] = "cloned" => pc[Clone(w)] \notin {"absent", "done"}

AckPosition(r) == CHOOSE i \in DOMAIN acks : acks[i] = r

\* With one worker verdicts are posted in the order of the acknowledgements.
ReportedInOrder ==
  \A i, j \in DOMAIN posts :
    i < j => AckPosition(posts[i].req) < AckPosition(posts[j].req)

\* With one worker the verdict posted for a submission is its own, that of a
\* later submission in the same directory (a rejudge that has overwritten
\* result.txt), or a system error; it is older only when powerjudge ended
\* with status 6 and wrote nothing.
FreshVerdict ==
  \A i \in DOMAIN posts, w \in Worker :
    LET r == posts[i].req
        v == posts[i].by
    IN  \/ v \in {r, SE}
        \/ v \in Request /\ AckPosition(v) > AckPosition(r)
        \/ phase[<<Thread(w), r>>] = "silent"

SameDir(r) == {v \in Request : WorkDir(v) = WorkDir(r)}

\* However many workers share the directories, the verdict posted is never
\* what result.txt held before the daemon started: a judging run of this
\* life has written it in the submission's directory, or it is a system
\* error.  The exception is again the status 6 that leaves no result.
NotFromBefore ==
  \A i \in DOMAIN posts :
    LET r == posts[i].req
    IN  \/ posts[i].by \in SameDir(r) \cup {SE}
        \/ \E w \in Worker : phase[<<Thread(w), r>>] = "silent"

\* The comment "SE" beside exit(EXIT_COMPILE_ERROR) in judge.cpp: a run that
\* ends so without a result is reported as a system error.
SilentFailureIsSystemError ==
  \A i \in DOMAIN posts, w \in Worker :
    phase[<<Thread(w), posts[i].req>>] = "silent" => posts[i].by = SE

\* A job as JudgeProcess sees it: one that is stopped is as before, and how it
\* has ended otherwise shows in its status.
Process(j) == INSTANCE JudgeProcess
  WITH Other <- EXIT_TIMEOUT,
       phase <- IF phase[j] \in Over THEN "ended" ELSE phase[j],
       status <- CASE status[j][1] = "signaled" -> <<"signaled", 0>>
                   [] status[j][1] = "stopped" -> NoStatus
                   [] OTHER -> status[j]

BehavesInStep(j) ==
  /\ phase[j] \in Living => [Process(j)!Next]_(Process(j)!vars)
  /\ phase[j] \notin Living /\ phase'[j] \in Living
     => phase[j] = "none" /\ Process(j)!Init'

\* From its fork to its end a job is a JudgeProcess, which JudgeRun shows the
\* powerjudge process to be: whatever the daemon's threads, its clones and its
\* faults do in the meantime, none of them restarts the job, takes its status
\* before there is one, or makes it end otherwise.
JobsBehave == [][\A j \in Job : BehavesInStep(j)]_vars

\* A worker waits for a powerjudge process that has not ended.
WaitsForRun(w) == pc[Thread(w)] = "wait" /\ phase[JobOf(Thread(w))] \notin Over

\* What a submission can wait for: a transfer, its own run, or, on
\* ProcessQueue, a run of every worker.
HeldUp(r) ==
  \/ spc = "post"
  \/ \E w \in Worker : WaitsForRun(w) /\ cur[Thread(w)] = r
  \/ IsAt(r, "ProcessQueue") /\ \A w \in Worker : WaitsForRun(w)

\* Liveness: an acknowledged submission is reported or lost in transfer,
\* unless it is held up for ever or the daemon dies.  Nothing else in the
\* daemon delays it for ever: no queue, failing call or idle thread; and a run
\* that does not end holds up no submission but its own while another worker
\* is free.
AckedIsReported ==
  \A r \in Request :
    r \in Accepted ~> \/ IsAt(r, "posted") \/ IsAt(r, "undelivered")
                      \/ daemon = "killed"
                      \/ []HeldUp(r)

\* Liveness: the daemon exits after SIGTERM, as its log says it is doing.
SigtermExits == ~isRunning ~> daemon = "exited"

\* Judged implements JudgeService.
StageOf(r) == IF IsAt(r, "posted") THEN "reported"
              ELSE IF r \in undelivered THEN "undelivered"
              ELSE IF r \in Accepted THEN "accepted"
              ELSE IF r \in served /\ conn # r THEN "refused"
              ELSE "new"

Service == INSTANCE JudgeService
  WITH Possible <- [r \in Request |-> SameDir(r) \cup {Stale, SE}],
       stage <- [r \in Request |-> StageOf(r)],
       verdict <- [r \in Request |->
                     IF IsAt(r, "posted")
                     THEN posts[CHOOSE i \in DOMAIN posts : posts[i].req = r].by
                     ELSE NoReq],
       NoVerdict <- NoReq

ImplementsJudgeService == Service!Spec
=============================================================================
