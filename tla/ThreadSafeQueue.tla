-------------------------- MODULE ThreadSafeQueue --------------------------
(***************************************************************************)
(* ThreadSafeQueue<T> of thread_safe_queue.hpp: a std::queue under a       *)
(* mutex, with a condition variable on which consumers wait for an item.   *)
(*                                                                         *)
(* The daemon has two of them.  ProcessQueue has one producer, the main    *)
(* thread, and thread_num consumers; SendQueue has thread_num producers    *)
(* and one consumer, the sender.  Both are instances of this module.       *)
(*                                                                         *)
(* Every statement that touches shared state is a step of its own, so the  *)
(* interleavings are those of the code.  A mutex is granted to any thread  *)
(* that asks for it while it is free, and a wait on the condition variable *)
(* may end without a notification, as the C++ standard allows.             *)
(***************************************************************************)
EXTENDS Naturals, Sequences, FiniteSets

CONSTANTS Producers,  \* threads that call push
          Consumers,  \* threads that call GetFrontAndPop, in a loop
          Items,      \* values of the element type T
          None,       \* a local variable `ret' that holds no item
          Free,       \* the owner of an unlocked mutex
          MaxPush     \* bound on the number of pushes a behaviour makes

Threads == Producers \cup Consumers

ASSUME QueueAssumption ==
  /\ IsFiniteSet(Producers) /\ IsFiniteSet(Consumers)
  /\ Producers \cap Consumers = {}
  /\ Free \notin Threads
  /\ None \notin Items
  /\ MaxPush \in Nat

VARIABLES q,       \* std::queue<T> q
          mut,     \* the thread that owns std::mutex mut, or Free
          pc,      \* the next statement of each thread
          arg,     \* arg[p]: the parameter x of p's push
          ret,     \* ret[c]: the local copy of the front item
          pushed   \* pushes begun so far, for the bound only

vars == <<q, mut, pc, arg, ret, pushed>>

\* Threads blocked in data_cond.wait, not yet notified.
Sleepers == {c \in Consumers : pc[c] = "asleep"}

ProducerPc == {"idle", "push", "notify", "unlock"}
ConsumerPc == {"idle", "test", "asleep", "awake", "front", "pop", "unlock"}

TypeOK ==
  /\ q \in Seq(Items)
  /\ mut \in Threads \cup {Free}
  /\ pc \in [Threads -> ProducerPc \cup ConsumerPc]
  /\ \A p \in Producers : pc[p] \in ProducerPc
  /\ \A c \in Consumers : pc[c] \in ConsumerPc
  /\ arg \in [Producers -> Items \cup {None}]
  /\ ret \in [Consumers -> Items \cup {None}]
  /\ pushed \in Nat

Init ==
  /\ q = <<>>
  /\ mut = Free
  /\ pc = [t \in Threads |-> "idle"]
  /\ arg = [p \in Producers |-> None]
  /\ ret = [c \in Consumers |-> None]
  /\ pushed = 0

Goto(t, label) == pc' = [pc EXCEPT ![t] = label]

-----------------------------------------------------------------------------
(* push *)

\* A producer calls push(x) and gets the mutex.
LockForPush(p, x) ==
  /\ pc[p] = "idle"
  /\ mut = Free
  /\ pushed < MaxPush
  /\ mut' = p
  /\ arg' = [arg EXCEPT ![p] = x]
  /\ pushed' = pushed + 1
  /\ Goto(p, "push")
  /\ UNCHANGED <<q, ret>>

\* Mutant: x is moved out before it is pushed.
PushMovedFrom(p) ==
  /\ pc[p] = "push"
  /\ q' = Append(q, None)
  /\ Goto(p, "notify")
  /\ UNCHANGED <<mut, arg, ret, pushed>>

\* Mutant: a stack for a queue.
PushOnTop(p) ==
  /\ pc[p] = "push"
  /\ q' = <<arg[p]>> \o q
  /\ Goto(p, "notify")
  /\ UNCHANGED <<mut, arg, ret, pushed>>

\* q.push(x)
Push(p) ==
  /\ pc[p] = "push"
  /\ q' = Append(q, arg[p])
  /\ Goto(p, "notify")
  /\ UNCHANGED <<mut, arg, ret, pushed>>

\* Mutant: no notification.
NotifyNobody(p) ==
  /\ pc[p] = "notify"
  /\ Goto(p, "unlock")
  /\ UNCHANGED <<q, mut, arg, ret, pushed>>

\* Mutant: a notification only when the queue was empty.
NotifyIfFirst(p) ==
  /\ pc[p] = "notify"
  /\ IF Sleepers = {} \/ Len(q) > 1
     THEN Goto(p, "unlock")
     ELSE \E c \in Sleepers :
            pc' = [pc EXCEPT ![p] = "unlock", ![c] = "awake"]
  /\ UNCHANGED <<q, mut, arg, ret, pushed>>

\* data_cond.notify_one(): one sleeper, whichever, becomes runnable.
NotifyOne(p) ==
  /\ pc[p] = "notify"
  /\ IF Sleepers = {}
     THEN Goto(p, "unlock")
     ELSE \E c \in Sleepers :
            pc' = [pc EXCEPT ![p] = "unlock", ![c] = "awake"]
  /\ UNCHANGED <<q, mut, arg, ret, pushed>>

\* lk goes out of scope and push returns.
ReturnFromPush(p) ==
  /\ pc[p] = "unlock"
  /\ mut' = Free
  /\ arg' = [arg EXCEPT ![p] = None]
  /\ Goto(p, "idle")
  /\ UNCHANGED <<q, ret, pushed>>

-----------------------------------------------------------------------------
(* GetFrontAndPop *)

\* Mutant: `if' for `while': a thread that wakes up does not test again.
LockWithoutRetest(c) ==
  /\ pc[c] \in {"idle", "awake"}
  /\ mut = Free
  /\ mut' = c
  /\ Goto(c, IF pc[c] = "idle" THEN "test" ELSE "front")
  /\ UNCHANGED <<q, arg, ret, pushed>>

\* A consumer gets the mutex: on entry, or again after its wait has ended.
LockForTest(c) ==
  /\ pc[c] \in {"idle", "awake"}
  /\ mut = Free
  /\ mut' = c
  /\ Goto(c, "test")
  /\ UNCHANGED <<q, arg, ret, pushed>>

\* The predicate of wait; if the queue is empty, wait releases the mutex and
\* puts the thread to sleep in one step.
TestNotEmpty(c) ==
  /\ pc[c] = "test"
  /\ \/ /\ q # <<>>
        /\ Goto(c, "front")
        /\ UNCHANGED mut
     \/ /\ q = <<>>
        /\ Goto(c, "asleep")
        /\ mut' = Free
  /\ UNCHANGED <<q, arg, ret, pushed>>

\* The wait of c ends without a notification.
SpuriousWakeup(c) ==
  /\ pc[c] = "asleep"
  /\ Goto(c, "awake")
  /\ UNCHANGED <<q, mut, arg, ret, pushed>>

\* T ret = q.front()
Front(c) ==
  /\ pc[c] = "front"
  /\ ret' = [ret EXCEPT ![c] = Head(q)]
  /\ Goto(c, "pop")
  /\ UNCHANGED <<q, mut, arg, pushed>>

\* q.pop()
Pop(c) ==
  /\ pc[c] = "pop"
  /\ q' = Tail(q)
  /\ Goto(c, "unlock")
  /\ UNCHANGED <<mut, arg, ret, pushed>>

\* lk goes out of scope and ret is returned.
ReturnFromGet(c) ==
  /\ pc[c] = "unlock"
  /\ mut' = Free
  /\ ret' = [ret EXCEPT ![c] = None]
  /\ Goto(c, "idle")
  /\ UNCHANGED <<q, arg, pushed>>

-----------------------------------------------------------------------------
InsidePush(p) == Push(p) \/ NotifyOne(p) \/ ReturnFromPush(p)
GetFrontAndPop(c) == \/ LockForTest(c) \/ TestNotEmpty(c)
                     \/ Front(c) \/ Pop(c) \/ ReturnFromGet(c)

Next ==
  \/ \E p \in Producers : InsidePush(p) \/ \E x \in Items : LockForPush(p, x)
  \/ \E c \in Consumers : GetFrontAndPop(c) \/ SpuriousWakeup(c)

Spec == Init /\ [][Next]_vars

\* A thread that can run does run.  A call of push is the environment's
\* choice, and nothing makes a spurious wakeup happen.
Fairness == /\ \A p \in Producers : WF_vars(InsidePush(p))
            /\ \A c \in Consumers : WF_vars(GetFrontAndPop(c))

FairSpec == Spec /\ Fairness

-----------------------------------------------------------------------------
(* Properties *)

\* The threads that will look at the queue again without being woken, and
\* those that are about to wake one that will.
Attentive ==
  {t \in Threads : pc[t] \in {"awake", "test", "front", "pop", "notify"}}

\* No lost wakeup: while a consumer sleeps, every queued item has a thread of
\* its own that is on its way to take it, or is about to wake one that is.
\* Without this an item could wait in ProcessQueue beside idle workers.
NoLostWakeup == Sleepers # {} => Len(q) <= Cardinality(Attentive)

\* front and pop act on the same item, and never on an empty queue (which
\* would be undefined behaviour): the predicate tested under the mutex is
\* still true when the item is copied and when it is removed.
TestStillHolds ==
  \A c \in Consumers : /\ pc[c] = "front" => q # <<>>
                       /\ pc[c] = "pop" => q # <<>> /\ ret[c] = Head(q)

\* Liveness: once producers stop, the queue is emptied; no interleaving of
\* notify_one, sleep and spurious wakeup leaves an item behind.
Drained == q # <<>> ~> q = <<>>

\* ThreadSafeQueue implements FifoQueue: an item is handed out once, to one
\* consumer, in the order of the pushes.
Queue == INSTANCE FifoQueue
           WITH queue <- q,
                held <- [c \in Consumers |->
                           IF pc[c] = "unlock" THEN ret[c] ELSE None]

ImplementsFifoQueue == Queue!Spec
=============================================================================
