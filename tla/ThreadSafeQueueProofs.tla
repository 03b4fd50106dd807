----------------------- MODULE ThreadSafeQueueProofs -----------------------
(***************************************************************************)
(* For any finite sets of producers and consumers and any element type:    *)
(* the queue of thread_safe_queue.hpp is well typed, tests, copies and     *)
(* removes one and the same item, loses no wakeup, and implements          *)
(* FifoQueue.                                                              *)
(*                                                                         *)
(* The argument rests on mutual exclusion (Mutex): a thread that is past   *)
(* the lock and has not released it is the owner of mut, so the front of   *)
(* q can change only by its own statement.                                 *)
(***************************************************************************)
EXTENDS ThreadSafeQueue, FiniteSetTheorems, TLAPS

\* Where a thread owns the mutex.
Locked == {"push", "notify", "unlock", "test", "front", "pop"}

Mutex == \A t \in Threads : pc[t] \in Locked <=> mut = t

LocalsSet == /\ \A p \in Producers : pc[p] = "push" => arg[p] \in Items
             /\ \A c \in Consumers : pc[c] = "unlock" => ret[c] \in Items

IInv == TypeOK /\ Mutex /\ LocalsSet /\ TestStillHolds

-----------------------------------------------------------------------------
\* Facts about sequences that every step over q uses.
LEMMA HeadTail ==
  ASSUME NEW S, NEW s \in Seq(S), s # <<>>
  PROVE  /\ Head(s) \in S
         /\ Tail(s) \in Seq(S)
         /\ Len(Tail(s)) = Len(s) - 1
         /\ Len(s) \in Nat \ {0}
OBVIOUS

LEMMA AppendFacts ==
  ASSUME NEW S, NEW s \in Seq(S), NEW x \in S
  PROVE  /\ Append(s, x) \in Seq(S)
         /\ Append(s, x) # <<>>
         /\ Len(Append(s, x)) = Len(s) + 1
         /\ s # <<>> => Head(Append(s, x)) = Head(s)
OBVIOUS

-----------------------------------------------------------------------------
LEMMA InitIInv == Init => IInv
  BY QueueAssumption
  DEF Init, IInv, TypeOK, Mutex, LocalsSet, TestStillHolds, Locked, Threads,
      ProducerPc, ConsumerPc

LEMMA NextIInv == IInv /\ [Next]_vars => IInv'
<1> SUFFICES ASSUME IInv, [Next]_vars PROVE IInv'
  OBVIOUS
<1> USE QueueAssumption
        DEF IInv, TypeOK, Mutex, LocalsSet, TestStillHolds, Locked, Threads,
            ProducerPc, ConsumerPc, Goto, Sleepers
<1>1. ASSUME NEW p \in Producers, NEW x \in Items, LockForPush(p, x)
      PROVE  IInv'
  BY <1>1 DEF LockForPush
<1>2. ASSUME NEW p \in Producers, Push(p)
      PROVE  IInv'
  <2>1. q' \in Seq(Items)
    BY <1>2, AppendFacts DEF Push
  <2>2. QED
    BY <1>2, <2>1 DEF Push
<1>3. ASSUME NEW p \in Producers, NotifyOne(p)
      PROVE  IInv'
  BY <1>3 DEF NotifyOne
<1>4. ASSUME NEW p \in Producers, ReturnFromPush(p)
      PROVE  IInv'
  BY <1>4 DEF ReturnFromPush
<1>5. ASSUME NEW c \in Consumers, LockForTest(c)
      PROVE  IInv'
  BY <1>5 DEF LockForTest
<1>6. ASSUME NEW c \in Consumers, TestNotEmpty(c)
      PROVE  IInv'
  BY <1>6 DEF TestNotEmpty
<1>7. ASSUME NEW c \in Consumers, SpuriousWakeup(c)
      PROVE  IInv'
  BY <1>7 DEF SpuriousWakeup
<1>8. ASSUME NEW c \in Consumers, Front(c)
      PROVE  IInv'
  <2>1. Head(q) \in Items
    BY <1>8, HeadTail DEF Front
  <2>2. QED
    BY <1>8, <2>1 DEF Front
<1>9. ASSUME NEW c \in Consumers, Pop(c)
      PROVE  IInv'
  <2>1. q' \in Seq(Items) /\ ret[c] \in Items
    BY <1>9, HeadTail DEF Pop
  <2>2. QED
    BY <1>9, <2>1 DEF Pop
<1>10. ASSUME NEW c \in Consumers, ReturnFromGet(c)
       PROVE  IInv'
  BY <1>10 DEF ReturnFromGet
<1>11. CASE UNCHANGED vars
  BY <1>11 DEF vars
<1>12. QED
  BY <1>1, <1>2, <1>3, <1>4, <1>5, <1>6, <1>7, <1>8, <1>9, <1>10, <1>11
  DEF Next, InsidePush, GetFrontAndPop

-----------------------------------------------------------------------------
LEMMA AlwaysIInv == Spec => []IInv
<1>1. QED
  BY InitIInv, NextIInv, PTL DEF Spec

\* Every reachable state of the queue is well typed.
THEOREM TypeCorrect == Spec => []TypeOK
<1>1. IInv => TypeOK
  BY DEF IInv
<1>2. QED
  BY AlwaysIInv, <1>1, PTL

\* front and pop act on one item and never on an empty queue, whatever the
\* number of producers and consumers.
THEOREM FrontAndPopAgree == Spec => []TestStillHolds
<1>1. IInv => TestStillHolds
  BY DEF IInv
<1>2. QED
  BY AlwaysIInv, <1>1, PTL

-----------------------------------------------------------------------------
(* No lost wakeup.  Each step either leaves Attentive alone, adds one       *)
(* thread to it, replaces the notifier by the thread it wakes, or takes one *)
(* thread out together with one item.                                       *)

LEMMA ThreadCounts ==
  ASSUME NEW S \in SUBSET Threads, NEW T \in SUBSET Threads,
         NEW t \in Threads
  PROVE  /\ Cardinality(S) \in Nat
         /\ S \subseteq T => Cardinality(S) <= Cardinality(T)
         /\ t \notin S => Cardinality(S \cup {t}) = Cardinality(S) + 1
         /\ t \in S => Cardinality(S \ {t}) = Cardinality(S) - 1
<1>1. IsFiniteSet(Threads)
  BY QueueAssumption, FS_Union DEF Threads
<1>2. IsFiniteSet(S) /\ IsFiniteSet(T)
  BY <1>1, FS_Subset
<1>3. Cardinality(S) \in Nat
  BY <1>2, FS_CardinalityType
<1>4. S \subseteq T => Cardinality(S) <= Cardinality(T)
  BY <1>2, FS_Subset
<1>5. QED
  BY <1>2, <1>3, <1>4, FS_AddElement, FS_RemoveElement

\* The notifier leaves Attentive as the thread it wakes enters it.
LEMMA Handover ==
  ASSUME NEW S \in SUBSET Threads, NEW p \in S, NEW c \in Threads \ S
  PROVE  Cardinality((S \ {p}) \cup {c}) = Cardinality(S)
<1>1. /\ S \ {p} \in SUBSET Threads /\ c \notin S \ {p} /\ p \in Threads
      /\ Cardinality(S) \in Nat
  BY ThreadCounts
<1>2. Cardinality(S \ {p}) = Cardinality(S) - 1
  BY <1>1, ThreadCounts
<1>3. Cardinality((S \ {p}) \cup {c}) = Cardinality(S \ {p}) + 1
  BY <1>1, ThreadCounts
<1>4. QED
  BY <1>1, <1>2, <1>3

LEMMA NextNoLostWakeup == IInv /\ NoLostWakeup /\ [Next]_vars => NoLostWakeup'
<1> SUFFICES ASSUME IInv, NoLostWakeup, [Next]_vars, Sleepers' # {}
             PROVE  Len(q') <= Cardinality(Attentive')
  BY DEF NoLostWakeup
<1>0. /\ Attentive \in SUBSET Threads /\ Attentive' \in SUBSET Threads
      /\ Cardinality(Attentive) \in Nat /\ Cardinality(Attentive') \in Nat
      /\ Attentive \subseteq Attentive' =>
           Cardinality(Attentive) <= Cardinality(Attentive')
      /\ q \in Seq(Items) /\ Len(q) \in Nat
  <2>1. Attentive \in SUBSET Threads /\ Attentive' \in SUBSET Threads
    BY DEF Attentive
  <2>2. q \in Seq(Items) /\ Len(q) \in Nat
    BY DEF IInv, TypeOK
  <2>3. Threads # {}
    BY DEF Sleepers, Threads
  <2>4. QED
    BY <2>1, <2>2, <2>3, ThreadCounts
\* Steps that leave q alone, wake nobody up for nothing and take nobody out.
<1>1. ASSUME q' = q, Sleepers # {}, Attentive \subseteq Attentive'
      PROVE  Len(q') <= Cardinality(Attentive')
  BY <1>0, <1>1 DEF NoLostWakeup
<1> USE DEF Sleepers, Attentive, Goto, Threads
<1>2. ASSUME NEW p \in Producers, NEW x \in Items, LockForPush(p, x)
      PROVE  Len(q') <= Cardinality(Attentive')
  BY <1>1, <1>2, QueueAssumption DEF LockForPush, IInv, TypeOK
<1>3. ASSUME NEW p \in Producers, Push(p)
      PROVE  Len(q') <= Cardinality(Attentive')
  <2>1. Len(q') = Len(q) + 1
    BY <1>0, <1>3, AppendFacts DEF Push, IInv, LocalsSet
  <2>2. p \in Threads /\ p \notin Attentive /\ Attentive' = Attentive \cup {p}
    BY <1>3 DEF Push, IInv, TypeOK
  <2>3. Cardinality(Attentive') = Cardinality(Attentive) + 1
    BY <1>0, <2>2, ThreadCounts
  <2>4. Sleepers # {}
    BY <1>3, QueueAssumption DEF Push, IInv, TypeOK
  <2>5. QED
    BY <1>0, <2>1, <2>3, <2>4 DEF NoLostWakeup
<1>4. ASSUME NEW p \in Producers, NotifyOne(p)
      PROVE  Len(q') <= Cardinality(Attentive')
  <2>1. CASE Sleepers = {}
    <3>1. Sleepers' = {}
      BY <1>4, <2>1, QueueAssumption DEF NotifyOne, IInv, TypeOK
    <3>2. QED
      BY <3>1
  <2>2. CASE Sleepers # {}
    <3>1. PICK c \in Sleepers : pc' = [pc EXCEPT ![p] = "unlock", ![c] = "awake"]
      BY <1>4, <2>2 DEF NotifyOne
    <3>2. /\ p \in Attentive /\ c \in Threads \ Attentive
          /\ Attentive' = (Attentive \ {p}) \cup {c}
      BY <1>4, <3>1, QueueAssumption DEF NotifyOne, IInv, TypeOK
    <3>3. Cardinality(Attentive') = Cardinality(Attentive)
      BY <1>0, <3>2, Handover
    <3>4. q' = q
      BY <1>4 DEF NotifyOne
    <3>5. QED
      BY <1>0, <2>2, <3>3, <3>4 DEF NoLostWakeup
  <2>3. QED
    BY <2>1, <2>2
<1>5. ASSUME NEW p \in Producers, ReturnFromPush(p)
      PROVE  Len(q') <= Cardinality(Attentive')
  BY <1>1, <1>5, QueueAssumption DEF ReturnFromPush, IInv, TypeOK
<1>6. ASSUME NEW c \in Consumers, LockForTest(c)
      PROVE  Len(q') <= Cardinality(Attentive')
  BY <1>1, <1>6, QueueAssumption DEF LockForTest, IInv, TypeOK
<1>7. ASSUME NEW c \in Consumers, TestNotEmpty(c)
      PROVE  Len(q') <= Cardinality(Attentive')
  <2>1. CASE q = <<>>
    BY <1>0, <1>7, <2>1 DEF TestNotEmpty
  <2>2. CASE q # <<>>
    BY <1>1, <1>7, <2>2, QueueAssumption DEF TestNotEmpty, IInv, TypeOK
  <2>3. QED
    BY <2>1, <2>2
<1>8. ASSUME NEW c \in Consumers, SpuriousWakeup(c)
      PROVE  Len(q') <= Cardinality(Attentive')
  BY <1>1, <1>8, QueueAssumption DEF SpuriousWakeup, IInv, TypeOK
<1>9. ASSUME NEW c \in Consumers, Front(c)
      PROVE  Len(q') <= Cardinality(Attentive')
  BY <1>1, <1>9, QueueAssumption DEF Front, IInv, TypeOK
<1>10. ASSUME NEW c \in Consumers, Pop(c)
       PROVE  Len(q') <= Cardinality(Attentive')
  <2>1. q # <<>> /\ q' = Tail(q)
    BY <1>10 DEF Pop, IInv, TestStillHolds
  <2>2. Len(q') = Len(q) - 1
    BY <1>0, <2>1, HeadTail
  <2>3. c \in Attentive /\ Attentive' = Attentive \ {c}
    BY <1>10, QueueAssumption DEF Pop, IInv, TypeOK
  <2>4. Cardinality(Attentive') = Cardinality(Attentive) - 1
    BY <1>0, <2>3, ThreadCounts
  <2>5. Sleepers # {}
    BY <1>10, QueueAssumption DEF Pop, IInv, TypeOK
  <2>6. QED
    BY <1>0, <2>2, <2>4, <2>5 DEF NoLostWakeup
<1>11. ASSUME NEW c \in Consumers, ReturnFromGet(c)
       PROVE  Len(q') <= Cardinality(Attentive')
  BY <1>1, <1>11, QueueAssumption DEF ReturnFromGet, IInv, TypeOK
<1>12. CASE UNCHANGED vars
  BY <1>1, <1>12 DEF vars
<1>13. QED
  BY <1>2, <1>3, <1>4, <1>5, <1>6, <1>7, <1>8, <1>9, <1>10, <1>11, <1>12
  DEF Next, InsidePush, GetFrontAndPop

\* While a consumer sleeps every queued item has a thread of its own coming
\* for it, for any number of producers and consumers and any interleaving.
THEOREM WakeupsNotLost == Spec => []NoLostWakeup
<1>1. Init => NoLostWakeup
  BY DEF Init, NoLostWakeup, Sleepers, Threads
<1>2. QED
  BY <1>1, AlwaysIInv, NextNoLostWakeup, PTL DEF Spec

-----------------------------------------------------------------------------
\* Each step is a Put, a Get or a Return of FifoQueue, or changes nothing
\* that FifoQueue sees.
LEMMA StepRefines == IInv /\ IInv' /\ [Next]_vars => [Queue!Next]_(Queue!vars)
<1> DEFINE heldBar == [c \in Consumers |-> IF pc[c] = "unlock" THEN ret[c] ELSE None]
<1> SUFFICES ASSUME IInv, IInv', [Next]_vars
             PROVE  Queue!Next \/ UNCHANGED <<q, heldBar>>
  BY DEF Queue!vars
<1> USE QueueAssumption DEF Goto, Threads
\* Steps of a consumer that neither pop nor return leave heldBar alone, and
\* so do the producers' steps.
<1>1. ASSUME \A c \in Consumers : /\ ret'[c] = ret[c] \/ pc[c] # "unlock"
                                  /\ pc'[c] = "unlock" <=> pc[c] = "unlock"
      PROVE  heldBar' = heldBar
  BY <1>1
<1>2. ASSUME NEW p \in Producers, NEW x \in Items, LockForPush(p, x)
      PROVE  UNCHANGED <<q, heldBar>>
  BY <1>1, <1>2 DEF LockForPush, IInv, TypeOK
<1>3. ASSUME NEW p \in Producers, Push(p)
      PROVE  Queue!Next
  <2>1. heldBar' = heldBar
    BY <1>1, <1>3 DEF Push, IInv, TypeOK
  <2>2. arg[p] \in Items /\ q' = Append(q, arg[p])
    BY <1>3 DEF Push, IInv, LocalsSet
  <2>3. QED
    BY <2>1, <2>2 DEF Queue!Next, Queue!Put
<1>4. ASSUME NEW p \in Producers, NotifyOne(p)
      PROVE  UNCHANGED <<q, heldBar>>
  BY <1>1, <1>4 DEF NotifyOne, Sleepers, IInv, TypeOK
<1>5. ASSUME NEW p \in Producers, ReturnFromPush(p)
      PROVE  UNCHANGED <<q, heldBar>>
  BY <1>1, <1>5 DEF ReturnFromPush, IInv, TypeOK
<1>6. ASSUME NEW c \in Consumers, LockForTest(c)
      PROVE  UNCHANGED <<q, heldBar>>
  BY <1>1, <1>6 DEF LockForTest, IInv, TypeOK
<1>7. ASSUME NEW c \in Consumers, TestNotEmpty(c)
      PROVE  UNCHANGED <<q, heldBar>>
  BY <1>1, <1>7 DEF TestNotEmpty, IInv, TypeOK
<1>8. ASSUME NEW c \in Consumers, SpuriousWakeup(c)
      PROVE  UNCHANGED <<q, heldBar>>
  BY <1>1, <1>8 DEF SpuriousWakeup, IInv, TypeOK
<1>9. ASSUME NEW c \in Consumers, Front(c)
      PROVE  UNCHANGED <<q, heldBar>>
  BY <1>1, <1>9 DEF Front, IInv, TypeOK
<1>10. ASSUME NEW c \in Consumers, Pop(c)
       PROVE  Queue!Next
  <2>1. q # <<>> /\ ret[c] = Head(q) /\ q' = Tail(q)
    BY <1>10 DEF Pop, IInv, TestStillHolds
  <2>2. heldBar[c] = None
    BY <1>10 DEF Pop
  <2>3. heldBar' = [heldBar EXCEPT ![c] = Head(q)]
    BY <1>10, <2>1 DEF Pop, IInv, TypeOK
  <2>4. QED
    BY <2>1, <2>2, <2>3 DEF Queue!Next, Queue!Get
<1>11. ASSUME NEW c \in Consumers, ReturnFromGet(c)
       PROVE  Queue!Next
  <2>1. heldBar[c] # None
    BY <1>11 DEF ReturnFromGet, IInv, LocalsSet
  <2>2. heldBar' = [heldBar EXCEPT ![c] = None] /\ q' = q
    BY <1>11 DEF ReturnFromGet, IInv, TypeOK
  <2>3. QED
    BY <2>1, <2>2 DEF Queue!Next, Queue!Return
<1>12. CASE UNCHANGED vars
  BY <1>1, <1>12 DEF vars
<1>13. QED
  BY <1>2, <1>3, <1>4, <1>5, <1>6, <1>7, <1>8, <1>9, <1>10, <1>11, <1>12
  DEF Next, InsidePush, GetFrontAndPop

\* GetFrontAndPop hands every pushed item to exactly one caller, in the
\* order of the pushes: ThreadSafeQueue implements FifoQueue.
THEOREM Refinement == Spec => ImplementsFifoQueue
<1>1. Init => Queue!Init
  BY DEF Init, Queue!Init, Threads
<1>2. QED
  BY <1>1, AlwaysIInv, StepRefines, PTL
  DEF Spec, ImplementsFifoQueue, Queue!Spec
=============================================================================
