------------------------- MODULE JudgedReportProofs -------------------------
(***************************************************************************)
(* What the daemon reports: in which order, about runs that are over, and  *)
(* how fresh.  Continues JudgedProofs, on whose invariant CInv all of it   *)
(* rests.                                                                  *)
(***************************************************************************)
EXTENDS JudgedProofs

-----------------------------------------------------------------------------
(* Order with one worker.  The places are a pipeline, from the main        *)
(* thread's hand to the reports; a step moves a submission one place on,   *)
(* and it is the foremost of the place it leaves.                          *)

OneWorker == \A v, w \in Worker : v = w

AcksOnce == \A i, j \in DOMAIN acks : acks[i] = acks[j] => i = j

Ahead(r, s) == AckPosition(r) < AckPosition(s)

Pipeline == Place \ {"undelivered"}
Distance(p) == CASE p = "posted" -> 0
                 [] p = "sender" -> 1
                 [] p = "SendQueue" -> 2
                 [] p = "worker" -> 3
                 [] p = "ProcessQueue" -> 4
                 [] OTHER -> 5

InOrder ==
  \A r, s \in Request, p, q \in Pipeline :
    IsAt(r, p) /\ IsAt(s, q) /\ Distance(p) < Distance(q) => Ahead(r, s)

QueuesInOrder ==
  /\ \A i, j \in DOMAIN ProcessQueue :
       i < j => Ahead(ProcessQueue[i], ProcessQueue[j])
  /\ \A i, j \in DOMAIN SendQueue :
       i < j => Ahead(SendQueue[i].req, SendQueue[j].req)

OrderInv == AcksOnce /\ InOrder /\ QueuesInOrder /\ ReportedInOrder

LEMMA PositionType ==
  ASSUME acks \in Seq(Request), NEW r \in Accepted
  PROVE  AckPosition(r) \in DOMAIN acks /\ AckPosition(r) \in Nat /\ acks[AckPosition(r)] = r
BY DEF AckPosition, Accepted, Elems

\* A new acknowledgement leaves the positions of the others as they are.
LEMMA PositionsKept ==
  ASSUME AcksOnce, acks \in Seq(Request), NEW s \in Request, s \notin Accepted,
         acks' = Append(acks, s)
  PROVE  /\ AcksOnce'
         /\ \A r \in Accepted : AckPosition(r)' = AckPosition(r) /\ Ahead(r, s)'
<1>1. /\ DOMAIN acks' = 1 .. Len(acks) + 1 /\ DOMAIN acks = 1 .. Len(acks)
      /\ Len(acks) \in Nat
      /\ \A i \in 1 .. Len(acks) : acks'[i] = acks[i]
      /\ acks'[Len(acks) + 1] = s
  BY AppendAt
<1>2. \A i \in DOMAIN acks : acks[i] # s
  BY DEF Accepted, Elems
<1>3. AcksOnce'
  BY <1>1, <1>2 DEF AcksOnce
<1>4. AckPosition(s)' = Len(acks) + 1
  BY <1>1, <1>2 DEF AckPosition
<1>5. ASSUME NEW r \in Accepted
      PROVE  AckPosition(r)' = AckPosition(r) /\ Ahead(r, s)'
  <2>1. AckPosition(r) \in 1 .. Len(acks) /\ acks[AckPosition(r)] = r
    BY <1>1, PositionType
  <2>2. AckPosition(r) \in DOMAIN acks' /\ acks'[AckPosition(r)] = r
    BY <1>1, <2>1
  <2>3. \A i \in DOMAIN acks' : acks'[i] = r => i = AckPosition(r)
    BY <1>3, <2>2 DEF AcksOnce
  <2>4. AckPosition(r)' = CHOOSE i \in DOMAIN acks' : acks'[i] = r
    BY DEF AckPosition
  <2>5. AckPosition(r)' = AckPosition(r)
    BY <2>2, <2>3, <2>4
  <2>6. QED
    BY <1>1, <1>4, <2>1, <2>5 DEF Ahead
<1>6. QED
  BY <1>3, <1>5

\* What is in the pipeline has been acknowledged.
LEMMA InPlaceAccepted ==
  ASSUME CInv, NEW r \in Request, NEW p \in Place, IsAt(r, p)
  PROVE  r \in Accepted /\ AckPosition(r) \in Nat
<1>1. r \in Accepted
  BY DEF CInv, NothingLost, Places
<1>2. QED
  BY <1>1, PositionType DEF CInv, TypeOK, MainTypeOK

LEMMA ElementType ==
  ASSUME NEW S, NEW s \in Seq(S)
  PROVE  \A i \in DOMAIN s : s[i] \in S
OBVIOUS

\* Who is where, for the places that are sequences.
LEMMA Occupants ==
  ASSUME TypeOK
  PROVE  /\ \A i \in DOMAIN ProcessQueue :
              ProcessQueue[i] \in Request /\ IsAt(ProcessQueue[i], "ProcessQueue")
         /\ \A i \in DOMAIN SendQueue :
              /\ SendQueue[i] \in Item /\ SendQueue[i].req \in Request
              /\ IsAt(SendQueue[i].req, "SendQueue")
         /\ \A i \in DOMAIN posts :
              posts[i].req \in Request /\ IsAt(posts[i].req, "posted")
<1>1. \A i \in DOMAIN ProcessQueue : ProcessQueue[i] \in Request
  BY DEF TypeOK, QueueTypeOK
<1>2. \A i \in DOMAIN SendQueue : SendQueue[i] \in Item
  BY DEF TypeOK, QueueTypeOK
<1>3. \A i \in DOMAIN posts : posts[i] \in [req : Request, by : Verdict]
  BY ElementType DEF TypeOK, SenderTypeOK
<1>4. \A x \in Item : x.req \in Request
  BY DEF Item
<1>5. \A x \in [req : Request, by : Verdict] : x.req \in Request
  OBVIOUS
<1>6. \A i \in DOMAIN ProcessQueue : IsAt(ProcessQueue[i], "ProcessQueue")
  BY Zenon DEF IsAt
<1>7. \A i \in DOMAIN SendQueue : IsAt(SendQueue[i].req, "SendQueue")
  BY Zenon DEF IsAt
<1>8. \A i \in DOMAIN posts : IsAt(posts[i].req, "posted")
  BY Zenon DEF IsAt
<1>9. \A i \in DOMAIN SendQueue : SendQueue[i].req \in Request
  BY <1>2, <1>4
<1>10. \A i \in DOMAIN posts : posts[i].req \in Request
  BY <1>3, <1>5
<1>11. QED
  BY <1>1, <1>2, <1>6, <1>7, <1>8, <1>9, <1>10

LEMMA OrderOnQuiet ==
  ASSUME CInv, OrderInv, Quiet, UNCHANGED <<queues, posts, acks>>
  PROVE  OrderInv'
<1>1. \A r, s : Ahead(r, s)' <=> Ahead(r, s)
  BY DEF Ahead, AckPosition
<1>2. AcksOnce'
  BY DEF OrderInv, AcksOnce
<1>3. InOrder'
  BY <1>1 DEF OrderInv, InOrder, Quiet, Pipeline
<1>4. QueuesInOrder' /\ ReportedInOrder'
  BY <1>1 DEF OrderInv, QueuesInOrder, ReportedInOrder, queues, Ahead
<1>5. QED
  BY <1>2, <1>3, <1>4 DEF OrderInv

LEMMA OrderOnAcknowledge ==
  ASSUME CInv, OrderInv, Acknowledges
  PROVE  OrderInv'
<1> PICK s \in Request : s = conn
  BY Acknowledge
<1>1. /\ s \notin Accepted
      /\ \A r \in Request, p \in Place :
           IsAt(r, p)' <=> IsAt(r, p) \/ (r = s /\ p = "main")
  BY Acknowledge
<1>2. UNCHANGED <<queues, posts>> /\ acks' = Append(acks, s) /\ acks \in Seq(Request)
  BY DEF Acknowledges, ReadRequest, sender, CInv, TypeOK, MainTypeOK
<1>3. /\ AcksOnce'
      /\ \A r \in Accepted : AckPosition(r)' = AckPosition(r) /\ Ahead(r, s)'
  BY <1>1, <1>2, PositionsKept DEF OrderInv
<1>4. \A r, t \in Accepted : Ahead(r, t) => Ahead(r, t)'
  BY <1>3 DEF Ahead
<1>5. \A r \in Request, p \in Place : IsAt(r, p) => r \in Accepted
  BY InPlaceAccepted
<1>6. InOrder'
  <2> SUFFICES ASSUME NEW r \in Request, NEW t \in Request,
                      NEW p \in Pipeline, NEW q \in Pipeline,
                      IsAt(r, p)', IsAt(t, q)', Distance(p) < Distance(q)
               PROVE  Ahead(r, t)'
    BY DEF InOrder
  <2>1. p # "main"
    BY DEF Distance, Pipeline, Place
  <2>2. IsAt(r, p)
    BY <1>1, <2>1 DEF Pipeline
  <2>3. CASE IsAt(t, q)
    BY <1>4, <1>5, <2>2, <2>3 DEF OrderInv, InOrder, Pipeline
  <2>4. CASE t = s
    BY <1>3, <1>5, <2>2, <2>4 DEF Pipeline
  <2>5. QED
    BY <1>1, <2>3, <2>4 DEF Pipeline
<1>7. QueuesInOrder'
  <2>1. /\ \A i \in DOMAIN ProcessQueue : ProcessQueue[i] \in Accepted
        /\ \A i \in DOMAIN SendQueue : SendQueue[i].req \in Accepted
    BY <1>5, Occupants DEF CInv, Place
  <2>2. QED
    BY <1>2, <1>4, <2>1 DEF OrderInv, QueuesInOrder, queues
<1>8. ReportedInOrder'
  <2>1. \A i \in DOMAIN posts : posts[i].req \in Accepted
    BY <1>5, Occupants DEF CInv, Place
  <2>2. QED
    BY <1>2, <1>4, <2>1 DEF OrderInv, ReportedInOrder, Ahead
<1>9. QED
  BY <1>3, <1>6, <1>7, <1>8 DEF OrderInv

\* A submission that moves one place on, or out of the pipeline, and was the
\* foremost of the place it leaves, keeps the pipeline in order.
LEMMA InOrderMoved ==
  ASSUME InOrder, InOnePlace, UNCHANGED acks,
         NEW s \in Request, NEW a \in Pipeline, NEW b \in Place, Moved(s, a, b),
         b \in Pipeline => Distance(b) = Distance(a) - 1,
         \A r \in Request : IsAt(r, a) /\ r # s => Ahead(s, r)
  PROVE  InOrder'
<1> SUFFICES ASSUME NEW r \in Request, NEW t \in Request,
                    NEW p \in Pipeline, NEW q \in Pipeline,
                    IsAt(r, p)', IsAt(t, q)', Distance(p) < Distance(q)
             PROVE  Ahead(r, t)'
  BY DEF InOrder
<1>1. Ahead(r, t)' <=> Ahead(r, t)
  BY DEF Ahead, AckPosition
<1>2. \A u \in Request, o \in Pipeline :
        IsAt(u, o)' => \/ u = s /\ o = b
                       \/ u # s /\ IsAt(u, o)
  <2>1. \A o \in Place : IsAt(s, o) => o = a
    BY DEF InOnePlace, Places, Pipeline, Moved
  <2>2. QED
    BY <2>1 DEF Moved, Pipeline
<1>3. \A o \in Pipeline : Distance(o) \in 0 .. 5
  BY DEF Distance
<1>4. \A o \in Pipeline : Distance(o) = Distance(a) => o = a
  BY DEF Distance, Pipeline, Place
<1>5. IsAt(s, a)
  BY DEF Moved
<1>6. CASE r # s /\ IsAt(r, p) /\ t # s /\ IsAt(t, q)
  BY <1>1, <1>6 DEF InOrder
<1>7. CASE r # s /\ IsAt(r, p) /\ t = s /\ q = b
  <2>1. Distance(p) < Distance(a)
    BY <1>3, <1>7
  <2>2. QED
    BY <1>1, <1>5, <1>7, <2>1 DEF InOrder
<1>8. CASE r = s /\ p = b /\ t # s /\ IsAt(t, q)
  <2>1. CASE q = a
    BY <1>1, <1>8, <2>1
  <2>2. CASE q # a
    <3>1. Distance(a) < Distance(q)
      BY <1>3, <1>4, <1>8, <2>2
    <3>2. QED
      BY <1>1, <1>5, <1>8, <3>1 DEF InOrder
  <2>3. QED
    BY <2>1, <2>2
<1>9. CASE r = s /\ t = s /\ p = b /\ q = b
  BY <1>3, <1>9
<1>10. QED
  BY <1>2, <1>6, <1>7, <1>8, <1>9

LEMMA Distances ==
  /\ \A p \in {"main", "ProcessQueue", "worker", "SendQueue", "sender", "posted"} :
       p \in Pipeline /\ p \in Place
  /\ "undelivered" \in Place \ Pipeline
  /\ Distance("main") = 5 /\ Distance("ProcessQueue") = 4 /\ Distance("worker") = 3
  /\ Distance("SendQueue") = 2 /\ Distance("sender") = 1 /\ Distance("posted") = 0
BY DEF Distance, Pipeline, Place

LEMMA OrderOnEnqueue ==
  ASSUME CInv, OrderInv, PushRequest
  PROVE  OrderInv'
<1>1. Moved(conn, "main", "ProcessQueue")
  BY Enqueue
<1> PICK s \in Request : s = conn
  BY <1>1 DEF Moved
<1>2. /\ UNCHANGED <<acks, SendQueue, posts>> /\ mpc = "push"
      /\ ProcessQueue' = Append(ProcessQueue, s) /\ ProcessQueue \in Seq(Request)
  BY DEF PushRequest, sender, CInv, TypeOK, QueueTypeOK
<1>3. \A r, t : Ahead(r, t)' <=> Ahead(r, t)
  BY <1>2 DEF Ahead, AckPosition
<1>4. InOrder'
  <2>1. \A r \in Request : IsAt(r, "main") => r = s
    BY <1>2 DEF IsAt
  <2>2. QED
    BY <1>1, <1>2, <2>1, Distances, InOrderMoved DEF CInv, NothingTwice, OrderInv
<1>5. \A i \in DOMAIN ProcessQueue : Ahead(ProcessQueue[i], s)
  <2>1. IsAt(s, "main")
    BY <1>1 DEF Moved
  <2>2. \A i \in DOMAIN ProcessQueue :
          ProcessQueue[i] \in Request /\ IsAt(ProcessQueue[i], "ProcessQueue")
    BY Occupants DEF CInv
  <2>3. QED
    BY <2>1, <2>2, Distances DEF OrderInv, InOrder
<1>6. /\ DOMAIN ProcessQueue' = 1 .. Len(ProcessQueue) + 1
      /\ DOMAIN ProcessQueue = 1 .. Len(ProcessQueue) /\ Len(ProcessQueue) \in Nat
      /\ \A i \in 1 .. Len(ProcessQueue) : ProcessQueue'[i] = ProcessQueue[i]
      /\ ProcessQueue'[Len(ProcessQueue) + 1] = s
  BY <1>2, AppendAt
<1>7. \A i, j \in DOMAIN ProcessQueue' :
        i < j => Ahead(ProcessQueue'[i], ProcessQueue'[j])
  BY <1>5, <1>6 DEF OrderInv, QueuesInOrder
<1>8. QueuesInOrder'
  BY <1>2, <1>7 DEF OrderInv, QueuesInOrder, Ahead, AckPosition
<1>9. AcksOnce' /\ ReportedInOrder'
  BY <1>2 DEF OrderInv, AcksOnce, ReportedInOrder, AckPosition
<1>10. QED
  BY <1>4, <1>8, <1>9 DEF OrderInv

LEMMA OrderOnDispatch ==
  ASSUME CInv, OrderInv, NEW w \in Worker, Take(w)
  PROVE  OrderInv'
<1>1. Moved(Head(ProcessQueue), "ProcessQueue", "worker")
  BY Dispatch
<1> PICK s \in Request : s = Head(ProcessQueue)
  BY <1>1 DEF Moved
<1>2. /\ UNCHANGED <<acks, SendQueue, posts>> /\ ProcessQueue # <<>>
      /\ ProcessQueue' = Tail(ProcessQueue) /\ ProcessQueue \in Seq(Request)
  BY DEF Take, main, sender, CInv, TypeOK, QueueTypeOK
<1>3. \A r, t : Ahead(r, t)' <=> Ahead(r, t)
  BY <1>2 DEF Ahead, AckPosition
<1>4. /\ DOMAIN Tail(ProcessQueue) = 1 .. Len(ProcessQueue) - 1
      /\ DOMAIN ProcessQueue = 1 .. Len(ProcessQueue) /\ Len(ProcessQueue) \in Nat \ {0}
      /\ \A i \in 1 .. Len(ProcessQueue) - 1 : Tail(ProcessQueue)[i] = ProcessQueue[i + 1]
      /\ s = ProcessQueue[1]
  BY <1>2, TailAt
<1>5. InOrder'
  <2>1. \A i \in DOMAIN ProcessQueue : ProcessQueue[i] = s \/ Ahead(s, ProcessQueue[i])
    BY <1>4 DEF OrderInv, QueuesInOrder
  <2>2. \A r \in Request : IsAt(r, "ProcessQueue") /\ r # s => Ahead(s, r)
    BY <2>1 DEF IsAt
  <2>3. QED
    BY <1>1, <1>2, <2>2, Distances, InOrderMoved DEF CInv, NothingTwice, OrderInv
<1>6. QueuesInOrder'
  <2>1. \A i, j \in DOMAIN Tail(ProcessQueue) :
          i < j => Ahead(Tail(ProcessQueue)[i], Tail(ProcessQueue)[j])
    BY <1>4 DEF OrderInv, QueuesInOrder
  <2>2. QED
    BY <1>2, <2>1 DEF OrderInv, QueuesInOrder, Ahead, AckPosition
<1>7. AcksOnce' /\ ReportedInOrder'
  BY <1>2 DEF OrderInv, AcksOnce, ReportedInOrder, AckPosition
<1>8. QED
  BY <1>5, <1>6, <1>7 DEF OrderInv

LEMMA OrderOnHandOver ==
  ASSUME OneWorker, CInv, OrderInv, NEW w \in Worker, NEW code \in Code,
         Finishes(w, code)
  PROVE  OrderInv'
<1>1. Moved(cur[Thread(w)], "worker", "SendQueue")
  BY HandOver
<1> PICK s \in Request : s = cur[Thread(w)]
  BY <1>1 DEF Moved
<1> DEFINE x == [code |-> code, req |-> s]
<1>2. /\ UNCHANGED <<acks, ProcessQueue, posts>>
      /\ SendQueue' = Append(SendQueue, x) /\ SendQueue \in Seq(Item) /\ x \in Item
  BY Names DEF Finishes, Push, main, sender, CInv, TypeOK, QueueTypeOK, Item
<1>3. /\ DOMAIN SendQueue' = 1 .. Len(SendQueue) + 1
      /\ DOMAIN SendQueue = 1 .. Len(SendQueue) /\ Len(SendQueue) \in Nat
      /\ \A i \in 1 .. Len(SendQueue) : SendQueue'[i] = SendQueue[i]
      /\ SendQueue'[Len(SendQueue) + 1].req = s
  BY <1>2, AppendAt
<1>4. InOrder'
  <2>1. \A r \in Request : IsAt(r, "worker") => r = s
    BY DEF IsAt, OneWorker
  <2>2. QED
    BY <1>1, <1>2, <2>1, Distances, InOrderMoved DEF CInv, NothingTwice, OrderInv
<1>5. \A i \in DOMAIN SendQueue : Ahead(SendQueue[i].req, s)
  <2>1. IsAt(s, "worker")
    BY <1>1 DEF Moved
  <2>2. \A i \in DOMAIN SendQueue :
          SendQueue[i].req \in Request /\ IsAt(SendQueue[i].req, "SendQueue")
    BY Occupants DEF CInv
  <2>3. QED
    BY <2>1, <2>2, Distances DEF OrderInv, InOrder
<1>6. \A i, j \in DOMAIN SendQueue' :
        i < j => Ahead(SendQueue'[i].req, SendQueue'[j].req)
  BY <1>3, <1>5 DEF OrderInv, QueuesInOrder
<1>7. QueuesInOrder'
  BY <1>2, <1>6 DEF OrderInv, QueuesInOrder, Ahead, AckPosition
<1>8. AcksOnce' /\ ReportedInOrder'
  BY <1>2 DEF OrderInv, AcksOnce, ReportedInOrder, AckPosition
<1>9. QED
  BY <1>4, <1>7, <1>8 DEF OrderInv

LEMMA OrderOnCollect ==
  ASSUME CInv, OrderInv, SendTake
  PROVE  OrderInv'
<1>1. Moved(Head(SendQueue).req, "SendQueue", "sender")
  BY Collect
<1> PICK s \in Request : s = Head(SendQueue).req
  BY <1>1 DEF Moved
<1>2. /\ UNCHANGED <<acks, ProcessQueue, posts>> /\ SendQueue # <<>>
      /\ SendQueue' = Tail(SendQueue) /\ SendQueue \in Seq(Item)
  BY DEF SendTake, main, CInv, TypeOK, QueueTypeOK
<1>3. /\ DOMAIN Tail(SendQueue) = 1 .. Len(SendQueue) - 1
      /\ DOMAIN SendQueue = 1 .. Len(SendQueue) /\ Len(SendQueue) \in Nat \ {0}
      /\ \A i \in 1 .. Len(SendQueue) - 1 : Tail(SendQueue)[i] = SendQueue[i + 1]
      /\ s = SendQueue[1].req
  BY <1>2, TailAt
<1>4. InOrder'
  <2>1. \A i \in DOMAIN SendQueue : SendQueue[i].req = s \/ Ahead(s, SendQueue[i].req)
    BY <1>3 DEF OrderInv, QueuesInOrder
  <2>2. \A r \in Request : IsAt(r, "SendQueue") /\ r # s => Ahead(s, r)
    BY <2>1 DEF IsAt
  <2>3. QED
    BY <1>1, <1>2, <2>2, Distances, InOrderMoved DEF CInv, NothingTwice, OrderInv
<1>5. QueuesInOrder'
  <2>1. \A i, j \in DOMAIN Tail(SendQueue) :
          i < j => Ahead(Tail(SendQueue)[i].req, Tail(SendQueue)[j].req)
    BY <1>3 DEF OrderInv, QueuesInOrder
  <2>2. QED
    BY <1>2, <2>1 DEF OrderInv, QueuesInOrder, Ahead, AckPosition
<1>6. AcksOnce' /\ ReportedInOrder'
  BY <1>2 DEF OrderInv, AcksOnce, ReportedInOrder, AckPosition
<1>7. QED
  BY <1>4, <1>5, <1>6 DEF OrderInv

LEMMA OrderOnDeliver ==
  ASSUME CInv, OrderInv, Post
  PROVE  OrderInv'
<1>1. \/ Moved(item.req, "sender", "posted")
      \/ Moved(item.req, "sender", "undelivered")
  BY Deliver
<1> PICK s \in Request : s = item.req
  BY <1>1 DEF Moved
<1>2. UNCHANGED <<acks, queues>>
  BY DEF Post, main
<1>3. \A r \in Request : IsAt(r, "sender") => r = s
  BY DEF IsAt
<1>4. InOrder'
  BY <1>1, <1>2, <1>3, Distances, InOrderMoved DEF CInv, NothingTwice, OrderInv
<1>5. AcksOnce' /\ QueuesInOrder'
  BY <1>2 DEF OrderInv, AcksOnce, QueuesInOrder, Ahead, AckPosition, queues
<1>6. ReportedInOrder'
  <2>1. CASE UNCHANGED posts
    BY <1>2, <2>1 DEF OrderInv, ReportedInOrder, AckPosition
  <2>2. CASE posts' = Append(posts, [req |-> s, by |-> out])
    <3>1. posts \in Seq([req : Request, by : Verdict]) /\ out \in Verdict
      BY DEF CInv, TypeOK, SenderTypeOK
    <3>2. [req |-> s, by |-> out] \in [req : Request, by : Verdict]
      BY <3>1
    <3>3. /\ DOMAIN posts' = 1 .. Len(posts) + 1
          /\ DOMAIN posts = 1 .. Len(posts) /\ Len(posts) \in Nat
          /\ \A i \in 1 .. Len(posts) : posts'[i] = posts[i]
          /\ posts'[Len(posts) + 1].req = s
      BY <2>2, <3>1, <3>2, AppendAt
    <3>4. IsAt(s, "sender")
      BY <1>1 DEF Moved
    <3>5. \A i \in DOMAIN posts : Ahead(posts[i].req, s)
      <4>1. \A i \in DOMAIN posts : posts[i].req \in Request /\ IsAt(posts[i].req, "posted")
        BY Occupants DEF CInv
      <4>2. QED
        BY <3>4, <4>1, Distances DEF OrderInv, InOrder
    <3>6. \A i, j \in DOMAIN posts' : i < j => Ahead(posts'[i].req, posts'[j].req)
      BY <3>3, <3>5 DEF OrderInv, ReportedInOrder, Ahead
    <3>7. QED
      BY <1>2, <3>6 DEF ReportedInOrder, Ahead, AckPosition
  <2>3. QED
    BY <2>1, <2>2 DEF Post
<1>7. QED
  BY <1>4, <1>5, <1>6 DEF OrderInv

LEMMA OrderInvKept ==
  ASSUME OneWorker
  PROVE  CInv /\ OrderInv /\ [Next]_vars => OrderInv'
BY StepKinds, OrderOnQuiet, OrderOnAcknowledge, OrderOnEnqueue, OrderOnDispatch,
   OrderOnHandOver, OrderOnCollect, OrderOnDeliver DEF StepKind

LEMMA OrderInvInit == Init => OrderInv
<1> SUFFICES ASSUME Init PROVE OrderInv
  OBVIOUS
<1>1. \A r \in Request, p \in Place : ~IsAt(r, p)
  BY Names DEF Init, IsAt, Judging
<1>2. InOrder
  BY <1>1 DEF InOrder, Pipeline
<1>3. QED
  BY <1>2 DEF Init, OrderInv, AcksOnce, QueuesInOrder, ReportedInOrder

LEMMA OrderInvHolds ==
  ASSUME OneWorker
  PROVE  Spec => [](CInv /\ OrderInv)
BY OrderInvInit, OrderInvKept, InitCInv, NextCInv, PTL DEF Spec

\* With one worker verdicts are posted in the order of the acknowledgements,
\* whatever faults happen.
THEOREM ReportsInOrder ==
  ASSUME OneWorker
  PROVE  Spec => []ReportedInOrder
<1>1. OrderInv => ReportedInOrder
  BY DEF OrderInv
<1>2. QED
  BY <1>1, OrderInvHolds, PTL

-----------------------------------------------------------------------------
(* What becomes of a worker and of the job it has forked, in one step *)

KeepsJob(j, l) ==
  phase'[j] = phase[j] /\ (status'[j] = status[j] \/ pc'[l] # "wait")

StartsJob(j, l) ==
  /\ pc[l] = "fork" /\ pc'[l] = "wait"
  /\ JobOf(l) = j /\ UNCHANGED <<cur, file>>
  /\ phase'[j] \in {"running", "cloned", "failed"}
  /\ phase'[j] # "running" => "exec" \in Faults

RunsJob(j) == (JobStep(j) \/ Stop(j) \/ Continue(j)) /\ UNCHANGED loops

JobKind(w, r) == \/ KeepsJob(<<Thread(w), r>>, Thread(w))
                 \/ StartsJob(<<Thread(w), r>>, Thread(w))
                 \/ RunsJob(<<Thread(w), r>>)

LoopKind(w) ==
  \/ pc'[Thread(w)] = pc[Thread(w)] /\ cur'[Thread(w)] = cur[Thread(w)]
  \/ pc'[Thread(w)] \notin {"fork", "wait"}
  \/ pc'[Thread(w)] = "fork" /\ IsAt(cur'[Thread(w)], "ProcessQueue")
  \/ /\ pc[Thread(w)] = "fork" /\ pc'[Thread(w)] = "wait"
     /\ cur'[Thread(w)] = cur[Thread(w)]

LEMMA KindsIdle ==
  ASSUME NEW w \in Worker, NEW r \in Request, UNCHANGED <<loops, jobs>>
  PROVE  JobKind(w, r) /\ LoopKind(w)
BY DEF JobKind, KeepsJob, LoopKind, loops, jobs

LEMMA KindsOfLoop ==
  ASSUME CInv, NEW w \in Worker, NEW r \in Request,
         NEW l \in Loop, LoopStep(l) \/ ForkFails(l)
  PROVE  JobKind(w, r) /\ LoopKind(w)
<1> DEFINE j == <<Thread(w), r>>
<1>1. j \in Job /\ Thread(w) \in Loop
  BY Names DEF Job
<1>2. CASE LoopTest(l)
  BY <1>1, <1>2 DEF LoopTest, JobKind, KeepsJob, LoopKind, jobs, CInv, TypeOK, LoopTypeOK
<1>3. CASE ForkFails(l)
  BY <1>1, <1>3 DEF ForkFails, Return, JobKind, KeepsJob, LoopKind, jobs, CInv, TypeOK,
      LoopTypeOK
<1>4. CASE Spawn(l)
  <2>1. /\ pc[l] = "fork" /\ UNCHANGED <<cur, status, file>>
        /\ pc' = [pc EXCEPT ![l] = "wait"]
        /\ phase' = [phase EXCEPT ![JobOf(l)] = "running"]
        /\ JobOf(l) \in Job
    BY <1>4, JobNamed DEF Spawn, Fork, CInv, TypeOK
  <2>2. j = JobOf(l) <=> l = Thread(w) /\ cur[l] = r
    BY DEF JobOf
  <2>3. LoopKind(w)
    BY <1>1, <2>1 DEF LoopKind, CInv, TypeOK, LoopTypeOK
  <2>. /\ phase'[j] = IF j = JobOf(l) THEN "running" ELSE phase[j]
       /\ pc'[l] = "wait" /\ status'[j] = status[j]
    BY <1>1, <2>1 DEF CInv, TypeOK, LoopTypeOK, JobTypeOK, Living
  <2>4. CASE j = JobOf(l)
    BY <2>1, <2>2, <2>3, <2>4 DEF JobKind, StartsJob
  <2>5. CASE j # JobOf(l)
    BY <2>3, <2>5 DEF JobKind, KeepsJob
  <2>6. QED
    BY <2>3, <2>4, <2>5
<1>5. CASE Reap(l)
  <2>1. /\ status' = [status EXCEPT ![JobOf(l)] = NoStatus] /\ phase' = phase
        /\ pc' = [pc EXCEPT ![l] = "test"] /\ cur' = [cur EXCEPT ![l] = NoReq]
    BY <1>5 DEF Reap, Return
  <2>2. JobOf(l)[1] = l
    BY DEF JobOf
  <2>3. QED
    BY <1>1, <2>1, <2>2 DEF JobKind, KeepsJob, LoopKind, CInv, TypeOK, LoopTypeOK, JobTypeOK,
        Living
<1>6. QED
  BY <1>2, <1>3, <1>4, <1>5 DEF LoopStep

LEMMA KindsOfWorker ==
  ASSUME CInv, NEW w \in Worker, NEW r \in Request, NEW v \in Worker,
         \/ Take(v) \/ TakeCopy(v) \/ ExecFails(v) \/ ExecFailsAgain(v)
         \/ SigtermInWorker(v)
  PROVE  JobKind(w, r) /\ LoopKind(w)
<1> DEFINE j == <<Thread(w), r>>
<1> USE Names
<1>1. j \in Job /\ Thread(w) \in Loop
  BY DEF Job
<1>2. CASE Take(v)
  <2>1. IsAt(Head(ProcessQueue), "ProcessQueue")
    BY <1>2, Dispatch DEF Moved
  <2>2. QED
    BY <1>1, <1>2, <2>1 DEF Take, JobKind, KeepsJob, LoopKind, jobs, CInv, TypeOK, LoopTypeOK
<1>3. CASE TakeCopy(v)
  BY <1>1, <1>3 DEF TakeCopy, JobKind, KeepsJob, LoopKind, jobs, CInv, TypeOK, LoopTypeOK
<1>4. CASE SigtermInWorker(v)
  BY <1>1, <1>4 DEF SigtermInWorker, Return, JobKind, KeepsJob, LoopKind, jobs, CInv,
      TypeOK, LoopTypeOK
<1>5. CASE ExecFailsAgain(v)
  <2>1. JobOf(Clone(v)) # j
    BY DEF JobOf
  <2>2. QED
    BY <1>1, <1>5, <2>1
    DEF ExecFailsAgain, Return, JobKind, KeepsJob, LoopKind, CInv, TypeOK, LoopTypeOK,
        JobTypeOK,
        Living
<1>6. CASE ExecFails(v)
  <2>1. PICK s \in {"test", "done", "wedged"} :
          pc' = [pc EXCEPT ![Thread(v)] = "wait", ![Clone(v)] = s]
    BY <1>6 DEF ExecFails
  <2>2. /\ pc[Thread(v)] = "fork" /\ UNCHANGED <<cur, file>> /\ "exec" \in Faults
        /\ JobOf(Thread(v)) \in Job
    BY <1>6, JobNamed DEF ExecFails, Fork, CInv, TypeOK
  <2>3. PICK x \in {"cloned", "failed"} :
          /\ phase' = [phase EXCEPT ![JobOf(Thread(v))] = x]
          /\ \A i \in Job \ {JobOf(Thread(v))} : status'[i] = status[i]
    BY <1>6 DEF ExecFails, CInv, TypeOK, JobTypeOK, Living
  <2>4. j = JobOf(Thread(v)) <=> w = v /\ cur[Thread(v)] = r
    BY DEF JobOf
  <2>5. \A u \in Worker : pc'[Thread(u)] = IF u = v THEN "wait" ELSE pc[Thread(u)]
    BY <2>1 DEF CInv, TypeOK, LoopTypeOK
  <2>6. LoopKind(w)
    BY <2>2, <2>5 DEF LoopKind
  <2>. phase'[j] = IF j = JobOf(Thread(v)) THEN x ELSE phase[j]
    BY <1>1, <2>3 DEF CInv, TypeOK, JobTypeOK, Living
  <2>7. CASE j = JobOf(Thread(v))
    BY <2>2, <2>4, <2>5, <2>6, <2>7 DEF JobKind, StartsJob
  <2>8. CASE j # JobOf(Thread(v))
    <3>1. phase'[j] = phase[j] /\ status'[j] = status[j]
      BY <1>1, <2>3, <2>8
    <3>2. QED
      BY <2>6, <3>1 DEF JobKind, KeepsJob
  <2>9. QED
    BY <2>6, <2>7, <2>8
<1>7. QED
  BY <1>2, <1>3, <1>4, <1>5, <1>6

LEMMA KindsOfJob ==
  ASSUME CInv, NEW w \in Worker, NEW r \in Request,
         NEW i \in Job, JobStep(i) \/ Stop(i) \/ Continue(i)
  PROVE  JobKind(w, r) /\ LoopKind(w)
<1> DEFINE j == <<Thread(w), r>>
<1>1. j \in Job
  BY Names DEF Job
<1>2. UNCHANGED loops
  BY DEF JobStep, OpenResult, WriteResult, Exit, Stop, Continue, Advance
<1>3. LoopKind(w)
  BY <1>2 DEF LoopKind, loops
<1>4. CASE i = j
  BY <1>2, <1>3, <1>4 DEF JobKind, RunsJob
<1>5. CASE i # j
  <2>1. phase'[j] = phase[j] /\ status'[j] = status[j]
    BY <1>1, <1>5 DEF JobStep, OpenResult, WriteResult, Exit, Stop, Continue, Advance,
                      CInv, TypeOK, JobTypeOK, Living
  <2>2. QED
    BY <1>3, <2>1 DEF JobKind, KeepsJob
<1>6. QED
  BY <1>3, <1>4, <1>5

LEMMA Kinds ==
  ASSUME CInv, [Next]_vars, NEW w \in Worker, NEW r \in Request
  PROVE  JobKind(w, r) /\ LoopKind(w)
<1>1. CASE \/ MainTest \/ Password \/ ReadRequest \/ PushRequest
           \/ \E s \in Request : Accept(s)
           \/ SenderStep \/ CurlInitFails \/ SigtermInMain \/ ReplyToGonePeer \/ StackOverflows
           \/ Kill \/ UNCHANGED vars
  <2>1. UNCHANGED <<loops, jobs>>
    BY <1>1 DEF MainTest, Password, ReadRequest, PushRequest, Accept, SenderStep,
      SendTest, SendTake, ReadResult, Post, CurlInitFails, SigtermInMain,
      ReplyToGonePeer, StackOverflows, Kill, vars
  <2>2. QED
    BY <2>1, KindsIdle
<1>2. QED
  BY <1>1, KindsOfLoop, KindsOfWorker, KindsOfJob DEF Next

-----------------------------------------------------------------------------
(* EXIT_OK is about a run that is over, unless SIGTERM has interrupted a   *)
(* worker's waitpid.                                                       *)

Undisturbed == "strayTerm" \notin Faults

Reports(r) == \/ [code |-> EXIT_OK, req |-> r] \in Elems(SendQueue)
              \/ item = [code |-> EXIT_OK, req |-> r]

\* What has been started is past the queue, and no worker will fork for it.
StartedInv ==
  \A w \in Worker, r \in Request :
    phase[<<Thread(w), r>>] # "none"
    => /\ r \in Accepted /\ ~IsAt(r, "main") /\ ~IsAt(r, "ProcessQueue")
       /\ \A v \in Worker : Judging(v) /\ cur[Thread(v)] = r
                            => v = w /\ pc[Thread(v)] = "wait"

OverInv ==
  \A w \in Worker, r \in Request :
    Reports(r) /\ phase[<<Thread(w), r>>] # "none" => phase[<<Thread(w), r>>] \in Over

LEMMA Upstream ==
  ASSUME CInv, [Next]_vars, NEW r \in Request, r \in Accepted
  PROVE  /\ r \in Accepted'
         /\ ~IsAt(r, "main") => ~IsAt(r, "main")'
         /\ ~IsAt(r, "main") /\ ~IsAt(r, "ProcessQueue") => ~IsAt(r, "ProcessQueue")'
<1>1. StepKind
  BY StepKinds
<1>2. CASE Quiet
  BY <1>2 DEF Quiet, Place
<1>3. CASE Acknowledges
  <2>1. acks' = Append(acks, conn) /\ conn \in Request /\ acks \in Seq(Request)
    BY <1>3, Acknowledge DEF Acknowledges, CInv, TypeOK, MainTypeOK
  <2>2. Accepted' = Accepted \cup {conn}
    BY <2>1, AcceptedGrows
  <2>3. QED
    BY <1>3, <2>2, Acknowledge DEF Place
<1>4. CASE ~Quiet /\ ~Acknowledges
  <2>1. UNCHANGED acks
    BY <1>1, <1>4 DEF StepKind, PushRequest, Take, Finishes, SendTake, Post, main
  <2>2. r \in Accepted'
    BY <2>1 DEF Accepted
  <2>3. CASE PushRequest
    BY <2>2, <2>3, Enqueue DEF Moved, Place
  <2>4. \A s, a, b : Moved(s, a, b) /\ b \notin {"main", "ProcessQueue"}
                     => /\ IsAt(r, "main")' => IsAt(r, "main")
                        /\ IsAt(r, "ProcessQueue")' => IsAt(r, "ProcessQueue")
    BY DEF Moved, Place
  <2>5. QED
    BY <1>1, <1>4, <2>2, <2>3, <2>4, Dispatch, HandOver, Collect, Deliver DEF StepKind
<1>5. QED
  BY <1>2, <1>3, <1>4

\* A report of success is new when a worker has just ended its round with it.
LEMMA ReportsStep ==
  ASSUME CInv, [Next]_vars, NEW r \in Request, Reports(r)', ~Reports(r)
  PROVE  \E w \in Worker : /\ Finishes(w, EXIT_OK) /\ EndsRound(w, EXIT_OK)
                           /\ cur[Thread(w)] = r
<1> DEFINE x == [code |-> EXIT_OK, req |-> r]
<1>1. StepKind
  BY StepKinds
<1>2. SendQueue \in Seq(Item)
  BY DEF CInv, TypeOK, QueueTypeOK
<1>3. CASE UNCHANGED <<SendQueue, item>>
  BY <1>3 DEF Reports, Elems
<1>4. CASE SendTake
  <2>1. /\ SendQueue # <<>> /\ SendQueue' = Tail(SendQueue) /\ item' = Head(SendQueue)
    BY <1>4 DEF SendTake
  <2>2. /\ DOMAIN Tail(SendQueue) = 1 .. Len(SendQueue) - 1
        /\ DOMAIN SendQueue = 1 .. Len(SendQueue) /\ Len(SendQueue) \in Nat \ {0}
        /\ \A i \in 1 .. Len(SendQueue) - 1 : Tail(SendQueue)[i] = SendQueue[i + 1]
        /\ Head(SendQueue) = SendQueue[1]
    BY <1>2, <2>1, TailAt
  <2>3. x \in Elems(SendQueue)' => x \in Elems(SendQueue)
    BY <2>1, <2>2 DEF Elems
  <2>4. item' = x => x \in Elems(SendQueue)
    BY <2>1, <2>2 DEF Elems
  <2>5. QED
    BY <2>3, <2>4 DEF Reports
<1>5. CASE Post
  <2>1. item'.req = NoReq /\ UNCHANGED SendQueue
    BY <1>5 DEF Post, NoItem, queues
  <2>2. item' # x
    BY <2>1, Names
  <2>3. QED
    BY <2>1, <2>2 DEF Reports, Elems
<1>6. CASE \E w \in Worker, code \in Code : Finishes(w, code) /\ EndsRound(w, code)
  <2>1. PICK w \in Worker, code \in Code : Finishes(w, code) /\ EndsRound(w, code)
    BY <1>6
  <2>2. PICK s \in Request : s = cur[Thread(w)]
    BY <2>1, HandOver DEF Moved
  <2>3. /\ SendQueue' = Append(SendQueue, [code |-> code, req |-> s]) /\ UNCHANGED item
        /\ [code |-> code, req |-> s] \in Item
    BY <2>1, <2>2, Names DEF Finishes, Push, sender, Item
  <2>4. /\ DOMAIN SendQueue' = 1 .. Len(SendQueue) + 1
        /\ DOMAIN SendQueue = 1 .. Len(SendQueue) /\ Len(SendQueue) \in Nat
        /\ \A i \in 1 .. Len(SendQueue) : SendQueue'[i] = SendQueue[i]
        /\ SendQueue'[Len(SendQueue) + 1] = [code |-> code, req |-> s]
    BY <1>2, <2>3, AppendAt
  <2>5. x \in Elems(SendQueue)' /\ x \notin Elems(SendQueue)
    BY <2>3 DEF Reports
  <2>6. x = [code |-> code, req |-> s]
    BY <2>4, <2>5 DEF Elems
  <2>7. code = EXIT_OK /\ s = r
    BY <2>6
  <2>8. QED
    BY <2>1, <2>2, <2>7
<1>7. QED
  BY <1>1, <1>3, <1>4, <1>5, <1>6
  DEF StepKind, Acknowledges, ReadRequest, PushRequest, Take, sender, queues

LEMMA JobRuns ==
  ASSUME TypeOK, NEW j \in Job, RunsJob(j)
  PROVE  phase[j] \in Living /\ phase'[j] \in Living \cup Over
BY DEF TypeOK, JobTypeOK, Living, RunsJob, JobStep, OpenResult, WriteResult, Exit, Stop,
       Continue, Advance, Over

\* A worker that comes to judge a submission took it from ProcessQueue.
LEMMA Holds ==
  ASSUME CInv, [Next]_vars, NEW v \in Worker, NEW r \in Request,
         Judging(v)', cur'[Thread(v)] = r
  PROVE  \/ IsAt(r, "ProcessQueue")
         \/ Judging(v) /\ cur[Thread(v)] = r
            /\ (pc[Thread(v)] = pc'[Thread(v)] \/ pc[Thread(v)] = "fork")
<1>1. LoopKind(v)
  BY Kinds
<1>2. CASE pc'[Thread(v)] = "fork" /\ IsAt(cur'[Thread(v)], "ProcessQueue")
  BY <1>2 DEF IsAt
<1>3. QED
  BY <1>1, <1>2 DEF LoopKind, Judging

LEMMA StartedInvKept == CInv /\ StartedInv /\ [Next]_vars => StartedInv'
<1> SUFFICES ASSUME CInv, StartedInv, [Next]_vars, CInv',
                    NEW w \in Worker, NEW r \in Request, phase'[<<Thread(w), r>>] # "none"
             PROVE  /\ r \in Accepted' /\ ~IsAt(r, "main")' /\ ~IsAt(r, "ProcessQueue")'
                    /\ \A v \in Worker : Judging(v)' /\ cur'[Thread(v)] = r
                                         => v = w /\ pc'[Thread(v)] = "wait"
  BY NextCInv DEF StartedInv, Judging
<1> DEFINE j == <<Thread(w), r>>
<1>1. j \in Job
  BY Names DEF Job
<1>2. CASE phase[j] # "none"
  <2>1. /\ r \in Accepted /\ ~IsAt(r, "main") /\ ~IsAt(r, "ProcessQueue")
        /\ \A v \in Worker : Judging(v) /\ cur[Thread(v)] = r
                             => v = w /\ pc[Thread(v)] = "wait"
    BY <1>2 DEF StartedInv
  <2>2. r \in Accepted' /\ ~IsAt(r, "main")' /\ ~IsAt(r, "ProcessQueue")'
    BY <2>1, Upstream
  <2>3. \A v \in Worker : Judging(v)' /\ cur'[Thread(v)] = r
                          => v = w /\ pc'[Thread(v)] = "wait"
    BY <2>1, Holds
  <2>4. QED
    BY <2>2, <2>3
<1>3. CASE phase[j] = "none"
  <2>1. StartsJob(j, Thread(w))
    BY <1>1, <1>3, Kinds, JobRuns DEF JobKind, KeepsJob, CInv, Living
  <2>2. pc'[Thread(w)] = "wait" /\ cur'[Thread(w)] = r
    BY <2>1 DEF StartsJob, JobOf
  <2>3. IsAt(r, "worker")'
    BY <2>2 DEF IsAt, Judging
  <2>4. r \in Accepted' /\ ~IsAt(r, "main")' /\ ~IsAt(r, "ProcessQueue")'
    BY <2>3 DEF CInv, NothingLost, NothingTwice, InOnePlace, Places, Place
  <2>5. \A v \in Worker : Judging(v)' /\ cur'[Thread(v)] = r => v = w
    BY <2>2 DEF CInv, NothingTwice, OnceThere, Judging
  <2>6. QED
    BY <2>2, <2>4, <2>5
<1>4. QED
  BY <1>2, <1>3

\* What is reported is no longer with a worker.
LEMMA ReportsAt ==
  ASSUME CInv, NEW r \in Request, Reports(r)
  PROVE  ~IsAt(r, "worker") /\ r \in Accepted
<1>1. [code |-> EXIT_OK, req |-> r] # NoItem
  BY Names DEF NoItem
<1>2. IsAt(r, "SendQueue") \/ IsAt(r, "sender")
  BY <1>1 DEF Reports, Elems, IsAt, CInv, TypeOK, SenderTypeOK
<1>3. QED
  BY <1>2, InPlaceAccepted DEF CInv, NothingTwice, InOnePlace, Places, Place

LEMMA OverInvKept ==
  ASSUME Undisturbed
  PROVE  CInv /\ StartedInv /\ OverInv /\ [Next]_vars => OverInv'
<1> SUFFICES ASSUME CInv, StartedInv, OverInv, [Next]_vars,
                    NEW w \in Worker, NEW r \in Request,
                    Reports(r)', phase'[<<Thread(w), r>>] # "none"
             PROVE  phase'[<<Thread(w), r>>] \in Over
  BY DEF OverInv
<1> DEFINE j == <<Thread(w), r>>
<1>1. j \in Job
  BY Names DEF Job
<1>2. CASE Reports(r)
  <2>1. ~StartsJob(j, Thread(w))
    BY <1>2, ReportsAt DEF StartsJob, JobOf, IsAt, Judging
  <2>2. ~RunsJob(j)
    BY <1>1, <1>2, JobRuns DEF OverInv, CInv, Living, Over
  <2>3. phase'[j] = phase[j]
    BY <2>1, <2>2, Kinds DEF JobKind, KeepsJob
  <2>4. QED
    BY <1>2, <2>3 DEF OverInv
<1>3. CASE ~Reports(r)
  <2>1. PICK v \in Worker : /\ Finishes(v, EXIT_OK) /\ EndsRound(v, EXIT_OK)
                            /\ cur[Thread(v)] = r
    BY <1>3, ReportsStep
  <2>2. EXIT_OK = CodeFor(status[JobOf(Thread(v))]) /\ Reap(Thread(v))
    BY <2>1 DEF EndsRound, Undisturbed, SigtermInWorker, EXIT_OK, EXIT_FORK_ERROR
  <2>3. JobOf(Thread(v)) = <<Thread(v), r>>
    BY <2>1 DEF JobOf
  <2>4. phase' = phase /\ pc[Thread(v)] = "wait" /\ Reported(<<Thread(v), r>>)
    BY <2>2, <2>3 DEF Reap
  <2>5. v = w
    BY <2>1, <2>4 DEF StartedInv, Judging
  <2>6. status[j] # Stopped
    BY <2>2, <2>3, <2>5 DEF CodeFor, Stopped, EXIT_OK, SIGSTOP
  <2>7. QED
    BY <2>4, <2>5, <2>6 DEF Reported
<1>4. QED
  BY <1>2, <1>3

LEMMA OverInvHolds ==
  ASSUME Undisturbed
  PROVE  Spec => [](CInv /\ StartedInv /\ OverInv)
<1>1. Init => StartedInv /\ OverInv
  BY Names DEF Init, StartedInv, OverInv, Job
<1>2. QED
  BY <1>1, StartedInvKept, OverInvKept, InitCInv, NextCInv, PTL DEF Spec

\* EXIT_OK tells the sender that the powerjudge run is over, for any number
\* of workers and all faults but a SIGTERM that interrupts waitpid.
THEOREM OkIsOver ==
  ASSUME Undisturbed
  PROVE  Spec => []OkMeansEnded
<1>1. OverInv => OkMeansEnded
  BY DEF OverInv, OkMeansEnded, Reports
<1>2. QED
  BY <1>1, OverInvHolds, PTL

-----------------------------------------------------------------------------
(* No worker waits for a child that is gone. *)

LEMMA ForksToWait ==
  ASSUME CInv, [Next]_vars, NEW w \in Worker,
         pc[Thread(w)] = "fork", pc'[Thread(w)] = "wait"
  PROVE  Spawn(Thread(w)) \/ ExecFails(w)
<1> USE Names
<1>1. CASE \E l \in Loop : LoopStep(l) \/ ForkFails(l)
  <2>1. PICK l \in Loop : LoopStep(l) \/ ForkFails(l)
    BY <1>1
  <2>2. l = Thread(w)
    BY <2>1 DEF LoopStep, LoopTest, Spawn, Reap, ForkFails, Return, CInv, TypeOK, LoopTypeOK
  <2>3. Spawn(l)
    BY <2>1, <2>2 DEF LoopStep, LoopTest, Reap, ForkFails, Return, CInv, TypeOK, LoopTypeOK
  <2>4. QED
    BY <2>2, <2>3
<1>2. CASE \E v \in Worker : ExecFails(v)
  <2>1. PICK v \in Worker : ExecFails(v)
    BY <1>2
  <2>2. \A u \in Worker : u # v => pc'[Thread(u)] = pc[Thread(u)]
    BY <2>1 DEF ExecFails, CInv, TypeOK, LoopTypeOK
  <2>3. QED
    BY <2>1, <2>2
<1>3. CASE \E v \in Worker : \/ Take(v) \/ TakeCopy(v) \/ ExecFailsAgain(v)
                             \/ SigtermInWorker(v)
  BY <1>3 DEF Take, TakeCopy, ExecFailsAgain, SigtermInWorker, Return, CInv, TypeOK, LoopTypeOK
<1>4. CASE \E i \in Job : JobStep(i) \/ Stop(i) \/ Continue(i)
  BY <1>4 DEF JobStep, OpenResult, WriteResult, Exit, Stop, Continue, Advance, loops
<1>5. CASE \/ MainTest \/ Password \/ ReadRequest \/ PushRequest
           \/ \E s \in Request : Accept(s)
           \/ SenderStep \/ CurlInitFails \/ SigtermInMain \/ ReplyToGonePeer \/ StackOverflows
           \/ Kill \/ UNCHANGED vars
  BY <1>5 DEF MainTest, Password, ReadRequest, PushRequest, Accept, SenderStep, loops,
      SendTest, SendTake, ReadResult, Post, CurlInitFails, SigtermInMain,
      ReplyToGonePeer, StackOverflows, Kill, vars
<1>6. QED
  BY <1>1, <1>2, <1>3, <1>4, <1>5 DEF Next

\* A clone that has come to life stays: nothing sets its isRunning.
LEMMA CloneStays ==
  ASSUME CInv, [Next]_vars, NEW w \in Worker, pc[Clone(w)] \notin {"absent", "done"}
  PROVE  pc'[Clone(w)] \notin {"absent", "done"}
<1> USE Names
<1>1. CASE \E l \in Loop : LoopStep(l) \/ ForkFails(l)
  BY <1>1 DEF LoopStep, LoopTest, Spawn, Reap, ForkFails, Return, CInv, TypeOK, LoopTypeOK
<1>2. CASE \E v \in Worker : ExecFails(v)
  <2>1. PICK v \in Worker : ExecFails(v)
    BY <1>2
  <2>2. v # w /\ Clone(v) # Clone(w)
    BY <2>1 DEF ExecFails, Clone
  <2>3. QED
    BY <2>1, <2>2 DEF ExecFails, CInv, TypeOK, LoopTypeOK
<1>3. CASE \E v \in Worker : \/ Take(v) \/ TakeCopy(v) \/ ExecFailsAgain(v)
                             \/ SigtermInWorker(v)
  BY <1>3 DEF Take, TakeCopy, ExecFailsAgain, SigtermInWorker, Return, CInv, TypeOK, LoopTypeOK
<1>4. CASE \E i \in Job : JobStep(i) \/ Stop(i) \/ Continue(i)
  BY <1>4 DEF JobStep, OpenResult, WriteResult, Exit, Stop, Continue, Advance, loops
<1>5. CASE \/ MainTest \/ Password \/ ReadRequest \/ PushRequest
           \/ \E s \in Request : Accept(s)
           \/ SenderStep \/ CurlInitFails \/ SigtermInMain \/ ReplyToGonePeer \/ StackOverflows
           \/ Kill \/ UNCHANGED vars
  BY <1>5 DEF MainTest, Password, ReadRequest, PushRequest, Accept, SenderStep, loops,
      SendTest, SendTake, ReadResult, Post, CurlInitFails, SigtermInMain,
      ReplyToGonePeer, StackOverflows, Kill, vars
<1>6. QED
  BY <1>1, <1>2, <1>3, <1>4, <1>5 DEF Next

LEMMA WaitsKept == CInv /\ StartedInv /\ WaitsForChild /\ [Next]_vars => WaitsForChild'
<1> SUFFICES ASSUME CInv, StartedInv, WaitsForChild, [Next]_vars
             PROVE  WaitsForChild'
  OBVIOUS
<1> SUFFICES ASSUME NEW w \in Worker, pc'[Thread(w)] = "wait",
                    NEW r \in Request, cur'[Thread(w)] = r
             PROVE  /\ phase'[<<Thread(w), r>>] # "none"
                    /\ phase'[<<Thread(w), r>>] \in Over
                       => status'[<<Thread(w), r>>] # NoStatus
                    /\ phase'[<<Thread(w), r>>] = "cloned"
                       => pc'[Clone(w)] \notin {"absent", "done"}
  <2>1. CInv'
    BY NextCInv
  <2>2. \A w \in Worker : pc'[Thread(w)] = "wait" => cur'[Thread(w)] \in Request
    BY <2>1, Names DEF CInv, TypeOK, LoopTypeOK
  <2>3. QED
    BY <2>1, <2>2 DEF WaitsForChild, JobOf
<1> DEFINE j == <<Thread(w), r>>
<1>1. j \in Job /\ Thread(w) \in Loop /\ Clone(w) \in Loop
  BY Names DEF Job
<1>2. CASE pc[Thread(w)] = "wait" /\ cur[Thread(w)] = r
  <2>1. /\ phase[j] # "none" /\ (phase[j] \in Over => status[j] # NoStatus)
        /\ phase[j] = "cloned" => pc[Clone(w)] \notin {"absent", "done"}
    BY <1>2 DEF WaitsForChild, JobOf
  <2>2. CASE KeepsJob(j, Thread(w))
    BY <2>1, <2>2, CloneStays DEF KeepsJob
  <2>3. CASE RunsJob(j)
    <3>1. phase'[j] \notin {"none", "cloned"}
      BY <1>1, <2>3, JobRuns DEF CInv, Living, Over
    <3>2. phase'[j] \in Over => status'[j] \in Ended
      BY <1>1, <2>3, JudgedAssumption
      DEF RunsJob, JobStep, OpenResult, WriteResult, Exit, Stop, Continue, Advance, Over,
          CInv, TypeOK, JobTypeOK, Living
    <3>3. NoStatus \notin Ended
      BY DEF NoStatus, Ended
    <3>4. QED
      BY <3>1, <3>2, <3>3
  <2>4. QED
    BY <1>2, <2>2, <2>3, Kinds DEF JobKind, StartsJob
<1>3. CASE pc[Thread(w)] = "fork" /\ cur[Thread(w)] = r
  <2>1. JobOf(Thread(w)) = j
    BY <1>3 DEF JobOf
  <2>2. CASE Spawn(Thread(w))
    BY <1>1, <2>1, <2>2 DEF Spawn, Over, CInv, TypeOK, JobTypeOK, Living
  <2>3. CASE ExecFails(w)
    <3>1. NoStatus # <<"exited", EXIT_OK>>
      BY DEF NoStatus
    <3>2. QED
      BY <1>1, <2>1, <2>3, <3>1, Names DEF ExecFails, Over, CInv, TypeOK,
        LoopTypeOK, JobTypeOK, Living
  <2>4. QED
    BY <1>3, <2>2, <2>3, ForksToWait
<1>4. QED
  <2>1. LoopKind(w)
    BY Kinds
  <2>2. QED
    BY <1>2, <1>3, <2>1 DEF LoopKind

\* A worker waits for ever only for a child that lives on as a clone, for any
\* number of workers and whatever faults happen.
THEOREM WaitsAreForChildren == Spec => []WaitsForChild
<1>1. Init => StartedInv /\ WaitsForChild
  BY Names DEF Init, StartedInv, WaitsForChild, Job
<1>2. QED
  BY <1>1, StartedInvKept, WaitsKept, InitCInv, NextCInv, PTL DEF Spec
=============================================================================
