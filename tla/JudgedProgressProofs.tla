------------------------ MODULE JudgedProgressProofs ------------------------
(***************************************************************************)
(* Progress and verdicts in the rows of the database.  A process that      *)
(* writes progress is one that a worker waits for (AliveInv), so that its  *)
(* submission is at the worker, and NothingTwice says that it is then not  *)
(* reported.                                                               *)
(***************************************************************************)
EXTENDS JudgedFreshProofs, JudgedProgress

RowTypeOK == row \in [Rows -> [req : Request \cup {NoReq}, final : BOOLEAN]]

\* The processes, and who waits for them.
WaitedInv == CInv /\ NoClones /\ NoneStopped /\ AliveInv

ProgressInv == WaitedInv /\ RowTypeOK /\ NoProgressAfterVerdict

\* The daemon does not see the rows.
LEMMA ProgressIsJudged == ProgressInit => Init
BY DEF ProgressInit

LEMMA ProgressSteps == [ProgressNext]_progressVars => [Next]_vars
BY DEF ProgressNext, progressVars, update_solution_status

LEMMA RowNames == \A r \in Request : Row(r) \in Rows
BY DEF Rows

\* What a step does to the rows.
LEMMA RowSteps ==
  ASSUME CInv, [ProgressNext]_progressVars
  PROVE  \/ UNCHANGED <<row, posts>>
         \/ \E j \in Job : update_solution_status(j)
         \/ /\ spc = "post"
            /\ posts' = Append(posts, [req |-> item.req, by |-> out])
            /\ row' = [row EXCEPT ![Row(item.req)] = Final(item.req)]
<1>1. CASE UNCHANGED progressVars
  BY <1>1 DEF progressVars, vars, sender
<1>2. CASE \E j \in Job : update_solution_status(j)
  BY <1>2
<1>3. CASE Next /\ StoreVerdict
  <2>1. CASE posts' = posts
    BY <1>3, <2>1 DEF StoreVerdict
  <2>2. CASE posts' # posts
    <3>1. Post
      BY <1>3, <2>2, SenderMoves DEF ReadResult, CurlInitFails
    <3>2. QED
      BY <1>3, <2>2, <3>1 DEF Post, StoreVerdict
  <2>3. QED
    BY <2>1, <2>2
<1>4. QED
  BY <1>1, <1>2, <1>3 DEF ProgressNext

LEMMA RowTypeKept ==
  CInv /\ RowTypeOK /\ [ProgressNext]_progressVars => RowTypeOK'
<1> SUFFICES ASSUME CInv, RowTypeOK, [ProgressNext]_progressVars PROVE RowTypeOK'
  OBVIOUS
<1>1. CASE UNCHANGED <<row, posts>>
  BY <1>1 DEF RowTypeOK
<1>2. CASE \E j \in Job : update_solution_status(j)
  <2>1. PICK j \in Job : update_solution_status(j)
    BY <1>2
  <2>2. Progress(j[2]) \in [req : Request \cup {NoReq}, final : BOOLEAN]
    BY Names DEF Progress
  <2>3. QED
    BY <2>1, <2>2 DEF RowTypeOK, update_solution_status
<1>3. CASE spc = "post" /\ row' = [row EXCEPT ![Row(item.req)] = Final(item.req)]
  BY <1>3, InHand DEF RowTypeOK, Final
<1>4. QED
  BY <1>1, <1>2, <1>3, RowSteps

\* The submission of a process that writes progress is at its worker.
LEMMA WriterAtWorker ==
  ASSUME Awaited, WaitedInv, NEW j \in Job, update_solution_status(j)
  PROVE  j[2] \in Request /\ IsAt(j[2], "worker") /\ ~IsAt(j[2], "posted")
<1>1. phase[j] = "running"
  BY DEF update_solution_status
<1>2. PICK w \in Worker, r \in Request : j = <<Thread(w), r>> \/ j = <<Clone(w), r>>
  BY DEF Job, Loop, Thread, Clone
<1>3. j = <<Thread(w), r>> /\ j[2] = r
  BY <1>1, <1>2 DEF WaitedInv, NoClones
<1>4. Judging(w) /\ cur[Thread(w)] = r
  BY <1>1, <1>3 DEF WaitedInv, AliveInv, Living, Judging
<1>5. IsAt(r, "worker")
  BY <1>4 DEF IsAt
<1>6. QED
  BY <1>3, <1>5 DEF WaitedInv, CInv, NothingTwice, InOnePlace, Places, Place

\* Delivering a verdict reports that submission and no other.
LEMMA Delivered ==
  ASSUME CInv, spc = "post", posts' = Append(posts, [req |-> item.req, by |-> out]),
         NEW r \in Request, IsAt(r, "posted")'
  PROVE  IsAt(r, "posted") \/ r = item.req
<1>1. posts \in Seq([req : Request, by : Verdict])
  BY DEF CInv, TypeOK, SenderTypeOK
<1>2. PICK i \in DOMAIN posts' : posts'[i].req = r
  BY DEF IsAt
<1>3. (i \in DOMAIN posts /\ posts'[i] = posts[i]) \/ i = Len(posts) + 1
  BY <1>1, <1>2
<1>4. QED
  BY <1>1, <1>2, <1>3 DEF IsAt

LEMMA WaitedInvKept ==
  ASSUME Awaited
  PROVE  WaitedInv /\ [ProgressNext]_progressVars => WaitedInv'
BY ProgressSteps, NextCInv, NoClonesKept, NoneStoppedKept, AliveInvKept DEF WaitedInv

LEMMA NoProgressKept ==
  ASSUME Awaited
  PROVE  ProgressInv /\ [ProgressNext]_progressVars => NoProgressAfterVerdict'
<1> SUFFICES ASSUME ProgressInv, [ProgressNext]_progressVars,
                    NEW r \in Request, row'[Row(r)] = Progress(r)
             PROVE  ~IsAt(r, "posted")'
  BY DEF NoProgressAfterVerdict
<1> USE RowNames DEF ProgressInv
<1>1. CASE UNCHANGED <<row, posts>>
  BY <1>1 DEF NoProgressAfterVerdict, IsAt
<1>2. CASE \E j \in Job : update_solution_status(j)
  <2>1. PICK j \in Job : update_solution_status(j)
    BY <1>2
  <2>2. IsAt(r, "posted")' <=> IsAt(r, "posted")
    BY <2>1 DEF update_solution_status, vars, sender, IsAt
  <2>3. CASE row'[Row(r)] = row[Row(r)]
    BY <2>2, <2>3 DEF NoProgressAfterVerdict
  <2>4. CASE row'[Row(r)] # row[Row(r)]
    <3>1. Progress(r) = Progress(j[2])
      BY <2>1, <2>4 DEF update_solution_status, RowTypeOK
    <3>2. r = j[2]
      BY <3>1 DEF Progress
    <3>3. QED
      BY <2>1, <2>2, <3>2, WriterAtWorker
  <2>5. QED
    BY <2>3, <2>4
<1>3. CASE /\ spc = "post"
           /\ posts' = Append(posts, [req |-> item.req, by |-> out])
           /\ row' = [row EXCEPT ![Row(item.req)] = Final(item.req)]
  <2>1. Row(r) # Row(item.req)
    BY <1>3 DEF RowTypeOK, Progress, Final
  <2>2. row[Row(r)] = Progress(r)
    BY <1>3, <2>1 DEF RowTypeOK
  <2>3. QED
    BY <1>3, <2>1, <2>2, Delivered DEF NoProgressAfterVerdict, WaitedInv
<1>4. QED
  BY <1>1, <1>2, <1>3, RowSteps DEF WaitedInv

LEMMA ProgressInvHolds ==
  ASSUME Awaited
  PROVE  ProgressSpec => []ProgressInv
<1>1. ProgressInit => ProgressInv
  <2> SUFFICES ASSUME ProgressInit PROVE ProgressInv
    OBVIOUS
  <2>1. WaitedInv
    BY ProgressIsJudged, InitCInv, Names DEF Init, WaitedInv, NoClones, NoneStopped,
        AliveInv, Living,
            NoStatus, Stopped, Job
  <2>2. RowTypeOK
    BY DEF ProgressInit, RowTypeOK, Unjudged
  <2>3. NoProgressAfterVerdict
    BY RowNames, Names DEF ProgressInit, NoProgressAfterVerdict, Unjudged, Progress
  <2>4. QED
    BY <2>1, <2>2, <2>3 DEF ProgressInv
<1>2. ProgressInv /\ [ProgressNext]_progressVars => ProgressInv'
  BY WaitedInvKept, RowTypeKept, NoProgressKept DEF ProgressInv, WaitedInv
<1>3. QED
  BY <1>1, <1>2, PTL DEF ProgressSpec

\* Whatever the number of workers, no submission is shown as running after
\* its verdict has been delivered, if powerjudge is awaited until its end.
THEOREM VerdictsStand ==
  ASSUME Awaited
  PROVE  ProgressSpec => []NoProgressAfterVerdict
<1>1. ProgressInv => NoProgressAfterVerdict
  BY DEF ProgressInv
<1>2. QED
  BY <1>1, ProgressInvHolds, PTL

-----------------------------------------------------------------------------
(* The row of a solution judged again, with one worker *)

\* No later report is for the row of report i.
LastInRow(i) ==
  \A k \in DOMAIN posts : k > i => Row(posts[k].req) # Row(posts[i].req)

\* A row of which something was reported shows the last report, or the
\* progress of a submission that was acknowledged.
Shows(r) ==
  \/ row[Row(r)] = Final(r)
  \/ \E s \in Accepted : Row(s) = Row(r) /\ row[Row(r)] = Progress(s)

RowInv == \A i \in DOMAIN posts : LastInRow(i) => Shows(posts[i].req)

SettleInv == ProgressInv /\ OrderInv /\ RowInv

LEMMA RowInvKept ==
  ASSUME Orderly
  PROVE  SettleInv /\ [ProgressNext]_progressVars => RowInv'
<1> SUFFICES ASSUME SettleInv, [ProgressNext]_progressVars,
                    NEW i \in DOMAIN posts', LastInRow(i)'
             PROVE  Shows(posts[i].req)'
  BY DEF RowInv
<1> USE RowNames DEF SettleInv, ProgressInv
<1>1. CInv /\ [Next]_vars /\ posts \in Seq([req : Request, by : Verdict])
  BY ProgressSteps DEF WaitedInv, CInv, TypeOK, SenderTypeOK
<1>2. \A s \in Accepted : s \in Request /\ s \in Accepted'
  BY <1>1, Upstream DEF CInv, TypeOK, MainTypeOK, Accepted, Elems
<1>3. CASE UNCHANGED <<row, posts>>
  <2>1. LastInRow(i) /\ i \in DOMAIN posts
    BY <1>3 DEF LastInRow
  <2>2. Shows(posts[i].req)
    BY <2>1 DEF RowInv
  <2>3. QED
    BY <1>2, <1>3, <2>2 DEF Shows
<1>4. CASE \E j \in Job : update_solution_status(j)
  <2>1. PICK j \in Job : update_solution_status(j)
    BY <1>4
  <2>2. posts' = posts /\ acks' = acks
    BY <2>1 DEF update_solution_status, vars, sender, main
  <2>3. Shows(posts[i].req) /\ posts[i].req \in Request
    <3>1. i \in DOMAIN posts /\ LastInRow(i)
      BY <2>2 DEF LastInRow
    <3>2. posts[i].req \in Request
      BY <1>1, <3>1, Occupants DEF CInv
    <3>3. QED
      BY <3>1, <3>2 DEF RowInv
  <2>4. j[2] \in Request /\ IsAt(j[2], "worker")
    BY <2>1, WriterAtWorker DEF Orderly
  <2>5. j[2] \in Accepted
    BY <1>1, <2>4, InPlaceAccepted DEF Place
  <2>6. CASE Row(j[2]) = Row(posts[i].req)
    <3>1. row'[Row(posts[i].req)] = Progress(j[2])
      BY <2>1, <2>3, <2>6 DEF update_solution_status, RowTypeOK
    <3>2. QED
      BY <1>2, <2>2, <2>5, <2>6, <3>1 DEF Shows
  <2>7. CASE Row(j[2]) # Row(posts[i].req)
    <3>1. row'[Row(posts[i].req)] = row[Row(posts[i].req)]
      BY <2>1, <2>3, <2>7 DEF update_solution_status, RowTypeOK
    <3>2. QED
      BY <1>2, <2>2, <2>3, <3>1 DEF Shows
  <2>8. QED
    BY <2>6, <2>7
<1>5. CASE /\ spc = "post"
           /\ posts' = Append(posts, [req |-> item.req, by |-> out])
           /\ row' = [row EXCEPT ![Row(item.req)] = Final(item.req)]
  <2>1. item.req \in Request
    BY <1>1, <1>5, InHand
  <2>2. CASE i = Len(posts) + 1
    <3>1. posts'[i].req = item.req
      BY <1>1, <1>5, <2>2
    <3>2. row'[Row(item.req)] = Final(item.req)
      BY <1>5, <2>1 DEF RowTypeOK
    <3>3. QED
      BY <3>1, <3>2 DEF Shows
  <2>3. CASE i # Len(posts) + 1
    <3>1. i \in DOMAIN posts /\ posts'[i] = posts[i] /\ posts[i].req \in Request
      <4>1. i \in DOMAIN posts /\ posts'[i] = posts[i]
        BY <1>1, <1>5, <2>3
      <4>2. QED
        BY <1>1, <4>1, Occupants DEF CInv
    <3>2. /\ Len(posts) + 1 \in DOMAIN posts' /\ Len(posts) + 1 > i
          /\ posts'[Len(posts) + 1].req = item.req
      BY <1>1, <1>5, <3>1
    <3>3. Row(item.req) # Row(posts[i].req)
      BY <3>1, <3>2 DEF LastInRow
    <3>4. LastInRow(i)
      <4> SUFFICES ASSUME NEW k \in DOMAIN posts, k > i
                   PROVE  Row(posts[k].req) # Row(posts[i].req)
        BY DEF LastInRow
      <4>1. k \in DOMAIN posts' /\ posts'[k] = posts[k]
        BY <1>1, <1>5
      <4>2. QED
        BY <3>1, <4>1 DEF LastInRow
    <3>5. row'[Row(posts[i].req)] = row[Row(posts[i].req)]
      BY <1>5, <2>1, <3>1, <3>3 DEF RowTypeOK
    <3>6. Shows(posts[i].req)
      BY <3>1, <3>4 DEF RowInv
    <3>7. QED
      BY <1>2, <3>1, <3>5, <3>6 DEF Shows
  <2>4. QED
    BY <2>2, <2>3
<1>6. QED
  BY <1>1, <1>3, <1>4, <1>5, RowSteps

LEMMA SettleInvHolds ==
  ASSUME Orderly
  PROVE  ProgressSpec => []SettleInv
<1>1. ProgressInit => OrderInv /\ RowInv
  <2>1. Init => RowInv
    BY DEF Init, RowInv
  <2>2. QED
    BY <2>1, ProgressIsJudged, OrderInvInit
<1>2. SettleInv /\ [ProgressNext]_progressVars => OrderInv'
  BY ProgressSteps, OrderInvKept
  DEF SettleInv, ProgressInv, WaitedInv, Orderly
<1>3. ProgressSpec => []ProgressInv
  BY ProgressInvHolds DEF Orderly
<1>4. SettleInv /\ [ProgressNext]_progressVars => RowInv'
  BY RowInvKept
<1>5. QED
  BY <1>1, <1>2, <1>3, <1>4, PTL DEF ProgressSpec, SettleInv

\* With one worker, once all that was accepted for a row is reported, the
\* row shows the verdict on the submission acknowledged last.
THEOREM RowsSettle ==
  ASSUME Orderly
  PROVE  ProgressSpec => []SettlesOnNewest
<1>1. SettleInv => SettlesOnNewest
  <2> SUFFICES ASSUME SettleInv, NEW r \in Accepted,
                      \A v \in Accepted : Row(v) = Row(r) =>
                        IsAt(v, "posted") /\ AckPosition(v) <= AckPosition(r)
               PROVE  row[Row(r)] = Final(r)
    BY DEF SettlesOnNewest
  <2>1. CInv /\ r \in Request
    BY DEF SettleInv, ProgressInv, WaitedInv, CInv, TypeOK, MainTypeOK, Accepted, Elems
  <2>2. PICK i \in DOMAIN posts : posts[i].req = r
    BY DEF IsAt
  <2>3. LastInRow(i)
    <3> SUFFICES ASSUME NEW k \in DOMAIN posts, k > i, Row(posts[k].req) = Row(r)
                 PROVE  FALSE
      BY <2>2 DEF LastInRow
    <3>1. posts[k].req \in Request /\ IsAt(posts[k].req, "posted")
      BY <2>1, Occupants DEF CInv
    <3>2. posts[k].req \in Accepted /\ AckPosition(posts[k].req) \in Nat
      BY <2>1, <3>1, InPlaceAccepted DEF Place
    <3>3. AckPosition(r) \in Nat
      BY <2>1, PositionType DEF CInv, TypeOK, MainTypeOK
    <3>4. DOMAIN posts \subseteq Nat
      BY <2>1 DEF CInv, TypeOK, SenderTypeOK
    <3>5. AckPosition(r) < AckPosition(posts[k].req)
      BY <2>2, <3>4 DEF SettleInv, OrderInv, ReportedInOrder
    <3>6. QED
      BY <3>2, <3>3, <3>5
  <2>4. Shows(r)
    BY <2>2, <2>3 DEF SettleInv, RowInv
  <2>5. \A s \in Accepted : Row(s) = Row(r) => row[Row(r)] # Progress(s)
    <3> SUFFICES ASSUME NEW s \in Accepted, Row(s) = Row(r), row[Row(s)] = Progress(s)
                 PROVE  FALSE
      OBVIOUS
    <3>1. IsAt(s, "posted") /\ s \in Request
      BY <2>1 DEF CInv, TypeOK, MainTypeOK, Accepted, Elems
    <3>2. QED
      BY <3>1 DEF SettleInv, ProgressInv, NoProgressAfterVerdict
  <2>6. QED
    BY <2>4, <2>5 DEF Shows
<1>2. QED
  BY <1>1, SettleInvHolds, PTL
=============================================================================
