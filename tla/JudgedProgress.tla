--------------------------- MODULE JudgedProgress ---------------------------
(***************************************************************************)
(* What the users see of a submission: its row in the database.  Each      *)
(* powerjudge process writes its progress there itself (db_updater.cpp),   *)
(* as long as it compiles and runs tests; the verdict comes by way of the  *)
(* sender and the web application.  Nothing but the order of the daemon's  *)
(* steps keeps one from overwriting the other.                             *)
(***************************************************************************)
EXTENDS Judged

VARIABLE row  \* of each row: what was written last
progressVars == <<vars, row>>

\* The table is chosen by the contest, the row by the solution alone.
Row(r) == <<cid[r] > 0, sid[r]>>
Rows == {Row(r) : r \in Request}

Unjudged == [req |-> NoReq, final |-> FALSE]
Progress(r) == [req |-> r, final |-> FALSE]
Final(r) == [req |-> r, final |-> TRUE]

ProgressInit == Init /\ row = [d \in Rows |-> Unjudged]

-----------------------------------------------------------------------------
\* Mutant: the query is not waited for, and arrives when it will.
UpdateLater(j) ==
  /\ phase[j] # "none" /\ phase[j] # "cloned"
  /\ row' = [row EXCEPT ![Row(j[2])] = Progress(j[2])]
  /\ UNCHANGED vars

\* "compiling", or the number of the test about to run: before result.txt is
\* opened.  An update that fails, or for which there is no connection, is
\* not noticed and changes nothing.
update_solution_status(j) ==
  /\ phase[j] = "running"
  /\ row' = [row EXCEPT ![Row(j[2])] = Progress(j[2])]
  /\ UNCHANGED vars

\* The web application stores a verdict that has been delivered to it.
StoreVerdict ==
  IF posts' = posts THEN UNCHANGED row
  ELSE row' = [row EXCEPT ![Row(item.req)] = Final(item.req)]

ProgressNext == \/ Next /\ StoreVerdict
                \/ \E j \in Job : update_solution_status(j)

ProgressSpec == ProgressInit /\ [][ProgressNext]_progressVars

-----------------------------------------------------------------------------
(* Properties *)

\* No submission is shown as running once its verdict has been delivered:
\* the process that writes the progress is over before the verdict is sent.
NoProgressAfterVerdict ==
  \A r \in Request : row[Row(r)] = Progress(r) => ~IsAt(r, "posted")

\* With one worker the row of a solution that was judged again and again
\* shows, when all is reported, the verdict on the submission that was
\* acknowledged last.
SettlesOnNewest ==
  \A r \in Accepted :
    (\A v \in Accepted : Row(v) = Row(r) =>
       IsAt(v, "posted") /\ AckPosition(v) <= AckPosition(r))
    => row[Row(r)] = Final(r)
=============================================================================
