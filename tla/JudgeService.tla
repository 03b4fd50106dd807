---------------------------- MODULE JudgeService ----------------------------
(***************************************************************************)
(* What judged promises the web application: a submission it accepts is    *)
(* reported at most once; one it did not accept is never reported; and the *)
(* verdict reported is a system error, the content an earlier life of the  *)
(* daemon left in the submission's directory, or the verdict of a run for  *)
(* an accepted submission that shares the directory.  A crash is a         *)
(* behaviour in which nothing more happens.                                *)
(***************************************************************************)
CONSTANTS Request,  \* submissions, one per connection
          Verdict,  \* what can be reported, a superset of Request
          Possible, \* Possible[r]: the verdicts that may be reported for r
          NoVerdict \* "nothing reported yet"; not a verdict

VARIABLES stage,   \* what the web application knows of each submission
          verdict  \* the verdict reported for it, if any

vars == <<stage, verdict>>

Stage == {"new", "refused", "accepted", "reported", "undelivered"}

TypeOK == /\ stage \in [Request -> Stage]
          /\ verdict \in [Request -> Verdict \cup {NoVerdict}]

Init == /\ stage = [r \in Request |-> "new"]
        /\ verdict = [r \in Request |-> NoVerdict]

Enter(r, s) == stage' = [stage EXCEPT ![r] = s]

Answer(r) == /\ stage[r] = "new"
             /\ Enter(r, "accepted") \/ Enter(r, "refused")
             /\ UNCHANGED verdict

Report(r, v) == /\ stage[r] = "accepted"
                /\ v \in Possible[r]
                /\ v \in Request => stage[v] \notin {"new", "refused"}
                /\ Enter(r, "reported")
                /\ verdict' = [verdict EXCEPT ![r] = v]

\* The transfer to the web application fails, and is not tried again.
Lose(r) == /\ stage[r] = "accepted"
           /\ Enter(r, "undelivered")
           /\ UNCHANGED verdict

Next == \E r \in Request : Answer(r) \/ Lose(r) \/ \E v \in Verdict : Report(r, v)

Spec == Init /\ [][Next]_vars
=============================================================================
