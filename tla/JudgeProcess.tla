---------------------------- MODULE JudgeProcess ----------------------------
(***************************************************************************)
(* What the daemon may rely on about one powerjudge process: it truncates  *)
(* result.txt, then completes it, then ends; if it ends with status 0 the  *)
(* file is complete; if it ends before the file is complete, its status    *)
(* says so, except that status 6 may come with a result or without.        *)
(* JudgeRun implements this, and the jobs of Judged are of this kind.      *)
(* Exit codes other than 0, 6 and 21 are alike to the daemon; Other stands *)
(* for them.                                                               *)
(***************************************************************************)
CONSTANT Other

VARIABLES phase,  \* "running", "truncated", "written" or "ended"
          status  \* what waitpid will report, as <<how, number>>

vars == <<phase, status>>

NoStatus == <<"none", 0>>

Init == phase = "running" /\ status = NoStatus

Advance(from, to) == /\ status = NoStatus
                     /\ phase = from /\ phase' = to

\* fopen and fclose of result.txt
Open == Advance("running", "truncated") /\ UNCHANGED status
Close == Advance("truncated", "written") /\ UNCHANGED status

Exited(codes) == {<<"exited", c>> : c \in codes}
Signaled == {<<"signaled", 0>>}

End(s) ==
  /\ \/ /\ Advance("running", "ended")
        /\ s \in Exited({6, 21, Other}) \cup Signaled
     \/ /\ Advance("truncated", "ended")
        /\ s \in Exited({Other}) \cup Signaled
     \/ /\ Advance("written", "ended")
        /\ s \in Exited({0, 6, Other}) \cup Signaled
  /\ status' = s

Next == Open \/ Close \/ \E s \in Exited({0, 6, 21, Other}) \cup Signaled : End(s)

Spec == Init /\ [][Next]_vars
=============================================================================
