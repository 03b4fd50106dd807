------------------------------ MODULE MCJudged ------------------------------
(***************************************************************************)
(* Submissions r1 and r2 are of one solution, so r2 is a rejudge in the    *)
(* same directory; r3 is another submission, in a contest's directory.     *)
(***************************************************************************)
EXTENDS Judged, TLC

CONSTANTS r1, r2, r3

solution == [r \in Request |-> 1]
contest == [r \in Request |-> IF r = r3 THEN 7 ELSE 0]

\* Success, compile error and timeout: one status for each way run treats.
threeEndings == Ended \ {<<"exited", EXIT_JUDGE>>, <<"signaled", SIGKILL>>}

\* The statuses that make the daemon read result.txt, complete or not.
readEndings == {<<"exited", EXIT_OK>>, <<"exited", EXIT_COMPILE_ERROR>>}

\* A run that leaves a result, and one that does not and says so.
timedEndings == {<<"exited", EXIT_OK>>, <<"exited", EXIT_TIMEOUT>>}

\* Bound: an earlier life of the daemon has left a result in each directory.
InitAfterEarlierLife == Init /\ file = [d \in Dir |-> Stale]
LiveSpec == InitAfterEarlierLife /\ [][Next]_vars /\ Fairness

\* The workers are interchangeable; the submissions are not.
Workers == Permutations(Worker)
=============================================================================
