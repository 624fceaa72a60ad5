----------------------------- MODULE ShareLedger -----------------------------
(***************************************************************************)
(* What the pool owes its miners: each share is judged once, when it is    *)
(* first sent.  It is refused for good, reported, or left to the daemon    *)
(* and reported when that is heard to answer, whatever the answer is.      *)
(* Nothing is judged again, however often it is sent.                      *)
(***************************************************************************)
EXTENDS Naturals

CONSTANT Share

VARIABLES judged, \* the shares that were judged
          asked,  \* those of them left to the daemon and not reported yet
          reports \* reports[s]: how often s was reported

ledgerVars == <<judged, asked, reports>>

Init ==
    /\ judged = {}
    /\ asked = {}
    /\ reports = [s \in Share |-> 0]

Report(s) == reports' = [reports EXCEPT ![s] = @ + 1]

\* A share is refused, reported, or left to the daemon.
Judge(s) ==
    /\ s \notin judged
    /\ judged' = judged \cup {s}
    /\ \/ UNCHANGED <<asked, reports>>
       \/ Report(s) /\ UNCHANGED asked
       \/ asked' = asked \cup {s} /\ UNCHANGED reports

\* The daemon has answered.
Settle(s) ==
    /\ s \in asked
    /\ asked' = asked \ {s}
    /\ Report(s)
    /\ UNCHANGED judged

Next == \E s \in Share : Judge(s) \/ Settle(s)

Spec == Init /\ [][Next]_ledgerVars
=============================================================================
