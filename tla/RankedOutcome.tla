--------------------------- MODULE RankedOutcome ---------------------------
(***************************************************************************)
(* What the ranked service promises about one session, without workers,    *)
(* leases, retries, transactions or crashes: the session is rated at most  *)
(* once, by the players' agreement or by a server forfeit; the server's    *)
(* verdict, once recorded, is closed exactly once and in agreement with    *)
(* the rating; and no agreement is accepted after the server's verdict.    *)
(* RankedSettlement implements it.                                         *)
(***************************************************************************)

VARIABLES
    rated,     \* how the session was rated: "none", "consensus", "forfeit"
    verdict    \* the server's verdict on the session

vars == <<rated, verdict>>

Open == {"forfeit", "no_contest"}

TypeOK ==
    /\ rated \in {"none", "consensus", "forfeit"}
    /\ verdict \in {"none"} \cup Open \cup {"settled", "superseded", "void"}

Init == rated = "none" /\ verdict = "none"

\* Both players sent the same verified proof.
Agree ==
    /\ rated = "none" /\ verdict = "none"
    /\ rated' = "consensus"
    /\ UNCHANGED verdict

Decide ==
    /\ verdict = "none"
    /\ verdict' \in Open
    /\ UNCHANGED rated

Award ==
    /\ verdict = "forfeit" /\ rated = "none"
    /\ rated' = "forfeit"
    /\ UNCHANGED verdict

Close ==
    /\ \/ verdict = "forfeit" /\ rated = "forfeit" /\ verdict' = "settled"
       \/ verdict = "forfeit" /\ rated = "consensus" /\ verdict' = "superseded"
       \/ verdict = "no_contest" /\ verdict' = "void"
    /\ UNCHANGED rated

Next == Agree \/ Decide \/ Award \/ Close

Spec == Init /\ [][Next]_vars

\* A verdict that was recorded is closed.
VerdictCloses == (verdict \in Open) ~> (verdict \notin Open)
=============================================================================
