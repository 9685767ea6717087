----------------------------- MODULE RoundBarrier -----------------------------
(* What two clients promise about the rounds of a match: a round is committed
   by one of them only while the other has committed every earlier round. *)
EXTENDS Integers

CONSTANTS Client, Rounds

VARIABLE done    \* the rounds a client has committed

Init == done = [c \in Client |-> 0]

Commit(c) ==
    /\ done[c] < Rounds
    /\ \A d \in Client : done[c] <= done[d]
    /\ done' = [done EXCEPT ![c] = @ + 1]

Next == \E c \in Client : Commit(c)

Spec == Init /\ [][Next]_done

(* Never more than a round apart. *)
Together == \A c, d \in Client : done[c] <= done[d] + 1
=============================================================================
