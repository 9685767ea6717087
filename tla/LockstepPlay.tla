---------------------------- MODULE LockstepPlay ----------------------------
(***************************************************************************)
(* What a player's client promises whatever the network does: there is one *)
(* match, both inputs of every settled frame are known, every settled      *)
(* state follows from the one before it by those inputs, and nothing that  *)
(* is settled is ever taken back.                                          *)
(***************************************************************************)
EXTENDS Integers

CONSTANTS Input, GameState, InitialState, Simulate(_, _, _)

VARIABLES settled,   \* how many frames are settled
          states,    \* 0..settled -> state before each frame, and after the last
          moves      \* 0..settled-1 -> the two inputs of each settled frame

play == <<settled, states, moves>>

Init ==
    /\ settled = 0
    /\ states = [f \in {0} |-> InitialState]
    /\ moves = <<>>

(* One more frame is settled: its state follows from the state before it. *)
Settle ==
    /\ settled' = settled + 1
    /\ DOMAIN states' = 0..settled'
    /\ DOMAIN moves' = 0..settled
    /\ \A f \in 0..settled : states'[f] = states[f]
    /\ \A f \in 0..(settled - 1) : moves'[f] = moves[f]
    /\ moves'[settled].local \in Input /\ moves'[settled].remote \in Input
    /\ states'[settled'] = Simulate(states[settled], moves'[settled].local, moves'[settled].remote)

Spec == Init /\ [][Settle]_play
=============================================================================
