---------------------------- MODULE MCClientPlay ----------------------------
(* A client at play, on small instances: its rollback session, the recorder of
   its input commitments and the frame of the simulation.  The three share no
   state in these models, so one search serves them all: `part` names the one
   that moves, and the others stay in their initial states. *)
EXTENDS RollbackSession, Sequences

CONSTANTS
    MaxFrames, Guard, MaxAttempts, Replenish, Rounds, Transition, LastFrame, MaxLag, MaxWaits,

    (* The fighters' kit.  The run's has short attacks, any of the four specials
       and a well that captures the launched; a player holds at most one button
       in a frame. *)
    LaunchStartup, LaunchActive, LaunchHitRecovery, LaunchWhiffRecovery,
    DunkStartup, DunkActive, DunkHitRecovery, DunkWhiffRecovery,
    SpecialStartup, SpecialActive, SpecialRecovery, SpecialCooldown, SpecialKinds,
    ParryStartup, ParryActive, ParryRecovery, CounterStun, GuardFrames,
    BreakRecovery, Breaks, Helpless, MinFlight, DunkRecovery, ShotStun, GrabStun,
    MaxFuel, SpecialCost, DashCost, DashDebt, NonCommitPenalty, RecoveryCost,
    MaxShots, AllowDunkWin, Well, Buttons

VARIABLES
    part,
    now, delay, waits, pace, mutual, sealed, lengths, pending, queued, nextSequence,
    previousChain, failed, attempt, requests, answers, stored,
    kind, fighter, winner, shots, stale

-----------------------------------------------------------------------------
(* Two inputs per player, and a simulation whose state is everything that has
   been played, so that no two histories look alike.  A full history stays as
   it is, which keeps the states a finite set. *)
Moves == {0, 1}
Histories == UNION {[1..n -> Moves \X Moves] : n \in 0..MaxFrame}
Start == <<>>
Played(state, own, peer) ==
    IF Len(state) = MaxFrame THEN state ELSE Append(state, <<own, peer>>)

(* Both players acting in one frame decides the round; the first such frame
   names the winner. *)
Nobody == "nobody"
Decided(state) == IF <<1, 1>> \in {state[i] : i \in DOMAIN state} THEN "P1" ELSE Nobody

Log == INSTANCE InputCommitments WITH frame <- pace, archived <- sealed

Duel == INSTANCE Fight

ASSUME PlayAssumption == Log!CommitmentAssumption /\ Duel!FightAssumption

-----------------------------------------------------------------------------
recording == <<now, delay, waits, pace, mutual, sealed, lengths, pending, queued, nextSequence,
               previousChain, failed, attempt, requests, answers, stored>>
fighting == <<kind, fighter, winner, shots, stale>>
all == <<part, vars, recording, fighting>>

PlayInit ==
    /\ part \in {"session", "recorder", "fight"}
    /\ Init /\ Log!Init /\ Duel!Init
    /\ part = "fight" \/ kind = CHOOSE k \in SpecialKinds : TRUE

Session == part = "session" /\ Next /\ UNCHANGED <<part, recording, fighting>>
Record == part = "recorder" /\ Log!Next /\ UNCHANGED <<part, vars, fighting>>
Fight == part = "fight" /\ Duel!Next /\ UNCHANGED <<part, vars, recording>>

Drains(A) == part = "recorder" /\ A /\ UNCHANGED <<part, vars, fighting>>

PlaySpec ==
    /\ PlayInit /\ [][Session \/ Record \/ Fight]_all
    /\ WF_all(Drains(Log!Submit))
    /\ WF_all(Drains(Log!Receive))
    /\ WF_all(Drains(Log!LoseAttempt))

-----------------------------------------------------------------------------
(* The types of the three; no prediction outlives the input it repeats, and a
   fighter's commitments, flight and dash hang together at the end of a frame. *)
ClientInvariant ==
    CASE part = "session" -> TimelineInvariant
      [] part = "recorder" -> Log!TypeOK
      [] part = "fight" -> Duel!FightInvariant

(* InputCommitments: the server's chain of commitments never forks from the
   recorder's, whatever is lost, retried or arrives late. *)
ChainNeverForks == part = "recorder" => Log!ChainNeverForks

(* InputCommitments: no chunk is sealed that a late correction could cut, and
   the evidence of a flushed match covers the proof, takes its time and overdraws
   the verifier's credit by no more than its chunks were late. *)
EvidenceWithinLag == part = "recorder" => Log!TailStaysOpen /\ Log!EvidenceWithinLag

(* InputCommitments: every sealed chunk is acknowledged or the recorder gives up. *)
FlushEnds == Log!FlushEnds

(* Fight: the two fighters are never both in flight. *)
NeverBothHelpless == Duel!NeverBothHelpless

(* Fight: an attack whose fighter lost control after it began never connects. *)
NoStaleHit == Duel!NoStaleHit

(* Fight: but for dunks or grabs that meet, a frame favours neither seat. *)
SeatsAreEqualButForMeetings == part = "fight" => Duel!SeatsAreEqualButForMeetings
=============================================================================
