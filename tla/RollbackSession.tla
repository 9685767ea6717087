--------------------------- MODULE RollbackSession ---------------------------
(***************************************************************************)
(* One client's round: its RollbackSession, the InputTimelineBuffer under  *)
(* it, and the part of the game loop that drives them.  The session        *)
(* simulates its own inputs at once, predicts the peer's, and when late    *)
(* authoritative inputs differ from the predictions it restores a snapshot *)
(* and simulates again.  The simulation itself is a parameter.             *)
(*                                                                         *)
(* JavaScript runs a call to its end before anything else, and several of  *)
(* these calls loop: over the inputs of a batch, over the frames to        *)
(* simulate again, over the frames to archive.  Each iteration is a step;  *)
(* `mode` keeps every other step out until the call has ended.             *)
(***************************************************************************)
EXTENDS Integers, FiniteSets

CONSTANTS
    Input,                 \* inputs of a player for one frame
    Neutral,               \* createNeutralPlayerInput()
    GameState,
    InitialState,
    Simulate(_, _, _),     \* step(state, local input, remote input)
    Winner(_),             \* state.winner
    NoWinner,
    MaxHistoryFrames,
    MaxPrediction,         \* MAX_ONLINE_PREDICTION_FRAMES
    MaxFrame               \* bound of the model

None == -1

ASSUME RollbackAssumption ==
    /\ Neutral \in Input
    /\ InitialState \in GameState
    /\ \A s \in GameState, l \in Input, r \in Input : Simulate(s, l, r) \in GameState
    /\ \A s \in GameState, l \in Input, r \in Input :
          Winner(s) # NoWinner => Winner(Simulate(s, l, r)) = Winner(s)
    /\ Winner(InitialState) = NoWinner
    /\ MaxHistoryFrames \in Nat
    /\ MaxPrediction \in Nat \ {0}
    /\ MaxPrediction < MaxHistoryFrames
    /\ MaxFrame \in Nat

VARIABLES
    frame,        \* currentFrame
    snapshots,    \* frame -> state before it; snapshots[frame] is `state`
    local,        \* timeline: frame -> own input
    remote,       \* timeline: frame -> [input, predicted]
    newest,       \* timeline.newestFrame
    winning,      \* winningFrame: [frame, winner], NoWinningFrame before there is one
    mode,         \* where the running call stands; "idle" between calls
    batch,        \* frames of the batch still to be applied
    earliest,     \* earliestRollbackFrame, None if nothing changed
    target,       \* targetFrame of the resimulation; the current frame otherwise
    deciding,     \* appPhase is round_transition: pendingRoundWinner is set
    exchanged,    \* frames up to it: the pump has the peer's, the peer confirmed ours
    confirmed,    \* getMutuallyConfirmedThrough(): and we have confirmed the peer's
    archived      \* replayRecorder.currentRoundFrameCount - 1

VARIABLES         \* observers, not state of the program
    script,       \* frame -> own input, as enqueued for the peer
    authentic,    \* frame -> the peer's authoritative input that the session has taken
    tooLate,      \* frames it has refused as too late
    used,         \* frame -> peer's input of its latest simulation
    trajectory    \* frame -> state before its latest simulation, never trimmed

timeline == <<local, remote, newest>>
cursors == <<exchanged, confirmed, archived>>
session == <<frame, snapshots, timeline, winning, mode, batch, earliest, target, deciding>>
observed == <<script, authentic, tooLate, used, trajectory>>
vars == <<session, cursors, observed>>

Entry == [input : Input, predicted : BOOLEAN]
NoWinningFrame == [frame |-> None, winner |-> NoWinner]
accepted == DOMAIN authentic

(* The part of a function that belongs to the frames from a floor on, and the
   part up to a frame. *)
From(fn, floor) == [f \in {g \in DOMAIN fn : g >= floor} |-> fn[f]]
UpTo(fn, last) == [f \in {g \in DOMAIN fn : g <= last} |-> fn[f]]
Put(fn, f, value) == [g \in DOMAIN fn \cup {f} |-> IF g = f THEN value ELSE fn[g]]
Larger(a, b) == IF a >= b THEN a ELSE b
Smaller(a, b) == IF a <= b THEN a ELSE b

-----------------------------------------------------------------------------
(* InputTimelineBuffer. *)

(* upsert ignores what lies before it. *)
WindowFloor(top) == IF top >= 0 THEN top - MaxHistoryFrames + 1 ELSE 0

(* The first frame that trimToWindow keeps once the newest frame is `top`. *)
TrimFloor(ownFrames, peerFrames, top) ==
    IF Cardinality(ownFrames \cup peerFrames) > MaxHistoryFrames
    THEN top - MaxHistoryFrames + 1
    ELSE 0

-----------------------------------------------------------------------------
(* simulateSingleFrame, with the frame's own input already in the timeline of
   the caller's step: `own` is the local part, `peer` the remote part before
   the prediction is made. *)

(* findLastRemoteInputBefore, with the neutral input as its fallback. *)
LastBefore(peer, f) ==
    LET last == {g \in DOMAIN peer : g < f /\ \A h \in DOMAIN peer : h < f => h <= g}
    IN  IF last = {} THEN Neutral ELSE peer[CHOOSE g \in last : TRUE].input

(* resolveRemoteInputForFrame: an entry that is there, or a prediction. *)
Resolved(peer, f) ==
    IF f \in DOMAIN peer THEN peer[f]
    ELSE [input |-> LastBefore(peer, f), predicted |-> TRUE]

(* The first frame trimHistory keeps in front of frame `next`. *)
HistoryFloor(next) == Larger(0, next - MaxHistoryFrames)

SimulateSingleFrame(own, peer, top) ==
    LET entry  == Resolved(peer, frame)
        mine   == IF frame \in DOMAIN own THEN own[frame] ELSE Neutral
        next   == Simulate(snapshots[frame], mine, entry.input)
        crest  == Larger(top, frame)
        peers  == IF frame < WindowFloor(top) THEN peer ELSE Put(peer, frame, entry)
        floor  == Larger(TrimFloor(DOMAIN own, DOMAIN peers, crest), HistoryFloor(frame + 1))
    IN  /\ frame' = frame + 1
        /\ newest' = crest
        /\ snapshots' = From(Put(snapshots, frame + 1, next), HistoryFloor(frame + 1))
        /\ local' = From(own, floor)
        /\ remote' = From(peers, floor)
        /\ winning' = IF Winner(next) # NoWinner /\ winning = NoWinningFrame
                      THEN [frame |-> frame, winner |-> Winner(next)] ELSE winning
        /\ used' = Put(used, frame, entry.input)
        /\ trajectory' = Put(trajectory, frame + 1, next)

-----------------------------------------------------------------------------
Init ==
    /\ frame = 0
    /\ snapshots = [f \in {0} |-> InitialState]
    /\ local = [f \in {} |-> Neutral]
    /\ remote = [f \in {} |-> [input |-> Neutral, predicted |-> TRUE]]
    /\ newest = None
    /\ winning = NoWinningFrame
    /\ mode = "idle"
    /\ batch = {}
    /\ earliest = None
    /\ target = 0
    /\ deciding = FALSE
    /\ exchanged = None /\ confirmed = None /\ archived = None
    /\ script = [f \in {} |-> Neutral]
    /\ authentic = [f \in {} |-> Neutral]
    /\ tooLate = {}
    /\ used = [f \in {} |-> Neutral]
    /\ trajectory = [f \in {0} |-> InitialState]

CanAdvance_OneMore == frame - (confirmed + 1) <= MaxPrediction

(* canAdvanceOnlineSimulation. *)
CanAdvance == frame - (confirmed + 1) < MaxPrediction

(* What applyPendingRemoteInputs hands over: every pending input up to a frame.
   Those of the exchanged frames are among them, others have come early, and an
   input that is still in the timeline may come again. *)
Pending(frames, through) ==
    /\ frames \subseteq 0..through
    /\ (0..exchanged) \ accepted \subseteq frames
    /\ frames \cap accepted \subseteq DOMAIN remote

(* One turn of the game loop begins, perhaps not the first of a tick: the own
   input of the frame is enqueued for the peer and the peer's pending inputs
   are applied. *)
BeginFrame(input, frames) ==
    /\ mode \in {"idle", "looping"}
    /\ ~deciding
    /\ frame < MaxFrame
    /\ CanAdvance
    /\ Pending(frames, frame)
    /\ script' = Put(script, frame, input)
    /\ mode' = "applying"
    /\ batch' = frames
    /\ UNCHANGED <<frame, snapshots, timeline, winning, earliest, target, deciding, cursors, authentic, tooLate, used, trajectory>>

(* updateOnlineRoundResolution begins: the round looks decided, no frame is
   simulated, and the peer's pending inputs are still applied. *)
BeginResolution(frames) ==
    /\ mode = "idle"
    /\ deciding
    /\ Pending(frames, frame - 1)
    /\ mode' = "applying"
    /\ batch' = frames
    /\ UNCHANGED <<frame, snapshots, timeline, winning, earliest, target, deciding, cursors, observed>>

RollbackFrom_Last(f) == f

RollbackFrom(f) == IF earliest = None THEN f ELSE Smaller(earliest, f)

(* `changed` or `inserted`: what was simulated with is not this input. *)
Corrects(f, value) == f \in DOMAIN remote => remote[f].input # value

(* One iteration of the loop of applyRemoteAuthoritativeInputs, in the order of
   the frames. *)
ApplyEntry(f, value) ==
    LET known   == f \in DOMAIN remote /\ ~remote[f].predicted
        ignored == f < WindowFloor(newest)
        crest   == Larger(newest, f)
        peers   == Put(remote, f, [input |-> value, predicted |-> FALSE])
        floor   == TrimFloor(DOMAIN local, DOMAIN peers, crest)
        taken   == ~known /\ ~ignored
    IN  /\ mode = "applying"
        /\ f \in batch
        /\ \A g \in batch : f <= g
        /\ batch' = batch \ {f}
        /\ newest' = IF taken THEN crest ELSE newest
        /\ local' = IF taken THEN From(local, floor) ELSE local
        /\ remote' = IF taken THEN From(peers, floor) ELSE remote
        /\ authentic' = IF taken THEN Put(authentic, f, value) ELSE authentic
        /\ tooLate' = IF ~known /\ ignored THEN tooLate \cup {f} ELSE tooLate
        /\ earliest' = IF taken /\ f < frame /\ Corrects(f, value)
                       THEN RollbackFrom(f) ELSE earliest
        /\ UNCHANGED <<frame, snapshots, winning, mode, target, deciding, cursors, script, used, trajectory>>

(* What follows once the inputs are applied: the frame of this turn, or the
   archive when the round looks decided. *)
Applied == IF deciding THEN "archiving" ELSE "advancing"

ClearPredictedFrom_Keep(f) == remote

(* clearPredictedFrom(f): later predictions rested on what has changed. *)
ClearPredictedFrom(f) ==
    [g \in {h \in DOMAIN remote : ~(h >= f /\ remote[h].predicted)} |-> remote[g]]

RestoreSnapshot_KeepsLater ==
    /\ mode' = "resimulating"
    /\ target' = frame
    /\ frame' = earliest
    /\ snapshots' = snapshots
    /\ winning' = IF Winner(snapshots[earliest]) # NoWinner /\ winning.frame < earliest
                  THEN winning ELSE NoWinningFrame
    /\ used' = UpTo(used, earliest - 1)
    /\ trajectory' = UpTo(trajectory, earliest)

(* rollbackAndResimulate up to its loop: the snapshot is restored, later ones
   are dropped, and a winning frame that is not before it is forgotten. *)
RestoreSnapshot ==
    /\ mode' = "resimulating"
    /\ target' = frame
    /\ frame' = earliest
    /\ snapshots' = UpTo(snapshots, earliest)
    /\ winning' = IF Winner(snapshots[earliest]) # NoWinner /\ winning.frame < earliest
                  THEN winning ELSE NoWinningFrame
    /\ used' = UpTo(used, earliest - 1)
    /\ trajectory' = UpTo(trajectory, earliest)

(* Something the session has simulated turned out wrong.  The exception
   "Missing rollback snapshot", and a frame that came too late, end the match. *)
Rollback ==
    /\ mode = "applying"
    /\ batch = {}
    /\ earliest # None
    /\ remote' = ClearPredictedFrom(earliest + 1)
    /\ earliest' = None
    /\ IF earliest \in DOMAIN snapshots /\ tooLate = {}
       THEN RestoreSnapshot
       ELSE /\ mode' = "failed"
            /\ UNCHANGED <<frame, snapshots, winning, target, used, trajectory>>
    /\ UNCHANGED <<local, newest, batch, deciding, cursors, script, authentic, tooLate>>

(* Nothing the session has simulated turned out wrong. *)
NothingChanged ==
    /\ mode = "applying"
    /\ batch = {}
    /\ earliest = None
    /\ mode' = IF tooLate = {} THEN Applied ELSE "failed"
    /\ UNCHANGED <<frame, snapshots, timeline, winning, batch, earliest, target, deciding, cursors, observed>>

(* One iteration of the loop of rollbackAndResimulate. *)
Resimulate ==
    /\ mode = "resimulating"
    /\ SimulateSingleFrame(local, remote, newest)
    /\ mode' = IF frame + 1 = target THEN Applied ELSE "resimulating"
    /\ UNCHANGED <<batch, earliest, target, deciding, cursors, script, authentic, tooLate>>

(* advanceFrame. *)
AdvanceFrame ==
    /\ mode = "advancing"
    /\ LET crest == Larger(newest, frame)
           own   == IF frame < WindowFloor(newest) THEN local ELSE Put(local, frame, script[frame])
           floor == TrimFloor(DOMAIN own, DOMAIN remote, crest)
       IN  SimulateSingleFrame(From(own, floor), From(remote, floor), crest)
    /\ target' = frame + 1
    /\ mode' = "archiving"
    /\ UNCHANGED <<batch, earliest, deciding, cursors, script, authentic, tooLate>>

(* resolveSynchronizedReplayFrameLimit; `exchanged` stands for the smaller of
   contiguousRemoteFrame and peerConfirmedThrough. *)
ReplayLimit ==
    LET simulated == Smaller(exchanged, frame - 1)
    IN  IF winning = NoWinningFrame THEN simulated ELSE Smaller(simulated, winning.frame)

(* The frame can be archived: both inputs are there, none is a prediction, and
   its corrected state has not expired. *)
Archivable(f) ==
    /\ f \in DOMAIN local
    /\ f \in DOMAIN remote /\ ~remote[f].predicted
    /\ f + 1 \in DOMAIN snapshots

(* One iteration of the loop of recordSynchronizedOnlineReplayFrames. *)
ArchiveFrame ==
    /\ mode = "archiving"
    /\ archived < ReplayLimit
    /\ archived' = IF Archivable(archived + 1) THEN archived + 1 ELSE archived
    /\ mode' = IF Archivable(archived + 1) THEN mode ELSE "failed"
    /\ UNCHANGED <<frame, snapshots, timeline, winning, batch, earliest, target, deciding, exchanged, confirmed, observed>>

Synchronized_Prediction == winning # NoWinningFrame

(* isSynchronizedThrough(pendingRoundFinalFrame). *)
Synchronized == winning # NoWinningFrame /\ winning.frame <= confirmed

(* The call ends.  A tick whose frame decided the round may have time left for
   more frames, else it ends the play.  A resolution commits the round once the
   peers are synchronized through the winning frame, goes on waiting, or resumes
   the play because a correction has undone the result. *)
EndCall ==
    /\ mode = "archiving"
    /\ archived >= ReplayLimit
    /\ LET won == Winner(snapshots[frame]) # NoWinner IN
       \/ /\ deciding /\ Synchronized
          /\ mode' = "committed"
          /\ UNCHANGED deciding
       \/ /\ ~(deciding /\ Synchronized)
          /\ mode' = "idle"
          /\ deciding' = won
       \/ /\ ~deciding /\ won
          /\ mode' = "looping"
          /\ UNCHANGED deciding
    /\ UNCHANGED <<frame, snapshots, timeline, winning, batch, earliest, target, cursors, observed>>

(* Between calls the peers exchange one more frame, and we confirm it.  How is
   the matter of FrameExchange; here it is enough that the peer cannot confirm
   a frame we have not simulated. *)
Exchange ==
    /\ mode = "idle"
    /\ exchanged + 1 < frame
    /\ exchanged' = exchanged + 1
    /\ UNCHANGED <<session, confirmed, archived, observed>>

Confirm ==
    /\ mode = "idle"
    /\ confirmed < exchanged
    /\ confirmed' = confirmed + 1
    /\ UNCHANGED <<session, exchanged, archived, observed>>

Next ==
    \/ \E input \in Input, frames \in SUBSET (0..frame) : BeginFrame(input, frames)
    \/ \E frames \in SUBSET (0..frame) : BeginResolution(frames)
    \/ \E f \in batch, value \in Input : ApplyEntry(f, value)
    \/ Rollback
    \/ NothingChanged
    \/ Resimulate
    \/ AdvanceFrame
    \/ ArchiveFrame
    \/ EndCall
    \/ Exchange
    \/ Confirm

Spec == Init /\ [][Next]_vars

-----------------------------------------------------------------------------
(* Types; the frames of each function; `newest` and `mode` as they can be. *)
TypeOK ==
    /\ frame \in 0..MaxFrame /\ target \in 0..MaxFrame
    /\ newest \in -1..MaxFrame
    /\ -1 <= archived /\ archived <= exchanged
    /\ -1 <= confirmed /\ confirmed <= exchanged
    /\ exchanged < Larger(target, 1) /\ exchanged \in Int
    /\ confirmed \in Int /\ archived \in Int
    /\ mode \in {"idle", "applying", "resimulating", "advancing", "archiving", "looping", "committed", "failed"}
    /\ deciding \in BOOLEAN
    /\ earliest \in -1..(MaxFrame - 1)
    /\ batch \subseteq 0..MaxFrame
    /\ winning.frame \in -1..(MaxFrame - 1)
    /\ accepted \subseteq 0..MaxFrame /\ tooLate \subseteq 0..MaxFrame
    /\ DOMAIN snapshots \subseteq 0..frame /\ frame \in DOMAIN snapshots
    /\ snapshots \in [DOMAIN snapshots -> GameState]
    /\ DOMAIN local \subseteq 0..MaxFrame /\ local \in [DOMAIN local -> Input]
    /\ DOMAIN remote \subseteq 0..MaxFrame /\ remote \in [DOMAIN remote -> Entry]
    /\ DOMAIN script \in {0..(target - 1), 0..target} /\ script \in [DOMAIN script -> Input]
    /\ authentic \in [accepted -> Input]
    /\ used \in [0..(frame - 1) -> Input]
    /\ trajectory \in [0..frame -> GameState]

(* Whatever the order and the delay of the peer's inputs within the prediction
   window, no input is refused as too late, rollbackAndResimulate finds its
   snapshot, and recordSynchronizedOnlineReplayFrames finds both inputs and the
   corrected state of every frame it archives: the match is never interrupted
   for want of history. *)
HistorySuffices == mode # "failed" /\ tooLate = {}

(* Between calls, every retained prediction repeats the input of the frame
   before it: a correction never leaves a prediction that rests on an input
   that has since been replaced. *)
PredictionsAreFresh ==
    mode = "idle" =>
        \A f \in DOMAIN remote :
            remote[f].predicted /\ f - 1 \in DOMAIN remote =>
                remote[f].input = remote[f - 1].input

(* Types and predictions, between calls and within them. *)
TimelineInvariant == TypeOK /\ PredictionsAreFresh

(* A round is committed with its first decisive frame and that frame's winner,
   the archive holds the round exactly through it, and no archive ever runs
   past the frame that decides the round. *)
RoundEndsAtFirstDecision ==
    LET decisive == {f \in 0..archived : Winner(trajectory[f + 1]) # NoWinner} IN
    /\ mode \in {"idle", "committed"} => decisive \subseteq {archived}
    /\ mode = "committed" =>
          /\ decisive = {winning.frame}
          /\ winning.winner = Winner(trajectory[winning.frame + 1])

(* createOnlineRecoveryCheckpoint vouches with a checksum for the state after
   the mutually confirmed frames: between calls, none of them rests on a
   prediction any more. *)
CheckpointIsCorrected ==
    mode = "idle" =>
        \A f \in DOMAIN remote : f <= confirmed => ~remote[f].predicted

(* The archived round is a lock-step play of both players' true inputs, and no
   rollback ever takes back what is archived. *)
Lockstep ==
    INSTANCE LockstepPlay WITH
        settled <- archived + 1,
        states <- [f \in 0..(archived + 1) |-> trajectory[f]],
        moves <- [f \in 0..archived |-> [local |-> script[f], remote |-> authentic[f]]]
ImplementsLockstep == Lockstep!Spec
=============================================================================
