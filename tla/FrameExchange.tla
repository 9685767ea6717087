---------------------------- MODULE FrameExchange ----------------------------
(***************************************************************************)
(* Two clients of a match: the game loop's phases, OnlineInputPump, the    *)
(* WebRtcFrameTransport under it and the replacement of its channel by     *)
(* RecoverableWebRtcTransport.                                             *)
(*                                                                         *)
(* Each client numbers its frames from 0 in every round (`epoch`), sends   *)
(* them in batches, one unacknowledged batch at a time, and confirms the   *)
(* prefix of the peer's frames that it holds.  A round is over for a       *)
(* client when both sides have confirmed everything up to the decisive     *)
(* frame.  Channels are reliable and in order until they fail; what is in  *)
(* transit on a failed channel is lost.                                    *)
(*                                                                         *)
(* The content of a frame is left out: what RollbackSession does with it   *)
(* is seen here only as the frame at which a client believes the round was *)
(* decided.                                                                *)
(***************************************************************************)
EXTENDS Integers, FiniteSets, Sequences

CONSTANTS
    Client,         \* the two participants
    Rounds,         \* rounds until the match is won
    Decisive,       \* the frame that decides a round once both inputs are known
    MaxPrediction,  \* MAX_ONLINE_PREDICTION_FRAMES
    MaxBatch,       \* maxUploadBatchFrames
    MaxOutbound,    \* maxOutboundFrames
    MaxRecoveries,
    MaxBreaks       \* bound of the model: channel failures

None == -1

ASSUME ExchangeAssumption ==
    /\ \E a, b \in Client : a # b /\ Client = {a, b}
    /\ Rounds \in Nat \ {0} /\ Decisive \in Nat
    /\ MaxPrediction \in Nat \ {0} /\ MaxBatch \in Nat \ {0}
    /\ MaxOutbound \in Nat \ {0}
    /\ MaxRecoveries \in Nat /\ MaxBreaks \in Nat

VARIABLES         \* the game loop
    phase,        \* appPhase; "resolving" is round_transition before the commit
    epoch,        \* roundEpoch
    frame,        \* simulationFrame
    final,        \* pendingRoundFinalFrame
    score         \* p1RoundWins + p2RoundWins

VARIABLES         \* OnlineInputPump
    outbound,     \* own frames that are not acknowledged
    upload,       \* the frames of the upload in flight, {} for none
    contiguous,   \* contiguousRemoteFrame
    peerConfirmed, confirmationSent

VARIABLES         \* WebRtcFrameTransport and RecoverableWebRtcTransport
    received,     \* epoch -> receivedFrames
    heard,        \* peerConfirmedThroughByEpoch
    told,         \* sentConfirmedThroughByEpoch
    latestConfirmation,  \* latestInboundConfirmationEpoch
    transport,    \* its state; "staged" and "refused" follow the checkpoint exchange
    recoveries    \* completedRecoveries

VARIABLES
    channel,      \* messages in transit to a client
    breaks,       \* channel failures so far
    faulty        \* the clients that have raised an OnlineFrameProtocolError

loop == <<phase, epoch, frame, final, score>>
pump == <<outbound, upload, contiguous, peerConfirmed, confirmationSent>>
wire == <<received, heard, told, latestConfirmation>>
link == <<transport, recoveries, breaks>>
vars == <<loop, pump, wire, link, channel, faulty>>

Epoch == 0..(Rounds - 1)
Frame == 0..(Decisive + MaxPrediction)
Cursor == Frame \cup {None}
Peer(c) == CHOOSE p \in Client : p # c
Unsaid == [e \in Epoch |-> None]
Smaller(a, b) == IF a <= b THEN a ELSE b

Batch(e, frames) == [type |-> "frame-batch", epoch |-> e, frames |-> frames]
Confirmation(e, through) == [type |-> "frame-confirmation", epoch |-> e, through |-> through]
Ack(e, frames) == [type |-> "frame-ack", epoch |-> e, frames |-> frames]

Init ==
    /\ phase = [c \in Client |-> "playing"]
    /\ epoch = [c \in Client |-> 0]
    /\ frame = [c \in Client |-> 0]
    /\ final = [c \in Client |-> None]
    /\ score = [c \in Client |-> 0]
    /\ outbound = [c \in Client |-> {}]
    /\ upload = [c \in Client |-> {}]
    /\ contiguous = [c \in Client |-> None]
    /\ peerConfirmed = [c \in Client |-> None]
    /\ confirmationSent = [c \in Client |-> None]
    /\ received = [c \in Client |-> [e \in Epoch |-> {}]]
    /\ heard = [c \in Client |-> Unsaid]
    /\ told = [c \in Client |-> Unsaid]
    /\ latestConfirmation = [c \in Client |-> None]
    /\ transport = [c \in Client |-> "connected"]
    /\ recoveries = [c \in Client |-> 0]
    /\ channel = [c \in Client |-> <<>>]
    /\ breaks = 0
    /\ faulty = {}

-----------------------------------------------------------------------------
(* getMutuallyConfirmedThrough. *)
Mutual(c) == Smaller(contiguous[c], Smaller(peerConfirmed[c], confirmationSent[c]))

CanAdvance_Received(c) == frame[c] - (contiguous[c] + 1) < MaxPrediction

(* canAdvanceOnlineSimulation. *)
CanAdvance(c) == frame[c] - (Mutual(c) + 1) < MaxPrediction

Synchronized_Unsent(c, f) ==
    outbound[c] = {} /\ f <= Smaller(contiguous[c], peerConfirmed[c])

(* isSynchronizedThrough. *)
Synchronized(c, f) == outbound[c] = {} /\ f <= Mutual(c)

(* The frames that may look decisive to a client after n frames.  Known inputs
   decide at Decisive and nowhere else; before that a prediction may do so. *)
WinningFrames(c, n) ==
    IF Decisive <= contiguous[c] /\ Decisive < n THEN {Decisive}
    ELSE {None} \cup ((contiguous[c] + 1)..(n - 1))

(* interruptOnlineMatch; the pump is cleared and the transport closed. *)
Interrupted(c) ==
    /\ phase' = [phase EXCEPT ![c] = IF @ = "over" THEN @ ELSE "interrupted"]
    /\ outbound' = [outbound EXCEPT ![c] = {}]
    /\ upload' = [upload EXCEPT ![c] = {}]
    /\ contiguous' = [contiguous EXCEPT ![c] = None]
    /\ peerConfirmed' = [peerConfirmed EXCEPT ![c] = None]
    /\ confirmationSent' = [confirmationSent EXCEPT ![c] = None]
    /\ transport' = [transport EXCEPT ![c] = "failed"]
    /\ channel' = [channel EXCEPT ![c] = <<>>]
    /\ UNCHANGED <<epoch, frame, final, score>>

(* A tick of the game loop that simulates a frame and, if the round then looks
   decided, turns to its resolution.  (A tick that simulates several frames is
   left to RollbackSession.) *)
SimulateFrame(c) ==
    /\ phase[c] = "playing"
    /\ transport[c] = "connected"
    /\ CanAdvance(c)
    /\ IF Cardinality(outbound[c]) >= MaxOutbound
       THEN /\ Interrupted(c)
            /\ faulty' = faulty \cup {c}
            /\ UNCHANGED <<wire, recoveries, breaks>>
       ELSE /\ frame' = [frame EXCEPT ![c] = @ + 1]
            /\ outbound' = [outbound EXCEPT ![c] = @ \cup {frame[c]}]
            /\ \E f \in WinningFrames(c, frame[c] + 1) :
                  /\ final' = [final EXCEPT ![c] = f]
                  /\ phase' = [phase EXCEPT ![c] = IF f = None THEN @ ELSE "resolving"]
            /\ UNCHANGED <<epoch, score, upload, contiguous, peerConfirmed, confirmationSent, wire, link, channel, faulty>>

CommitRound_Resolving(c) ==
    /\ score' = [score EXCEPT ![c] = @ + 1]
    /\ phase' = [phase EXCEPT ![c] = IF score[c] + 1 = Rounds THEN "over" ELSE @]

(* commitRoundWin. *)
CommitRound(c) ==
    /\ score' = [score EXCEPT ![c] = @ + 1]
    /\ phase' = [phase EXCEPT ![c] = IF score[c] + 1 = Rounds THEN "over" ELSE "transition"]

(* updateOnlineRoundResolution, without its ten seconds' patience: the round is
   committed, the result is corrected, or the client goes on waiting. *)
ResolveRound(c) ==
    /\ phase[c] = "resolving"
    /\ transport[c] = "connected"
    /\ \E f \in WinningFrames(c, frame[c]) :
          /\ final' = [final EXCEPT ![c] = f]
          /\ IF f # None /\ Synchronized(c, f) THEN CommitRound(c)
             ELSE /\ phase' = [phase EXCEPT ![c] = IF f = None THEN "playing" ELSE @]
                  /\ UNCHANGED score
    /\ UNCHANGED <<epoch, frame, pump, wire, link, channel, faulty>>

StartEpoch_KeepContiguous(c) ==
    /\ epoch' = [epoch EXCEPT ![c] = @ + 1]
    /\ outbound' = [outbound EXCEPT ![c] = {}]
    /\ upload' = [upload EXCEPT ![c] = {}]
    /\ contiguous' = contiguous
    /\ peerConfirmed' = [peerConfirmed EXCEPT ![c] = None]
    /\ confirmationSent' = [confirmationSent EXCEPT ![c] = None]

(* startEpoch. *)
StartEpoch(c) ==
    /\ epoch' = [epoch EXCEPT ![c] = @ + 1]
    /\ outbound' = [outbound EXCEPT ![c] = {}]
    /\ upload' = [upload EXCEPT ![c] = {}]
    /\ contiguous' = [contiguous EXCEPT ![c] = None]
    /\ peerConfirmed' = [peerConfirmed EXCEPT ![c] = None]
    /\ confirmationSent' = [confirmationSent EXCEPT ![c] = None]

(* The pause after a round ends: resetRoundState. *)
NextRound(c) ==
    /\ phase[c] = "transition"
    /\ transport[c] = "connected"
    /\ StartEpoch(c)
    /\ phase' = [phase EXCEPT ![c] = "playing"]
    /\ frame' = [frame EXCEPT ![c] = 0]
    /\ final' = [final EXCEPT ![c] = None]
    /\ UNCHANGED <<score, wire, link, channel, faulty>>

-----------------------------------------------------------------------------
(* What is in transit to p with these messages added; a side that has left the
   channel gets nothing any more. *)
Sent(p, messages) ==
    IF transport[p] \in {"connected", "staged"} THEN channel[p] \o messages ELSE <<>>

(* flushOnlineTransport: an upload if none is in flight, a poll, and the
   confirmation of the prefix that was there before the poll. *)
Lowest(frames) == {f \in frames : Cardinality({g \in frames : g < f}) < MaxBatch}

(* confirmFrames says nothing that the channel has been told before. *)
Confirmable(c) ==
    /\ confirmationSent[c] < contiguous[c]
    /\ told[c][epoch[c]] < contiguous[c]

(* pollIncoming: the prefix grows up to the first frame that is missing. *)
HeldThrough(c) ==
    LET gaps == ((contiguous[c] + 1)..(Decisive + MaxPrediction + 1)) \ received[c][epoch[c]]
    IN  (CHOOSE g \in gaps : \A h \in gaps : g <= h) - 1

Flush(c) ==
    LET p     == Peer(c)
        e     == epoch[c]
        batch == IF upload[c] = {} THEN Lowest(outbound[c]) ELSE {}
    IN  /\ phase[c] \in {"playing", "resolving", "transition"}
        /\ transport[c] = "connected"
        /\ upload' = [upload EXCEPT ![c] = @ \cup batch]
        /\ channel' = [channel EXCEPT ![p] = Sent(p,
              (IF batch = {} THEN <<>> ELSE <<Batch(e, batch)>>)
              \o (IF Confirmable(c) THEN <<Confirmation(e, contiguous[c])>> ELSE <<>>))]
        /\ told' = [told EXCEPT ![c][e] = IF Confirmable(c) THEN contiguous[c] ELSE @]
        /\ confirmationSent' = [confirmationSent EXCEPT ![c] = IF @ < contiguous[c] THEN contiguous[c] ELSE @]
        /\ peerConfirmed' = [peerConfirmed EXCEPT ![c] = IF @ < heard[c][e] THEN heard[c][e] ELSE @]
        /\ contiguous' = [contiguous EXCEPT ![c] = HeldThrough(c)]
        /\ UNCHANGED <<loop, outbound, received, heard, latestConfirmation, link, faulty>>

(* handleFrameBatch.  A batch id is never used twice and a reliable channel
   delivers once, so the branch for a repeated batch is left out. *)
ReceiveBatch(c, m) ==
    /\ received' = [received EXCEPT ![c][m.epoch] = @ \cup m.frames]
    /\ channel' = [channel EXCEPT ![c] = Tail(@), ![Peer(c)] = Sent(Peer(c), <<Ack(m.epoch, m.frames)>>)]
    /\ UNCHANGED <<loop, pump, heard, told, latestConfirmation, link, faulty>>

Acknowledged_All(c, m) == {}

(* What is left to upload once a batch of this epoch is acknowledged. *)
Acknowledged(c, m) == outbound[c] \ m.frames

(* handleFrameAck and the end of flushOutgoing, which ignores what belongs to
   an earlier epoch. *)
ReceiveAck(c, m) ==
    /\ IF m.epoch = epoch[c]
       THEN /\ upload' = [upload EXCEPT ![c] = {}]
            /\ outbound' = [outbound EXCEPT ![c] = Acknowledged(c, m)]
       ELSE UNCHANGED <<upload, outbound>>
    /\ channel' = [channel EXCEPT ![c] = Tail(@)]
    /\ UNCHANGED <<loop, contiguous, peerConfirmed, confirmationSent, wire, link, faulty>>

(* handleFrameConfirmation. *)
ReceiveConfirmation(c, m) ==
    /\ heard' = [heard EXCEPT ![c][m.epoch] = m.through]
    /\ latestConfirmation' = [latestConfirmation EXCEPT ![c] = IF @ < m.epoch THEN m.epoch ELSE @]
    /\ channel' = [channel EXCEPT ![c] = Tail(@)]
    /\ UNCHANGED <<loop, pump, received, told, link, faulty>>

(* What fails closed: a frame of an earlier epoch than the latest, a
   confirmation that goes back, an acknowledgement of nothing that was sent. *)
Invalid(c, m) ==
    \/ /\ m.type = "frame-batch"
       /\ \E e \in Epoch : m.epoch < e /\ received[c][e] # {}
    \/ /\ m.type = "frame-confirmation"
       /\ m.epoch < latestConfirmation[c] \/ m.through < heard[c][m.epoch]
    \/ /\ m.type = "frame-ack"
       /\ epoch[c] = m.epoch /\ upload[c] # m.frames

(* A message arrives; the transport of a finished match still answers. *)
Deliver(c) ==
    /\ transport[c] = "connected"
    /\ channel[c] # <<>>
    /\ LET m == Head(channel[c]) IN
       IF Invalid(c, m)
       THEN /\ Interrupted(c)
            /\ faulty' = faulty \cup {c}
            /\ UNCHANGED <<wire, recoveries, breaks>>
       ELSE CASE m.type = "frame-batch" -> ReceiveBatch(c, m)
              [] m.type = "frame-ack" -> ReceiveAck(c, m)
              [] m.type = "frame-confirmation" -> ReceiveConfirmation(c, m)

-----------------------------------------------------------------------------
RequestRecovery_InFlight(c) ==
    IF recoveries[c] >= MaxRecoveries \/ phase[c] = "over"
    THEN Interrupted(c)
    ELSE /\ transport' = [transport EXCEPT ![c] = "reconnecting"]
         /\ channel' = [channel EXCEPT ![c] = <<>>]
         /\ UNCHANGED <<loop, outbound, upload, contiguous, peerConfirmed, confirmationSent>>

(* RecoverableWebRtcTransport.  requestRecovery: the uploads in flight fail and
   go back to the tail, the play stops; a transport that has used up its
   recoveries fails, and so does that of a finished match, whose
   prepareRecovery refuses. *)
RequestRecovery(c) ==
    IF recoveries[c] >= MaxRecoveries \/ phase[c] = "over"
    THEN Interrupted(c)
    ELSE /\ transport' = [transport EXCEPT ![c] = "reconnecting"]
         /\ upload' = [upload EXCEPT ![c] = {}]
         /\ channel' = [channel EXCEPT ![c] = <<>>]
         /\ UNCHANGED <<loop, outbound, contiguous, peerConfirmed, confirmationSent>>

(* The channel closes, or an acknowledgement stays out for too long. *)
LoseChannel(c) ==
    /\ transport[c] = "connected"
    /\ breaks < MaxBreaks
    /\ breaks' = breaks + 1
    /\ RequestRecovery(c)
    /\ UNCHANGED <<wire, recoveries, faulty>>

(* The peer has given the channel up: it closes on this side too, and what is
   still in transit may or may not have been delivered before. *)
ObserveClose(c) ==
    /\ transport[c] = "connected"
    /\ transport[Peer(c)] \in {"reconnecting", "refused", "failed", "closed"}
    /\ RequestRecovery(c)
    /\ UNCHANGED <<wire, recoveries, breaks, faulty>>

(* The part of createOnlineRecoveryCheckpoint that is compared as it is: the
   epoch and the score, which goes up when the round is committed.  The
   confirmed frame may differ; the state checksum is left to RollbackSession. *)
Checkpoint(c) == <<epoch[c], score[c]>>

(* Both sides have signalled a replacement channel and exchange their
   checkpoints over it (RecoveryHandshake); what arrives before the channel is
   activated is buffered. *)
ExchangeCheckpoints ==
    /\ \A c \in Client : transport[c] = "reconnecting"
    /\ LET agreed == \A c, d \in Client : Checkpoint(c) = Checkpoint(d)
       IN  transport' = [c \in Client |-> IF agreed THEN "staged" ELSE "refused"]
    /\ UNCHANGED <<loop, pump, wire, recoveries, breaks, channel, faulty>>

(* resumeAfterTransportRecovery; the upload in flight has failed before. *)
Resume(c) ==
    /\ peerConfirmed' = [peerConfirmed EXCEPT ![c] = None]
    /\ confirmationSent' = [confirmationSent EXCEPT ![c] = None]

(* activate, replaceChannel and onRecovered: confirmations start anew. *)
Activate(c) ==
    /\ transport[c] = "staged"
    /\ transport' = [transport EXCEPT ![c] = "connected"]
    /\ recoveries' = [recoveries EXCEPT ![c] = @ + 1]
    /\ heard' = [heard EXCEPT ![c] = Unsaid]
    /\ told' = [told EXCEPT ![c] = Unsaid]
    /\ Resume(c)
    /\ UNCHANGED <<loop, outbound, upload, contiguous, received, latestConfirmation, breaks, channel, faulty>>

(* failRecovery: the checkpoints differ, the peer is gone, or the replacement
   fails as well. *)
FailRecovery(c) ==
    /\ \/ /\ transport[c] = "refused"
          /\ UNCHANGED breaks
       \/ /\ transport[c] \in {"reconnecting", "staged"}
          /\ transport[Peer(c)] \in {"failed", "closed"}
          /\ UNCHANGED breaks
       \/ /\ transport[c] \in {"reconnecting", "staged"}
          /\ breaks < MaxBreaks
          /\ breaks' = breaks + 1
    /\ Interrupted(c)
    /\ UNCHANGED <<wire, recoveries, faulty>>

(* completeOnlineSession: both participants have attested the result to the
   server, and the client closes its transport. *)
CloseCompleted(c) ==
    /\ \A d \in Client : phase[d] = "over"
    /\ transport[c] \notin {"failed", "closed"}
    /\ transport' = [transport EXCEPT ![c] = "closed"]
    /\ channel' = [channel EXCEPT ![c] = <<>>]
    /\ UNCHANGED <<loop, pump, wire, recoveries, breaks, faulty>>

Next ==
    \/ \E c \in Client :
          \/ SimulateFrame(c) \/ ResolveRound(c) \/ NextRound(c)
          \/ Flush(c) \/ Deliver(c)
          \/ LoseChannel(c) \/ ObserveClose(c)
          \/ Activate(c) \/ FailRecovery(c) \/ CloseCompleted(c)
    \/ ExchangeCheckpoints

(* Ticks come, messages on an open channel arrive, a closed channel is noticed
   and signalling ends one way or the other.  Nothing makes a channel fail. *)
Fairness ==
    /\ WF_vars(ExchangeCheckpoints)
    /\ \A c \in Client :
          /\ WF_vars(SimulateFrame(c)) /\ WF_vars(ResolveRound(c)) /\ WF_vars(NextRound(c))
          /\ WF_vars(Flush(c)) /\ WF_vars(Deliver(c))
          /\ WF_vars(ObserveClose(c)) /\ WF_vars(Activate(c)) /\ WF_vars(FailRecovery(c))

Spec == Init /\ [][Next]_vars
FairSpec == Spec /\ Fairness

-----------------------------------------------------------------------------
Phase == {"playing", "resolving", "transition", "over", "interrupted"}
Transport == {"connected", "reconnecting", "staged", "refused", "failed", "closed"}
Message ==
    [type : {"frame-batch", "frame-ack"}, epoch : Epoch, frames : SUBSET Frame]
    \cup [type : {"frame-confirmation"}, epoch : Epoch, through : Frame]

(* Types, and how the pump's parts hang together: the upload in flight belongs
   to the tail, confirmations say no more than the client holds. *)
TypeOK ==
    /\ phase \in [Client -> Phase] /\ epoch \in [Client -> Epoch]
    /\ frame \in [Client -> 0..(Decisive + MaxPrediction + 1)]
    /\ final \in [Client -> Cursor] /\ score \in [Client -> 0..Rounds]
    /\ outbound \in [Client -> SUBSET Frame]
    /\ \A c \in Client : upload[c] \subseteq outbound[c]
    /\ contiguous \in [Client -> Cursor]
    /\ peerConfirmed \in [Client -> Cursor] /\ confirmationSent \in [Client -> Cursor]
    /\ \A c \in Client : confirmationSent[c] <= contiguous[c]
    /\ received \in [Client -> [Epoch -> SUBSET Frame]]
    /\ heard \in [Client -> [Epoch -> Cursor]] /\ told \in [Client -> [Epoch -> Cursor]]
    /\ latestConfirmation \in [Client -> Epoch \cup {None}]
    /\ transport \in [Client -> Transport]
    /\ recoveries \in [Client -> 0..MaxRecoveries] /\ breaks \in 0..MaxBreaks
    /\ \A c \in Client : \A i \in DOMAIN channel[c] : channel[c][i] \in Message
    /\ faulty \subseteq Client

(* Two clients that follow the protocol never provoke a protocol error in each
   other: no stale epoch, no confirmation that goes back, no unexpected
   acknowledgement, and the unacknowledged tail stays within its limit, with
   the channel replaced at any moment. *)
ProtocolHolds == faulty = {}

Playing(c) == phase[c] \in {"playing", "resolving", "transition"}

(* No input is lost: each frame a client has simulated in this epoch is still in
   its tail or has reached the peer, across failed uploads and lost
   acknowledgements. *)
NoInputLost ==
    \A c \in Client : Playing(c) =>
        0..(frame[c] - 1) \subseteq outbound[c] \cup received[Peer(c)][epoch[c]]

(* A confirmation is never ahead of the truth: what a client takes as confirmed
   in its epoch, the peer's transport holds, and confirms by its own prefix. *)
ConfirmedIsHeld ==
    \A c \in Client : Playing(c) =>
        /\ 0..peerConfirmed[c] \subseteq received[Peer(c)][epoch[c]]
        /\ Playing(Peer(c)) /\ epoch[c] = epoch[Peer(c)] => peerConfirmed[c] <= contiguous[Peer(c)]

(* The exchange is sound: the three above, with the types. *)
ExchangeInvariant == TypeOK /\ ProtocolHolds /\ NoInputLost /\ ConfirmedIsHeld

(* A client that has committed a round is no longer needed by a peer that has
   not, as long as the channel holds: the peer has every frame through the
   decisive one, and its confirmation is there or on its way. *)
PeerCanCommit ==
    \A c \in Client :
        LET p == Peer(c)
            e == epoch[p]
        IN  /\ Playing(p) /\ phase[c] # "interrupted" /\ score[p] < score[c]
            /\ transport[c] = "connected" /\ transport[p] = "connected"
            => /\ 0..Decisive \subseteq received[p][e]
               /\ \/ Decisive <= peerConfirmed[p] \/ Decisive <= heard[p][e]
                  \/ \E i \in DOMAIN channel[p] :
                        /\ channel[p][i].type = "frame-confirmation"
                        /\ channel[p][i].epoch = e /\ Decisive <= channel[p][i].through

(* A connected match goes on: unless another channel failure comes, both
   clients commit every round and the match is over for both. *)
ConnectedMatchCompletes ==
    \A n \in 0..MaxRecoveries :
        (/\ breaks = n
         /\ \A c \in Client : transport[c] = "connected" /\ recoveries[c] = n)
            ~> ((\A c \in Client : phase[c] = "over") \/ breaks > n)

(* The two clients pass from round to round together. *)
Barrier == INSTANCE RoundBarrier WITH done <- score
ImplementsBarrier == Barrier!Spec
=============================================================================
