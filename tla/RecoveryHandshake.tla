-------------------------- MODULE RecoveryHandshake --------------------------
(***************************************************************************)
(* exchangeWebRtcRecoveryCheckpoint: two clients agree over a fresh        *)
(* replacement channel on the frame they resume from.  Each proposes its   *)
(* checkpoint, again and again; the smaller confirmed frame of the two is  *)
(* the agreement, once timelines and state checksums match; each then      *)
(* reconnects at the server and says it is ready, and resumes when both    *)
(* are, after a quiet period that lets the last messages through.          *)
(*                                                                         *)
(* The channel is reliable and ordered while it is open.  A side that ends *)
(* without agreement closes it, and the other side may notice at any time; *)
(* a side whose time is up ends although its peer may have resumed.        *)
(***************************************************************************)
EXTENDS Integers, FiniteSets, Sequences

CONSTANTS
    Client,       \* the two participants
    Timeline,     \* attempt, epoch and score, which must be the same
    Checksum,
    MaxCursor,    \* bound of the model: confirmed frames
    MaxSent       \* bound of the model: messages in transit to a side

None == -1

HandshakeAssumption ==
    /\ \E a, b \in Client : a # b /\ Client = {a, b}
    /\ None \notin Checksum
    /\ MaxCursor \in Nat /\ MaxSent \in Nat \ {0}

VARIABLES         \* fixed while the exchange runs: the game is frozen
    timeline,     \* of a client
    cursor,       \* its mutually confirmed frame
    history       \* frame -> checksum, for the frames of its rollback history

VARIABLES         \* of an exchange
    agreement,    \* what buildAgreement returned
    remote,       \* the peer's proposal
    remoteReady,  \* the checkpoint of the peer's recovery-ready message
    readiness,    \* onCheckpointAgreed: "unstarted", "running", "done"
    quiet,        \* the quiet period has begun
    outcome,      \* "open", "agreed", "refused" or "failed"
    channel       \* messages in transit to a client

frozen == <<timeline, cursor, history>>
exchange == <<agreement, remote, remoteReady, readiness, quiet, outcome>>
vars == <<frozen, exchange, channel>>

Cursor == -1..MaxCursor
Checkpoint == [timeline : Timeline, cursor : Cursor, checksum : Checksum]
NoCheckpoint == [cursor |-> -2]
Peer(c) == CHOOSE p \in Client : p # c
Smaller(a, b) == IF a <= b THEN a ELSE b

Proposal_FrameBefore(c) ==
    LET f == IF cursor[c] - 1 \in DOMAIN history[c] THEN cursor[c] - 1 ELSE cursor[c]
    IN  [timeline |-> timeline[c], cursor |-> cursor[c], checksum |-> history[c][f]]

(* The proposal of a client: its confirmed frame is in its history. *)
Proposal(c) ==
    [timeline |-> timeline[c], cursor |-> cursor[c], checksum |-> history[c][cursor[c]]]

(* The checksum of a frame as buildAgreement takes it. *)
Held(c, f) == IF f = cursor[c] THEN Proposal(c).checksum ELSE history[c][f]

Proposed(checkpoint) == [type |-> "recovery-checkpoint", checkpoint |-> checkpoint]
Ready(checkpoint) == [type |-> "recovery-ready", checkpoint |-> checkpoint]

Init ==
    /\ timeline \in [Client -> Timeline]
    /\ cursor \in [Client -> Cursor]
    /\ \E retained \in [Client -> Cursor] :
          /\ \A c \in Client : retained[c] <= cursor[c]
          /\ history \in [Client -> UNION {[f..MaxCursor -> Checksum] : f \in Cursor}]
          /\ \A c \in Client : DOMAIN history[c] = retained[c]..MaxCursor
    /\ agreement = [c \in Client |-> NoCheckpoint]
    /\ remote = [c \in Client |-> NoCheckpoint]
    /\ remoteReady = [c \in Client |-> NoCheckpoint]
    /\ readiness = [c \in Client |-> "unstarted"]
    /\ quiet = [c \in Client |-> FALSE]
    /\ outcome = [c \in Client |-> "open"]
    /\ channel = [c \in Client |-> <<Proposed(Proposal(Peer(c)))>>]

-----------------------------------------------------------------------------
CurrentState_Early(c) ==
    <<Proposed(Proposal(c))>>
    \o (IF readiness[c] # "unstarted" THEN <<Ready(agreement[c])>> ELSE <<>>)

(* sendCurrentState. *)
CurrentState(c) ==
    <<Proposed(Proposal(c))>>
    \o (IF readiness[c] = "done" THEN <<Ready(agreement[c])>> ELSE <<>>)

Sent(c, messages) ==
    IF outcome[Peer(c)] = "open" THEN [channel EXCEPT ![Peer(c)] = @ \o messages] ELSE channel

(* The resend interval; a slow receiver bounds the model, not the code. *)
Resend(c) ==
    /\ outcome[c] = "open"
    /\ Len(channel[Peer(c)]) + Len(CurrentState(c)) <= MaxSent
    /\ channel' = Sent(c, CurrentState(c))
    /\ UNCHANGED <<frozen, exchange>>

(* buildAgreement succeeds: the timelines are the same, the smaller cursor is
   in the local history, and a checksum of the peer's for it is the same. *)
Matches(c, proposal) ==
    LET agreed == Smaller(cursor[c], proposal.cursor)
    IN  /\ proposal.timeline = timeline[c]
        /\ agreed \in DOMAIN history[c]
        /\ proposal.cursor = agreed => proposal.checksum = Held(c, agreed)

Agreement(c, proposal) ==
    LET agreed == Smaller(cursor[c], proposal.cursor)
    IN  [timeline |-> timeline[c], cursor |-> agreed, checksum |-> Held(c, agreed)]

(* finish with an error over what the peer sent; the caller closes the channel. *)
Refuse(c) == outcome' = [outcome EXCEPT ![c] = "refused"]

(* evaluateReady, with the variables as the caller has set them: a readiness
   for another checkpoint is refused, readiness of both starts the quiet period. *)
EvaluateReady(c, agreed, ready, done) ==
    IF agreed # NoCheckpoint /\ ready # NoCheckpoint /\ ready # agreed
    THEN Refuse(c) /\ UNCHANGED quiet
    ELSE /\ quiet' = [quiet EXCEPT ![c] =
                @ \/ (agreed # NoCheckpoint /\ ready # NoCheckpoint /\ done)]
         /\ UNCHANGED outcome

(* onMessage with a proposal: the peer must not have changed it. *)
ReceiveProposal(c, proposal) ==
    IF (remote[c] # NoCheckpoint /\ remote[c] # proposal) \/ ~Matches(c, proposal)
    THEN /\ Refuse(c)
         /\ UNCHANGED <<agreement, remote, readiness, quiet>>
    ELSE /\ remote' = [remote EXCEPT ![c] = proposal]
         /\ agreement' = [agreement EXCEPT ![c] = Agreement(c, proposal)]
         /\ readiness' = [readiness EXCEPT ![c] = IF @ = "unstarted" THEN "running" ELSE @]
         /\ EvaluateReady(c, Agreement(c, proposal), remoteReady[c], readiness[c] = "done")

Deliver(c) ==
    /\ outcome[c] = "open"
    /\ channel[c] # <<>>
    /\ LET message == Head(channel[c]) IN
       \/ /\ message.type = "recovery-checkpoint"
          /\ ReceiveProposal(c, message.checkpoint)
          /\ UNCHANGED remoteReady
       \/ /\ message.type = "recovery-ready"
          /\ remoteReady' = [remoteReady EXCEPT ![c] = message.checkpoint]
          /\ EvaluateReady(c, agreement[c], message.checkpoint, readiness[c] = "done")
          /\ UNCHANGED <<agreement, remote, readiness>>
    /\ channel' = [channel EXCEPT ![c] = Tail(@)]
    /\ UNCHANGED frozen

BecomeReady_Silent(c) ==
    /\ outcome[c] = "open"
    /\ readiness[c] = "running"
    /\ readiness' = [readiness EXCEPT ![c] = "done"]
    /\ EvaluateReady(c, agreement[c], remoteReady[c], TRUE)
    /\ UNCHANGED <<frozen, channel, agreement, remote, remoteReady>>

(* onCheckpointAgreed resolves: the server has taken the participant back. *)
BecomeReady(c) ==
    /\ outcome[c] = "open"
    /\ readiness[c] = "running"
    /\ readiness' = [readiness EXCEPT ![c] = "done"]
    /\ channel' = Sent(c, <<Proposed(Proposal(c)), Ready(agreement[c])>>)
    /\ EvaluateReady(c, agreement[c], remoteReady[c], TRUE)
    /\ UNCHANGED <<frozen, agreement, remote, remoteReady>>

(* The quiet period is over: the replacement channel is activated. *)
Finish(c) ==
    /\ outcome[c] = "open"
    /\ quiet[c]
    /\ outcome' = [outcome EXCEPT ![c] = "agreed"]
    /\ channel' = [channel EXCEPT ![c] = <<>>]
    /\ UNCHANGED <<frozen, agreement, remote, remoteReady, readiness, quiet>>

(* The time is up, the server refuses the reconnect, or the channel fails, as it
   does when the peer has failed. *)
GiveUp(c) ==
    /\ outcome[c] = "open"
    /\ outcome' = [outcome EXCEPT ![c] = "failed"]
    /\ channel' = [channel EXCEPT ![c] = <<>>]
    /\ UNCHANGED <<frozen, agreement, remote, remoteReady, readiness, quiet>>

Next ==
    \E c \in Client :
        Resend(c) \/ Deliver(c) \/ BecomeReady(c) \/ Finish(c) \/ GiveUp(c)

Spec == Init /\ [][Next]_vars

-----------------------------------------------------------------------------
TypeOK ==
    /\ timeline \in [Client -> Timeline] /\ cursor \in [Client -> Cursor]
    /\ \A c \in Client : cursor[c] \in DOMAIN history[c]
    /\ agreement \in [Client -> Checkpoint \cup {NoCheckpoint}]
    /\ remote \in [Client -> Checkpoint \cup {NoCheckpoint}]
    /\ remoteReady \in [Client -> Checkpoint \cup {NoCheckpoint}]
    /\ readiness \in [Client -> {"unstarted", "running", "done"}]
    /\ quiet \in [Client -> BOOLEAN]
    /\ outcome \in [Client -> {"open", "agreed", "refused", "failed"}]
    /\ \A c \in Client : Len(channel[c]) <= MaxSent + 2

(* A client resumes only on a checkpoint that its peer has agreed to as well and
   only after the server has taken the peer back.  The peer never refuses that
   checkpoint, and while it is open it has all it needs to resume too, in hand
   or on its way, though the client sends nothing more.  It may still fail, when
   its time is up or the channel is lost before it has resumed. *)
ResumeTogether ==
    \A c \in Client : outcome[c] = "agreed" =>
        /\ agreement[Peer(c)] = agreement[c]
        /\ readiness[Peer(c)] = "done"
        /\ outcome[Peer(c)] # "refused"
        /\ outcome[Peer(c)] = "open" =>
              quiet[Peer(c)] \/ \E i \in DOMAIN channel[Peer(c)] : channel[Peer(c)][i] = Ready(agreement[c])

(* Neither side resumes when the states they hold for the frame they would
   resume from differ, though only one of them compares the checksums. *)
ResumeSameState ==
    \A c \in Client : outcome[c] = "agreed" =>
        LET f == Smaller(cursor[c], cursor[Peer(c)])
        IN  /\ timeline[c] = timeline[Peer(c)]
            /\ agreement[c].cursor = f
            /\ f \in DOMAIN history[c] \cap DOMAIN history[Peer(c)]
            /\ history[c][f] = history[Peer(c)][f]

(* A client resumes only where its peer can and will not refuse to, in the same
   state. *)
SafeResume == ResumeTogether /\ ResumeSameState
=============================================================================
