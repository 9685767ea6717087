---------------------------- MODULE MCConnection ----------------------------
(* How two clients come to play over a channel, on small instances: the
   negotiation of a connection, under faults that it survives, with a client that
   gives up and with one that negotiates afresh; and the exchange of checkpoints
   over a channel that replaces another.  Signalling and exchange share no state
   in these models, so one search serves them all: `part` names what it is of. *)
EXTENDS Signalling

CONSTANTS Client, Timeline, Checksum, MaxCursor, MaxSent

VARIABLES
    part,
    timeline, position, history,
    agreement, proposal, remoteReady, readiness, quiet, outcome, channel

Handshake == INSTANCE RecoveryHandshake WITH cursor <- position, remote <- proposal

ASSUME ConnectionAssumption == Handshake!HandshakeAssumption

handshake == <<timeline, position, history,
               agreement, proposal, remoteReady, readiness, quiet, outcome, channel>>
all == <<part, vars, handshake>>

NoHandshake ==
    /\ timeline = [c \in Client |-> "none"] /\ position = timeline /\ history = timeline
    /\ agreement = timeline /\ proposal = timeline /\ remoteReady = timeline
    /\ readiness = timeline /\ quiet = timeline /\ outcome = timeline /\ channel = timeline

(* What may happen beyond the negotiation itself, in each of its parts. *)
Allowed ==
    CASE part = "faulty" -> [Bounds EXCEPT !.giveUps = 0, !.restarts = 0]
      [] part = "abandoned" -> [Bounds EXCEPT !.faults = 0, !.losses = 0, !.restarts = 0]
      [] part = "renewed" -> [Bounds EXCEPT !.faults = 0, !.losses = 0, !.giveUps = 0]
      [] part = "handshake" -> Bounds

ConnectionInit ==
    /\ part \in {"faulty", "abandoned", "renewed", "handshake"}
    /\ Start /\ budget = Allowed
    /\ IF part = "handshake" THEN Handshake!Init ELSE NoHandshake

Negotiates == part # "handshake" /\ Next /\ UNCHANGED <<part, handshake>>
Signals(A) == part = "faulty" /\ A /\ UNCHANGED <<part, handshake>>
Exchanges == part = "handshake" /\ Handshake!Next /\ UNCHANGED <<part, vars>>

ConnectionFairness ==
    /\ \A p \in Player :
        /\ WF_all(Signals(Send(p))) /\ WF_all(Signals(Receive(p)))
        /\ WF_all(Signals(Poll(p))) /\ WF_all(Signals(Hold(p)))
        /\ WF_all(Signals(SettleOffer(p))) /\ WF_all(Signals(Handle(p)))
        /\ WF_all(Signals(Gather(p))) /\ WF_all(Signals(Open(p))) /\ WF_all(Signals(PeerGone(p)))
        /\ WF_all(Signals(Advance(p))) /\ WF_all(Signals(Clear(p)))
    /\ WF_all(Signals(\E r \in requests : Validate(r) \/ Begin(r) \/ Insert(r)))

ConnectionSpec == ConnectionInit /\ [][Negotiates \/ Exchanges]_all /\ ConnectionFairness

-----------------------------------------------------------------------------
(* The types of the two.  Signalling: what is published, answered and read of a
   negotiation fits together.  RecoveryHandshake: a client resumes only when its
   peer has agreed and is back, never refuses, and has what it needs to resume
   as well, from the frame both have confirmed and in the same state; that the
   peer's own time runs out before it does is not excluded. *)
ConnectionInvariant ==
    IF part = "handshake" THEN Handshake!TypeOK /\ Handshake!SafeResume ELSE TypeOK /\ SignalsSettle

(* Signalling: both players end on an open channel, though requests
   and answers are lost and the channel itself is lost once. *)
Connects == part = "faulty" => BothConnect
=============================================================================
