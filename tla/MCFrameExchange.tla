--------------------------- MODULE MCFrameExchange ---------------------------
(* Two clients in a match, on small instances: the exchange of their inputs, and
   the page of one of them, which is hidden and shown while the match goes on.
   The two share no state in these models, so one search serves both: `part`
   names the one that moves. *)
EXTENDS FrameExchange

CONSTANTS MaxSessions, MaxEvents, MaxFaults, MaxAttempts

VARIABLES
    part,
    visible, started, target, stage, desiredSuspended, disconnectConfirmed, beating, pulse,
    queue, call, counted, strays, events, faults

(* Two matches in a row, hidden, shown or left a few times, faults, and a
   second attempt to reconnect. *)
Page == INSTANCE SessionLifecycle WITH phase <- stage, conn <- counted

ASSUME PageAssumption == Page!LifecycleAssumption

page == <<visible, started, target, stage, desiredSuspended, disconnectConfirmed, beating, pulse,
          queue, call, counted, strays, events, faults>>
all == <<part, vars, page>>

MatchInit == part \in {"exchange", "page"} /\ Init /\ Page!Init

Exchanges(A) == part = "exchange" /\ A /\ UNCHANGED <<part, page>>
Turns(A) == part = "page" /\ A /\ UNCHANGED <<part, vars>>

MatchFairness ==
    /\ WF_all(Exchanges(ExchangeCheckpoints))
    /\ \A c \in Client :
        /\ WF_all(Exchanges(SimulateFrame(c))) /\ WF_all(Exchanges(ResolveRound(c)))
        /\ WF_all(Exchanges(NextRound(c))) /\ WF_all(Exchanges(Flush(c)))
        /\ WF_all(Exchanges(Deliver(c))) /\ WF_all(Exchanges(ObserveClose(c)))
        /\ WF_all(Exchanges(Activate(c))) /\ WF_all(Exchanges(FailRecovery(c)))
    /\ WF_all(Turns(Page!Pulse)) /\ WF_all(Turns(Page!Beat)) /\ WF_all(Turns(Page!ServePulse))
    /\ \A s \in Page!Session :
        /\ WF_all(Turns(Page!Begin(s))) /\ WF_all(Turns(Page!Answer(s)))
        /\ WF_all(Turns(Page!Retry(s))) /\ WF_all(Turns(Page!Serve(s)))
        /\ \A kind \in {"disconnect", "reconnect"} : WF_all(Turns(Page!ServeStray(s, kind)))

MatchSpec == MatchInit /\ [][Exchanges(Next) \/ Turns(Page!Next)]_all /\ MatchFairness

-----------------------------------------------------------------------------
(* FrameExchange: no input is lost or confirmed too early and no protocol error
   raised.  SessionLifecycle: a hidden page is silent, and the controller settles
   on what the page asked for last. *)
MatchInvariant ==
    IF part = "exchange" THEN ExchangeInvariant
    ELSE Page!TypeOK /\ Page!HiddenIsSilent /\ Page!SettlesAsAsked

(* FrameExchange: a match whose channel holds is played to its end. *)
ConnectedMatchEnds == part = "exchange" => ConnectedMatchCompletes

(* SessionLifecycle: a transition of a match that was left does nothing to the
   present one. *)
LeftIsInert == Page!LeftIsInert

(* SessionLifecycle: a player whose page is shown again ends up counted in. *)
ShownIsCountedIn == part = "page" => Page!ShownIsCountedIn
=============================================================================
