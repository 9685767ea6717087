----------------------------- MODULE MCServices ------------------------------
(* Services of the API on small instances: the lease that requests contend for,
   while no client hangs up and no query fails and with both, a private room, and
   the scheduler of due work.  They share no state in these models, so one search
   serves them all: `part` names the one that moves.  Requests A and B and the
   sign-in are served by one process, request C by the other. *)
EXTENDS RequestLease

CONSTANTS
    HomeProcess, OtherProcess, RequestA, RequestB, RequestC,
    Account, Character, Compatible, MaxParticipants, MaxSpectators, MaxHistory, IdleTimeout,
    Retention, MaxSessions,
    Item, BatchLimit, MaxDue, Lease, RetryDelay, MaxTimerDelay, MaxFailures

VARIABLES
    part,
    room, age,
    status, left, committed, claimed, peer, pc, next, rerunRequested, scheduledFor, timer,
    stopped, failures

Homes == [r \in Request |-> IF r = RequestC THEN OtherProcess ELSE HomeProcess]

Lobby == INSTANCE RoomLobby
Scheduling == INSTANCE WorkScheduler WITH MaxFaults <- MaxFailures, faults <- failures

ASSUME ServicesAssumption == Lobby!RoomAssumption /\ Scheduling!SchedulerAssumption

lobby == <<room, age>>
scheduling == <<status, left, committed, claimed, peer, pc, next, rerunRequested, scheduledFor,
                timer, stopped, failures>>
all == <<part, vars, lobby, scheduling>>

ServicesInit ==
    /\ part \in {"lease", "aborts", "room", "scheduler"}
    /\ Init /\ Lobby!Init /\ Scheduling!Init

(* No client hangs up and no query fails. *)
Leases(A) ==
    part = "lease" /\ UNCHANGED <<part, aborts, faults, lobby, scheduling>> /\ A

(* Clients may hang up and queries fail, with requests A and B alone. *)
Aborts ==
    /\ part = "aborts" /\ Next /\ UNCHANGED <<part, lobby, scheduling>>
    /\ \A r \in Request : stage'[r] # "new" => r \in {RequestA, RequestB}

Hosts == part = "room" /\ Lobby!Next /\ UNCHANGED <<part, vars, scheduling>>
Schedules(A) == part = "scheduler" /\ A /\ UNCHANGED <<part, vars, lobby>>

ServicesFairness ==
    /\ \A home \in Process : WF_all(Leases(Serve(home)))
    /\ \A r \in Request :
        /\ WF_all(Leases(Advance(r)))
        /\ WF_all(Leases(stage[r] = "sleeping" /\ Connect(r)))
    /\ WF_all(Schedules(Scheduling!Tick))
    /\ WF_all(Schedules(Scheduling!Committed))
    /\ WF_all(Schedules(Scheduling!Claim))
    /\ WF_all(Schedules(Scheduling!WorkDone))
    /\ WF_all(Schedules(Scheduling!ReadNext))
    /\ WF_all(Schedules(Scheduling!RunReturns))
    /\ WF_all(Schedules(Scheduling!TimerFires))
    /\ \A i \in Item : WF_all(Schedules(Scheduling!Settle(i)))

ServicesSpec ==
    /\ ServicesInit
    /\ [][Leases(Next) \/ Aborts \/ Hosts \/ Schedules(Scheduling!Next)]_all
    /\ ServicesFairness

-----------------------------------------------------------------------------
(* The variables of every part have their types; a client that is told its request
   succeeded finds it in the stored snapshot; every session of a room has at most one
   outcome, in order; no due decision is overlooked. *)
ServicesInvariant ==
    CASE part = "lease" -> TypeOK /\ AnsweredIsStored
      [] part = "aborts" -> TypeOK
      [] part = "room" -> Lobby!TypeOK /\ Lobby!OneOutcomeEach
      [] part = "scheduler" -> Scheduling!TypeOK /\ Scheduling!NothingOverlooked

(* RequestLease, NoLostUpdate as long as no client hangs up: what one request wrote
   is never written over with a snapshot that lacks it.  RoomLobby: a match is played
   by the players who are ready with the character they play, and a closed room stays
   as it is until it is forgotten. *)
RecordsSurvive ==
    [][ /\ part = "lease" => stored \subseteq stored'
        /\ part = "room" => Lobby!MatchIsReadied /\ Lobby!ClosedForGood ]_all

(* RequestLease: every request that arrived is answered. *)
EveryRequestIsAnswered ==
    \A r \in Request :
        (part = "lease" /\ stage[r] # "new") ~> (part = "lease" /\ stage[r] = "ended")

(* WorkScheduler: every decision is settled, unless the process is stopped. *)
DueWorkIsDone == part = "scheduler" => Scheduling!DueWorkIsDone
=============================================================================
