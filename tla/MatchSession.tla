---------------------------- MODULE MatchSession ----------------------------
(***************************************************************************)
(* One match session of the queue service run against the clock: the two   *)
(* players heartbeat, drop, reconnect, attest completion and leave in any  *)
(* order, and any call at any later time sweeps the session first.  Client *)
(* calls may be lost or arrive late: nothing forces a player to act.       *)
(***************************************************************************)
EXTENDS SessionRules

CONSTANTS
    MaxTime,        \* the clock stops here (a bound of the model)
    MaxGeneration   \* transport attempts explored (a bound of the model)

BoundAssumption == MaxTime \in Nat /\ MaxGeneration \in Nat \ {0}

VARIABLES
    now,       \* Date.now()
    session,   \* the MatchSessionRecord
    present    \* sessionsById.has(sessionId)

vars == <<now, session, present>>

TypeOK ==
    /\ now \in Nat
    /\ session \in Session
    /\ present \in BOOLEAN

Init ==
    /\ now = 0
    /\ session = NewSession(0)
    /\ present = TRUE

-----------------------------------------------------------------------------

Tick ==
    /\ now < MaxTime
    /\ now' = now + 1
    /\ UNCHANGED <<session, present>>

\* The sweep every handler starts with.
Swept == CleanupSession(session, now)

\* Every read, every refused call and the periodic checkpoint: cleanup alone.
Sweep ==
    /\ present
    /\ present' = ~Removable(session, now)
    /\ session' = Swept
    /\ UNCHANGED now

\* A call that is accepted found the session still there after the sweep.
Accepted == present /\ ~Removable(session, now) /\ UNCHANGED <<now, present>>

Disconnect(p) ==
    /\ Accepted
    /\ CanMarkDisconnected(Swept, p)
    /\ session' = MarkDisconnected(Swept, p, now)

Heartbeat(p) ==
    /\ Accepted
    /\ CanHeartbeat(Swept, p, now)
    /\ session' = HeartbeatSession(Swept, p, now)

\* Mutant: reconnect without the leading cleanup.
Reconnect_Unswept(p, attempt) ==
    /\ Accepted
    /\ CanReconnect(session, p, attempt, now)
    /\ session' = ReconnectSession(session, p, attempt, now)

Reconnect(p, attempt) ==
    /\ Accepted
    /\ CanReconnect(Swept, p, attempt, now)
    /\ session' = ReconnectSession(Swept, p, attempt, now)

Complete(p) ==
    /\ Accepted
    /\ CanComplete(Swept, now)
    /\ session' = CompleteSession(Swept, p, now)

AdvanceTransport(expected) ==
    /\ Accepted
    /\ expected < MaxGeneration
    /\ CanAdvanceTransport(Swept, expected, now)
    /\ session' = AdvanceTransportAttempt(Swept)

\* leaveTicket reaches the session only while the ticket is matched, that
\* is while the session is active.
Leave(p) ==
    /\ Accepted
    /\ Swept.status = "active"
    /\ session' = LeaveSession(Swept, p, now)

Next ==
    \/ Tick
    \/ Sweep
    \/ \E p \in Side :
        \/ Disconnect(p)
        \/ Heartbeat(p)
        \/ Complete(p)
        \/ Leave(p)
        \/ \E attempt \in AttemptId : Reconnect(p, attempt)
    \/ \E expected \in 1..MaxGeneration : AdvanceTransport(expected)

\* The checkpoint timer runs cleanup every few seconds for as long as the
\* process holds a session, and time passes; the players owe nothing.
Fairness == WF_vars(Tick) /\ WF_vars(Sweep)

Spec == Init /\ [][Next]_vars /\ Fairness

-----------------------------------------------------------------------------
(* Properties.                                                             *)

\* A standing reconnect deadline lies a full grace period after the last
\* contact with the player, and no later than the heartbeat timeout allows:
\* neither an early explicit disconnect nor a sweep that ran late can cut
\* the grace short or stretch it (markSessionDisconnected, cleanup).
DeadlineBounds == \A p \in Side : DeadlineInBounds(session.part[p])

\* Every resolution is justified by what the record still shows: a forfeit
\* by timeout names the one player whose deadline passed first, a timeout
\* without a name is a tie, completion was attested by both, expiry beats
\* no deadline that fell before it (cleanup, completeSession, leaveTicket).
OutcomeJustified == session.status = "resolved" => Justified(session)

\* A session is never resolved in its future or after its expiry, however
\* late the sweep that resolves it runs (cleanup back-dates the resolution).
ResolvedInLifetime == session.status = "resolved" => InLifetime(session, now)

\* cleanup is lazy: it runs when somebody happens to call.  When it runs
\* must not matter: sweeping at t1 and again at t2 gives the outcome that a
\* single sweep at t2 gives.
SweepScheduleIrrelevant ==
    \A t1 \in now..(MaxTime + 1) : \A t2 \in t1..(MaxTime + 1) :
        Outcome(CleanupSession(CleanupSession(session, t1), t2))
            = Outcome(CleanupSession(session, t2))

\* Once the outcome of a session is due, no call can still change it: a
\* reconnect, heartbeat, completion or leave that arrives after the deadline
\* but before any sweep finds the session resolved.
LateCallCannotRescue ==
    [][Swept.status = "resolved" =>
        session' = session \/ Outcome(session') = Outcome(Swept)]_vars

\* Even if both players vanish without a word, the session is resolved and
\* its record dropped (cleanup's heartbeat timeout, expiry and retention).
SessionEnds == <>(session.status = "resolved") /\ <>~present

=============================================================================
