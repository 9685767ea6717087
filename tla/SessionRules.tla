---------------------------- MODULE SessionRules ----------------------------
(***************************************************************************)
(* The rules of one online match session, as operators on a session        *)
(* record: what apps/api/src/matchmaking/queueService.ts does to a         *)
(* MatchSessionRecord.  The module has no state of its own; MatchSession   *)
(* runs one session against a clock, MatchmakingQueue keeps many of them   *)
(* together with the tickets, and MatchmakingRuntime keeps a copy of them  *)
(* in the memory of every API process.                                     *)
(*                                                                         *)
(* Times are natural numbers of one arbitrary unit.  A field the code      *)
(* leaves `undefined` holds NoTime or "none".  A handler is refused unless *)
(* its Can... operator holds; a refused handler leaves what cleanup left.  *)
(***************************************************************************)
EXTENDS Integers

CONSTANTS
    SessionTtl,        \* sessionTtlMs
    TokenTtl,          \* sessionTokenTtlMs
    HeartbeatTimeout,  \* heartbeatTimeoutMs
    ReconnectGrace,    \* reconnectGraceMs
    ClosedRetention,   \* closedRetentionMs
    AttemptId          \* the reconnect attempt ids clients generate

ASSUME TimingAssumption ==
    /\ SessionTtl \in Nat
    /\ TokenTtl \in Nat
    /\ HeartbeatTimeout \in Nat
    /\ ReconnectGrace \in Nat
    /\ ClosedRetention \in Nat

NoTime == -1

Side == {"P1", "P2"}

Peer(p) == IF p = "P1" THEN "P2" ELSE "P1"

Reason == {"session_expired", "reconnect_timeout", "peer_left", "completed"}

Participant ==
    [ conn      : {"connected", "disconnected"},
      heartbeat : Nat,                  \* lastHeartbeatAtMs
      attested  : BOOLEAN,              \* completionAttestedAtMs is set
      deadline  : Nat \cup {NoTime},    \* reconnectDeadlineAtMs
      used      : SUBSET AttemptId ]    \* usedReconnectAttemptIds

Session ==
    [ status       : {"active", "resolved"},
      reason       : Reason \cup {"none"},
      forfeiter    : Side \cup {"none"},     \* forfeitingAccountId
      createdAt    : Nat,
      expiresAt    : Nat,
      tokenExpires : Nat,                    \* sessionTokenExpiresAtMs
      resolvedAt   : Nat \cup {NoTime},
      generation   : Nat \ {0},              \* transportAttemptGeneration
      part         : [Side -> Participant] ]

-----------------------------------------------------------------------------
(* createMatch: the session record of a new match.                         *)

NewParticipant(now) ==
    [ conn |-> "connected", heartbeat |-> now, attested |-> FALSE,
      deadline |-> NoTime, used |-> {} ]

NewSession(now) ==
    [ status |-> "active", reason |-> "none", forfeiter |-> "none",
      createdAt |-> now, expiresAt |-> now + SessionTtl,
      tokenExpires |-> now + TokenTtl, resolvedAt |-> NoTime,
      generation |-> 1, part |-> [p \in Side |-> NewParticipant(now)] ]

-----------------------------------------------------------------------------
(* resolveSession and the session half of cleanup.                         *)

Resolve(s, at, reason, forfeiter) ==
    IF s.status = "resolved" THEN s
    ELSE [s EXCEPT !.status = "resolved", !.reason = reason,
                   !.forfeiter = forfeiter, !.resolvedAt = at]

\* A connected participant silent for longer than the timeout is
\* disconnected as of the moment the timeout ran out, not as of `now`.
ExpireHeartbeat(q, now) ==
    IF q.conn = "connected" /\ now > q.heartbeat + HeartbeatTimeout
    THEN [q EXCEPT !.conn = "disconnected",
                   !.deadline = q.heartbeat + HeartbeatTimeout + ReconnectGrace]
    ELSE q

ExpireHeartbeats(s, now) ==
    [s EXCEPT !.part = [p \in Side |-> ExpireHeartbeat(s.part[p], now)]]

TimedOut(s, now) ==
    {p \in Side : s.part[p].deadline # NoTime /\ now > s.part[p].deadline}

\* timedOutParticipants[0] after the sort, and all that share its deadline.
EarliestTimedOut(s, now) ==
    {p \in TimedOut(s, now) :
        \A q \in TimedOut(s, now) : s.part[p].deadline <= s.part[q].deadline}

\* Mutant: the first of a tie is blamed.
TimeoutForfeiter_FirstOfTie(s, now) ==
    IF "P1" \in EarliestTimedOut(s, now) THEN "P1" ELSE "P2"

\* The forfeit is attributed only when one participant alone is earliest.
TimeoutForfeiter(s, now) ==
    CASE EarliestTimedOut(s, now) = {"P1"} -> "P1"
      [] EarliestTimedOut(s, now) = {"P2"} -> "P2"
      [] OTHER -> "none"

TimeoutAt(s, now) ==
    IF "P1" \in EarliestTimedOut(s, now)
    THEN s.part["P1"].deadline ELSE s.part["P2"].deadline

SessionExpired(s, now) == now > s.expiresAt

ReconnectTimeoutWins(s, now) ==
    /\ TimedOut(s, now) # {}
    /\ SessionExpired(s, now) => TimeoutAt(s, now) < s.expiresAt

\* Mutant: expiry is looked at before the reconnect deadlines.
Judge_ExpiryFirst(s, now) ==
    IF SessionExpired(s, now)
    THEN Resolve(s, s.expiresAt, "session_expired", "none")
    ELSE IF TimedOut(s, now) # {}
    THEN Resolve(s, TimeoutAt(s, now), "reconnect_timeout",
                 TimeoutForfeiter(s, now))
    ELSE s

Judge(s, now) ==
    IF ReconnectTimeoutWins(s, now)
    THEN Resolve(s, TimeoutAt(s, now), "reconnect_timeout",
                 TimeoutForfeiter(s, now))
    ELSE IF SessionExpired(s, now)
    THEN Resolve(s, s.expiresAt, "session_expired", "none")
    ELSE s

CleanupSession(s, now) ==
    IF s.status = "active" THEN Judge(ExpireHeartbeats(s, now), now) ELSE s

\* Mutant: the operands of the retention test swapped.
Removable_Swapped(s, now) ==
    s.status = "resolved" /\ s.resolvedAt - now > ClosedRetention

\* cleanup deletes a session it found resolved, never one it just resolved.
Removable(s, now) ==
    s.status = "resolved" /\ now - s.resolvedAt > ClosedRetention

-----------------------------------------------------------------------------
(* The handlers.  Each is applied to a session cleanup has just swept.     *)

CanMarkDisconnected(s, p) ==
    s.status = "active" /\ s.part[p].conn = "connected"

MarkDisconnected(s, p, now) ==
    [s EXCEPT !.part[p] = [@ EXCEPT !.conn = "disconnected",
                                    !.deadline = now + ReconnectGrace]]

TokenAccepted(s, now) == now <= s.tokenExpires

CanHeartbeat(s, p, now) ==
    /\ s.status = "active"
    /\ TokenAccepted(s, now)
    /\ s.part[p].conn = "connected"

HeartbeatSession(s, p, now) ==
    [s EXCEPT !.part[p] = [@ EXCEPT !.heartbeat = now]]

CanReconnect(s, p, attempt, now) ==
    /\ s.status = "active"
    /\ TokenAccepted(s, now)
    /\ attempt \notin s.part[p].used

ReconnectSession(s, p, attempt, now) ==
    [s EXCEPT !.part[p] = [@ EXCEPT !.conn = "connected",
                                    !.heartbeat = now,
                                    !.deadline = NoTime,
                                    !.used = s.part[p].used \cup {attempt}]]

CanComplete(s, now) == s.status = "active" /\ TokenAccepted(s, now)

CompleteSession(s, p, now) ==
    LET attested == [s EXCEPT !.part[p] = [@ EXCEPT !.attested = TRUE]]
    IN  IF \A q \in Side : attested.part[q].attested
        THEN Resolve(attested, now, "completed", "none")
        ELSE attested

\* Only the current generation advances; an older one is answered, not applied.
CanAdvanceTransport(s, expected, now) ==
    /\ s.status = "active"
    /\ TokenAccepted(s, now)
    /\ expected = s.generation

AdvanceTransportAttempt(s) == [s EXCEPT !.generation = @ + 1]

\* leaveTicket on a matched ticket: the leaver forfeits.
LeaveSession(s, p, now) == Resolve(s, now, "peer_left", p)

-----------------------------------------------------------------------------
(* What is final about a session: the outcome ranked play is settled by.   *)

Outcome(s) == <<s.status, s.reason, s.forfeiter, s.resolvedAt>>

-----------------------------------------------------------------------------
(* What a record shows: when a standing deadline and a resolution are      *)
(* justified by the rest of it.                                            *)

DeadlineInBounds(q) ==
    IF q.conn = "connected" THEN q.deadline = NoTime
    ELSE /\ q.heartbeat + ReconnectGrace <= q.deadline
         /\ q.deadline <= q.heartbeat + HeartbeatTimeout + ReconnectGrace

TimeoutJustified(s) ==
    IF s.forfeiter = "none"
    THEN \A p \in Side : s.part[p].deadline = s.resolvedAt
    ELSE /\ s.part[s.forfeiter].deadline = s.resolvedAt
         /\ \/ s.part[Peer(s.forfeiter)].deadline = NoTime
            \/ s.part[Peer(s.forfeiter)].deadline > s.resolvedAt

ExpiryJustified(s) ==
    /\ s.forfeiter = "none"
    /\ s.resolvedAt = s.expiresAt
    /\ \A p \in Side :
          s.part[p].deadline = NoTime \/ s.part[p].deadline >= s.expiresAt

Justified(s) ==
    \/ s.reason = "reconnect_timeout" /\ TimeoutJustified(s)
    \/ s.reason = "session_expired" /\ ExpiryJustified(s)
    \/ /\ s.reason = "completed" /\ s.forfeiter = "none"
       /\ \A p \in Side : s.part[p].attested
    \/ s.reason = "peer_left" /\ s.forfeiter \in Side

InLifetime(s, n) ==
    /\ s.createdAt <= s.resolvedAt
    /\ s.resolvedAt <= s.expiresAt
    /\ s.resolvedAt <= n

=============================================================================
