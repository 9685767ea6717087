------------------------ MODULE SessionRules_proofs ------------------------
(***************************************************************************)
(* Facts about the operators of SessionRules, for every choice of the      *)
(* timing constants: what each returns and what it leaves alone.           *)
(***************************************************************************)
EXTENDS SessionRules, TLAPS

-----------------------------------------------------------------------------
(* What the operators of SessionRules return.                              *)

\* Timing out one participant keeps it a participant (cleanup's first loop).
LEMMA ExpireHeartbeatType ==
    ASSUME NEW q \in Participant, NEW n \in Nat
    PROVE  ExpireHeartbeat(q, n) \in Participant
<1>1. q.heartbeat + HeartbeatTimeout + ReconnectGrace \in Nat
  BY TimingAssumption DEF Participant
<1>2. QED
  BY <1>1 DEF ExpireHeartbeat, Participant

\* Timing out both keeps the record a session and touches only its players.
LEMMA ExpireHeartbeatsType ==
    ASSUME NEW s \in Session, NEW n \in Nat
    PROVE  /\ ExpireHeartbeats(s, n) \in Session
           /\ ExpireHeartbeats(s, n) =
                [s EXCEPT !.part = [p \in Side |-> ExpireHeartbeat(s.part[p], n)]]
<1>1. \A p \in Side : ExpireHeartbeat(s.part[p], n) \in Participant
  BY ExpireHeartbeatType DEF Session
<1>2. [p \in Side |-> ExpireHeartbeat(s.part[p], n)] \in [Side -> Participant]
  BY <1>1
<1>3. QED
  BY <1>2 DEF ExpireHeartbeats, Session

\* resolveSession keeps the record a session.
LEMMA ResolveType ==
    ASSUME NEW s \in Session, NEW at \in Nat, NEW r \in Reason,
           NEW f \in Side \cup {"none"}
    PROVE  Resolve(s, at, r, f) \in Session
BY DEF Resolve, Session

\* The deadline a timeout resolves at is the deadline of an earliest player.
LEMMA TimeoutAtType ==
    ASSUME NEW s \in Session, NEW n \in Nat, TimedOut(s, n) # {}
    PROVE  /\ TimeoutAt(s, n) \in Nat
           /\ TimeoutAt(s, n) < n
           /\ \E p \in TimedOut(s, n) : TimeoutAt(s, n) = s.part[p].deadline
           /\ \A p \in TimedOut(s, n) : TimeoutAt(s, n) <= s.part[p].deadline
<1>1. \A p \in Side : s.part[p].deadline \in Nat \cup {-1}
  BY DEF Session, Participant, NoTime
<1>2. /\ "P1" \in Side /\ "P2" \in Side
      /\ \A p \in Side : p = "P1" \/ p = "P2"
  BY DEF Side
<1>3. QED
  BY <1>1, <1>2 DEF TimeoutAt, EarliestTimedOut, TimedOut, NoTime

\* A timeout blames a player or nobody.
LEMMA ForfeiterType ==
    ASSUME NEW s, NEW n
    PROVE  TimeoutForfeiter(s, n) \in Side \cup {"none"}
BY DEF TimeoutForfeiter, Side

\* cleanup keeps the record a session.
LEMMA CleanupType ==
    ASSUME NEW s \in Session, NEW n \in Nat
    PROVE  CleanupSession(s, n) \in Session
<1> DEFINE e == ExpireHeartbeats(s, n)
<1>1. e \in Session
  BY ExpireHeartbeatsType
<1> HIDE DEF e
<1>2. CASE ReconnectTimeoutWins(e, n)
  <2>1. TimedOut(e, n) # {}
    BY <1>2 DEF ReconnectTimeoutWins
  <2>2. TimeoutAt(e, n) \in Nat
    BY <1>1, <2>1, TimeoutAtType
  <2>3. Resolve(e, TimeoutAt(e, n), "reconnect_timeout", TimeoutForfeiter(e, n)) \in Session
    BY <1>1, <2>2, ForfeiterType, ResolveType DEF Reason
  <2>4. QED
    BY <1>2, <2>3 DEF CleanupSession, Judge, e
<1>3. CASE ~ReconnectTimeoutWins(e, n) /\ SessionExpired(e, n)
  <2>1. e.expiresAt \in Nat
    BY <1>1 DEF Session
  <2>2. Resolve(e, e.expiresAt, "session_expired", "none") \in Session
    BY <1>1, <2>1, ResolveType DEF Reason
  <2>3. QED
    BY <1>3, <2>2 DEF CleanupSession, Judge, e
<1>4. CASE ~ReconnectTimeoutWins(e, n) /\ ~SessionExpired(e, n)
  BY <1>4, <1>1 DEF CleanupSession, Judge, e
<1>5. QED
  BY <1>2, <1>3, <1>4

-----------------------------------------------------------------------------
(* Each handler keeps the record a session.                                *)

\* Replacing one player keeps the record a session.
LEMMA ReplaceParticipant ==
    ASSUME NEW s \in Session, NEW p \in Side, NEW q \in Participant
    PROVE  [s EXCEPT !.part[p] = q] \in Session
BY DEF Session

\* markSessionDisconnected keeps the record a session.
LEMMA MarkDisconnectedType ==
    ASSUME NEW s \in Session, NEW n \in Nat, NEW p \in Side
    PROVE  MarkDisconnected(s, p, n) \in Session
<1> DEFINE q == [s.part[p] EXCEPT !.conn = "disconnected",
                                  !.deadline = n + ReconnectGrace]
<1>1. n + ReconnectGrace \in Nat
  BY TimingAssumption
<1>2. s.part[p] \in Participant
  BY DEF Session
<1>3. q \in Participant
  BY <1>1, <1>2 DEF Participant
<1>4. MarkDisconnected(s, p, n) = [s EXCEPT !.part[p] = q]
  BY DEF MarkDisconnected
<1> HIDE DEF q
<1>5. QED
  BY <1>3, <1>4, ReplaceParticipant

\* heartbeatSession keeps the record a session.
LEMMA HeartbeatType ==
    ASSUME NEW s \in Session, NEW n \in Nat, NEW p \in Side
    PROVE  HeartbeatSession(s, p, n) \in Session
<1> DEFINE q == [s.part[p] EXCEPT !.heartbeat = n]
<1>1. q \in Participant
  BY DEF Session, Participant
<1>2. HeartbeatSession(s, p, n) = [s EXCEPT !.part[p] = q]
  BY DEF HeartbeatSession
<1> HIDE DEF q
<1>3. QED
  BY <1>1, <1>2, ReplaceParticipant

\* reconnectSession keeps the record a session.
LEMMA ReconnectType ==
    ASSUME NEW s \in Session, NEW n \in Nat, NEW p \in Side,
           NEW a \in AttemptId
    PROVE  ReconnectSession(s, p, a, n) \in Session
<1> DEFINE q == [s.part[p] EXCEPT !.conn = "connected", !.heartbeat = n,
                                  !.deadline = NoTime,
                                  !.used = s.part[p].used \cup {a}]
<1>1. s.part[p] \in Participant
  BY DEF Session
<1>2. s.part[p].used \cup {a} \in SUBSET AttemptId
  BY <1>1 DEF Participant
<1>3. q \in Participant
  BY <1>1, <1>2 DEF Participant
<1>4. ReconnectSession(s, p, a, n) = [s EXCEPT !.part[p] = q]
  BY DEF ReconnectSession
<1> HIDE DEF q
<1>5. QED
  BY <1>3, <1>4, ReplaceParticipant

\* completeSession keeps the record a session.
LEMMA CompleteType ==
    ASSUME NEW s \in Session, NEW n \in Nat, NEW p \in Side
    PROVE  CompleteSession(s, p, n) \in Session
<1> DEFINE q == [s.part[p] EXCEPT !.attested = TRUE]
           t == [s EXCEPT !.part[p] = q]
<1>0. s.part[p] \in Participant
  BY DEF Session
<1>1. q \in Participant
  BY <1>0 DEF Participant
<1> HIDE DEF q
<1>2. t \in Session
  BY <1>1, ReplaceParticipant
<1> HIDE DEF t
<1>3. Resolve(t, n, "completed", "none") \in Session
  BY <1>2, ResolveType DEF Reason
<1>4. QED
  BY <1>2, <1>3 DEF CompleteSession, t, q

\* advanceTransportAttempt keeps the record a session.
LEMMA AdvanceTransportType ==
    ASSUME NEW s \in Session
    PROVE  AdvanceTransportAttempt(s) \in Session
<1>1. s.generation + 1 \in Nat \ {0}
  BY DEF Session
<1>2. QED
  BY <1>1 DEF AdvanceTransportAttempt, Session

\* leaveTicket on a matched ticket keeps the record a session.
LEMMA LeaveType ==
    ASSUME NEW s \in Session, NEW n \in Nat, NEW p \in Side
    PROVE  LeaveSession(s, p, n) \in Session
BY ResolveType DEF LeaveSession, Reason

\* What a session's deadlines are, as numbers.
LEMMA DeadlineType ==
    ASSUME NEW s \in Session, NEW p \in Side
    PROVE  /\ s.part[p] \in Participant
           /\ s.part[p].deadline \in Nat \cup {-1}
           /\ s.part[p].heartbeat \in Nat
BY DEF Session, Participant, NoTime

\* resolveSession changes the outcome of an active session and nothing else.
LEMMA ResolveFields ==
    ASSUME NEW s \in Session, s.status = "active",
           NEW at \in Nat, NEW r \in Reason, NEW f \in Side \cup {"none"}
    PROVE  LET t == Resolve(s, at, r, f) IN
           /\ t \in Session
           /\ t.status = "resolved" /\ t.reason = r /\ t.forfeiter = f
           /\ t.resolvedAt = at /\ t.part = s.part
           /\ t.createdAt = s.createdAt /\ t.expiresAt = s.expiresAt
<1>1. Resolve(s, at, r, f) = [s EXCEPT !.status = "resolved", !.reason = r,
                                       !.forfeiter = f, !.resolvedAt = at]
  BY DEF Resolve
<1>2. QED
  BY <1>1, ResolveType DEF Session

\* The outcome resolveSession gives an active session.
LEMMA ResolveOutcome ==
    ASSUME NEW s \in Session, s.status = "active",
           NEW at \in Nat, NEW r \in Reason, NEW f \in Side \cup {"none"}
    PROVE  /\ Resolve(s, at, r, f).status = "resolved"
           /\ Outcome(Resolve(s, at, r, f)) = <<"resolved", r, f, at>>
<1> DEFINE t == Resolve(s, at, r, f)
<1>1. t.status = "resolved" /\ t.reason = r /\ t.forfeiter = f /\ t.resolvedAt = at
  BY ResolveFields
<1> HIDE DEF t
<1>2. Outcome(t) = <<"resolved", r, f, at>>
  BY <1>1 DEF Outcome
<1>3. QED
  BY <1>1, <1>2 DEF t

-----------------------------------------------------------------------------
(* Sound records: deadlines keep their distance from the last contact,     *)
(* contacts lie between the creation and now, and a resolution is          *)
(* justified and within the lifetime.                                      *)

SoundPlayer(q, created, n) ==
    /\ DeadlineInBounds(q)
    /\ created <= q.heartbeat
    /\ q.heartbeat <= n

Sound(s, n) ==
    /\ s.createdAt <= n
    /\ s.createdAt <= s.expiresAt
    /\ \A p \in Side : SoundPlayer(s.part[p], s.createdAt, n)
    /\ s.status = "resolved" => Justified(s) /\ InLifetime(s, n)

\* A heartbeat timeout sets the deadline from the last contact, and leaves
\* connected only a player heard from recently.
LEMMA ExpireHeartbeatSound ==
    ASSUME NEW q \in Participant, NEW created \in Nat, NEW n \in Nat,
           SoundPlayer(q, created, n)
    PROVE  /\ SoundPlayer(ExpireHeartbeat(q, n), created, n)
           /\ ExpireHeartbeat(q, n).conn = "connected"
                => n <= ExpireHeartbeat(q, n).heartbeat + HeartbeatTimeout
<1>1. /\ q.heartbeat \in Nat /\ HeartbeatTimeout \in Nat /\ ReconnectGrace \in Nat
      /\ q.deadline \in Nat \cup {-1}
  BY TimingAssumption DEF Participant, NoTime
<1>2. CASE q.conn = "connected" /\ n > q.heartbeat + HeartbeatTimeout
  <2> DEFINE r == ExpireHeartbeat(q, n)
  <2>1. /\ r.conn = "disconnected" /\ r.heartbeat = q.heartbeat
        /\ r.deadline = q.heartbeat + HeartbeatTimeout + ReconnectGrace
    BY <1>2 DEF ExpireHeartbeat, Participant
  <2> HIDE DEF r
  <2>2. SoundPlayer(r, created, n)
    BY <1>1, <2>1 DEF SoundPlayer, DeadlineInBounds
  <2>3. QED
    BY <2>1, <2>2 DEF r
<1>3. CASE ~(q.conn = "connected" /\ n > q.heartbeat + HeartbeatTimeout)
  <2>1. ExpireHeartbeat(q, n) = q
    BY <1>3 DEF ExpireHeartbeat
  <2>2. QED
    BY <1>1, <1>3, <2>1
<1>4. QED
  BY <1>2, <1>3

\* The blamed player alone has the earliest deadline; nobody is blamed when
\* both share it.
LEMMA ForfeiterEarliest ==
    ASSUME NEW s \in Session, NEW n \in Nat, TimedOut(s, n) # {}
    PROVE  LET f == TimeoutForfeiter(s, n) at == TimeoutAt(s, n) IN
           IF f = "none" THEN \A p \in Side : s.part[p].deadline = at
           ELSE /\ f \in Side
                /\ s.part[f].deadline = at
                /\ \/ s.part[Peer(f)].deadline = NoTime
                   \/ s.part[Peer(f)].deadline > at
<1> DEFINE d1 == s.part["P1"].deadline
           d2 == s.part["P2"].deadline
           E == EarliestTimedOut(s, n)
<1>1. d1 \in Nat \cup {-1} /\ d2 \in Nat \cup {-1}
  BY DeadlineType DEF Side
<1>2. /\ "P1" \in E <=> d1 # -1 /\ n > d1 /\ (d2 # -1 /\ n > d2 => d1 <= d2)
      /\ "P2" \in E <=> d2 # -1 /\ n > d2 /\ (d1 # -1 /\ n > d1 => d2 <= d1)
      /\ E \subseteq {"P1", "P2"}
  BY <1>1 DEF EarliestTimedOut, TimedOut, NoTime, Side
<1>3. (d1 # -1 /\ n > d1) \/ (d2 # -1 /\ n > d2)
  BY DEF TimedOut, NoTime, Side
<1>4. "P1" \in E \/ "P2" \in E
  BY <1>1, <1>2, <1>3
<1>5. TimeoutAt(s, n) = IF "P1" \in E THEN d1 ELSE d2
  BY DEF TimeoutAt
<1>6. TimeoutForfeiter(s, n) = CASE E = {"P1"} -> "P1" [] E = {"P2"} -> "P2"
                                 [] OTHER -> "none"
  BY DEF TimeoutForfeiter
<1>7. Peer("P1") = "P2" /\ Peer("P2") = "P1"
  BY DEF Peer
<1>8. CASE "P1" \in E /\ "P2" \in E
  <2>1. E # {"P1"} /\ E # {"P2"}
    BY <1>8
  <2>2. TimeoutForfeiter(s, n) = "none"
    BY <1>6, <2>1
  <2>3. d1 = d2 /\ TimeoutAt(s, n) = d1
    BY <1>1, <1>2, <1>5, <1>8
  <2>4. QED
    BY <2>2, <2>3 DEF Side
<1>9. CASE "P1" \in E /\ "P2" \notin E
  <2>1. E = {"P1"}
    BY <1>9, <1>2
  <2>2. TimeoutForfeiter(s, n) = "P1"
    BY <1>6, <2>1
  <2>3. TimeoutAt(s, n) = d1 /\ (d2 = -1 \/ d2 > d1)
    BY <1>1, <1>2, <1>5, <1>9
  <2>4. QED
    BY <2>2, <2>3, <1>7 DEF Side, NoTime
<1>10. CASE "P1" \notin E /\ "P2" \in E
  <2>1. E = {"P2"} /\ E # {"P1"}
    BY <1>10, <1>2
  <2>2. TimeoutForfeiter(s, n) = "P2"
    BY <1>6, <2>1
  <2>3. TimeoutAt(s, n) = d2 /\ (d1 = -1 \/ d1 > d2)
    BY <1>1, <1>2, <1>5, <1>10
  <2>4. QED
    BY <2>2, <2>3, <1>7 DEF Side, NoTime
<1>11. QED
  BY <1>4, <1>8, <1>9, <1>10

\* Timing out the heartbeats keeps all but the players, and an active
\* session sound.
LEMMA ExpireHeartbeatsSound ==
    ASSUME NEW s \in Session, NEW n \in Nat, Sound(s, n), s.status = "active"
    PROVE  LET e == ExpireHeartbeats(s, n) IN
           /\ e \in Session /\ Sound(e, n)
           /\ e.status = "active"
           /\ e.createdAt = s.createdAt /\ e.expiresAt = s.expiresAt
           /\ \A p \in Side : e.part[p].conn = "connected"
                => n <= e.part[p].heartbeat + HeartbeatTimeout
<1> DEFINE e == ExpireHeartbeats(s, n)
<1>1. e \in Session
  BY ExpireHeartbeatsType
<1>2. /\ e.status = s.status /\ e.createdAt = s.createdAt /\ e.expiresAt = s.expiresAt
      /\ e.part = [p \in Side |-> ExpireHeartbeat(s.part[p], n)]
  BY DEF ExpireHeartbeats, Session
<1> HIDE DEF e
<1>3. s.createdAt \in Nat
  BY DEF Session
<1>4. ASSUME NEW p \in Side
      PROVE  /\ SoundPlayer(e.part[p], e.createdAt, n)
             /\ e.part[p].conn = "connected"
                  => n <= e.part[p].heartbeat + HeartbeatTimeout
  <2>1. e.part[p] = ExpireHeartbeat(s.part[p], n)
    BY <1>2
  <2>2. s.part[p] \in Participant
    BY DeadlineType
  <2>3. SoundPlayer(s.part[p], s.createdAt, n)
    BY DEF Sound
  <2>4. QED
    BY <1>2, <1>3, <2>1, <2>2, <2>3, ExpireHeartbeatSound
<1>5. Sound(e, n)
  BY <1>2, <1>4 DEF Sound
<1>6. QED
  BY <1>1, <1>2, <1>4, <1>5 DEF e

\* A sound active session resolved for a good reason within its lifetime
\* is sound.
LEMMA ResolveSound ==
    ASSUME NEW s \in Session, s.status = "active", NEW n \in Nat, Sound(s, n),
           NEW at \in Nat, NEW r \in Reason, NEW f \in Side \cup {"none"},
           s.createdAt <= at, at <= s.expiresAt, at <= n,
           Justified(Resolve(s, at, r, f))
    PROVE  Sound(Resolve(s, at, r, f), n)
<1> DEFINE t == Resolve(s, at, r, f)
<1>1. /\ t.resolvedAt = at /\ t.part = s.part
      /\ t.createdAt = s.createdAt /\ t.expiresAt = s.expiresAt
  BY ResolveFields
<1>2. Justified(t)
  OBVIOUS
<1> HIDE DEF t
<1>3. InLifetime(t, n)
  BY <1>1 DEF InLifetime
<1>4. Sound(t, n)
  BY <1>1, <1>2, <1>3 DEF Sound
<1>5. QED
  BY <1>4 DEF t

\* cleanup keeps a session sound; a session it leaves active has not
\* expired, and its connected players were heard from recently.
LEMMA CleanupSound ==
    ASSUME NEW s \in Session, NEW n \in Nat, Sound(s, n)
    PROVE  LET c == CleanupSession(s, n) IN
           /\ c \in Session /\ Sound(c, n)
           /\ c.status = "active" =>
                /\ n <= c.expiresAt
                /\ \A p \in Side : c.part[p].conn = "connected"
                     => n <= c.part[p].heartbeat + HeartbeatTimeout
<1> DEFINE c == CleanupSession(s, n)
           e == ExpireHeartbeats(s, n)
<1>1. CASE s.status # "active"
  <2>1. c = s
    BY <1>1 DEF CleanupSession
  <2>2. QED
    BY <1>1, <2>1
<1>2. CASE s.status = "active"
  <2>1. c = Judge(e, n)
    BY <1>2 DEF CleanupSession
  <2>2. /\ e \in Session /\ Sound(e, n)
        /\ e.status = "active"
        /\ \A p \in Side : e.part[p].conn = "connected"
             => n <= e.part[p].heartbeat + HeartbeatTimeout
    BY <1>2, ExpireHeartbeatsSound
  <2> HIDE DEF e, c
  <2>3. /\ e.createdAt \in Nat /\ e.expiresAt \in Nat /\ ReconnectGrace \in Nat
        /\ e.createdAt <= e.expiresAt
        /\ \A p \in Side : e.createdAt <= e.part[p].heartbeat
    BY <2>2, TimingAssumption DEF Session, Sound, SoundPlayer
  <2>4. CASE ReconnectTimeoutWins(e, n)
    <3> DEFINE at == TimeoutAt(e, n)
               f == TimeoutForfeiter(e, n)
               t == Resolve(e, at, "reconnect_timeout", f)
    <3>1. TimedOut(e, n) # {} /\ (n > e.expiresAt => at < e.expiresAt)
      BY <2>4 DEF ReconnectTimeoutWins, SessionExpired
    <3>2. /\ at \in Nat /\ at < n
          /\ \E p \in TimedOut(e, n) : at = e.part[p].deadline
      BY <2>2, <3>1, TimeoutAtType
    <3>3. e.createdAt <= at
      <4>1. PICK p \in TimedOut(e, n) : at = e.part[p].deadline
        BY <3>2
      <4>2. p \in Side /\ e.part[p].deadline # NoTime
        BY <4>1 DEF TimedOut
      <4>3. DeadlineInBounds(e.part[p]) /\ e.part[p].heartbeat \in Nat
        BY <2>2, <4>2, DeadlineType DEF Sound, SoundPlayer
      <4>4. e.part[p].heartbeat + ReconnectGrace <= at
        BY <4>1, <4>2, <4>3 DEF DeadlineInBounds
      <4> HIDE DEF at
      <4>5. QED
        BY <2>3, <3>2, <4>2, <4>3, <4>4
    <3>4. at <= e.expiresAt
      BY <2>3, <3>1, <3>2
    <3>5. f \in Side \cup {"none"} /\ "reconnect_timeout" \in Reason
      BY ForfeiterType DEF Reason
    <3>6. IF f = "none" THEN \A p \in Side : e.part[p].deadline = at
          ELSE /\ f \in Side
               /\ e.part[f].deadline = at
               /\ \/ e.part[Peer(f)].deadline = NoTime
                  \/ e.part[Peer(f)].deadline > at
      BY <2>2, <3>1, ForfeiterEarliest
    <3> HIDE DEF at, f
    <3>7. /\ t \in Session /\ t.status = "resolved" /\ t.reason = "reconnect_timeout"
          /\ t.forfeiter = f /\ t.resolvedAt = at /\ t.part = e.part
      BY <2>2, <3>2, <3>5, ResolveFields
    <3> HIDE DEF t
    <3>8. Justified(t)
      BY <3>6, <3>7 DEF Justified, TimeoutJustified
    <3>9. Sound(t, n)
      BY <2>2, <3>2, <3>3, <3>4, <3>5, <3>8, ResolveSound DEF t
    <3>10. c = t
      BY <2>1, <2>4 DEF Judge, t, at, f
    <3>11. QED
      BY <3>7, <3>9, <3>10 DEF c
  <2>5. CASE ~ReconnectTimeoutWins(e, n) /\ SessionExpired(e, n)
    <3> DEFINE t == Resolve(e, e.expiresAt, "session_expired", "none")
    <3>1. n > e.expiresAt
      BY <2>5 DEF SessionExpired
    <3>2. TimedOut(e, n) = {} \/ ~(TimeoutAt(e, n) < e.expiresAt)
      BY <2>5, <3>1 DEF ReconnectTimeoutWins, SessionExpired
    <3>3. ASSUME NEW p \in Side
          PROVE  e.part[p].deadline = NoTime \/ e.part[p].deadline >= e.expiresAt
      <4>1. e.part[p].deadline \in Nat \cup {-1}
        BY <2>2, DeadlineType
      <4>2. CASE p \in TimedOut(e, n)
        <5>1. TimeoutAt(e, n) \in Nat /\ TimeoutAt(e, n) <= e.part[p].deadline
          BY <2>2, <4>2, TimeoutAtType
        <5>2. QED
          BY <2>3, <3>2, <4>1, <4>2, <5>1
      <4>3. CASE p \notin TimedOut(e, n)
        BY <2>3, <3>1, <4>1, <4>3 DEF TimedOut, NoTime
      <4>4. QED
        BY <4>2, <4>3
    <3>4. /\ t \in Session /\ t.status = "resolved" /\ t.reason = "session_expired"
          /\ t.forfeiter = "none" /\ t.resolvedAt = e.expiresAt /\ t.part = e.part
          /\ t.expiresAt = e.expiresAt
      BY <2>2, <2>3, ResolveFields DEF Reason
    <3> HIDE DEF t
    <3>5. Justified(t)
      BY <3>3, <3>4 DEF Justified, ExpiryJustified
    <3>6. Sound(t, n)
      BY <2>2, <2>3, <3>1, <3>5, ResolveSound DEF t, Reason
    <3>7. c = t
      BY <2>1, <2>5 DEF Judge, t
    <3>8. QED
      BY <3>4, <3>6, <3>7 DEF c
  <2>6. CASE ~ReconnectTimeoutWins(e, n) /\ ~SessionExpired(e, n)
    <3>1. c = e
      BY <2>1, <2>6 DEF Judge
    <3>2. n <= e.expiresAt
      BY <2>3, <2>6 DEF SessionExpired
    <3>3. QED
      BY <2>2, <3>1, <3>2 DEF c
  <2>7. QED
    BY <2>4, <2>5, <2>6
<1>3. QED
  BY <1>1, <1>2

-----------------------------------------------------------------------------
(* The handlers keep a swept session sound.                                *)

\* Replacing a player of an active session by a sound one keeps it sound.
LEMMA ReplaceSound ==
    ASSUME NEW s \in Session, NEW n \in Nat, Sound(s, n), s.status = "active",
           NEW p \in Side, NEW q \in Participant, SoundPlayer(q, s.createdAt, n)
    PROVE  /\ [s EXCEPT !.part[p] = q] \in Session
           /\ Sound([s EXCEPT !.part[p] = q], n)
           /\ [s EXCEPT !.part[p] = q].status = "active"
           /\ [s EXCEPT !.part[p] = q].createdAt = s.createdAt
           /\ [s EXCEPT !.part[p] = q].expiresAt = s.expiresAt
<1> DEFINE t == [s EXCEPT !.part[p] = q]
<1>1. t \in Session
  BY ReplaceParticipant
<1>2. /\ t.status = "active" /\ t.createdAt = s.createdAt /\ t.expiresAt = s.expiresAt
      /\ \A x \in Side : t.part[x] = IF x = p THEN q ELSE s.part[x]
  BY DEF Session
<1> HIDE DEF t
<1>3. Sound(t, n)
  BY <1>2 DEF Sound
<1>4. QED
  BY <1>1, <1>2, <1>3 DEF t

\* An explicit disconnect of a player heard from recently gives it the
\* grace period and no more than a missed heartbeat would have.
LEMMA MarkDisconnectedSound ==
    ASSUME NEW s \in Session, NEW n \in Nat, Sound(s, n), NEW p \in Side,
           CanMarkDisconnected(s, p),
           n <= s.part[p].heartbeat + HeartbeatTimeout
    PROVE  Sound(MarkDisconnected(s, p, n), n)
<1> DEFINE q == [s.part[p] EXCEPT !.conn = "disconnected",
                                  !.deadline = n + ReconnectGrace]
<1>1. /\ s.part[p] \in Participant /\ s.part[p].heartbeat \in Nat
      /\ n + ReconnectGrace \in Nat
      /\ HeartbeatTimeout \in Nat /\ ReconnectGrace \in Nat
  BY TimingAssumption, DeadlineType
<1>2. SoundPlayer(s.part[p], s.createdAt, n)
  BY DEF Sound
<1>3. q \in Participant
  BY <1>1 DEF Participant
<1>4. /\ q.conn = "disconnected" /\ q.deadline = n + ReconnectGrace
      /\ q.heartbeat = s.part[p].heartbeat
  BY <1>1 DEF Participant
<1>5. MarkDisconnected(s, p, n) = [s EXCEPT !.part[p] = q]
  BY DEF MarkDisconnected
<1> HIDE DEF q
<1>6. SoundPlayer(q, s.createdAt, n)
  BY <1>1, <1>2, <1>4 DEF SoundPlayer, DeadlineInBounds
<1>7. QED
  BY <1>3, <1>5, <1>6, ReplaceSound DEF CanMarkDisconnected

\* A heartbeat of a connected player keeps the session sound.
LEMMA HeartbeatSound ==
    ASSUME NEW s \in Session, NEW n \in Nat, Sound(s, n), NEW p \in Side,
           CanHeartbeat(s, p, n)
    PROVE  Sound(HeartbeatSession(s, p, n), n)
<1> DEFINE q == [s.part[p] EXCEPT !.heartbeat = n]
<1>1. s.part[p] \in Participant
  BY DeadlineType
<1>2. SoundPlayer(s.part[p], s.createdAt, n) /\ s.createdAt <= n
  BY DEF Sound
<1>3. q \in Participant
  BY <1>1 DEF Participant
<1>4. /\ q.conn = s.part[p].conn /\ q.deadline = s.part[p].deadline
      /\ q.heartbeat = n
  BY <1>1 DEF Participant
<1>5. HeartbeatSession(s, p, n) = [s EXCEPT !.part[p] = q]
  BY DEF HeartbeatSession
<1> HIDE DEF q
<1>6. s.part[p].conn = "connected" /\ s.status = "active"
  BY DEF CanHeartbeat
<1>7. SoundPlayer(q, s.createdAt, n)
  BY <1>2, <1>4, <1>6 DEF SoundPlayer, DeadlineInBounds
<1>8. QED
  BY <1>3, <1>5, <1>6, <1>7, ReplaceSound

\* A reconnect clears the deadline and counts as contact.
LEMMA ReconnectSound ==
    ASSUME NEW s \in Session, NEW n \in Nat, Sound(s, n), NEW p \in Side,
           NEW a \in AttemptId, CanReconnect(s, p, a, n)
    PROVE  Sound(ReconnectSession(s, p, a, n), n)
<1> DEFINE q == [s.part[p] EXCEPT !.conn = "connected", !.heartbeat = n,
                                  !.deadline = NoTime,
                                  !.used = s.part[p].used \cup {a}]
<1>1. s.part[p] \in Participant
  BY DeadlineType
<1>2. s.part[p].used \cup {a} \in SUBSET AttemptId
  BY <1>1 DEF Participant
<1>3. q \in Participant
  BY <1>1, <1>2 DEF Participant
<1>4. q.conn = "connected" /\ q.deadline = NoTime /\ q.heartbeat = n
  BY <1>1 DEF Participant
<1>5. ReconnectSession(s, p, a, n) = [s EXCEPT !.part[p] = q]
  BY DEF ReconnectSession
<1> HIDE DEF q
<1>6. s.createdAt <= n /\ s.status = "active"
  BY DEF Sound, CanReconnect
<1>7. SoundPlayer(q, s.createdAt, n)
  BY <1>4, <1>6 DEF SoundPlayer, DeadlineInBounds
<1>8. QED
  BY <1>3, <1>5, <1>6, <1>7, ReplaceSound

\* The second attestation completes a session that has not expired.
LEMMA CompleteSound ==
    ASSUME NEW s \in Session, NEW n \in Nat, Sound(s, n), NEW p \in Side,
           CanComplete(s, n), n <= s.expiresAt
    PROVE  Sound(CompleteSession(s, p, n), n)
<1> DEFINE q == [s.part[p] EXCEPT !.attested = TRUE]
           t == [s EXCEPT !.part[p] = q]
           r == Resolve(t, n, "completed", "none")
<1>1. s.part[p] \in Participant /\ SoundPlayer(s.part[p], s.createdAt, n)
  BY DeadlineType DEF Sound
<1>2. s.status = "active" /\ s.createdAt <= n
  BY DEF CanComplete, Sound
<1>3. /\ q \in Participant
      /\ q.conn = s.part[p].conn /\ q.deadline = s.part[p].deadline
      /\ q.heartbeat = s.part[p].heartbeat
  BY <1>1 DEF Participant
<1> HIDE DEF q
<1>4. SoundPlayer(q, s.createdAt, n)
  BY <1>1, <1>3 DEF SoundPlayer, DeadlineInBounds
<1>5. /\ t \in Session /\ Sound(t, n) /\ t.status = "active"
      /\ t.createdAt = s.createdAt /\ t.expiresAt = s.expiresAt
  BY <1>2, <1>3, <1>4, ReplaceSound
<1>6. CompleteSession(s, p, n) =
        IF \A x \in Side : t.part[x].attested THEN r ELSE t
  BY DEF CompleteSession, q
<1> HIDE DEF t
<1>7. CASE \A x \in Side : t.part[x].attested
  <2>1. /\ r.reason = "completed" /\ r.forfeiter = "none" /\ r.part = t.part
    BY <1>5, ResolveFields DEF Reason
  <2>2. Justified(r)
    BY <1>7, <2>1 DEF Justified
  <2>3. Sound(r, n)
    BY <1>2, <1>5, <2>2, ResolveSound DEF Reason
  <2>4. QED
    BY <1>6, <1>7, <2>3
<1>8. QED
  BY <1>5, <1>6, <1>7

\* A leaver forfeits an active session that has not expired.
LEMMA LeaveSound ==
    ASSUME NEW s \in Session, NEW n \in Nat, Sound(s, n), NEW p \in Side,
           s.status = "active", n <= s.expiresAt
    PROVE  Sound(LeaveSession(s, p, n), n)
<1> DEFINE r == Resolve(s, n, "peer_left", p)
<1>1. r.reason = "peer_left" /\ r.forfeiter = p
  BY ResolveFields DEF Reason
<1>2. Justified(r)
  BY <1>1 DEF Justified
<1>3. s.createdAt <= n
  BY DEF Sound
<1>4. Sound(r, n)
  BY <1>2, <1>3, ResolveSound DEF Reason
<1>5. QED
  BY <1>4 DEF LeaveSession

\* A new transport attempt touches nothing the invariant speaks of.
LEMMA AdvanceTransportSound ==
    ASSUME NEW s \in Session, NEW n \in Nat, Sound(s, n), s.status = "active"
    PROVE  Sound(AdvanceTransportAttempt(s), n)
<1> DEFINE t == AdvanceTransportAttempt(s)
<1>1. /\ t.status = "active" /\ t.part = s.part
      /\ t.createdAt = s.createdAt /\ t.expiresAt = s.expiresAt
  BY DEF AdvanceTransportAttempt, Session
<1> HIDE DEF t
<1>2. Sound(t, n)
  BY <1>1 DEF Sound
<1>3. QED
  BY <1>2 DEF t

\* Time passing keeps a session sound.
LEMMA LaterSound ==
    ASSUME NEW s \in Session, NEW n \in Nat, Sound(s, n)
    PROVE  Sound(s, n + 1)
<1>1. /\ s.createdAt \in Nat /\ s.resolvedAt \in Nat \cup {-1}
      /\ \A p \in Side : s.part[p].heartbeat \in Nat
  BY DeadlineType DEF Session, NoTime
<1>2. ASSUME NEW p \in Side PROVE SoundPlayer(s.part[p], s.createdAt, n + 1)
  <2>1. SoundPlayer(s.part[p], s.createdAt, n) /\ s.part[p].heartbeat \in Nat
    BY <1>1 DEF Sound
  <2>2. QED
    BY <2>1 DEF SoundPlayer
<1>3. s.createdAt <= n + 1
  BY <1>1 DEF Sound
<1>4. s.status = "resolved" => Justified(s) /\ InLifetime(s, n + 1)
  BY <1>1 DEF Sound, InLifetime
<1>5. QED
  BY <1>2, <1>3, <1>4 DEF Sound

-----------------------------------------------------------------------------
(* When cleanup runs does not matter.                                      *)

\* Timing out the heartbeats at t1 and again at t2 is timing them out at t2,
\* and what becomes due between t1 and t2 is due no earlier than t1.
LEMMA ExpireTwice ==
    ASSUME NEW q \in Participant, NEW t1 \in Nat, NEW t2 \in Nat, t1 <= t2,
           DeadlineInBounds(q)
    PROVE  LET d1 == ExpireHeartbeat(q, t1).deadline
               d2 == ExpireHeartbeat(q, t2).deadline IN
           /\ ExpireHeartbeat(ExpireHeartbeat(q, t1), t2) = ExpireHeartbeat(q, t2)
           /\ d1 \in Nat \cup {-1} /\ d2 \in Nat \cup {-1}
           /\ d1 # -1 => d2 = d1
           /\ d1 = -1 /\ d2 # -1 => d2 >= t1
<1> DEFINE r1 == ExpireHeartbeat(q, t1)
           r2 == ExpireHeartbeat(q, t2)
<1>1. /\ q.heartbeat \in Nat /\ HeartbeatTimeout \in Nat /\ ReconnectGrace \in Nat
      /\ q.deadline \in Nat \cup {-1}
  BY TimingAssumption DEF Participant, NoTime
<1>2. CASE q.conn = "connected" /\ t1 > q.heartbeat + HeartbeatTimeout
  <2>1. t2 > q.heartbeat + HeartbeatTimeout
    BY <1>1, <1>2
  <2>2. r1 = r2
    BY <1>2, <2>1 DEF ExpireHeartbeat
  <2>3. r1.conn = "disconnected" /\ r1.deadline \in Nat
    BY <1>1, <1>2 DEF ExpireHeartbeat, Participant
  <2>4. ExpireHeartbeat(r1, t2) = r1
    BY <2>3 DEF ExpireHeartbeat
  <2>5. QED
    BY <2>2, <2>3, <2>4
<1>3. CASE ~(q.conn = "connected" /\ t1 > q.heartbeat + HeartbeatTimeout)
  <2>1. r1 = q
    BY <1>3 DEF ExpireHeartbeat
  <2>2. CASE q.conn = "connected" /\ t2 > q.heartbeat + HeartbeatTimeout
    <3>1. q.deadline = -1
      BY <2>2 DEF DeadlineInBounds, NoTime
    <3>2. r2.deadline = q.heartbeat + HeartbeatTimeout + ReconnectGrace
      BY <2>2 DEF ExpireHeartbeat, Participant
    <3>3. t1 <= q.heartbeat + HeartbeatTimeout
      BY <1>1, <1>3, <2>2
    <3> HIDE DEF r1, r2
    <3>4. /\ r2.deadline \in Nat /\ r2.deadline >= t1
      BY <1>1, <3>2, <3>3
    <3>5. QED
      BY <2>1, <3>1, <3>4 DEF r1, r2
  <2>3. CASE ~(q.conn = "connected" /\ t2 > q.heartbeat + HeartbeatTimeout)
    <3>1. r2 = q
      BY <2>3 DEF ExpireHeartbeat
    <3>2. QED
      BY <1>1, <2>1, <3>1
  <2>4. QED
    BY <2>2, <2>3
<1>4. QED
  BY <1>2, <1>3

\* An outcome by timeout depends on the two deadlines alone, and a later
\* look at them, with more of them passed, gives the same earliest one.
LEMMA TimeoutStable ==
    ASSUME NEW e1 \in Session, NEW e2 \in Session,
           NEW t1 \in Nat, NEW t2 \in Nat, t1 <= t2,
           TimedOut(e1, t1) # {},
           \A p \in Side :
               /\ e1.part[p].deadline # -1 => e2.part[p].deadline = e1.part[p].deadline
               /\ e1.part[p].deadline = -1 /\ e2.part[p].deadline # -1
                    => e2.part[p].deadline >= t1
    PROVE  /\ EarliestTimedOut(e2, t2) = EarliestTimedOut(e1, t1)
           /\ TimedOut(e2, t2) # {}
           /\ TimeoutAt(e2, t2) = TimeoutAt(e1, t1)
           /\ TimeoutForfeiter(e2, t2) = TimeoutForfeiter(e1, t1)
<1> DEFINE a1 == e1.part["P1"].deadline
           a2 == e1.part["P2"].deadline
           b1 == e2.part["P1"].deadline
           b2 == e2.part["P2"].deadline
<1>1. /\ a1 \in Nat \cup {-1} /\ a2 \in Nat \cup {-1}
      /\ b1 \in Nat \cup {-1} /\ b2 \in Nat \cup {-1}
  BY DeadlineType DEF Side
<1>2. /\ a1 # -1 => b1 = a1
      /\ a1 = -1 /\ b1 # -1 => b1 >= t1
      /\ a2 # -1 => b2 = a2
      /\ a2 = -1 /\ b2 # -1 => b2 >= t1
  BY DEF Side
<1>3. (a1 # -1 /\ t1 > a1) \/ (a2 # -1 /\ t1 > a2)
  BY DEF TimedOut, NoTime, Side
<1>4. /\ "P1" \in EarliestTimedOut(e1, t1)
            <=> a1 # -1 /\ t1 > a1 /\ (a2 # -1 /\ t1 > a2 => a1 <= a2)
      /\ "P2" \in EarliestTimedOut(e1, t1)
            <=> a2 # -1 /\ t1 > a2 /\ (a1 # -1 /\ t1 > a1 => a2 <= a1)
      /\ EarliestTimedOut(e1, t1) \subseteq {"P1", "P2"}
  BY <1>1 DEF EarliestTimedOut, TimedOut, NoTime, Side
<1>5. /\ "P1" \in EarliestTimedOut(e2, t2)
            <=> b1 # -1 /\ t2 > b1 /\ (b2 # -1 /\ t2 > b2 => b1 <= b2)
      /\ "P2" \in EarliestTimedOut(e2, t2)
            <=> b2 # -1 /\ t2 > b2 /\ (b1 # -1 /\ t2 > b1 => b2 <= b1)
      /\ EarliestTimedOut(e2, t2) \subseteq {"P1", "P2"}
  BY <1>1 DEF EarliestTimedOut, TimedOut, NoTime, Side
<1> HIDE DEF a1, a2, b1, b2
<1>6. "P1" \in EarliestTimedOut(e2, t2) <=> "P1" \in EarliestTimedOut(e1, t1)
  BY <1>1, <1>2, <1>3, <1>4, <1>5
<1>7. "P2" \in EarliestTimedOut(e2, t2) <=> "P2" \in EarliestTimedOut(e1, t1)
  BY <1>1, <1>2, <1>3, <1>4, <1>5
<1>8. EarliestTimedOut(e2, t2) = EarliestTimedOut(e1, t1)
  BY <1>4, <1>5, <1>6, <1>7
<1>9. "P1" \in EarliestTimedOut(e1, t1) \/ "P2" \in EarliestTimedOut(e1, t1)
  BY <1>1, <1>3, <1>4
<1>10. TimedOut(e2, t2) # {}
  BY <1>8, <1>9 DEF EarliestTimedOut
<1>11. /\ "P1" \in EarliestTimedOut(e1, t1) => b1 = a1
       /\ "P2" \in EarliestTimedOut(e1, t1) => b2 = a2
  BY <1>2, <1>4
<1>12. TimeoutAt(e2, t2) = TimeoutAt(e1, t1)
  BY <1>8, <1>9, <1>11 DEF TimeoutAt, a1, a2, b1, b2
<1>13. TimeoutForfeiter(e2, t2) = TimeoutForfeiter(e1, t1)
  BY <1>8 DEF TimeoutForfeiter
<1>14. QED
  BY <1>8, <1>10, <1>12, <1>13

\* Sweeping a sound session at t1 and again at t2 has the outcome of
\* sweeping it at t2 alone.
LEMMA CleanupTwice ==
    ASSUME NEW s \in Session, NEW t1 \in Nat, NEW t2 \in Nat, t1 <= t2,
           \A p \in Side : DeadlineInBounds(s.part[p])
    PROVE  Outcome(CleanupSession(CleanupSession(s, t1), t2))
             = Outcome(CleanupSession(s, t2))
<1> DEFINE e1 == ExpireHeartbeats(s, t1)
           e2 == ExpireHeartbeats(s, t2)
<1>1. CASE s.status # "active"
  BY <1>1 DEF CleanupSession
<1>2. CASE s.status = "active"
  <2>1. /\ e1 \in Session /\ e2 \in Session
        /\ e1 = [s EXCEPT !.part = [p \in Side |-> ExpireHeartbeat(s.part[p], t1)]]
        /\ e2 = [s EXCEPT !.part = [p \in Side |-> ExpireHeartbeat(s.part[p], t2)]]
    BY ExpireHeartbeatsType
  <2>2. /\ e1.status = "active" /\ e2.status = "active"
        /\ e1.expiresAt = s.expiresAt /\ e2.expiresAt = s.expiresAt
        /\ s.expiresAt \in Nat
        /\ e1.part = [p \in Side |-> ExpireHeartbeat(s.part[p], t1)]
        /\ e2.part = [p \in Side |-> ExpireHeartbeat(s.part[p], t2)]
    BY <1>2, <2>1 DEF Session
  <2>3. ASSUME NEW p \in Side
        PROVE  /\ ExpireHeartbeat(e1.part[p], t2) = e2.part[p]
               /\ e1.part[p].deadline # -1 => e2.part[p].deadline = e1.part[p].deadline
               /\ e1.part[p].deadline = -1 /\ e2.part[p].deadline # -1
                    => e2.part[p].deadline >= t1
    <3>1. s.part[p] \in Participant /\ DeadlineInBounds(s.part[p])
      BY DeadlineType
    <3>2. QED
      BY <2>2, <3>1, ExpireTwice
  <2>4. CleanupSession(s, t1) = Judge(e1, t1) /\ CleanupSession(s, t2) = Judge(e2, t2)
    BY <1>2 DEF CleanupSession
  <2>5. /\ SessionExpired(e1, t1) => SessionExpired(e2, t2)
        /\ SessionExpired(e1, t1) <=> t1 > s.expiresAt
        /\ SessionExpired(e2, t2) <=> t2 > s.expiresAt
    BY <2>2 DEF SessionExpired
  <2> HIDE DEF e1, e2
  <2>a. /\ e1 \in Session /\ e2 \in Session
        /\ e1.status = "active" /\ e2.status = "active"
    BY <2>1, <2>2
  <2>b. \A p \in Side :
            /\ e1.part[p].deadline # -1 => e2.part[p].deadline = e1.part[p].deadline
            /\ e1.part[p].deadline = -1 /\ e2.part[p].deadline # -1
                 => e2.part[p].deadline >= t1
    BY <2>3
  <2>c. /\ e1.expiresAt = s.expiresAt /\ e2.expiresAt = s.expiresAt
        /\ s.expiresAt \in Nat
    BY <2>2
  <2>6. CASE ReconnectTimeoutWins(e1, t1)
    <3> DEFINE at == TimeoutAt(e1, t1)
               f == TimeoutForfeiter(e1, t1)
               r == Resolve(e1, at, "reconnect_timeout", f)
    <3>1. /\ TimedOut(e1, t1) # {}
          /\ t1 > s.expiresAt => at < s.expiresAt
      BY <2>2, <2>5, <2>6 DEF ReconnectTimeoutWins
    <3>2. at \in Nat /\ at < t1 /\ f \in Side \cup {"none"}
      BY <2>1, <3>1, TimeoutAtType, ForfeiterType
    <3>3. /\ TimedOut(e2, t2) # {}
          /\ TimeoutAt(e2, t2) = at
          /\ TimeoutForfeiter(e2, t2) = f
      BY <2>a, <2>b, <3>1, TimeoutStable
    <3> HIDE DEF at, f
    <3>4. at < s.expiresAt \/ ~(t2 > s.expiresAt)
      BY <2>2, <3>1, <3>2
    <3>5. ReconnectTimeoutWins(e2, t2)
      BY <2>2, <2>5, <3>3, <3>4 DEF ReconnectTimeoutWins
    <3>6. CleanupSession(s, t1) = r
      BY <2>4, <2>6 DEF Judge, at, f
    <3>7. CleanupSession(s, t2) = Resolve(e2, at, "reconnect_timeout", f)
      BY <2>4, <3>3, <3>5 DEF Judge
    <3> "reconnect_timeout" \in Reason
      BY DEF Reason
    <3>8. r.status = "resolved" /\ Outcome(r) = <<"resolved", "reconnect_timeout", f, at>>
      BY <2>a, <3>2, ResolveOutcome
    <3>9. Outcome(CleanupSession(s, t2)) = <<"resolved", "reconnect_timeout", f, at>>
      BY <2>a, <3>2, <3>7, ResolveOutcome
    <3>10. CleanupSession(r, t2) = r
      BY <3>8 DEF CleanupSession
    <3>11. QED
      BY <3>6, <3>8, <3>9, <3>10
  <2>7. CASE ~ReconnectTimeoutWins(e1, t1) /\ SessionExpired(e1, t1)
    <3> DEFINE r == Resolve(e1, e1.expiresAt, "session_expired", "none")
    <3>1. t1 > s.expiresAt /\ t2 > s.expiresAt
      BY <2>2, <2>5, <2>7
    <3>2. TimedOut(e1, t1) = {} \/ ~(TimeoutAt(e1, t1) < s.expiresAt)
      BY <2>2, <2>5, <2>7 DEF ReconnectTimeoutWins
    <3>3. ASSUME NEW p \in TimedOut(e2, t2)
          PROVE  e2.part[p].deadline >= s.expiresAt
      <4>1. /\ p \in Side /\ e2.part[p].deadline \in Nat \cup {-1}
            /\ e1.part[p].deadline \in Nat \cup {-1}
            /\ e2.part[p].deadline # -1
        BY <2>1, DeadlineType DEF TimedOut, NoTime
      <4>2. CASE e1.part[p].deadline = -1
        BY <2>2, <2>3, <3>1, <4>1, <4>2
      <4>3. CASE e1.part[p].deadline # -1 /\ p \in TimedOut(e1, t1)
        <5>1. /\ TimeoutAt(e1, t1) \in Nat
              /\ TimeoutAt(e1, t1) <= e1.part[p].deadline
          BY <2>1, <4>3, TimeoutAtType
        <5>2. QED
          BY <2>2, <2>3, <3>2, <4>1, <4>3, <5>1
      <4>4. CASE e1.part[p].deadline # -1 /\ p \notin TimedOut(e1, t1)
        <5>1. e1.part[p].deadline >= t1
          BY <4>1, <4>4 DEF TimedOut, NoTime
        <5>2. QED
          BY <2>2, <2>3, <3>1, <4>1, <4>4, <5>1
      <4>5. QED
        BY <4>2, <4>3, <4>4
    <3>4. ~ReconnectTimeoutWins(e2, t2)
      <4> SUFFICES ASSUME ReconnectTimeoutWins(e2, t2) PROVE FALSE
        OBVIOUS
      <4>1. TimedOut(e2, t2) # {} /\ TimeoutAt(e2, t2) < s.expiresAt
        BY <2>2, <2>5, <3>1 DEF ReconnectTimeoutWins
      <4>2. PICK p \in TimedOut(e2, t2) : TimeoutAt(e2, t2) = e2.part[p].deadline
        BY <2>1, <4>1, TimeoutAtType
      <4>3. e2.part[p].deadline \in Nat \cup {-1}
        BY <2>1, <4>2, DeadlineType DEF TimedOut
      <4>4. QED
        BY <2>2, <3>3, <4>1, <4>2, <4>3
    <3>5. CleanupSession(s, t1) = r
      BY <2>4, <2>7 DEF Judge
    <3>6. CleanupSession(s, t2) = Resolve(e2, e2.expiresAt, "session_expired", "none")
      BY <2>4, <2>5, <2>7, <3>4 DEF Judge
    <3> "session_expired" \in Reason /\ "none" \in Side \cup {"none"}
      BY DEF Reason
    <3>7. /\ r.status = "resolved"
          /\ Outcome(r) = <<"resolved", "session_expired", "none", s.expiresAt>>
      BY <2>a, <2>c, ResolveOutcome
    <3>8. Outcome(CleanupSession(s, t2))
            = <<"resolved", "session_expired", "none", s.expiresAt>>
      BY <2>a, <2>c, <3>6, ResolveOutcome
    <3>9. CleanupSession(r, t2) = r
      BY <3>7 DEF CleanupSession
    <3>10. QED
      BY <3>5, <3>7, <3>8, <3>9
  <2>8. CASE ~ReconnectTimeoutWins(e1, t1) /\ ~SessionExpired(e1, t1)
    <3>1. CleanupSession(s, t1) = e1
      BY <2>4, <2>8 DEF Judge
    <3>2. [p \in Side |-> ExpireHeartbeat(e1.part[p], t2)] = e2.part
      BY <2>2, <2>3
    <3>3. ExpireHeartbeats(e1, t2) = [e1 EXCEPT !.part = e2.part]
      BY <3>2 DEF ExpireHeartbeats
    <3>4. [e1 EXCEPT !.part = e2.part] = e2
      BY <2>1, <2>2 DEF Session
    <3>5. CleanupSession(e1, t2) = Judge(e2, t2)
      BY <2>2, <3>3, <3>4 DEF CleanupSession
    <3>6. QED
      BY <2>4, <3>1, <3>5
  <2>9. QED
    BY <2>6, <2>7, <2>8
<1>3. QED
  BY <1>1, <1>2

=============================================================================
