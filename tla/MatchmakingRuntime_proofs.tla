--------------------- MODULE MatchmakingRuntime_proofs ---------------------
(***************************************************************************)
(* The fence token protects the stored session: for any number of API      *)
(* processes, crashes, lost locks and failed saves, and every timing.  And *)
(* one process without faults stores a decision only together with the     *)
(* session that ended by it.                                               *)
(***************************************************************************)
EXTENDS MCMatchmakingRuntime, SessionRules_proofs

-----------------------------------------------------------------------------
(* Which record may be stored after which.                                 *)

Record == Session \cup {NoSession}

Follows(a, b) ==
    \/ b = NoSession
    \/ /\ a # NoSession
       /\ a.status = "resolved" => Outcome(b) = Outcome(a)
       /\ \A p \in Side : a.part[p].used \subseteq b.part[p].used

Answered(s, reconnects) ==
    s # NoSession => \A r \in reconnects : r[2] \in s.part[r[1]].used

\* Every record follows itself.
LEMMA FollowsSelf == ASSUME NEW a PROVE Follows(a, a)
BY DEF Follows

\* What follows a follower follows.
LEMMA FollowsTrans ==
    ASSUME NEW a, NEW b, NEW c, Follows(a, b), Follows(b, c)
    PROVE  Follows(a, c)
<1>1. CASE c = NoSession
  BY <1>1 DEF Follows
<1>2. CASE c # NoSession
  <2>1. b # NoSession /\ a # NoSession
    BY <1>2 DEF Follows
  <2>2. a.status = "resolved" => Outcome(b) = Outcome(a) /\ b.status = "resolved"
    BY <2>1 DEF Follows, Outcome
  <2>3. a.status = "resolved" => Outcome(c) = Outcome(a)
    BY <1>2, <2>2 DEF Follows
  <2>4. \A p \in Side : a.part[p].used \subseteq c.part[p].used
    BY <1>2, <2>1 DEF Follows
  <2>5. QED
    BY <2>1, <2>3, <2>4 DEF Follows
<1>3. QED
  BY <1>1, <1>2

\* An active session is followed by every record with as many used attempts.
LEMMA FollowsActive ==
    ASSUME NEW a, NEW b, a # NoSession, a.status = "active",
           \A p \in Side : a.part[p].used \subseteq b.part[p].used
    PROVE  Follows(a, b)
BY DEF Follows

\* Reconnects answered before are still recorded in what follows.
LEMMA AnsweredFollows ==
    ASSUME NEW a, NEW b, NEW R \in SUBSET Reconnect, Follows(a, b), Answered(a, R)
    PROVE  Answered(b, R)
<1> SUFFICES ASSUME b # NoSession, NEW r \in R PROVE r[2] \in b.part[r[1]].used
  BY DEF Answered
<1>1. r[1] \in Side
  BY DEF Reconnect
<1>2. a # NoSession /\ a.part[r[1]].used \subseteq b.part[r[1]].used
  BY <1>1 DEF Follows
<1>3. r[2] \in a.part[r[1]].used
  BY <1>2 DEF Answered
<1>4. QED
  BY <1>2, <1>3

-----------------------------------------------------------------------------
(* cleanup and the handlers lead to records that follow.                   *)

\* Resolving an active session keeps the used attempts.
LEMMA ResolveFollows ==
    ASSUME NEW s \in Session, s # NoSession, s.status = "active",
           NEW at \in Nat, NEW r \in Reason, NEW f \in Side \cup {"none"}
    PROVE  Resolve(s, at, r, f) \in Session /\ Follows(s, Resolve(s, at, r, f))
<1>1. Resolve(s, at, r, f).part = s.part /\ Resolve(s, at, r, f) \in Session
  BY ResolveFields
<1>2. QED
  BY <1>1, FollowsActive

\* Timing out heartbeats keeps the used attempts.
LEMMA ExpireHeartbeatsUsed ==
    ASSUME NEW s \in Session, NEW n \in Nat
    PROVE  LET e == ExpireHeartbeats(s, n) IN
           /\ e \in Session /\ e.status = s.status
           /\ \A p \in Side : e.part[p].used = s.part[p].used
<1>1. ExpireHeartbeats(s, n) \in Session
  BY ExpireHeartbeatsType
<1>2. /\ ExpireHeartbeats(s, n).status = s.status
      /\ \A p \in Side : ExpireHeartbeats(s, n).part[p] = ExpireHeartbeat(s.part[p], n)
  BY DEF ExpireHeartbeats, Session
<1>3. ASSUME NEW p \in Side PROVE ExpireHeartbeat(s.part[p], n).used = s.part[p].used
  <2>1. s.part[p] \in Participant
    BY DeadlineType
  <2>2. QED
    BY <2>1 DEF ExpireHeartbeat, Participant
<1>4. QED
  BY <1>1, <1>2, <1>3

\* cleanup's verdict on an active session keeps the used attempts.
LEMMA JudgeUsed ==
    ASSUME NEW e \in Session, NEW n \in Nat, e.status = "active"
    PROVE  Judge(e, n).part = e.part
<1>1. CASE ReconnectTimeoutWins(e, n)
  <2>1. TimedOut(e, n) # {}
    BY <1>1 DEF ReconnectTimeoutWins
  <2>2. TimeoutAt(e, n) \in Nat
    BY <2>1, TimeoutAtType
  <2>3. "reconnect_timeout" \in Reason
    BY DEF Reason
  <2>4. Judge(e, n) = Resolve(e, TimeoutAt(e, n), "reconnect_timeout", TimeoutForfeiter(e, n))
    BY <1>1 DEF Judge
  <2>5. QED
    BY <2>2, <2>3, <2>4, ForfeiterType, ResolveFields
<1>2. CASE ~ReconnectTimeoutWins(e, n) /\ SessionExpired(e, n)
  <2>1. e.expiresAt \in Nat /\ "session_expired" \in Reason /\ "none" \in Side \cup {"none"}
    BY DEF Session, Reason
  <2>2. Judge(e, n) = Resolve(e, e.expiresAt, "session_expired", "none")
    BY <1>2 DEF Judge
  <2>3. QED
    BY <2>1, <2>2, ResolveFields
<1>3. CASE ~ReconnectTimeoutWins(e, n) /\ ~SessionExpired(e, n)
  BY <1>3 DEF Judge
<1>4. QED
  BY <1>1, <1>2, <1>3

\* The record cleanup leaves follows the one it found.
LEMMA SweepFollows ==
    ASSUME NEW s \in Record, NEW n \in Nat
    PROVE  Sweep(s, n) \in Record /\ Follows(s, Sweep(s, n))
<1>1. CASE s = NoSession \/ Removable(s, n)
  BY <1>1 DEF Sweep, Follows, Record
<1>2. CASE s # NoSession /\ ~Removable(s, n)
  <2>1. s \in Session /\ Sweep(s, n) = CleanupSession(s, n)
    BY <1>2 DEF Record, Sweep
  <2>2. CleanupSession(s, n) \in Session
    BY <2>1, CleanupType
  <2>3. CASE s.status # "active"
    <3>1. CleanupSession(s, n) = s
      BY <2>3 DEF CleanupSession
    <3>2. QED
      BY <2>1, <3>1, FollowsSelf DEF Record
  <2>4. CASE s.status = "active"
    <3> DEFINE e == ExpireHeartbeats(s, n)
    <3>1. /\ e \in Session /\ e.status = "active"
          /\ \A p \in Side : e.part[p].used = s.part[p].used
      BY <2>1, <2>4, ExpireHeartbeatsUsed
    <3>2. CleanupSession(s, n) = Judge(e, n)
      BY <2>4 DEF CleanupSession
    <3> HIDE DEF e
    <3>3. CleanupSession(s, n).part = e.part
      BY <3>1, <3>2, JudgeUsed
    <3>4. Follows(s, CleanupSession(s, n))
      BY <1>2, <2>4, <3>1, <3>3, FollowsActive
    <3>5. QED
      BY <2>1, <2>2, <3>4 DEF Record
  <2>5. QED
    BY <2>3, <2>4
<1>3. QED
  BY <1>1, <1>2

\* Replacing a player of an active session by one with at least its used
\* attempts leads to a record that follows.
LEMMA ReplaceFollows ==
    ASSUME NEW s \in Session, s # NoSession, s.status = "active", NEW p \in Side,
           NEW q \in Participant, s.part[p].used \subseteq q.used
    PROVE  /\ [s EXCEPT !.part[p] = q] \in Session
           /\ Follows(s, [s EXCEPT !.part[p] = q])
           /\ [s EXCEPT !.part[p] = q].status = "active"
           /\ [s EXCEPT !.part[p] = q].part[p] = q
<1> DEFINE t == [s EXCEPT !.part[p] = q]
<1>1. t \in Session
  BY ReplaceParticipant
<1>2. /\ t.status = "active"
      /\ \A x \in Side : t.part[x] = IF x = p THEN q ELSE s.part[x]
  BY DEF Session
<1> HIDE DEF t
<1>3. Follows(s, t)
  BY <1>2, FollowsActive
<1>4. QED
  BY <1>1, <1>2, <1>3 DEF t

\* A call of the queue service leads to a record that follows.
LEMMA CalledFollows ==
    ASSUME NEW s \in Session, s # NoSession, NEW n \in Nat, NEW p \in Side,
           NEW c \in Called(s, p, n)
    PROVE  c \in Session /\ Follows(s, c)
<1>1. ASSUME CanMarkDisconnected(s, p), c = MarkDisconnected(s, p, n)
      PROVE  c \in Session /\ Follows(s, c)
  <2> DEFINE q == [s.part[p] EXCEPT !.conn = "disconnected",
                                    !.deadline = n + ReconnectGrace]
  <2>1. s.part[p] \in Participant /\ n + ReconnectGrace \in Nat
    BY DeadlineType, TimingAssumption
  <2>2. q \in Participant /\ q.used = s.part[p].used
    BY <2>1 DEF Participant
  <2>3. c = [s EXCEPT !.part[p] = q] /\ s.status = "active"
    BY <1>1 DEF MarkDisconnected, CanMarkDisconnected
  <2> HIDE DEF q
  <2>4. QED
    BY <2>2, <2>3, ReplaceFollows
<1>2. ASSUME CanHeartbeat(s, p, n), c = HeartbeatSession(s, p, n)
      PROVE  c \in Session /\ Follows(s, c)
  <2> DEFINE q == [s.part[p] EXCEPT !.heartbeat = n]
  <2>1. s.part[p] \in Participant
    BY DeadlineType
  <2>2. q \in Participant /\ q.used = s.part[p].used
    BY <2>1 DEF Participant
  <2>3. c = [s EXCEPT !.part[p] = q] /\ s.status = "active"
    BY <1>2 DEF HeartbeatSession, CanHeartbeat
  <2> HIDE DEF q
  <2>4. QED
    BY <2>2, <2>3, ReplaceFollows
<1>3. ASSUME CanComplete(s, n), c = CompleteSession(s, p, n)
      PROVE  c \in Session /\ Follows(s, c)
  <2> DEFINE q == [s.part[p] EXCEPT !.attested = TRUE]
             t == [s EXCEPT !.part[p] = q]
  <2>1. s.part[p] \in Participant /\ s.status = "active"
    BY <1>3, DeadlineType DEF CanComplete
  <2>2. q \in Participant /\ q.used = s.part[p].used
    BY <2>1 DEF Participant
  <2>3. c = t \/ c = Resolve(t, n, "completed", "none")
    BY <1>3 DEF CompleteSession
  <2> HIDE DEF q
  <2>4. t \in Session /\ Follows(s, t) /\ t.status = "active"
    BY <2>1, <2>2, ReplaceFollows
  <2> HIDE DEF t
  <2>5. "completed" \in Reason /\ "none" \in Side \cup {"none"}
    BY DEF Reason
  <2>6. CASE c = t
    BY <2>4, <2>6
  <2>7. CASE c = Resolve(t, n, "completed", "none")
    <3>1. c \in Session /\ c.part = t.part
      BY <2>4, <2>5, <2>7, ResolveFields
    <3>2. CASE t = NoSession
      <4>1. \A x \in Side : s.part[x].used \subseteq c.part[x].used
        <5>1. s.part[p].used = q.used /\ t.part[p] = q
          BY <2>1, <2>2, ReplaceFollows DEF t
        <5>2. \A x \in Side : x # p => t.part[x] = s.part[x]
          BY <2>2, <2>1 DEF t, Session
        <5>3. QED
          BY <3>1, <5>1, <5>2
      <4>2. QED
        BY <2>1, <3>1, <4>1, FollowsActive
    <3>3. CASE t # NoSession
      <4>1. Follows(t, c)
        BY <2>4, <2>5, <2>7, <3>3, ResolveFollows
      <4>2. QED
        BY <2>4, <3>1, <4>1, FollowsTrans
    <3>4. QED
      BY <3>2, <3>3
  <2>8. QED
    BY <2>3, <2>6, <2>7
<1>4. ASSUME s.status = "active", c = LeaveSession(s, p, n)
      PROVE  c \in Session /\ Follows(s, c)
  <2>1. "peer_left" \in Reason
    BY DEF Reason
  <2>2. c = Resolve(s, n, "peer_left", p)
    BY <1>4 DEF LeaveSession
  <2>3. QED
    BY <1>4, <2>1, <2>2, ResolveFollows
<1>5. \/ CanMarkDisconnected(s, p) /\ c = MarkDisconnected(s, p, n)
      \/ CanHeartbeat(s, p, n) /\ c = HeartbeatSession(s, p, n)
      \/ CanComplete(s, n) /\ c = CompleteSession(s, p, n)
      \/ s.status = "active" /\ c = LeaveSession(s, p, n)
  BY DEF Called
<1>6. QED
  BY <1>1, <1>2, <1>3, <1>4, <1>5

\* An accepted reconnect leads to a record that follows and has its attempt.
LEMMA ReconnectFollows ==
    ASSUME NEW s \in Session, s # NoSession, NEW n \in Nat,
           NEW p \in Side, NEW a \in AttemptId, CanReconnect(s, p, a, n)
    PROVE  LET c == ReconnectSession(s, p, a, n) IN
           /\ c \in Session /\ Follows(s, c)
           /\ Answered(c, {<<p, a>>})
<1> DEFINE q == [s.part[p] EXCEPT !.conn = "connected", !.heartbeat = n,
                                  !.deadline = NoTime,
                                  !.used = s.part[p].used \cup {a}]
           c == ReconnectSession(s, p, a, n)
<1>1. s.part[p] \in Participant /\ s.status = "active"
  BY DeadlineType DEF CanReconnect
<1>2. s.part[p].used \cup {a} \in SUBSET AttemptId
  BY <1>1 DEF Participant
<1>3. q \in Participant /\ q.used = s.part[p].used \cup {a}
  BY <1>1, <1>2 DEF Participant
<1>4. c = [s EXCEPT !.part[p] = q]
  BY DEF ReconnectSession
<1> HIDE DEF q, c
<1>5. c \in Session /\ Follows(s, c) /\ c.part[p] = q
  BY <1>1, <1>3, <1>4, ReplaceFollows
<1>6. Answered(c, {<<p, a>>})
  BY <1>3, <1>5 DEF Answered
<1>7. QED
  BY <1>5, <1>6 DEF c

-----------------------------------------------------------------------------
(* The inductive invariant.  A lease that still owns the fence works on    *)
(* records that follow the stored one; a lease that lost it may hold       *)
(* anything, and cannot commit.                                            *)

Types ==
    /\ now \in Nat
    /\ snapshot \in Record
    /\ memory \in [Process -> Record]
    /\ phase \in [Process -> {"idle", "locked", "serving", "saving",
                              "finalizing", "closing"}]
    /\ DOMAIN captured = Process
    /\ \A i \in Process : /\ captured[i].session \in Record
                          /\ captured[i].answer \in SUBSET Reconnect
    /\ acked \in SUBSET Reconnect

Working(i) == phase[i] \in {"serving", "saving", "finalizing", "closing"}
Writing(i) == phase[i] \in {"saving", "closing"}

LeaseInv(i) ==
    /\ fence = i /\ Working(i) => Follows(snapshot, memory[i])
    /\ fence = i /\ Writing(i) => Follows(snapshot, captured[i].session)
    /\ Writing(i) => /\ Follows(captured[i].session, memory[i])
                     /\ Answered(captured[i].session, captured[i].answer)

IInv ==
    /\ Types
    /\ \A i \in Process : LeaseInv(i)
    /\ Answered(snapshot, acked)

\* The first states satisfy the invariant.
LEMMA InitIInv == Init => IInv
<1> SUFFICES ASSUME Init PROVE IInv
  OBVIOUS
<1>1. 0 + SessionTtl \in Nat /\ 0 + TokenTtl \in Nat
  BY TimingAssumption
<1>2. NewParticipant(0) \in Participant
  BY DEF NewParticipant, Participant, NoTime
<1>3. [p \in Side |-> NewParticipant(0)] \in [Side -> Participant]
  BY <1>2
<1>4. NewSession(0) \in Session
  BY <1>1, <1>3 DEF NewSession, Session, NoTime
<1>5. Types
  BY <1>4 DEF Init, Types, Record, NoCapture
<1>6. \A i \in Process : LeaseInv(i)
  BY DEF Init, LeaseInv, Working, Writing
<1>7. Answered(snapshot, acked)
  BY DEF Init, Answered
<1>8. QED
  BY <1>5, <1>6, <1>7 DEF IInv

-----------------------------------------------------------------------------
(* Every step keeps the invariant.                                         *)

\* Capturing memory for a transaction, when memory came to follow what it
\* was and the reconnects to answer are recorded in it.
LEMMA CaptureStep ==
    ASSUME IInv, NEW i \in Process, NEW record \in Record, NEW answer, NEW next,
           Working(i), Follows(memory[i], record),
           answer \in SUBSET Reconnect, Answered(record, answer),
           next \in {"saving", "closing"},
           CaptureAfter(i, record, answer, next),
           UNCHANGED <<now, stored, lock, persisted, acked, faults>>
    PROVE  IInv'
<1> DEFINE kept == Sweep(record, now)
<1>1. kept \in Record /\ Follows(record, kept)
  BY SweepFollows DEF IInv, Types
<1>2. Follows(memory[i], kept) /\ Answered(kept, answer) /\ Follows(kept, kept)
  BY <1>1, FollowsTrans, FollowsSelf, AnsweredFollows
<1>3. /\ memory' = [memory EXCEPT ![i] = kept]
      /\ phase' = [phase EXCEPT ![i] = next]
      /\ \E d : captured' = [captured EXCEPT ![i] =
                    [session |-> kept, decision |-> d, answer |-> answer]]
  BY DEF CaptureAfter
<1> HIDE DEF kept
<1>4. /\ captured'[i].session = kept /\ captured'[i].answer = answer
      /\ DOMAIN captured' = Process
      /\ \A j \in Process : j # i => captured'[j] = captured[j]
  BY <1>3 DEF IInv, Types
<1>5. /\ UNCHANGED <<now, snapshot, fence, acked>>
  BY DEF stored, lock
<1>6. Types'
  <2>1. now' \in Nat /\ snapshot' \in Record /\ acked' \in SUBSET Reconnect
    BY <1>5 DEF IInv, Types
  <2>2. memory' \in [Process -> Record]
    BY <1>1, <1>3 DEF IInv, Types
  <2>3. phase' \in [Process -> {"idle", "locked", "serving", "saving",
                                "finalizing", "closing"}]
    BY <1>3 DEF IInv, Types
  <2>4. \A j \in Process : /\ captured'[j].session \in Record
                           /\ captured'[j].answer \in SUBSET Reconnect
    BY <1>1, <1>4 DEF IInv, Types
  <2>5. QED
    BY <2>1, <2>2, <2>3, <2>4, <1>4 DEF Types
<1>7. ASSUME NEW j \in Process PROVE LeaseInv(j)'
  <2>1. LeaseInv(j)
    BY DEF IInv
  <2>2. CASE j # i
    <3>1. memory'[j] = memory[j] /\ phase'[j] = phase[j] /\ captured'[j] = captured[j]
      BY <1>3, <1>4, <2>2 DEF IInv, Types
    <3>2. QED
      BY <1>5, <2>1, <3>1 DEF LeaseInv, Working, Writing
  <2>3. CASE j = i
    <3>1. memory'[i] = kept /\ phase'[i] = next
      BY <1>3 DEF IInv, Types
    <3>2. fence = i => Follows(snapshot, memory[i])
      BY <2>1, <2>3 DEF LeaseInv
    <3>3. fence = i => Follows(snapshot, kept)
      BY <1>2, <3>2, FollowsTrans
    <3>4. QED
      BY <1>2, <1>4, <1>5, <2>3, <3>1, <3>3 DEF LeaseInv
  <2>4. QED
    BY <2>2, <2>3
<1>8. Answered(snapshot, acked)'
  BY <1>5 DEF IInv
<1>9. QED
  BY <1>6, <1>7, <1>8 DEF IInv

\* A transaction that commits stores a record that follows the stored one.
LEMMA CommitStep ==
    ASSUME IInv, NEW i \in Process, Writing(i), Commit(i)
    PROVE  /\ snapshot' = captured[i].session /\ fence = i
           /\ snapshot' \in Record
           /\ Follows(snapshot, snapshot')
           /\ Follows(snapshot', memory[i])
           /\ Answered(snapshot', acked \cup captured[i].answer)
<1>1. /\ fence = i /\ snapshot' = captured[i].session
      /\ captured[i].session \in Record
  BY DEF Commit, CanCommit, IInv, Types
<1>2. /\ Follows(snapshot, captured[i].session)
      /\ Follows(captured[i].session, memory[i])
      /\ Answered(captured[i].session, captured[i].answer)
  BY <1>1 DEF IInv, LeaseInv
<1>3. Answered(captured[i].session, acked)
  BY <1>2, AnsweredFollows DEF IInv, Types
<1>4. Answered(captured[i].session, acked \cup captured[i].answer)
  BY <1>2, <1>3 DEF Answered
<1>5. QED
  BY <1>1, <1>2, <1>4

\* Both ends of a transaction: the stored session changes only by a commit.
LEMMA TransactionEnds ==
    ASSUME IInv, NEW i \in Process, Save(i) \/ Finalize(i)
    PROVE  /\ Writing(i)
           /\ UNCHANGED <<now, fence, memory>>
           /\ Commit(i) \/ UNCHANGED snapshot
           /\ acked' = acked \/ (Commit(i) /\ acked' = acked \cup captured[i].answer)
           /\ phase' \in {[phase EXCEPT ![i] = "finalizing"], [phase EXCEPT ![i] = "idle"]}
           /\ captured' = [captured EXCEPT ![i] = NoCapture]
<1>1. CASE Save(i)
  BY <1>1 DEF Save, RollBack, Writing, stored, lock
<1>2. CASE Finalize(i)
  BY <1>2 DEF Finalize, RollBack, Leave, Writing, stored
<1>3. QED
  BY <1>1, <1>2

\* The end of a transaction keeps the invariant.
LEMMA TransactionStep ==
    ASSUME IInv, NEW i \in Process, Save(i) \/ Finalize(i)
    PROVE  IInv'
<1>1. /\ Writing(i)
      /\ UNCHANGED <<now, fence, memory>>
      /\ Commit(i) \/ UNCHANGED snapshot
      /\ acked' = acked \/ (Commit(i) /\ acked' = acked \cup captured[i].answer)
      /\ phase' \in {[phase EXCEPT ![i] = "finalizing"], [phase EXCEPT ![i] = "idle"]}
      /\ captured' = [captured EXCEPT ![i] = NoCapture]
  BY TransactionEnds
<1>2. /\ DOMAIN captured' = Process
      /\ captured'[i] = NoCapture
      /\ \A j \in Process : j # i => captured'[j] = captured[j] /\ phase'[j] = phase[j]
      /\ phase'[i] \in {"finalizing", "idle"}
      /\ phase' \in [Process -> {"idle", "locked", "serving", "saving",
                                 "finalizing", "closing"}]
  BY <1>1 DEF IInv, Types
<1>3. captured[i].answer \in SUBSET Reconnect
  BY DEF IInv, Types
<1>4. snapshot' \in Record /\ acked' \in SUBSET Reconnect
  BY <1>1, <1>3, CommitStep DEF IInv, Types
<1>5. Types'
  <2>1. NoCapture.session \in Record /\ NoCapture.answer \in SUBSET Reconnect
    BY DEF NoCapture, Record
  <2>2. \A j \in Process : /\ captured'[j].session \in Record
                           /\ captured'[j].answer \in SUBSET Reconnect
    BY <1>2, <2>1 DEF IInv, Types
  <2>3. now' \in Nat /\ memory' \in [Process -> Record]
    BY <1>1 DEF IInv, Types
  <2>4. QED
    BY <1>2, <1>4, <2>2, <2>3 DEF Types
<1>6. ASSUME NEW j \in Process PROVE LeaseInv(j)'
  <2>1. LeaseInv(j) /\ LeaseInv(i)
    BY DEF IInv
  <2>2. CASE j # i
    <3>1. fence = j => UNCHANGED snapshot
      BY <1>1, <2>2, CommitStep
    <3>2. captured'[j] = captured[j] /\ phase'[j] = phase[j]
      BY <1>2, <2>2
    <3>3. QED
      BY <1>1, <2>1, <3>1, <3>2 DEF LeaseInv, Working, Writing
  <2>3. CASE j = i
    <3>1. ~Writing(i)'
      BY <1>2 DEF Writing
    <3>2. fence = i => Follows(snapshot', memory[i])
      <4>1. CASE Commit(i)
        BY <1>1, <4>1, CommitStep
      <4>2. CASE UNCHANGED snapshot
        BY <1>1, <2>1, <4>2 DEF LeaseInv, Working, Writing
      <4>3. QED
        BY <1>1, <4>1, <4>2
    <3>3. QED
      BY <1>1, <2>3, <3>1, <3>2 DEF LeaseInv
  <2>4. QED
    BY <2>2, <2>3
<1>7. Answered(snapshot', acked')
  <2>1. CASE Commit(i)
    <3>1. Answered(snapshot', acked \cup captured[i].answer)
      BY <1>1, <2>1, CommitStep
    <3>2. acked' \subseteq acked \cup captured[i].answer
      BY <1>1
    <3>3. QED
      BY <3>1, <3>2 DEF Answered
  <2>2. CASE ~Commit(i)
    BY <1>1, <2>2 DEF IInv
  <2>3. QED
    BY <2>1, <2>2
<1>8. QED
  BY <1>5, <1>6, <1>7 DEF IInv

\* A step that touches only one process's memory and phase, leading to
\* memory that follows or to a phase without a claim on it.
LEMMA LocalStep ==
    ASSUME IInv, NEW i \in Process,
           UNCHANGED <<snapshot, acked>>, now' \in Nat,
           memory' \in [Process -> Record],
           phase' \in [Process -> {"idle", "locked", "serving", "saving",
                                   "finalizing", "closing"}],
           \A j \in Process : j # i =>
               /\ memory'[j] = memory[j] /\ phase'[j] = phase[j]
               /\ captured'[j] = captured[j]
               /\ fence' = j => fence = j,
           DOMAIN captured' = Process,
           captured'[i] \in {captured[i], NoCapture},
           LeaseInv(i)'
    PROVE  IInv'
<1>1. \A j \in Process : /\ captured'[j].session \in Record
                         /\ captured'[j].answer \in SUBSET Reconnect
  <2>1. NoCapture.session \in Record /\ NoCapture.answer \in SUBSET Reconnect
    BY DEF NoCapture, Record
  <2>2. QED
    BY <2>1 DEF IInv, Types
<1>2. Types'
  BY <1>1 DEF IInv, Types
<1>3. ASSUME NEW j \in Process, j # i PROVE LeaseInv(j)'
  <2>1. LeaseInv(j)
    BY DEF IInv
  <2>2. QED
    BY <1>3, <2>1 DEF LeaseInv, Working, Writing
<1>4. \A j \in Process : LeaseInv(j)'
  BY <1>3
<1>5. Answered(snapshot, acked)'
  BY DEF IInv
<1>6. QED
  BY <1>2, <1>4, <1>5 DEF IInv

\* Every step of the processes keeps the invariant.
LEMMA NextIInv ==
    ASSUME NEW C \in SUBSET Side, IInv, [Steps(C)]_vars
    PROVE  IInv'
<1> USE DEF stored, lock
<1>0. /\ now \in Nat /\ snapshot \in Record
      /\ memory \in [Process -> Record]
      /\ phase \in [Process -> {"idle", "locked", "serving", "saving",
                                "finalizing", "closing"}]
      /\ DOMAIN captured = Process
      /\ \A i \in Process : LeaseInv(i)
  BY DEF IInv, Types
<1>1. CASE UNCHANGED vars
  BY <1>1 DEF vars, IInv, Types, LeaseInv, Working, Writing
<1>2. CASE Tick
  BY <1>2 DEF Tick, IInv, Types, LeaseInv, Working, Writing
<1>3. ASSUME NEW i \in Process, CheckpointCapture(i) PROVE IInv'
  <2>1. Swept(i) \in Record /\ Follows(memory[i], Swept(i))
    BY <1>0, SweepFollows DEF Swept
  <2>2. /\ memory' = [memory EXCEPT ![i] = Swept(i)]
        /\ UNCHANGED <<now, snapshot, decision, fence, holder, phase, captured, acked>>
    BY <1>3 DEF CheckpointCapture, Swept
  <2>3. memory' \in [Process -> Record] /\ memory'[i] = Swept(i)
    BY <1>0, <2>1, <2>2
  <2>4. LeaseInv(i)'
    <3>1. fence = i /\ Working(i) => Follows(snapshot, Swept(i))
      BY <1>0, <2>1, FollowsTrans DEF LeaseInv
    <3>2. Writing(i) => Follows(captured[i].session, Swept(i))
      BY <1>0, <2>1, FollowsTrans DEF LeaseInv
    <3>3. QED
      BY <1>0, <2>2, <2>3, <3>1, <3>2 DEF LeaseInv, Working, Writing
  <2>5. QED
    BY <1>0, <2>2, <2>3, <2>4, LocalStep
<1>4. ASSUME NEW i \in Process, Acquire(i) PROVE IInv'
  <2>1. /\ fence' = i /\ phase' = [phase EXCEPT ![i] = "locked"]
        /\ UNCHANGED <<now, snapshot, memory, captured, acked>>
    BY <1>4 DEF Acquire
  <2>2. phase'[i] = "locked"
    BY <1>0, <2>1
  <2>3. LeaseInv(i)'
    BY <2>2 DEF LeaseInv, Working, Writing
  <2>4. QED
    BY <1>0, <2>1, <2>3, LocalStep
<1>5. ASSUME NEW i \in Process, Refresh(i) PROVE IInv'
  <2>1. /\ memory' = [memory EXCEPT ![i] = Sweep(snapshot, now)]
        /\ phase' = [phase EXCEPT ![i] = "serving"]
        /\ UNCHANGED <<now, snapshot, fence, captured, acked>>
    BY <1>5 DEF Refresh
  <2>2. Sweep(snapshot, now) \in Record /\ Follows(snapshot, Sweep(snapshot, now))
    BY <1>0, SweepFollows
  <2>3. /\ memory'[i] = Sweep(snapshot, now) /\ phase'[i] = "serving"
        /\ memory' \in [Process -> Record]
    BY <1>0, <2>1, <2>2
  <2>4. LeaseInv(i)'
    BY <2>1, <2>2, <2>3 DEF LeaseInv, Working, Writing
  <2>5. QED
    BY <1>0, <2>1, <2>3, <2>4, LocalStep
<1>6. ASSUME NEW i \in Process, TurnAway(i) PROVE IInv'
  <2>1. /\ phase[i] = "serving" /\ phase' = [phase EXCEPT ![i] = "finalizing"]
        /\ UNCHANGED <<now, snapshot, fence, memory, captured, acked>>
    BY <1>6 DEF TurnAway
  <2>2. phase'[i] = "finalizing"
    BY <1>0, <2>1
  <2>3. LeaseInv(i)'
    BY <1>0, <2>1, <2>2 DEF LeaseInv, Working, Writing
  <2>4. QED
    BY <1>0, <2>1, <2>3, LocalStep
<1>7. ASSUME NEW i \in Process
      PROVE  Swept(i) \in Record /\ Follows(memory[i], Swept(i))
  BY <1>0, SweepFollows DEF Swept
<1>8. ASSUME NEW i \in Process, ServeRead(i) \/ FinalizeCapture(i) PROVE IInv'
  <2>1. Working(i) /\ {} \in SUBSET Reconnect /\ Answered(Swept(i), {})
    BY <1>8 DEF ServeRead, FinalizeCapture, Working, Answered
  <2>2. \E next \in {"saving", "closing"} : CaptureAfter(i, Swept(i), {}, next)
    BY <1>8 DEF ServeRead, FinalizeCapture
  <2>3. UNCHANGED <<now, stored, lock, persisted, acked, faults>>
    BY <1>8 DEF ServeRead, FinalizeCapture
  <2>4. QED
    BY <1>7, <2>1, <2>2, <2>3, CaptureStep
<1>9. ASSUME NEW i \in Process, NEW p \in C, ServeCall(i, p) PROVE IInv'
  <2>1. Working(i) /\ {} \in SUBSET Reconnect /\ Swept(i) # NoSession
    BY <1>9 DEF ServeCall, Working
  <2>2. PICK c \in Called(Swept(i), p, now) : CaptureAfter(i, c, {}, "saving")
    BY <1>9 DEF ServeCall
  <2>3. Swept(i) \in Session
    BY <1>7, <2>1 DEF Record
  <2>4. c \in Record /\ Follows(Swept(i), c)
    BY <1>0, <2>1, <2>3, CalledFollows DEF Record
  <2>5. Follows(memory[i], c)
    BY <1>7, <2>4, FollowsTrans
  <2>6. Answered(c, {})
    BY DEF Answered
  <2>7. UNCHANGED <<now, stored, lock, persisted, acked, faults>>
    BY <1>9 DEF ServeCall
  <2>8. QED
    BY <2>1, <2>2, <2>4, <2>5, <2>6, <2>7, CaptureStep
<1>10. ASSUME NEW i \in Process, NEW p \in C, NEW a \in AttemptId,
              ServeReconnect(i, p, a)
       PROVE  IInv'
  <2> DEFINE c == ReconnectSession(Swept(i), p, a, now)
  <2>1. /\ Working(i) /\ Swept(i) # NoSession /\ p \in Side
        /\ {<<p, a>>} \in SUBSET Reconnect
    BY <1>10 DEF ServeReconnect, Working, Reconnect
  <2>2. /\ CanReconnect(Swept(i), p, a, now)
        /\ CaptureAfter(i, c, {<<p, a>>}, "saving")
        /\ UNCHANGED <<now, stored, lock, persisted, acked, faults>>
    BY <1>10 DEF ServeReconnect
  <2>3. Swept(i) \in Session
    BY <1>7, <2>1 DEF Record
  <2>4. c \in Record /\ Follows(Swept(i), c) /\ Answered(c, {<<p, a>>})
    BY <1>0, <2>1, <2>2, <2>3, ReconnectFollows DEF Record
  <2> HIDE DEF c
  <2>5. Follows(memory[i], c)
    BY <1>7, <2>4, FollowsTrans
  <2>6. QED
    BY <2>1, <2>2, <2>4, <2>5, CaptureStep
<1>11. ASSUME NEW i \in Process, Save(i) \/ Finalize(i) PROVE IInv'
  BY <1>11, TransactionStep
<1>12. ASSUME NEW i \in Process, FinalizeUnchanged(i) PROVE IInv'
  <2>1. /\ memory' = [memory EXCEPT ![i] = Swept(i)]
        /\ phase' = [phase EXCEPT ![i] = "idle"]
        /\ captured' = [captured EXCEPT ![i] = NoCapture]
        /\ UNCHANGED <<now, snapshot, fence, acked>>
    BY <1>12 DEF FinalizeUnchanged, Leave
  <2>2. /\ phase'[i] = "idle" /\ captured'[i] = NoCapture
        /\ memory' \in [Process -> Record]
    BY <1>0, <1>7, <2>1
  <2>3. LeaseInv(i)'
    BY <2>2 DEF LeaseInv, Working, Writing
  <2>4. QED
    BY <1>0, <2>1, <2>2, <2>3, LocalStep
<1>13. ASSUME NEW i \in Process, LoseLock(i) PROVE IInv'
  BY <1>13 DEF LoseLock, IInv, Types, LeaseInv, Working, Writing
<1>14. ASSUME NEW i \in Process, Crash(i) PROVE IInv'
  <2>1. /\ memory' = [memory EXCEPT ![i] = NoSession]
        /\ phase' = [phase EXCEPT ![i] = "idle"]
        /\ captured' = [captured EXCEPT ![i] = NoCapture]
        /\ UNCHANGED <<now, snapshot, fence, acked>>
    BY <1>14 DEF Crash, Leave
  <2>2. NoSession \in Record
    BY DEF Record
  <2>3. /\ phase'[i] = "idle" /\ captured'[i] = NoCapture
        /\ memory' \in [Process -> Record]
    BY <1>0, <2>1, <2>2
  <2>4. LeaseInv(i)'
    BY <2>3 DEF LeaseInv, Working, Writing
  <2>5. QED
    BY <1>0, <2>1, <2>3, <2>4, LocalStep
<1>15. QED
  BY <1>1, <1>2, <1>3, <1>4, <1>5, <1>6, <1>8, <1>9, <1>10, <1>11, <1>12,
     <1>13, <1>14 DEF Steps, Proceed

\* The invariant holds throughout.
THEOREM IInvHolds == Spec => []IInv
<1>1. IInv /\ [Next]_vars => IInv'
  BY NextIInv, RuntimeAssumption DEF Next
<1>2. QED
  BY <1>1, InitIInv, PTL DEF Spec

\* Acknowledged reconnects survive, for any number of processes and faults:
\* no attempt id that was answered with success is forgotten.
THEOREM AckedReconnectsDurableHolds == Spec => []AckedReconnectsDurable
<1>1. IInv => AckedReconnectsDurable
  BY DEF IInv, Answered, AckedReconnectsDurable
<1>2. QED
  BY <1>1, IInvHolds, PTL

\* The stored outcome is written once, for any number of processes and
\* faults: a writer that lost its lease cannot replace it.
THEOREM StoredOutcomeStandsHolds == Spec => StoredOutcomeStands
<1> DEFINE Stands == snapshot # NoSession /\ snapshot.status = "resolved" =>
                       snapshot' = NoSession \/ Outcome(snapshot') = Outcome(snapshot)
<1>1. IInv /\ [Next]_vars => [Stands]_vars
  <2> SUFFICES ASSUME IInv, Next PROVE UNCHANGED snapshot \/ Follows(snapshot, snapshot')
    BY DEF Follows, vars
  <2>1. ASSUME NEW i \in Process, Save(i) \/ Finalize(i)
        PROVE  UNCHANGED snapshot \/ Follows(snapshot, snapshot')
    <3>1. Writing(i) /\ (Commit(i) \/ UNCHANGED snapshot)
      BY <2>1, TransactionEnds
    <3>2. QED
      BY <3>1, CommitStep
  <2>2. ASSUME NEW i \in Process,
               \/ CheckpointCapture(i) \/ Acquire(i) \/ Refresh(i) \/ TurnAway(i)
               \/ FinalizeCapture(i) \/ FinalizeUnchanged(i)
               \/ ServeRead(i) \/ LoseLock(i) \/ Crash(i)
        PROVE  UNCHANGED snapshot
    BY <2>2 DEF CheckpointCapture, Acquire, Refresh, TurnAway, FinalizeCapture,
                FinalizeUnchanged, ServeRead, LoseLock, Crash, stored
  <2>3. ASSUME NEW i \in Process, NEW p \in Caller, NEW a \in AttemptId,
               ServeReconnect(i, p, a)
        PROVE  UNCHANGED snapshot
    BY <2>3 DEF ServeReconnect, stored
  <2>5. ASSUME NEW i \in Process, NEW p \in Caller, ServeCall(i, p)
        PROVE  UNCHANGED snapshot
    BY <2>5 DEF ServeCall, stored
  <2>4. CASE Tick
    BY <2>4 DEF Tick, stored
  <2>6. QED
    BY <2>1, <2>2, <2>3, <2>4, <2>5 DEF Next, Steps, Proceed
<1>2. QED
  BY <1>1, IInvHolds, PTL DEF Spec, StoredOutcomeStands

-----------------------------------------------------------------------------
(* One process without faults: what a session ended by is decided once.    *)
(* A session that has ended in memory may be read again from the database  *)
(* still active and be swept again, later: the decision that waits in the  *)
(* process stays the right one because sweeping later judges alike.        *)

\* b is what time alone made of a: every later sweep judges both alike.
Ages(a, b, n) ==
    b # NoSession =>
        /\ a # NoSession
        /\ a.status = "resolved" => Outcome(b) = Outcome(a)
        /\ \A t \in Nat : t >= n =>
              Outcome(CleanupSession(b, t)) = Outcome(CleanupSession(a, t))

\* From n on every sweep of s decides d.
Due(s, d, n) ==
    s # NoSession /\ \A t \in Nat : t >= n => Derive(CleanupSession(s, t)) = d

SoundRecord(s, n) == s # NoSession => Sound(s, n)

Own == captured[Solo]

\* What the stored decision becomes when the capture is committed.
Committed == IF Own.decision = NoDecision THEN decision ELSE Own.decision

DecidesAlike(s, d) == d # NoDecision => s = NoSession \/ Derive(s) = d

\* What waits in the process is what memory ended by, unless it is stored.
Awaited(m, pend, d) ==
    m # NoSession =>
        pend = Derive(m) \/ (pend = NoDecision /\ d = Derive(m))

Resting ==
    /\ Ages(snapshot, memory[Solo], now)
    /\ pending[Solo] = NoDecision \/ Due(snapshot, pending[Solo], now)

Storing ==
    /\ SoundRecord(Own.session, now)
    /\ Ages(Own.session, memory[Solo], now)
    /\ \/ pending[Solo] \in {NoDecision, Own.decision}
       \/ Due(Own.session, pending[Solo], now)
    /\ DecisionAccepted(Own.decision)
    /\ DecidesAlike(Own.session, Committed)

SoloInv ==
    /\ faults \in Nat /\ DOMAIN pending = Process
    /\ \A j \in Process \ {Solo} : phase[j] = "idle"
    /\ phase[Solo] # "idle" => fence = Solo
    /\ SoundRecord(snapshot, now) /\ SoundRecord(memory[Solo], now)
    /\ DecidesAlike(snapshot, decision)
    /\ Awaited(memory[Solo], pending[Solo], decision)
    /\ IF Writing(Solo) THEN Storing ELSE Resting

\* Neither player nor time changes a record that is no longer active.
LEMMA CleanupEnded ==
    ASSUME NEW s, NEW n, s.status # "active"
    PROVE  CleanupSession(s, n) = s
BY DEF CleanupSession

\* A sweep drops a record or judges it.
LEMMA SweepCases ==
    ASSUME NEW s \in Record, NEW n \in Nat
    PROVE  /\ s = NoSession => Sweep(s, n) = NoSession
           /\ s # NoSession /\ s.status # "active" => Sweep(s, n) \in {s, NoSession}
           /\ s # NoSession /\ s.status = "active" =>
                /\ s \in Session
                /\ Sweep(s, n) = CleanupSession(s, n)
                /\ Sweep(s, n) \in Session /\ Sweep(s, n) # NoSession
<1>1. s = NoSession => Sweep(s, n) = NoSession
  BY DEF Sweep
<1>2. ASSUME s # NoSession, s.status # "active"
      PROVE  Sweep(s, n) \in {s, NoSession}
  BY <1>2, CleanupEnded DEF Sweep
<1>3. ASSUME s # NoSession, s.status = "active"
      PROVE  /\ s \in Session
             /\ Sweep(s, n) = CleanupSession(s, n)
             /\ Sweep(s, n) \in Session /\ Sweep(s, n) # NoSession
  <2>1. s \in Session /\ ~Removable(s, n)
    BY <1>3 DEF Record, Removable
  <2>2. Sweep(s, n) = CleanupSession(s, n)
    BY <1>3, <2>1 DEF Sweep
  <2>3. QED
    BY <2>1, <2>2, CleanupType, RuntimeAssumption
<1>4. QED
  BY <1>1, <1>2, <1>3

\* The decision of a session is read off its outcome.
LEMMA DeriveOutcome ==
    ASSUME NEW s \in Session, NEW t \in Session, Outcome(s) = Outcome(t)
    PROVE  s.status = t.status /\ Derive(s) = Derive(t)
<1>1. s # NoSession /\ t # NoSession
  BY RuntimeAssumption
<1>2. /\ s.status = t.status /\ s.reason = t.reason
      /\ s.forfeiter = t.forfeiter /\ s.resolvedAt = t.resolvedAt
  BY DEF Outcome
<1>3. QED
  BY <1>1, <1>2 DEF Derive

\* An active session has decided nothing.
LEMMA DeriveActive ==
    ASSUME NEW s, Derive(s) # NoDecision
    PROVE  s # NoSession /\ s.status = "resolved"
BY DEF Derive

\* A sweep leaves a sound record.
LEMMA SoundSweep ==
    ASSUME NEW s \in Record, NEW n \in Nat, SoundRecord(s, n)
    PROVE  SoundRecord(Sweep(s, n), n)
<1>1. CASE s = NoSession
  BY <1>1, SweepCases DEF SoundRecord
<1>2. CASE s # NoSession /\ s.status # "active"
  BY <1>2, SweepCases DEF SoundRecord
<1>3. CASE s # NoSession /\ s.status = "active"
  <2>1. s \in Session /\ Sweep(s, n) = CleanupSession(s, n) /\ Sound(s, n)
    BY <1>3, SweepCases DEF SoundRecord
  <2>2. QED
    BY <2>1, CleanupSound DEF SoundRecord
<1>4. QED
  BY <1>1, <1>2, <1>3

\* Sweeping a sound session now and again later judges as sweeping it later.
LEMMA SweptTwice ==
    ASSUME NEW s \in Session, NEW n \in Nat, Sound(s, n), NEW t \in Nat, t >= n
    PROVE  Outcome(CleanupSession(CleanupSession(s, n), t))
             = Outcome(CleanupSession(s, t))
<1>1. \A p \in Side : DeadlineInBounds(s.part[p])
  BY DEF Sound, SoundPlayer
<1>2. QED
  BY <1>1, CleanupTwice

\* A record is what no time made of it.
LEMMA AgesSelf == ASSUME NEW a, NEW n PROVE Ages(a, a, n)
BY DEF Ages

\* Sweeping what time made of a is what time makes of a.
LEMMA AgesSweep ==
    ASSUME NEW a \in Record, NEW b \in Record, NEW n \in Nat,
           SoundRecord(b, n), Ages(a, b, n)
    PROVE  Ages(a, Sweep(b, n), n)
<1>1. CASE b = NoSession \/ b.status # "active"
  <2>1. Sweep(b, n) \in {b, NoSession}
    BY <1>1, SweepCases
  <2>2. Ages(a, NoSession, n)
    BY DEF Ages
  <2>3. QED
    BY <2>1, <2>2
<1>2. CASE b # NoSession /\ b.status = "active"
  <2> DEFINE c == CleanupSession(b, n)
  <2>1. b \in Session /\ Sweep(b, n) = c /\ Sound(b, n)
    BY <1>2, SweepCases DEF SoundRecord
  <2>2. /\ a # NoSession
        /\ a.status = "resolved" => Outcome(b) = Outcome(a)
        /\ \A t \in Nat : t >= n =>
             Outcome(CleanupSession(b, t)) = Outcome(CleanupSession(a, t))
    BY <1>2 DEF Ages
  <2>3. a.status # "resolved"
    BY <1>2, <2>2 DEF Outcome
  <2>4. ASSUME NEW t \in Nat, t >= n
        PROVE  Outcome(CleanupSession(c, t)) = Outcome(CleanupSession(a, t))
    <3>1. Outcome(CleanupSession(c, t)) = Outcome(CleanupSession(b, t))
      BY <2>1, <2>4, SweptTwice
    <3>2. Outcome(CleanupSession(b, t)) = Outcome(CleanupSession(a, t))
      BY <2>2, <2>4
    <3>3. QED
      BY <3>1, <3>2
  <2> HIDE DEF c
  <2>5. Ages(a, c, n)
    BY <2>2, <2>3, <2>4 DEF Ages
  <2>6. QED
    BY <2>1, <2>5
<1>3. QED
  BY <1>1, <1>2

\* What ends a session now is what every later sweep would have ended it by.
LEMMA VerdictIsDue ==
    ASSUME NEW a \in Record, NEW b \in Session, NEW n \in Nat,
           Sound(b, n), Ages(a, b, n), Derive(CleanupSession(b, n)) # NoDecision
    PROVE  Due(a, Derive(CleanupSession(b, n)), n)
<1> DEFINE c == CleanupSession(b, n)
<1>1. c \in Session /\ b # NoSession
  BY CleanupType, RuntimeAssumption
<1>2. c.status = "resolved"
  BY DeriveActive
<1>3. /\ a \in Session
      /\ \A t \in Nat : t >= n =>
           Outcome(CleanupSession(b, t)) = Outcome(CleanupSession(a, t))
  BY <1>1 DEF Ages, Record
<1>4. ASSUME NEW t \in Nat, t >= n
      PROVE  Derive(CleanupSession(a, t)) = Derive(c)
  <2>1. Outcome(CleanupSession(c, t)) = Outcome(CleanupSession(b, t))
    BY <1>4, SweptTwice
  <2>2. CleanupSession(c, t) = c
    BY <1>2, CleanupEnded
  <2>3. Outcome(CleanupSession(a, t)) = Outcome(c)
    BY <1>3, <1>4, <2>1, <2>2
  <2>4. CleanupSession(a, t) \in Session
    BY <1>3, CleanupType
  <2> HIDE DEF c
  <2>5. QED
    BY <1>1, <2>3, <2>4, DeriveOutcome
<1> HIDE DEF c
<1>5. Due(a, Derive(c), n)
  BY <1>3, <1>4, RuntimeAssumption DEF Due
<1>6. QED
  BY <1>5 DEF c

\* What was due, or came of a record, is so a moment later.
LEMMA Later ==
    ASSUME NEW a, NEW b \in Record, NEW d, NEW n \in Nat
    PROVE  /\ Ages(a, b, n) => Ages(a, b, n + 1)
           /\ Due(a, d, n) => Due(a, d, n + 1)
           /\ SoundRecord(b, n) => SoundRecord(b, n + 1)
<1>1. \A t \in Nat : t >= n + 1 => t >= n
  OBVIOUS
<1>2. Ages(a, b, n) => Ages(a, b, n + 1)
  BY <1>1 DEF Ages
<1>3. Due(a, d, n) => Due(a, d, n + 1)
  BY <1>1 DEF Due
<1>4. SoundRecord(b, n) => SoundRecord(b, n + 1)
  BY LaterSound DEF SoundRecord, Record
<1>5. QED
  BY <1>2, <1>3, <1>4

\* The calls of a player keep a swept session sound.
LEMMA CalledSound ==
    ASSUME NEW m \in Session, NEW n \in Nat, Sound(m, n), NEW p \in Side,
           NEW c \in Called(CleanupSession(m, n), p, n)
    PROVE  c \in Session /\ Sound(c, n)
<1> DEFINE s == CleanupSession(m, n)
<1>1. /\ s \in Session /\ Sound(s, n) /\ s # NoSession
      /\ s.status = "active" =>
           /\ n <= s.expiresAt
           /\ s.part[p].conn = "connected" => n <= s.part[p].heartbeat + HeartbeatTimeout
  BY CleanupSound, RuntimeAssumption
<1> HIDE DEF s
<1>2. c \in Called(s, p, n)
  BY DEF s
<1>3. c \in Session
  BY <1>1, <1>2, CalledFollows
<1>4. CASE CanMarkDisconnected(s, p) /\ c = MarkDisconnected(s, p, n)
  BY <1>1, <1>3, <1>4, MarkDisconnectedSound DEF CanMarkDisconnected
<1>5. CASE CanHeartbeat(s, p, n) /\ c = HeartbeatSession(s, p, n)
  BY <1>1, <1>3, <1>5, HeartbeatSound
<1>6. CASE CanComplete(s, n) /\ c = CompleteSession(s, p, n)
  BY <1>1, <1>3, <1>6, CompleteSound DEF CanComplete
<1>7. CASE s.status = "active" /\ c = LeaveSession(s, p, n)
  BY <1>1, <1>3, <1>7, LeaveSound
<1>8. QED
  BY <1>2, <1>4, <1>5, <1>6, <1>7 DEF Called

\* A sweep of memory keeps what waits in step with memory, and what it adds
\* is what the record memory came from is due to end by.
LEMMA SweepAwaits ==
    ASSUME NEW a \in Record, NEW m \in Record, NEW pend, NEW n \in Nat,
           SoundRecord(m, n), Ages(a, m, n), Awaited(m, pend, decision)
    PROVE  LET q == OnResolved(pend, m, Sweep(m, n)) IN
           /\ Awaited(Sweep(m, n), q, decision)
           /\ q = pend \/ Due(a, q, n)
<1>1. CASE m = NoSession \/ m.status # "active"
  <2>1. Sweep(m, n) \in {m, NoSession}
    BY <1>1, SweepCases
  <2>2. OnResolved(pend, m, Sweep(m, n)) = pend
    BY <1>1 DEF OnResolved
  <2>3. QED
    BY <2>1, <2>2 DEF Awaited
<1>2. CASE m # NoSession /\ m.status = "active"
  <2> DEFINE c == CleanupSession(m, n)
  <2>1. m \in Session /\ Sweep(m, n) = c /\ Sound(m, n)
    BY <1>2, SweepCases DEF SoundRecord
  <2>2. Derive(m) = NoDecision
    BY <1>2, DeriveActive
  <2>3. pend = NoDecision
    BY <1>2, <2>2 DEF Awaited
  <2>4. Derive(c) # NoDecision => Due(a, Derive(c), n)
    BY <2>1, VerdictIsDue
  <2> HIDE DEF c
  <2>5. OnResolved(pend, m, c) = Derive(c)
    BY <1>2, <2>3 DEF OnResolved, Queue
  <2>6. QED
    BY <2>1, <2>3, <2>4, <2>5 DEF Awaited
<1>3. QED
  BY <1>1, <1>2

\* What is captured after a handler ran can be stored together: the decision
\* is the one of the record, and no other is stored.
LEMMA CaptureDecides ==
    ASSUME NEW m \in Record, NEW rec \in Record, NEW pend, NEW n \in Nat,
           snapshot \in Record,
           Ages(snapshot, m, n), pend = NoDecision \/ Due(snapshot, pend, n),
           Awaited(m, pend, decision), DecidesAlike(snapshot, decision),
           \/ rec = Sweep(m, n)
           \/ m # NoSession /\ m.status = "active" /\ rec # NoSession
    PROVE  LET kept == Sweep(rec, n)
               q == OnResolved(OnResolved(pend, m, rec), rec, kept) IN
           /\ Awaited(kept, q, decision)
           /\ DecisionAccepted(q)
           /\ DecidesAlike(kept, IF q = NoDecision THEN decision ELSE q)
<1> DEFINE kept == Sweep(rec, n)
           q == OnResolved(OnResolved(pend, m, rec), rec, kept)
<1>1. DecisionAccepted(pend)
  <2>1. CASE pend = NoDecision \/ decision = NoDecision
    BY <2>1 DEF DecisionAccepted
  <2>2. CASE pend # NoDecision /\ decision # NoDecision
    <3>1. snapshot # NoSession /\ Derive(CleanupSession(snapshot, n)) = pend
      BY <2>2 DEF Due
    <3>2. Derive(snapshot) = decision
      BY <2>2, <3>1 DEF DecidesAlike
    <3>3. CleanupSession(snapshot, n) = snapshot
      BY <2>2, <3>2, DeriveActive, CleanupEnded
    <3>4. QED
      BY <3>1, <3>2, <3>3 DEF DecisionAccepted
  <2>3. QED
    BY <2>1, <2>2
<1>2. CASE m = NoSession \/ m.status # "active"
  <2>1. rec = Sweep(m, n) /\ rec \in {m, NoSession}
    BY <1>2, SweepCases
  <2>2. OnResolved(pend, m, rec) = pend
    BY <1>2 DEF OnResolved
  <2>3. rec = NoSession \/ rec.status # "active"
    BY <1>2, <2>1
  <2>4. q = pend
    BY <2>2, <2>3 DEF OnResolved
  <2>5. kept \in {rec, NoSession}
    BY <2>3, SweepCases
  <2>6. kept \in {m, NoSession}
    BY <2>1, <2>5
  <2> HIDE DEF q, kept
  <2>7. Awaited(kept, q, decision)
    BY <2>4, <2>6 DEF Awaited
  <2>8. DecidesAlike(kept, IF q = NoDecision THEN decision ELSE q)
    <3>1. CASE kept = NoSession
      BY <3>1 DEF DecidesAlike
    <3>2. CASE kept # NoSession /\ q # NoDecision
      BY <2>7, <3>2 DEF DecidesAlike, Awaited
    <3>3. CASE kept # NoSession /\ q = NoDecision /\ decision # NoDecision
      <4>1. m = kept /\ m # NoSession /\ snapshot # NoSession
        BY <2>6, <3>3 DEF Ages
      <4>2. Derive(snapshot) = decision
        BY <3>3, <4>1 DEF DecidesAlike
      <4>3. Outcome(m) = Outcome(snapshot)
        BY <3>3, <4>1, <4>2, DeriveActive DEF Ages
      <4>4. m \in Session /\ snapshot \in Session
        BY <4>1 DEF Record
      <4>5. Derive(m) = decision
        BY <4>2, <4>3, <4>4, DeriveOutcome
      <4>6. QED
        BY <3>3, <4>1, <4>5 DEF DecidesAlike
    <3>4. CASE q = NoDecision /\ decision = NoDecision
      BY <3>4 DEF DecidesAlike
    <3>5. QED
      BY <3>1, <3>2, <3>3, <3>4
  <2>9. QED
    BY <1>1, <2>4, <2>7, <2>8 DEF q, kept
<1>3. CASE m # NoSession /\ m.status = "active"
  <2>1. Derive(m) = NoDecision
    BY <1>3, DeriveActive
  <2>2. pend = NoDecision
    BY <1>3, <2>1 DEF Awaited
  <2>3. decision = NoDecision
    <3> SUFFICES ASSUME decision # NoDecision PROVE FALSE
      OBVIOUS
    <3>1. snapshot # NoSession
      BY <1>3 DEF Ages
    <3>2. Derive(snapshot) = decision
      BY <3>1 DEF DecidesAlike
    <3>3. Outcome(m) = Outcome(snapshot) /\ m \in Session /\ snapshot \in Session
      BY <1>3, <3>1, <3>2, DeriveActive DEF Ages, Record
    <3>4. QED
      BY <2>1, <3>2, <3>3, DeriveOutcome
  <2>4. rec # NoSession
    BY <1>3, SweepCases
  <2>5. OnResolved(pend, m, rec) = Derive(rec)
    BY <1>3, <2>2 DEF OnResolved, Queue
  <2>6. CASE rec.status = "active"
    <3>1. Derive(rec) = NoDecision
      BY <2>6, DeriveActive
    <3>2. q = Derive(kept)
      BY <2>4, <2>5, <2>6, <3>1 DEF OnResolved, Queue
    <3> HIDE DEF q, kept
    <3>3. QED
      BY <2>3, <3>2 DEF q, kept, Awaited, DecisionAccepted, DecidesAlike
  <2>7. CASE rec.status # "active"
    <3>1. q = Derive(rec)
      BY <2>4, <2>5, <2>7 DEF OnResolved
    <3>2. kept \in {rec, NoSession}
      BY <2>4, <2>7, SweepCases
    <3> HIDE DEF q, kept
    <3>3. Awaited(kept, q, decision) /\ DecidesAlike(kept, q) /\ DecidesAlike(kept, NoDecision)
      BY <3>1, <3>2 DEF Awaited, DecidesAlike
    <3>4. DecisionAccepted(q)
      BY <2>3 DEF DecisionAccepted
    <3>5. QED
      BY <2>3, <3>3, <3>4 DEF q, kept
  <2>8. QED
    BY <2>6, <2>7
<1>4. QED
  BY <1>2, <1>3

\* Reading the stored session again puts its decision, and nothing else, on
\* the list, whether it was stored, is due now or was due before.
LEMMA RefreshDecides ==
    ASSUME snapshot \in Record, NEW pend, NEW n \in Nat, SoundRecord(snapshot, n),
           pend = NoDecision \/ Due(snapshot, pend, n),
           DecidesAlike(snapshot, decision)
    PROVE  LET q == Queue(Queue(pend, snapshot), Sweep(snapshot, n)) IN
           /\ Awaited(Sweep(snapshot, n), q, decision)
           /\ q = NoDecision \/ Due(snapshot, q, n)
<1>1. CASE snapshot = NoSession
  <2>1. Sweep(snapshot, n) = NoSession /\ Derive(NoSession) = NoDecision
    BY <1>1, SweepCases DEF Derive
  <2>2. QED
    BY <1>1, <2>1 DEF Queue, Awaited
<1>2. CASE snapshot # NoSession /\ snapshot.status # "active"
  <2>1. Sweep(snapshot, n) \in {snapshot, NoSession} /\ Derive(NoSession) = NoDecision
    BY <1>2, SweepCases DEF Derive
  <2>2. \A t \in Nat : CleanupSession(snapshot, t) = snapshot
    BY <1>2, CleanupEnded
  <2>3. Due(snapshot, Derive(snapshot), n)
    BY <1>2, <2>2 DEF Due
  <2>4. pend \in {NoDecision, Derive(snapshot)}
    BY <2>2 DEF Due
  <2>5. Queue(Queue(pend, snapshot), Sweep(snapshot, n)) = Derive(snapshot)
    BY <2>1, <2>4 DEF Queue
  <2>6. QED
    BY <2>1, <2>3, <2>5 DEF Awaited
<1>3. CASE snapshot # NoSession /\ snapshot.status = "active"
  <2> DEFINE c == CleanupSession(snapshot, n)
  <2>1. snapshot \in Session /\ Sweep(snapshot, n) = c /\ Sound(snapshot, n)
    BY <1>3, SweepCases DEF SoundRecord
  <2>2. Derive(snapshot) = NoDecision
    BY <1>3, DeriveActive
  <2>3. Queue(pend, snapshot) = pend
    BY <2>2 DEF Queue
  <2>4. pend \in {NoDecision, Derive(c)}
    BY DEF Due
  <2>5. Derive(c) # NoDecision => Due(snapshot, Derive(c), n)
    BY <2>1, AgesSelf, VerdictIsDue
  <2> HIDE DEF c
  <2>6. Queue(pend, c) = Derive(c)
    BY <2>4 DEF Queue
  <2>7. QED
    BY <2>1, <2>3, <2>5, <2>6 DEF Awaited
<1>4. QED
  BY <1>1, <1>2, <1>3

\* The types the steps of one process need.
LEMMA SoloTypes ==
    ASSUME IInv
    PROVE  /\ Solo \in Process /\ now \in Nat /\ snapshot \in Record
           /\ memory \in [Process -> Record] /\ memory[Solo] \in Record
           /\ DOMAIN phase = Process /\ DOMAIN captured = Process
           /\ Own.session \in Record
BY InstanceAssumption DEF IInv, Types, Own

\* The first states of the process that runs alone.
LEMMA SoloInit == Init => SoloInv
<1> SUFFICES ASSUME Init PROVE SoloInv
  OBVIOUS
<1>1. /\ faults \in Nat /\ DOMAIN pending = Process /\ now = 0
      /\ \A j \in Process : phase[j] = "idle" /\ memory[j] = NoSession
                             /\ pending[j] = NoDecision
      /\ snapshot = NewSession(0) /\ decision = NoDecision
  BY DEF Init
<1>2. Solo \in Process
  BY InstanceAssumption
<1>3. SoundRecord(NewSession(0), 0)
  <2>1. /\ NewSession(0).status = "active" /\ NewSession(0).createdAt = 0
        /\ NewSession(0).expiresAt = 0 + SessionTtl
        /\ \A p \in Side : NewSession(0).part[p] = NewParticipant(0)
    BY DEF NewSession
  <2>2. SoundPlayer(NewParticipant(0), 0, 0)
    BY DEF NewParticipant, SoundPlayer, DeadlineInBounds
  <2>3. QED
    BY <2>1, <2>2, TimingAssumption DEF SoundRecord, Sound
<1>4. SoundRecord(snapshot, now) /\ SoundRecord(memory[Solo], now)
  BY <1>1, <1>2, <1>3 DEF SoundRecord
<1>5. DecidesAlike(snapshot, decision) /\ Awaited(memory[Solo], pending[Solo], decision)
  BY <1>1, <1>2 DEF DecidesAlike, Awaited
<1>6. ~Writing(Solo) /\ Resting
  BY <1>1, <1>2 DEF Writing, Resting, Ages
<1>7. QED
  BY <1>1, <1>2, <1>4, <1>5, <1>6 DEF SoloInv

\* The checkpoint timer's sweep outside any lease.
LEMMA SoloCheckpoint ==
    ASSUME IInv, SoloInv, CheckpointCapture(Solo)
    PROVE  SoloInv'
<1> DEFINE m == memory[Solo]
           k == Sweep(memory[Solo], now)
           q == OnResolved(pending[Solo], memory[Solo], k)
<1>1. /\ Solo \in Process /\ now \in Nat /\ snapshot \in Record /\ m \in Record
      /\ Own.session \in Record /\ DOMAIN memory = Process
  BY SoloTypes
<1>2. /\ memory' = [memory EXCEPT ![Solo] = k]
      /\ pending' = [pending EXCEPT ![Solo] = q]
      /\ UNCHANGED <<now, snapshot, decision, fence, phase, captured, faults>>
  BY DEF CheckpointCapture, stored, lock
<1>3. memory'[Solo] = k /\ pending'[Solo] = q /\ DOMAIN pending' = Process
  BY <1>1, <1>2 DEF SoloInv
<1>4. SoundRecord(m, now) /\ Awaited(m, pending[Solo], decision)
  BY DEF SoloInv
<1> HIDE DEF m
<1>5. SoundRecord(k, now)
  BY <1>1, <1>4, SoundSweep DEF m
<1>6. CASE Writing(Solo)
  <2>1. Storing /\ Ages(Own.session, m, now)
    BY <1>6 DEF SoloInv, Storing, m
  <2>2. Ages(Own.session, k, now)
    BY <1>1, <1>4, <2>1, AgesSweep DEF m
  <2>3. Awaited(k, q, decision) /\ (q = pending[Solo] \/ Due(Own.session, q, now))
    BY <1>1, <1>4, <2>1, SweepAwaits DEF m
  <2>4. q \in {NoDecision, Own.decision} \/ Due(Own.session, q, now)
    BY <2>1, <2>3 DEF Storing
  <2> HIDE DEF k, q
  <2>5. Own' = Own /\ Committed' = Committed /\ Writing(Solo)'
    BY <1>2, <1>6 DEF Own, Committed, Writing
  <2>6. Storing'
    BY <1>2, <1>3, <2>1, <2>2, <2>4, <2>5 DEF Storing, DecisionAccepted
  <2>7. QED
    BY <1>2, <1>3, <1>5, <2>3, <2>5, <2>6 DEF SoloInv
<1>7. CASE ~Writing(Solo)
  <2>1. Ages(snapshot, m, now) /\ (pending[Solo] = NoDecision \/ Due(snapshot, pending[Solo], now))
    BY <1>7 DEF SoloInv, Resting, m
  <2>2. Ages(snapshot, k, now)
    BY <1>1, <1>4, <2>1, AgesSweep DEF m
  <2>3. Awaited(k, q, decision) /\ (q = pending[Solo] \/ Due(snapshot, q, now))
    BY <1>1, <1>4, <2>1, SweepAwaits DEF m
  <2> HIDE DEF k, q
  <2>4. Resting' /\ ~Writing(Solo)'
    BY <1>2, <1>3, <1>7, <2>1, <2>2, <2>3 DEF Resting, Writing
  <2>5. QED
    BY <1>2, <1>3, <1>5, <2>3, <2>4 DEF SoloInv
<1>8. QED
  BY <1>6, <1>7

\* Capturing memory for a transaction.
LEMMA SoloCapture ==
    ASSUME IInv, SoloInv, NEW rec \in Record, SoundRecord(rec, now),
           NEW answer, NEW next \in {"saving", "closing"},
           ~Writing(Solo), phase[Solo] # "idle",
           \/ rec = Swept(Solo)
           \/ /\ memory[Solo] # NoSession /\ memory[Solo].status = "active"
              /\ rec # NoSession,
           CaptureAfter(Solo, rec, answer, next),
           UNCHANGED <<now, stored, lock, persisted, acked, faults>>
    PROVE  SoloInv'
<1> DEFINE m == memory[Solo]
           k == Sweep(rec, now)
           q == OnResolved(OnResolved(pending[Solo], memory[Solo], rec), rec, k)
<1>1. /\ Solo \in Process /\ now \in Nat /\ snapshot \in Record /\ m \in Record
      /\ DOMAIN memory = Process /\ DOMAIN phase = Process
      /\ DOMAIN captured = Process /\ DOMAIN pending = Process
  BY SoloTypes DEF SoloInv
<1>2. /\ memory' = [memory EXCEPT ![Solo] = k]
      /\ pending' = [pending EXCEPT ![Solo] = q]
      /\ captured' = [captured EXCEPT ![Solo] =
                         [session |-> k, decision |-> q, answer |-> answer]]
      /\ phase' = [phase EXCEPT ![Solo] = next]
      /\ UNCHANGED <<now, snapshot, decision, fence, faults>>
  BY DEF CaptureAfter, stored, lock
<1>3. /\ Awaited(k, q, decision) /\ DecisionAccepted(q)
      /\ DecidesAlike(k, IF q = NoDecision THEN decision ELSE q)
  <2>1. /\ Ages(snapshot, m, now)
        /\ pending[Solo] = NoDecision \/ Due(snapshot, pending[Solo], now)
        /\ Awaited(m, pending[Solo], decision) /\ DecidesAlike(snapshot, decision)
    BY DEF SoloInv, Resting
  <2>2. \/ rec = Sweep(m, now)
        \/ m # NoSession /\ m.status = "active" /\ rec # NoSession
    BY DEF Swept
  <2>3. QED
    BY <1>1, <2>1, <2>2, CaptureDecides
<1>4. SoundRecord(k, now)
  BY <1>1, SoundSweep
<1> HIDE DEF m, k, q
<1>5. /\ memory'[Solo] = k /\ pending'[Solo] = q /\ phase'[Solo] = next
      /\ Own'.session = k /\ Own'.decision = q
      /\ DOMAIN pending' = Process
      /\ \A j \in Process \ {Solo} : phase'[j] = phase[j]
  BY <1>1, <1>2 DEF Own
<1>6. Writing(Solo)' /\ phase'[Solo] # "idle"
  BY <1>5 DEF Writing
<1>7. Storing'
  <2>1. Ages(k, k, now)
    BY AgesSelf
  <2>2. /\ q = NoDecision \/ decision' \in {NoDecision, q}
        /\ Committed' = IF q = NoDecision THEN decision ELSE q
    BY <1>2, <1>3, <1>5 DEF DecisionAccepted, Committed
  <2>3. QED
    BY <1>2, <1>3, <1>4, <1>5, <2>1, <2>2 DEF Storing, DecisionAccepted
<1>8. /\ SoundRecord(snapshot, now)' /\ SoundRecord(memory[Solo], now)'
      /\ DecidesAlike(snapshot, decision)'
      /\ Awaited(memory[Solo], pending[Solo], decision)'
  BY <1>2, <1>3, <1>4, <1>5 DEF SoloInv
<1>9. /\ faults' \in Nat /\ \A j \in Process \ {Solo} : phase'[j] = "idle"
      /\ fence' = Solo
  BY <1>2, <1>5 DEF SoloInv
<1>10. QED
  BY <1>5, <1>6, <1>7, <1>8, <1>9 DEF SoloInv

\* A transaction of the process that runs alone commits.
LEMMA SoloCommits ==
    ASSUME IInv, SoloInv, Save(Solo) \/ Finalize(Solo), UNCHANGED faults
    PROVE  Writing(Solo) /\ Storing /\ Commit(Solo)
<1>1. Writing(Solo) /\ (Commit(Solo) \/ RollBack(Solo))
  BY DEF Save, Finalize, Writing
<1>2. Storing /\ fence = Solo
  BY <1>1 DEF SoloInv, Writing
<1>3. CanCommit(Solo)
  BY <1>2 DEF CanCommit, Storing, Own
<1>4. ~RollBack(Solo)
  <2>1. faults' # faults + 1
    BY DEF SoloInv
  <2>2. QED
    BY <1>3, <2>1 DEF RollBack, Fault
<1>5. QED
  BY <1>1, <1>2, <1>4

\* The stored session and its decision change together.
LEMMA SoloTransaction ==
    ASSUME IInv, SoloInv, Save(Solo) \/ Finalize(Solo), UNCHANGED faults
    PROVE  SoloInv'
<1> DEFINE kept == IF pending[Solo] = Own.decision THEN NoDecision ELSE pending[Solo]
<1>1. Writing(Solo) /\ Storing /\ Commit(Solo)
  BY SoloCommits
<1>2. /\ Solo \in Process /\ now \in Nat /\ DOMAIN phase = Process
      /\ DOMAIN pending = Process
  BY SoloTypes DEF SoloInv
<1>3. /\ snapshot' = Own.session /\ decision' = Committed
      /\ pending' = [pending EXCEPT ![Solo] = kept]
  BY <1>1 DEF Commit, Own, Committed
<1>4. /\ UNCHANGED <<now, fence, memory, faults>>
      /\ phase' \in {[phase EXCEPT ![Solo] = "finalizing"], [phase EXCEPT ![Solo] = "idle"]}
  BY <1>2, TransactionEnds
<1>5. /\ pending'[Solo] = kept /\ DOMAIN pending' = Process
      /\ phase'[Solo] \in {"finalizing", "idle"}
      /\ \A j \in Process \ {Solo} : phase'[j] = phase[j]
  BY <1>2, <1>3, <1>4
<1>6. ~Writing(Solo)'
  BY <1>5 DEF Writing
<1>7. /\ SoundRecord(Own.session, now) /\ Ages(Own.session, memory[Solo], now)
      /\ \/ pending[Solo] \in {NoDecision, Own.decision}
         \/ Due(Own.session, pending[Solo], now)
      /\ DecisionAccepted(Own.decision)
      /\ DecidesAlike(Own.session, Committed)
  BY <1>1 DEF Storing
<1>8. Resting'
  BY <1>3, <1>4, <1>5, <1>7 DEF Resting
<1>9. Awaited(memory[Solo], kept, Committed)
  BY <1>7 DEF SoloInv, Awaited, Committed, DecisionAccepted
<1> HIDE DEF kept
<1>10. /\ SoundRecord(snapshot, now)' /\ SoundRecord(memory[Solo], now)'
       /\ DecidesAlike(snapshot, decision)'
       /\ Awaited(memory[Solo], pending[Solo], decision)'
  BY <1>3, <1>4, <1>5, <1>7, <1>9 DEF SoloInv
<1>11. /\ faults' \in Nat /\ \A j \in Process \ {Solo} : phase'[j] = "idle"
       /\ phase'[Solo] # "idle" => fence' = Solo
  BY <1>1, <1>4, <1>5 DEF SoloInv, Writing
<1>12. QED
  BY <1>5, <1>6, <1>8, <1>10, <1>11 DEF SoloInv

\* The steps of the process alone keep its invariant.
LEMMA SoloNext ==
    ASSUME IInv, SoloInv, Alone(Next)
    PROVE  SoloInv'
<1> USE DEF stored, lock
<1>1. /\ Next /\ UNCHANGED faults
      /\ \A i \in Process \ {Solo} : phase[i] = "idle" /\ phase'[i] = "idle"
      /\ faults' # faults + 1
  BY DEF Alone, SoloInv
<1>2. /\ Solo \in Process /\ now \in Nat /\ snapshot \in Record
      /\ memory[Solo] \in Record /\ Own.session \in Record
      /\ DOMAIN memory = Process /\ DOMAIN phase = Process /\ DOMAIN pending = Process
      /\ DOMAIN captured = Process
  BY SoloTypes DEF SoloInv
<1>3. CASE Tick
  <2>1. /\ now' = now + 1
        /\ UNCHANGED <<snapshot, decision, fence, memory, pending, phase, captured, faults>>
    BY <1>3 DEF Tick
  <2>2. Writing(Solo)' = Writing(Solo) /\ Own' = Own /\ Committed' = Committed
    BY <2>1 DEF Writing, Own, Committed
  <2>3. SoundRecord(snapshot, now)' /\ SoundRecord(memory[Solo], now)'
    BY <1>2, <2>1, Later DEF SoloInv
  <2>4. CASE Writing(Solo)
    <3>1. Storing
      BY <2>4 DEF SoloInv
    <3>2. Storing'
      BY <1>2, <2>1, <2>2, <3>1, Later DEF Storing, DecisionAccepted
    <3>3. QED
      BY <2>1, <2>2, <2>3, <2>4, <3>2 DEF SoloInv
  <2>5. CASE ~Writing(Solo)
    <3>1. Resting
      BY <2>5 DEF SoloInv
    <3>2. Resting'
      BY <1>2, <2>1, <3>1, Later DEF Resting
    <3>3. QED
      BY <2>1, <2>2, <2>3, <2>5, <3>2 DEF SoloInv
  <2>6. QED
    BY <2>4, <2>5
<1>4. ASSUME NEW i \in Process \ {Solo}, CheckpointCapture(i) PROVE SoloInv'
  <2>1. /\ memory'[Solo] = memory[Solo] /\ pending'[Solo] = pending[Solo]
        /\ DOMAIN pending' = Process
        /\ UNCHANGED <<now, snapshot, decision, fence, phase, captured, faults>>
    BY <1>2, <1>4 DEF CheckpointCapture
  <2>2. Writing(Solo)' = Writing(Solo) /\ Own' = Own /\ Committed' = Committed
    BY <2>1 DEF Writing, Own, Committed
  <2>3. (Storing' <=> Storing) /\ (Resting' <=> Resting)
    BY <2>1, <2>2 DEF Storing, Resting, DecisionAccepted
  <2>4. QED
    BY <2>1, <2>2, <2>3 DEF SoloInv
<1>5. ASSUME NEW i \in Process \ {Solo}, Acquire(i) PROVE FALSE
  BY <1>1, <1>2, <1>5 DEF Acquire
<1>6. ASSUME NEW i \in Process, LoseLock(i) \/ Crash(i) PROVE FALSE
  BY <1>1, <1>6 DEF LoseLock, Crash, Fault
<1>7. ASSUME NEW i \in Process \ {Solo}, NEW p \in Caller,
             ServeCall(i, p)
      PROVE  FALSE
  BY <1>1, <1>7 DEF ServeCall
<1>8. ASSUME NEW i \in Process \ {Solo}, NEW p \in Caller, NEW a \in AttemptId,
             ServeReconnect(i, p, a)
      PROVE  FALSE
  BY <1>1, <1>8 DEF ServeReconnect
<1>9. ASSUME NEW i \in Process \ {Solo}, Proceed(i) \/ ServeRead(i) PROVE FALSE
  BY <1>1, <1>9 DEF Proceed, Refresh, TurnAway, Save, FinalizeCapture,
                    FinalizeUnchanged, Finalize, ServeRead
<1>10. CASE CheckpointCapture(Solo)
  BY <1>10, SoloCheckpoint
<1>11. CASE Acquire(Solo)
  <2>1. /\ fence' = Solo /\ phase' = [phase EXCEPT ![Solo] = "locked"]
        /\ phase[Solo] = "idle"
        /\ UNCHANGED <<now, snapshot, decision, memory, pending, captured, faults>>
    BY <1>11 DEF Acquire
  <2>2. phase'[Solo] = "locked"
    BY <1>2, <2>1
  <2>3. ~Writing(Solo) /\ ~Writing(Solo)'
    BY <2>1, <2>2 DEF Writing
  <2>4. Resting /\ (Resting' <=> Resting)
    BY <2>1, <2>3 DEF SoloInv, Resting
  <2>5. QED
    BY <1>1, <2>1, <2>3, <2>4 DEF SoloInv
<1>12. CASE Refresh(Solo)
  <2> DEFINE k == Sweep(snapshot, now)
             q == Queue(Queue(pending[Solo], snapshot), k)
  <2>1. /\ memory' = [memory EXCEPT ![Solo] = k]
        /\ pending' = [pending EXCEPT ![Solo] = q]
        /\ phase' = [phase EXCEPT ![Solo] = "serving"] /\ phase[Solo] = "locked"
        /\ UNCHANGED <<now, snapshot, decision, fence, captured, faults>>
    BY <1>12 DEF Refresh
  <2>2. ~Writing(Solo) /\ Resting /\ fence = Solo /\ SoundRecord(snapshot, now)
        /\ DecidesAlike(snapshot, decision)
    BY <2>1 DEF Writing, SoloInv
  <2>3. Awaited(k, q, decision) /\ (q = NoDecision \/ Due(snapshot, q, now))
    BY <1>2, <2>2, RefreshDecides DEF Resting
  <2>4. Ages(snapshot, k, now)
    BY <1>2, <2>2, AgesSelf, AgesSweep
  <2>5. SoundRecord(k, now)
    BY <1>2, <2>2, SoundSweep
  <2> HIDE DEF k, q
  <2>6. /\ memory'[Solo] = k /\ pending'[Solo] = q /\ DOMAIN pending' = Process
        /\ phase'[Solo] = "serving"
    BY <1>2, <2>1
  <2>7. ~Writing(Solo)' /\ Resting'
    BY <2>1, <2>3, <2>4, <2>6 DEF Writing, Resting
  <2>8. /\ SoundRecord(snapshot, now)' /\ SoundRecord(memory[Solo], now)'
        /\ DecidesAlike(snapshot, decision)'
        /\ Awaited(memory[Solo], pending[Solo], decision)'
    BY <2>1, <2>2, <2>3, <2>5, <2>6
  <2>9. faults' \in Nat /\ fence' = Solo
    BY <2>1, <2>2 DEF SoloInv
  <2>10. QED
    BY <1>1, <2>6, <2>7, <2>8, <2>9 DEF SoloInv
<1>13. CASE TurnAway(Solo)
  <2>1. /\ phase' = [phase EXCEPT ![Solo] = "finalizing"] /\ phase[Solo] = "serving"
        /\ UNCHANGED <<now, snapshot, decision, fence, memory, pending, captured, faults>>
    BY <1>13 DEF TurnAway
  <2>2. phase'[Solo] = "finalizing"
    BY <1>2, <2>1
  <2>3. ~Writing(Solo) /\ ~Writing(Solo)'
    BY <2>1, <2>2 DEF Writing
  <2>4. Resting /\ (Resting' <=> Resting)
    BY <2>1, <2>3 DEF SoloInv, Resting
  <2>5. QED
    BY <1>1, <2>1, <2>3, <2>4 DEF SoloInv
<1>14. CASE Save(Solo) \/ Finalize(Solo)
  BY <1>1, <1>14, SoloTransaction
<1>15. Swept(Solo) \in Record /\ SoundRecord(Swept(Solo), now)
  BY <1>2, SweepFollows, SoundSweep DEF Swept, SoloInv
<1>16. CASE ServeRead(Solo) \/ FinalizeCapture(Solo)
  <2>1. ~Writing(Solo) /\ phase[Solo] # "idle"
    BY <1>16 DEF ServeRead, FinalizeCapture, Writing
  <2>2. \E next \in {"saving", "closing"} : CaptureAfter(Solo, Swept(Solo), {}, next)
    BY <1>16 DEF ServeRead, FinalizeCapture
  <2>3. UNCHANGED <<now, stored, lock, persisted, acked, faults>>
    BY <1>16 DEF ServeRead, FinalizeCapture
  <2>4. QED
    BY <1>15, <2>1, <2>2, <2>3, SoloCapture
<1>17. ASSUME Swept(Solo) # NoSession, Swept(Solo).status = "active"
       PROVE  /\ memory[Solo] # NoSession /\ memory[Solo].status = "active"
              /\ memory[Solo] \in Session /\ Sound(memory[Solo], now)
              /\ Swept(Solo) = CleanupSession(memory[Solo], now)
  <2>1. memory[Solo] # NoSession /\ memory[Solo].status = "active"
    BY <1>2, <1>17, SweepCases DEF Swept
  <2>2. QED
    BY <1>2, <2>1, SweepCases DEF Swept, SoloInv, SoundRecord
<1>18. ASSUME NEW p \in Caller, ServeCall(Solo, p) PROVE SoloInv'
  <2>1. /\ ~Writing(Solo) /\ phase[Solo] # "idle" /\ p \in Side
        /\ Swept(Solo) # NoSession
    BY <1>18, RuntimeAssumption DEF ServeCall, Writing
  <2>2. PICK c \in Called(Swept(Solo), p, now) : CaptureAfter(Solo, c, {}, "saving")
    BY <1>18 DEF ServeCall
  <2>3. Swept(Solo).status = "active"
    BY <2>2 DEF Called, CanMarkDisconnected, CanHeartbeat, CanComplete
  <2>4. c \in Session /\ Sound(c, now)
    BY <1>2, <1>17, <2>1, <2>2, <2>3, CalledSound
  <2>5. c \in Record /\ c # NoSession /\ SoundRecord(c, now)
    BY <2>4, RuntimeAssumption DEF Record, SoundRecord
  <2>6. UNCHANGED <<now, stored, lock, persisted, acked, faults>>
    BY <1>18 DEF ServeCall
  <2>7. QED
    BY <1>17, <2>1, <2>2, <2>3, <2>5, <2>6, SoloCapture
<1>19. ASSUME NEW p \in Caller, NEW a \in AttemptId, ServeReconnect(Solo, p, a)
       PROVE  SoloInv'
  <2> DEFINE c == ReconnectSession(Swept(Solo), p, a, now)
  <2>1. /\ ~Writing(Solo) /\ phase[Solo] # "idle" /\ p \in Side
        /\ Swept(Solo) # NoSession /\ CanReconnect(Swept(Solo), p, a, now)
        /\ CaptureAfter(Solo, c, {<<p, a>>}, "saving")
        /\ UNCHANGED <<now, stored, lock, persisted, acked, faults>>
    BY <1>19, RuntimeAssumption DEF ServeReconnect, Writing
  <2>2. Swept(Solo).status = "active" /\ Swept(Solo) \in Session /\ Sound(Swept(Solo), now)
    BY <1>15, <2>1 DEF CanReconnect, Record, SoundRecord
  <2>3. c \in Session /\ Sound(c, now)
    BY <1>2, <2>1, <2>2, ReconnectType, ReconnectSound
  <2> HIDE DEF c
  <2>4. c \in Record /\ c # NoSession /\ SoundRecord(c, now)
    BY <2>3, RuntimeAssumption DEF Record, SoundRecord
  <2>5. QED
    BY <1>17, <2>1, <2>2, <2>4, SoloCapture
<1>20. CASE FinalizeUnchanged(Solo)
  <2> DEFINE k == Swept(Solo)
  <2>1. /\ memory' = [memory EXCEPT ![Solo] = k]
        /\ phase' = [phase EXCEPT ![Solo] = "idle"] /\ phase[Solo] = "finalizing"
        /\ UNCHANGED <<now, snapshot, decision, fence, pending, faults>>
        /\ OnResolved(pending[Solo], memory[Solo], k) = NoDecision
    BY <1>20 DEF FinalizeUnchanged, Leave, Unchanged
  <2>2. ~Writing(Solo) /\ Resting
    BY <2>1 DEF Writing, SoloInv
  <2>3. Ages(snapshot, k, now)
    BY <1>2, <2>2, AgesSweep DEF Swept, Resting, SoloInv
  <2>4. Awaited(k, NoDecision, decision)
    BY <1>2, <2>1, <2>2, SweepAwaits DEF Swept, Resting, SoloInv
  <2>5. pending[Solo] = NoDecision
    BY <2>1 DEF OnResolved, Queue
  <2> HIDE DEF k
  <2>6. memory'[Solo] = k /\ phase'[Solo] = "idle"
    BY <1>2, <2>1
  <2>7. ~Writing(Solo)' /\ Resting'
    BY <2>1, <2>3, <2>5, <2>6 DEF Writing, Resting
  <2>8. SoundRecord(k, now)
    BY <1>15 DEF k
  <2>9. /\ SoundRecord(snapshot, now)' /\ SoundRecord(memory[Solo], now)'
        /\ DecidesAlike(snapshot, decision)'
        /\ Awaited(memory[Solo], pending[Solo], decision)'
    BY <2>1, <2>4, <2>5, <2>6, <2>8 DEF SoloInv
  <2>10. QED
    BY <1>1, <1>2, <2>1, <2>6, <2>7, <2>9 DEF SoloInv
<1>21. QED
  BY <1>1, <1>3, <1>4, <1>5, <1>6, <1>7, <1>8, <1>9, <1>10, <1>11, <1>12, <1>13,
     <1>14, <1>16, <1>18, <1>19, <1>20 DEF Next, Steps, Proceed

\* With one process at work and no faults, for every timing: whatever the
\* players call and whenever the checkpoint sweeps, the recorded decision is
\* the one the stored session ended by, although a session that has ended in
\* memory may be read again from the database still active.
THEOREM DecidedWithSnapshotHolds == RuntimeSpec => []DecidedWithSnapshot
<1> DEFINE Inv == IInv /\ (part = "single" => SoloInv)
<1>1. RuntimeInit => Inv
  BY InitIInv, SoloInit DEF RuntimeInit
<1>2. Inv /\ [Shares \/ Alone(Next)]_all => Inv'
  <2> SUFFICES ASSUME Inv, [Shares \/ Alone(Next)]_all PROVE Inv'
    OBVIOUS
  <2>1. IInv'
    BY NextIInv, RuntimeAssumption, InstanceAssumption DEF Shares, Alone, Next, all
  <2>2. CASE Shares
    BY <2>1, <2>2 DEF Shares
  <2>3. CASE Alone(Next)
    BY <2>1, <2>3, SoloNext DEF Alone
  <2>4. CASE UNCHANGED all
    <3>1. UNCHANGED <<now, snapshot, decision, fence, memory, pending, phase, captured,
                      faults, part>>
      BY <2>4 DEF all, vars
    <3>2. Own' = Own /\ Committed' = Committed /\ Writing(Solo)' = Writing(Solo)
      BY <3>1 DEF Own, Committed, Writing
    <3>3. (Storing' <=> Storing) /\ (Resting' <=> Resting)
      BY <3>1, <3>2 DEF Storing, Resting, DecisionAccepted
    <3>4. SoloInv' <=> SoloInv
      BY <3>1, <3>2, <3>3 DEF SoloInv
    <3>5. QED
      BY <2>1, <3>1, <3>4
  <2>5. QED
    BY <2>2, <2>3, <2>4
<1>3. Inv => DecidedWithSnapshot
  BY DEF SoloInv, DecidesAlike, DecidedWithSnapshot, DecisionWithSnapshot
<1>4. QED
  BY <1>1, <1>2, <1>3, PTL DEF RuntimeSpec

=============================================================================
