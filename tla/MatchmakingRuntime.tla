------------------------- MODULE MatchmakingRuntime -------------------------
(***************************************************************************)
(* Several API processes share the matchmaking state through PostgreSQL:   *)
(* server.ts with runtimeCoordinator.ts and runtimeStateStore.ts.  A       *)
(* request takes the advisory lock and a new fence token, refreshes its    *)
(* memory from the stored snapshot, runs its handler on memory, captures   *)
(* memory and the terminal decisions waiting in the process, stores both   *)
(* in one transaction, and unlocks.  The checkpoint timer sweeps memory    *)
(* before it takes the lock.                                               *)
(*                                                                         *)
(* One ranked session is followed; what happens to its record is           *)
(* SessionRules.  The processes' clocks agree.  Fence tokens only ever     *)
(* meet in the test "is mine the stored one", so the model keeps whose     *)
(* token the stored one is.                                                *)
(***************************************************************************)
EXTENDS SessionRules

CONSTANTS
    Process,     \* the API processes
    NoSession,   \* no record of the session
    NoDecision,
    Nobody,      \* nobody holds the lock, nobody's token is stored
    MaxTime,     \* the clock stops here (a bound of the model)
    MaxFaults,   \* crashes, lost locks and failed saves explored (a bound)
    Caller       \* the players whose calls are explored (a bound)

ASSUME RuntimeAssumption ==
    /\ MaxTime \in Nat /\ MaxFaults \in Nat
    /\ Nobody \notin Process /\ NoSession \notin Session
    /\ Caller \subseteq Side

VARIABLES
    now,
    snapshot,   \* the session in matchmaking_runtime_snapshots
    decision,   \* its row of ranked_terminal_decisions
    fence,      \* whose token matchmaking_runtime_fences holds
    holder,     \* whose connection owns the advisory lock
    memory,     \* the session in each process's queue service
    pending,    \* each process's pendingRankedTerminalDecisions
    phase,      \* where each process's lock-holding request is
    persisted,  \* lastPersistedMatchmakingFingerprint under the lease
    captured,   \* what the running transaction of the process writes
    acked,      \* reconnects answered with success
    faults

vars == <<now, snapshot, decision, fence, holder, memory, pending, phase,
          persisted, captured, acked, faults>>

stored == <<snapshot, decision>>
lock == <<fence, holder>>

Decision ==
    [reason : Reason \ {"completed"}, forfeiter : Side \cup {"none"}, at : Nat]

Reconnect == Side \X AttemptId

Capture ==
    [session : Session \cup {NoSession}, decision : Decision \cup {NoDecision},
     answer : SUBSET Reconnect]

NoCapture == [session |-> NoSession, decision |-> NoDecision, answer |-> {}]

TypeOK ==
    /\ now \in Nat /\ faults \in 0..MaxFaults
    /\ snapshot \in Session \cup {NoSession}
    /\ decision \in Decision \cup {NoDecision}
    /\ fence \in Process \cup {Nobody} /\ holder \in Process \cup {Nobody}
    /\ memory \in [Process -> Session \cup {NoSession}]
    /\ pending \in [Process -> Decision \cup {NoDecision}]
    /\ phase \in [Process -> {"idle", "locked", "serving", "saving",
                              "finalizing", "closing"}]
    /\ persisted \in [Process -> Session \cup {NoSession}]
    /\ captured \in [Process -> Capture]
    /\ acked \subseteq Reconnect

\* A session was just matched and stored; every process has yet to read it.
Init ==
    /\ now = 0 /\ faults = 0
    /\ snapshot = NewSession(0)
    /\ decision = NoDecision
    /\ fence = Nobody /\ holder = Nobody
    /\ memory = [i \in Process |-> NoSession]
    /\ pending = [i \in Process |-> NoDecision]
    /\ phase = [i \in Process |-> "idle"]
    /\ persisted = [i \in Process |-> NoSession]
    /\ captured = [i \in Process |-> NoCapture]
    /\ acked = {}

Fault == faults < MaxFaults /\ faults' = faults + 1

-----------------------------------------------------------------------------
(* Terminal decisions of a session.                                        *)

\* deriveRankedTerminalDecision
Derive(s) ==
    IF s = NoSession THEN NoDecision
    ELSE IF s.status = "resolved" /\ s.reason # "completed"
    THEN [reason |-> s.reason, forfeiter |-> s.forfeiter, at |-> s.resolvedAt]
    ELSE NoDecision

\* queueRankedTerminalDecision: what is pending after session s was seen.
Queue(pend, s) == IF Derive(s) = NoDecision THEN pend ELSE Derive(s)

\* cleanup on a copy of the session.
Sweep(s, at) ==
    IF s = NoSession THEN NoSession
    ELSE IF Removable(s, at) THEN NoSession ELSE CleanupSession(s, at)

\* onSessionResolved fires when a session that was active becomes resolved.
OnResolved(pend, before, after) ==
    IF before = NoSession THEN pend
    ELSE IF before.status = "active" THEN Queue(pend, after) ELSE pend

-----------------------------------------------------------------------------
(* The clock, the lock and the checkpoint timer.                           *)

Tick ==
    /\ now < MaxTime
    /\ now' = now + 1
    /\ UNCHANGED <<stored, lock, memory, pending, phase, persisted, captured,
                   acked, faults>>

\* captureMatchmakingState outside any lease: the timer's first act.
CheckpointCapture(i) ==
    /\ memory' = [memory EXCEPT ![i] = Sweep(memory[i], now)]
    /\ pending' = [pending EXCEPT ![i] =
                     OnResolved(pending[i], memory[i], Sweep(memory[i], now))]
    /\ UNCHANGED <<now, stored, lock, phase, persisted, captured, acked, faults>>

\* pg_try_advisory_lock and acquireFenceToken.
Acquire(i) ==
    /\ phase[i] = "idle" /\ holder = Nobody
    /\ holder' = i /\ fence' = i
    /\ phase' = [phase EXCEPT ![i] = "locked"]
    /\ UNCHANGED <<now, stored, memory, pending, persisted, captured, acked, faults>>

\* refreshMatchmakingState.  Decisions pending from before stay pending.
Refresh(i) ==
    /\ phase[i] = "locked"
    /\ memory' = [memory EXCEPT ![i] = Sweep(snapshot, now)]
    /\ pending' = [pending EXCEPT ![i] =
                     Queue(Queue(pending[i], snapshot), Sweep(snapshot, now))]
    /\ persisted' = [persisted EXCEPT ![i] = snapshot]
    /\ phase' = [phase EXCEPT ![i] = "serving"]
    /\ UNCHANGED <<now, stored, lock, captured, acked, faults>>

-----------------------------------------------------------------------------
(* Handlers on memory.  A handler and the capture of what it left happen   *)
(* without a pause; the transaction that stores the capture comes later.   *)

\* The records a call of player p to queueService can leave behind.
Called(s, p, at) ==
    (IF CanMarkDisconnected(s, p) THEN {MarkDisconnected(s, p, at)} ELSE {})
    \cup (IF CanHeartbeat(s, p, at) THEN {HeartbeatSession(s, p, at)} ELSE {})
    \cup (IF CanComplete(s, at) THEN {CompleteSession(s, p, at)} ELSE {})
    \cup (IF s.status = "active" THEN {LeaveSession(s, p, at)} ELSE {})

\* captureMatchmakingState after memory became `record`, for a transaction
\* whose success answers the reconnects `answer`.
CaptureAfter(i, record, answer, next) ==
    LET kept == Sweep(record, now)
        pend == OnResolved(OnResolved(pending[i], memory[i], record), record, kept)
    IN  /\ memory' = [memory EXCEPT ![i] = kept]
        /\ pending' = [pending EXCEPT ![i] = pend]
        /\ captured' = [captured EXCEPT ![i] =
                           [session |-> kept, decision |-> pend, answer |-> answer]]
        /\ phase' = [phase EXCEPT ![i] = next]

\* The sweep every queue service call starts with.
Swept(i) == Sweep(memory[i], now)

\* Reads and refused calls sweep and save.
ServeRead(i) ==
    /\ phase[i] = "serving"
    /\ CaptureAfter(i, Swept(i), {}, "saving")
    /\ UNCHANGED <<now, stored, lock, persisted, acked, faults>>

ServeCall(i, p) ==
    /\ phase[i] = "serving"
    /\ Swept(i) # NoSession
    /\ \E record \in Called(Swept(i), p, now) : CaptureAfter(i, record, {}, "saving")
    /\ UNCHANGED <<now, stored, lock, persisted, acked, faults>>

ServeReconnect(i, p, attempt) ==
    /\ phase[i] = "serving"
    /\ Swept(i) # NoSession
    /\ CanReconnect(Swept(i), p, attempt, now)
    /\ CaptureAfter(i, ReconnectSession(Swept(i), p, attempt, now),
                    {<<p, attempt>>}, "saving")
    /\ UNCHANGED <<now, stored, lock, persisted, acked, faults>>

\* A request refused or aborted before it reaches the queue service, and
\* the timer's own lease: straight to the closing save.
TurnAway(i) ==
    /\ phase[i] = "serving"
    /\ phase' = [phase EXCEPT ![i] = "finalizing"]
    /\ UNCHANGED <<now, stored, lock, memory, pending, persisted, captured,
                   acked, faults>>

-----------------------------------------------------------------------------
(* persistMatchmakingSnapshot.                                             *)

\* Mutant: any row already there is an error.
DecisionAccepted_Once(d) == d = NoDecision \/ decision = NoDecision

\* enqueueRankedTerminalDecision: a different decision in the row is an error.
DecisionAccepted(d) == d = NoDecision \/ decision \in {NoDecision, d}

\* Mutant: the snapshot is written whatever the fence says.
CanCommit_Unfenced(i) == DecisionAccepted(captured[i].decision)

\* The token is current and the decision accepted.
CanCommit(i) == fence = i /\ DecisionAccepted(captured[i].decision)

\* Mutant: the decision is stored, the snapshot is left to the next save.
Commit_DecisionOnly(i) ==
    /\ CanCommit(i)
    /\ decision' = IF captured[i].decision = NoDecision THEN decision
                   ELSE captured[i].decision
    /\ snapshot' = IF captured[i].decision = NoDecision THEN captured[i].session
                   ELSE snapshot
    /\ pending' = [pending EXCEPT ![i] =
                     IF @ = captured[i].decision THEN NoDecision ELSE @]

\* What was captured is stored; a decision that arrived meanwhile waits on.
Commit(i) ==
    /\ CanCommit(i)
    /\ snapshot' = captured[i].session
    /\ decision' = IF captured[i].decision = NoDecision THEN decision
                   ELSE captured[i].decision
    /\ pending' = [pending EXCEPT ![i] =
                     IF @ = captured[i].decision THEN NoDecision ELSE @]

\* Fenced, refused, or the database failed: memory and the pending
\* decisions stay as they are.
RollBack(i) ==
    /\ \/ ~CanCommit(i) /\ UNCHANGED faults
       \/ CanCommit(i) /\ Fault
    /\ UNCHANGED <<stored, pending>>

\* Mutant: the request answers success although its save rolled back.
Save_AnswersAnyway(i) ==
    /\ phase[i] = "saving"
    /\ acked' = acked \cup captured[i].answer
    /\ \/ /\ Commit(i)
          /\ persisted' = [persisted EXCEPT ![i] = captured[i].session]
          /\ UNCHANGED faults
       \/ RollBack(i) /\ UNCHANGED persisted
    /\ phase' = [phase EXCEPT ![i] = "finalizing"]
    /\ captured' = [captured EXCEPT ![i] = NoCapture]
    /\ UNCHANGED <<now, lock, memory>>

\* The handler's save.  Its success is what the request answers.
Save(i) ==
    /\ phase[i] = "saving"
    /\ \/ /\ Commit(i)
          /\ persisted' = [persisted EXCEPT ![i] = captured[i].session]
          /\ acked' = acked \cup captured[i].answer
          /\ UNCHANGED faults
       \/ RollBack(i) /\ UNCHANGED <<persisted, acked>>
    /\ phase' = [phase EXCEPT ![i] = "finalizing"]
    /\ captured' = [captured EXCEPT ![i] = NoCapture]
    /\ UNCHANGED <<now, lock, memory>>

Unlock(i) == holder' = IF holder = i THEN Nobody ELSE holder

\* The request is over; nothing of its lease is looked at again.
Leave(i) ==
    /\ Unlock(i)
    /\ phase' = [phase EXCEPT ![i] = "idle"]
    /\ persisted' = [persisted EXCEPT ![i] = NoSession]
    /\ captured' = [captured EXCEPT ![i] = NoCapture]

Unchanged(i) ==
    Swept(i) = persisted[i]
        /\ OnResolved(pending[i], memory[i], Swept(i)) = NoDecision

\* persistMatchmakingStateIfChanged: capture again, and save what differs.
FinalizeCapture(i) ==
    /\ phase[i] = "finalizing"
    /\ ~Unchanged(i)
    /\ CaptureAfter(i, Swept(i), {}, "closing")
    /\ UNCHANGED <<now, stored, lock, persisted, acked, faults>>

FinalizeUnchanged(i) ==
    /\ phase[i] = "finalizing"
    /\ Unchanged(i)
    /\ memory' = [memory EXCEPT ![i] = Swept(i)]
    /\ Leave(i)
    /\ UNCHANGED <<now, stored, fence, pending, acked, faults>>

\* The closing transaction ends and the lock is released either way.
Finalize(i) ==
    /\ phase[i] = "closing"
    /\ (Commit(i) /\ UNCHANGED faults) \/ RollBack(i)
    /\ Leave(i)
    /\ UNCHANGED <<now, fence, memory, acked>>

-----------------------------------------------------------------------------
(* Faults.                                                                 *)

\* The database drops the lock under a request that goes on.
LoseLock(i) ==
    /\ Fault
    /\ holder = i
    /\ holder' = Nobody
    /\ UNCHANGED <<now, stored, fence, memory, pending, phase, persisted,
                   captured, acked>>

\* The process dies; its successor starts with empty memory.
Crash(i) ==
    /\ Fault
    /\ memory' = [memory EXCEPT ![i] = NoSession]
    /\ pending' = [pending EXCEPT ![i] = NoDecision]
    /\ Leave(i)
    /\ UNCHANGED <<now, stored, fence, acked>>

-----------------------------------------------------------------------------

\* The steps a lock-holding request owes once it has the lock.
Proceed(i) ==
    \/ Refresh(i)
    \/ TurnAway(i)
    \/ Save(i)
    \/ FinalizeCapture(i)
    \/ FinalizeUnchanged(i)
    \/ Finalize(i)

\* What may happen while only the players of C call.
Steps(C) ==
    \/ Tick
    \/ \E i \in Process :
        \/ CheckpointCapture(i)
        \/ Acquire(i)
        \/ Proceed(i)
        \/ ServeRead(i)
        \/ \E p \in C : ServeCall(i, p)
        \/ \E p \in C, attempt \in AttemptId : ServeReconnect(i, p, attempt)
        \/ LoseLock(i)
        \/ Crash(i)

Next == Steps(Caller)

\* Time passes, the timers keep asking for the lock and one of them gets it
\* when it is free, and no request holds it for ever.
Fairness ==
    /\ WF_vars(Tick)
    /\ WF_vars(\E i \in Process : Acquire(i))
    /\ \A i \in Process : WF_vars(Proceed(i))

Spec == Init /\ [][Next]_vars /\ Fairness

-----------------------------------------------------------------------------
(* Properties.                                                             *)

\* A reconnect that was answered with success stays recorded whichever
\* process stores the session next, through lost locks, crashes and late
\* writers: its attempt id cannot be replayed (fence token, save).
AckedReconnectsDurable ==
    snapshot # NoSession =>
        \A r \in acked : r[2] \in snapshot.part[r[1]].used

\* The stored outcome is written once: no process that worked from an older
\* copy replaces or revives it (refreshMatchmakingState, fence token).
StoredOutcomeStands ==
    [][snapshot # NoSession /\ snapshot.status = "resolved" =>
        snapshot' = NoSession \/ Outcome(snapshot') = Outcome(snapshot)]_vars

\* apps/api/README.md: a forfeit "is first committed to
\* ranked_terminal_decisions in the same transaction as the matchmaking
\* snapshot": a recorded decision is the one the stored session ended by.
DecisionWithSnapshot ==
    decision # NoDecision => snapshot = NoSession \/ Derive(snapshot) = decision

\* The stored session does not stay for ever: checkpoints record how it
\* ended and drop it after the retention, although every refresh of the
\* resolved session enqueues its decision again (checkpoint timer, cleanup).
StoredSessionRetires == <>(snapshot = NoSession)

\* apps/api/README.md: "Double disconnects and generic expiry are durably
\* recorded": an expired session is stored as resolved.  No
\* run checks it: the README names the instance that breaks it.
ExpiryIsRecorded == <>(snapshot = NoSession \/ snapshot.status = "resolved")
=============================================================================
