-------------------------- MODULE RankedSettlement --------------------------
(***************************************************************************)
(* How one ranked session becomes a rating.  Two paths compete for it:     *)
(* the players submit replay proofs (POST /ranked/results) and are rated   *)
(* when both proofs agree; or the server resolves the session, records a   *)
(* terminal decision with the matchmaking snapshot, and a worker of some   *)
(* API process claims the decision under a lease and settles it.           *)
(*                                                                         *)
(* A transaction takes the session's advisory lock first, so transactions  *)
(* on one session follow one another and each is one step here; it can     *)
(* roll back, or commit and lose the answer.  Leases and back-off are      *)
(* counted down, so the model needs no clock.  A token is the number of    *)
(* the claim that made it: the code draws a new UUID for every claim.      *)
(***************************************************************************)
EXTENDS Naturals

CONSTANTS
    Worker,      \* the API processes that run the decision scheduler
    Proof,       \* the digests of verified proofs the players may hold
    Lease,       \* leaseSeconds
    RetryBase,   \* retryBaseSeconds
    RetryMax,    \* retryMaxSeconds
    MaxSkew,     \* how far the API's clock may be ahead of the database's
    MaxFaults    \* crashes, failed calls and overrun leases explored (a bound)

ASSUME SettlementAssumption ==
    /\ Lease \in Nat \ {0}
    /\ RetryBase \in Nat \ {0}
    /\ RetryMax \in Nat
    /\ RetryBase <= RetryMax
    /\ MaxSkew \in Nat
    /\ MaxFaults \in Nat
    /\ Proof \cap {"none", "flagged"} = {}

\* The powers the back-off uses.  The prover knows nothing of ^, so its
\* proofs take this from here; TLC evaluates it.
ASSUME PowersAssumption == \A k \in 0..30 : 2 ^ k \in Nat

VARIABLES
    memory,      \* how the session in the queue service's memory ended
    snapshot,    \* ... and in the snapshot last persisted
    decision,    \* the row of ranked_terminal_decisions
    resolution,  \* status of the row of ranked_authoritative_resolutions
    match,       \* settlement_source of the row of ranked_matches
    ratings,     \* how often ratings were changed for this session
    submission,  \* each side's row of ranked_result_submissions
    route,       \* each side's POST /ranked/results in progress
    worker,      \* each worker's progress
    faults       \* faults so far

vars == <<memory, snapshot, decision, resolution, match, ratings,
          submission, route, worker, faults>>

database == <<snapshot, decision, resolution, match, ratings, submission>>

Side == {"P1", "P2"}
Peer(p) == IF p = "P1" THEN "P2" ELSE "P1"

Kind == {"forfeit", "no_contest"}       \* decision_type
Ending == {"active", "completed"} \cup Kind

\* A session that ended by attested completion derives no decision.
Derived(ending) == IF ending \in Kind THEN ending ELSE "none"

Decision ==
    [ kind     : Kind \cup {"none"},
      status   : {"none", "pending", "processing", "settled", "superseded"},
      token    : Nat,      \* claim_token, 0 when NULL
      lease    : Nat,      \* time left until lease_expires_at
      wait     : Nat,      \* time left until due_at and next_attempt_at
      attempts : Nat ]     \* attempt_count

WorkerState ==
    [ pc     : {"idle", "claimed", "processed", "failed"},
      token  : Nat,
      kind   : Kind \cup {"none"},
      result : {"none", "settled", "superseded"} ]

Idle == [pc |-> "idle", token |-> 0, kind |-> "none", result |-> "none"]

TypeOK ==
    /\ memory \in Ending /\ snapshot \in Ending
    /\ decision \in Decision
    /\ resolution \in {"none", "settled", "superseded"}
    /\ match \in {"none", "consensus", "forfeit"}
    /\ ratings \in Nat
    /\ submission \in [Side -> Proof \cup {"none", "flagged"}]
    /\ route \in [Side -> {"idle", "checked"}]
    /\ worker \in [Worker -> WorkerState]
    /\ faults \in 0..MaxFaults

Init ==
    /\ memory = "active" /\ snapshot = "active"
    /\ decision = [kind |-> "none", status |-> "none", token |-> 0,
                   lease |-> 0, wait |-> 0, attempts |-> 0]
    /\ resolution = "none" /\ match = "none" /\ ratings = 0
    /\ submission = [p \in Side |-> "none"]
    /\ route = [p \in Side |-> "idle"]
    /\ worker = [w \in Worker |-> Idle]
    /\ faults = 0

Fault == faults < MaxFaults /\ faults' = faults + 1

-----------------------------------------------------------------------------
(* The session in memory and its snapshot.                                 *)

\* The queue service resolves the session: by its players or by the clock.
Resolve ==
    /\ memory = "active"
    /\ memory' \in Ending \ {"active"}
    /\ UNCHANGED <<database, route, worker, faults>>

\* persistMatchmakingSnapshot: the snapshot and the decision it implies, in
\* one transaction.  A decision that is already there is left as it is.
Persist ==
    /\ snapshot # memory
    /\ snapshot' = memory
    /\ IF Derived(memory) # "none" /\ decision.kind = "none"
       THEN \E skew \in 0..MaxSkew :
              decision' = [decision EXCEPT !.kind = Derived(memory),
                               !.status = "pending", !.wait = skew]
       ELSE UNCHANGED decision
    /\ UNCHANGED <<memory, resolution, match, ratings, submission, route,
                   worker, faults>>

\* The process is replaced: memory is the snapshot, open requests are gone.
Restart ==
    /\ Fault
    /\ memory' = snapshot
    /\ route' = [p \in Side |-> "idle"]
    /\ UNCHANGED <<database, worker>>

-----------------------------------------------------------------------------
(* POST /ranked/results.                                                   *)

ServerOwned == Derived(memory) # "none" \/ decision.kind # "none"

\* The checks before the proof is replayed.
SubmitCheck(p) ==
    /\ route[p] = "idle"
    /\ ~ServerOwned
    /\ submission[p] = "none"
    /\ route' = [route EXCEPT ![p] = "checked"]
    /\ UNCHANGED <<memory, database, worker, faults>>

\* Mutant: the server's outcome is not looked at again under the lock.
RejectedUnderLock_Unchecked(p) == submission[p] # "none"

\* The same checks once more, under the session's lock.
RejectedUnderLock(p) == ServerOwned \/ submission[p] # "none"

\* settleRankedMatch: the match row, both ratings, league and master rating.
SettleRankedMatch(source) == match' = source /\ ratings' = ratings + 1

\* The transaction rolled back: refused under the lock, inputs not covered by
\* commitments, the match already there, or the database failed.
SubmitRollback(p) ==
    /\ route[p] = "checked"
    /\ route' = [route EXCEPT ![p] = "idle"]
    /\ UNCHANGED <<memory, database, worker, faults>>

\* The row is written; alone it changes no rating.
SubmitAlone(p, proof) ==
    /\ route[p] = "checked" /\ ~RejectedUnderLock(p)
    /\ submission' = [submission EXCEPT ![p] = proof]
    /\ proof # "flagged" => submission[Peer(p)] \in {"none", "flagged"}
    /\ route' = [route EXCEPT ![p] = "idle"]
    /\ UNCHANGED <<memory, snapshot, decision, resolution, match, ratings,
                   worker, faults>>

SubmitDisagreeing(p, proof) ==
    /\ route[p] = "checked" /\ ~RejectedUnderLock(p)
    /\ submission[Peer(p)] \in Proof \ {proof}
    /\ submission' = [q \in Side |-> "flagged"]
    /\ route' = [route EXCEPT ![p] = "idle"]
    /\ UNCHANGED <<memory, snapshot, decision, resolution, match, ratings,
                   worker, faults>>

SubmitAgreeing(p, proof) ==
    /\ route[p] = "checked" /\ ~RejectedUnderLock(p)
    /\ submission[Peer(p)] = proof
    /\ match = "none"
    /\ submission' = [submission EXCEPT ![p] = proof]
    /\ SettleRankedMatch("consensus")
    /\ route' = [route EXCEPT ![p] = "idle"]
    /\ UNCHANGED <<memory, snapshot, decision, resolution, worker, faults>>

-----------------------------------------------------------------------------
(* The decision worker: claimBatch, processRankedTerminalDecisionBatch,    *)
(* processRankedAuthoritativeResolution, markSettled, markSuperseded and   *)
(* markRetry.                                                              *)

\* Mutant: an expired lease is not taken over.
Claimable_PendingOnly == decision.status = "pending" /\ decision.wait = 0

Claimable ==
    \/ decision.status = "pending" /\ decision.wait = 0
    \/ decision.status = "processing" /\ decision.lease = 0

Claim(w) ==
    /\ worker[w].pc = "idle"
    /\ Claimable
    /\ decision' = [decision EXCEPT !.status = "processing",
                        !.attempts = @ + 1, !.token = decision.attempts + 1,
                        !.lease = Lease]
    /\ worker' = [worker EXCEPT ![w] =
                    [pc |-> "claimed", token |-> decision.attempts + 1,
                     kind |-> decision.kind, result |-> "none"]]
    /\ UNCHANGED <<memory, snapshot, resolution, match, ratings, submission,
                   route, faults>>

Advance(w, pc, result) ==
    worker' = [worker EXCEPT ![w].pc = pc, ![w].result = result]

\* A no-contest is settled as it stands: nothing is rated.
ProcessNoContest(w) ==
    /\ worker[w].pc = "claimed" /\ worker[w].kind = "no_contest"
    /\ Advance(w, "processed", "settled")
    /\ UNCHANGED <<memory, database, route, faults>>

\* A match by this resolution is settled again at no cost; one by consensus
\* supersedes it.
ResolutionResult ==
    IF match = "consensus" \/ (match = "none" /\ resolution = "superseded")
    THEN "superseded" ELSE "settled"

\* Mutant: a match that is already there is not looked for.
AuthoritativeResolution_Always ==
    /\ SettleRankedMatch("forfeit")
    /\ resolution' = "settled"
    /\ UNCHANGED <<memory, snapshot, decision, submission, route>>

\* The settlement transaction, from the session lock to COMMIT.
AuthoritativeResolution ==
    /\ IF match = "none" /\ ResolutionResult = "settled"
       THEN SettleRankedMatch("forfeit")
       ELSE UNCHANGED <<match, ratings>>
    /\ resolution' = ResolutionResult
    /\ UNCHANGED <<memory, snapshot, decision, submission, route>>

ProcessForfeit(w) ==
    /\ worker[w].pc = "claimed" /\ worker[w].kind = "forfeit"
    /\ AuthoritativeResolution
    /\ Advance(w, "processed", ResolutionResult)
    /\ UNCHANGED faults

\* The transaction commits but the answer is lost: an error to the worker.
ProcessUnanswered(w) ==
    /\ Fault
    /\ worker[w].pc = "claimed" /\ worker[w].kind = "forfeit"
    /\ AuthoritativeResolution
    /\ Advance(w, "failed", "none")

ProcessRollback(w) ==
    /\ Fault
    /\ worker[w].pc = "claimed"
    /\ Advance(w, "failed", "none")
    /\ UNCHANGED <<memory, database, route>>

\* Only the holder of the claim, and only within its lease.
Holds(w) ==
    /\ decision.status = "processing"
    /\ decision.token = worker[w].token
    /\ decision.lease > 0

Released(status, wait) ==
    [decision EXCEPT !.status = status, !.token = 0, !.lease = 0, !.wait = wait]

MarkedDecision(w) ==
    IF Holds(w) THEN Released(worker[w].result, decision.wait) ELSE decision

\* markSettled or markSuperseded.
Mark(w) ==
    /\ worker[w].pc = "processed"
    /\ decision' = MarkedDecision(w)
    /\ worker' = [worker EXCEPT ![w] = Idle]
    /\ UNCHANGED <<memory, snapshot, resolution, match, ratings, submission,
                   route, faults>>

\* The mark fails, before or after it took effect.
MarkFails(w) ==
    /\ Fault
    /\ worker[w].pc = "processed"
    /\ decision' \in {decision, MarkedDecision(w)}
    /\ Advance(w, "failed", "none")
    /\ UNCHANGED <<memory, snapshot, resolution, match, ratings, submission, route>>

Least(x, y) == IF x <= y THEN x ELSE y
Minus(n) == IF n = 0 THEN 0 ELSE n - 1

Backoff(attempts) ==
    Least(RetryMax, RetryBase * 2 ^ Least(Minus(attempts), 30))

\* Mutant: the retry does not ask whether the claim is still held.
MarkRetry_Unowned(w) ==
    /\ worker[w].pc = "failed"
    /\ decision' = Released("pending", Backoff(decision.attempts))
    /\ worker' = [worker EXCEPT ![w] = Idle]
    /\ UNCHANGED <<memory, snapshot, resolution, match, ratings, submission,
                   route, faults>>

MarkRetry(w) ==
    /\ worker[w].pc = "failed"
    /\ decision' = IF Holds(w)
                   THEN Released("pending", Backoff(decision.attempts))
                   ELSE decision
    /\ worker' = [worker EXCEPT ![w] = Idle]
    /\ UNCHANGED <<memory, snapshot, resolution, match, ratings, submission,
                   route, faults>>

\* The worker's process dies, or markRetry itself fails: nothing is released.
WorkerStops(w) ==
    /\ Fault
    /\ worker[w].pc # "idle"
    /\ worker' = [worker EXCEPT ![w] = Idle]
    /\ UNCHANGED <<memory, database, route>>

\* Time passes.  A lease that runs out under a live holder is a fault.
Tick ==
    /\ decision.wait > 0 \/ decision.lease > 0
    /\ IF decision.lease = 1 /\ \E w \in Worker : worker[w].pc # "idle" /\ Holds(w)
       THEN Fault ELSE UNCHANGED faults
    /\ decision' = [decision EXCEPT !.wait = Minus(@), !.lease = Minus(@)]
    /\ UNCHANGED <<memory, snapshot, resolution, match, ratings, submission,
                   route, worker>>

-----------------------------------------------------------------------------

WorkerStep(w) ==
    \/ Claim(w)
    \/ ProcessNoContest(w)
    \/ ProcessForfeit(w)
    \/ Mark(w)
    \/ MarkRetry(w)

Next ==
    \/ Resolve
    \/ Persist
    \/ Restart
    \/ Tick
    \/ \E p \in Side :
        \/ SubmitCheck(p)
        \/ SubmitRollback(p)
        \/ \E proof \in Proof \cup {"flagged"} : SubmitAlone(p, proof)
        \/ \E proof \in Proof :
            SubmitDisagreeing(p, proof) \/ SubmitAgreeing(p, proof)
    \/ \E w \in Worker :
        \/ WorkerStep(w)
        \/ ProcessUnanswered(w)
        \/ ProcessRollback(w)
        \/ MarkFails(w)
        \/ WorkerStops(w)

\* Every process runs its scheduler, which wakes at the next due time.
Fairness == WF_vars(Tick) /\ \A w \in Worker : WF_vars(WorkerStep(w))

Spec == Init /\ [][Next]_vars /\ Fairness

-----------------------------------------------------------------------------
(* Properties.                                                             *)

Closed == {"settled", "superseded"}

\* However often the settlement is retried, taken over after a lost lease,
\* or repeated after a commit whose answer was lost, and whichever path wins
\* the race, the ratings change once per match row and never without one.
RatedOnce == ratings = IF match = "none" THEN 0 ELSE 1

\* The status a decision is closed with agrees with who was rated: a settled
\* forfeit is the one the match was rated by, a superseded one lost to the
\* players' agreement (processRankedAuthoritativeResolution, mark*).
ClosedAgreesWithMatch ==
    decision.kind = "forfeit" =>
        /\ decision.status = "settled" => match = "forfeit"
        /\ decision.status = "superseded" => match = "consensus"

\* A pending or committed server outcome rejects a late proof: a proof that
\* was checked before the session ended is not rated after it.
ServerOutcomeStands ==
    [][match' # match /\ match' = "consensus" =>
          Derived(memory) = "none" /\ decision.kind = "none"]_vars

\* What a reader of the two tables sees of the decision.
Verdict ==
    CASE decision.status \in {"pending", "processing"} -> decision.kind
      [] decision.status \in Closed /\ decision.kind = "no_contest" -> "void"
      [] OTHER -> decision.status

Outcome == INSTANCE RankedOutcome WITH rated <- match, verdict <- Verdict

\* Claims, leases, retries and crashes are invisible: the two tables show
\* only steps RankedOutcome allows.
ImplementsOutcome == Outcome!Spec

\* Every recorded decision is closed, whatever faults came before (claimBatch
\* takes over expired leases, markRetry makes a failure due again).
DecisionCloses == Outcome!VerdictCloses

\* apps/api/README.md: "Double disconnects and generic expiry are durably
\* recorded as no-contests and remain unrated."  No
\* run checks it: the README names the instance that breaks it.
NoContestUnrated == decision.kind = "no_contest" => match = "none"
=============================================================================
