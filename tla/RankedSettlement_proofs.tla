----------------------- MODULE RankedSettlement_proofs -----------------------
(***************************************************************************)
(* RankedSettlement for any number of workers, proofs, faults and any      *)
(* lease and back-off: ratings change once, a server outcome is not        *)
(* overruled, and the two tables implement RankedOutcome.  Then the        *)
(* records beside it, for any number of seasons, results, uploads,         *)
(* processes and failures: RankedSeasons and ReplayArchive are sound.      *)
(***************************************************************************)
EXTENDS MCRankedSettlement, SequenceTheorems, NaturalsInduction, WellFoundedInduction, TLAPS

\* The row exists exactly when it has a decision in it.
RowShape ==
    /\ decision.kind = "none" <=> decision.status = "none"
    /\ decision.status = "superseded" => decision.kind = "forfeit"

\* A worker at work handles the decision in the row, and knows what became
\* of the match.
WorkersKnow ==
    \A w \in Worker :
        /\ worker[w].pc # "idle" =>
             worker[w].kind = decision.kind /\ decision.kind # "none"
        /\ worker[w].pc = "processed" /\ worker[w].kind = "no_contest" =>
             worker[w].result = "settled"
        /\ worker[w].pc = "processed" /\ worker[w].kind = "forfeit" =>
             \/ worker[w].result = "settled" /\ match = "forfeit"
             \/ worker[w].result = "superseded" /\ match = "consensus"

\* Only a recorded forfeit rates by forfeit, and only the players' agreement
\* supersedes a resolution.
MatchHasCause ==
    /\ match = "forfeit" => decision.kind = "forfeit"
    /\ resolution = "superseded" => match = "consensus"

IInv ==
    /\ TypeOK
    /\ RatedOnce
    /\ RowShape
    /\ WorkersKnow
    /\ MatchHasCause
    /\ ClosedAgreesWithMatch

-----------------------------------------------------------------------------

\* Every back-off is a delay (markRetry).
LEMMA BackoffType == ASSUME NEW n \in Nat PROVE Backoff(n) \in Nat
<1>1. Least(Minus(n), 30) \in 0..30
  BY DEF Least, Minus
<1>2. 2 ^ Least(Minus(n), 30) \in Nat
  BY <1>1, PowersAssumption
<1>3. RetryBase * 2 ^ Least(Minus(n), 30) \in Nat
  BY <1>2, SettlementAssumption
<1> QED
  BY <1>3, SettlementAssumption DEF Backoff, Least

\* A released row keeps its decision and takes the status it is given.
LEMMA ReleasedType ==
    ASSUME decision \in Decision,
           NEW status \in {"pending", "settled", "superseded"}, NEW delay \in Nat
    PROVE  /\ Released(status, delay) \in Decision
           /\ Released(status, delay).kind = decision.kind
           /\ Released(status, delay).status = status
BY DEF Released, Decision

\* The initial state satisfies the inductive invariant.
LEMMA InitIInv == Init => IInv
BY SettlementAssumption
DEF Init, IInv, TypeOK, RatedOnce, RowShape, WorkersKnow, MatchHasCause,
    ClosedAgreesWithMatch, Ending, Kind, Decision, WorkerState, Idle, Side

\* Steps that change neither the decision, the match nor a worker.
LEMMA QuietStep ==
    ASSUME IInv,
           UNCHANGED <<decision, resolution, match, ratings, worker>>,
           memory' \in Ending, snapshot' \in Ending,
           submission' \in [Side -> Proof \cup {"none", "flagged"}],
           route' \in [Side -> {"idle", "checked"}],
           faults' \in 0..MaxFaults
    PROVE  IInv'
BY DEF IInv, TypeOK, RatedOnce, RowShape, WorkersKnow, MatchHasCause,
       ClosedAgreesWithMatch

\* Every step preserves the inductive invariant.
LEMMA NextIInv == IInv /\ [Next]_vars => IInv'
<1> SUFFICES ASSUME IInv, [Next]_vars PROVE IInv'
  OBVIOUS
<1> USE SettlementAssumption
<1>0. TypeOK
  BY DEF IInv
<1>1. CASE Resolve
  BY <1>0, <1>1, QuietStep DEF Resolve, TypeOK, database
<1>2. CASE Persist
  <2>1. TypeOK'
    <3>1. CASE Derived(memory) # "none" /\ decision.kind = "none"
      <4>1. PICK skew \in 0..MaxSkew :
              decision' = [decision EXCEPT !.kind = Derived(memory),
                               !.status = "pending", !.wait = skew]
        BY <1>2, <3>1 DEF Persist
      <4>2. skew \in Nat /\ Derived(memory) \in Kind
        BY <3>1 DEF Derived
      <4>3. decision' \in Decision
        BY <1>0, <4>1, <4>2 DEF TypeOK, Decision
      <4> QED
        BY <1>0, <1>2, <4>3 DEF Persist, TypeOK
    <3>2. CASE ~(Derived(memory) # "none" /\ decision.kind = "none")
      BY <1>0, <1>2, <3>2 DEF Persist, TypeOK
    <3> QED
      BY <3>1, <3>2
  <2>2. (decision'.kind = decision.kind /\ decision'.status = decision.status)
          \/ (decision.kind = "none" /\ decision'.kind \in Kind /\ decision'.status = "pending")
    BY <1>0, <1>2 DEF Persist, TypeOK, Decision, Derived, Kind
  <2>3. UNCHANGED <<resolution, match, ratings, worker>>
    BY <1>2 DEF Persist
  <2> QED
    BY <2>1, <2>2, <2>3 DEF IInv, RatedOnce, RowShape, WorkersKnow,
       MatchHasCause, ClosedAgreesWithMatch, Kind
<1>3. CASE Restart
  BY <1>0, <1>3, QuietStep DEF Restart, Fault, TypeOK, database
<1>4. CASE Tick
  <2>1. TypeOK'
    <3>1. decision.wait \in Nat /\ decision.lease \in Nat
      BY <1>0 DEF TypeOK, Decision
    <3>2. Minus(decision.wait) \in Nat /\ Minus(decision.lease) \in Nat
      BY <3>1 DEF Minus
    <3>3. decision' \in Decision
      BY <1>0, <1>4, <3>2 DEF Tick, TypeOK, Decision
    <3>4. faults' \in 0..MaxFaults
      BY <1>0, <1>4 DEF Tick, Fault, TypeOK
    <3> QED
      BY <1>0, <1>4, <3>3, <3>4 DEF Tick, TypeOK
  <2>2. decision'.kind = decision.kind /\ decision'.status = decision.status
    BY <1>0, <1>4 DEF Tick, TypeOK, Decision
  <2>3. UNCHANGED <<resolution, match, ratings, worker>>
    BY <1>4 DEF Tick
  <2> QED
    BY <2>1, <2>2, <2>3 DEF IInv, RatedOnce, RowShape, WorkersKnow,
       MatchHasCause, ClosedAgreesWithMatch
<1>5. ASSUME NEW p \in Side, SubmitCheck(p) PROVE IInv'
  BY <1>0, <1>5, QuietStep DEF SubmitCheck, TypeOK, database
<1>6. ASSUME NEW p \in Side, SubmitRollback(p) PROVE IInv'
  BY <1>0, <1>6, QuietStep DEF SubmitRollback, TypeOK, database
<1>7. ASSUME NEW p \in Side, NEW proof \in Proof \cup {"flagged"},
             SubmitAlone(p, proof)
      PROVE  IInv'
  BY <1>0, <1>7, QuietStep DEF SubmitAlone, TypeOK
<1>8. ASSUME NEW p \in Side, NEW proof \in Proof, SubmitDisagreeing(p, proof)
      PROVE  IInv'
  BY <1>0, <1>8, QuietStep DEF SubmitDisagreeing, TypeOK
<1>9. ASSUME NEW p \in Side, NEW proof \in Proof, SubmitAgreeing(p, proof)
      PROVE  IInv'
  <2>1. decision.kind = "none" /\ match = "none" /\ ratings = 0
    BY <1>9 DEF SubmitAgreeing, RejectedUnderLock, ServerOwned, IInv, RatedOnce
  <2>2. match' = "consensus" /\ ratings' = 1 /\ UNCHANGED <<decision, worker, resolution>>
    BY <1>9, <2>1 DEF SubmitAgreeing, SettleRankedMatch
  <2>3. TypeOK'
    BY <1>0, <1>9, <2>2 DEF SubmitAgreeing, TypeOK
  <2> QED
    BY <2>1, <2>2, <2>3 DEF IInv, RatedOnce, RowShape, WorkersKnow,
       MatchHasCause, ClosedAgreesWithMatch
<1>10. ASSUME NEW w \in Worker, Claim(w) PROVE IInv'
  <2>1. decision.attempts + 1 \in Nat /\ decision.kind # "none" /\ decision.kind \in Kind
    BY <1>0, <1>10 DEF Claim, Claimable, IInv, RowShape, TypeOK, Decision
  <2>2. /\ decision' \in Decision
        /\ decision'.kind = decision.kind /\ decision'.status = "processing"
    BY <1>0, <1>10, <2>1 DEF Claim, TypeOK, Decision
  <2>3. /\ worker' \in [Worker -> WorkerState]
        /\ worker'[w].pc = "claimed" /\ worker'[w].kind = decision.kind
        /\ \A v \in Worker \ {w} : worker'[v] = worker[v]
    BY <1>0, <1>10, <2>1 DEF Claim, TypeOK, WorkerState
  <2>4. TypeOK'
    BY <1>0, <1>10, <2>2, <2>3 DEF Claim, TypeOK
  <2>5. WorkersKnow'
    <3> SUFFICES ASSUME NEW v \in Worker
                 PROVE  WorkersKnow!(v)'
      BY DEF WorkersKnow
    <3>1. UNCHANGED match
      BY <1>10 DEF Claim
    <3> QED
      BY <2>1, <2>2, <2>3, <3>1 DEF IInv, WorkersKnow
  <2> QED
    BY <1>10, <2>1, <2>2, <2>4, <2>5 DEF Claim, IInv, RatedOnce, RowShape,
       MatchHasCause, ClosedAgreesWithMatch
<1>11. ASSUME NEW w \in Worker, ProcessNoContest(w) PROVE IInv'
  <2>1. /\ worker' \in [Worker -> WorkerState]
        /\ worker'[w].pc = "processed" /\ worker'[w].kind = "no_contest"
        /\ worker'[w].result = "settled" /\ worker[w].pc = "claimed"
        /\ worker[w].kind = "no_contest"
        /\ \A v \in Worker \ {w} : worker'[v] = worker[v]
    BY <1>0, <1>11 DEF ProcessNoContest, Advance, TypeOK, WorkerState
  <2>2. UNCHANGED <<memory, database, route, faults>>
    BY <1>11 DEF ProcessNoContest
  <2>3. TypeOK'
    BY <1>0, <2>1, <2>2 DEF TypeOK, database
  <2> QED
    BY <2>1, <2>2, <2>3 DEF IInv, RatedOnce, RowShape, WorkersKnow,
       MatchHasCause, ClosedAgreesWithMatch, database
<1>12. ASSUME NEW w \in Worker, worker[w].pc = "claimed",
              worker[w].kind = "forfeit", AuthoritativeResolution
       PROVE  /\ RatedOnce' /\ MatchHasCause' /\ ClosedAgreesWithMatch'
              /\ match' # "none" /\ (match # "none" => match' = match)
              /\ \/ ResolutionResult = "settled" /\ match' = "forfeit"
                 \/ ResolutionResult = "superseded" /\ match' = "consensus"
              /\ match' \in {"consensus", "forfeit"}
              /\ ratings' \in Nat /\ resolution' \in {"settled", "superseded"}
              /\ UNCHANGED <<memory, snapshot, decision, submission, route>>
  <2>1. decision.kind = "forfeit"
    BY <1>12 DEF IInv, WorkersKnow
  <2>2. match \in {"none", "consensus", "forfeit"} /\ ratings = IF match = "none" THEN 0 ELSE 1
    BY DEF IInv, TypeOK, RatedOnce
  <2>3. UNCHANGED <<memory, snapshot, decision, submission, route>> /\ resolution' = ResolutionResult
    BY <1>12 DEF AuthoritativeResolution
  <2>4. CASE match = "none"
    <3>1. ResolutionResult = "settled"
      BY <2>4 DEF ResolutionResult, IInv, MatchHasCause
    <3>2. match' = "forfeit" /\ ratings' = 1
      BY <1>12, <2>2, <2>4, <3>1 DEF AuthoritativeResolution, SettleRankedMatch
    <3> QED
      BY <2>1, <2>3, <2>4, <3>1, <3>2
      DEF RatedOnce, MatchHasCause, ClosedAgreesWithMatch, IInv
  <2>5. CASE match # "none"
    <3>1. UNCHANGED <<match, ratings>>
      BY <1>12, <2>5 DEF AuthoritativeResolution
    <3>2. ResolutionResult = IF match = "consensus" THEN "superseded" ELSE "settled"
      BY <2>5 DEF ResolutionResult
    <3> QED
      BY <2>1, <2>2, <2>3, <2>5, <3>1, <3>2
      DEF RatedOnce, MatchHasCause, ClosedAgreesWithMatch, IInv
  <2> QED
    BY <2>4, <2>5
<1>13. ASSUME NEW w \in Worker, worker[w].pc = "claimed",
              worker[w].kind = "forfeit", AuthoritativeResolution,
              NEW pc \in {"processed", "failed"},
              NEW result \in {"none", "settled", "superseded"},
              pc = "processed" => result = ResolutionResult,
              Advance(w, pc, result), faults' \in 0..MaxFaults
       PROVE  IInv'
  <2>1. /\ worker' \in [Worker -> WorkerState]
        /\ worker'[w].pc = pc /\ worker'[w].kind = "forfeit"
        /\ worker'[w].result = result
        /\ \A v \in Worker \ {w} : worker'[v] = worker[v]
    BY <1>0, <1>13 DEF Advance, TypeOK, WorkerState
  <2>2. TypeOK'
    BY <1>0, <1>12, <1>13, <2>1 DEF TypeOK
  <2>3. WorkersKnow'
    BY <1>12, <1>13, <2>1 DEF IInv, WorkersKnow
  <2>4. RowShape'
    BY <1>12, <1>13 DEF IInv, RowShape
  <2> QED
    BY <1>12, <1>13, <2>2, <2>3, <2>4 DEF IInv
<1>14. ASSUME NEW w \in Worker, ProcessForfeit(w) PROVE IInv'
  <2>1. ResolutionResult \in {"settled", "superseded"}
    BY DEF ResolutionResult
  <2> QED
    BY <1>0, <1>13, <1>14, <2>1 DEF ProcessForfeit, TypeOK
<1>15. ASSUME NEW w \in Worker, ProcessUnanswered(w) PROVE IInv'
  <2>1. faults' \in 0..MaxFaults
    BY <1>0, <1>15 DEF ProcessUnanswered, Fault, TypeOK
  <2> QED
    BY <1>13, <1>15, <2>1 DEF ProcessUnanswered
\* A worker drops out of its work or starts over; the row keeps its kind.
<1>16. ASSUME NEW w \in Worker, worker[w].pc # "idle",
              \/ worker' = [worker EXCEPT ![w] = Idle]
              \/ Advance(w, "failed", "none"),
              decision' \in Decision, decision'.kind = decision.kind,
              decision'.status # "none",
              decision'.status = "superseded" => decision.kind = "forfeit",
              ClosedAgreesWithMatch',
              UNCHANGED <<memory, snapshot, resolution, match, ratings,
                          submission, route>>,
              faults' \in 0..MaxFaults
       PROVE  IInv'
  <2>1. /\ worker' \in [Worker -> WorkerState]
        /\ worker'[w].pc \in {"idle", "failed"}
        /\ worker'[w].pc = "failed" => worker'[w].kind = worker[w].kind
        /\ \A v \in Worker \ {w} : worker'[v] = worker[v]
    BY <1>0, <1>16 DEF Advance, TypeOK, WorkerState, Idle
  <2>2. TypeOK'
    BY <1>0, <1>16, <2>1 DEF TypeOK
  <2>3. WorkersKnow'
    BY <1>16, <2>1 DEF IInv, WorkersKnow
  <2>4. RowShape'
    BY <1>16 DEF IInv, RowShape, WorkersKnow
  <2> QED
    BY <1>16, <2>2, <2>3, <2>4 DEF IInv, RatedOnce, MatchHasCause
<1>17. \A w \in Worker : worker[w].pc # "idle" => decision.status # "none"
  BY DEF IInv, WorkersKnow, RowShape
<1>18. ASSUME NEW w \in Worker, ProcessRollback(w) PROVE IInv'
  BY <1>0, <1>16, <1>17, <1>18
  DEF ProcessRollback, Fault, IInv, TypeOK, RowShape, ClosedAgreesWithMatch, database
<1>19. ASSUME NEW w \in Worker, WorkerStops(w) PROVE IInv'
  <2>1. /\ worker[w].pc # "idle" /\ worker' = [worker EXCEPT ![w] = Idle]
        /\ UNCHANGED <<memory, snapshot, decision, resolution, match, ratings,
                       submission, route>>
    BY <1>19 DEF WorkerStops, database
  <2>2. faults' \in 0..MaxFaults
    BY <1>0, <1>19 DEF WorkerStops, Fault, TypeOK
  <2>3. /\ decision' \in Decision /\ decision'.status # "none"
        /\ decision'.status = "superseded" => decision.kind = "forfeit"
        /\ ClosedAgreesWithMatch'
    BY <1>0, <1>17, <2>1 DEF IInv, TypeOK, RowShape, ClosedAgreesWithMatch
  <2> QED
    BY <1>16, <2>1, <2>2, <2>3
<1>20. ASSUME NEW w \in Worker, worker[w].pc = "processed"
       PROVE  /\ MarkedDecision(w) \in Decision
              /\ MarkedDecision(w).kind = decision.kind
              /\ MarkedDecision(w).status # "none"
              /\ MarkedDecision(w).status = "superseded" => decision.kind = "forfeit"
              /\ decision.kind = "forfeit" =>
                   /\ MarkedDecision(w).status = "settled" => match = "forfeit"
                   /\ MarkedDecision(w).status = "superseded" => match = "consensus"
  <2>1. worker[w].result \in {"settled", "superseded"}
    <3>1. worker[w].kind \in Kind
      BY <1>0, <1>20 DEF IInv, WorkersKnow, TypeOK, Decision
    <3> QED
      BY <1>20, <3>1 DEF IInv, WorkersKnow, Kind
  <2>2. CASE Holds(w)
    <3>1. MarkedDecision(w) = Released(worker[w].result, decision.wait)
      BY <2>2 DEF MarkedDecision
    <3>2. /\ MarkedDecision(w) \in Decision
          /\ MarkedDecision(w).kind = decision.kind
          /\ MarkedDecision(w).status = worker[w].result
      <4>1. decision \in Decision /\ decision.wait \in Nat
        BY <1>0 DEF TypeOK, Decision
      <4> QED
        BY <2>1, <3>1, <4>1, ReleasedType
    <3>3. worker[w].kind = decision.kind /\ decision.kind \in Kind
      BY <1>0, <1>20 DEF IInv, WorkersKnow, TypeOK, Decision
    <3> HIDE DEF MarkedDecision
    <3> QED
      BY <1>20, <2>1, <3>2, <3>3 DEF IInv, WorkersKnow, Kind
  <2>3. CASE ~Holds(w)
    BY <1>0, <1>17, <1>20, <2>3
    DEF MarkedDecision, IInv, TypeOK, RowShape, ClosedAgreesWithMatch
  <2> QED
    BY <2>2, <2>3
<1>21. ASSUME NEW w \in Worker, Mark(w) PROVE IInv'
  <2>1. /\ worker[w].pc = "processed" /\ decision' = MarkedDecision(w)
        /\ worker' = [worker EXCEPT ![w] = Idle]
        /\ UNCHANGED <<memory, snapshot, resolution, match, ratings, submission,
                       route, faults>>
    BY <1>21 DEF Mark
  <2>2. ClosedAgreesWithMatch'
    BY <1>20, <2>1 DEF ClosedAgreesWithMatch
  <2> QED
    BY <1>0, <1>16, <1>20, <2>1, <2>2 DEF TypeOK
<1>22. ASSUME NEW w \in Worker, MarkFails(w) PROVE IInv'
  <2>1. /\ worker[w].pc = "processed" /\ decision' \in {decision, MarkedDecision(w)}
        /\ Advance(w, "failed", "none")
        /\ UNCHANGED <<memory, snapshot, resolution, match, ratings, submission, route>>
        /\ faults' \in 0..MaxFaults
    BY <1>0, <1>22 DEF MarkFails, Fault, TypeOK
  <2>2. CASE decision' = MarkedDecision(w)
    <3>1. ClosedAgreesWithMatch'
      BY <1>20, <2>1, <2>2 DEF ClosedAgreesWithMatch
    <3> QED
      BY <1>16, <1>20, <2>1, <2>2, <3>1
  <2>3. CASE decision' = decision
    BY <1>0, <1>16, <1>17, <2>1, <2>3
    DEF IInv, TypeOK, RowShape, ClosedAgreesWithMatch
  <2> QED
    BY <2>1, <2>2, <2>3
<1>23. ASSUME NEW w \in Worker, MarkRetry(w) PROVE IInv'
  <2>1. /\ worker[w].pc = "failed" /\ worker' = [worker EXCEPT ![w] = Idle]
        /\ UNCHANGED <<memory, snapshot, resolution, match, ratings, submission,
                       route, faults>>
    BY <1>23 DEF MarkRetry
  <2>2. CASE Holds(w)
    <3>1. decision' = Released("pending", Backoff(decision.attempts))
      BY <1>23, <2>2 DEF MarkRetry
    <3>2. decision \in Decision /\ decision.attempts \in Nat
      BY <1>0 DEF TypeOK, Decision
    <3>3. Backoff(decision.attempts) \in Nat
      BY <3>2, BackoffType
    <3>4. /\ decision' \in Decision /\ decision'.kind = decision.kind
          /\ decision'.status = "pending"
      BY <3>1, <3>2, <3>3, ReleasedType
    <3> QED
      BY <1>0, <1>16, <2>1, <3>4 DEF TypeOK, ClosedAgreesWithMatch
  <2>3. CASE ~Holds(w)
    <3>1. decision' = decision
      BY <1>23, <2>3 DEF MarkRetry
    <3> QED
      BY <1>0, <1>16, <1>17, <2>1, <3>1
      DEF IInv, TypeOK, RowShape, ClosedAgreesWithMatch
  <2> QED
    BY <2>2, <2>3
<1>24. CASE UNCHANGED vars
  BY <1>0, <1>24, QuietStep DEF vars, TypeOK
<1> QED
  BY <1>1, <1>2, <1>3, <1>4, <1>5, <1>6, <1>7, <1>8, <1>9, <1>10, <1>11,
     <1>14, <1>15, <1>18, <1>19, <1>21, <1>22, <1>23, <1>24
  DEF Next, WorkerStep

-----------------------------------------------------------------------------

\* The type invariant and the inductive invariant hold throughout.
THEOREM IInvHolds == Spec => []IInv
BY InitIInv, NextIInv, PTL DEF Spec

\* Ratings change once per match, for any number of workers and faults.
THEOREM RatedOnceHolds == Spec => []RatedOnce
<1>1. IInv => RatedOnce
  BY DEF IInv
<1> QED
  BY IInvHolds, <1>1, PTL

\* A decision is closed with the status the match justifies.
THEOREM ClosedAgrees == Spec => []ClosedAgreesWithMatch
<1>1. IInv => ClosedAgreesWithMatch
  BY DEF IInv
<1> QED
  BY IInvHolds, <1>1, PTL

-----------------------------------------------------------------------------
(* The refinement.                                                         *)

\* Steps that leave the match and the decision's verdict alone are invisible.
LEMMA Invisible ==
    ASSUME IInv,
           match' = match, decision'.kind = decision.kind,
           \/ decision'.status = decision.status
           \/ /\ decision.status \in {"pending", "processing"}
              /\ decision'.status \in {"pending", "processing"}
    PROVE  UNCHANGED Outcome!vars
BY DEF Outcome!vars, Verdict, Closed

\* The initial state is an initial state of RankedOutcome.
LEMMA InitRefines == Init => Outcome!Init
BY DEF Init, Outcome!Init, Verdict, Closed

\* Every step is a step of RankedOutcome or changes nothing it shows.
LEMMA NextRefines == IInv /\ [Next]_vars => [Outcome!Next]_(Outcome!vars)
<1> SUFFICES ASSUME IInv, [Next]_vars
             PROVE  Outcome!Next \/ UNCHANGED Outcome!vars
  OBVIOUS
<1>0. TypeOK /\ decision \in Decision
  BY DEF IInv, TypeOK
<1>1. CASE UNCHANGED <<match, decision>>
  BY <1>1, Invisible
<1>2. CASE Persist
  <2>1. match' = match
    BY <1>2 DEF Persist
  <2>2. CASE Derived(memory) # "none" /\ decision.kind = "none"
    <3>1. decision'.kind \in Kind /\ decision'.status = "pending"
      BY <1>0, <1>2, <2>2 DEF Persist, Derived, Decision
    <3>2. Verdict = "none"
      BY <2>2 DEF Verdict, Closed, IInv, RowShape
    <3>3. Verdict' = decision'.kind
      BY <3>1 DEF Verdict, Closed
    <3> QED
      BY <2>1, <3>1, <3>2, <3>3 DEF Outcome!Next, Outcome!Decide, Outcome!Open, Kind
  <2>3. CASE ~(Derived(memory) # "none" /\ decision.kind = "none")
    BY <1>2, <2>1, <2>3, Invisible DEF Persist
  <2> QED
    BY <2>2, <2>3
<1>3. CASE Tick
  BY <1>0, <1>3, Invisible DEF Tick, Decision
<1>4. ASSUME NEW p \in Side, NEW proof \in Proof, SubmitAgreeing(p, proof)
      PROVE  Outcome!Next
  <2>1. match = "none" /\ match' = "consensus" /\ decision.kind = "none" /\ decision' = decision
    BY <1>4 DEF SubmitAgreeing, SettleRankedMatch, RejectedUnderLock, ServerOwned
  <2>2. Verdict = "none" /\ Verdict' = "none"
    BY <2>1 DEF Verdict, Closed, IInv, RowShape
  <2> QED
    BY <2>1, <2>2 DEF Outcome!Next, Outcome!Agree
<1>5. ASSUME NEW w \in Worker, Claim(w) PROVE UNCHANGED Outcome!vars
  <2>1. /\ match' = match /\ decision'.kind = decision.kind
        /\ decision'.status = "processing"
    BY <1>0, <1>5 DEF Claim, Decision
  <2>2. decision.status \in {"pending", "processing"}
    BY <1>5 DEF Claim, Claimable
  <2> QED
    BY <2>1, <2>2, Invisible
<1>6. ASSUME NEW w \in Worker, worker[w].pc = "claimed",
             worker[w].kind = "forfeit", AuthoritativeResolution
      PROVE  Outcome!Next \/ UNCHANGED Outcome!vars
  <2>1. decision' = decision
    BY <1>6 DEF AuthoritativeResolution
  <2>2. CASE match = "none"
    <3>1. match' = "forfeit"
      BY <1>6, <2>2 DEF AuthoritativeResolution, ResolutionResult,
         SettleRankedMatch, IInv, MatchHasCause
    <3>2. decision.kind = "forfeit"
      BY <1>6 DEF IInv, WorkersKnow
    <3>3. decision.status \in {"pending", "processing"}
      BY <1>0, <2>2, <3>2 DEF IInv, ClosedAgreesWithMatch, RowShape, Decision
    <3>4. Verdict = "forfeit" /\ Verdict' = "forfeit"
      BY <2>1, <3>2, <3>3 DEF Verdict, Closed
    <3> QED
      BY <2>2, <3>1, <3>4 DEF Outcome!Next, Outcome!Award
  <2>3. CASE match # "none"
    BY <1>6, <2>1, <2>3, Invisible DEF AuthoritativeResolution
  <2> QED
    BY <2>2, <2>3
<1>7. ASSUME NEW w \in Worker, worker[w].pc = "processed",
             decision' = MarkedDecision(w), match' = match
      PROVE  Outcome!Next \/ UNCHANGED Outcome!vars
  <2>1. CASE Holds(w)
    <3>1. worker[w].kind = decision.kind /\ decision.kind \in Kind
      BY <1>0, <1>7 DEF IInv, WorkersKnow, Decision
    <3>2. worker[w].result \in {"settled", "superseded"}
      BY <1>7, <3>1 DEF IInv, WorkersKnow, Kind
    <3>3. decision.wait \in Nat
      BY <1>0 DEF Decision
    <3>4. decision'.kind = decision.kind /\ decision'.status = worker[w].result
      BY <1>0, <1>7, <2>1, <3>2, <3>3, ReleasedType DEF MarkedDecision
    <3>5. Verdict = decision.kind
      BY <2>1 DEF Holds, Verdict, Closed
    <3>6. CASE decision.kind = "no_contest"
      <4>1. Verdict' = "void"
        BY <3>2, <3>4, <3>6 DEF Verdict, Closed
      <4> QED
        BY <1>7, <3>5, <3>6, <4>1 DEF Outcome!Next, Outcome!Close
    <3>7. CASE decision.kind = "forfeit"
      <4>1. Verdict' = worker[w].result
        BY <3>2, <3>4, <3>7 DEF Verdict, Closed
      <4>2. \/ worker[w].result = "settled" /\ match = "forfeit"
            \/ worker[w].result = "superseded" /\ match = "consensus"
        BY <1>7, <3>1, <3>7 DEF IInv, WorkersKnow
      <4> QED
        BY <1>7, <3>5, <3>7, <4>1, <4>2 DEF Outcome!Next, Outcome!Close
    <3> QED
      BY <3>1, <3>6, <3>7 DEF Kind
  <2>2. CASE ~Holds(w)
    BY <1>7, <2>2, Invisible DEF MarkedDecision
  <2> QED
    BY <2>1, <2>2
<1>8. ASSUME NEW w \in Worker, MarkRetry(w) PROVE UNCHANGED Outcome!vars
  <2>1. match' = match
    BY <1>8 DEF MarkRetry
  <2>2. CASE Holds(w)
    <3>1. decision.attempts \in Nat
      BY <1>0 DEF Decision
    <3>2. Backoff(decision.attempts) \in Nat
      BY <3>1, BackoffType
    <3>3. decision'.kind = decision.kind /\ decision'.status = "pending"
      BY <1>0, <1>8, <2>2, <3>2, ReleasedType DEF MarkRetry
    <3> QED
      BY <2>1, <2>2, <3>3, Invisible DEF Holds
  <2>3. CASE ~Holds(w)
    BY <1>8, <2>1, <2>3, Invisible DEF MarkRetry
  <2> QED
    BY <2>2, <2>3
<1>9. CASE Resolve \/ Restart
  BY <1>1, <1>9 DEF Resolve, Restart, database
<1>10. ASSUME NEW p \in Side,
              \/ SubmitCheck(p) \/ SubmitRollback(p)
              \/ \E proof \in Proof \cup {"flagged"} : SubmitAlone(p, proof)
              \/ \E proof \in Proof : SubmitDisagreeing(p, proof)
       PROVE  UNCHANGED Outcome!vars
  BY <1>1, <1>10, Invisible
  DEF SubmitCheck, SubmitRollback, SubmitAlone, SubmitDisagreeing, database
<1>11. ASSUME NEW w \in Worker,
              ProcessNoContest(w) \/ ProcessRollback(w) \/ WorkerStops(w)
       PROVE  UNCHANGED Outcome!vars
  BY <1>11, Invisible DEF ProcessNoContest, ProcessRollback, WorkerStops, database
<1>12. ASSUME NEW w \in Worker, ProcessForfeit(w) \/ ProcessUnanswered(w)
       PROVE  Outcome!Next \/ UNCHANGED Outcome!vars
  BY <1>6, <1>12 DEF ProcessForfeit, ProcessUnanswered
<1>13. ASSUME NEW w \in Worker, Mark(w) \/ MarkFails(w)
       PROVE  Outcome!Next \/ UNCHANGED Outcome!vars
  BY <1>7, <1>13, Invisible DEF Mark, MarkFails
<1> QED
  BY <1>1, <1>2, <1>3, <1>4, <1>5, <1>8, <1>9, <1>10, <1>11, <1>12, <1>13
  DEF Next, WorkerStep, vars

\* The two tables implement RankedOutcome.
THEOREM Implements == Spec => ImplementsOutcome
<1>1. Init /\ [][Next]_vars /\ []IInv => Outcome!Init /\ [][Outcome!Next]_(Outcome!vars)
  BY InitRefines, NextRefines, PTL
<1> QED
  BY <1>1, IInvHolds, PTL DEF Spec, ImplementsOutcome, Outcome!Spec

\* A proof that arrives after the server's outcome is not rated.
THEOREM ServerOutcomeStandsHolds == Spec => ServerOutcomeStands
<1>1. [Next]_vars =>
        [match' # match /\ match' = "consensus" =>
            Derived(memory) = "none" /\ decision.kind = "none"]_vars
  <2> SUFFICES ASSUME Next, match' # match, match' = "consensus"
               PROVE  Derived(memory) = "none" /\ decision.kind = "none"
    BY DEF vars
  <2> QED
    BY DEF Next, WorkerStep, Resolve, Persist, Restart, Tick, SubmitCheck,
       SubmitRollback, SubmitAlone, SubmitDisagreeing, SubmitAgreeing,
       RejectedUnderLock, ServerOwned, SettleRankedMatch, Claim,
       ProcessNoContest, ProcessForfeit, ProcessUnanswered, ProcessRollback,
       AuthoritativeResolution, Mark, MarkFails, MarkRetry, WorkerStops, database
<1> QED
  BY <1>1, PTL DEF Spec, ServerOutcomeStands

-----------------------------------------------------------------------------
(* RankedSeasons.                                                          *)

Season ==
    [ start : Nat, end : Nat, state : {"active", "archived"},
      standings : SUBSET (1..MaxResults) ]

\* Seasons of one length that follow one another, of which the last alone is
\* active.
Succession(S) ==
    /\ S \in Seq(Season)
    /\ \A i \in DOMAIN S :
          /\ S[i].end = S[i].start + Duration
          /\ S[i].state = "active" <=> i = Len(S)
          /\ i > 1 => S[i].start = S[i - 1].end
    /\ \A i, j \in DOMAIN S : i < j => S[i].end <= S[j].start

\* Each result is one of its season, and a season that is over has its
\* results and the earlier ones.
Accounted(S, R) ==
    /\ \A r \in DOMAIN R :
          /\ R[r].season \in DOMAIN S
          /\ S[R[r].season].start <= R[r].at /\ R[r].at < S[R[r].season].end
    /\ \A i \in DOMAIN S : i < Len(S) =>
          S[i].standings = {r \in DOMAIN R : R[r].season <= i}

\* No season is of the future.
Begun(S, t) == S # <<>> => S[Len(S)].start <= t

Result == [season : Nat, at : 0..MaxTime]

InSeason(S, t) ==
    /\ Succession(S) /\ Accounted(S, results) /\ Begun(S, t)

\* What a season's successor looks like.
Next1(S, start) ==
    [start |-> start, end |-> start + Duration, state |-> "active", standings |-> {}]

\* Times of a season.
LEMMA SeasonTimes ==
    ASSUME NEW S \in Seq(Season), NEW i \in DOMAIN S
    PROVE  /\ S[i] \in Season /\ S[i].start \in Nat /\ S[i].end \in Nat
           /\ S[i].standings \in SUBSET (1..MaxResults)
<1>1. S[i] \in Season
  OBVIOUS
<1>2. QED
  BY <1>1 DEF Season

\* A new season begins where no active one is in its way.
LEMMA Created ==
    ASSUME NEW S \in Seq(Season), NEW start \in Nat,
           \A i \in Seasons!Active(S) : S[i].end <= start,
           NEW next \in Seasons!CreateActiveSeason(S, start)
    PROVE  next = [seasons |-> Append(S, Next1(S, start)), season |-> Len(S) + 1]
<1>1. ~Seasons!Overlaps(S, start)
  <2>1. \A i \in Seasons!Active(S) : S[i].end \in Nat
    BY SeasonTimes DEF Seasons!Active
  <2>2. QED
    BY <2>1 DEF Seasons!Overlaps
<1>2. QED
  BY <1>1 DEF Seasons!CreateActiveSeason, Next1

\* The active seasons of a succession: its last.
LEMMA ActiveIsLast ==
    ASSUME NEW S, Succession(S), S # <<>>
    PROVE  Seasons!Active(S) = {Len(S)} /\ Len(S) \in DOMAIN S /\ Len(S) \in Nat \ {0}
<1>1. S \in Seq(Season) /\ Len(S) \in DOMAIN S /\ Len(S) \in Nat \ {0}
  BY DEF Succession
<1>2. QED
  BY <1>1 DEF Succession, Seasons!Active

\* The first season.
LEMMA FirstSeason ==
    ASSUME NEW S, NEW t \in Nat, InSeason(S, t), S = <<>>,
           NEW T \in Seasons!Transition(S, t)
    PROVE  InSeason(T, t)
<1>1. DOMAIN S = {} /\ S \in Seq(Season) /\ Len(S) = 0
  BY DEF InSeason, Succession
<1>2. Seasons!Active(S) = {}
  BY <1>1 DEF Seasons!Active
<1>3. Seasons!Expired(S, t) = {} /\ Seasons!NextStart(S, t) = t
  BY <1>1, <1>2 DEF Seasons!Expired, Seasons!NextStart
<1>4. PICK next \in Seasons!CreateActiveSeason(S, t) : T = next.seasons
  BY <1>3 DEF Seasons!Transition
<1>5. T = Append(S, Next1(S, t))
  <2>1. next = [seasons |-> Append(S, Next1(S, t)), season |-> Len(S) + 1]
    BY <1>1, <1>2, <1>4, Created
  <2>2. QED
    BY <1>4, <2>1
<1>6. T \in Seq(Season) /\ Len(T) = 1 /\ DOMAIN T = {1} /\ T[1] = Next1(S, t)
  <2>1. Duration \in Nat
    BY SeasonsAssumed DEF Seasons!SeasonsAssumption
  <2>2. Next1(S, t) \in Season
    BY <2>1 DEF Next1, Season
  <2>3. QED
    BY <1>1, <1>5, <2>2
<1>7. DOMAIN results = {}
  BY <1>1 DEF InSeason, Accounted
<1>8. Succession(T)
  BY <1>6 DEF Succession, Next1
<1>9. Accounted(T, results) /\ Begun(T, t)
  BY <1>6, <1>7 DEF Accounted, Begun, Next1
<1>10. QED
  BY <1>8, <1>9 DEF InSeason

\* A season that is over is archived with all results, as its successor opens.
LEMMA SeasonArchived ==
    ASSUME NEW S, NEW t \in Nat, InSeason(S, t), S # <<>>, S[Len(S)].end <= t,
           DOMAIN results \subseteq 1..MaxResults,
           NEW T \in Seasons!ArchiveOldestExpiredSeason(S, t)
    PROVE  InSeason(T, t)
<1> DEFINE n == Len(S)
<1>1. /\ Succession(S) /\ S \in Seq(Season) /\ n \in DOMAIN S /\ n \in Nat \ {0}
      /\ Seasons!Active(S) = {n}
  BY ActiveIsLast DEF InSeason, Succession
<1>2. Seasons!Expired(S, t) = {n} /\ Seasons!Oldest(S, {n}) = n
  <2>1. S[n].end \in Nat
    BY <1>1, SeasonTimes
  <2>2. QED
    BY <1>1, <2>1 DEF Seasons!Expired, Seasons!Oldest
<1>3. PICK next \in Seasons!CreateActiveSeason(S, S[n].end) :
         T = [next.seasons EXCEPT ![n].state = "archived", ![n].standings = DOMAIN results]
  BY <1>2 DEF Seasons!ArchiveOldestExpiredSeason
<1>4. S[n] \in Season /\ S[n].end \in Nat /\ S[n].end = S[n].start + Duration /\ Duration \in Nat \ {0}
  <2>1. S[n] \in Season /\ S[n].end \in Nat
    BY <1>1, SeasonTimes
  <2>2. QED
    BY <1>1, <2>1, SeasonsAssumed DEF Succession, Seasons!SeasonsAssumption
<1> DEFINE new == Next1(S, S[n].end)
           old == [S[n] EXCEPT !.state = "archived", !.standings = DOMAIN results]
<1>5. next.seasons = Append(S, new)
  <2>1. next = [seasons |-> Append(S, new), season |-> Len(S) + 1]
    BY <1>1, <1>3, <1>4, Created
  <2>2. QED
    BY <2>1
<1>6. new \in Season /\ old \in Season
  <2>1. {} \in SUBSET (1..MaxResults) /\ DOMAIN results \in SUBSET (1..MaxResults)
    OBVIOUS
  <2>2. S[n].end + Duration \in Nat
    BY <1>4
  <2>3. new \in Season
    BY <1>4, <2>1, <2>2 DEF Next1, Season
  <2>4. old \in Season
    BY <1>4, <2>1 DEF Season
  <2>5. QED
    BY <2>3, <2>4
<1>7. T = [Append(S, new) EXCEPT ![n] = old]
  <2>1. Append(S, new)[n] = S[n] /\ n \in DOMAIN Append(S, new)
    <3> HIDE DEF new
    <3>1. QED
      BY <1>1, <1>6
  <2>2. T = [Append(S, new) EXCEPT ![n].state = "archived", ![n].standings = DOMAIN results]
    BY <1>3, <1>5
  <2> DEFINE A == Append(S, new)
  <2>3. A[n] = S[n] /\ n \in DOMAIN A
    BY <2>1
  <2>4. T = [A EXCEPT ![n].state = "archived", ![n].standings = DOMAIN results]
    BY <2>2
  <2> HIDE DEF A, n
  <2>5. T = [A EXCEPT ![n] = [S[n] EXCEPT !.state = "archived", !.standings = DOMAIN results]]
    BY <2>3, <2>4
  <2>6. QED
    BY <2>5 DEF A, n
<1>8. /\ T \in Seq(Season) /\ Len(T) = n + 1 /\ DOMAIN T = 1..(n + 1) /\ DOMAIN S = 1..n
      /\ T[n] = old /\ T[n + 1] = new
      /\ \A i \in 1..n : i < n => T[i] = S[i]
  <2> HIDE DEF old, new
  <2> DEFINE A == Append(S, new)
  <2>1. /\ A \in Seq(Season) /\ Len(A) = n + 1 /\ A[n + 1] = new
        /\ DOMAIN S = 1..n /\ \A i \in 1..n : A[i] = S[i]
    BY <1>1, <1>6
  <2>2. T = [A EXCEPT ![n] = old]
    BY <1>7
  <2> HIDE DEF A, n
  <2>3. DOMAIN A = 1..(n + 1) /\ n \in 1..(n + 1) /\ n + 1 # n
    BY <1>1, <2>1
  <2>4. T \in Seq(Season) /\ Len(T) = n + 1 /\ DOMAIN T = 1..(n + 1)
    BY <1>6, <2>1, <2>2, <2>3, ExceptSeq
  <2>5. QED
    BY <1>1, <2>1, <2>2, <2>3, <2>4
<1>9. /\ old.start = S[n].start /\ old.end = S[n].end /\ old.state = "archived"
      /\ old.standings = DOMAIN results
      /\ new.start = S[n].end /\ new.end = S[n].end + Duration /\ new.state = "active"
  BY <1>4 DEF Next1, Season
<1> HIDE DEF old, new, n
<1>10. \A i \in 1..n : T[i].start = S[i].start /\ T[i].end = S[i].end
  BY <1>1, <1>8, <1>9
<1>11. \A i \in 1..n : S[i].end <= S[n].end /\ S[i].start \in Nat /\ S[i].end \in Nat
  <2>1. \A i \in 1..n : S[i].start \in Nat /\ S[i].end \in Nat
    BY <1>1, <1>8, SeasonTimes
  <2>2. \A i \in 1..n : i < n => S[i].end <= S[n].start
    BY <1>1, <1>8 DEF Succession
  <2>3. ASSUME NEW i \in 1..n PROVE S[i].end <= S[n].end
    <3>1. CASE i = n
      BY <1>4, <3>1
    <3>2. CASE i < n
      BY <1>1, <1>4, <2>1, <2>2, <3>2
    <3>3. QED
      BY <1>1, <3>1, <3>2
  <2>4. QED
    BY <2>1, <2>3
<1>12. Succession(T)
  <2>1. ASSUME NEW i \in 1..(n + 1)
        PROVE  /\ T[i].end = T[i].start + Duration
               /\ T[i].state = "active" <=> i = n + 1
               /\ i > 1 => T[i].start = T[i - 1].end
    <3>1. CASE i = n + 1
      BY <1>1, <1>8, <1>9, <3>1
    <3>2. CASE i = n
      BY <1>1, <1>4, <1>8, <1>9, <1>10, <3>2 DEF Succession
    <3>3. CASE i < n
      BY <1>1, <1>8, <1>10, <3>3 DEF Succession, n
    <3>4. QED
      BY <1>1, <3>1, <3>2, <3>3
  <2>2. ASSUME NEW i \in 1..(n + 1), NEW j \in 1..(n + 1), i < j
        PROVE  T[i].end <= T[j].start
    <3>1. CASE j = n + 1
      BY <1>1, <1>8, <1>9, <1>10, <1>11, <2>2, <3>1
    <3>2. CASE j # n + 1
      BY <1>1, <1>8, <1>10, <2>2, <3>2 DEF Succession
    <3>3. QED
      BY <3>1, <3>2
  <2>3. QED
    BY <1>8, <2>1, <2>2 DEF Succession
<1>13. Accounted(T, results)
  <2>1. ASSUME NEW r \in DOMAIN results
        PROVE  /\ results[r].season \in DOMAIN T /\ results[r].season \in 1..n
               /\ T[results[r].season].start <= results[r].at
               /\ results[r].at < T[results[r].season].end
    <3>1. /\ results[r].season \in 1..n
          /\ S[results[r].season].start <= results[r].at
          /\ results[r].at < S[results[r].season].end
      BY <1>8 DEF InSeason, Accounted
    <3>2. QED
      BY <1>1, <1>8, <1>10, <3>1
  <2>2. ASSUME NEW i \in DOMAIN T, i < Len(T)
        PROVE  T[i].standings = {r \in DOMAIN results : results[r].season <= i}
    <3>1. CASE i = n
      BY <1>8, <1>9, <2>1, <3>1
    <3>2. CASE i # n
      BY <1>1, <1>8, <2>2, <3>2 DEF InSeason, Accounted, n
    <3>3. QED
      BY <3>1, <3>2
  <2>3. QED
    BY <2>1, <2>2 DEF Accounted
<1>14. Begun(T, t)
  BY <1>8, <1>9 DEF Begun, n
<1>15. QED
  BY <1>12, <1>13, <1>14 DEF InSeason

\* A round of the loop that finds no season for its time leaves a sound
\* succession.
LEMMA RoundKeeps ==
    ASSUME NEW S, NEW t \in Nat, InSeason(S, t), Seasons!ActiveSeasonAt(S, t) = {},
           DOMAIN results \subseteq 1..MaxResults,
           NEW T \in Seasons!Transition(S, t)
    PROVE  InSeason(T, t)
<1>1. CASE S = <<>>
  BY <1>1, FirstSeason
<1>2. CASE S # <<>>
  <2>1. /\ Seasons!Active(S) = {Len(S)} /\ Len(S) \in DOMAIN S /\ S \in Seq(Season)
        /\ S[Len(S)].start <= t
    BY <1>2, ActiveIsLast DEF InSeason, Succession, Begun
  <2>2. S[Len(S)].end \in Nat
    BY <2>1, SeasonTimes
  <2>3. S[Len(S)].end <= t
    BY <2>1, <2>2 DEF Seasons!ActiveSeasonAt
  <2>4. Seasons!Expired(S, t) # {}
    BY <2>1, <2>3 DEF Seasons!Expired
  <2>5. QED
    BY <1>2, <2>3, <2>4, SeasonArchived DEF Seasons!Transition
<1>3. QED
  BY <1>1, <1>2

\* What the loop has after n rounds, from what it had before the last.
AfterStep(S, t, f, n) ==
    IF n = 0 THEN {S}
    ELSE UNION {Seasons!Transition(T, t) :
                    T \in {U \in f[n - 1] : Seasons!ActiveSeasonAt(U, t) = {}}}

\* A set of numbers that is not empty has a least one.
LEMMA LeastNumber ==
    ASSUME NEW T \in SUBSET Nat, T # {}
    PROVE  \E m \in T : \A n \in T : m <= n
<1>1. IsWellFoundedOn(OpToRel(<, Nat), Nat)
  BY NatLessThanWellFounded
<1>2. PICK m \in T : \A n \in T : ~ (<<n, m>> \in OpToRel(<, Nat))
  BY <1>1, WFMin
<1>3. \A n \in T : n < m => <<n, m>> \in OpToRel(<, Nat)
  BY DEF OpToRel
<1>4. \A n \in T : ~ (n < m)
  BY <1>2, <1>3, Zenon
<1>5. QED
  BY <1>4

\* The recursive function of the loop exists: a least number of rounds for
\* which it does not is impossible.
LEMMA AfterExists ==
    ASSUME NEW S, NEW t, NEW N \in Nat
    PROVE  \E f : f = [n \in 0..N |-> AfterStep(S, t, f, n)]
<1> DEFINE R(f, k) == f = [n \in 0..k |-> AfterStep(S, t, f, n)]
           U == {k \in Nat : ~ \E f : R(f, k)}
<1>1. ASSUME U # {} PROVE FALSE
  <2>1. PICK k \in U : \A n \in U : k <= n
    BY <1>1, LeastNumber
  <2>2. CASE k = 0
    <3>1. R([n \in 0..0 |-> {S}], 0)
      BY DEF AfterStep
    <3>2. QED
      BY <2>2, <3>1
  <2>3. CASE k # 0
    <3>1. k - 1 \in Nat /\ ~(k - 1 \in U)
      BY <2>1, <2>3
    <3>2. PICK f : R(f, k - 1)
      BY <3>1
    <3> DEFINE g == [n \in 0..k |-> IF n < k THEN f[n] ELSE AfterStep(S, t, f, k)]
    <3>3. \A n \in 0..k : g[n] = AfterStep(S, t, g, n)
      <4> SUFFICES ASSUME NEW n \in 0..k PROVE g[n] = AfterStep(S, t, g, n)
        OBVIOUS
      <4>1. n # 0 => n - 1 \in 0..k /\ g[n - 1] = f[n - 1]
        OBVIOUS
      <4>2. ASSUME n < k PROVE f[n] = AfterStep(S, t, f, n)
        <5>1. n \in 0..(k - 1)
          BY <3>1, <4>2
        <5>2. QED
          BY <3>2, <5>1
      <4>3. AfterStep(S, t, g, n) = AfterStep(S, t, f, n)
        BY <4>1 DEF AfterStep
      <4>4. QED
        BY <4>2, <4>3
    <3>4. R(g, k)
      BY <3>3
    <3>5. QED
      BY <3>4, <2>1
  <2>4. QED
    BY <2>2, <2>3
<1>2. QED
  BY <1>1

\* What createSeasonContainingNow makes of a sound succession: a sound one
\* whose last season contains the time.
LEMMA ContainingFound ==
    ASSUME NEW S, NEW t \in Nat, InSeason(S, t), DOMAIN results \subseteq 1..MaxResults,
           NEW next \in Seasons!SeasonContaining(S, t)
    PROVE  /\ InSeason(next.seasons, t)
           /\ next.season \in DOMAIN next.seasons /\ next.season = Len(next.seasons)
           /\ next.seasons[next.season].start <= t
           /\ t < next.seasons[next.season].end
<1> DEFINE N == Seasons!Rounds(t)
           F == CHOOSE f : f = [n \in 0..N |->
                    IF n = 0 THEN {S}
                    ELSE UNION {Seasons!Transition(T, t) :
                            T \in {U \in f[n - 1] : Seasons!ActiveSeasonAt(U, t) = {}}}]
<1>1. N \in Nat
  BY DEF Seasons!Rounds
<1>2. F = [n \in 0..N |-> AfterStep(S, t, F, n)]
  <2> HIDE DEF N
  <2>1. \E f : f = [n \in 0..N |-> AfterStep(S, t, f, n)]
    BY <1>1, AfterExists
  <2>2. QED
    BY <2>1, ZenonT(40) DEF AfterStep
<1>3. Seasons!SeasonContaining(S, t) =
        UNION {{[seasons |-> T, season |-> i] : i \in Seasons!ActiveSeasonAt(T, t)} :
                   T \in UNION {F[n] : n \in 0..N}}
  BY DEF Seasons!SeasonContaining
<1> HIDE DEF F, N
<1> DEFINE B == {n \in Nat : n <= N /\ \E T \in F[n] : ~InSeason(T, t)}
<1>4. ASSUME B # {} PROVE FALSE
  <2>1. PICK n \in B : \A m \in B : n <= m
    BY <1>4, LeastNumber
  <2>2. n \in 0..N
    BY <1>1, <2>1
  <2>3. PICK T \in F[n] : ~InSeason(T, t)
    BY <2>1
  <2>4. F[n] = AfterStep(S, t, F, n)
    BY <1>2, <2>2
  <2>5. CASE n = 0
    BY <2>3, <2>4, <2>5 DEF AfterStep
  <2>6. CASE n # 0
    <3>1. n - 1 \in Nat /\ n - 1 <= N /\ ~(n - 1 \in B)
      BY <1>1, <2>1, <2>2, <2>6
    <3>2. \A U \in F[n - 1] : InSeason(U, t)
      BY <3>1
    <3>3. PICK U \in F[n - 1] :
             Seasons!ActiveSeasonAt(U, t) = {} /\ T \in Seasons!Transition(U, t)
      BY <2>3, <2>4, <2>6 DEF AfterStep
    <3>4. QED
      BY <2>3, <3>2, <3>3, RoundKeeps
  <2>7. QED
    BY <2>5, <2>6
<1>5. PICK T \in UNION {F[n] : n \in 0..N} :
         next \in {[seasons |-> T, season |-> i] : i \in Seasons!ActiveSeasonAt(T, t)}
  BY <1>3
<1>6. PICK i \in Seasons!ActiveSeasonAt(T, t) : next = [seasons |-> T, season |-> i]
  BY <1>5
<1>7. InSeason(T, t)
  BY <1>1, <1>4, <1>5
<1>8. i \in DOMAIN T /\ i \in Seasons!Active(T) /\ T[i].start <= t /\ t < T[i].end
  BY DEF Seasons!ActiveSeasonAt, Seasons!Active
<1>9. T # <<>>
  BY <1>8
<1>10. i = Len(T)
  BY <1>7, <1>8, <1>9, ActiveIsLast DEF InSeason
<1>11. next.seasons = T /\ next.season = i
  BY <1>6
<1>12. QED
  BY <1>7, <1>8, <1>10, <1>11

\* The inductive invariant of the seasons, while nobody waits for the lock.
SeasonsInv ==
    /\ now \in 0..MaxTime
    /\ results \in Seq(Result) /\ Len(results) <= MaxResults
    /\ task \in [Worker -> [on : {"nothing", "settlement", "read", "reset"}, at : 0..MaxTime]]
    /\ \A w \in Worker : task[w] # Seasons!Idle => task[w].at = now
    /\ InSeason(seasons, now)

\* At first there are no seasons.
LEMMA SeasonsInit == Seasons!Init => SeasonsInv
<1> SUFFICES ASSUME Seasons!Init PROVE SeasonsInv
  OBVIOUS
<1> USE SeasonsAssumed DEF Seasons!SeasonsAssumption
<1>1. /\ now = 0 /\ seasons = <<>> /\ results = <<>>
      /\ task = [w \in Worker |-> Seasons!Idle] /\ MaxTime \in Nat /\ MaxResults \in Nat
  BY DEF Seasons!Init
<1>2. InSeason(seasons, now)
  BY <1>1 DEF InSeason, Succession, Accounted, Begun
<1>3. results \in Seq(Result) /\ Len(results) <= MaxResults
  BY <1>1
<1>4. Seasons!Idle \in [on : {"nothing", "settlement", "read", "reset"}, at : 0..MaxTime]
  BY <1>1 DEF Seasons!Idle
<1>5. QED
  BY <1>1, <1>2, <1>3, <1>4 DEF SeasonsInv

\* A task that ends is idle, and was about its time.
LEMMA TaskEnds ==
    ASSUME SeasonsInv, NEW w \in Worker, NEW on \in {"settlement", "read", "reset"},
           Seasons!End(w, on)
    PROVE  /\ task[w].at = now
           /\ task' \in [Worker -> [on : {"nothing", "settlement", "read", "reset"},
                                    at : 0..MaxTime]]
           /\ \A v \in Worker : task'[v] # Seasons!Idle => task'[v] = task[v]
<1>1. task[w] # Seasons!Idle
  BY DEF Seasons!End, Seasons!Idle
<1>2. Seasons!Idle \in [on : {"nothing", "settlement", "read", "reset"}, at : 0..MaxTime]
  BY SeasonsAssumed DEF Seasons!Idle, Seasons!SeasonsAssumption
<1>3. QED
  BY <1>1, <1>2 DEF SeasonsInv, Seasons!End

\* A result rated at a time of the last season.
LEMMA Rated ==
    ASSUME NEW S, Succession(S), S # <<>>, NEW R \in Seq(Result), Accounted(S, R),
           NEW t \in 0..MaxTime, S[Len(S)].start <= t, t < S[Len(S)].end
    PROVE  Accounted(S, Append(R, [season |-> Len(S), at |-> t]))
<1> DEFINE n == Len(S)  new == [season |-> n, at |-> t]  T == Append(R, new)
<1>1. n \in DOMAIN S /\ n \in Nat \ {0} /\ DOMAIN S = 1..n
  BY DEF Succession
<1>2. new \in Result /\ new.season = n /\ new.at = t
  BY <1>1 DEF Result
<1> HIDE DEF n, new
<1>3. /\ DOMAIN T = 1..(Len(R) + 1) /\ DOMAIN R = 1..Len(R) /\ Len(R) \in Nat
      /\ T[Len(R) + 1] = new /\ \A r \in DOMAIN R : T[r] = R[r]
  BY <1>2
<1> HIDE DEF T
<1>4. ASSUME NEW r \in DOMAIN T
      PROVE  /\ T[r].season \in DOMAIN S
             /\ S[T[r].season].start <= T[r].at /\ T[r].at < S[T[r].season].end
  <2>1. CASE r = Len(R) + 1
    BY <1>1, <1>2, <1>3, <2>1 DEF n
  <2>2. CASE r # Len(R) + 1
    <3>1. r \in DOMAIN R
      BY <1>3, <2>2
    <3>2. QED
      BY <1>3, <3>1 DEF Accounted
  <2>3. QED
    BY <2>1, <2>2
<1>5. ASSUME NEW i \in DOMAIN S, i < n
      PROVE  S[i].standings = {r \in DOMAIN T : T[r].season <= i}
  <2>1. S[i].standings = {r \in DOMAIN R : R[r].season <= i}
    BY <1>5 DEF Accounted, n
  <2>2. ~(T[Len(R) + 1].season <= i)
    BY <1>1, <1>2, <1>3, <1>5
  <2>3. \A r \in DOMAIN T : T[r].season <= i <=> r \in DOMAIN R /\ R[r].season <= i
    BY <1>3, <2>2
  <2>4. DOMAIN R \subseteq DOMAIN T
    BY <1>3
  <2>5. QED
    BY <2>1, <2>3, <2>4
<1>6. QED
  BY <1>4, <1>5 DEF Accounted, n, new, T

\* Without waiting for the lock, whoever comes works with the present time:
\* a settlement,
LEMMA SettleKeeps ==
    ASSUME SeasonsInv, NEW w \in Worker, Seasons!Settle(w)
    PROVE  SeasonsInv'
<1>1. /\ task[w].at = now
      /\ task' \in [Worker -> [on : {"nothing", "settlement", "read", "reset"}, at : 0..MaxTime]]
      /\ \A v \in Worker : task'[v] # Seasons!Idle => task'[v] = task[v]
  BY TaskEnds DEF Seasons!Settle
<1>2. PICK next \in Seasons!SeasonContaining(seasons, now) :
         /\ seasons' = next.seasons
         /\ results' = Append(results, [season |-> next.season, at |-> now])
  BY <1>1 DEF Seasons!Settle
<1>3. /\ Len(results) < MaxResults /\ now' = now /\ now \in 0..MaxTime /\ now \in Nat
      /\ results \in Seq(Result) /\ InSeason(seasons, now) /\ MaxResults \in Nat
  BY SeasonsAssumed DEF Seasons!Settle, SeasonsInv, Seasons!SeasonsAssumption
<1>4. DOMAIN results \subseteq 1..MaxResults
  BY <1>3
<1>5. /\ InSeason(seasons', now) /\ seasons' # <<>> /\ next.season = Len(seasons')
      /\ seasons'[Len(seasons')].start <= now
      /\ now < seasons'[Len(seasons')].end
  BY <1>2, <1>3, <1>4, ContainingFound
<1>6. /\ Succession(seasons') /\ Accounted(seasons', results)
      /\ Begun(seasons', now)
  BY <1>5 DEF InSeason
<1>7. Accounted(seasons', results')
  BY <1>2, <1>3, <1>5, <1>6, Rated
<1>8. results' \in Seq(Result) /\ Len(results') <= MaxResults
  <2>1. Len(seasons') \in Nat
    BY <1>6 DEF Succession
  <2>2. [season |-> next.season, at |-> now] \in Result
    BY <1>3, <1>5, <2>1 DEF Result
  <2>3. QED
    BY <1>2, <1>3, <2>2
<1>9. \A v \in Worker : task'[v] # Seasons!Idle => task'[v].at = now'
  BY <1>1, <1>3 DEF SeasonsInv
<1>10. QED
  BY <1>1, <1>3, <1>6, <1>7, <1>8, <1>9 DEF SeasonsInv, InSeason

\* a reader,
LEMMA ReadKeeps ==
    ASSUME SeasonsInv, NEW w \in Worker, Seasons!Read(w)
    PROVE  SeasonsInv'
<1>1. /\ task[w].at = now
      /\ task' \in [Worker -> [on : {"nothing", "settlement", "read", "reset"}, at : 0..MaxTime]]
      /\ \A v \in Worker : task'[v] # Seasons!Idle => task'[v] = task[v]
  BY TaskEnds DEF Seasons!Read
<1>2. PICK next \in Seasons!SeasonContaining(seasons, now) : seasons' = next.seasons
  BY <1>1 DEF Seasons!Read
<1>3. /\ now' = now /\ results' = results /\ now \in 0..MaxTime /\ now \in Nat
      /\ results \in Seq(Result) /\ Len(results) <= MaxResults
      /\ InSeason(seasons, now) /\ MaxResults \in Nat
  BY SeasonsAssumed DEF Seasons!Read, SeasonsInv, Seasons!SeasonsAssumption
<1>4. DOMAIN results \subseteq 1..MaxResults
  BY <1>3
<1>5. InSeason(seasons', now)
  BY <1>2, <1>3, <1>4, ContainingFound
<1>6. Succession(seasons') /\ Accounted(seasons', results') /\ Begun(seasons', now')
  BY <1>3, <1>5 DEF InSeason
<1>7. \A v \in Worker : task'[v] # Seasons!Idle => task'[v].at = now'
  BY <1>1, <1>3 DEF SeasonsInv
<1>8. QED
  BY <1>1, <1>3, <1>6, <1>7 DEF SeasonsInv, InSeason

\* and the operator's reset.
LEMMA ResetKeeps ==
    ASSUME SeasonsInv, NEW w \in Worker, Seasons!Reset(w)
    PROVE  SeasonsInv'
<1>1. /\ task[w].at = now
      /\ task' \in [Worker -> [on : {"nothing", "settlement", "read", "reset"}, at : 0..MaxTime]]
      /\ \A v \in Worker : task'[v] # Seasons!Idle => task'[v] = task[v]
  BY TaskEnds DEF Seasons!Reset
<1>2. /\ Seasons!Expired(seasons, now) # {}
      /\ seasons' \in Seasons!ArchiveOldestExpiredSeason(seasons, now)
  BY <1>1 DEF Seasons!Reset
<1>3. /\ now' = now /\ results' = results /\ now \in 0..MaxTime /\ now \in Nat
      /\ results \in Seq(Result) /\ Len(results) <= MaxResults
      /\ InSeason(seasons, now) /\ MaxResults \in Nat
  BY SeasonsAssumed DEF Seasons!Reset, SeasonsInv, Seasons!SeasonsAssumption
<1>4. DOMAIN results \subseteq 1..MaxResults
  BY <1>3
<1>5. PICK i \in Seasons!Active(seasons) : seasons[i].end <= now
  BY <1>2 DEF Seasons!Expired
<1>6. seasons # <<>>
  BY DEF Seasons!Active
<1>7. i = Len(seasons)
  BY <1>3, <1>6, ActiveIsLast DEF InSeason
<1>8. InSeason(seasons', now)
  BY <1>2, <1>3, <1>4, <1>5, <1>6, <1>7, SeasonArchived
<1>9. \A v \in Worker : task'[v] # Seasons!Idle => task'[v].at = now'
  BY <1>1, <1>3 DEF SeasonsInv
<1>10. Succession(seasons') /\ Accounted(seasons', results') /\ Begun(seasons', now')
  BY <1>3, <1>8 DEF InSeason
<1>11. QED
  BY <1>1, <1>3, <1>9, <1>10 DEF SeasonsInv, InSeason

\* Every step keeps the seasons sound.
LEMMA SeasonsNext == SeasonsInv /\ Seasons!Next => SeasonsInv'
<1> SUFFICES ASSUME SeasonsInv, Seasons!Next PROVE SeasonsInv'
  OBVIOUS
<1>1. /\ now \in Nat /\ MaxTime \in Nat
      /\ Succession(seasons) /\ Accounted(seasons, results) /\ Begun(seasons, now)
  BY SeasonsAssumed DEF SeasonsInv, Seasons!SeasonsAssumption, InSeason
<1>2. CASE Seasons!Tick
  <2>1. \A w \in Worker : task[w] = Seasons!Idle
    BY <1>1, <1>2 DEF Seasons!Tick, SeasonsInv
  <2>2. /\ now' = now + 1 /\ now' \in 0..MaxTime
        /\ seasons' = seasons /\ results' = results /\ task' = task
    BY <1>1, <1>2 DEF Seasons!Tick
  <2>3. Begun(seasons, now')
    <3>1. ASSUME seasons # <<>> PROVE seasons[Len(seasons)].start <= now'
      <4>1. Len(seasons) \in DOMAIN seasons /\ seasons \in Seq(Season)
        BY <1>1, <3>1, ActiveIsLast DEF Succession
      <4>2. seasons[Len(seasons)].start \in Nat
        BY <4>1, SeasonTimes
      <4>3. QED
        BY <1>1, <2>2, <3>1, <4>2 DEF Begun
    <3>2. QED
      BY <3>1 DEF Begun
  <2>4. QED
    BY <1>1, <2>1, <2>2, <2>3 DEF SeasonsInv, InSeason
<1>3. ASSUME NEW w \in Worker, NEW on \in {"settlement", "read", "reset"}, Seasons!Begin(w, on)
      PROVE  SeasonsInv'
  <2>1. /\ now' = now /\ seasons' = seasons /\ results' = results
        /\ task' = [task EXCEPT ![w] = [on |-> on, at |-> now]]
    BY <1>3 DEF Seasons!Begin
  <2>2. [on |-> on, at |-> now]
           \in [on : {"nothing", "settlement", "read", "reset"}, at : 0..MaxTime]
    BY DEF SeasonsInv
  <2>3. QED
    BY <1>1, <2>1, <2>2 DEF SeasonsInv, InSeason
<1>4. ASSUME NEW w \in Worker, Seasons!RollBack(w) PROVE SeasonsInv'
  <2>1. /\ now' = now /\ seasons' = seasons /\ results' = results
        /\ task' = [task EXCEPT ![w] = Seasons!Idle]
    BY <1>4 DEF Seasons!RollBack
  <2>2. Seasons!Idle \in [on : {"nothing", "settlement", "read", "reset"}, at : 0..MaxTime]
    BY <1>1 DEF Seasons!Idle
  <2>3. QED
    BY <1>1, <2>1, <2>2 DEF SeasonsInv, InSeason
<1>5. QED
  BY <1>2, <1>3, <1>4, SettleKeeps, ReadKeeps, ResetKeeps DEF Seasons!Next

\* What the invariant says of the records.
LEMMA SeasonsSound ==
    SeasonsInv => /\ Seasons!TypeOK /\ Seasons!ResultsFallInSeason
                  /\ Seasons!SeasonsFollow /\ Seasons!StandingsAreExact
<1> SUFFICES ASSUME SeasonsInv
             PROVE  /\ Seasons!TypeOK /\ Seasons!ResultsFallInSeason
                    /\ Seasons!SeasonsFollow /\ Seasons!StandingsAreExact
  OBVIOUS
<1>1. /\ seasons \in Seq(Season) /\ results \in Seq(Result)
      /\ Succession(seasons) /\ Accounted(seasons, results)
      /\ \A i \in DOMAIN seasons : seasons[i] \in Season
      /\ \A r \in DOMAIN results : results[r] \in Result
  BY DEF SeasonsInv, InSeason, Succession
<1>2. Seasons!TypeOK
  <2>1. \A i \in DOMAIN seasons :
           seasons[i] \in [start : Nat, end : Nat, state : {"active", "archived"},
                           standings : SUBSET (1..MaxResults)]
    BY <1>1 DEF Season
  <2>2. \A r \in DOMAIN results : results[r] \in [season : DOMAIN seasons, at : 0..MaxTime]
    BY <1>1 DEF Result, Accounted
  <2>3. QED
    BY <2>1, <2>2 DEF SeasonsInv, Seasons!TypeOK
<1>3. Seasons!ResultsFallInSeason
  BY <1>1 DEF Accounted, Seasons!ResultsFallInSeason
<1>4. Seasons!SeasonsFollow
  BY <1>1 DEF Succession, Seasons!SeasonsFollow
<1>5. Seasons!StandingsAreExact
  <2>1. SUFFICES ASSUME NEW i \in DOMAIN seasons, seasons[i].state = "archived"
                 PROVE  seasons[i].standings =
                          {r \in DOMAIN results :
                              seasons[results[r].season].end <= seasons[i].end}
    BY DEF Seasons!StandingsAreExact
  <2>2. i < Len(seasons) /\ i \in Nat
    BY <1>1, <2>1 DEF Succession
  <2>3. seasons[i].standings = {r \in DOMAIN results : results[r].season <= i}
    BY <1>1, <2>2 DEF Accounted
  <2>4. \A k \in DOMAIN seasons :
           /\ k \in Nat /\ seasons[k].start \in Nat /\ seasons[k].end \in Nat
           /\ seasons[k].start < seasons[k].end
    BY <1>1, SeasonTimes, SeasonsAssumed DEF Succession, Seasons!SeasonsAssumption
  <2>5. ASSUME NEW k \in DOMAIN seasons
        PROVE  k <= i <=> seasons[k].end <= seasons[i].end
    <3>1. CASE k = i
      BY <2>4, <3>1
    <3>2. CASE k < i
      <4>1. seasons[k].end <= seasons[i].start
        BY <1>1, <3>2 DEF Succession
      <4>2. QED
        BY <2>4, <3>2, <4>1
    <3>3. CASE k > i
      <4>1. seasons[i].end <= seasons[k].start
        BY <1>1, <2>2, <2>4, <3>3 DEF Succession
      <4>2. QED
        BY <2>2, <2>4, <3>3, <4>1
    <3>4. QED
      BY <2>2, <2>4, <3>1, <3>2, <3>3
  <2>6. \A r \in DOMAIN results : results[r].season \in DOMAIN seasons
    BY <1>1 DEF Accounted
  <2>7. QED
    BY <2>3, <2>5, <2>6
<1>6. QED
  BY <1>2, <1>3, <1>4, <1>5

-----------------------------------------------------------------------------
(* ReplayArchive.                                                          *)

\* What a request has drawn an id for and not yet given up is its own: no
\* row, no answer and no other request or pruning knows it.
Own == {"storing", "inserting", "withdrawing", "discarding"}

OwnersAlone ==
    \A u \in Player : request[u].at \in Own =>
        /\ request[u].id \in 1..issued
        /\ row.id # request[u].id
        /\ request[u].id \notin forgotten
        /\ \A a \in answered : a.id # request[u].id
        /\ \A v \in Player : v # u /\ request[v].at \in Own \cup {"reading", "erasing"} =>
              request[v].id # request[u].id
        /\ \A p \in Process : pruning[p].at # "idle" => pruning[p].id # request[u].id

\* What is to be inserted is stored.
InsertersStored ==
    \A u \in Player :
        /\ request[u].at \in Own \cup {"comparing", "reading"} => request[u].identity \in Identity
        /\ request[u].at = "inserting" => blob[request[u].id] = request[u].identity

\* A row has the payload it was inserted with, or none any more.
RowSound ==
    /\ row.id = 0 => row = Archive!NoRow
    /\ row.id # 0 => row.identity \in Identity /\ blob[row.id] \in {row.identity, Unstored}

\* Who reads or erases a replay found it in the row, where it stays until its
\* time is up; a deleted one stays deleted.
GuestsKnow ==
    /\ \A u \in Player : request[u].at \in {"reading", "erasing"} =>
          /\ request[u].id \in 1..issued
          /\ left[request[u].id] > 0 => row.id = request[u].id
    /\ \A u \in Player : request[u].at = "erasing" /\ row.id = request[u].id => row.deleted
    /\ \A p \in Process : pruning[p].at # "idle" =>
          pruning[p].id \in 1..issued /\ left[pruning[p].id] = 0

\* Nobody was told of an id that was not drawn.
ToldWereDrawn ==
    /\ \A a \in answered : a.id <= issued
    /\ \A id \in forgotten : id <= issued

ArchiveInv ==
    /\ Archive!TypeOK
    /\ OwnersAlone /\ InsertersStored /\ RowSound /\ GuestsKnow /\ ToldWereDrawn
    /\ Archive!ReadableHasPayload /\ Archive!AnswersStand /\ Archive!DeletedIsGone

\* The steps of a request.
Step == {"idle", "storing", "inserting", "withdrawing", "discarding", "comparing",
         "reading", "erasing"}

\* A request that goes on keeps its id and what it says.
LEMMA Goes ==
    ASSUME request \in [Player ->
               [at : Step, id : 0..issued, identity : Identity \cup {Unstored}]],
           NEW u \in Player, NEW at \in Step, Archive!Goto(u, at)
    PROVE  request' = [request EXCEPT ![u] =
               [at |-> at, id |-> request[u].id, identity |-> request[u].identity]]
<1>1. request[u] \in [at : Step, id : 0..issued, identity : Identity \cup {Unstored}]
  OBVIOUS
<1>2. [request[u] EXCEPT !.at = at] =
          [at |-> at, id |-> request[u].id, identity |-> request[u].identity]
  BY <1>1
<1>3. QED
  BY <1>2 DEF Archive!Goto, Archive!Become

\* Who compares has found the row.
LEMMA Reads ==
    ASSUME request \in [Player ->
               [at : Step, id : 0..issued, identity : Identity \cup {Unstored}]],
           NEW u \in Player, row.id \in 0..issued
    PROVE  [request[u] EXCEPT !.at = "reading", !.id = row.id] =
               [at |-> "reading", id |-> row.id, identity |-> request[u].identity]
<1> DEFINE s == [request[u] EXCEPT !.at = "reading", !.id = row.id]
<1>1. request[u] \in [at : Step, id : 0..issued, identity : Identity \cup {Unstored}]
  OBVIOUS
<1>2. s \in [at : Step, id : 0..issued, identity : Identity \cup {Unstored}]
  BY <1>1 DEF Step
<1>3. s.at = "reading"
  BY <1>1
<1>4. s.id = row.id
  BY <1>1
<1>5. s.identity = request[u].identity
  BY <1>1
<1> HIDE DEF s
<1>6. s = [at |-> s.at, id |-> s.id, identity |-> s.identity]
  BY <1>2
<1>7. QED
  BY <1>3, <1>4, <1>5, <1>6 DEF s

\* An upload draws an id nobody knows.
LEMMA IngestKeeps ==
    ASSUME ArchiveInv, NEW u \in Player, NEW x \in Identity, Archive!Ingest(u, x)
    PROVE  ArchiveInv'
<1> USE ArchiveAssumed
    DEF Archive!ArchiveAssumption, ArchiveInv, Archive!StorageKey, Archive!ReplayId,
        Archive!NoRow, Own
<1>1. /\ request \in [Player -> [at : Step, id : 0..issued, identity : Identity \cup {Unstored}]]
      /\ issued \in Nat /\ issued <= MaxUploads /\ MaxUploads \in Nat
      /\ row.id \in 0..issued
      /\ request[u].at \in Step /\ request[u].id \in 0..issued
      /\ request[u].identity \in Identity \cup {Unstored}
  BY DEF Archive!TypeOK, Step
<1>2. /\ request[u].at = "idle" /\ issued < MaxUploads /\ failures' \in 0..MaxFailures
      /\ issued' = issued + 1
      /\ left' = [left EXCEPT ![issued + 1] = Retention]
      /\ UNCHANGED <<row, blob, pruning, wait, answered, forgotten>>
      /\ request' = [request EXCEPT ![u] =
          [at |-> "storing", id |-> issued + 1, identity |-> x]]
  BY <1>1
  DEF Archive!Ingest, Archive!At, Archive!Become, Archive!Put,
      Archive!DeleteReplayPayload, Archive!Idle, Archive!TypeOK, Step
<1>3. Archive!TypeOK'
  BY <1>1, <1>2 DEF Archive!TypeOK, OwnersAlone, InsertersStored, GuestsKnow, Step
<1>4. OwnersAlone'
  BY <1>1, <1>2 DEF OwnersAlone, Archive!TypeOK, ToldWereDrawn, GuestsKnow
<1>5. InsertersStored'
  BY <1>1, <1>2 DEF InsertersStored, Archive!TypeOK, OwnersAlone
<1>6. RowSound'
  BY <1>1, <1>2 DEF RowSound, Archive!TypeOK, OwnersAlone, InsertersStored
<1>7. GuestsKnow'
  BY <1>1, <1>2 DEF GuestsKnow, Archive!TypeOK, OwnersAlone, RowSound
<1>8. ToldWereDrawn'
  BY <1>1, <1>2 DEF ToldWereDrawn, Archive!TypeOK, OwnersAlone, GuestsKnow
<1>9. Archive!ReadableHasPayload'
  BY <1>1, <1>2
  DEF Archive!ReadableHasPayload, Archive!TypeOK, OwnersAlone, InsertersStored,
      RowSound, GuestsKnow
<1>10. Archive!AnswersStand'
  BY <1>1, <1>2
  DEF Archive!AnswersStand, Archive!TypeOK, OwnersAlone, InsertersStored, RowSound,
      GuestsKnow, ToldWereDrawn
<1>11. Archive!DeletedIsGone'
  BY <1>1, <1>2
  DEF Archive!DeletedIsGone, Archive!TypeOK, OwnersAlone, RowSound, GuestsKnow,
      ToldWereDrawn
<1>12. QED
  BY ONLY <1>3, <1>4, <1>5, <1>6, <1>7, <1>8, <1>9, <1>10, <1>11 DEF ArchiveInv

\* It stores its payload under the id, where no other replay is.
LEMMA PutReplayPayloadKeeps ==
    ASSUME ArchiveInv, NEW u \in Player, Archive!PutReplayPayload(u)
    PROVE  ArchiveInv'
<1> USE ArchiveAssumed
    DEF Archive!ArchiveAssumption, ArchiveInv, Archive!StorageKey, Archive!ReplayId,
        Archive!NoRow, Own
<1>1. /\ request \in [Player -> [at : Step, id : 0..issued, identity : Identity \cup {Unstored}]]
      /\ issued \in Nat /\ issued <= MaxUploads /\ MaxUploads \in Nat
      /\ row.id \in 0..issued
      /\ request[u].at \in Step /\ request[u].id \in 0..issued
      /\ request[u].identity \in Identity \cup {Unstored}
  BY DEF Archive!TypeOK, Step
<1>2. /\ request[u].at = "storing" /\ failures' \in 0..MaxFailures
      /\ blob' = [blob EXCEPT ![request[u].id] = request[u].identity]
      /\ UNCHANGED <<row, left, pruning, wait, issued, answered, forgotten>>
      /\ request' = [request EXCEPT ![u] =
          [at |-> "inserting", id |-> request[u].id, identity |-> request[u].identity]]
  BY <1>1, Goes
  DEF Archive!PutReplayPayload, Archive!At, Archive!Become, Archive!Put,
      Archive!DeleteReplayPayload, Archive!Idle, Archive!TypeOK, Step
<1>3. Archive!TypeOK'
  BY <1>1, <1>2 DEF Archive!TypeOK, OwnersAlone, InsertersStored, GuestsKnow, Step
<1>4. OwnersAlone'
  BY <1>1, <1>2 DEF OwnersAlone, Archive!TypeOK, ToldWereDrawn, GuestsKnow
<1>5. InsertersStored'
  BY <1>1, <1>2 DEF InsertersStored, Archive!TypeOK, OwnersAlone
<1>6. RowSound'
  BY <1>1, <1>2 DEF RowSound, Archive!TypeOK, OwnersAlone, InsertersStored
<1>7. GuestsKnow'
  BY <1>1, <1>2 DEF GuestsKnow, Archive!TypeOK, OwnersAlone, RowSound
<1>8. ToldWereDrawn'
  BY <1>1, <1>2 DEF ToldWereDrawn, Archive!TypeOK, OwnersAlone, GuestsKnow
<1>9. Archive!ReadableHasPayload'
  BY <1>1, <1>2
  DEF Archive!ReadableHasPayload, Archive!TypeOK, OwnersAlone, InsertersStored,
      RowSound, GuestsKnow
<1>10. Archive!AnswersStand'
  BY <1>1, <1>2
  DEF Archive!AnswersStand, Archive!TypeOK, OwnersAlone, InsertersStored, RowSound,
      GuestsKnow
<1>11. Archive!DeletedIsGone'
  BY <1>1, <1>2
  DEF Archive!DeletedIsGone, Archive!TypeOK, OwnersAlone, RowSound, GuestsKnow,
      ToldWereDrawn
<1>12. QED
  BY ONLY <1>3, <1>4, <1>5, <1>6, <1>7, <1>8, <1>9, <1>10, <1>11 DEF ArchiveInv

\* Its transaction inserts the row, or finds one.
LEMMA InsertReplayKeeps ==
    ASSUME ArchiveInv, NEW u \in Player, Archive!InsertReplay(u)
    PROVE  ArchiveInv'
<1> USE ArchiveAssumed
    DEF Archive!ArchiveAssumption, ArchiveInv, Archive!StorageKey, Archive!ReplayId,
        Archive!NoRow, Own
<1>1. /\ request \in [Player -> [at : Step, id : 0..issued, identity : Identity \cup {Unstored}]]
      /\ issued \in Nat /\ issued <= MaxUploads /\ MaxUploads \in Nat
      /\ row.id \in 0..issued
      /\ request[u].at \in Step /\ request[u].id \in 0..issued
      /\ request[u].identity \in Identity \cup {Unstored}
  BY DEF Archive!TypeOK, Step
<1>2. CASE row = Archive!NoRow
<2>1. /\ request[u].at = "inserting" /\ failures' \in 0..MaxFailures
      /\ row' =
          [id |-> request[u].id, identity |-> request[u].identity, deleted |-> FALSE]
      /\ answered' =
          answered \cup {[id |-> request[u].id, identity |-> request[u].identity]}
      /\ UNCHANGED <<left, blob, pruning, wait, issued, forgotten>>
      /\ request' = [request EXCEPT ![u] =
          [at |-> "idle", id |-> 0, identity |-> Unstored]]
  BY <1>2, <1>1
  DEF Archive!InsertReplay, Archive!InsertedRow, Archive!Told, Archive!At,
      Archive!Become, Archive!Put, Archive!DeleteReplayPayload, Archive!Idle,
      Archive!TypeOK, Step
<2>2. Archive!TypeOK'
  BY <1>2, <1>1, <2>1 DEF Archive!TypeOK, OwnersAlone, InsertersStored, GuestsKnow, Step
<2>3. OwnersAlone'
  BY <1>2, <1>1, <2>1 DEF OwnersAlone, Archive!TypeOK, ToldWereDrawn, GuestsKnow
<2>4. InsertersStored'
  BY <1>2, <1>1, <2>1 DEF InsertersStored, Archive!TypeOK, OwnersAlone
<2>5. RowSound'
  BY <1>2, <1>1, <2>1 DEF RowSound, Archive!TypeOK, OwnersAlone, InsertersStored
<2>6. GuestsKnow'
  BY <1>2, <1>1, <2>1 DEF GuestsKnow, Archive!TypeOK, OwnersAlone, RowSound
<2>7. ToldWereDrawn'
  BY <1>2, <1>1, <2>1 DEF ToldWereDrawn, Archive!TypeOK, OwnersAlone, GuestsKnow
<2>8. Archive!ReadableHasPayload'
  BY <1>2, <1>1, <2>1
  DEF Archive!ReadableHasPayload, Archive!TypeOK, OwnersAlone, InsertersStored,
      RowSound, GuestsKnow
<2>9. Archive!AnswersStand'
  BY <1>2, <1>1, <2>1
  DEF Archive!AnswersStand, Archive!TypeOK, OwnersAlone, InsertersStored, RowSound,
      GuestsKnow
<2>10. Archive!DeletedIsGone'
  BY <1>2, <1>1, <2>1
  DEF Archive!DeletedIsGone, Archive!TypeOK, OwnersAlone, RowSound, GuestsKnow,
      ToldWereDrawn
<2>11. QED
  BY ONLY <2>2, <2>3, <2>4, <2>5, <2>6, <2>7, <2>8, <2>9, <2>10 DEF ArchiveInv
<1>3. CASE row # Archive!NoRow
<2>1. /\ request[u].at = "inserting" /\ failures' \in 0..MaxFailures
      /\ UNCHANGED <<row, left, blob, pruning, wait, issued, answered, forgotten>>
      /\ request' = [request EXCEPT ![u] =
          [at |-> "discarding", id |-> request[u].id, identity |-> request[u].identity]]
  BY <1>3, <1>1, Goes
  DEF Archive!InsertReplay, Archive!InsertedRow, Archive!Told, Archive!At,
      Archive!Become, Archive!Put, Archive!DeleteReplayPayload, Archive!Idle,
      Archive!TypeOK, Step
<2>2. Archive!TypeOK'
  BY <1>3, <1>1, <2>1 DEF Archive!TypeOK, OwnersAlone, InsertersStored, GuestsKnow, Step
<2>3. OwnersAlone'
  BY <1>3, <1>1, <2>1 DEF OwnersAlone, Archive!TypeOK, ToldWereDrawn, GuestsKnow
<2>4. InsertersStored'
  BY <1>3, <1>1, <2>1 DEF InsertersStored, Archive!TypeOK, OwnersAlone
<2>5. RowSound'
  BY <1>3, <1>1, <2>1 DEF RowSound, Archive!TypeOK, OwnersAlone, InsertersStored
<2>6. GuestsKnow'
  BY <1>3, <1>1, <2>1 DEF GuestsKnow, Archive!TypeOK, OwnersAlone, RowSound
<2>7. ToldWereDrawn'
  BY <1>3, <1>1, <2>1 DEF ToldWereDrawn, Archive!TypeOK, OwnersAlone, GuestsKnow
<2>8. Archive!ReadableHasPayload'
  BY <1>3, <1>1, <2>1
  DEF Archive!ReadableHasPayload, Archive!TypeOK, OwnersAlone, InsertersStored,
      RowSound, GuestsKnow
<2>9. Archive!AnswersStand'
  BY <1>3, <1>1, <2>1
  DEF Archive!AnswersStand, Archive!TypeOK, OwnersAlone, InsertersStored, RowSound,
      GuestsKnow
<2>10. Archive!DeletedIsGone'
  BY <1>3, <1>1, <2>1
  DEF Archive!DeletedIsGone, Archive!TypeOK, OwnersAlone, RowSound, GuestsKnow,
      ToldWereDrawn
<2>11. QED
  BY ONLY <2>2, <2>3, <2>4, <2>5, <2>6, <2>7, <2>8, <2>9, <2>10 DEF ArchiveInv
<1>4. QED
  BY <1>2, <1>3

\* What it then discards is its own.
LEMMA DiscardPayloadKeeps ==
    ASSUME ArchiveInv, NEW u \in Player, Archive!DiscardPayload(u)
    PROVE  ArchiveInv'
<1> USE ArchiveAssumed
    DEF Archive!ArchiveAssumption, ArchiveInv, Archive!StorageKey, Archive!ReplayId,
        Archive!NoRow, Own
<1>1. /\ request \in [Player -> [at : Step, id : 0..issued, identity : Identity \cup {Unstored}]]
      /\ issued \in Nat /\ issued <= MaxUploads /\ MaxUploads \in Nat
      /\ row.id \in 0..issued
      /\ request[u].at \in Step /\ request[u].id \in 0..issued
      /\ request[u].identity \in Identity \cup {Unstored}
  BY DEF Archive!TypeOK, Step
<1>2. CASE request[u].at = "discarding"
<2>1. /\ request[u].at = "discarding" /\ failures' \in 0..MaxFailures
      /\ blob' = [blob EXCEPT ![request[u].id] = Unstored]
      /\ UNCHANGED <<row, left, pruning, wait, issued, answered, forgotten>>
      /\ request' = [request EXCEPT ![u] =
          [at |-> "comparing", id |-> request[u].id, identity |-> request[u].identity]]
  BY <1>2, <1>1, Goes
  DEF Archive!DiscardPayload, Archive!At, Archive!Become, Archive!Put,
      Archive!DeleteReplayPayload, Archive!Idle, Archive!TypeOK, Step
<2>2. Archive!TypeOK'
  BY <1>2, <1>1, <2>1 DEF Archive!TypeOK, OwnersAlone, InsertersStored, GuestsKnow, Step
<2>3. OwnersAlone'
  BY <1>2, <1>1, <2>1 DEF OwnersAlone, Archive!TypeOK, ToldWereDrawn, GuestsKnow
<2>4. InsertersStored'
  BY <1>2, <1>1, <2>1 DEF InsertersStored, Archive!TypeOK, OwnersAlone
<2>5. RowSound'
  BY <1>2, <1>1, <2>1 DEF RowSound, Archive!TypeOK, OwnersAlone, InsertersStored
<2>6. GuestsKnow'
  BY <1>2, <1>1, <2>1 DEF GuestsKnow, Archive!TypeOK, OwnersAlone, RowSound
<2>7. ToldWereDrawn'
  BY <1>2, <1>1, <2>1 DEF ToldWereDrawn, Archive!TypeOK, OwnersAlone, GuestsKnow
<2>8. Archive!ReadableHasPayload'
  BY <1>2, <1>1, <2>1
  DEF Archive!ReadableHasPayload, Archive!TypeOK, OwnersAlone, InsertersStored,
      RowSound, GuestsKnow
<2>9. Archive!AnswersStand'
  BY <1>2, <1>1, <2>1
  DEF Archive!AnswersStand, Archive!TypeOK, OwnersAlone, InsertersStored, RowSound,
      GuestsKnow
<2>10. Archive!DeletedIsGone'
  BY <1>2, <1>1, <2>1
  DEF Archive!DeletedIsGone, Archive!TypeOK, OwnersAlone, RowSound, GuestsKnow,
      ToldWereDrawn
<2>11. QED
  BY ONLY <2>2, <2>3, <2>4, <2>5, <2>6, <2>7, <2>8, <2>9, <2>10 DEF ArchiveInv
<1>3. CASE request[u].at # "discarding"
<2>1. /\ request[u].at = "withdrawing" /\ failures' \in 0..MaxFailures
      /\ blob' = [blob EXCEPT ![request[u].id] = Unstored]
      /\ UNCHANGED <<row, left, pruning, wait, issued, answered, forgotten>>
      /\ request' = [request EXCEPT ![u] =
          [at |-> "idle", id |-> 0, identity |-> Unstored]]
  BY <1>3, <1>1
  DEF Archive!DiscardPayload, Archive!At, Archive!Become, Archive!Put,
      Archive!DeleteReplayPayload, Archive!Idle, Archive!TypeOK, Step
<2>2. Archive!TypeOK'
  BY <1>3, <1>1, <2>1 DEF Archive!TypeOK, OwnersAlone, InsertersStored, GuestsKnow, Step
<2>3. OwnersAlone'
  BY <1>3, <1>1, <2>1 DEF OwnersAlone, Archive!TypeOK, ToldWereDrawn, GuestsKnow
<2>4. InsertersStored'
  BY <1>3, <1>1, <2>1 DEF InsertersStored, Archive!TypeOK, OwnersAlone
<2>5. RowSound'
  BY <1>3, <1>1, <2>1 DEF RowSound, Archive!TypeOK, OwnersAlone, InsertersStored
<2>6. GuestsKnow'
  BY <1>3, <1>1, <2>1 DEF GuestsKnow, Archive!TypeOK, OwnersAlone, RowSound
<2>7. ToldWereDrawn'
  BY <1>3, <1>1, <2>1 DEF ToldWereDrawn, Archive!TypeOK, OwnersAlone, GuestsKnow
<2>8. Archive!ReadableHasPayload'
  BY <1>3, <1>1, <2>1
  DEF Archive!ReadableHasPayload, Archive!TypeOK, OwnersAlone, InsertersStored,
      RowSound, GuestsKnow
<2>9. Archive!AnswersStand'
  BY <1>3, <1>1, <2>1
  DEF Archive!AnswersStand, Archive!TypeOK, OwnersAlone, InsertersStored, RowSound,
      GuestsKnow
<2>10. Archive!DeletedIsGone'
  BY <1>3, <1>1, <2>1
  DEF Archive!DeletedIsGone, Archive!TypeOK, OwnersAlone, RowSound, GuestsKnow,
      ToldWereDrawn
<2>11. QED
  BY ONLY <2>2, <2>3, <2>4, <2>5, <2>6, <2>7, <2>8, <2>9, <2>10 DEF ArchiveInv
<1>4. QED
  BY <1>2, <1>3

\* It finds the row there is,
LEMMA ReadExistingKeeps ==
    ASSUME ArchiveInv, NEW u \in Player, Archive!ReadExisting(u)
    PROVE  ArchiveInv'
<1> USE ArchiveAssumed
    DEF Archive!ArchiveAssumption, ArchiveInv, Archive!StorageKey, Archive!ReplayId,
        Archive!NoRow, Own
<1>1. /\ request \in [Player -> [at : Step, id : 0..issued, identity : Identity \cup {Unstored}]]
      /\ issued \in Nat /\ issued <= MaxUploads /\ MaxUploads \in Nat
      /\ row.id \in 0..issued
      /\ request[u].at \in Step /\ request[u].id \in 0..issued
      /\ request[u].identity \in Identity \cup {Unstored}
  BY DEF Archive!TypeOK, Step
<1>2. CASE row = Archive!NoRow \/ row.deleted
<2>1. /\ request[u].at = "comparing" /\ failures' \in 0..MaxFailures
      /\ UNCHANGED <<row, left, blob, pruning, wait, issued, answered, forgotten>>
      /\ request' = [request EXCEPT ![u] =
          [at |-> "idle", id |-> 0, identity |-> Unstored]]
  BY <1>2, <1>1
  DEF Archive!ReadExisting, Archive!At, Archive!Become, Archive!Put,
      Archive!DeleteReplayPayload, Archive!Idle, Archive!TypeOK, Step
<2>2. Archive!TypeOK'
  BY <1>2, <1>1, <2>1 DEF Archive!TypeOK, OwnersAlone, InsertersStored, GuestsKnow, Step
<2>3. OwnersAlone'
  BY <1>2, <1>1, <2>1 DEF OwnersAlone, Archive!TypeOK, ToldWereDrawn, GuestsKnow
<2>4. InsertersStored'
  BY <1>2, <1>1, <2>1 DEF InsertersStored, Archive!TypeOK, OwnersAlone
<2>5. RowSound'
  BY <1>2, <1>1, <2>1 DEF RowSound, Archive!TypeOK, OwnersAlone, InsertersStored
<2>6. GuestsKnow'
  BY <1>2, <1>1, <2>1 DEF GuestsKnow, Archive!TypeOK, OwnersAlone, RowSound
<2>7. ToldWereDrawn'
  BY <1>2, <1>1, <2>1 DEF ToldWereDrawn, Archive!TypeOK, OwnersAlone, GuestsKnow
<2>8. Archive!ReadableHasPayload'
  BY <1>2, <1>1, <2>1
  DEF Archive!ReadableHasPayload, Archive!TypeOK, OwnersAlone, InsertersStored,
      RowSound, GuestsKnow
<2>9. Archive!AnswersStand'
  BY <1>2, <1>1, <2>1
  DEF Archive!AnswersStand, Archive!TypeOK, OwnersAlone, InsertersStored, RowSound,
      GuestsKnow
<2>10. Archive!DeletedIsGone'
  BY <1>2, <1>1, <2>1
  DEF Archive!DeletedIsGone, Archive!TypeOK, OwnersAlone, RowSound, GuestsKnow,
      ToldWereDrawn
<2>11. QED
  BY ONLY <2>2, <2>3, <2>4, <2>5, <2>6, <2>7, <2>8, <2>9, <2>10 DEF ArchiveInv
<1>3. CASE ~(row = Archive!NoRow \/ row.deleted)
<2>1. /\ request[u].at = "comparing" /\ failures' \in 0..MaxFailures
      /\ UNCHANGED <<row, left, blob, pruning, wait, issued, answered, forgotten>>
      /\ request' = [request EXCEPT ![u] =
          [at |-> "reading", id |-> row.id, identity |-> request[u].identity]]
  BY <1>3, <1>1, Reads
  DEF Archive!ReadExisting, Archive!At, Archive!Become, Archive!Put,
      Archive!DeleteReplayPayload, Archive!Idle, Archive!TypeOK, Step
<2>2. Archive!TypeOK'
  BY <1>3, <1>1, <2>1 DEF Archive!TypeOK, OwnersAlone, InsertersStored, GuestsKnow, Step
<2>3. OwnersAlone'
  BY <1>3, <1>1, <2>1 DEF OwnersAlone, Archive!TypeOK, ToldWereDrawn, GuestsKnow
<2>4. InsertersStored'
  BY <1>3, <1>1, <2>1 DEF InsertersStored, Archive!TypeOK, OwnersAlone
<2>5. RowSound'
  BY <1>3, <1>1, <2>1 DEF RowSound, Archive!TypeOK, OwnersAlone, InsertersStored
<2>6. GuestsKnow'
  BY <1>3, <1>1, <2>1 DEF GuestsKnow, Archive!TypeOK, OwnersAlone, RowSound
<2>7. ToldWereDrawn'
  BY <1>3, <1>1, <2>1 DEF ToldWereDrawn, Archive!TypeOK, OwnersAlone, GuestsKnow
<2>8. Archive!ReadableHasPayload'
  BY <1>3, <1>1, <2>1
  DEF Archive!ReadableHasPayload, Archive!TypeOK, OwnersAlone, InsertersStored,
      RowSound, GuestsKnow
<2>9. Archive!AnswersStand'
  BY <1>3, <1>1, <2>1
  DEF Archive!AnswersStand, Archive!TypeOK, OwnersAlone, InsertersStored, RowSound,
      GuestsKnow
<2>10. Archive!DeletedIsGone'
  BY <1>3, <1>1, <2>1
  DEF Archive!DeletedIsGone, Archive!TypeOK, OwnersAlone, RowSound, GuestsKnow,
      ToldWereDrawn
<2>11. QED
  BY ONLY <2>2, <2>3, <2>4, <2>5, <2>6, <2>7, <2>8, <2>9, <2>10 DEF ArchiveInv
<1>4. QED
  BY <1>2, <1>3

\* and is told of a replay that has the payload of the row.
LEMMA CompareExistingKeeps ==
    ASSUME ArchiveInv, NEW u \in Player, Archive!CompareExisting(u)
    PROVE  ArchiveInv'
<1> USE ArchiveAssumed
    DEF Archive!ArchiveAssumption, ArchiveInv, Archive!StorageKey, Archive!ReplayId,
        Archive!NoRow, Own
<1>1. /\ request \in [Player -> [at : Step, id : 0..issued, identity : Identity \cup {Unstored}]]
      /\ issued \in Nat /\ issued <= MaxUploads /\ MaxUploads \in Nat
      /\ row.id \in 0..issued
      /\ request[u].at \in Step /\ request[u].id \in 0..issued
      /\ request[u].identity \in Identity \cup {Unstored}
  BY DEF Archive!TypeOK, Step
<1>2. CASE blob[request[u].id] = request[u].identity
<2>1. /\ request[u].at = "reading" /\ failures' \in 0..MaxFailures
      /\ answered' =
          answered \cup {[id |-> request[u].id, identity |-> request[u].identity]}
      /\ UNCHANGED <<row, left, blob, pruning, wait, issued, forgotten>>
      /\ request' = [request EXCEPT ![u] =
          [at |-> "idle", id |-> 0, identity |-> Unstored]]
  BY <1>2, <1>1
  DEF Archive!CompareExisting, Archive!Told, Archive!At, Archive!Become, Archive!Put,
      Archive!DeleteReplayPayload, Archive!Idle, Archive!TypeOK, Step
<2>2. Archive!TypeOK'
  BY <1>2, <1>1, <2>1 DEF Archive!TypeOK, OwnersAlone, InsertersStored, GuestsKnow, Step
<2>3. OwnersAlone'
  BY <1>2, <1>1, <2>1 DEF OwnersAlone, Archive!TypeOK, ToldWereDrawn, GuestsKnow
<2>4. InsertersStored'
  BY <1>2, <1>1, <2>1 DEF InsertersStored, Archive!TypeOK, OwnersAlone
<2>5. RowSound'
  BY <1>2, <1>1, <2>1 DEF RowSound, Archive!TypeOK, OwnersAlone, InsertersStored
<2>6. GuestsKnow'
  BY <1>2, <1>1, <2>1 DEF GuestsKnow, Archive!TypeOK, OwnersAlone, RowSound
<2>7. ToldWereDrawn'
  BY <1>2, <1>1, <2>1 DEF ToldWereDrawn, Archive!TypeOK, OwnersAlone, GuestsKnow
<2>8. Archive!ReadableHasPayload'
  BY <1>2, <1>1, <2>1
  DEF Archive!ReadableHasPayload, Archive!TypeOK, OwnersAlone, InsertersStored,
      RowSound, GuestsKnow
<2>9. Archive!AnswersStand'
  BY <1>2, <1>1, <2>1
  DEF Archive!AnswersStand, Archive!TypeOK, OwnersAlone, InsertersStored, RowSound,
      GuestsKnow
<2>10. Archive!DeletedIsGone'
  BY <1>2, <1>1, <2>1
  DEF Archive!DeletedIsGone, Archive!TypeOK, OwnersAlone, RowSound, GuestsKnow,
      ToldWereDrawn
<2>11. QED
  BY ONLY <2>2, <2>3, <2>4, <2>5, <2>6, <2>7, <2>8, <2>9, <2>10 DEF ArchiveInv
<1>3. CASE blob[request[u].id] # request[u].identity
<2>1. /\ request[u].at = "reading" /\ failures' \in 0..MaxFailures
      /\ UNCHANGED <<row, left, blob, pruning, wait, issued, answered, forgotten>>
      /\ request' = [request EXCEPT ![u] =
          [at |-> "idle", id |-> 0, identity |-> Unstored]]
  BY <1>3, <1>1
  DEF Archive!CompareExisting, Archive!Told, Archive!At, Archive!Become, Archive!Put,
      Archive!DeleteReplayPayload, Archive!Idle, Archive!TypeOK, Step
<2>2. Archive!TypeOK'
  BY <1>3, <1>1, <2>1 DEF Archive!TypeOK, OwnersAlone, InsertersStored, GuestsKnow, Step
<2>3. OwnersAlone'
  BY <1>3, <1>1, <2>1 DEF OwnersAlone, Archive!TypeOK, ToldWereDrawn, GuestsKnow
<2>4. InsertersStored'
  BY <1>3, <1>1, <2>1 DEF InsertersStored, Archive!TypeOK, OwnersAlone
<2>5. RowSound'
  BY <1>3, <1>1, <2>1 DEF RowSound, Archive!TypeOK, OwnersAlone, InsertersStored
<2>6. GuestsKnow'
  BY <1>3, <1>1, <2>1 DEF GuestsKnow, Archive!TypeOK, OwnersAlone, RowSound
<2>7. ToldWereDrawn'
  BY <1>3, <1>1, <2>1 DEF ToldWereDrawn, Archive!TypeOK, OwnersAlone, GuestsKnow
<2>8. Archive!ReadableHasPayload'
  BY <1>3, <1>1, <2>1
  DEF Archive!ReadableHasPayload, Archive!TypeOK, OwnersAlone, InsertersStored,
      RowSound, GuestsKnow
<2>9. Archive!AnswersStand'
  BY <1>3, <1>1, <2>1
  DEF Archive!AnswersStand, Archive!TypeOK, OwnersAlone, InsertersStored, RowSound,
      GuestsKnow
<2>10. Archive!DeletedIsGone'
  BY <1>3, <1>1, <2>1
  DEF Archive!DeletedIsGone, Archive!TypeOK, OwnersAlone, RowSound, GuestsKnow,
      ToldWereDrawn
<2>11. QED
  BY ONLY <2>2, <2>3, <2>4, <2>5, <2>6, <2>7, <2>8, <2>9, <2>10 DEF ArchiveInv
<1>4. QED
  BY <1>2, <1>3

\* An insert that fails may have been committed, with its payload.
LEMMA InsertFailsKeeps ==
    ASSUME ArchiveInv, NEW u \in Player, Archive!InsertFails(u)
    PROVE  ArchiveInv'
<1> USE ArchiveAssumed
    DEF Archive!ArchiveAssumption, ArchiveInv, Archive!StorageKey, Archive!ReplayId,
        Archive!NoRow, Own
<1>1. /\ request \in [Player -> [at : Step, id : 0..issued, identity : Identity \cup {Unstored}]]
      /\ issued \in Nat /\ issued <= MaxUploads /\ MaxUploads \in Nat
      /\ row.id \in 0..issued
      /\ request[u].at \in Step /\ request[u].id \in 0..issued
      /\ request[u].identity \in Identity \cup {Unstored}
  BY DEF Archive!TypeOK, Step
<1>2. CASE Archive!Goto(u, "withdrawing") /\ row' = row
<2>1. /\ request[u].at = "inserting" /\ failures' \in 0..MaxFailures
      /\ failures' = failures + 1
      /\ UNCHANGED <<row, left, blob, pruning, wait, issued, answered, forgotten>>
      /\ request' = [request EXCEPT ![u] =
          [at |-> "withdrawing", id |-> request[u].id, identity |-> request[u].identity]]
  BY <1>2, <1>1, Goes
  DEF Archive!InsertFails, Archive!InsertedRow, Archive!At, Archive!Become, Archive!Put,
      Archive!DeleteReplayPayload, Archive!Idle, Archive!TypeOK, Step
<2>2. Archive!TypeOK'
  BY <1>2, <1>1, <2>1 DEF Archive!TypeOK, OwnersAlone, InsertersStored, GuestsKnow, Step
<2>3. OwnersAlone'
  BY <1>2, <1>1, <2>1 DEF OwnersAlone, Archive!TypeOK, ToldWereDrawn, GuestsKnow
<2>4. InsertersStored'
  BY <1>2, <1>1, <2>1 DEF InsertersStored, Archive!TypeOK, OwnersAlone
<2>5. RowSound'
  BY <1>2, <1>1, <2>1 DEF RowSound, Archive!TypeOK, OwnersAlone, InsertersStored
<2>6. GuestsKnow'
  BY <1>2, <1>1, <2>1 DEF GuestsKnow, Archive!TypeOK, OwnersAlone, RowSound
<2>7. ToldWereDrawn'
  BY <1>2, <1>1, <2>1 DEF ToldWereDrawn, Archive!TypeOK, OwnersAlone, GuestsKnow
<2>8. Archive!ReadableHasPayload'
  BY <1>2, <1>1, <2>1
  DEF Archive!ReadableHasPayload, Archive!TypeOK, OwnersAlone, InsertersStored,
      RowSound, GuestsKnow
<2>9. Archive!AnswersStand'
  BY <1>2, <1>1, <2>1
  DEF Archive!AnswersStand, Archive!TypeOK, OwnersAlone, InsertersStored, RowSound,
      GuestsKnow
<2>10. Archive!DeletedIsGone'
  BY <1>2, <1>1, <2>1
  DEF Archive!DeletedIsGone, Archive!TypeOK, OwnersAlone, RowSound, GuestsKnow,
      ToldWereDrawn
<2>11. QED
  BY ONLY <2>2, <2>3, <2>4, <2>5, <2>6, <2>7, <2>8, <2>9, <2>10 DEF ArchiveInv
<1>3. CASE Archive!Become(u, Archive!Idle) /\ row = Archive!NoRow
                                           /\ row' = Archive!InsertedRow(u)
<2>1. /\ request[u].at = "inserting" /\ failures' \in 0..MaxFailures
      /\ failures' = failures + 1
      /\ row' =
          [id |-> request[u].id, identity |-> request[u].identity, deleted |-> FALSE]
      /\ UNCHANGED <<left, blob, pruning, wait, issued, answered, forgotten>>
      /\ request' = [request EXCEPT ![u] =
          [at |-> "idle", id |-> 0, identity |-> Unstored]]
  BY <1>3, <1>1
  DEF Archive!InsertFails, Archive!InsertedRow, Archive!At, Archive!Become, Archive!Put,
      Archive!DeleteReplayPayload, Archive!Idle, Archive!TypeOK, Step
<2>2. Archive!TypeOK'
  BY <1>3, <1>1, <2>1 DEF Archive!TypeOK, OwnersAlone, InsertersStored, GuestsKnow, Step
<2>3. OwnersAlone'
  BY <1>3, <1>1, <2>1 DEF OwnersAlone, Archive!TypeOK, ToldWereDrawn, GuestsKnow
<2>4. InsertersStored'
  BY <1>3, <1>1, <2>1 DEF InsertersStored, Archive!TypeOK, OwnersAlone
<2>5. RowSound'
  BY <1>3, <1>1, <2>1 DEF RowSound, Archive!TypeOK, OwnersAlone, InsertersStored
<2>6. GuestsKnow'
  BY <1>3, <1>1, <2>1 DEF GuestsKnow, Archive!TypeOK, OwnersAlone, RowSound
<2>7. ToldWereDrawn'
  BY <1>3, <1>1, <2>1 DEF ToldWereDrawn, Archive!TypeOK, OwnersAlone, GuestsKnow
<2>8. Archive!ReadableHasPayload'
  BY <1>3, <1>1, <2>1
  DEF Archive!ReadableHasPayload, Archive!TypeOK, OwnersAlone, InsertersStored,
      RowSound, GuestsKnow
<2>9. Archive!AnswersStand'
  BY <1>3, <1>1, <2>1
  DEF Archive!AnswersStand, Archive!TypeOK, OwnersAlone, InsertersStored, RowSound,
      GuestsKnow
<2>10. Archive!DeletedIsGone'
  BY <1>3, <1>1, <2>1
  DEF Archive!DeletedIsGone, Archive!TypeOK, OwnersAlone, RowSound, GuestsKnow,
      ToldWereDrawn
<2>11. QED
  BY ONLY <2>2, <2>3, <2>4, <2>5, <2>6, <2>7, <2>8, <2>9, <2>10 DEF ArchiveInv
<1>4. QED
  BY <1>2, <1>3 DEF Archive!InsertFails

\* A row is marked before its payload goes,
LEMMA MarkDeletedKeeps ==
    ASSUME ArchiveInv, NEW u \in Player, Archive!MarkDeleted(u)
    PROVE  ArchiveInv'
<1> USE ArchiveAssumed
    DEF Archive!ArchiveAssumption, ArchiveInv, Archive!StorageKey, Archive!ReplayId,
        Archive!NoRow, Own
<1>1. /\ request \in [Player -> [at : Step, id : 0..issued, identity : Identity \cup {Unstored}]]
      /\ issued \in Nat /\ issued <= MaxUploads /\ MaxUploads \in Nat
      /\ row.id \in 0..issued
      /\ request[u].at \in Step /\ request[u].id \in 0..issued
      /\ request[u].identity \in Identity \cup {Unstored}
  BY DEF Archive!TypeOK, Step
<1>2. /\ request[u].at = "idle" /\ row # Archive!NoRow /\ failures' \in 0..MaxFailures
      /\ row' = [row EXCEPT !.deleted = TRUE]
      /\ UNCHANGED <<left, blob, pruning, wait, issued, answered, forgotten>>
      /\ request' = [request EXCEPT ![u] =
          [at |-> "erasing", id |-> row.id, identity |-> Unstored]]
  BY <1>1
  DEF Archive!MarkDeleted, Archive!At, Archive!Become, Archive!Put,
      Archive!DeleteReplayPayload, Archive!Idle, Archive!TypeOK, Step
<1>3. Archive!TypeOK'
  <2>1. row' \in [id : 0..issued, identity : Identity \cup {Unstored}, deleted : BOOLEAN]
    BY <1>2 DEF Archive!TypeOK
  <2>2. QED
    BY <1>1, <1>2, <2>1 DEF Archive!TypeOK, Step
<1>4. OwnersAlone'
  BY <1>1, <1>2 DEF OwnersAlone, Archive!TypeOK, ToldWereDrawn, GuestsKnow
<1>5. InsertersStored'
  BY <1>1, <1>2 DEF InsertersStored, Archive!TypeOK, OwnersAlone
<1>6. RowSound'
  BY <1>1, <1>2 DEF RowSound, Archive!TypeOK, OwnersAlone, InsertersStored
<1>7. GuestsKnow'
  BY <1>1, <1>2 DEF GuestsKnow, Archive!TypeOK, OwnersAlone, RowSound
<1>8. ToldWereDrawn'
  BY <1>1, <1>2 DEF ToldWereDrawn, Archive!TypeOK, OwnersAlone, GuestsKnow
<1>9. Archive!ReadableHasPayload'
  BY <1>1, <1>2
  DEF Archive!ReadableHasPayload, Archive!TypeOK, OwnersAlone, InsertersStored,
      RowSound, GuestsKnow
<1>10. Archive!AnswersStand'
  BY <1>1, <1>2
  DEF Archive!AnswersStand, Archive!TypeOK, OwnersAlone, InsertersStored, RowSound,
      GuestsKnow
<1>11. Archive!DeletedIsGone'
  BY <1>1, <1>2
  DEF Archive!DeletedIsGone, Archive!TypeOK, OwnersAlone, RowSound, GuestsKnow,
      ToldWereDrawn
<1>12. QED
  BY ONLY <1>3, <1>4, <1>5, <1>6, <1>7, <1>8, <1>9, <1>10, <1>11 DEF ArchiveInv

\* and the payload that goes is that of the marked row, or of no row.
LEMMA EraseDeletedKeeps ==
    ASSUME ArchiveInv, NEW u \in Player, Archive!EraseDeleted(u)
    PROVE  ArchiveInv'
<1> USE ArchiveAssumed
    DEF Archive!ArchiveAssumption, ArchiveInv, Archive!StorageKey, Archive!ReplayId,
        Archive!NoRow, Own
<1>1. /\ request \in [Player -> [at : Step, id : 0..issued, identity : Identity \cup {Unstored}]]
      /\ issued \in Nat /\ issued <= MaxUploads /\ MaxUploads \in Nat
      /\ row.id \in 0..issued
      /\ request[u].at \in Step /\ request[u].id \in 0..issued
      /\ request[u].identity \in Identity \cup {Unstored}
  BY DEF Archive!TypeOK, Step
<1>2. /\ request[u].at = "erasing" /\ failures' \in 0..MaxFailures
      /\ blob' = [blob EXCEPT ![request[u].id] = Unstored]
      /\ forgotten' = forgotten \cup {request[u].id}
      /\ UNCHANGED <<row, left, pruning, wait, issued, answered>>
      /\ request' = [request EXCEPT ![u] =
          [at |-> "idle", id |-> 0, identity |-> Unstored]]
  BY <1>1
  DEF Archive!EraseDeleted, Archive!At, Archive!Become, Archive!Put,
      Archive!DeleteReplayPayload, Archive!Idle, Archive!TypeOK, Step
<1>3. Archive!TypeOK'
  <2>1. request[u].id \in 1..MaxUploads
    BY <1>1, <1>2 DEF GuestsKnow
  <2>2. /\ blob' \in [1..MaxUploads -> Identity \cup {Unstored}]
        /\ forgotten' \subseteq 1..MaxUploads
    BY <1>2, <2>1 DEF Archive!TypeOK
  <2>3. request' \in [Player -> [at : Step, id : 0..issued, identity : Identity \cup {Unstored}]]
    BY <1>1, <1>2 DEF Step
  <2>4. QED
    BY <1>1, <1>2, <2>2, <2>3 DEF Archive!TypeOK, Step
<1>4. OwnersAlone'
  BY <1>1, <1>2 DEF OwnersAlone, Archive!TypeOK, ToldWereDrawn, GuestsKnow
<1>5. InsertersStored'
  BY <1>1, <1>2 DEF InsertersStored, Archive!TypeOK, OwnersAlone
<1>6. RowSound'
  BY <1>1, <1>2 DEF RowSound, Archive!TypeOK, OwnersAlone, InsertersStored
<1>7. GuestsKnow'
  BY <1>1, <1>2 DEF GuestsKnow, Archive!TypeOK, OwnersAlone, RowSound
<1>8. ToldWereDrawn'
  BY <1>1, <1>2 DEF ToldWereDrawn, Archive!TypeOK, OwnersAlone, GuestsKnow
<1>9. Archive!ReadableHasPayload'
  BY <1>1, <1>2
  DEF Archive!ReadableHasPayload, Archive!TypeOK, OwnersAlone, InsertersStored,
      RowSound, GuestsKnow
<1>10. Archive!AnswersStand'
  BY <1>1, <1>2
  DEF Archive!AnswersStand, Archive!TypeOK, OwnersAlone, InsertersStored, RowSound,
      GuestsKnow
<1>11. Archive!DeletedIsGone'
  BY <1>1, <1>2
  DEF Archive!DeletedIsGone, Archive!TypeOK, OwnersAlone, RowSound, GuestsKnow,
      ToldWereDrawn
<1>12. QED
  BY ONLY <1>3, <1>4, <1>5, <1>6, <1>7, <1>8, <1>9, <1>10, <1>11 DEF ArchiveInv

\* A request that throws leaves all as it is.
LEMMA FailKeeps ==
    ASSUME ArchiveInv, NEW u \in Player, Archive!Fail(u)
    PROVE  ArchiveInv'
<1> USE ArchiveAssumed
    DEF Archive!ArchiveAssumption, ArchiveInv, Archive!StorageKey, Archive!ReplayId,
        Archive!NoRow, Own
<1>1. /\ request \in [Player -> [at : Step, id : 0..issued, identity : Identity \cup {Unstored}]]
      /\ issued \in Nat /\ issued <= MaxUploads /\ MaxUploads \in Nat
      /\ row.id \in 0..issued
      /\ request[u].at \in Step /\ request[u].id \in 0..issued
      /\ request[u].identity \in Identity \cup {Unstored}
  BY DEF Archive!TypeOK, Step
<1>2. /\ request[u].at # "idle" /\ failures' \in 0..MaxFailures
      /\ failures' = failures + 1
      /\ UNCHANGED <<row, left, blob, pruning, wait, issued, answered, forgotten>>
      /\ request' = [request EXCEPT ![u] =
          [at |-> "idle", id |-> 0, identity |-> Unstored]]
  BY <1>1
  DEF Archive!Fail, Archive!At, Archive!Become, Archive!Put,
      Archive!DeleteReplayPayload, Archive!Idle, Archive!TypeOK, Step
<1>3. Archive!TypeOK'
  BY <1>1, <1>2 DEF Archive!TypeOK, OwnersAlone, InsertersStored, GuestsKnow, Step
<1>4. OwnersAlone'
  BY <1>1, <1>2 DEF OwnersAlone, Archive!TypeOK, ToldWereDrawn, GuestsKnow
<1>5. InsertersStored'
  BY <1>1, <1>2 DEF InsertersStored, Archive!TypeOK, OwnersAlone
<1>6. RowSound'
  BY <1>1, <1>2 DEF RowSound, Archive!TypeOK, OwnersAlone, InsertersStored
<1>7. GuestsKnow'
  BY <1>1, <1>2 DEF GuestsKnow, Archive!TypeOK, OwnersAlone, RowSound
<1>8. ToldWereDrawn'
  BY <1>1, <1>2 DEF ToldWereDrawn, Archive!TypeOK, OwnersAlone, GuestsKnow
<1>9. Archive!ReadableHasPayload'
  BY <1>1, <1>2
  DEF Archive!ReadableHasPayload, Archive!TypeOK, OwnersAlone, InsertersStored,
      RowSound, GuestsKnow
<1>10. Archive!AnswersStand'
  BY <1>1, <1>2
  DEF Archive!AnswersStand, Archive!TypeOK, OwnersAlone, InsertersStored, RowSound,
      GuestsKnow
<1>11. Archive!DeletedIsGone'
  BY <1>1, <1>2
  DEF Archive!DeletedIsGone, Archive!TypeOK, OwnersAlone, RowSound, GuestsKnow,
      ToldWereDrawn
<1>12. QED
  BY ONLY <1>3, <1>4, <1>5, <1>6, <1>7, <1>8, <1>9, <1>10, <1>11 DEF ArchiveInv

\* A pruning that goes on keeps its replay.
LEMMA Erases ==
    ASSUME pruning \in [Process -> [at : {"idle", "erasing", "removing"}, id : 0..issued]],
           NEW p \in Process
    PROVE  [pruning EXCEPT ![p].at = "removing"] =
               [pruning EXCEPT ![p] = [at |-> "removing", id |-> pruning[p].id]]
<1>1. pruning[p] \in [at : {"idle", "erasing", "removing"}, id : 0..issued]
  OBVIOUS
<1>2. [pruning[p] EXCEPT !.at = "removing"] = [at |-> "removing", id |-> pruning[p].id]
  BY <1>1
<1>3. QED
  BY <1>2

\* Time only takes replays out of their retention.
LEMMA TickKeeps == ASSUME ArchiveInv, Archive!Tick PROVE ArchiveInv'
<1> USE ArchiveAssumed
    DEF Archive!ArchiveAssumption, ArchiveInv, Archive!StorageKey, Archive!ReplayId,
        Archive!NoRow, Own
<1>1. /\ pruning \in [Process -> [at : {"idle", "erasing", "removing"}, id : 0..issued]]
      /\ issued \in Nat /\ issued <= MaxUploads /\ MaxUploads \in Nat
      /\ row.id \in 0..issued
  BY DEF Archive!TypeOK
<1>2. /\ Retention \in Nat /\ Interval \in Nat
      /\ left' = [i \in 1..MaxUploads |-> Archive!Sooner(left[i])]
      /\ wait' = [p \in Process |-> Archive!Sooner(wait[p])]
      /\ UNCHANGED <<row, blob, pruning, issued, answered, forgotten, failures,
                     request>>
  BY <1>1 DEF Archive!Tick, Archive!DeleteReplayPayload, Archive!TypeOK
<1>3. Archive!TypeOK'
  BY <1>1, <1>2
  DEF Archive!TypeOK, OwnersAlone, InsertersStored, GuestsKnow, Archive!Sooner
<1>4. OwnersAlone'
  BY <1>1, <1>2
  DEF OwnersAlone, Archive!TypeOK, ToldWereDrawn, GuestsKnow, Archive!Sooner
<1>5. InsertersStored'
  BY <1>1, <1>2 DEF InsertersStored, Archive!TypeOK, OwnersAlone, Archive!Sooner
<1>6. RowSound'
  BY <1>1, <1>2
  DEF RowSound, Archive!TypeOK, OwnersAlone, InsertersStored, Archive!Sooner
<1>7. GuestsKnow'
  BY <1>1, <1>2 DEF GuestsKnow, Archive!TypeOK, OwnersAlone, RowSound, Archive!Sooner
<1>8. ToldWereDrawn'
  BY <1>1, <1>2
  DEF ToldWereDrawn, Archive!TypeOK, OwnersAlone, GuestsKnow, Archive!Sooner
<1>9. Archive!ReadableHasPayload'
  BY <1>1, <1>2
  DEF Archive!ReadableHasPayload, Archive!TypeOK, OwnersAlone, InsertersStored,
      RowSound, GuestsKnow, Archive!Sooner
<1>10. Archive!AnswersStand'
  BY <1>1, <1>2
  DEF Archive!AnswersStand, Archive!TypeOK, OwnersAlone, InsertersStored, RowSound,
      GuestsKnow, Archive!Sooner
<1>11. Archive!DeletedIsGone'
  BY <1>1, <1>2
  DEF Archive!DeletedIsGone, Archive!TypeOK, OwnersAlone, RowSound, GuestsKnow,
      Archive!Sooner
<1>12. QED
  BY ONLY <1>3, <1>4, <1>5, <1>6, <1>7, <1>8, <1>9, <1>10, <1>11 DEF ArchiveInv

\* Only the row's replay is pruned, and only after its retention:
LEMMA PruneKeeps ==
    ASSUME ArchiveInv, NEW p \in Process, Archive!Prune(p)
    PROVE  ArchiveInv'
<1> USE ArchiveAssumed
    DEF Archive!ArchiveAssumption, ArchiveInv, Archive!StorageKey, Archive!ReplayId,
        Archive!NoRow, Own
<1>1. /\ pruning \in [Process -> [at : {"idle", "erasing", "removing"}, id : 0..issued]]
      /\ issued \in Nat /\ issued <= MaxUploads /\ MaxUploads \in Nat
      /\ row.id \in 0..issued
  BY DEF Archive!TypeOK
<1>2. CASE Archive!Expired
<2>1. /\ row # Archive!NoRow /\ left[row.id] = 0 /\ pruning[p].at = "idle"
      /\ wait' = [wait EXCEPT ![p] = Interval]
      /\ pruning' = [pruning EXCEPT ![p] = [at |-> "erasing", id |-> row.id]]
      /\ UNCHANGED <<row, left, blob, issued, answered, forgotten, failures, request>>
  BY <1>2, <1>1
  DEF Archive!Prune, Archive!Expired, Archive!DeleteReplayPayload, Archive!TypeOK
<2>2. Archive!TypeOK'
  BY <1>2, <1>1, <2>1 DEF Archive!TypeOK, OwnersAlone, InsertersStored, GuestsKnow
<2>3. OwnersAlone'
  BY <1>2, <1>1, <2>1 DEF OwnersAlone, Archive!TypeOK, ToldWereDrawn, GuestsKnow
<2>4. InsertersStored'
  BY <1>2, <1>1, <2>1 DEF InsertersStored, Archive!TypeOK, OwnersAlone
<2>5. RowSound'
  BY <1>2, <1>1, <2>1 DEF RowSound, Archive!TypeOK, OwnersAlone, InsertersStored
<2>6. GuestsKnow'
  BY <1>2, <1>1, <2>1 DEF GuestsKnow, Archive!TypeOK, OwnersAlone, RowSound
<2>7. ToldWereDrawn'
  BY <1>2, <1>1, <2>1 DEF ToldWereDrawn, Archive!TypeOK, OwnersAlone, GuestsKnow
<2>8. Archive!ReadableHasPayload'
  BY <1>2, <1>1, <2>1
  DEF Archive!ReadableHasPayload, Archive!TypeOK, OwnersAlone, InsertersStored,
      RowSound, GuestsKnow
<2>9. Archive!AnswersStand'
  BY <1>2, <1>1, <2>1
  DEF Archive!AnswersStand, Archive!TypeOK, OwnersAlone, InsertersStored, RowSound,
      GuestsKnow
<2>10. Archive!DeletedIsGone'
  BY <1>2, <1>1, <2>1
  DEF Archive!DeletedIsGone, Archive!TypeOK, OwnersAlone, RowSound, GuestsKnow
<2>11. QED
  BY ONLY <2>2, <2>3, <2>4, <2>5, <2>6, <2>7, <2>8, <2>9, <2>10 DEF ArchiveInv
<1>3. CASE ~Archive!Expired
<2>1. /\ pruning[p].at = "idle"
      /\ wait' = [wait EXCEPT ![p] = Interval]
      /\ UNCHANGED <<row, left, blob, pruning, issued, answered, forgotten, failures,
                     request>>
  BY <1>3, <1>1
  DEF Archive!Prune, Archive!Expired, Archive!DeleteReplayPayload, Archive!TypeOK
<2>2. Archive!TypeOK'
  BY <1>3, <1>1, <2>1 DEF Archive!TypeOK, OwnersAlone, InsertersStored, GuestsKnow
<2>3. OwnersAlone'
  BY <1>3, <1>1, <2>1 DEF OwnersAlone, Archive!TypeOK, ToldWereDrawn, GuestsKnow
<2>4. InsertersStored'
  BY <1>3, <1>1, <2>1 DEF InsertersStored, Archive!TypeOK, OwnersAlone
<2>5. RowSound'
  BY <1>3, <1>1, <2>1 DEF RowSound, Archive!TypeOK, OwnersAlone, InsertersStored
<2>6. GuestsKnow'
  BY <1>3, <1>1, <2>1 DEF GuestsKnow, Archive!TypeOK, OwnersAlone, RowSound
<2>7. ToldWereDrawn'
  BY <1>3, <1>1, <2>1 DEF ToldWereDrawn, Archive!TypeOK, OwnersAlone, GuestsKnow
<2>8. Archive!ReadableHasPayload'
  BY <1>3, <1>1, <2>1
  DEF Archive!ReadableHasPayload, Archive!TypeOK, OwnersAlone, InsertersStored,
      RowSound, GuestsKnow
<2>9. Archive!AnswersStand'
  BY <1>3, <1>1, <2>1
  DEF Archive!AnswersStand, Archive!TypeOK, OwnersAlone, InsertersStored, RowSound,
      GuestsKnow
<2>10. Archive!DeletedIsGone'
  BY <1>3, <1>1, <2>1
  DEF Archive!DeletedIsGone, Archive!TypeOK, OwnersAlone, RowSound, GuestsKnow
<2>11. QED
  BY ONLY <2>2, <2>3, <2>4, <2>5, <2>6, <2>7, <2>8, <2>9, <2>10 DEF ArchiveInv
<1>4. QED
  BY <1>2, <1>3

\* its payload first,
LEMMA EraseExpiredKeeps ==
    ASSUME ArchiveInv, NEW p \in Process, Archive!EraseExpired(p)
    PROVE  ArchiveInv'
<1> USE ArchiveAssumed
    DEF Archive!ArchiveAssumption, ArchiveInv, Archive!StorageKey, Archive!ReplayId,
        Archive!NoRow, Own
<1>1. /\ pruning \in [Process -> [at : {"idle", "erasing", "removing"}, id : 0..issued]]
      /\ issued \in Nat /\ issued <= MaxUploads /\ MaxUploads \in Nat
      /\ row.id \in 0..issued
  BY DEF Archive!TypeOK
<1>2. /\ pruning[p].at = "erasing"
      /\ blob' = [blob EXCEPT ![pruning[p].id] = Unstored]
      /\ pruning' = [pruning EXCEPT ![p] = [at |-> "removing", id |-> pruning[p].id]]
      /\ UNCHANGED <<row, left, wait, issued, answered, forgotten, failures, request>>
  BY <1>1, Erases DEF Archive!EraseExpired, Archive!DeleteReplayPayload, Archive!TypeOK
<1>3. Archive!TypeOK'
  BY <1>1, <1>2 DEF Archive!TypeOK, OwnersAlone, InsertersStored, GuestsKnow
<1>4. OwnersAlone'
  BY <1>1, <1>2 DEF OwnersAlone, Archive!TypeOK, ToldWereDrawn, GuestsKnow
<1>5. InsertersStored'
  BY <1>1, <1>2 DEF InsertersStored, Archive!TypeOK, OwnersAlone
<1>6. RowSound'
  BY <1>1, <1>2 DEF RowSound, Archive!TypeOK, OwnersAlone, InsertersStored
<1>7. GuestsKnow'
  BY <1>1, <1>2 DEF GuestsKnow, Archive!TypeOK, OwnersAlone, RowSound
<1>8. ToldWereDrawn'
  BY <1>1, <1>2 DEF ToldWereDrawn, Archive!TypeOK, OwnersAlone, GuestsKnow
<1>9. Archive!ReadableHasPayload'
  BY <1>1, <1>2
  DEF Archive!ReadableHasPayload, Archive!TypeOK, OwnersAlone, InsertersStored,
      RowSound, GuestsKnow
<1>10. Archive!AnswersStand'
  BY <1>1, <1>2
  DEF Archive!AnswersStand, Archive!TypeOK, OwnersAlone, InsertersStored, RowSound,
      GuestsKnow
<1>11. Archive!DeletedIsGone'
  BY <1>1, <1>2
  DEF Archive!DeletedIsGone, Archive!TypeOK, OwnersAlone, RowSound, GuestsKnow
<1>12. QED
  BY ONLY <1>3, <1>4, <1>5, <1>6, <1>7, <1>8, <1>9, <1>10, <1>11 DEF ArchiveInv

\* and then the row, if it is still the one.
LEMMA RemoveExpiredKeeps ==
    ASSUME ArchiveInv, NEW p \in Process, Archive!RemoveExpired(p)
    PROVE  ArchiveInv'
<1> USE ArchiveAssumed
    DEF Archive!ArchiveAssumption, ArchiveInv, Archive!StorageKey, Archive!ReplayId,
        Archive!NoRow, Own
<1>1. /\ pruning \in [Process -> [at : {"idle", "erasing", "removing"}, id : 0..issued]]
      /\ issued \in Nat /\ issued <= MaxUploads /\ MaxUploads \in Nat
      /\ row.id \in 0..issued
  BY DEF Archive!TypeOK
<1>2. CASE row.id = pruning[p].id /\ Archive!Expired
<2>1. /\ pruning[p].at = "removing" /\ left[row.id] = 0
      /\ row' = Archive!NoRow
      /\ pruning' = [pruning EXCEPT ![p] = [at |-> "idle", id |-> 0]]
      /\ UNCHANGED <<left, blob, wait, issued, answered, forgotten, failures, request>>
  BY <1>2, <1>1
  DEF Archive!RemoveExpired, Archive!Expired, Archive!DeleteReplayPayload,
      Archive!TypeOK
<2>2. Archive!TypeOK'
  BY <1>2, <1>1, <2>1 DEF Archive!TypeOK, OwnersAlone, InsertersStored, GuestsKnow
<2>3. OwnersAlone'
  BY <1>2, <1>1, <2>1 DEF OwnersAlone, Archive!TypeOK, ToldWereDrawn, GuestsKnow
<2>4. InsertersStored'
  BY <1>2, <1>1, <2>1 DEF InsertersStored, Archive!TypeOK, OwnersAlone
<2>5. RowSound'
  BY <1>2, <1>1, <2>1 DEF RowSound, Archive!TypeOK, OwnersAlone, InsertersStored
<2>6. GuestsKnow'
  BY <1>2, <1>1, <2>1 DEF GuestsKnow, Archive!TypeOK, OwnersAlone, RowSound
<2>7. ToldWereDrawn'
  BY <1>2, <1>1, <2>1 DEF ToldWereDrawn, Archive!TypeOK, OwnersAlone, GuestsKnow
<2>8. Archive!ReadableHasPayload'
  BY <1>2, <1>1, <2>1
  DEF Archive!ReadableHasPayload, Archive!TypeOK, OwnersAlone, InsertersStored,
      RowSound, GuestsKnow
<2>9. Archive!AnswersStand'
  BY <1>2, <1>1, <2>1
  DEF Archive!AnswersStand, Archive!TypeOK, OwnersAlone, InsertersStored, RowSound,
      GuestsKnow
<2>10. Archive!DeletedIsGone'
  BY <1>2, <1>1, <2>1
  DEF Archive!DeletedIsGone, Archive!TypeOK, OwnersAlone, RowSound, GuestsKnow
<2>11. QED
  BY ONLY <2>2, <2>3, <2>4, <2>5, <2>6, <2>7, <2>8, <2>9, <2>10 DEF ArchiveInv
<1>3. CASE ~(row.id = pruning[p].id /\ Archive!Expired)
<2>1. /\ pruning[p].at = "removing"
      /\ pruning' = [pruning EXCEPT ![p] = [at |-> "idle", id |-> 0]]
      /\ UNCHANGED <<row, left, blob, wait, issued, answered, forgotten, failures,
                     request>>
  BY <1>3, <1>1
  DEF Archive!RemoveExpired, Archive!Expired, Archive!DeleteReplayPayload,
      Archive!TypeOK
<2>2. Archive!TypeOK'
  BY <1>3, <1>1, <2>1 DEF Archive!TypeOK, OwnersAlone, InsertersStored, GuestsKnow
<2>3. OwnersAlone'
  BY <1>3, <1>1, <2>1 DEF OwnersAlone, Archive!TypeOK, ToldWereDrawn, GuestsKnow
<2>4. InsertersStored'
  BY <1>3, <1>1, <2>1 DEF InsertersStored, Archive!TypeOK, OwnersAlone
<2>5. RowSound'
  BY <1>3, <1>1, <2>1 DEF RowSound, Archive!TypeOK, OwnersAlone, InsertersStored
<2>6. GuestsKnow'
  BY <1>3, <1>1, <2>1 DEF GuestsKnow, Archive!TypeOK, OwnersAlone, RowSound
<2>7. ToldWereDrawn'
  BY <1>3, <1>1, <2>1 DEF ToldWereDrawn, Archive!TypeOK, OwnersAlone, GuestsKnow
<2>8. Archive!ReadableHasPayload'
  BY <1>3, <1>1, <2>1
  DEF Archive!ReadableHasPayload, Archive!TypeOK, OwnersAlone, InsertersStored,
      RowSound, GuestsKnow
<2>9. Archive!AnswersStand'
  BY <1>3, <1>1, <2>1
  DEF Archive!AnswersStand, Archive!TypeOK, OwnersAlone, InsertersStored, RowSound,
      GuestsKnow
<2>10. Archive!DeletedIsGone'
  BY <1>3, <1>1, <2>1
  DEF Archive!DeletedIsGone, Archive!TypeOK, OwnersAlone, RowSound, GuestsKnow
<2>11. QED
  BY ONLY <2>2, <2>3, <2>4, <2>5, <2>6, <2>7, <2>8, <2>9, <2>10 DEF ArchiveInv
<1>4. QED
  BY <1>2, <1>3

\* A pruning that throws leaves the row to the next one.
LEMMA PruneFailsKeeps ==
    ASSUME ArchiveInv, NEW p \in Process, Archive!PruneFails(p)
    PROVE  ArchiveInv'
<1> USE ArchiveAssumed
    DEF Archive!ArchiveAssumption, ArchiveInv, Archive!StorageKey, Archive!ReplayId,
        Archive!NoRow, Own
<1>1. /\ pruning \in [Process -> [at : {"idle", "erasing", "removing"}, id : 0..issued]]
      /\ issued \in Nat /\ issued <= MaxUploads /\ MaxUploads \in Nat
      /\ row.id \in 0..issued
  BY DEF Archive!TypeOK
<1>2. /\ pruning[p].at # "idle" /\ failures < MaxFailures
      /\ failures' = failures + 1
      /\ pruning' = [pruning EXCEPT ![p] = [at |-> "idle", id |-> 0]]
      /\ UNCHANGED <<row, left, blob, issued, answered, forgotten, request>>
  BY <1>1 DEF Archive!PruneFails, Archive!DeleteReplayPayload, Archive!TypeOK
<1>3. Archive!TypeOK'
  <2>1. wait' \in [Process -> 0..Interval]
    BY DEF Archive!PruneFails, Archive!TypeOK
  <2>2.
        /\ pruning' \in [Process -> [at : {"idle", "erasing", "removing"}, id : 0..issued]]
        /\ failures' \in 0..MaxFailures
    BY <1>1, <1>2 DEF Archive!TypeOK
  <2>3. QED
    BY <1>2, <2>1, <2>2 DEF Archive!TypeOK
<1>4. OwnersAlone'
  BY <1>1, <1>2 DEF OwnersAlone, Archive!TypeOK, ToldWereDrawn, GuestsKnow
<1>5. InsertersStored'
  BY <1>1, <1>2 DEF InsertersStored, Archive!TypeOK, OwnersAlone
<1>6. RowSound'
  BY <1>1, <1>2 DEF RowSound, Archive!TypeOK, OwnersAlone, InsertersStored
<1>7. GuestsKnow'
  BY <1>1, <1>2 DEF GuestsKnow, Archive!TypeOK, OwnersAlone, RowSound
<1>8. ToldWereDrawn'
  BY <1>1, <1>2 DEF ToldWereDrawn, Archive!TypeOK, OwnersAlone, GuestsKnow
<1>9. Archive!ReadableHasPayload'
  BY <1>1, <1>2
  DEF Archive!ReadableHasPayload, Archive!TypeOK, OwnersAlone, InsertersStored,
      RowSound, GuestsKnow
<1>10. Archive!AnswersStand'
  BY <1>1, <1>2
  DEF Archive!AnswersStand, Archive!TypeOK, OwnersAlone, InsertersStored, RowSound,
      GuestsKnow
<1>11. Archive!DeletedIsGone'
  BY <1>1, <1>2
  DEF Archive!DeletedIsGone, Archive!TypeOK, OwnersAlone, RowSound, GuestsKnow
<1>12. QED
  BY ONLY <1>3, <1>4, <1>5, <1>6, <1>7, <1>8, <1>9, <1>10, <1>11 DEF ArchiveInv

\* Every step keeps the archive sound.
LEMMA ArchiveNext == ArchiveInv /\ Archive!Next => ArchiveInv'
BY TickKeeps, IngestKeeps, PutReplayPayloadKeeps, InsertReplayKeeps, DiscardPayloadKeeps,
   ReadExistingKeeps, CompareExistingKeeps, InsertFailsKeeps, MarkDeletedKeeps, EraseDeletedKeeps,
   FailKeeps, PruneKeeps, EraseExpiredKeeps, RemoveExpiredKeeps, PruneFailsKeeps
DEF Archive!Next

\* At first there is neither a replay nor a request.
LEMMA ArchiveInit == Archive!Init => ArchiveInv
<1> SUFFICES ASSUME Archive!Init PROVE ArchiveInv
  OBVIOUS
<1> USE ArchiveAssumed
    DEF Archive!ArchiveAssumption, Archive!Init, Archive!NoRow, Archive!Idle, Archive!ReplayId
<1>1. Archive!TypeOK
  BY DEF Archive!TypeOK
<1>2. OwnersAlone /\ InsertersStored /\ RowSound /\ GuestsKnow /\ ToldWereDrawn
  BY DEF OwnersAlone, InsertersStored, RowSound, GuestsKnow, ToldWereDrawn, Own
<1>3. Archive!ReadableHasPayload /\ Archive!AnswersStand /\ Archive!DeletedIsGone
  BY DEF Archive!ReadableHasPayload, Archive!AnswersStand, Archive!DeletedIsGone
<1>4. QED
  BY <1>1, <1>2, <1>3 DEF ArchiveInv

-----------------------------------------------------------------------------
(* The records together.                                                   *)

\* The records of the part that moves are sound.
RecordsInv ==
    /\ part = "seasons" => SeasonsInv
    /\ part = "archive" => ArchiveInv

\* Seasons follow one another without a gap, a result falls in the season of
\* its time and a season ends with exactly its standings (seasonService.ts); a
\* replay that can be read has its payload, what an upload was told stays, and
\* what was deleted is gone (server.ts, replays): for any number of seasons,
\* results, workers, players, processes, uploads and failures.
THEOREM RecordsHoldAlways == SettlementSpec => []RecordsHold
<1>1. SettlementInit => RecordsInv
  BY SeasonsInit, ArchiveInit DEF SettlementInit, RecordsInv
<1>2. ASSUME RecordsInv, [Settles(Next) \/ Rolls \/ Archives(Archive!Next)]_all
      PROVE  RecordsInv'
  <2>1. CASE Settles(Next)
    BY <2>1 DEF Settles, RecordsInv
  <2>2. CASE Rolls
    BY <1>2, <2>2, SeasonsNext DEF Rolls, RecordsInv
  <2>3. CASE Archives(Archive!Next)
    BY <1>2, <2>3, ArchiveNext DEF Archives, RecordsInv
  <2>4. CASE UNCHANGED all
    <3>1. SeasonsInv => SeasonsInv'
      BY <2>4 DEF all, ranking, SeasonsInv, InSeason, Succession, Accounted, Begun
    <3>2. ArchiveInv => ArchiveInv'
      BY <2>4
      DEF all, archive, ArchiveInv, Archive!TypeOK, OwnersAlone, InsertersStored, RowSound,
          GuestsKnow, ToldWereDrawn, Archive!ReadableHasPayload, Archive!AnswersStand,
          Archive!DeletedIsGone
    <3>3. QED
      BY <1>2, <2>4, <3>1, <3>2 DEF all, RecordsInv
  <2>5. QED
    BY <1>2, <2>1, <2>2, <2>3, <2>4
<1>3. RecordsInv => RecordsHold
  BY SeasonsSound DEF RecordsInv, RecordsHold, ArchiveInv
<1>4. QED
  BY <1>1, <1>2, <1>3, PTL DEF SettlementSpec
=============================================================================
