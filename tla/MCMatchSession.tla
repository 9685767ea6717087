--------------------------- MODULE MCMatchSession ---------------------------
(* MatchSession on a small instance: see MCMatchSession.cfg.               *)
EXTENDS SessionRules

CONSTANTS
    EndTime,       \* the clock stops here (a bound of the model)
    Generations    \* transport attempts explored (a bound of the model)

VARIABLES clock, session, present

Alone == INSTANCE MatchSession WITH
    MaxTime <- EndTime, MaxGeneration <- Generations, now <- clock

ASSUME AloneAssumption == Alone!BoundAssumption

\* The clock must run past expiry, retention and one more sweep.
ASSUME EndAssumption == EndTime > SessionTtl + ClosedRetention + 1

SessionSpec == Alone!Spec

-----------------------------------------------------------------------------
\* Every resolution is justified by what the record still shows.
OutcomeJustified == Alone!OutcomeJustified

\* A sweep now and another later give what the later one alone gives.
SweepScheduleIrrelevant == Alone!SweepScheduleIrrelevant

\* No call changes an outcome that is due, swept or not.
LateCallCannotRescue == Alone!LateCallCannotRescue

\* A session both players leave without a word is resolved and dropped.
SessionEnds == Alone!SessionEnds
=============================================================================
