------------------------ MODULE MCMatchmakingRuntime ------------------------
(* MatchmakingRuntime on two small instances: processes that share the stored *)
(* session, with a fault at any moment; and one process alone, without        *)
(* faults, with a longer clock and both players' calls.  `part' names the     *)
(* instance that runs.                                                        *)
EXTENDS MatchmakingRuntime, TLC

CONSTANTS
    Solo,          \* the process that runs alone
    SharedTime,    \* where the clock of the shared instance stops (a bound)
    SharedCaller   \* whose calls the shared instance explores (a bound)

ASSUME InstanceAssumption == Solo \in Process /\ SharedCaller \subseteq Side

VARIABLE part

all == <<part, vars>>

RuntimeInit == part \in {"shared", "single"} /\ Init

\* Every process but the one that runs alone.
Shares ==
    /\ part = "shared" /\ UNCHANGED part
    /\ Steps(SharedCaller)
    /\ phase'[Solo] = "idle" /\ now' <= SharedTime

\* The process that runs alone: nothing fails, and no other takes the lock.
Alone(A) ==
    /\ part = "single" /\ UNCHANGED <<part, faults>>
    /\ A
    /\ \A i \in Process \ {Solo} : phase'[i] = "idle"

RuntimeSpec ==
    /\ RuntimeInit /\ [][Shares \/ Alone(Next)]_all
    /\ WF_all(Alone(Tick))
    /\ WF_all(Alone(Acquire(Solo)))
    /\ WF_all(Alone(Proceed(Solo)))

\* The shared processes are interchangeable; the liveness property is about
\* the one that is alone, which no permutation moves.
Symmetry == Permutations(Process \ {Solo})

-----------------------------------------------------------------------------
(* MatchmakingRuntime: with one process, the decision that is recorded is the *)
(* one the stored session ended by.                                           *)
DecidedWithSnapshot == part = "single" => DecisionWithSnapshot

(* MatchmakingRuntime: checkpoints alone end the stored session and drop it.  *)
SessionRetires == part = "single" => StoredSessionRetires
=============================================================================
