---------------------------- MODULE RequestLease ----------------------------
(***************************************************************************)
(* How the API's requests share two scarce things: the connections of      *)
(* their process's PostgreSQL pool, which has PoolSize of them and a queue *)
(* of callers that wait without a limit, and the advisory lock that        *)
(* serializes all work on the matchmaking snapshot over every process.     *)
(*                                                                         *)
(* A coordinated request (server.ts, the onRequest hook) takes the lease:  *)
(* a connection that holds the lock.  Under it, it refreshes its process's *)
(* memory from the stored snapshot, checks its account over a second       *)
(* connection, mutates the memory and, before the answer leaves, writes    *)
(* the snapshot if its fingerprint changed and releases the lease.  A      *)
(* request whose client hangs up runs that finalization at once, beside    *)
(* whatever its own handler was waiting for.  A sign-in takes one          *)
(* connection for its transaction and a second one for its audit event     *)
(* while it still holds the first.                                         *)
(*                                                                         *)
(* A snapshot is the set of what happened to it: the requests whose        *)
(* mutation it holds, and Sweep once expired tickets and sessions were     *)
(* dropped from it, which taking a snapshot of the memory may do.  The     *)
(* stored snapshot always exists.  The fence token and process restarts    *)
(* are in MatchmakingRuntime.                                              *)
(***************************************************************************)
EXTENDS Naturals, Sequences, FiniteSets

CONSTANTS
    Process,       \* the API processes
    Coordinated,   \* the requests that use the matchmaking runtime
    SignIn,        \* the sign-in requests
    ServedBy,      \* the process that serves each request
    PoolSize,      \* connections in one process's pool
    MaxTries,      \* attempts at the lock after which the wait has timed out
    MaxAborts,     \* how many clients hang up
    MaxFaults      \* how many loads and saves fail

Request == Coordinated \cup SignIn
Sweep == "sweep"
NoRequest == "no request"

ASSUME LeaseAssumption ==
    /\ Coordinated \cap SignIn = {} /\ {Sweep, NoRequest} \cap Request = {}
    /\ ServedBy \in [Request -> Process]
    /\ PoolSize \in Nat \ {0} /\ MaxTries \in Nat \ {0}
    /\ MaxAborts \in Nat /\ MaxFaults \in Nat

VARIABLES
    used,       \* connections each pool has handed out
    waiting,    \* the callers that wait for a connection, in order
    lock,       \* the request whose connection holds the advisory lock
    stage,      \* how far the handling of each request is
    final,      \* how far the finalization of its lease is
    tries,      \* its failed attempts at the lock
    answer,     \* what its client is told
    captured,   \* the snapshot its finalization is to write
    memory,     \* each process's queue service
    persisted,  \* the snapshot each process believes is stored
    stored,     \* the stored snapshot
    aborts, faults

pool == <<used, waiting>>
state == <<memory, persisted, stored>>
vars == <<pool, lock, stage, final, tries, answer, captured, state, aborts, faults>>

Stage == {"new", "connect", "trying", "sleeping", "loading", "account", "checking",
          "handling", "sending", "signing", "auditing", "audited", "ended"}
Final == {"none", "capture", "save", "release", "over"}
Snapshot == SUBSET (Coordinated \cup {Sweep})

(***************************************************************************)
(* Type invariant.  `used' is between nothing and the whole pool: a        *)
(* connection is given back exactly once (runtimeCoordinator.ts releases a *)
(* contender's in `finally' and an owner's in `release').                  *)
(***************************************************************************)
TypeOK ==
    /\ used \in [Process -> 0..PoolSize]
    /\ waiting \in [Process -> Seq(Request)]
    /\ lock \in Coordinated \cup {NoRequest}
    /\ stage \in [Request -> Stage]
    /\ final \in [Request -> Final]
    /\ tries \in [Request -> 0..MaxTries]
    /\ answer \in [Request -> {"none", "ok", "busy", "failed"}]
    /\ captured \in [Request -> Snapshot]
    /\ memory \in [Process -> Snapshot]
    /\ persisted \in [Process -> Snapshot]
    /\ stored \in Snapshot
    /\ aborts \in 0..MaxAborts
    /\ faults \in 0..MaxFaults

Init ==
    /\ used = [p \in Process |-> 0]
    /\ waiting = [p \in Process |-> <<>>]
    /\ lock = NoRequest
    /\ stage = [r \in Request |-> "new"]
    /\ final = [r \in Request |-> "none"]
    /\ tries = [r \in Request |-> 0]
    /\ answer = [r \in Request |-> "none"]
    /\ captured = [r \in Request |-> {}]
    /\ memory = [p \in Process |-> {}]
    /\ persisted = [p \in Process |-> {}]
    /\ stored = {}
    /\ aborts = 0
    /\ faults = 0

-----------------------------------------------------------------------------
(* The pool: a caller waits in line, whatever it already holds. *)
Ask(r) == waiting' = [waiting EXCEPT ![ServedBy[r]] = Append(@, r)]

GiveBack(r, n) == used' = [used EXCEPT ![ServedBy[r]] = @ - n]

To(r, s) == stage' = [stage EXCEPT ![r] = s]

(* What a request goes on with once it has the connection it asked for. *)
Granted(s) ==
    CASE s = "connect" -> "trying"
      [] s = "account" -> "checking"
      [] s = "auditing" -> "audited"

Serve(p) ==
    /\ waiting[p] # <<>> /\ used[p] < PoolSize
    /\ used' = [used EXCEPT ![p] = @ + 1]
    /\ waiting' = [waiting EXCEPT ![p] = Tail(@)]
    /\ LET r == Head(waiting[p])
       IN  To(r, IF r \in SignIn /\ stage[r] = "connect" THEN "signing"
                 ELSE Granted(stage[r]))
    /\ UNCHANGED <<lock, final, tries, answer, captured, state, aborts, faults>>

(* A request arrives, or has slept between two attempts at the lock. *)
Connect(r) ==
    /\ stage[r] \in {"new", "sleeping"}
    /\ Ask(r) /\ To(r, "connect")
    /\ UNCHANGED <<used, lock, final, tries, answer, captured, state, aborts, faults>>

-----------------------------------------------------------------------------
(* The acquisition of the lease. *)
TryLock_AlwaysReleases(r) ==
    /\ stage[r] = "trying" /\ lock = NoRequest
    /\ lock' = r /\ To(r, "loading") /\ GiveBack(r, 1)
    /\ UNCHANGED <<waiting, final, tries, answer, captured, state, aborts, faults>>

TryLock(r) ==
    /\ stage[r] = "trying" /\ lock = NoRequest
    /\ lock' = r /\ To(r, "loading")
    /\ UNCHANGED <<pool, final, tries, answer, captured, state, aborts, faults>>

Contend_KeepsConnection(r) ==
    /\ stage[r] = "trying" /\ lock # NoRequest
    /\ UNCHANGED used
    /\ tries' = [tries EXCEPT ![r] = @ + 1]
    /\ \/ tries'[r] < MaxTries /\ To(r, "sleeping") /\ UNCHANGED answer
       \/ To(r, "ended") /\ answer' = [answer EXCEPT ![r] = "busy"]
    /\ UNCHANGED <<waiting, lock, final, captured, state, aborts, faults>>

(* The lock is another's: the connection goes back, and the request sleeps *)
(* or, its five seconds over, is answered matchmaking_runtime_busy.        *)
Contend(r) ==
    /\ stage[r] = "trying" /\ lock # NoRequest
    /\ GiveBack(r, 1)
    /\ tries' = [tries EXCEPT ![r] = @ + 1]
    /\ \/ tries'[r] < MaxTries /\ To(r, "sleeping") /\ UNCHANGED answer
       \/ To(r, "ended") /\ answer' = [answer EXCEPT ![r] = "busy"]
    /\ UNCHANGED <<waiting, lock, final, captured, state, aborts, faults>>

Load_OnceOnly(r) ==
    LET p == ServedBy[r]
        fresh == IF persisted[p] = {} THEN stored ELSE memory[p]
    IN  /\ stage[r] = "loading"
        /\ memory' = [memory EXCEPT ![p] = fresh]
        /\ persisted' = [persisted EXCEPT ![p] = fresh]
        /\ \/ Ask(r) /\ To(r, "account")
           \/ To(r, "handling") /\ UNCHANGED waiting
        /\ UNCHANGED <<used, lock, final, tries, answer, captured, stored, aborts, faults>>

(* The stored snapshot replaces the memory.  An authenticated request goes *)
(* on to ask for the connection its account check needs.                   *)
Load(r) ==
    LET p == ServedBy[r]
    IN  /\ stage[r] = "loading"
        /\ memory' = [memory EXCEPT ![p] = stored]
        /\ persisted' = [persisted EXCEPT ![p] = stored]
        /\ \/ Ask(r) /\ To(r, "account")
           \/ To(r, "handling") /\ UNCHANGED waiting
        /\ UNCHANGED <<used, lock, final, tries, answer, captured, stored, aborts, faults>>

(* The load fails: the hook releases the lease, with nothing to finalize,  *)
(* and the request fails.  (Of a request whose client had hung up, too,    *)
(* only the connection's failure can fail the load, which ends its         *)
(* finalization with it: not modelled.)                                    *)
LoadFails(r) ==
    /\ stage[r] = "loading" /\ final[r] = "none"
    /\ faults < MaxFaults /\ faults' = faults + 1
    /\ final' = [final EXCEPT ![r] = "release"]
    /\ To(r, "sending") /\ answer' = [answer EXCEPT ![r] = "failed"]
    /\ UNCHANGED <<pool, lock, tries, captured, state, aborts>>

-----------------------------------------------------------------------------
(* The request itself. *)
Checked(r) ==
    /\ stage[r] = "checking"
    /\ GiveBack(r, 1)
    /\ \/ To(r, "handling") /\ UNCHANGED answer
       \/ To(r, "sending") /\ answer' = [answer EXCEPT ![r] = "failed"]
    /\ UNCHANGED <<waiting, lock, final, tries, captured, state, aborts, faults>>

Handle_Unchecked(r) ==
    /\ stage[r] = "handling" /\ To(r, "sending")
    /\ memory' = [memory EXCEPT ![ServedBy[r]] = @ \cup {r}]
    /\ answer' = [answer EXCEPT ![r] = "ok"]
    /\ UNCHANGED <<pool, lock, final, tries, captured, persisted, stored, aborts, faults>>

(* requireMatchmakingRuntimeLease, then the mutation, in one synchronous   *)
(* stretch.                                                                *)
Handle(r) ==
    /\ stage[r] = "handling" /\ To(r, "sending")
    /\ IF final[r] = "none"
       THEN /\ memory' = [memory EXCEPT ![ServedBy[r]] = @ \cup {r}]
            /\ answer' = [answer EXCEPT ![r] = "ok"]
       ELSE /\ answer' = [answer EXCEPT ![r] = "failed"]
            /\ UNCHANGED memory
    /\ UNCHANGED <<pool, lock, final, tries, captured, persisted, stored, aborts, faults>>

(* The client hangs up: onRequestAbort finalizes the lease if there is one.*)
Abort(r) ==
    /\ stage[r] \in {"loading", "account", "checking", "handling"} /\ r \in Coordinated
    /\ final[r] = "none"
    /\ aborts < MaxAborts /\ aborts' = aborts + 1
    /\ final' = [final EXCEPT ![r] = "capture"]
    /\ UNCHANGED <<pool, lock, stage, tries, answer, captured, state, faults>>

(* onSend: the answer waits for the finalization. *)
Send(r) ==
    /\ stage[r] = "sending" /\ final[r] = "none"
    /\ final' = [final EXCEPT ![r] = "capture"]
    /\ UNCHANGED <<pool, lock, stage, tries, answer, captured, state, aborts, faults>>

-----------------------------------------------------------------------------
(* The finalization of the lease. *)

(* persistMatchmakingStateIfChanged: the snapshot is taken, expired        *)
(* entries swept from it, and compared with the one believed stored.       *)
Capture(r) ==
    LET p == ServedBy[r]
    IN  /\ final[r] = "capture"
        /\ \E swept \in SUBSET {Sweep} :
              LET now == memory[p] \cup swept
              IN  /\ memory' = [memory EXCEPT ![p] = now]
                  /\ captured' = [captured EXCEPT ![r] = now]
                  /\ final' = [final EXCEPT ![r] = IF now = persisted[p] THEN "release" ELSE "save"]
        /\ UNCHANGED <<pool, lock, stage, tries, answer, persisted, stored, aborts, faults>>

(* The transaction runs on the lease's connection, after a load that is    *)
(* still under way there.                                                  *)
Save(r) ==
    /\ final[r] = "save" /\ stage[r] # "loading"
    /\ stored' = captured[r]
    /\ persisted' = [persisted EXCEPT ![ServedBy[r]] = captured[r]]
    /\ final' = [final EXCEPT ![r] = "release"]
    /\ UNCHANGED <<pool, lock, stage, tries, answer, captured, memory, aborts, faults>>

(* The transaction rolls back; the request fails and the lease is released.*)
SaveFails(r) ==
    /\ final[r] = "save" /\ stage[r] # "loading"
    /\ faults < MaxFaults /\ faults' = faults + 1
    /\ final' = [final EXCEPT ![r] = "release"]
    /\ answer' = [answer EXCEPT ![r] = "failed"]
    /\ UNCHANGED <<pool, lock, stage, tries, captured, state, aborts>>

Release(r) ==
    /\ final[r] = "release" /\ stage[r] # "loading"
    /\ lock' = NoRequest /\ GiveBack(r, 1)
    /\ final' = [final EXCEPT ![r] = "over"]
    /\ UNCHANGED <<waiting, stage, tries, answer, captured, state, aborts, faults>>

Answer_Early(r) ==
    /\ stage[r] = "sending" /\ final[r] # "none" /\ To(r, "ended")
    /\ UNCHANGED <<pool, lock, final, tries, answer, captured, state, aborts, faults>>

Answer(r) ==
    /\ stage[r] = "sending" /\ final[r] = "over" /\ To(r, "ended")
    /\ UNCHANGED <<pool, lock, final, tries, answer, captured, state, aborts, faults>>

-----------------------------------------------------------------------------
(* A sign-in: the transaction has committed or rolled back, and the audit  *)
(* event is written over the pool before the connection is given back.     *)
Audit(r) ==
    /\ stage[r] = "signing" /\ Ask(r) /\ To(r, "auditing")
    /\ UNCHANGED <<used, lock, final, tries, answer, captured, state, aborts, faults>>

SignedIn(r) ==
    /\ stage[r] = "audited" /\ GiveBack(r, 2) /\ To(r, "ended")
    /\ answer' = [answer EXCEPT ![r] = "ok"]
    /\ UNCHANGED <<waiting, lock, final, tries, captured, state, aborts, faults>>

-----------------------------------------------------------------------------
Advance(r) ==
    \/ TryLock(r) \/ Contend(r) \/ Load(r) \/ Checked(r) \/ Handle(r) \/ Send(r)
    \/ Capture(r) \/ Save(r) \/ Release(r) \/ Answer(r) \/ Audit(r) \/ SignedIn(r)

Next ==
    \/ \E p \in Process : Serve(p)
    \/ \E r \in Request : Connect(r) \/ Advance(r) \/ Abort(r) \/ LoadFails(r) \/ SaveFails(r)

(* A query that is sent comes back and a timer fires; nobody need arrive,  *)
(* hang up or meet a fault.                                                *)
Fairness ==
    /\ \A p \in Process : WF_vars(Serve(p))
    /\ \A r \in Request : WF_vars(Advance(r)) /\ WF_vars(stage[r] = "sleeping" /\ Connect(r))

Spec == Init /\ [][Next]_vars /\ Fairness

-----------------------------------------------------------------------------
(* What one request wrote is never written over with a snapshot that lacks *)
(* it, whichever process writes (docs/DEPLOYMENT_RUNBOOK.md: an aborted,   *)
(* disconnected or superseded process cannot overwrite newer state).       *)
NoLostUpdate == [][stored \subseteq stored']_vars

(* A client that is told its request succeeded finds it in the stored      *)
(* snapshot: the answer is held back until the snapshot is committed.      *)
AnsweredIsStored ==
    \A r \in Coordinated : stage[r] = "ended" /\ answer[r] = "ok" => r \in stored

(* The memory takes up a request's mutation only under that request's own  *)
(* lease, even when its client hung up and its handler runs on.            *)
MutationsAreLeased ==
    [][\A r \in Coordinated, p \in Process :
          r \in memory'[p] \ (memory[p] \cup stored) => lock = r]_vars

(* Every request that arrived is answered: nobody waits for ever, for the  *)
(* lock or for a connection.                                               *)
EveryRequestEnds == \A r \in Request : stage[r] # "new" ~> stage[r] = "ended"

(* A request that uses the matchmaking runtime is answered, if only that   *)
(* the runtime is busy: the wait for the lock is bounded.  No run checks   *)
(* it: sign-ins that exhaust the pool break it.                            *)
LeaseWaitIsBounded == \A r \in Coordinated : stage[r] = "connect" ~> stage[r] = "ended"
=============================================================================
