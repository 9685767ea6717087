---------------------------- MODULE WorkScheduler ----------------------------
(* When the due work of the API is looked at: ops/dueWorkScheduler.ts, driven by
   the commits of terminal decisions (persistMatchmakingSnapshot in server.ts)
   over the durable decisions of ranked/terminalDecisionStore.ts, here by when
   each may next be claimed.  Time is kept as what is left of every delay, so
   nothing bounds it.

   A step of the scheduler is the code between two awaits.  The end of drain and
   the callback that clears inFlight are one step: every caller of runNow comes
   from a timer or an answer of the database, never from between the two. *)
EXTENDS Integers, FiniteSets

CONSTANTS
    Item,           \* terminal decisions
    BatchLimit,     \* defaultClaimLimit: how many decisions one claim takes
    MaxDue,         \* the longest time until a decision is due
    Lease,          \* how long a claim lasts
    RetryDelay,     \* RANKED_TERMINAL_DECISION_PROCESS_INTERVAL_MS, and a decision's own retry
    MaxTimerDelay,  \* MAX_TIMER_DELAY_MS: the longest delay a timer takes
    MaxFaults       \* bound on failing runs, failing decisions and dying peers

SchedulerAssumption ==
    /\ {BatchLimit, MaxDue, Lease, RetryDelay, MaxTimerDelay} \subseteq Nat \ {0}
    /\ MaxFaults \in Nat

Never == -1

VARIABLES
    status,     \* of each decision: absent, pending, processing, done
    left,       \* time until it may be claimed
    committed,  \* decisions whose commit has been answered, runNow not yet called
    claimed,    \* decisions this process is working on
    peer,       \* decisions another process is working on
    pc,         \* drain: idle, claiming, working, reading or scheduling
    next,       \* what getNextActionAt answered
    rerunRequested, scheduledFor, timer, stopped,
    faults

store == <<status, left, peer>>
scheduler == <<pc, next, rerunRequested, scheduledFor, timer, stopped>>
vars == <<store, committed, claimed, scheduler, faults>>

Init ==
    /\ status = [i \in Item |-> "absent"] /\ left = [i \in Item |-> 0]
    /\ committed = {} /\ claimed = {} /\ peer = {}
    /\ pc = "idle" /\ next = Never /\ rerunRequested = FALSE
    /\ scheduledFor = Never /\ timer = Never /\ stopped = FALSE
    /\ faults = 0

Fault == faults < MaxFaults /\ faults' = faults + 1
Least(x, y) == IF x <= y THEN x ELSE y
Open == {i \in Item : status[i] \in {"pending", "processing"}}
Claimable_Pending == {i \in Open : status[i] = "pending" /\ left[i] = 0}
Claimable == {i \in Open : left[i] = 0}

-----------------------------------------------------------------------------
(* The scheduler's own operations, on scheduledFor and timer. *)

NoTimer == scheduledFor' = Never /\ timer' = Never

ScheduleAt(time) ==
    /\ scheduledFor' = time
    /\ timer' = IF stopped THEN Never ELSE Least(time, MaxTimerDelay)

(* The head of drain's loop, or its end. *)
Loop(requested) ==
    IF requested /\ ~stopped
    THEN pc' = "claiming" /\ rerunRequested' = FALSE
    ELSE pc' = "idle" /\ rerunRequested' = requested

(* runNow: a drain that is under way is asked for another round. *)
RunNow ==
    IF stopped THEN UNCHANGED <<pc, rerunRequested, scheduledFor, timer>>
    ELSE /\ NoTimer
         /\ IF pc = "idle" THEN pc' = "claiming" /\ rerunRequested' = FALSE
            ELSE rerunRequested' = TRUE /\ pc' = pc

-----------------------------------------------------------------------------
(* A checkpoint commits a decision, its continuation calls runNow. *)
Enqueue(i) ==
    /\ status[i] = "absent" /\ ~stopped
    /\ status' = [status EXCEPT ![i] = "pending"]
    /\ \E due \in 0..MaxDue : left' = [left EXCEPT ![i] = due]
    /\ committed' = committed \cup {i}
    /\ UNCHANGED <<peer, claimed, scheduler, faults>>

Committed ==
    /\ committed # {}
    /\ committed' = {}
    /\ RunNow
    /\ UNCHANGED <<store, claimed, next, stopped, faults>>

(* claimBatch. *)
Claim ==
    /\ pc = "claiming"
    /\ \E batch \in SUBSET Claimable :
        /\ Cardinality(batch) = Least(BatchLimit, Cardinality(Claimable))
        /\ claimed' = batch
        /\ peer' = peer \ batch
        /\ status' = [i \in Item |-> IF i \in batch THEN "processing" ELSE status[i]]
        /\ left' = [i \in Item |-> IF i \in batch THEN Lease ELSE left[i]]
    /\ pc' = "working"
    /\ UNCHANGED <<committed, next, rerunRequested, scheduledFor, timer, stopped, faults>>

(* One decision of the batch: closed, released for a retry, or left to its lease
   when that fails too, unless another process has claimed it meanwhile. *)
Settle(i) ==
    /\ pc = "working" /\ i \in claimed
    /\ claimed' = claimed \ {i}
    /\ IF i \in peer \/ status[i] # "processing" THEN UNCHANGED <<status, left, faults>>
       ELSE \/ /\ status' = [status EXCEPT ![i] = "done"]
               /\ UNCHANGED <<left, faults>>
            \/ /\ Fault
               /\ status' = [status EXCEPT ![i] = "pending"]
               /\ left' = [left EXCEPT ![i] = RetryDelay]
            \/ Fault /\ UNCHANGED <<status, left>>
    /\ UNCHANGED <<peer, committed, scheduler>>

WorkDone ==
    /\ pc = "working" /\ claimed = {}
    /\ pc' = "reading"
    /\ UNCHANGED <<store, committed, claimed, next, rerunRequested, scheduledFor, timer, stopped, faults>>

(* getNextActionAt: the earliest moment anything may be claimed. *)
ReadNext ==
    /\ pc = "reading"
    /\ \/ Open = {} /\ next' = Never
       \/ \E i \in Open : next' = left[i] /\ \A j \in Open : left[i] <= left[j]
    /\ pc' = "scheduling"
    /\ UNCHANGED <<store, committed, claimed, rerunRequested, scheduledFor, timer, stopped, faults>>

(* The run has returned: another round if one was asked for, otherwise a timer. *)
RunReturns_Forgetful ==
    /\ pc = "scheduling"
    /\ IF next # Never THEN ScheduleAt(next) ELSE UNCHANGED <<scheduledFor, timer>>
    /\ pc' = "idle" /\ rerunRequested' = FALSE
    /\ next' = Never
    /\ UNCHANGED <<store, committed, claimed, stopped, faults>>

RunReturns ==
    /\ pc = "scheduling"
    /\ IF ~rerunRequested /\ next # Never THEN ScheduleAt(next) ELSE UNCHANGED <<scheduledFor, timer>>
    /\ Loop(rerunRequested)
    /\ next' = Never
    /\ UNCHANGED <<store, committed, claimed, stopped, faults>>

(* The run has thrown: the database did not answer. *)
RunThrows ==
    /\ pc \in {"claiming", "reading"} /\ Fault
    /\ IF ~rerunRequested /\ ~stopped THEN ScheduleAt(RetryDelay) ELSE UNCHANGED <<scheduledFor, timer>>
    /\ Loop(rerunRequested)
    /\ UNCHANGED <<store, committed, claimed, next, stopped>>

(* The timer's callback: a delay too long for one timer is taken in parts. *)
TimerFires ==
    /\ timer = 0
    /\ IF scheduledFor > 0
       THEN /\ timer' = Least(scheduledFor, MaxTimerDelay)
            /\ UNCHANGED <<pc, rerunRequested, scheduledFor>>
       ELSE RunNow
    /\ UNCHANGED <<store, committed, claimed, next, stopped, faults>>

Stop ==
    /\ ~stopped
    /\ stopped' = TRUE /\ rerunRequested' = FALSE /\ NoTimer
    /\ UNCHANGED <<store, committed, claimed, pc, next, faults>>

(* Another process: it claims, settles, or dies with its claim. *)
PeerClaims(i) ==
    /\ i \in Claimable /\ Fault
    /\ peer' = peer \cup {i}
    /\ status' = [status EXCEPT ![i] = "processing"]
    /\ left' = [left EXCEPT ![i] = Lease]
    /\ UNCHANGED <<committed, claimed, scheduler>>

PeerSettles(i) ==
    /\ i \in peer
    /\ peer' = peer \ {i}
    /\ status' = [status EXCEPT ![i] = "done"]
    /\ UNCHANGED <<left, committed, claimed, scheduler, faults>>

Minus(n) == IF n > 0 THEN n - 1 ELSE n

Tick ==
    /\ left' = [i \in Item |-> Minus(left[i])]
    /\ next' = Minus(next) /\ scheduledFor' = Minus(scheduledFor) /\ timer' = Minus(timer)
    /\ UNCHANGED <<status, peer, committed, claimed, pc, rerunRequested, stopped, faults>>

Next ==
    \/ Committed \/ Claim \/ WorkDone \/ ReadNext \/ RunReturns \/ RunThrows
    \/ TimerFires \/ Stop \/ Tick
    \/ \E i \in Item : Enqueue(i) \/ Settle(i) \/ PeerClaims(i) \/ PeerSettles(i)

(* Time passes, timers fire and the database answers.  Peers promise nothing. *)
Fairness ==
    /\ WF_vars(Tick) /\ WF_vars(Committed) /\ WF_vars(Claim) /\ WF_vars(WorkDone)
    /\ WF_vars(ReadNext) /\ WF_vars(RunReturns) /\ WF_vars(TimerFires)
    /\ \A i \in Item : WF_vars(Settle(i))

Spec == Init /\ [][Next]_vars /\ Fairness

-----------------------------------------------------------------------------
(* Types; there is a timer exactly for a schedule, and none once stopped. *)
TypeOK ==
    /\ status \in [Item -> {"absent", "pending", "processing", "done"}]
    /\ \A i \in Item : left[i] >= 0
    /\ committed \subseteq Item /\ claimed \subseteq Item /\ peer \subseteq Item
    /\ pc \in {"idle", "claiming", "working", "reading", "scheduling"}
    /\ rerunRequested => pc # "idle" /\ ~stopped
    /\ stopped => timer = Never
    /\ ~stopped => (timer = Never <=> scheduledFor = Never)
    /\ timer <= scheduledFor

Later(x, y) == IF x >= y THEN x ELSE y

(* The time within which decision i is looked at again: the wake-up that the
   scheduler holds, or is about to hold, is never later than the decision is
   claimable, or than the retry delay after a failing run. *)
Covers(time, i) == time # Never /\ time <= Later(left[i], RetryDelay)

(* No decision is overlooked, whatever the order of commits, runs, failures and
   timers: a call or a round that will look at it is still to come, or a timer
   is set early enough.  A wake-up asked for during a run is not lost, and one
   set from a deadline read before a commit is superseded by that commit. *)
NothingOverlooked ==
    ~stopped => \A i \in Open :
        \/ i \in committed
        \/ pc \in {"claiming", "working", "reading"}
        \/ rerunRequested
        \/ pc = "scheduling" /\ Covers(next, i)
        \/ Covers(scheduledFor, i)

(* After stop no further run begins. *)
StopIsFinal == [][ stopped /\ pc' = "claiming" => pc = "claiming" ]_vars

(* Every decision is eventually settled, unless the process is stopped: though
   runs and decisions fail, peers die with their claims and a delay is longer
   than any timer. *)
DueWorkIsDone == \A i \in Item : status[i] = "pending" ~> (status[i] = "done" \/ stopped)
=============================================================================
