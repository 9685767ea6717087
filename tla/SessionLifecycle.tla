-------------------------- MODULE SessionLifecycle --------------------------
(***************************************************************************)
(* onlineSessionLifecycle.ts and sessionHeartbeat.ts: the controller that  *)
(* tells the server when the page of an online match is hidden and shown   *)
(* again, with main.ts' callbacks, against the connection status that the  *)
(* server keeps of the player (SessionRules has that side in full).        *)
(*                                                                         *)
(* Transitions queue on a chain of promises, one chain per session; a      *)
(* session that was left keeps its chain, whose late answers must not      *)
(* touch the next one.  A request may be lost, run without its answer      *)
(* arriving, or be given up by the page and run at the server later.  The  *)
(* page is at play or about to be: canLifecycleManageOnlineSession holds   *)
(* until the match is over, and then Leave clears the controller.          *)
(***************************************************************************)
EXTENDS Naturals, Sequences, SequencesExt

CONSTANTS
    MaxSessions,   \* matches the page starts (a bound)
    MaxEvents,     \* times the page is hidden, shown or left (a bound)
    MaxFaults,     \* requests that fail, silent timeouts (a bound)
    MaxAttempts    \* reconnectMaxAttempts

LifecycleAssumption ==
    {MaxSessions, MaxEvents, MaxFaults} \subseteq Nat /\ MaxAttempts \in Nat \ {0}

VARIABLES
    visible,     \* document.visibilityState
    started,     \* sessions started so far; each is named by its number
    target,      \* the session the controller has, 0 when none
    phase, desiredSuspended, disconnectConfirmed,
    beating,     \* the heartbeat loop runs
    pulse,       \* its request: "none", "sent", or the answer under way
    queue,       \* per session: the transitions not begun
    call,        \* per session: what the transition that runs awaits
    conn,        \* per session: the server's view of the player
    strays,      \* requests given up by the page that may still run
    events, faults

controller == <<target, phase, desiredSuspended, disconnectConfirmed, beating, pulse>>
vars == <<visible, started, controller, queue, call, conn, strays, events, faults>>

Session == 1..MaxSessions
Idle == [on |-> "nothing", attempt |-> 0, reply |-> "none"]

TypeOK ==
    /\ visible \in BOOLEAN
    /\ started \in 0..MaxSessions /\ target \in 0..started
    /\ phase \in {"idle", "active", "suspending", "suspended", "resuming"}
    /\ desiredSuspended \in BOOLEAN /\ disconnectConfirmed \in BOOLEAN /\ beating \in BOOLEAN
    /\ pulse \in {"none", "sent", "ok", "disconnected", "resolved"}
    /\ \A s \in Session : queue[s] \in Seq({"suspend", "resume", "recover"})
    /\ call \in [Session -> [on : {"nothing", "disconnect", "reconnect", "retry"},
                             attempt : 0..MaxAttempts, reply : {"none", "ok", "refused"}]]
    /\ conn \in [Session -> {"connected", "disconnected", "resolved"}]
    /\ strays \subseteq Session \X {"disconnect", "reconnect"}
    /\ events \in 0..MaxEvents /\ faults \in 0..MaxFaults

Init ==
    /\ visible = TRUE /\ started = 0
    /\ target = 0 /\ phase = "idle" /\ desiredSuspended = FALSE
    /\ disconnectConfirmed = FALSE /\ beating = FALSE /\ pulse = "none"
    /\ queue = [s \in Session |-> <<>>]
    /\ call = [s \in Session |-> Idle]
    /\ conn = [s \in Session |-> "connected"]
    /\ strays = {} /\ events = 0 /\ faults = 0

Fault == faults < MaxFaults /\ faults' = faults + 1
Event == events < MaxEvents /\ events' = events + 1

-----------------------------------------------------------------------------
(* The heartbeat loop and the chain.                                       *)

\* A transition begins in the microtask after its predecessor ended: nothing
\* else of the page comes between.
Ready(s) == queue[s] # <<>> /\ call[s] = Idle
Quiet == \A s \in Session : ~Ready(s)

Enqueue(s, op) == queue' = [queue EXCEPT ![s] = Append(@, op)]
Await(s, c) == call' = [call EXCEPT ![s] = c]
Request(s, kind, attempt) == Await(s, [on |-> kind, attempt |-> attempt, reply |-> "none"])

\* Mutant: a pulse under way is not aborted.
StopBeating_KeepPulse == beating' = FALSE /\ pulse' = pulse

\* SessionHeartbeatLoop.stop
StopBeating == beating' = FALSE /\ pulse' = "none"

\* SessionHeartbeatLoop.start: the first pulse goes out at once.
StartBeating ==
    /\ beating' = TRUE
    /\ pulse' = IF beating THEN pulse ELSE "sent"

\* resetRuntime
Reset ==
    /\ StopBeating
    /\ target' = 0
    /\ desiredSuspended' = FALSE /\ disconnectConfirmed' = FALSE

-----------------------------------------------------------------------------
(* What the page does.                                                     *)

\* startOnlineSessionHeartbeat: a page that is hidden suspends at once.
Start ==
    /\ Quiet /\ started < MaxSessions
    /\ started' = started + 1 /\ target' = started + 1
    /\ disconnectConfirmed' = FALSE
    /\ desiredSuspended' = ~visible
    /\ phase' = "active"
    /\ beating' = visible /\ pulse' = IF visible THEN "sent" ELSE "none"
    /\ queue' = IF visible THEN queue ELSE [queue EXCEPT ![started + 1] = <<"suspend">>]
    /\ UNCHANGED <<visible, call, conn, strays, events, faults>>

\* clearOnlineSessionHeartbeat: the match is over or left.
Leave ==
    /\ Quiet /\ Event
    /\ target # 0
    /\ Reset /\ phase' = "idle"
    /\ UNCHANGED <<visible, started, queue, call, conn, strays, faults>>

\* visibilitychange and pagehide: either comes first, and both may come.
Suspend ==
    /\ Quiet /\ Event
    /\ visible' = FALSE
    /\ IF target = 0
       THEN UNCHANGED <<desiredSuspended, beating, pulse, queue>>
       ELSE desiredSuspended' = TRUE /\ StopBeating /\ Enqueue(target, "suspend")
    /\ UNCHANGED <<started, target, phase, disconnectConfirmed, call, conn, strays, faults>>

\* visibilitychange and pageshow.
Resume ==
    /\ Quiet /\ Event
    /\ visible' = TRUE
    /\ IF target = 0
       THEN UNCHANGED <<desiredSuspended, queue>>
       ELSE desiredSuspended' = FALSE /\ Enqueue(target, "resume")
    /\ UNCHANGED <<started, target, phase, disconnectConfirmed, beating, pulse, call, conn,
                   strays, faults>>

-----------------------------------------------------------------------------
(* Transitions.                                                            *)

\* Mutant: a page that was hidden meanwhile is taken for active.
Rejoined_Regardless(s) ==
    disconnectConfirmed' = FALSE /\ phase' = "active" /\ StartBeating

\* The end of reconnect.
Rejoined(s) ==
    /\ disconnectConfirmed' = FALSE
    /\ IF desiredSuspended
       THEN phase' = "suspended" /\ UNCHANGED <<beating, pulse>>
       ELSE phase' = "active" /\ StartBeating

\* reconnect: nothing is asked of the server unless it counts the player out.
Rejoin(s) ==
    IF disconnectConfirmed
    THEN /\ phase' = "resuming" /\ Request(s, "reconnect", 1)
         /\ UNCHANGED <<disconnectConfirmed, beating, pulse>>
    ELSE Rejoined(s) /\ UNCHANGED call

BeginSuspend(s) ==
    /\ Head(queue[s]) = "suspend"
    /\ IF phase = "suspended" /\ disconnectConfirmed
       THEN UNCHANGED <<phase, call>>
       ELSE phase' = "suspending" /\ Request(s, "disconnect", 0)
    /\ UNCHANGED <<disconnectConfirmed, beating, pulse>>

BeginResume(s) ==
    /\ Head(queue[s]) = "resume"
    /\ IF phase = "active"
       THEN StartBeating /\ UNCHANGED <<phase, disconnectConfirmed, call>>
       ELSE Rejoin(s)

\* The recovery a refused heartbeat asked for.
BeginRecover(s) ==
    /\ Head(queue[s]) = "recover"
    /\ IF desiredSuspended
       THEN phase' = "suspended" /\ UNCHANGED <<disconnectConfirmed, beating, pulse, call>>
       ELSE Rejoin(s)

\* enqueue: the transitions of a session that was left do nothing.
Begin(s) ==
    /\ Ready(s)
    /\ queue' = [queue EXCEPT ![s] = Tail(@)]
    /\ \/ s # target /\ UNCHANGED <<phase, disconnectConfirmed, beating, pulse, call>>
       \/ s = target /\ (BeginSuspend(s) \/ BeginResume(s) \/ BeginRecover(s))
    /\ UNCHANGED <<visible, started, target, desiredSuspended, conn, strays, events, faults>>

-----------------------------------------------------------------------------
(* What becomes of a request.                                              *)

Retryable(s) == ~desiredSuspended /\ call[s].attempt < MaxAttempts

\* reconnect gives up.  While the page is shown, main.ts is told and clears
\* the controller; the phase is written after that.
GiveUp(s) ==
    /\ phase' = "suspended"
    /\ IF desiredSuspended
       THEN StopBeating /\ UNCHANGED <<target, desiredSuspended, disconnectConfirmed>>
       ELSE Reset

\* Mutant: the transition does not look whose session it is.
Disconnected_Unchecked(s, confirmed) ==
    phase' = "suspended" /\ disconnectConfirmed' = confirmed

\* suspend, after its request ended.
Disconnected(s, confirmed) ==
    IF s = target
    THEN phase' = "suspended" /\ disconnectConfirmed' = confirmed
    ELSE UNCHANGED <<phase, disconnectConfirmed>>

\* The answer to a transition's request arrives; a refusal is final.
Answer(s) ==
    /\ Quiet
    /\ call[s].reply # "none"
    /\ Await(s, Idle)
    /\ \/ /\ call[s].on = "disconnect"
          /\ Disconnected(s, call[s].reply = "ok")
          /\ UNCHANGED <<target, desiredSuspended, beating, pulse>>
       \/ /\ call[s].on = "reconnect" /\ call[s].reply = "ok"
          /\ IF s = target THEN Rejoined(s) ELSE UNCHANGED <<phase, disconnectConfirmed, beating, pulse>>
          /\ UNCHANGED <<target, desiredSuspended>>
       \/ /\ call[s].on = "reconnect" /\ call[s].reply = "refused"
          /\ IF s = target THEN GiveUp(s) ELSE UNCHANGED controller
    /\ UNCHANGED <<visible, started, queue, conn, strays, events, faults>>

\* A request fails: it never ran, it ran and the answer is lost, or the page
\* gives it up and it runs later.
Fail(s) ==
    /\ Quiet /\ Fault
    /\ call[s].on \in {"disconnect", "reconnect"}
    /\ \/ UNCHANGED strays
       \/ call[s].reply = "none" /\ strays' = strays \cup {<<s, call[s].on>>}
    /\ \/ /\ call[s].on = "disconnect" /\ Await(s, Idle)
          /\ Disconnected(s, FALSE)
          /\ UNCHANGED <<target, desiredSuspended, beating, pulse>>
       \/ /\ call[s].on = "reconnect"
          /\ IF s # target THEN Await(s, Idle) /\ UNCHANGED controller
             ELSE IF Retryable(s) THEN Request(s, "retry", call[s].attempt) /\ UNCHANGED controller
             ELSE Await(s, Idle) /\ GiveUp(s)
    /\ UNCHANGED <<visible, started, queue, conn, events>>

\* waitForReconnectRetry ends.
Retry(s) ==
    /\ Quiet
    /\ call[s].on = "retry"
    /\ IF s # target THEN Await(s, Idle) /\ UNCHANGED controller
       ELSE IF desiredSuspended THEN Await(s, Idle) /\ GiveUp(s)
       ELSE Request(s, "reconnect", call[s].attempt + 1) /\ UNCHANGED controller
    /\ UNCHANGED <<visible, started, queue, conn, strays, events, faults>>

-----------------------------------------------------------------------------
(* Heartbeats.                                                             *)

\* The interval timer fires: pulse and sendHeartbeat.
Pulse ==
    /\ Quiet
    /\ beating /\ pulse = "none"
    /\ phase = "active" /\ ~desiredSuspended
    /\ pulse' = "sent"
    /\ UNCHANGED <<visible, started, target, phase, desiredSuspended, disconnectConfirmed, beating,
                   queue, call, conn, strays, events, faults>>

\* A pulse that failed or took too long is reported and the loop goes on.
PulseFails ==
    /\ Quiet /\ Fault
    /\ pulse # "none" /\ pulse' = "none"
    /\ UNCHANGED <<visible, started, target, phase, desiredSuspended, disconnectConfirmed, beating,
                   queue, call, conn, strays, events>>

\* Mutant: that the server counts the player out is not kept for the recovery.
Refused_Unconfirmed ==
    /\ pulse = "disconnected"
    /\ StopBeating
    /\ Enqueue(target, "recover")
    /\ UNCHANGED <<target, phase, desiredSuspended, disconnectConfirmed>>

\* participant_disconnected
Refused ==
    /\ pulse = "disconnected"
    /\ StopBeating /\ disconnectConfirmed' = TRUE
    /\ Enqueue(target, "recover")
    /\ UNCHANGED <<target, phase, desiredSuspended>>

\* The answer to a pulse: fine, a recovery, or the end of the session.
Beat ==
    /\ Quiet
    /\ \/ /\ pulse = "ok" /\ pulse' = "none"
          /\ UNCHANGED <<target, phase, desiredSuspended, disconnectConfirmed, beating, queue>>
       \/ Refused
       \/ pulse = "resolved" /\ Reset /\ phase' = "idle" /\ UNCHANGED queue
    /\ UNCHANGED <<visible, started, call, conn, strays, events, faults>>

-----------------------------------------------------------------------------
(* The server.                                                             *)

After(status, kind) ==
    CASE status = "resolved" -> status
      [] kind = "disconnect" -> "disconnected"
      [] kind = "reconnect" -> "connected"

\* markSessionDisconnected and reconnectSession for a transition that waits.
Serve(s) ==
    /\ Quiet
    /\ call[s].on \in {"disconnect", "reconnect"} /\ call[s].reply = "none"
    /\ conn' = [conn EXCEPT ![s] = After(@, call[s].on)]
    /\ call' = [call EXCEPT ![s].reply = IF conn[s] = "resolved" THEN "refused" ELSE "ok"]
    /\ UNCHANGED <<visible, started, controller, queue, strays, events, faults>>

\* ... for one that was given up: it runs now or is lost.
ServeStray(s, kind) ==
    /\ Quiet
    /\ <<s, kind>> \in strays
    /\ strays' = strays \ {<<s, kind>>}
    /\ conn' \in {conn, [conn EXCEPT ![s] = After(@, kind)]}
    /\ UNCHANGED <<visible, started, controller, queue, call, events, faults>>

\* heartbeatSession
ServePulse ==
    /\ Quiet
    /\ pulse = "sent"
    /\ pulse' = IF conn[target] = "connected" THEN "ok" ELSE conn[target]
    /\ UNCHANGED <<visible, started, target, phase, desiredSuspended, disconnectConfirmed, beating,
                   queue, call, conn, strays, events, faults>>

\* The server heard nothing for too long, or waited too long for the player.
CountOut(s) ==
    /\ Quiet /\ Fault
    /\ s <= started
    /\ \/ conn[s] = "connected" /\ conn' = [conn EXCEPT ![s] = "disconnected"]
       \/ conn[s] = "disconnected" /\ conn' = [conn EXCEPT ![s] = "resolved"]
    /\ UNCHANGED <<visible, started, controller, queue, call, strays, events>>

-----------------------------------------------------------------------------

Next ==
    \/ Start \/ Leave \/ Suspend \/ Resume
    \/ Pulse \/ PulseFails \/ Beat \/ ServePulse
    \/ \E s \in Session :
        \/ Begin(s) \/ Answer(s) \/ Fail(s) \/ Retry(s) \/ Serve(s) \/ CountOut(s)
        \/ \E kind \in {"disconnect", "reconnect"} : ServeStray(s, kind)

\* Timers fire, promises settle and requests are served; nobody has to hide,
\* show or leave the page.
Fairness ==
    /\ WF_vars(Pulse) /\ WF_vars(Beat) /\ WF_vars(ServePulse)
    /\ \A s \in Session :
        /\ WF_vars(Begin(s)) /\ WF_vars(Answer(s)) /\ WF_vars(Retry(s)) /\ WF_vars(Serve(s))
        /\ \A kind \in {"disconnect", "reconnect"} : WF_vars(ServeStray(s, kind))

Spec == Init /\ [][Next]_vars /\ Fairness

-----------------------------------------------------------------------------
(* Properties.                                                             *)

\* A hidden page sends no heartbeat that would keep the player counted in,
\* however the page is hidden and shown while requests are under way.
HiddenIsSilent == desiredSuspended \/ target = 0 => ~beating /\ pulse = "none"

\* When every transition has ended, the controller does what the page last
\* asked for: it beats exactly if the page is shown.
SettlesAsAsked ==
    target # 0 /\ queue[target] = <<>> /\ call[target] = Idle =>
        /\ desiredSuspended = ~visible
        /\ phase = IF visible THEN "active" ELSE "suspended"
        /\ beating = visible

\* A transition of a session that was left asks nothing more of the server,
\* and what it still learns does not reach the controller (isCurrent).
LeftIsInert ==
    [][\A s \in Session : s # target /\ call'[s] # call[s] =>
            /\ call'[s].on \in {call[s].on, "nothing"}
            /\ UNCHANGED controller]_vars

\* A shown page whose match the server has not resolved ends up counted in,
\* unless the player was told that the reconnect failed (which leaves it).
ShownIsCountedIn ==
    <>[](target # 0 /\ visible /\ conn[target] # "resolved")
        => <>[](target # 0 /\ phase = "active" /\ conn[target] = "connected")
=============================================================================
