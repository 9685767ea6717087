----------------------------- MODULE Signalling -----------------------------
(* How two clients of a match reach each other: the mailbox of WebRTC signals
   (matchmaking/sessionSignalStore.ts and its routes in server.ts), the transport
   attempt that partitions it (queueService.ts, sessionAccessStore.ts), and the
   negotiation of each client (net/webRtcSession.ts) over the first connection
   and one recovery.

   P1 offers and P2 answers; each sends one candidate for all of its candidates
   and their end.  A publish request is one PostgreSQL statement: it reads with
   the snapshot it began with, and only then waits for the session's lock. *)
EXTENDS Integers, Sequences, FiniteSets

CONSTANTS
    P1, P2,           \* the initiator and the answerer
    PublishAttempts,  \* SIGNAL_PUBLISH_ATTEMPTS
    MaxMessages,      \* maxMessagesPerSession
    MaxRecoveries,    \* maxRecoveries of the transport
    MaxFaults,        \* bound on requests and answers lost
    MaxGiveUps,       \* bound on connection timeouts and failed recoveries
    MaxRestarts,      \* bound on clients that negotiate the same attempt afresh
    MaxLosses         \* bound on channels lost

ASSUME SignallingAssumption ==
    /\ P1 # P2
    /\ {PublishAttempts, MaxMessages} \subseteq Nat \ {0}
    /\ {MaxRecoveries, MaxFaults, MaxGiveUps, MaxRestarts, MaxLosses} \subseteq Nat

Player == {P1, P2}
Peer(p) == IF p = P1 THEN P2 ELSE P1
None == 0

VARIABLES
    current,    \* transportAttemptGeneration, and the access projection saved with it
    clearing,   \* the attempt an advance of each player has still to clear the mailbox for
    rows, nextId,  \* matchmaking_session_signals, and its identity column
    requests,   \* publish requests under way
    answer,     \* what has come back to each player's publish request
    phase,      \* of each player: connecting, open, recovering or failed
    attempt,    \* the transport attempt each uses
    conn,       \* connectionId
    remote,     \* the connection whose remote description is set
    described,  \* how often it was set
    heard,      \* the peer's candidate has been added
    out, tries, waits,  \* publishChain: what it holds, attempts on its head, how much of it is awaited
    gathered,   \* the player's own candidate has been queued
    cursor, held, batch, got,  \* signalCursor, pendingInitialSignals, signals to handle, ids seen
    recovered,  \* completedRecoveries
    fresh,      \* the next connection and message ids
    budget      \* what is left of each bound

mailbox == <<current, clearing, rows, nextId, requests>>
sender == <<out, tries, waits, gathered, answer>>
receiver == <<cursor, held, batch, got>>
link == <<phase, attempt, conn, remote, described, heard, recovered>>
vars == <<mailbox, sender, receiver, link, fresh, budget>>

\* The bounds are chosen by the instance.
Start ==
    /\ current = 1 /\ clearing = [p \in Player |-> None]
    /\ rows = {} /\ nextId = 1 /\ requests = {}
    /\ answer = [p \in Player |-> "none"]
    /\ phase = [p \in Player |-> "connecting"] /\ attempt = [p \in Player |-> 1]
    /\ conn = [p \in Player |-> IF p = P1 THEN 1 ELSE None]
    /\ remote = [p \in Player |-> None] /\ described = [p \in Player |-> 0]
    /\ heard = [p \in Player |-> FALSE] /\ recovered = [p \in Player |-> 0]
    /\ out = [p \in Player |-> IF p = P1 THEN <<[kind |-> "offer", conn |-> 1, msg |-> 1]>> ELSE <<>>]
    /\ tries = [p \in Player |-> 0] /\ waits = [p \in Player |-> IF p = P1 THEN 1 ELSE 0]
    /\ gathered = [p \in Player |-> FALSE]
    /\ cursor = [p \in Player |-> 0] /\ held = [p \in Player |-> {}]
    /\ batch = [p \in Player |-> {}] /\ got = [p \in Player |-> {}]
    /\ fresh = [conn |-> 2, msg |-> 2]

Bounds == [faults |-> MaxFaults, giveUps |-> MaxGiveUps, restarts |-> MaxRestarts, losses |-> MaxLosses]

Init == Start /\ budget = Bounds

Spend(bound) == budget[bound] > 0 /\ budget' = [budget EXCEPT ![bound] = @ - 1]

-----------------------------------------------------------------------------
(* publishWithRetry, one signal at a time, and the statement of publishSignal. *)

Send(p) ==
    /\ phase[p] \in {"connecting", "open"} /\ out[p] # <<>> /\ answer[p] = "none"
    /\ requests' = requests \cup {[from |-> p, attempt |-> attempt[p], signal |-> Head(out[p]),
                                   try |-> tries[p], stage |-> "sent", full |-> FALSE, exists |-> FALSE, id |-> None]}
    /\ answer' = [answer EXCEPT ![p] = "awaited"]
    /\ UNCHANGED <<current, clearing, rows, nextId, out, tries, waits, gathered, receiver, link, fresh, budget>>

(* Is anybody still waiting for the answer to this request? *)
Awaited(r) ==
    /\ answer[r.from] = "awaited" /\ attempt[r.from] = r.attempt
    /\ out[r.from] # <<>> /\ Head(out[r.from]).msg = r.signal.msg /\ tries[r.from] = r.try

Answered(r, result) == answer' = [answer EXCEPT ![r.from] = IF Awaited(r) THEN result ELSE @]

Moved(r, s) == (requests \ {r}) \cup {s}

(* The route: validateSignalAccess against the access projection. *)
Validate(r) ==
    /\ r.stage = "sent"
    /\ IF r.attempt = current
       THEN requests' = Moved(r, [r EXCEPT !.stage = "valid"]) /\ UNCHANGED answer
       ELSE requests' = requests \ {r} /\ Answered(r, "error")
    /\ UNCHANGED <<current, clearing, rows, nextId, out, tries, waits, gathered, receiver, link, fresh, budget>>

SameMessage(r) == {row \in rows : row.from = r.from /\ row.signal.msg = r.signal.msg}

(* The statement begins: what existing and usage will say is decided. *)
Begin_Allocates(r) ==
    /\ r.stage = "valid"
    /\ requests' = Moved(r, [r EXCEPT !.stage = "begun", !.full = Cardinality(rows) >= MaxMessages,
                                      !.exists = SameMessage(r) # {}, !.id = nextId])
    /\ nextId' = nextId + 1
    /\ UNCHANGED <<current, clearing, rows, sender, receiver, link, fresh, budget>>

Begin(r) ==
    /\ r.stage = "valid"
    /\ requests' = Moved(r, [r EXCEPT !.stage = "begun", !.full = Cardinality(rows) >= MaxMessages,
                                      !.exists = SameMessage(r) # {}])
    /\ UNCHANGED <<current, clearing, rows, nextId, sender, receiver, link, fresh, budget>>

(* It has the session's lock, and commits before it lets it go. *)
Insert_Unkeyed(r) ==
    /\ r.stage = "begun"
    /\ requests' = requests \ {r}
    /\ rows' = rows \cup {[id |-> nextId, attempt |-> r.attempt, from |-> r.from, signal |-> r.signal]}
    /\ nextId' = nextId + 1
    /\ Answered(r, "ok")
    /\ UNCHANGED <<current, clearing, out, tries, waits, gathered, receiver, link, fresh, budget>>

Insert(r) ==
    /\ r.stage = "begun"
    /\ requests' = requests \ {r}
    /\ IF r.full /\ ~r.exists
       THEN UNCHANGED <<rows, nextId>> /\ Answered(r, "error")
       ELSE /\ IF SameMessage(r) # {} THEN UNCHANGED <<rows, nextId>>
               ELSE /\ rows' = rows \cup {[id |-> IF r.id = None THEN nextId ELSE r.id,
                                           attempt |-> r.attempt, from |-> r.from, signal |-> r.signal]}
                    /\ nextId' = nextId + 1
            /\ Answered(r, "ok")
    /\ UNCHANGED <<current, clearing, out, tries, waits, gathered, receiver, link, fresh, budget>>

(* The answer arrives: the next signal, another attempt, or the end. *)
Receive(p) ==
    /\ answer[p] \in {"ok", "error"}
    /\ answer' = [answer EXCEPT ![p] = "none"]
    /\ IF answer[p] = "ok"
       THEN /\ out' = [out EXCEPT ![p] = Tail(@)] /\ tries' = [tries EXCEPT ![p] = 0]
            /\ waits' = [waits EXCEPT ![p] = IF @ > 0 THEN @ - 1 ELSE 0]
            /\ UNCHANGED phase
       ELSE /\ tries' = [tries EXCEPT ![p] = @ + 1]
            /\ phase' = [phase EXCEPT ![p] = IF tries[p] + 1 < PublishAttempts \/ @ # "connecting" THEN @ ELSE "failed"]
            /\ out' = [out EXCEPT ![p] = IF tries[p] + 1 < PublishAttempts THEN @ ELSE <<>>]
            /\ waits' = [waits EXCEPT ![p] = IF tries[p] + 1 < PublishAttempts THEN @ ELSE 0]
    /\ UNCHANGED <<mailbox, gathered, receiver, attempt, conn, remote, described, heard, recovered, fresh, budget>>

(* The connection breaks while a request is under way: it may yet be served. *)
LoseAnswer(p) ==
    /\ answer[p] = "awaited" /\ Spend("faults")
    /\ answer' = [answer EXCEPT ![p] = "error"]
    /\ \/ UNCHANGED requests
       \/ requests' = {r \in requests : ~(r.from = p /\ Awaited(r) /\ r.stage = "sent")}
    /\ UNCHANGED <<current, clearing, rows, nextId, out, tries, waits, gathered, receiver, link, fresh>>

-----------------------------------------------------------------------------
(* The negotiation: connectWebRtcSession. *)

(* What the mailbox answers to a poll, in the order of the ids. *)
Mail(p) == {row \in rows : row.attempt = attempt[p] /\ row.from = Peer(p) /\ row.id > cursor[p]}

Ids(signals) == {row.id : row \in signals}
IsOffer(row) == row.signal.kind = "offer"
IsFirst(row, signals) == row \in signals /\ \A other \in signals : row.id <= other.id
IsLast(row, signals) == row \in signals /\ \A other \in signals : other.id <= row.id

(* pollSignals is between two polls; its attempt is still the current one. *)
Polling(p) ==
    /\ phase[p] = "connecting" /\ waits[p] = 0 /\ batch[p] = {}
    /\ attempt[p] = current

Poll(p) ==
    /\ Polling(p) /\ (p = P1 \/ conn[p] # None)
    /\ Mail(p) # {}
    /\ batch' = [batch EXCEPT ![p] = Mail(p)]
    /\ UNCHANGED <<mailbox, sender, cursor, held, got, link, fresh, budget>>

(* The answerer keeps the first signals until an offer has settled ... *)
Hold(p) ==
    /\ Polling(p) /\ p = P2 /\ conn[p] = None
    /\ \E last \in Mail(p) :
        /\ IsLast(last, Mail(p))
        /\ cursor' = [cursor EXCEPT ![p] = last.id]
    /\ held' = [held EXCEPT ![p] = @ \cup Mail(p)]
    /\ got' = [got EXCEPT ![p] = @ \cup Ids(Mail(p))]
    /\ UNCHANGED <<mailbox, sender, batch, link, fresh, budget>>

(* ... and then takes the latest offer and what follows it. *)
SettleOffer(p) ==
    /\ Polling(p) /\ p = P2 /\ conn[p] = None
    /\ \E offer \in held[p] : IsOffer(offer)
    /\ LET all == held[p] \cup Mail(p) IN
       /\ \E latest \in all :
            /\ IsLast(latest, {row \in all : IsOffer(row)})
            /\ batch' = [batch EXCEPT ![p] = {row \in all : row.id >= latest.id}]
       /\ \E last \in all : IsLast(last, all) /\ cursor' = [cursor EXCEPT ![p] = last.id]
    /\ got' = [got EXCEPT ![p] = @ \cup Ids(Mail(p))]
    /\ held' = [held EXCEPT ![p] = {}]
    /\ UNCHANGED <<mailbox, sender, link, fresh, budget>>

(* Three polls in a row were refused: the attempt has been superseded. *)
PollRefused(p) ==
    /\ phase[p] = "connecting" /\ waits[p] = 0 /\ batch[p] = {}
    /\ attempt[p] # current
    /\ phase' = [phase EXCEPT ![p] = "failed"]
    /\ UNCHANGED <<mailbox, sender, receiver, attempt, conn, remote, described, heard, recovered, fresh, budget>>

(* The handlers of one signal: what becomes of the connection. *)
Refuse(p) ==
    /\ phase' = [phase EXCEPT ![p] = "failed"]
    /\ UNCHANGED <<conn, remote, described, heard, out, waits, fresh>>

HandleOffer(p, k) ==
    IF p = P1 \/ conn[p] \notin {None, k} THEN Refuse(p)
    ELSE /\ conn' = [conn EXCEPT ![p] = k] /\ remote' = [remote EXCEPT ![p] = k]
         /\ described' = [described EXCEPT ![p] = @ + 1]
         /\ out' = [out EXCEPT ![p] = Append(@, [kind |-> "answer", conn |-> k, msg |-> fresh.msg])]
         /\ waits' = [waits EXCEPT ![p] = Len(out[p]) + 1]
         /\ fresh' = [fresh EXCEPT !.msg = @ + 1]
         /\ UNCHANGED <<phase, heard>>

(* The answer describes the connection. *)
Describe(p, k) ==
    /\ remote' = [remote EXCEPT ![p] = k] /\ described' = [described EXCEPT ![p] = @ + 1]
    /\ UNCHANGED <<phase, conn, heard, out, waits, fresh>>

Ignore == UNCHANGED <<phase, conn, remote, described, heard, out, waits, fresh>>

HandleAnswer_AnyConnection(p, k) ==
    IF p = P2 THEN Refuse(p) ELSE IF remote[p] # None THEN Ignore ELSE Describe(p, k)

HandleAnswer(p, k) ==
    IF p = P2 THEN Refuse(p) ELSE IF k # conn[p] \/ remote[p] # None THEN Ignore ELSE Describe(p, k)

(* A candidate that comes before the description is kept until it is set. *)
HandleCandidate(p, k) ==
    /\ conn' = [conn EXCEPT ![p] = IF @ = None THEN k ELSE @]
    /\ heard' = [heard EXCEPT ![p] = @ \/ k = conn'[p]]
    /\ UNCHANGED <<phase, remote, described, out, waits, fresh>>

Handle(p) ==
    /\ phase[p] = "connecting" /\ waits[p] = 0
    /\ \E row \in batch[p] :
        /\ IsFirst(row, batch[p])
        /\ cursor' = [cursor EXCEPT ![p] = IF row.id > @ THEN row.id ELSE @]
        /\ got' = [got EXCEPT ![p] = @ \cup {row.id}]
        /\ batch' = [batch EXCEPT ![p] = @ \ {row}]
        /\ CASE row.attempt # attempt[p] -> Refuse(p)
             [] IsOffer(row) -> HandleOffer(p, row.signal.conn)
             [] row.signal.kind = "answer" -> HandleAnswer(p, row.signal.conn)
             [] OTHER -> HandleCandidate(p, row.signal.conn)
    /\ UNCHANGED <<mailbox, held, tries, gathered, answer, attempt, recovered, budget>>

(* onicecandidate: before the description is published it will be awaited too. *)
Gather(p) ==
    /\ phase[p] = "connecting" /\ conn[p] # None /\ ~gathered[p]
    /\ gathered' = [gathered EXCEPT ![p] = TRUE]
    /\ out' = [out EXCEPT ![p] = Append(@, [kind |-> "candidate", conn |-> conn[p], msg |-> fresh.msg])]
    /\ waits' = [waits EXCEPT ![p] = IF @ > 0 THEN @ + 1 ELSE 0]
    /\ fresh' = [fresh EXCEPT !.msg = @ + 1]
    /\ UNCHANGED <<mailbox, tries, answer, receiver, link, budget>>

Described(p, k) == conn[p] = k /\ remote[p] = k /\ heard[p]

(* WebRTC opens the channel when both ends have described the same connection. *)
Open(p) ==
    /\ phase[p] = "connecting" /\ conn[p] # None
    /\ Described(p, conn[p]) /\ Described(Peer(p), conn[p])
    /\ phase[Peer(p)] \in {"connecting", "open"}
    /\ phase' = [phase EXCEPT ![p] = "open"]
    /\ batch' = [batch EXCEPT ![p] = {}]
    /\ UNCHANGED <<mailbox, sender, cursor, held, got, attempt, conn, remote, described, heard, recovered, fresh, budget>>

(* The channel did not open in time, or the recovery did not succeed. *)
GiveUp(p) ==
    /\ phase[p] \in {"connecting", "recovering"} /\ Spend("giveUps")
    /\ phase' = [phase EXCEPT ![p] = "failed"]
    /\ UNCHANGED <<mailbox, sender, receiver, attempt, conn, remote, described, heard, recovered, fresh>>

-----------------------------------------------------------------------------
(* Recovery: requestRecovery, prepareNextOnlineTransportAttempt and its route. *)

(* connectWebRtcSession begins: a new connection on attempt g. *)
Connect(p, g) ==
    /\ attempt' = [attempt EXCEPT ![p] = g]
    /\ phase' = [phase EXCEPT ![p] = "connecting"]
    /\ conn' = [conn EXCEPT ![p] = IF p = P1 THEN fresh.conn ELSE None]
    /\ remote' = [remote EXCEPT ![p] = None] /\ described' = [described EXCEPT ![p] = 0]
    /\ heard' = [heard EXCEPT ![p] = FALSE]
    /\ out' = [out EXCEPT ![p] = IF p = P1 THEN <<[kind |-> "offer", conn |-> fresh.conn, msg |-> fresh.msg]>> ELSE <<>>]
    /\ waits' = [waits EXCEPT ![p] = IF p = P1 THEN 1 ELSE 0] /\ tries' = [tries EXCEPT ![p] = 0]
    /\ gathered' = [gathered EXCEPT ![p] = FALSE] /\ answer' = [answer EXCEPT ![p] = "none"]
    /\ cursor' = [cursor EXCEPT ![p] = 0] /\ held' = [held EXCEPT ![p] = {}]
    /\ batch' = [batch EXCEPT ![p] = {}] /\ got' = [got EXCEPT ![p] = {}]
    /\ fresh' = IF p = P1 THEN [conn |-> fresh.conn + 1, msg |-> fresh.msg + 1] ELSE fresh

Recover(p) ==
    /\ phase' = [phase EXCEPT ![p] = IF recovered[p] < MaxRecoveries THEN "recovering" ELSE "failed"]
    /\ recovered' = [recovered EXCEPT ![p] = @ + 1]
    /\ UNCHANGED <<mailbox, sender, receiver, attempt, conn, remote, described, heard, fresh>>

LoseChannel(p) == phase = [q \in Player |-> "open"] /\ Spend("losses") /\ Recover(p)

(* The peer has left the connection. *)
PeerGone(p) ==
    /\ phase[p] = "open"
    /\ \/ phase[Peer(p)] \in {"recovering", "failed"}
       \/ conn[Peer(p)] # conn[p]
    /\ Recover(p)
    /\ UNCHANGED budget

(* advanceTransportAttempt, saved with its access projection. *)
Advance_Always(p) ==
    /\ phase[p] = "recovering" /\ clearing[p] = None
    /\ current' = current + 1
    /\ clearing' = [clearing EXCEPT ![p] = current']
    /\ UNCHANGED <<rows, nextId, requests, sender, receiver, link, fresh, budget>>

Advance(p) ==
    /\ phase[p] = "recovering" /\ clearing[p] = None
    /\ current' = IF attempt[p] = current THEN current + 1 ELSE current
    /\ clearing' = [clearing EXCEPT ![p] = current']
    /\ UNCHANGED <<rows, nextId, requests, sender, receiver, link, fresh, budget>>

(* clearSupersededAttempts, in the same request; then its answer. *)
Superseded_All(g) == rows
Superseded(g) == {row \in rows : row.attempt # g}

Clear_OldAttempt(p) ==
    /\ clearing[p] # None
    /\ rows' = rows \ Superseded(clearing[p])
    /\ clearing' = [clearing EXCEPT ![p] = None]
    /\ IF phase[p] = "recovering" THEN Connect(p, attempt[p])
       ELSE UNCHANGED <<sender, receiver, phase, attempt, conn, remote, described, heard, fresh>>
    /\ UNCHANGED <<current, nextId, requests, recovered, budget>>

Clear(p) ==
    /\ clearing[p] # None
    /\ rows' = rows \ Superseded(clearing[p])
    /\ clearing' = [clearing EXCEPT ![p] = None]
    /\ IF phase[p] = "recovering" THEN Connect(p, clearing[p])
       ELSE UNCHANGED <<sender, receiver, phase, attempt, conn, remote, described, heard, fresh>>
    /\ UNCHANGED <<current, nextId, requests, recovered, budget>>

(* A client negotiates its attempt afresh: an earlier offer stays in the mailbox. *)
Restart(p) ==
    /\ phase[p] = "connecting" /\ Spend("restarts")
    /\ Connect(p, attempt[p])
    /\ UNCHANGED <<mailbox, recovered>>

Next ==
    \/ \E p \in Player :
        \/ Send(p) \/ Receive(p) \/ LoseAnswer(p)
        \/ Poll(p) \/ Hold(p) \/ SettleOffer(p) \/ PollRefused(p) \/ Handle(p) \/ Gather(p)
        \/ Open(p) \/ GiveUp(p) \/ LoseChannel(p) \/ PeerGone(p)
        \/ Advance(p) \/ Clear(p) \/ Restart(p)
    \/ \E r \in requests : Validate(r) \/ Begin(r) \/ Insert(r)

(* Clients run, the API serves what it receives, and candidates are gathered. *)
Fairness ==
    /\ \A p \in Player :
        /\ WF_vars(Send(p)) /\ WF_vars(Receive(p)) /\ WF_vars(Poll(p)) /\ WF_vars(Hold(p))
        /\ WF_vars(SettleOffer(p)) /\ WF_vars(Handle(p)) /\ WF_vars(Gather(p)) /\ WF_vars(Open(p))
        /\ WF_vars(PeerGone(p)) /\ WF_vars(Advance(p)) /\ WF_vars(Clear(p))
    /\ WF_vars(\E r \in requests : Validate(r) \/ Begin(r) \/ Insert(r))

Spec == Init /\ [][Next]_vars /\ Fairness

-----------------------------------------------------------------------------
(* Types; a player waits for an answer only while it has something to publish,
   and uses an attempt the server has made. *)
TypeOK ==
    /\ \A row \in rows : row.id < nextId /\ row.attempt <= current
    /\ \A r \in requests : r.stage \in {"sent", "valid", "begun"} /\ r.attempt <= current
    /\ answer \in [Player -> {"none", "awaited", "ok", "error"}]
    /\ \A p \in Player : answer[p] # "none" => out[p] # <<>>
    /\ phase \in [Player -> {"connecting", "open", "recovering", "failed"}]
    /\ \A p \in Player : attempt[p] <= current /\ waits[p] <= Len(out[p]) /\ tries[p] <= PublishAttempts
    /\ \A p \in Player : clearing[p] \in {None, current}
    /\ gathered \in [Player -> BOOLEAN] /\ heard \in [Player -> BOOLEAN]

(* No signal is skipped: the monotonic cursor of a reader never passes a signal
   of its attempt that becomes visible later, because ids are handed out under
   the lock that also covers the commit. *)
NoSignalSkipped ==
    \A p \in Player : \A row \in rows :
        row.from = Peer(p) /\ row.attempt = attempt[p] /\ row.id <= cursor[p] => row.id \in got[p]

(* A connection's description is set once, of the player's own connection, and
   never from another attempt: whatever is resent, lost, delayed or left in the
   mailbox by an earlier negotiation. *)
DescribedOnce ==
    \A p \in Player :
        /\ described[p] <= 1
        /\ remote[p] \in {None, conn[p]}

(* Every signal of the attempt is seen, and acted on once. *)
SignalsSettle == NoSignalSkipped /\ DescribedOnce

(* What has been published for the current attempt stays until the session's
   mailbox is cleared: clearing a superseded attempt, however late, takes
   nothing of its successor. *)
CurrentMailboxKept == [][ \A row \in rows : row.attempt = current => row \in rows' ]_vars

(* PostgreSQL serializes quota checks per session (apps/api/README.md).  No run
   checks it: two publish statements that wait for one lock break it. *)
MailboxWithinQuota == Cardinality(rows) <= MaxMessages

(* Both players end on an open channel, though requests and answers are lost and
   the channel itself is lost once. *)
BothConnect == <>[](phase = [p \in Player |-> "open"])
=============================================================================
