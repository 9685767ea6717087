-------------------------- MODULE MatchmakingQueue --------------------------
(***************************************************************************)
(* The in-memory matchmaking queue of one API process:                     *)
(* apps/api/src/matchmaking/queueService.ts with the drain switch of       *)
(* server.ts.  Accounts join a ranked or an unranked queue with a list of  *)
(* preferred regions, are paired into sessions, poll, leave, and are swept *)
(* out by the clock.  The process may be replaced at any moment by one     *)
(* that restores the snapshot it exported.                                 *)
(*                                                                         *)
(* The whole service is the record `queue`; a handler is an operator from  *)
(* records to records, and every handler starts with Cleanup.  Ticket and  *)
(* session ids are handed out in order, which is also the order in which   *)
(* the code's Maps iterate.                                                *)
(***************************************************************************)
EXTENDS SessionRules, Sequences, FiniteSets

CONSTANTS
    Account, QueueType, Region,
    Profile,             \* the join requests: [regions, client, rating, mr]
    MaxResidentTickets,  \* maxResidentTickets
    TicketTtl,           \* ticketTtlMs
    RatingGap, RatingExpansion, RatingMaxGap,
    MasterGap, MasterExpansion, MasterMaxGap, MasterStrictRegion,
    MaxTickets, MaxSessions,  \* ids explored (bounds of the model)
    MaxTime,                  \* the clock stops here (a bound of the model)
    MaxGeneration             \* transport attempts explored (a bound)

\* A request names at least one region (parseRegionPreferences), each of
\* them once (uniqueRegionsInOrder).
ASSUME QueueAssumption ==
    /\ QueueType \subseteq {"ranked", "unranked"} /\ QueueType # {}
    /\ Region # {} /\ Profile # {}
    /\ \A p \in Profile :
        /\ p.regions \in Seq(Region) /\ p.regions # <<>>
        /\ \A i, j \in DOMAIN p.regions : p.regions[i] = p.regions[j] => i = j
        /\ p.rating \in Int /\ p.mr \in Int
    /\ MaxResidentTickets \in Nat \ {0}
    /\ TicketTtl \in Nat
    /\ MaxTickets \in Nat
    /\ MaxSessions \in Nat
    /\ MaxTime \in Nat
    /\ MaxGeneration \in Nat \ {0}

NoMaster == -1   \* mrPoints is null: the player is not on the master track
None == 0        \* no ticket, no session
Nobody == "nobody"

TicketId == 1..MaxTickets
SessionId == 1..MaxSessions

VARIABLES now, queue

vars == <<now, queue>>

-----------------------------------------------------------------------------
(* Records.  An id that was never handed out is "unborn", one that cleanup *)
(* deleted is "removed".                                                   *)

ClosedReason == {"left_queue", "peer_left", "expired", "session_expired",
                 "reconnect_timeout", "service_draining", "session_completed"}

Ticket ==
    [ status   : {"unborn", "queued", "matched", "closed", "removed"},
      account  : Account \cup {Nobody}, queueType : QueueType, profile : Profile,
      queuedAt : Nat, closedAt : Nat \cup {NoTime},
      reason   : ClosedReason \cup {"none"},
      session  : SessionId \cup {None} ]

Match ==
    [ status    : {"unborn", "here", "removed"},
      record    : Session,
      queueType : QueueType, region : Region,
      ticket    : [Side -> TicketId \cup {None}] ]

QueueRecord ==
    [ tickets  : [TicketId -> Ticket],                                \* ticketsById
      sessions : [SessionId -> Match],                                \* sessionsById
      active   : [Account -> [QueueType -> TicketId \cup {None}]],    \* activeTicketByAccountQueue
      buckets  : [QueueType -> [Region -> Seq(TicketId)]],            \* regionBuckets
      draining : BOOLEAN ]

NoTicket(status) ==
    [ status |-> status, account |-> Nobody,
      queueType |-> CHOOSE q \in QueueType : TRUE,
      profile |-> CHOOSE p \in Profile : TRUE,
      queuedAt |-> 0, closedAt |-> NoTime, reason |-> "none", session |-> None ]

NoMatch(status) ==
    [ status |-> status, record |-> NewSession(0),
      queueType |-> CHOOSE q \in QueueType : TRUE,
      region |-> CHOOSE r \in Region : TRUE, ticket |-> [p \in Side |-> None] ]

EmptyQueue ==
    [ tickets  |-> [t \in TicketId |-> NoTicket("unborn")],
      sessions |-> [s \in SessionId |-> NoMatch("unborn")],
      active   |-> [a \in Account |-> [qt \in QueueType |-> None]],
      buckets  |-> [qt \in QueueType |-> [r \in Region |-> <<>>]],
      draining |-> FALSE ]

Elements(seq) == {seq[i] : i \in DOMAIN seq}

\* Array.filter: what of seq is in S, in its order.
Keep(seq, S) ==
    LET kept[n \in 0..Len(seq)] ==
            IF n = 0 THEN <<>>
            ELSE IF seq[n] \in S THEN Append(kept[n - 1], seq[n]) ELSE kept[n - 1]
    IN  kept[Len(seq)]

\* The tickets with a place in the bucket of qt and r, whatever their status.
Asking(q, qt, r) ==
    {t \in TicketId : /\ q.tickets[t].queueType = qt
                      /\ r \in Elements(q.tickets[t].profile.regions)}

Live(q, t) == q.tickets[t].status \in {"queued", "matched"}
Resident(q) == {t \in TicketId : q.tickets[t].status \in {"queued", "matched", "closed"}}

-----------------------------------------------------------------------------
(* closeTicket.                                                            *)

\* Mutant: a closed ticket stays in its region buckets.
CloseTickets_BucketsKept(q, why) ==
    [q EXCEPT
      !.tickets = [t \in TicketId |->
          IF t \in DOMAIN why
          THEN [q.tickets[t] EXCEPT !.status = "closed", !.session = None,
                    !.reason = why[t].reason, !.closedAt = why[t].at]
          ELSE q.tickets[t]],
      !.active = [a \in Account |-> [qt \in QueueType |->
          IF \E t \in DOMAIN why : /\ q.tickets[t].account = a
                                   /\ q.tickets[t].queueType = qt
          THEN None ELSE q.active[a][qt]]]]

\* Close the tickets in DOMAIN why, each for its reason and at its time.
CloseTickets(q, why) ==
    LET closing == DOMAIN why
    IN  [q EXCEPT
          !.tickets = [t \in TicketId |->
              IF t \in closing
              THEN [q.tickets[t] EXCEPT !.status = "closed", !.session = None,
                        !.reason = why[t].reason, !.closedAt = why[t].at]
              ELSE q.tickets[t]],
          !.active = [a \in Account |-> [qt \in QueueType |->
              IF \E t \in closing : /\ q.tickets[t].account = a
                                    /\ q.tickets[t].queueType = qt
              THEN None ELSE q.active[a][qt]]],
          !.buckets = [qt \in QueueType |-> [r \in Region |->
              Keep(q.buckets[qt][r], TicketId \ (closing \cap Asking(q, qt, r)))]]]

-----------------------------------------------------------------------------
(* resolveSession and cleanup.                                             *)

CloseReason(reason) ==
    IF reason = "completed" THEN "session_completed" ELSE reason

TicketsOf(q, s) == {q.sessions[s].ticket[p] : p \in Side}

\* Mutant: only P1's ticket is closed with its session.
ResolutionCloses_OneSide(q, rec) ==
    LET resolving == {s \in DOMAIN rec : /\ q.sessions[s].record.status = "active"
                                         /\ rec[s].status = "resolved"}
        sessionOf(t) == CHOOSE s \in resolving : t \in TicketsOf(q, s)
    IN  [t \in {q.sessions[s].ticket["P1"] : s \in resolving} |->
            [reason |-> CloseReason(rec[sessionOf(t)].reason),
             at     |-> rec[sessionOf(t)].resolvedAt]]

\* Why resolving sessions, given their new records, closes which tickets:
\* whichever of the two is not closed yet.
ResolutionCloses(q, rec) ==
    LET resolving == {s \in DOMAIN rec : /\ q.sessions[s].record.status = "active"
                                         /\ rec[s].status = "resolved"}
        sessionOf(t) == CHOOSE s \in resolving : t \in TicketsOf(q, s)
    IN  [t \in {x \in UNION {TicketsOf(q, s) : s \in resolving} : Live(q, x)} |->
            [reason |-> CloseReason(rec[sessionOf(t)].reason),
             at     |-> rec[sessionOf(t)].resolvedAt]]

\* Store one session's new record, with the effects of its resolution.
StoreSession(q, s, record) ==
    [CloseTickets(q, ResolutionCloses(q, [x \in {s} |-> record]))
        EXCEPT !.sessions[s].record = record]

Here(q) == {s \in SessionId : q.sessions[s].status = "here"}

ExpiredTickets(q, at) ==
    {t \in TicketId : /\ q.tickets[t].status = "queued"
                      /\ at - q.tickets[t].queuedAt > TicketTtl}

CleanupCloses(q, at) ==
    LET expired == ExpiredTickets(q, at)
        resolved == ResolutionCloses(q, [s \in Here(q) |->
                        CleanupSession(q.sessions[s].record, at)])
    IN  [t \in expired \cup DOMAIN resolved |->
            IF t \in expired THEN [reason |-> "expired", at |-> at] ELSE resolved[t]]

\* What cleanup finds closed or resolved leaves after the retention time;
\* what it closes or resolves itself stays until the next cleanup.
DroppedTickets(q, at) ==
    {t \in TicketId : /\ q.tickets[t].status = "closed"
                      /\ at - q.tickets[t].closedAt > ClosedRetention}

DroppedSessions(q, at) == {s \in Here(q) : Removable(q.sessions[s].record, at)}

Cleanup(q, at) ==
    LET closed == CloseTickets(q, CleanupCloses(q, at))
    IN  [closed EXCEPT
          !.tickets = [t \in TicketId |->
              IF t \in DroppedTickets(q, at) THEN NoTicket("removed")
              ELSE closed.tickets[t]],
          !.sessions = [s \in SessionId |->
              IF s \in DroppedSessions(q, at) THEN NoMatch("removed")
              ELSE IF s \in Here(q)
              THEN [q.sessions[s] EXCEPT
                      !.record = CleanupSession(q.sessions[s].record, at)]
              ELSE q.sessions[s]]]

-----------------------------------------------------------------------------
(* findBestCandidate: whom a queued ticket is paired with.                 *)

Regions(tk) == tk.profile.regions
Index(seq, x) == CHOOSE i \in DOMAIN seq : seq[i] = x
SharedRegions(tk, other) == Elements(Regions(tk)) \cap Elements(Regions(other))

RegionScore(tk, other, r) ==
    (Index(Regions(tk), r) - 1) + (Index(Regions(other), r) - 1)

\* The shared region both like best; ties go to the first ticket's order.
ResolveSharedRegion(tk, other) ==
    CHOOSE r \in SharedRegions(tk, other) :
        \A x \in SharedRegions(tk, other) :
            \/ RegionScore(tk, other, r) < RegionScore(tk, other, x)
            \/ /\ RegionScore(tk, other, r) = RegionScore(tk, other, x)
               /\ Index(Regions(tk), r) <= Index(Regions(tk), x)

Least(x, y) == IF x <= y THEN x ELSE y
Most(x, y) == IF x >= y THEN x ELSE y
Distance(x, y) == IF x >= y THEN x - y ELSE y - x

OnMaster(tk) == tk.profile.mr # NoMaster

\* matchedGap
SkillGap(tk, other) ==
    IF OnMaster(tk) THEN Distance(tk.profile.mr, other.profile.mr)
    ELSE Distance(tk.profile.rating, other.profile.rating)

\* Mutant: only the asking ticket's own wait widens the band.
WaitSeconds_SourceOnly(tk, other, at) == at - tk.queuedAt

WaitSeconds(tk, other, at) == Most(at - tk.queuedAt, at - other.queuedAt)

\* expectedGap: the band widens with the longer wait of the two, to a limit.
AllowedGap(tk, other, at) ==
    IF OnMaster(tk)
    THEN Least(MasterMaxGap, MasterGap + WaitSeconds(tk, other, at) * MasterExpansion)
    ELSE Least(RatingMaxGap, RatingGap + WaitSeconds(tk, other, at) * RatingExpansion)

InRankedBand(tk, other, r, at) ==
    /\ OnMaster(tk) = OnMaster(other)
    /\ SkillGap(tk, other) <= AllowedGap(tk, other, at)
    /\ OnMaster(tk) /\ WaitSeconds(tk, other, at) < MasterStrictRegion
         => r = Regions(tk)[1] /\ r = Regions(other)[1]

Compatible(tk, other, at) ==
    /\ tk.queueType = other.queueType
    /\ tk.profile.client = other.profile.client
    /\ SharedRegions(tk, other) # {}
    /\ tk.queueType = "ranked" =>
         InRankedBand(tk, other, ResolveSharedRegion(tk, other), at)

Score(tk, other) ==
    RegionScore(tk, other, ResolveSharedRegion(tk, other)) * 1000
        + (IF tk.queueType = "ranked" THEN SkillGap(tk, other) ELSE 0)

\* Where the scan of the source's buckets first meets a candidate.
Bucket(q, tk, i) == q.buckets[tk.queueType][Regions(tk)[i]]
Meets(q, tk, c) ==
    {i \in DOMAIN Regions(tk) : c \in Elements(Bucket(q, tk, i))}
FirstMeeting(q, tk, c) ==
    CHOOSE i \in Meets(q, tk, c) : \A j \in Meets(q, tk, c) : i <= j

ScannedBefore(q, tk, c, d) ==
    LET i == FirstMeeting(q, tk, c)  j == FirstMeeting(q, tk, d)
    IN  \/ i < j
        \/ i = j /\ Index(Bucket(q, tk, i), c) < Index(Bucket(q, tk, i), d)

\* The tickets the scan accepts: in a bucket of the source, queued, compatible.
Candidates(q, t, at) ==
    {c \in TicketId \ {t} :
        /\ Meets(q, q.tickets[t], c) # {}
        /\ q.tickets[c].status = "queued"
        /\ Compatible(q.tickets[t], q.tickets[c], at)}

\* Lower score, then longer wait, then earlier in the scan.
Better(q, t, c, d) ==
    LET tk == q.tickets[t]  x == q.tickets[c]  y == q.tickets[d]
    IN  \/ Score(tk, x) < Score(tk, y)
        \/ Score(tk, x) = Score(tk, y) /\ x.queuedAt < y.queuedAt
        \/ /\ Score(tk, x) = Score(tk, y) /\ x.queuedAt = y.queuedAt
           /\ ScannedBefore(q, tk, c, d)

BestCandidate(q, t, at) ==
    LET candidates == Candidates(q, t, at)
    IN  CHOOSE c \in candidates : \A d \in candidates \ {c} : Better(q, t, c, d)

-----------------------------------------------------------------------------
(* createMatch.  Ticket ids are random, so who of two tickets queued in    *)
(* the same instant becomes P1 is open: `first` says whom the id order     *)
(* would put first.                                                        *)

FreshSession(q) == {s \in SessionId : q.sessions[s].status = "unborn"}
NextId(ids) == CHOOSE i \in ids : \A j \in ids : i <= j

SideOne(q, t, c, first) ==
    IF q.tickets[t].queuedAt = q.tickets[c].queuedAt THEN first
    ELSE IF q.tickets[t].queuedAt < q.tickets[c].queuedAt THEN t ELSE c

CreateMatch(q, t, c, first, at) ==
    LET s == NextId(FreshSession(q))
        pair == {t, c}
        one == SideOne(q, t, c, first)
        two == CHOOSE x \in pair : x # one
    IN  [q EXCEPT
          !.sessions[s] = [ status |-> "here", record |-> NewSession(at),
              queueType |-> q.tickets[t].queueType,
              region |-> ResolveSharedRegion(q.tickets[t], q.tickets[c]),
              ticket |-> [p \in Side |-> IF p = "P1" THEN one ELSE two] ],
          !.tickets = [x \in TicketId |->
              IF x \in pair
              THEN [q.tickets[x] EXCEPT !.status = "matched", !.session = s]
              ELSE q.tickets[x]],
          !.buckets = [qt \in QueueType |-> [r \in Region |->
              Keep(q.buckets[qt][r], TicketId \ (pair \cap Asking(q, qt, r)))]]]

\* tryMatchFromTicket: the queues it may lead to (one, but for a tie on P1).
\* A match beyond MaxSessions is not explored.
TryMatch(q, t, at) ==
    IF q.tickets[t].status # "queued" \/ Candidates(q, t, at) = {} THEN {q}
    ELSE IF FreshSession(q) = {} THEN {}
    ELSE LET c == BestCandidate(q, t, at)
         IN  {CreateMatch(q, t, c, first, at) : first \in {t, c}}

-----------------------------------------------------------------------------
(* join, leaveTicket, drainQueuedTickets and restoreSnapshot.              *)

AddTicket(q, t, a, qt, prof, at) ==
    [q EXCEPT
      !.tickets[t] = [ status |-> "queued", account |-> a, queueType |-> qt,
          profile |-> prof, queuedAt |-> at, closedAt |-> NoTime,
          reason |-> "none", session |-> None ],
      !.active[a][qt] = t,
      !.buckets = [x \in QueueType |-> [r \in Region |->
          IF x = qt /\ r \in Elements(prof.regions)
          THEN Append(q.buckets[x][r], t) ELSE q.buckets[x][r]]]]

FreshTicket(q) == {t \in TicketId : q.tickets[t].status = "unborn"}

\* Mutant: only a waiting ticket stops a second join.
HasLiveTicket_QueuedOnly(q, a, qt) ==
    /\ q.active[a][qt] # None
    /\ q.tickets[q.active[a][qt]].status = "queued"

HasLiveTicket(q, a, qt) == q.active[a][qt] # None /\ Live(q, q.active[a][qt])

AtCapacity(q) == Cardinality(Resident(q)) >= MaxResidentTickets

LeaveMatched(q, t, at) ==
    LET s == q.tickets[t].session
        p == CHOOSE x \in Side : q.sessions[s].ticket[x] = t
        resolved == StoreSession(q, s, LeaveSession(q.sessions[s].record, p, at))
    IN  CloseTickets(resolved, [x \in {t} |-> [reason |-> "left_queue", at |-> at]])

DrainQueued(q, at) ==
    CloseTickets(q, [t \in {x \in TicketId : q.tickets[x].status = "queued"} |->
                        [reason |-> "service_draining", at |-> at]])

\* What restoreSnapshot makes of a snapshot: the snapshot holds tickets,
\* sessions and the drain switch; both indexes are rebuilt from the tickets.
Rebuild(q) ==
    LET owners(a, qt) == {t \in TicketId : /\ Live(q, t)
                                           /\ q.tickets[t].account = a
                                           /\ q.tickets[t].queueType = qt}
        last(ids) == CHOOSE i \in ids : \A j \in ids : i >= j
        waiting(qt, r) == Keep([i \in TicketId |-> i],
            {t \in Asking(q, qt, r) : q.tickets[t].status = "queued"})
    IN  [q EXCEPT
          !.active = [a \in Account |-> [qt \in QueueType |->
              IF owners(a, qt) = {} THEN None ELSE last(owners(a, qt))]],
          !.buckets = [qt \in QueueType |-> [r \in Region |-> waiting(qt, r)]]]

-----------------------------------------------------------------------------
(* The state machine.                                                      *)

Init == now = 0 /\ queue = EmptyQueue

Swept == Cleanup(queue, now)

Tick == now < MaxTime /\ now' = now + 1 /\ UNCHANGED queue

\* Reads, refused calls and the checkpoint timer.
Sweep == queue' = Swept /\ UNCHANGED now

Join(a, qt, prof) ==
    LET swept == Swept IN
    /\ ~queue.draining
    /\ \/ /\ HasLiveTicket(swept, a, qt)
          /\ queue' \in TryMatch(swept, swept.active[a][qt], now)
       \/ /\ ~HasLiveTicket(swept, a, qt)
          /\ ~AtCapacity(swept)
          /\ FreshTicket(swept) # {}
          /\ LET t == NextId(FreshTicket(swept))
             IN  queue' \in TryMatch(AddTicket(swept, t, a, qt, prof, now), t, now)
    /\ UNCHANGED now

\* getTicketForAccount: a poll retries the match.
GetTicket(t) ==
    LET swept == Swept IN
    /\ t \in Resident(swept)
    /\ queue' \in TryMatch(swept, t, now)
    /\ UNCHANGED now

LeaveTicket(t) ==
    LET swept == Swept IN
    /\ \/ /\ swept.tickets[t].status = "queued"
          /\ queue' = CloseTickets(swept,
                [x \in {t} |-> [reason |-> "left_queue", at |-> now]])
       \/ /\ swept.tickets[t].status = "matched"
          /\ queue' = LeaveMatched(swept, t, now)
    /\ UNCHANGED now

\* POST /ops/matchmaking/drain with draining true, or false.
SetDraining(on) ==
    /\ queue' = IF on THEN [DrainQueued(Swept, now) EXCEPT !.draining = TRUE]
                ELSE [queue EXCEPT !.draining = FALSE]
    /\ UNCHANGED now

\* A replacement process restores the last snapshot and sweeps it.
Restart == queue' = Cleanup(Rebuild(queue), now) /\ UNCHANGED now

\* A session handler stores the new record of one session.
Update(s, record) ==
    /\ queue' = StoreSession(Swept, s, record)
    /\ UNCHANGED now

Disconnect(s, p) ==
    LET record == Swept.sessions[s].record IN
    /\ s \in Here(Swept)
    /\ CanMarkDisconnected(record, p)
    /\ Update(s, MarkDisconnected(record, p, now))

Heartbeat(s, p) ==
    LET record == Swept.sessions[s].record IN
    /\ s \in Here(Swept)
    /\ CanHeartbeat(record, p, now)
    /\ Update(s, HeartbeatSession(record, p, now))

Reconnect(s, p, attempt) ==
    LET record == Swept.sessions[s].record IN
    /\ s \in Here(Swept)
    /\ CanReconnect(record, p, attempt, now)
    /\ Update(s, ReconnectSession(record, p, attempt, now))

Complete(s, p) ==
    LET record == Swept.sessions[s].record IN
    /\ s \in Here(Swept)
    /\ CanComplete(record, now)
    /\ Update(s, CompleteSession(record, p, now))

AdvanceTransport(s, expected) ==
    LET record == Swept.sessions[s].record IN
    /\ s \in Here(Swept)
    /\ expected < MaxGeneration
    /\ CanAdvanceTransport(record, expected, now)
    /\ Update(s, AdvanceTransportAttempt(record))

Next ==
    \/ Tick
    \/ Sweep
    \/ Restart
    \/ \E a \in Account, qt \in QueueType, prof \in Profile : Join(a, qt, prof)
    \/ \E t \in TicketId : GetTicket(t) \/ LeaveTicket(t)
    \/ \E on \in BOOLEAN : SetDraining(on)
    \/ \E s \in SessionId, p \in Side :
        \/ Disconnect(s, p)
        \/ Heartbeat(s, p)
        \/ Complete(s, p)
        \/ \E attempt \in AttemptId : Reconnect(s, p, attempt)
    \/ \E s \in SessionId, expected \in 1..MaxGeneration :
        AdvanceTransport(s, expected)

Spec == Init /\ [][Next]_vars

-----------------------------------------------------------------------------
(* Properties.                                                             *)

TypeOK ==
    /\ now \in Nat
    /\ queue \in QueueRecord

\* The two indexes the code maintains by hand through every join, match,
\* close, leave, drain and expiry (activeTicketByAccountQueue and the order
\* of regionBuckets) are always the ones a fresh process would rebuild from
\* the snapshot: a restart is invisible to the players.
IndexesMatchSnapshot == Rebuild(queue) = queue

\* An account never has two live tickets in one queue, whatever the order
\* of joins, leaves, closes by the peer and expiries (join, closeTicket).
OneLiveTicketPerQueue ==
    \A t, u \in TicketId :
        /\ Live(queue, t) /\ Live(queue, u)
        /\ queue.tickets[t].account = queue.tickets[u].account
        /\ queue.tickets[t].queueType = queue.tickets[u].queueType
        => t = u

\* Both, the first of which alone would not tell two live tickets apart.
TicketsIndexed == IndexesMatchSnapshot /\ OneLiveTicketPerQueue

\* Matched tickets come in pairs that point at one active session between
\* two different accounts in one queue and in a region both asked for, and
\* an active session has both its tickets: no path closes one side only
\* (createMatch, resolveSession, leaveTicket, cleanup).
PairsHold ==
    /\ \A t \in TicketId : queue.tickets[t].status = "matched" =>
        LET s == queue.tickets[t].session IN
        /\ s \in Here(queue)
        /\ queue.sessions[s].record.status = "active"
        /\ t \in TicketsOf(queue, s)
    /\ \A s \in Here(queue) : queue.sessions[s].record.status = "active" =>
        LET one == queue.sessions[s].ticket["P1"]
            two == queue.sessions[s].ticket["P2"]
        IN  /\ queue.tickets[one].status = "matched"
            /\ queue.tickets[two].status = "matched"
            /\ queue.tickets[one].session = s /\ queue.tickets[two].session = s
            /\ queue.tickets[one].account # queue.tickets[two].account
            /\ queue.tickets[one].queueType = queue.tickets[two].queueType
            /\ queue.sessions[s].region
                 \in SharedRegions(queue.tickets[one], queue.tickets[two])

\* A poll of either side of a waiting pair that is in each other's band
\* makes some match: the scan does not depend on who asks.
PollMatches ==
    LET swept == Swept IN
    \A t, u \in TicketId :
        /\ t # u
        /\ swept.tickets[t].status = "queued" /\ swept.tickets[u].status = "queued"
        /\ Compatible(swept.tickets[u], swept.tickets[t], now)
        => \A q \in TryMatch(swept, t, now) : q.tickets[t].status = "matched"
=============================================================================
