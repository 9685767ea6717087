---------------------------- MODULE ReplayArchive ----------------------------
(***************************************************************************)
(* The archive of one match's replay: POST /replays/ingest, which both     *)
(* players call and call again, DELETE /replays/:id, and the pruning of    *)
(* expired replays that each process runs from the maintenance scheduler   *)
(* of ops/activityBoundMaintenance.ts.                                     *)
(*                                                                         *)
(* A replay is a row of the database, one per match, and a payload in the  *)
(* blob store, which has no transaction with it: the code orders its       *)
(* writes so that a row that can be read has its payload.  A request fails *)
(* at any await; the checks of an upload that only read (its session, the  *)
(* settled match, the account's quota) are a request that is not made.     *)
(* What identifies a replay is one value: the columns and the digest that  *)
(* compareReplayArchiveIdentity compares.                                  *)
(***************************************************************************)
EXTENDS Naturals, FiniteSets

CONSTANTS
    Player,      \* the participants, each with one request at a time
    Process,     \* the API processes
    Identity,    \* what an upload can say the match was
    Unstored,    \* no payload
    Retention,   \* for how long a replay is kept
    Interval,    \* REPLAY_RETENTION_CLEANUP_INTERVAL_MS
    MaxUploads,  \* uploads (a bound); the replay ids
    MaxFaults    \* requests and prunings that fail (a bound)

ArchiveAssumption ==
    /\ {Retention, Interval, MaxUploads, MaxFaults} \subseteq Nat
    /\ Unstored \notin Identity

VARIABLES
    row,       \* the match's row of replays, if its id is not 0
    left,      \* the time until each replay's retention_until
    blob,      \* the payload under each storage key
    request,   \* each player's request
    pruning,   \* each process's pruning, and the replay it is at
    wait,      \* the time until each process may prune again
    issued,    \* how many replay ids have been drawn
    answered,  \* the replays uploads were told of
    forgotten, \* the replays deletions were answered for
    faults

vars == <<row, left, blob, request, pruning, wait, issued, answered, forgotten, faults>>

ReplayId == 1..MaxUploads
NoRow == [id |-> 0, identity |-> Unstored, deleted |-> FALSE]
Idle == [at |-> "idle", id |-> 0, identity |-> Unstored]

TypeOK ==
    /\ row \in [id : 0..issued, identity : Identity \cup {Unstored}, deleted : BOOLEAN]
    /\ left \in [ReplayId -> 0..Retention]
    /\ blob \in [ReplayId -> Identity \cup {Unstored}]
    /\ request \in [Player -> [at : {"idle", "storing", "inserting", "withdrawing", "discarding",
                                     "comparing", "reading", "erasing"},
                               id : 0..issued, identity : Identity \cup {Unstored}]]
    /\ pruning \in [Process -> [at : {"idle", "erasing", "removing"}, id : 0..issued]]
    /\ wait \in [Process -> 0..Interval]
    /\ issued \in 0..MaxUploads /\ faults \in 0..MaxFaults
    /\ answered \subseteq [id : ReplayId, identity : Identity] /\ forgotten \subseteq ReplayId

\* startServer has pruned; the first interval is under way.
Init ==
    /\ row = NoRow
    /\ left = [i \in ReplayId |-> 0]
    /\ blob = [k \in ReplayId |-> Unstored]
    /\ request = [u \in Player |-> Idle]
    /\ pruning = [p \in Process |-> [at |-> "idle", id |-> 0]]
    /\ wait = [p \in Process |-> Interval]
    /\ issued = 0 /\ answered = {} /\ forgotten = {} /\ faults = 0

-----------------------------------------------------------------------------
(* Payloads.                                                               *)

\* Mutant: the key names the match.
StorageKey_Match(id) == 1

StorageKey(id) == id

Put(id, identity) == blob' = [blob EXCEPT ![StorageKey(id)] = identity]
DeleteReplayPayload(id) == blob' = [blob EXCEPT ![StorageKey(id)] = Unstored]

-----------------------------------------------------------------------------
(* POST /replays/ingest.                                                   *)

Become(u, next) == request' = [request EXCEPT ![u] = next]
At(u, step) == request[u].at = step
Goto(u, step) == Become(u, [request[u] EXCEPT !.at = step])

\* The id is drawn, and the retention counts, before the payload is stored.
Ingest(u, x) ==
    /\ At(u, "idle") /\ issued < MaxUploads
    /\ issued' = issued + 1
    /\ left' = [left EXCEPT ![issued + 1] = Retention]
    /\ Become(u, [at |-> "storing", id |-> issued + 1, identity |-> x])
    /\ UNCHANGED <<row, blob, pruning, wait, answered, forgotten, faults>>

PutReplayPayload(u) ==
    /\ At(u, "storing")
    /\ Put(request[u].id, request[u].identity)
    /\ Goto(u, "inserting")
    /\ UNCHANGED <<row, left, pruning, wait, issued, answered, forgotten, faults>>

InsertedRow(u) == [id |-> request[u].id, identity |-> request[u].identity, deleted |-> FALSE]
Told(u, id) == answered' = answered \cup {[id |-> id, identity |-> request[u].identity]}

\* The transaction: it fails if the match has a row, a deleted one as well.
InsertReplay(u) ==
    /\ At(u, "inserting")
    /\ IF row = NoRow
       THEN row' = InsertedRow(u) /\ Told(u, request[u].id) /\ Become(u, Idle)
       ELSE Goto(u, "discarding") /\ UNCHANGED <<row, answered>>
    /\ UNCHANGED <<left, blob, pruning, wait, issued, forgotten, faults>>

\* Mutant: a replay that exists already is compared in place of one's own.
DiscardPayload_Existing(u) ==
    /\ At(u, "discarding") \/ At(u, "withdrawing")
    /\ DeleteReplayPayload(IF row = NoRow THEN request[u].id ELSE row.id)
    /\ IF At(u, "discarding") THEN Goto(u, "comparing") ELSE Become(u, Idle)
    /\ UNCHANGED <<row, left, pruning, wait, issued, answered, forgotten, faults>>

\* After the rollback: what was stored for nothing goes; only a duplicate goes on.
DiscardPayload(u) ==
    /\ At(u, "discarding") \/ At(u, "withdrawing")
    /\ DeleteReplayPayload(request[u].id)
    /\ IF At(u, "discarding") THEN Goto(u, "comparing") ELSE Become(u, Idle)
    /\ UNCHANGED <<row, left, pruning, wait, issued, answered, forgotten, faults>>

\* The existing row may have been pruned, or is one that cannot be replaced.
ReadExisting(u) ==
    /\ At(u, "comparing")
    /\ IF row = NoRow \/ row.deleted THEN Become(u, Idle)
       ELSE Become(u, [request[u] EXCEPT !.at = "reading", !.id = row.id])
    /\ UNCHANGED <<row, left, blob, pruning, wait, issued, answered, forgotten, faults>>

\* getReplayPayload and compareReplayArchiveIdentity
CompareExisting(u) ==
    /\ At(u, "reading")
    /\ IF blob[StorageKey(request[u].id)] = request[u].identity
       THEN Told(u, request[u].id) ELSE UNCHANGED answered
    /\ Become(u, Idle)
    /\ UNCHANGED <<row, left, blob, pruning, wait, issued, forgotten, faults>>

\* The insert fails and rolls back; or the connection is lost before or after
\* the commit, and the rollback throws before the payload is discarded.
InsertFails(u) ==
    /\ At(u, "inserting") /\ faults < MaxFaults
    /\ \/ Goto(u, "withdrawing") /\ UNCHANGED row
       \/ Become(u, Idle) /\ row = NoRow /\ row' = InsertedRow(u)
    /\ faults' = faults + 1
    /\ UNCHANGED <<left, blob, pruning, wait, issued, answered, forgotten>>

-----------------------------------------------------------------------------
(* DELETE /replays/:replayId: the row is marked, then the payload deleted. *)

MarkDeleted(u) ==
    /\ At(u, "idle") /\ row # NoRow
    /\ row' = [row EXCEPT !.deleted = TRUE]
    /\ Become(u, [at |-> "erasing", id |-> row.id, identity |-> Unstored])
    /\ UNCHANGED <<left, blob, pruning, wait, issued, answered, forgotten, faults>>

EraseDeleted(u) ==
    /\ At(u, "erasing")
    /\ DeleteReplayPayload(request[u].id)
    /\ forgotten' = forgotten \cup {request[u].id}
    /\ Become(u, Idle)
    /\ UNCHANGED <<row, left, pruning, wait, issued, answered, faults>>

\* A request throws at its next await, or its process dies.
Fail(u) ==
    /\ ~At(u, "idle") /\ faults < MaxFaults
    /\ Become(u, Idle)
    /\ faults' = faults + 1
    /\ UNCHANGED <<row, left, blob, pruning, wait, issued, answered, forgotten>>

-----------------------------------------------------------------------------
(* notifyActivity and pruneExpiredReplayArchives.                          *)

\* Mutant: a deleted replay has been dealt with.
Expired_Kept == row # NoRow /\ left[row.id] = 0 /\ ~row.deleted

Expired == row # NoRow /\ left[row.id] = 0

\* The first answered request after the interval starts the task, which reads
\* the expired rows; the interval counts from here, whatever becomes of it.
Prune(p) ==
    /\ pruning[p].at = "idle" /\ wait[p] = 0
    /\ wait' = [wait EXCEPT ![p] = Interval]
    /\ pruning' = IF Expired THEN [pruning EXCEPT ![p] = [at |-> "erasing", id |-> row.id]]
                  ELSE pruning
    /\ UNCHANGED <<row, left, blob, request, issued, answered, forgotten, faults>>

EraseExpired(p) ==
    /\ pruning[p].at = "erasing"
    /\ DeleteReplayPayload(pruning[p].id)
    /\ pruning' = [pruning EXCEPT ![p].at = "removing"]
    /\ UNCHANGED <<row, left, request, wait, issued, answered, forgotten, faults>>

\* Mutant: by the match, which may have a new replay.
RemoveExpired_AnyRow(p) ==
    /\ pruning[p].at = "removing"
    /\ row' = NoRow
    /\ pruning' = [pruning EXCEPT ![p] = [at |-> "idle", id |-> 0]]
    /\ UNCHANGED <<left, blob, request, wait, issued, answered, forgotten, faults>>

RemoveExpired(p) ==
    /\ pruning[p].at = "removing"
    /\ row' = IF row.id = pruning[p].id /\ Expired THEN NoRow ELSE row
    /\ pruning' = [pruning EXCEPT ![p] = [at |-> "idle", id |-> 0]]
    /\ UNCHANGED <<left, blob, request, wait, issued, answered, forgotten, faults>>

\* A task that throws waits for its next interval; a process that is
\* restarted prunes as it starts.
PruneFails(p) ==
    /\ pruning[p].at # "idle" /\ faults < MaxFaults
    /\ pruning' = [pruning EXCEPT ![p] = [at |-> "idle", id |-> 0]]
    /\ \/ UNCHANGED wait
       \/ wait' = [wait EXCEPT ![p] = 0]
    /\ faults' = faults + 1
    /\ UNCHANGED <<row, left, blob, request, issued, answered, forgotten>>

Sooner(t) == IF t = 0 THEN 0 ELSE t - 1

Tick ==
    /\ left' = [i \in ReplayId |-> Sooner(left[i])]
    /\ wait' = [p \in Process |-> Sooner(wait[p])]
    /\ UNCHANGED <<row, blob, request, pruning, issued, answered, forgotten, faults>>

Next ==
    \/ Tick
    \/ \E u \in Player :
        \/ \E x \in Identity : Ingest(u, x)
        \/ PutReplayPayload(u) \/ InsertReplay(u) \/ DiscardPayload(u) \/ ReadExisting(u)
        \/ CompareExisting(u) \/ InsertFails(u) \/ MarkDeleted(u) \/ EraseDeleted(u) \/ Fail(u)
    \/ \E p \in Process : Prune(p) \/ EraseExpired(p) \/ RemoveExpired(p) \/ PruneFails(p)

-----------------------------------------------------------------------------
(* Properties.                                                             *)

\* A replay that can be read has its payload, whoever uploads, discards,
\* deletes or prunes another one meanwhile, and whatever fails half-way.
ReadableHasPayload ==
    row # NoRow /\ ~row.deleted /\ left[row.id] > 0 => blob[StorageKey(row.id)] = row.identity

\* Until its retention ends, what an upload was told is archived, as its own
\* or the other player's, is the match's replay and was not replaced.
AnswersStand ==
    \A a \in answered : left[a.id] > 0 => row.id = a.id /\ row.identity = a.identity

\* What a player was told is deleted is gone, and nothing takes its place
\* before its retention ends.
DeletedIsGone ==
    \A id \in forgotten :
        /\ blob[StorageKey(id)] = Unstored
        /\ row.id = id => row.deleted
        /\ left[id] > 0 => row.id = id

\* A replay does not outstay its retention: the row goes and the payload with
\* it, also if the deletion of the payload, or a pruning, has failed.
ReplaysGo ==
    \A i \in ReplayId : row.id = i ~> row.id # i /\ blob[StorageKey(i)] = Unstored
=============================================================================
