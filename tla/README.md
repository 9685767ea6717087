# Verification of the online service and the client at play

This directory holds TLA+ models of the online core of the repository: how two
players are matched, how their session lives and ends, how several API processes
share one stored state, how a ranked session becomes a rating and a season, how
two clients connect, exchange inputs and roll back, and how a frame of the fight
resolves. TLC checks the models on small instances; TLAPS proves the main results
for every value of the constants. The models are translated from the code in
`apps/api/src` and `apps/game-web/src`; every definition that models code is
listed with its lines in `PROJECT.json` (`map`).

## 1. The system

The repository is an online fighting game: a browser client (`apps/game-web`)
that simulates matches deterministically with rollback, an API
(`apps/api`, Fastify and PostgreSQL) and a desktop shell (`apps/steam-shell`).

| Component | State | Operations | What makes it correct |
|---|---|---|---|
| Match session (`matchmaking/queueService.ts`) | one record per match: status, reason, forfeiter, deadlines, heartbeats, attestations, used reconnect attempts, transport generation | create, sweep, disconnect, heartbeat, reconnect, complete, advance transport, leave, drop | the ending is the one the clock and the players' calls justify, whenever the sweep runs; every session ends |
| Matchmaking queue (same file) | tickets, region buckets, account index, drain switch | join, poll, leave, expire, match, drain, export, restore | one live ticket per account and queue; matched tickets in pairs; nobody waits beside a partner; a restart is invisible |
| Runtime coordination (`runtimeCoordinator.ts`, `runtimeStateStore.ts`, hooks of `server.ts`) | advisory lock, fence token, stored snapshot, each process's copy, pending decisions, the connection pool | acquire, refresh, serve, capture, save, finalize, abort, checkpoint timer | an answered call is durable; a stored outcome is final; a decision is stored with the snapshot it comes from; every connection is given back |
| Terminal decisions (`ranked/terminalDecisionStore.ts`, `authoritativeResolutionService.ts`) | one row per session with claim token, lease, back-off | enqueue, claim, settle, supersede, retry | rated at most once; closed exactly once; always closed in the end |
| Ranked results (`POST /ranked/results`) | submission rows, proofs | check, replay, submit, agree, disagree | no proof is rated after the server's own outcome |
| Ranked seasons (`ranked/seasonService.ts`, `settlementService.ts`) | season rows, results, standings | open, archive, settle, read, reset | seasons follow one another; standings are exact |
| Replay storage | replay row and payload | ingest, delete, prune | what can be read has its payload; nothing outstays its retention |
| Input commitments (`ranked/inputCommitmentStore.ts`, `net/`) | a hash chain per player; the recorder's queue | seal, submit, append, flush | no fork, honest retries accepted, evidence of an honest match accepted |
| Rooms (`rooms/roomService.ts`) | rooms, roles, ready flags, outcomes | create, join, leave, ready, start, report, close | a match is played by those who are ready; one outcome each |
| Due-work scheduler (`dueWorkScheduler.ts`) | timer, run in flight, rerun flag | schedule, wake, run, stop | no due decision is overlooked |
| Signalling and access projection | mailboxes, the current transport attempt | publish, poll, advance, clear | every signal acted on once, none of an old attempt |
| Client netcode (`game-web/src/net`) | timeline, snapshots, send windows, recovery agreement | predict, confirm, roll back, resend, recover | both clients compute the same confirmed states and pass rounds together |
| Session lifecycle of the page (`net/`, `main.ts`) | transition queue, heartbeat loop | hide, show, page hide, clear, reconnect | a hidden page is silent, a shown one is counted in again |
| Fight (`sim/sim.ts`) | two fighters, shots, the winner | one frame | a frame favours neither seat, no attack outlives its fighter's control |
| Auth, presence, invites, rating formulas, operations, presentation | tokens, rows | request handlers | not protocol-like; see section 8 |

How they interact. Every request under `/matchmaking`, the ranked result route
and the drain route first takes one PostgreSQL advisory lock and a new fence
token, reloads the stored snapshot into the process's queue service, runs its
handler, and stores a new snapshot together with any terminal decisions before
it answers; a closing save follows before the lock is released. The queue
service calls `onSessionResolved` synchronously when a session ends; that
callback makes the ranked decision *pending* in memory. A timer in every
process also captures (and thereby sweeps) the process's memory every few
seconds. Workers in every process claim stored decisions and settle them,
competing with the players' own agreement on the result. Matched clients
negotiate a peer connection over mailboxes in PostgreSQL and then send their
inputs to each other; each records its inputs in a chain of commitments that the
API verifies with the result. A channel that fails is replaced once, after both
clients have compared checkpoints.

What is hard: the sweep is lazy and back-dates what it finds; processes work on
copies and can lose the lock under way; a transaction can commit and lose its
answer; a client can hang up in any await; a lease can run out under a live
worker; the two paths to a rating race; inputs arrive late, twice or over a new
channel while the client has already predicted past them; a page is hidden while
a request is under way. The hazards are listed line by line in `PROJECT.json`
(`hazards`).

## 2. Modules

| Module | Models | State and actions |
|---|---|---|
| `SessionRules` | the rules on one `MatchSessionRecord`, and what justifies an outcome | no state; `CleanupSession`, `Can...` guards and one operator per handler |
| `MatchSession` | one session against the clock | `now`, `session`, `present`; one action per session handler, `Sweep` for reads, refused calls and the timer |
| `MatchmakingQueue` | the whole queue service of one process | `queue` (tickets, sessions, indexes, drain switch); handlers are operators on that record, every action starts from `Cleanup`; `Restart` restores the snapshot |
| `MatchmakingRuntime` | several processes, one stored session | stored snapshot and decision, lock holder and fence, each process's memory, pending decision, phase and captured transaction; faults |
| `RequestLease` | several requests of each process, their connections and their clients | the lock, the pool, each request's stage, what it wrote; tries, hang-ups, finalization |
| `RankedSettlement` | the ranked path of one session | snapshot, decision row, resolution row, match row, submissions, each worker's progress; faults |
| `RankedOutcome` | what ranked play promises (abstract) | how the session was rated and what became of the server's verdict |
| `RankedSeasons` | seasons and the results that fall in them | season rows, results with their season, each worker's transaction |
| `ReplayArchive` | one match's replay | row, payload, uploads, pruning of each process |
| `Signalling` | the mailbox and both clients' negotiation | rows, requests under way, each client's publish chain, cursor and connection |
| `RecoveryHandshake` | the agreement on a checkpoint over a replacement channel | each client's messages, agreement and outcome |
| `RollbackSession` | one client's rollback simulation | true inputs, known inputs, history, predictions, archive |
| `LockstepPlay` | what a rollback session promises (abstract) | the archived play |
| `FrameExchange` | both clients' pumps and the channel | queues, windows, confirmations, epochs, the round barrier |
| `RoundBarrier` | what the exchange promises about rounds (abstract) | rounds committed by each client |
| `InputCommitments` | a recorder and the chain the API stores | frames, sealed chunks, queue, requests, answers, stored chain |
| `SessionLifecycle` | the controller and heartbeat of one page | wishes, transition queue, the call under way, what the API counts |
| `WorkScheduler` | the due-work scheduler over a decision store | timer, run, rerun flag, claims, clock |
| `RoomLobby` | one private room | the room record and its age |
| `Fight` | one frame of the simulation | two fighters, shots, the winner |
| `..._proofs` | the theorems | extend the modules they are about; `SessionRules_proofs` has the lemmas on the session rules that two others share |
| `PlayInvariants` | the invariants that `ClientPlay_proofs` proves, part by part | of the client's modules |
| `MC...` | instances for TLC | values, symmetry sets, `part` |

`MatchSession`, `MatchmakingQueue` and `MatchmakingRuntime` all use the rules of
`SessionRules`, so the session is modelled once. `RankedSettlement` abstracts a
session to how it ended, because that is all `deriveRankedTerminalDecision`
looks at.

The `MC...` modules put models that share no state into one search: the variable
`part`, chosen by the initial state and never changed, names the one that moves.
This is no composition of behaviour; it saves runs. What a module says of `part`
applies in the behaviours where that part moves.

### Correspondence and abstractions

* A handler, with the sweep before it and everything it calls, is one action.
  In `MatchmakingRuntime` a request takes several steps, divided where the code
  awaits: lock, refresh, handler with capture, transaction, closing capture,
  closing transaction. The handler and the capture have no await between them.
* Undefined fields are `NoTime`, `"none"` or a model value. Session tokens are
  not modelled: a wrong token or a stranger's call is a refused call, which is
  a sweep. A completion that is already recorded, a disconnect of a
  disconnected player and an old transport generation are answered without a
  change, and are sweeps too.
* Build, ruleset and balance profile are one value (`client`): the code compares
  the three for equality after trimming. Ratings and gaps are small integers,
  one clock unit is one second of the band's widening. Ids are handed out in
  order: the code draws random UUIDs and uses them only to break a tie for P1,
  which the model leaves open.
* *Runtime.* The fence token is a counter in the database. The code tests only
  whether the stored token is the one the lease got, so the model stores *whose*
  token it is. The pending decision of the one session stands for the map
  `pendingRankedTerminalDecisions`; the code compares the stored object by
  identity when it removes it, the model by value, which differs only in whether
  an equal decision is enqueued once more. `LoseLock` frees the lock while the
  request goes on with a working connection, which is more than can happen; the
  fence is designed for it. Requests refused or aborted before their handler, and
  the timer's own lease, are `TurnAway`. The processes' clocks agree.
* *Lease.* A snapshot is the set of the requests whose effect it has, and
  `"sweep"`. `MaxTries` stands for the five seconds after which an attempt to
  take the lock gives up. The failing load of a request already aborted is left
  out. The nested use of the pool by the sign-in also occurs at
  `server.ts:2422` and `server.ts:8338`.
* *Settlement.* Every transaction holds the session's advisory lock from its
  first statement, so it is one step; it may fail before or after its commit.
  Leases and back-off count down, and `MaxSkew` is how far ahead of the database
  the API's clock may have dated the decision. The verdicts of replaying a
  proof, of the anomaly rules and of the coverage of commitments are
  nondeterministic: a submission may roll back, be flagged, or pass.
* *Seasons.* A transaction is atomic under the advisory lock and reads its time
  before it waits for it (`MaxWait`). The one-off update of legacy rows and the
  rating itself are left out. *Archive.* Time is kept as countdowns. A crash
  between storing a payload and its row leaves a payload that nothing collects;
  the model has it, and no property speaks of it. Checks that only read (quota,
  session, settlement) are left out.
* *Signalling.* A publish request is one statement: it decides `existing` and
  `usage` on the snapshot it began with and then waits for the lock. The expiry
  of signals, byte quotas and the clearing fifteen seconds after a resolution
  are left out.
* *Exchange.* A frame is its number and round; batches are prefixes of the tail
  that is not acknowledged. The timeout of ten seconds for a missing checkpoint
  answer is left out: a client waits or fails nondeterministically.
* *Rollback.* The simulation is a constant function of the state and both inputs,
  `Winner` a function of the state. The chain of *commitments* is equality of the
  committed prefix; one unit of `now` is the duration of a frame. `MaxLag` bounds how
  long a sealed chunk may wait for the server while the clock goes on.
  Answers in the 4xx range that say the session is not live are left out, and so
  is the watermark `canonicalThrough`, which the prediction window makes
  redundant.
* *Page.* The model covers the time in which `canLifecycleManageOnlineSession`
  holds. When a reconnect gives up, `onError` clears the controller and
  `phase = 'suspended'` is written after that on the cleared object; the model has
  it, and it does no harm. Requests have no timeout, an aborted heartbeat takes no
  effect, and microtasks run with nothing of the page in between.
* *Room.* Reads do not refresh `updatedAt`. *Scheduler.* A lost answer to a claim
  is the claim of a peer and a failing run; the gap between the end of a drain and
  `inFlight = null` is a step of its own.
* *Fight.* Positions, velocities and damage are abstracted: whether an attack
  reaches is chosen; two grabs that take effect in one pass both reach or neither
  does, since both have the same range and nobody moves between them, unless they
  take effect as they begin. `Choices` leaves out what cannot
  matter in a state; a fighter launched in this frame can be captured by the well in
  it, and a projectile can hit in the frame that spawned it. The match is a mirror
  match, of a character with any of the four kinds of special (`kind`). A grab is
  assumed to stun for at least a frame (`characterPackageSchema.ts:532` admits
  zero). That a launched fighter flies
  at least `MinFlight` frames, more than any startup, holds in the code: a launch
  of speed 126 with damping .995 takes some 260 frames to release, some 85 with a
  well, and the longest startup is 31.

## 3. Runs

| Run | Question | Properties |
|---|---|---|
| `match_session` | one session, both players, all orders of calls, sweeps and ticks | `OutcomeJustified`, `SweepScheduleIrrelevant`, `LateCallCannotRescue`, `SessionEnds` |
| `matchmaking_queue` | three accounts in the ranked queue, two of them through whole sessions, drains and restarts | `PollMatches`, `TicketsIndexed`, `PairsHold` |
| `matchmaking_runtime` | two processes with one fault anywhere; one process alone with both players | `AckedReconnectsDurable`, `DecidedWithSnapshot`, `StoredOutcomeStands`, `SessionRetires` |
| `ranked_settlement` | two workers and four faults; three matches over three seasons; the replay of one match | `RatedOnce`, `RecordsHold`, `ServerOutcomeStands`, `ImplementsOutcome`, `EverythingCloses` |
| `frame_exchange` | two clients, two rounds, one channel failure; a page hidden and shown over two matches | `MatchInvariant`, `PeerCanCommit`, `ImplementsBarrier`, `LeftIsInert`, `ConnectedMatchEnds`, `ShownIsCountedIn` |
| `client_play` | the rollback session, the recorder of commitments, and two fighters in every frame | `ClientInvariant`, `HistorySuffices`, `RoundEndsAtFirstDecision`, `ChainNeverForks`, `EvidenceWithinLag`, `NeverBothHelpless`, `NoStaleHit`, `SeatsAreEqualButForMeetings`, `ImplementsLockstep`, `FlushEnds` |
| `connection` | the negotiation with faults, a client that gives up or begins afresh; the recovery handshake | `ConnectionInvariant`, `CurrentMailboxKept`, `Connects` |
| `api_services` | requests of two processes and a sign-in on one pool; hang-ups; a room; the scheduler | `ServicesInvariant`, `RecordsSurvive`, `MutationsAreLeased`, `EveryRequestIsAnswered`, `DueWorkIsDone` |
| `runtime_stale_sweep`, `aborted_refresh`, `recovery_checkpoint`, `stale_season` | one property each that the documentation states | violated (section 7) |

All eight of the first rows hold. Deadlock is not checked, because each model
ends where a bound, the end of the match or the last request stops it.

### Bounds

Every instance is the smallest in which the orders the code can tell apart all
happen.

* `match_session`: the heartbeat timeout and the grace together are less than the
  session's life, so timeouts, ties and expiry all happen, also in one sweep; two
  attempt ids show a replay and a fresh attempt; the clock runs until every
  session of that length has been dropped.
* `matchmaking_queue`: one session with three tickets gives a pair and a third who
  waits; two ratings match only after waiting, and two masters prefer opposite
  regions. Third tickets and other profiles are explored to `MatchingTime` and with
  sessions nobody serves; two plain tickets go on to `MaxTime`, with room for every
  ending of their session, a reconnect and a transport attempt.
* `matchmaking_runtime`: the shared instance explores one caller, two clock units
  and one fault; the single one both callers and the whole life of a session, so
  that a sweep, a save and a retry of it fall between a deadline and the next. The
  permutations in `Symmetry` leave the process that runs alone where it is, and
  the liveness property is about that process alone, so the reduction is sound for
  it.
* `ranked_settlement`: a lease of two ticks and a back-off that reaches its cap
  give take-over, retry and late marks; four faults are two lost answers and two
  lost leases in one run. Three seasons, with a pause longer than one.
* `frame_exchange`: a window of one, batches of one and room for two in the
  retained tail satisfy `MaxPrediction + MaxBatch <= MaxOutbound`, as 119 + 30 and
  240 do in the code; the page has four events over two matches, two failing
  requests and two attempts.
* `client_play`: a window of two over six frames, so that a correction reaches
  behind an earlier one; two rounds of commitments with a late, a lost and a
  repeated request, by which a chunk may be received a frame time after it was
  sealed (`MaxLag`), from a client whose simulation never stalls (`MaxWaits` 0, the
  hardest pace for the verifier; the proof covers any); a kit whose phases last one
  frame, with each of the four specials, and a grab that stuns for one.
* `connection`: three attempts per signal as in the code, one recovery, and either
  one lost request and one lost channel, one client that gives up, or one that
  begins afresh.
* `api_services`: three connections for three requests and a sign-in, two tries,
  two hang-ups and one failing query; three accounts in a room for two over two
  sessions; two decisions with a batch of one and a timer shorter than the delays.

`MaxTime`, `MaxGeneration`, `MaxTickets`, `MaxSessions`, `MaxFaults`, `MaxAborts`,
`MaxGiveUps`, `MaxRestarts`, `MaxLosses`, `MaxEvents`, `MaxWaits`, `MaxLag`,
`MaxBreaks`, `MaxSent`, `MaxUploads`, `MaxResults`, `SharedTime` and the callers
are bounds of the models and no limits of the code.

### Fairness

The players owe nothing: no call of a client about its session is fair. Fair are
the clock; the sweep, because the checkpoint timer runs it in every process; in
`MatchmakingRuntime` and `RequestLease` the acquisition of the free lock and each
step of a request that holds it, because every await in it ends in success or
failure and `finalizeMatchmakingRuntimeLease` runs in every hook; in
`RankedSettlement` the steps of each worker, because the scheduler wakes at the
next due time (which `DueWorkIsDone` checks of the scheduler itself); in
`ReplayArchive` the pruning of each process, which assumes that the API is asked
for anything at all; in the client the frame loop, the delivery over a channel
that stands, and the answer to a request that is served. Faults, hang-ups,
submissions and button presses are not fair.

## 4. Properties

* *Session.* `OutcomeJustified`: what the record says about deadlines and endings
  is consistent, however late it was swept. `SweepScheduleIrrelevant`: when the
  lazy sweep runs does not decide who wins. `LateCallCannotRescue`: a call after
  the deadline changes nothing. `SessionEnds`.
* *Queue.* `TicketsIndexed`: the hand-kept indexes are always those a restart
  would build, and an account has one live ticket in a queue. `PairsHold`: matched
  tickets come in pairs that point at one session. `PollMatches`: the search is
  complete and does not depend on who asks.
* *Runtime.* `AckedReconnectsDurable`, `StoredOutcomeStands`: what was answered is
  stored, and a stored outcome is final. `DecidedWithSnapshot`: with one process,
  the recorded decision is the one the stored session ended by.
  `MutationsAreLeased`, `EveryRequestIsAnswered`: no handler runs without the lock
  it needs, and no request waits for ever.
* *Ranked play.* `RatedOnce`, `ServerOutcomeStands`, `ImplementsOutcome`: one
  rating per session, by one of the two paths, never by proofs after the server
  decided. `RecordsHold`: seasons follow one another, results fall in theirs,
  standings are exact, what can be read of a replay has its payload.
  `EverythingCloses`.
* *Connection.* `ConnectionInvariant`: no signal is skipped, a description is set
  once; a client resumes only when its peer has agreed, is back at the server,
  never refuses, and has what it needs to resume as well, in the same state. It is
  not said that the peer does resume: its own time may run out after the client has
  finished its quiet period, and then one plays and the other has failed
  (`webRtcRecoveryCheckpoint.ts:236`, `:303`). `CurrentMailboxKept`:
  clearing an old attempt takes nothing of its successor. `Connects`.
* *Match.* `MatchInvariant`: no input is lost, duplicated or confirmed too early;
  a hidden page is silent. `PeerCanCommit`, `ImplementsBarrier`: who commits a
  round leaves the peer what it needs to do so. `LeftIsInert`: a transition of a
  match that was left does nothing to the present one.
* *Client.* `HistorySuffices`: a rollback finds the state it starts from.
  `RoundEndsAtFirstDecision`, `ImplementsLockstep`: what is archived is a
  lock-step play of the true inputs that no rollback takes back.
  `ChainNeverForks`, `EvidenceWithinLag`, `FlushEnds`: the commitments of an honest
  client are one chain that covers the proof, takes the time it should and overdraws
  the verifier's credit by no more than its chunks were late. `NeverBothHelpless`,
  `NoStaleHit`, `SeatsAreEqualButForMeetings`: how attacks of one frame meet.
* *Services.* `ServicesInvariant`, `RecordsSurvive`, `DueWorkIsDone`.

Each property has a mutant in `PROJECT.json`: a plausible mistake in the code
that violates it under the same configuration.

## 5. Proofs

TLAPS proves the theorems listed in `PROJECT.json` (`theorems`) for every value
of the constants that satisfies the named assumptions of the modules; TLC
evaluates those assumptions on the instances. Most say that durations, windows
and bounds are natural numbers (some of them positive) and that placeholders are no
values; what goes beyond that:

* `RollbackAssumption`: a decided state keeps its winner and the initial state has
  none, which holds of `stepSimulation`; the history is longer than the prediction
  window.
* `PowersAssumption`: 2^0 to 2^30, the factors of the back-off, are natural
  numbers, because the provers know nothing of powers.
* `ExchangeAssumption` and `SignallingAssumption`: there are two players.
* `SeasonsAssumption` and `ArchiveAssumption`: a season has a length, times and
  bounds are natural numbers, and no upload's identity is the missing payload.
* `QueueAssumption`: a join names at least one region, and each of them once, as
  `parseRegionPreferences` and `uniqueRegionsInOrder` make it.

A few hypotheses stand in theorems themselves. The exchange loses no input if
`MaxPrediction + MaxBatch <= MaxOutbound` (119 + 30 and 240 in the code): with a
shorter tail a frame can be dropped before the peer has it. Nothing that was
stored is overwritten if `MaxAborts = 0`: finding 2 is what happens otherwise. And
the evidence of an honest client is credible if there are at least two rounds, as
the verifier demands two commitments, and if the pause between two rounds, less the
time a chunk may be late, is worth the guard in credit (`PauseCoversGuard`:
`(Transition - MaxLag) * Replenish >= Guard`; 72, 4 and 120 in the code, hence every
lag up to 42 frame times, 0.7 s). That the chain covers the proof
(`EvidenceCoversHolds`) needs neither.

Every safety proof has the same shape: a strengthened invariant `I` with
`Init => I` and `I /\ [Next]_vars => I'`, one step per action and below it one per
conjunct the action can disturb, and `I => P`. An action property
follows from `I` and one step.
The strengthenings say why the code is right:

* **Session** (`SessionRules_proofs`, end of `MatchmakingQueue_proofs`). The record
  is `Sound`: deadlines lie within the timeouts of the event that set them, no
  heartbeat is in the future, and a resolved session is one its deadlines justify.
  The lemmas say that a sweep preserves this at any later clock, and so does each
  handler after a sweep. That the moment of the sweep is irrelevant is a case
  split on which of the deadlines is first. The theorems about one session alone
  are about an instance of `MatchSession` (`Alone`), whose rules are shown equal to
  the queue's.
* **Queue** (`MatchmakingQueue_proofs`). Handlers are operators from queue records
  to queue records, so each lemma takes a `Whole` record to a whole one: `InOrder`
  (ids are handed out in order and every bucket ascends), `Indexed` (the account
  index holds exactly the live tickets), `Bucketed` (a bucket holds exactly the
  queued tickets that ask for its region) and `Pairs`. Two ascending sequences with
  the same elements are equal, so the buckets a restart rebuilds are those that
  stand (`TicketsIndexedHolds`). A bucket is a sequence filtered by the recursive
  function `Keep`; what it computes follows from the least length at which it would
  not (`LeastNumber`). Closing a session's tickets on resolution reaches both of
  them or neither, since both point at it (`PairsHoldAlways`). For
  `PollMatchesHolds`: compatibility is symmetric, because a best shared region that is
  the first choice of both is so from either side, the asked ticket stands in a
  bucket the scan visits, and among finitely many candidates one is best.
* **Ranked settlement** (`RankedSettlement_proofs`). The invariant relates the
  match row, the resolution row, the decision and what each worker still believes.
  The refinement maps claims, retries, crashes and lost answers to stuttering and a
  settlement to the award of `RankedOutcome`.
* **Seasons** (`RankedSettlement_proofs`, `RecordsHoldAlways`). `InSeason`: the
  seasons have one length and no gap, only the last one is active, it has begun,
  and every closed season counts the results up to its own. Each round of the
  catch-up loop keeps this and moves the last season on, so among the rounds there
  is a least one (`LeastNumber`) after which a season contains the time, and it is
  the last. The proof is for transactions that get their lock in the instant in
  which they read the clock; for others `SeasonsFollow` fails (section 7).
* **Replays** (same theorem). An id is its request's own until the row is inserted
  or the payload is withdrawn: no row, no answer and no other request or pruning
  knows it (`OwnersAlone`), so what is discarded is nobody else's. Whoever reads,
  deletes or prunes found the id in the row, where it stays until its retention
  ends (`GuestsKnow`); hence no answer is taken back and no readable row loses its
  payload, for any number of uploads, players, processes and failures.
* **Runtime** (`MatchmakingRuntime_proofs`). What is stored for a session follows
  from what was stored before by sweeps and calls (`Follows`); only the owner of
  the fence stores. For one process alone, its memory is an aged copy of what is
  stored or about to be, and the pending decision is what every later sweep would
  decide (`SoloInv`), because sweeping twice is sweeping once (`CleanupTwice`):
  hence `DecidedWithSnapshot`.
* **Services** (`Services_proofs`). `PoolInv`: the holder of the lock is a request
  in a stage that holds it, and connections in use and free add up. `WakeInv`: as
  long as a decision is due, a timer is set, a run is in flight or a rerun is asked
  for. `RoomInv`: an outcome belongs to the session in the room's record. The
  composed `ServicesInvariantHolds` and `RecordsSurviveHolds` follow part by part.
* **Rollback and commitments** (`ClientPlay_proofs`). `PlayHolds`: the history is
  a lock-step play of what is known or predicted, and correct below the first
  wrong prediction; from it the refinement of `LockstepPlay`. `HistoryInv` counts
  from the frame the client aims at and shows that what is pruned is never the
  state a rollback starts from. `CommitInv` places every sealed chunk in the
  queue, under way or in the stored chain, so that the chain grows by its own
  successor only (`ChainNeverForksHolds`), and bounds what the last flush leaves
  (`TailStaysOpenHolds`). `RoundsInv` adds where each chunk lies in its round, so
  that a flushed chain covers every frame and every round boundary of the proof
  (`EvidenceCoversHolds`). `PacedInv` carries an account along that is stricter
  than the verifier's (`Account`): it goes by the times at which the chunks were
  sealed and earns one frame of credit per frame time. Sealing never overdraws it,
  since what is recorded and not yet sealed never exceeds the credit a chunk would
  find, and the sealing falls behind the clock by no more than the guard less the
  pauses so far. No chunk is received before it is sealed or later than the lag
  (`Timely`), so the verifier's credit, computed from the receipts by its recursive
  function, is behind the account by no more than the lag (`CreditFollows`, by
  induction along the chain): hence `EvidenceWithinLagHolds`. `Fresh` adds
  what a correction must not leave behind: within a call, a stale prediction lies
  after the frame the rollback will clear from, so between calls there is none
  (`ClientInvariantHolds`). These invariants and those of the fight are stated in
  `PlayInvariants`.
* **Fight** (`ClientPlay_proofs`, for every kit). `Between` holds of the state at
  the end of a frame, and one lemma per pass of `step` says what the pass does to
  the weaker facts that hold inside a frame. Two things are not obvious. A fighter
  who lost control may still be committed to the attack it began: only until
  the attack ends, which is before the flight can (`Timed`; this needs
  `MinFlight` above every startup), so a tainted attack is one of a fighter who
  cannot connect it (`Credited`). And a launched fighter
  never launches: whoever acts first clears the other's attack or flies himself.
* **Connection** (`Connection_proofs`). `Negotiating`: ids grow, a cursor passes
  nothing that was not read, a peer of an open client is no attempt behind, and an
  answerer takes the one offer of its connection once; so a description is set
  once and clearing takes nothing of a later attempt. `Resuming`: what a client
  agreed to follows from facts that no message changes afterwards.
* **Exchange and page** (`FrameExchange_proofs`). The largest invariant: where
  both rounds stand, how far each client's queue, window, tail, uploads and the
  batches on the channel reach into the same sequence of frames, and what a
  confirmation in any of them implies. `BarrierHolds` is the refinement of
  `RoundBarrier`. For the page, `PageInv` says that transitions are chained and
  the last one is the present wish (`LeftIsInertHolds`).

## 6. Only model-checked

* *The fight.* `SeatsAreEqualButForMeetings` compares two whole frames with the seats
  swapped, of which only one is a behaviour: no invariant stands between them, and
  a proof would have to show of every pass of `step` that it treats both seats
  alike and that, but for dunks or grabs that meet, the two turns of a pass commute.
* *Liveness and `ENABLED`* are out of the provers' reach: `SessionEnds`,
  `SessionRetires`, `EverythingCloses`, `ConnectedMatchEnds`, `ShownIsCountedIn`,
  `FlushEnds`, `Connects`, `EveryRequestIsAnswered`, `DueWorkIsDone`.

## 7. Where code and documentation disagree

Four disagreements are shown by a run each; they are `findings` in
`PROJECT.json`.

1. *A forfeit from a stale copy* (`runtime_stale_sweep`, `server.ts:8986`). The
   checkpoint timer sweeps the process's own memory before it takes the lock. A
   copy that lacks a reconnect another process answered within the grace is
   resolved by timeout; the refresh repairs the session but not the pending
   decision, which is then stored beside an active session. (In the run's instance
   no heartbeat can run out: grace 1, heartbeat timeout 2, clock 2. A copy that
   lacks heartbeats goes the same way once one can: grace 1, heartbeat timeout 1,
   clock 3, both callers.) The documents say a decision is committed with its
   snapshot.
2. *A client that hangs up during the refresh* (`aborted_refresh`,
   `server.ts:1441`). The finalization captures this process's older memory and
   saves it, with a valid fence token, over what another process has stored.
3. *A checkpoint of a predicted state* (`recovery_checkpoint`, `main.ts:1867`).
   The checksum is taken at the frame both have confirmed, but inputs confirmed
   since the last simulated frame have not been applied yet.
4. *A season that comes back* (`stale_season`, `settlementService.ts:127`). A
   settlement that waits for the season lock over the end of a season opens the
   archived window again.

The same models show others, with the instance named; no run checks them.

* *A rated no-contest.* Players who agree on the result are rated while their
  session is active. If one of them never attests completion, the session expires
  and is recorded as a no-contest; `apps/api/README.md:600` says no-contests
  "remain unrated" (`server.ts:1181`; `RankedSettlement!NoContestUnrated`, two
  workers, two proofs, lease 2, back-off 1 to 2, skew 1, one fault).
* *A forfeit from a failed save.* The pending decision of 1 also survives when the
  saves that would have stored the resolution fail (`server.ts:1091`;
  `DecisionWithSnapshot`, one process, two faults, clock 2).
* *A stored decision that blocks every save.* After either, the session's real
  ending conflicts with the stored row; the conflict is raised in the snapshot's
  transaction, so the snapshot is rolled back too, in every process and on every
  later attempt (`server.ts:1283`; `ExpiryIsRecorded`, two processes, session and
  token life 2, heartbeat timeout 1, grace 0, retention 3, clock 3, no faults, one
  caller).
* *A pool exhausted by its own waiters.* Requests that wait for the lock keep
  their connections while the sign-in asks for a second one (`server.ts:2956`,
  `server.ts:2203`, `db.ts:17`); `docs/DEPLOYMENT_RUNBOOK.md:247` bounds the wait
  (`LeaseWaitIsBounded`, one process, one coordinated request, two sign-ins, a pool
  of two, two tries).
* *A spectator who joins again as a player* meets no capacity test
  (`roomService.ts:413`; `apps/api/README.md:65`; `PlayersWithinCapacity`, two
  participants, three accounts).
* *The mailbox quota* is counted on the snapshot the statement began with
  (`sessionSignalStore.ts:178`; `apps/api/README.md:60`; `MailboxWithinQuota`, two
  messages, two publish attempts, no faults).
* *A chunk that is late at the end of its round.* The verifier's credit is capped at
  one chunk and the guard and allows for no slack. A chunk that is sealed while the
  credit is full, and received only when the round has ended (its first attempt was
  lost, say), arrives together with the guard and the frames played meanwhile: the
  honest client's evidence is refused
  (`inputCommitmentStore.ts:66`). `docs/ONLINE_ALPHA_READINESS.md:89` has legitimate
  round-final flushing remain valid, and `docs/RANKED_RESULT_VERIFICATION.md:28` has
  the burst cover one commitment and the guard (`InputCommitments!EvidenceAccepted`,
  the instance of `client_play`). How much it can be overdrawn is what
  `EvidenceWithinLag` checks and the proof bounds.
* *Dunks or grabs that meet* are resolved in seat order (`sim.ts:1978`,
  `sim.ts:981`; `docs/BALANCE_TELEMETRY.md:69` says that neither seat gains from the
  order of the passes; `SeatsAreEqual`): the dunk or grab of the first seat ends
  that of the second, and a grab that takes effect as it is begun (the schema admits
  a wind-up of zero) ends whatever the second seat was about to begin. The checked
  property leaves exactly these frames out. No character that ships has the grab.

## 8. Not modelled

* *Rating, league and master rating*: arithmetic on two rows inside the
  settlement's transaction. *Live frame relay*: its client functions have no
  caller. *Authentication and rate limits*: token formats and cryptography are
  data, and the limiter a counter. *Presence, invites, enforcement*: reads and
  single updates. *Operations tooling*, *rendering, input devices, audio, editor
  and desktop shell*: no state shared with the protocols.
* In the parts modelled: the queue's join and the transport attempt among the
  calls of `MatchmakingRuntime`, the bootstrap of a session and the byte formats
  of frames, the geometry of the fight, its AI, training and replay modes, the
  other tasks of the maintenance scheduler, and what section 2 names.

## 9. Plan

1. The fight: a frame and its mirror image, pass by pass, for
   `SeatsAreEqualButForMeetings`.
2. In the models: the queue's join and the transport attempt in
   `MatchmakingRuntime`, the bootstrap of a session, the presence projection.
