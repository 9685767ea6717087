------------------------- MODULE MCRankedSettlement -------------------------
(* What becomes of a played match, on small instances: its rating, with two
   workers and two proofs; the season its result falls in, while transactions
   get their lock without delay; and the archive of its replay.  They share no
   state in these models, so one search serves all three: `part' names the one
   that moves. *)
EXTENDS RankedSettlement

CONSTANTS
    Duration,                  \* of a season
    MaxTime, MaxResults,       \* bounds of RankedSeasons
    Player, Process, Identity, Unstored, Retention, Interval,
    MaxUploads, MaxFailures    \* bounds of ReplayArchive

VARIABLES
    part, now, seasons, results, task,
    row, left, blob, request, pruning, wait, issued, answered, forgotten, failures

\* The back-off must be able to reach its cap within the faults explored.
ASSUME Backoff(MaxFaults + 1) = RetryMax

\* Room for a season, its successor, and a pause longer than a season.
Seasons == INSTANCE RankedSeasons WITH MaxWait <- 0

\* Both players upload, agreeing or not, and two processes prune.
Archive == INSTANCE ReplayArchive WITH MaxFaults <- MaxFailures, faults <- failures

ASSUME SeasonsAssumed == Seasons!SeasonsAssumption
ASSUME ArchiveAssumed == Archive!ArchiveAssumption

ranking == <<now, seasons, results, task>>
archive == <<row, left, blob, request, pruning, wait, issued, answered, forgotten, failures>>
all == <<part, vars, ranking, archive>>

SettlementInit ==
    part \in {"settlement", "seasons", "archive"} /\ Init /\ Seasons!Init /\ Archive!Init

Settles(A) == part = "settlement" /\ A /\ UNCHANGED <<part, ranking, archive>>
Rolls == part = "seasons" /\ Seasons!Next /\ UNCHANGED <<part, vars, archive>>
Archives(A) == part = "archive" /\ A /\ UNCHANGED <<part, vars, ranking>>

\* A process prunes on time as long as it is asked for anything at all.
SettlementSpec ==
    /\ SettlementInit /\ [][Settles(Next) \/ Rolls \/ Archives(Archive!Next)]_all
    /\ WF_all(Settles(Tick))
    /\ \A w \in Worker : WF_all(Settles(WorkerStep(w)))
    /\ WF_all(Archives(Archive!Tick))
    /\ \A p \in Process :
        /\ WF_all(Archives(Archive!Prune(p)))
        /\ WF_all(Archives(Archive!EraseExpired(p)))
        /\ WF_all(Archives(Archive!RemoveExpired(p)))

-----------------------------------------------------------------------------
(* RankedSeasons: seasons follow one another without a gap, a result falls in
   the season of its time, and a season ends with exactly its standings.
   ReplayArchive: a replay that can be read has its payload, what an upload was
   told is archived stays, and what was deleted is gone, whatever fails
   half-way. *)
RecordsHold ==
    /\ part = "seasons" =>
        /\ Seasons!TypeOK
        /\ Seasons!ResultsFallInSeason /\ Seasons!SeasonsFollow /\ Seasons!StandingsAreExact
    /\ part = "archive" =>
        /\ Archive!TypeOK
        /\ Archive!ReadableHasPayload /\ Archive!AnswersStand /\ Archive!DeletedIsGone

(* What a match leaves open is closed: every recorded decision, by whichever
   worker is alive, and every replay whose time is up, payload included. *)
EverythingCloses == DecisionCloses /\ Archive!ReplaysGo
=============================================================================
