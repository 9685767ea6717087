---------------------------- MODULE RankedSeasons ----------------------------
(***************************************************************************)
(* ranked/seasonService.ts: the seasons of ranked play.  Whoever finds no  *)
(* season for the time it has read from its clock archives the seasons     *)
(* that are over, with the standings they end with, and opens the seasons  *)
(* that follow them: a settlement on its way to rate a match, a reader, or *)
(* the operator's reset.                                                   *)
(*                                                                         *)
(* All of them take one transaction-scoped advisory lock, so a transaction *)
(* is one step here.  It works with the time it read before it waited for  *)
(* the lock (settlementService.ts:127), and it can roll back.  Times count *)
(* parts of a season; the time a result was rated at is the one its        *)
(* settlement read.  Standings are the results they count; an account's    *)
(* rating and rank are data.                                               *)
(***************************************************************************)
EXTENDS Naturals, Sequences, FiniteSets

CONSTANTS
    Worker,      \* the requests and jobs under way in the API processes
    Duration,    \* RANKED_SEASON_DURATION_DAYS
    MaxWait,     \* how long a transaction waits for the lock (a bound)
    MaxTime,     \* the clock stops here (a bound)
    MaxResults   \* matches rated (a bound)

SeasonsAssumption ==
    /\ Duration \in Nat \ {0}
    /\ {MaxWait, MaxTime, MaxResults} \subseteq Nat

VARIABLES
    now,
    seasons,   \* ranked_seasons in the order of creation; a season's id is its place
    results,   \* ranked_matches in the order they were rated
    task       \* what each worker is about, with the time it has read

vars == <<now, seasons, results, task>>

Idle == [on |-> "nothing", at |-> 0]

TypeOK ==
    /\ now \in 0..MaxTime
    /\ \A i \in DOMAIN seasons :
          seasons[i] \in [start : Nat, end : Nat, state : {"active", "archived"},
                          standings : SUBSET (1..MaxResults)]
    /\ \A r \in DOMAIN results : results[r] \in [season : DOMAIN seasons, at : 0..MaxTime]
    /\ Len(results) <= MaxResults
    /\ task \in [Worker -> [on : {"nothing", "settlement", "read", "reset"}, at : 0..MaxTime]]

Init ==
    /\ now = 0
    /\ seasons = <<>> /\ results = <<>>
    /\ task = [w \in Worker |-> Idle]

-----------------------------------------------------------------------------
(* The service, as what it makes of the seasons S at the time t.  A call   *)
(* that throws has no outcome.                                             *)

Active(S) == {i \in DOMAIN S : S[i].state = "active"}
Latest(S, ids) == CHOOSE i \in ids : \A j \in ids : S[j].end <= S[i].end
Oldest(S, ids) == CHOOSE i \in ids : \A j \in ids : S[i].end <= S[j].end

\* Mutant: a season's last instant is still its own.
ActiveSeasonAt_Inclusive(S, t) == {i \in Active(S) : S[i].start <= t /\ t <= S[i].end}

\* getActiveSeasonAt: none or one
ActiveSeasonAt(S, t) == {i \in Active(S) : S[i].start <= t /\ t < S[i].end}

\* ranked_active_season_windows_exclude
Overlaps(S, start) ==
    \E i \in Active(S) : S[i].start < start + Duration /\ start < S[i].end

\* createActiveSeason: the new season, or the active one that is in its way.
CreateActiveSeason(S, start) ==
    IF ~Overlaps(S, start)
    THEN {[seasons |-> Append(S, [start |-> start, end |-> start + Duration,
                                  state |-> "active", standings |-> {}]),
           season |-> Len(S) + 1]}
    ELSE {[seasons |-> S, season |-> i] : i \in ActiveSeasonAt(S, start)}

\* Mutant: a season that ends now is not over yet.
Expired_Later(S, t) == {i \in Active(S) : S[i].end < t}

Expired(S, t) == {i \in Active(S) : S[i].end <= t}

\* archiveOldestExpiredSeason: its successor opens and it is closed with the
\* standings of all that has been rated.
ArchiveOldestExpiredSeason(S, t) ==
    LET i == Oldest(S, Expired(S, t))
    IN  {[next.seasons EXCEPT ![i].state = "archived", ![i].standings = DOMAIN results] :
            next \in CreateActiveSeason(S, S[i].end)}

\* Seasons follow one another without a gap.
NextStart(S, t) ==
    LET ended == {i \in DOMAIN S : S[i].end <= t}
    IN  IF ended = {} THEN t ELSE S[Latest(S, ended)].end

\* One round of the loop of createSeasonContainingNow: the oldest season that
\* is over is archived, or the season that follows the latest is created.
Transition(S, t) ==
    IF Expired(S, t) # {} THEN ArchiveOldestExpiredSeason(S, t)
    ELSE {next.seasons : next \in CreateActiveSeason(S, NextStart(S, t))}

\* More rounds than the loop can take: each closes or opens a season that
\* begins at t or before.
Rounds(t) == 2 * t + 2

\* createSeasonContainingNow: one round after the other until a season
\* contains the time.
SeasonContaining(S, t) ==
    LET after[n \in 0..Rounds(t)] ==
            IF n = 0 THEN {S}
            ELSE UNION {Transition(T, t) :
                            T \in {U \in after[n - 1] : ActiveSeasonAt(U, t) = {}}}
    IN  UNION {{[seasons |-> T, season |-> i] : i \in ActiveSeasonAt(T, t)} :
                   T \in UNION {after[n] : n \in 0..Rounds(t)}}

-----------------------------------------------------------------------------
(* The callers.                                                            *)

\* A reader that finds its season without the lock is done.
Begin(w, on) ==
    /\ task[w] = Idle
    /\ on = "settlement" => Len(results) < MaxResults
    /\ on = "read" => ActiveSeasonAt(seasons, now) = {}
    /\ task' = [task EXCEPT ![w] = [on |-> on, at |-> now]]
    /\ UNCHANGED <<now, seasons, results>>

End(w, on) == task[w].on = on /\ task' = [task EXCEPT ![w] = Idle]

\* settleRankedMatch, with the season of the time it read.
Settle(w) ==
    /\ End(w, "settlement") /\ Len(results) < MaxResults
    /\ \E next \in SeasonContaining(seasons, task[w].at) :
          /\ seasons' = next.seasons
          /\ results' = Append(results, [season |-> next.season, at |-> task[w].at])
    /\ UNCHANGED now

\* ensureActiveSeason: createSeasonWithLock
Read(w) ==
    /\ End(w, "read")
    /\ \E next \in SeasonContaining(seasons, task[w].at) : seasons' = next.seasons
    /\ UNCHANGED <<now, results>>

\* POST /ranked/seasons/reset, when the lock is free: one transition.
Reset(w) ==
    /\ End(w, "reset")
    /\ Expired(seasons, task[w].at) # {}
    /\ seasons' \in ArchiveOldestExpiredSeason(seasons, task[w].at)
    /\ UNCHANGED <<now, results>>

\* The transaction throws or is rolled back, or a reset finds the lock taken
\* or nothing to do.
RollBack(w) ==
    /\ task[w] # Idle
    /\ task' = [task EXCEPT ![w] = Idle]
    /\ UNCHANGED <<now, seasons, results>>

Tick ==
    /\ now < MaxTime
    /\ \A w \in Worker : task[w] # Idle => now < task[w].at + MaxWait
    /\ now' = now + 1
    /\ UNCHANGED <<seasons, results, task>>

Next ==
    \/ Tick
    \/ \E w \in Worker :
        \/ \E on \in {"settlement", "read", "reset"} : Begin(w, on)
        \/ Settle(w) \/ Read(w) \/ Reset(w) \/ RollBack(w)

Spec == Init /\ [][Next]_vars

-----------------------------------------------------------------------------
(* Properties.                                                             *)

\* A result belongs to the season its settlement's time falls in, at the
\* boundary between two seasons too (getActiveSeasonAt).
ResultsFallInSeason ==
    \A r \in DOMAIN results :
        LET season == seasons[results[r].season]
        IN  season.start <= results[r].at /\ results[r].at < season.end

\* apps/api/README.md: no historical window is recreated.  Every season
\* begins where the one before it ends, through pauses of any length and
\* whoever finds the old one over first.
SeasonsFollow ==
    \A i \in 2..Len(seasons) : seasons[i].start = seasons[i - 1].end

\* The standings a season ends with are those of the results of this season
\* and the ones before it: all of them and no later one.
StandingsAreExact ==
    \A i \in DOMAIN seasons :
        seasons[i].state = "archived" =>
            seasons[i].standings =
                {r \in DOMAIN results : seasons[results[r].season].end <= seasons[i].end}
=============================================================================
