------------------------- MODULE MCMatchmakingQueue -------------------------
(* MatchmakingQueue on a small instance: three accounts that meet in the    *)
(* ranked queue, of which two go through whole sessions.  Ratings and gaps  *)
(* are scaled down: with RatingGap 1 and RatingExpansion 1, ratings 0 and 2 *)
(* are out of each other's band at first and match after one unit of        *)
(* waiting.                                                                 *)
EXTENDS MatchmakingQueue, TLC

CONSTANTS
    MatchingTime   \* how long other profiles and a third ticket are explored
                   \* (a bound of the model)

\* Enough session ids for every pair of tickets.
ASSUME MaxTickets <= 2 * MaxSessions + 1

P(regions, client, rating, mr) ==
    [regions |-> regions, client |-> client, rating |-> rating, mr |-> mr]

Plain == P(<<"eu">>, "build1", 0, NoMaster)

\* Two ratings that are out of band at first, and two masters who prefer
\* different regions.
RankedProfiles ==
    { Plain,
      P(<<"eu">>, "build1", 2, NoMaster),
      P(<<"eu", "us">>, "build1", 0, 0),
      P(<<"us", "eu">>, "build1", 0, 1) }

\* Two tickets of the plain profile at most: what their session goes through
\* is explored to MaxTime.
Duo(q) ==
    \A t \in TicketId : q.tickets[t].status # "unborn" =>
        t <= 2 /\ q.tickets[t].profile = Plain

\* No session has had a heartbeat, a reconnect or a new transport attempt.
Unserved(q) ==
    \A s \in SessionId :
        LET record == q.sessions[s].record IN
        /\ record.generation = 1
        /\ \A p \in Side : /\ record.part[p].heartbeat = record.createdAt
                           /\ record.part[p].used = {}

\* More tickets and other profiles only with sessions nobody serves, and
\* to MatchingTime.
QueueNext ==
    /\ Next
    /\ Duo(queue') \/ (now' <= MatchingTime /\ Unserved(queue'))
QueueSpec == Init /\ [][QueueNext]_vars

Symmetry == Permutations(Account)
=============================================================================
