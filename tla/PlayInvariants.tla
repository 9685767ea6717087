----------------------------- MODULE PlayInvariants ----------------------------
(***************************************************************************)
(* The inductive invariants of a client at play, part by part: of its      *)
(* rollback session and archive, of the recorder of its input commitments  *)
(* and the server that stores them, and of two fighters within a frame and *)
(* between frames.                                                         *)
(***************************************************************************)
EXTENDS MCClientPlay

-----------------------------------------------------------------------------
(* RollbackSession: the archive.                                           *)

(* A timeline of own inputs holds what was enqueued for the peer. *)
OwnInputs(own) ==
    /\ own \in [DOMAIN own -> Input]
    /\ \A f \in DOMAIN own : f \in DOMAIN script /\ own[f] = script[f]

(* A timeline of the peer's inputs: an entry that is no prediction is what *)
(* the session has taken, and what is archived rests on such entries, or   *)
(* has left the window for good.                                           *)
PeerInputs(peer, top) ==
    /\ DOMAIN peer \subseteq Nat
    /\ peer \in [DOMAIN peer -> Entry]
    /\ \A f \in DOMAIN peer : ~peer[f].predicted => f \in DOMAIN authentic /\ authentic[f] = peer[f].input
    /\ \A f \in 0..archived :
          /\ f \in DOMAIN peer => ~peer[f].predicted
          /\ f \notin DOMAIN peer => f < WindowFloor(top)

Counters ==
    /\ frame \in Nat /\ target \in Nat
    /\ newest \in Int /\ newest >= -1
    /\ archived \in Int /\ archived >= -1 /\ archived < frame
    /\ exchanged \in Int /\ confirmed \in Int /\ confirmed <= exchanged
    /\ earliest \in Int
    /\ earliest # None => earliest \in Nat /\ archived < earliest /\ earliest < frame
    /\ batch \subseteq Nat

Modes ==
    /\ deciding \in BOOLEAN
    /\ mode # "applying" => earliest = None
    /\ mode = "resimulating" => frame < target
    /\ mode \notin {"resimulating", "failed"} => target = frame
    /\ mode = "advancing" => ~deciding
    /\ mode \in {"applying", "resimulating", "advancing"} /\ ~deciding => target \in DOMAIN script

Scripted ==
    /\ DOMAIN script \subseteq Nat
    /\ script \in [DOMAIN script -> Input]
    /\ 0..(target - 1) \subseteq DOMAIN script /\ 0..(frame - 1) \subseteq DOMAIN script
    /\ \A f \in DOMAIN local : f < target \/ mode = "failed"
    /\ authentic \in [DOMAIN authentic -> Input]

(* The states the frames were simulated to, and what they were simulated   *)
(* with: the own input while it is retained, and the peer's as it stands   *)
(* in the timeline, before the frame to roll back to.                      *)
Simulated ==
    /\ used \in [0..(frame - 1) -> Input]
    /\ trajectory \in [0..frame -> GameState]
    /\ trajectory[0] = InitialState
    /\ frame \in DOMAIN snapshots
    /\ \A f \in DOMAIN snapshots : f \in 0..frame /\ snapshots[f] = trajectory[f]
    /\ \A f \in 0..(frame - 1) :
          f \in DOMAIN local => trajectory[f + 1] = Simulate(trajectory[f], script[f], used[f])
    /\ mode # "failed" =>
          \A f \in DOMAIN remote : f < frame /\ (earliest = None \/ f < earliest) => used[f] = remote[f].input

(* The first decisive frame is remembered, and nothing is archived past it. *)
Decision ==
    /\ winning # NoWinningFrame =>
          /\ winning.frame \in 0..(frame - 1) /\ archived <= winning.frame
          /\ winning.winner = Winner(trajectory[winning.frame + 1])
    /\ \A f \in 0..frame :
          Winner(trajectory[f]) # NoWinner <=> (winning # NoWinningFrame /\ winning.frame < f)
    /\ mode = "committed" => winning # NoWinningFrame /\ archived = winning.frame

PlayInv ==
    Counters /\ Modes /\ Scripted /\ OwnInputs(local) /\ PeerInputs(remote, newest) /\ Simulated /\ Decision

-----------------------------------------------------------------------------
(* Why no history is ever missed: everything is counted back from the frame *)
(* that the present call will have simulated when it ends.  What the peer    *)
(* has not sent yet lies within the prediction window of it, and what a      *)
(* correction or the archive may need within the retained history.           *)
Busy == mode \in {"applying", "resimulating", "advancing"} /\ ~deciding
Goal == IF Busy THEN target + 1 ELSE target

Window ==
    /\ mode # "failed" /\ tooLate = {}
    /\ newest < Goal
    /\ \A f \in batch : f < Goal
    /\ mode # "applying" => batch = {}
    /\ confirmed >= Goal - 1 - MaxPrediction
    /\ earliest # None => earliest >= Goal - 1 - MaxPrediction
    /\ mode = "resimulating" => frame >= Goal - 1 - MaxPrediction

Taken ==
    /\ accepted \subseteq Nat
    /\ \A f \in Nat \ accepted :
          /\ f >= Goal - 1 - MaxPrediction
          /\ f \notin batch => f >= Goal - MaxPrediction
    /\ \A f \in accepted \cap DOMAIN remote : ~remote[f].predicted
    /\ batch \cap accepted \subseteq DOMAIN remote
    /\ mode \in {"applying", "resimulating", "advancing", "archiving"} =>
          0..exchanged \subseteq accepted \cup batch

Retained ==
    /\ \A f \in accepted : f >= Goal - MaxHistoryFrames => f \in DOMAIN remote
    /\ \A f \in 0..(target - 1) : f >= Goal - MaxHistoryFrames => f \in DOMAIN local
    /\ \A f \in 0..frame : f >= Goal - MaxHistoryFrames => f \in DOMAIN snapshots

(* The archive has reached the winning frame, or is not far behind.          *)
Archiving ==
    \/ winning # NoWinningFrame /\ archived = winning.frame
    \/ /\ archived >= Goal - 2 - MaxPrediction
       /\ mode \notin {"applying", "resimulating", "advancing", "archiving"} =>
             archived >= Goal - 1 - MaxPrediction

HistoryInv == Window /\ Taken /\ Retained /\ Archiving

-----------------------------------------------------------------------------
(* What is archived came from the peer.                                    *)
Authentic == 0..archived \subseteq DOMAIN authentic

(* What a step does to the past: it stays, except for one more archived    *)
(* frame.                                                                  *)
Past == /\ \A f \in 0..(archived + 1) : trajectory'[f] = trajectory[f]
        /\ \A f \in 0..archived : script'[f] = script[f] /\ authentic'[f] = authentic[f]

-----------------------------------------------------------------------------
(* InputCommitments: the recorder, the server and what is between them.    *)

(* Chunks as the recorder and the server handle them.                      *)
Chunks == [sequence : Int, epoch : Int, start : Int, end : Int, final : BOOLEAN]
SealedChunks == [chunk : Chunks, sealed : Int]

(* What the recorder has sealed so far, acknowledged or not: chunk k of    *)
(* the chain that it commits to.                                           *)
Sealing(k) == IF k <= Len(previousChain) THEN previousChain[k] ELSE queued[k - Len(previousChain)].chunk
SealedThrough(n) == [k \in 1..n |-> Sealing(k)]

(* What assertCommitmentContinuity demands of the chunk after `last`.      *)
Succeeds(next, last) ==
    IF last.final THEN next.epoch = last.epoch + 1 /\ next.start = 0
    ELSE next.epoch = last.epoch /\ next.start = last.end + 1

RecorderTypes ==
    /\ pace \in Nat /\ mutual \in Int /\ sealed \in Int
    /\ pending \in {Log!None} \cup [epoch : Int, start : Int, inputs : Nat]
    /\ queued \in Seq(SealedChunks) /\ previousChain \in Seq(Chunks)
    /\ nextSequence = Len(previousChain) + Len(queued)
    /\ now \in Int /\ attempt \in Nat
    /\ stored \in Seq([chunk : Chunks, receivedAt : Int])

(* The chain is numbered from zero and has no gap, and the open round goes *)
(* on where it ends.                                                       *)
ChainRuns ==
    /\ \A k \in 1..nextSequence :
          /\ Sealing(k).sequence = k - 1
          /\ IF k = 1 THEN Sealing(k).epoch = 0 /\ Sealing(k).start = 0
             ELSE Succeeds(Sealing(k), Sealing(k - 1))
    /\ pending # Log!None =>
          IF nextSequence = 0 THEN pending.epoch = 0 /\ pending.start = 0
          ELSE Succeeds(pending, Sealing(nextSequence))

(* The server is at most one chunk ahead of the receipts.                  *)
ServerFollows ==
    /\ Len(previousChain) <= Len(stored) /\ Len(stored) <= Len(previousChain) + 1
    /\ Len(stored) <= nextSequence
    /\ \A k \in DOMAIN stored : stored[k].chunk = Sealing(k)

(* Every request, however late, is for a chunk of the chain and names the  *)
(* chunks before it; an answer is the receipt of the head of the queue.    *)
OnTheWay ==
    /\ attempt > 0 => queued # <<>>
    /\ \A r \in requests :
          \E k \in 1..nextSequence :
              k <= Len(previousChain) + 1 /\ r.chunk = Sealing(k) /\ r.previous = SealedThrough(k - 1)
    /\ \A a \in answers :
          /\ queued # <<>> /\ Len(stored) = Len(previousChain) + 1
          /\ a.ok /\ a.chain = Append(previousChain, queued[1].chunk)

(* The tail of the open round begins within what is archived, which is not *)
(* more than the guard behind the simulation.                              *)
TailBounds ==
    /\ pending # Log!None =>
          /\ pending.start >= 0 /\ pending.start + pending.inputs = pace
          /\ pending.start = 0 \/ pending.start <= sealed
          /\ pending.inputs <= MaxFrames + Guard
    /\ -1 <= sealed /\ sealed <= mutual /\ sealed < pace
    /\ pace - sealed <= Guard

CommitInv == RecorderTypes /\ ChainRuns /\ ServerFollows /\ OnTheWay /\ TailBounds

(* The end of a round: decided in frame f, its tail sealed as the chunks cs. *)
RoundEnded(f, cs) ==
    /\ pending # Log!None /\ pending \in [epoch : Int, start : Int, inputs : Nat]
    /\ pending.epoch \in Int /\ pending.start \in Int /\ pending.inputs \in Nat
    /\ sealed <= f /\ f <= mutual /\ f < pace /\ pending.start <= f
    /\ f \in Nat /\ cs \in Seq(Chunks) /\ Len(cs) >= 1
    /\ \A i \in 1..Len(cs) :
          /\ cs[i].sequence = nextSequence + i - 1 /\ cs[i].epoch = pending.epoch
          /\ cs[i].start = pending.start + (i - 1) * MaxFrames
          /\ i < Len(cs) => ~cs[i].final /\ cs[i].end = pending.start + i * MaxFrames - 1
    /\ cs[Len(cs)].final /\ cs[Len(cs)].end = f
    /\ (Len(cs) - 1) * MaxFrames <= f - pending.start
    /\ Log!Queue(cs) /\ lengths' = Append(lengths, f + 1)
    /\ pending' = IF Len(lengths) + 1 = Rounds THEN Log!None
                  ELSE [epoch |-> pending.epoch + 1, start |-> 0, inputs |-> 0]
    /\ pace' = 0 /\ mutual' = -1 /\ sealed' = -1 /\ delay' = Transition
    /\ UNCHANGED <<now, waits, previousChain, failed, attempt, requests, answers, stored>>

-----------------------------------------------------------------------------
(* InputCommitments: what the verifier makes of the stored chain.          *)

(* A sealed chunk lies within its round: it is the last one just when it   *)
(* ends where the round did, and in the open round it ends before the tail. *)
WithinRound(c) ==
    /\ 0 <= c.epoch
    /\ \/ /\ c.epoch < Len(lengths) /\ c.end < lengths[c.epoch + 1]
          /\ c.final <=> c.end = lengths[c.epoch + 1] - 1
       \/ /\ pending # Log!None
          /\ c.epoch = Len(lengths) /\ ~c.final /\ c.end < pending.start

RoundsInv ==
    /\ lengths \in Seq(Nat)
    /\ pending # Log!None => pending.epoch = Len(lengths)
    /\ pending = Log!None =>
          /\ nextSequence > 0
          /\ Sealing(nextSequence).final /\ Sealing(nextSequence).epoch + 1 = Len(lengths)
    /\ \A k \in 1..nextSequence : WithinRound(Sealing(k))

-----------------------------------------------------------------------------
(* InputCommitments: the server's clock, and the verifier's account.       *)

(* The server's clock does not go back between two commitments.            *)
ClockInv ==
    \A k \in 1..Len(stored) :
        /\ stored[k].receivedAt <= now
        /\ k > 1 => stored[k - 1].receivedAt <= stored[k].receivedAt

(* When a sealed chunk is received: what waits in the queue, now.          *)
Received(k) == IF k <= Len(stored) THEN stored[k].receivedAt ELSE now
Spent(k) == Log!Frames(Sealing(k))
Lesser(m, n) == IF m <= n THEN m ELSE n

(* The i-th full chunk to be sealed of a round. *)
FullChunk(round, i) ==
    [sequence |-> nextSequence + i - 1, epoch |-> round.epoch,
     start |-> round.start + (i - 1) * MaxFrames,
     end |-> round.start + i * MaxFrames - 1, final |-> FALSE]

(* Chunks cs that hold q frames from frame s on, without a gap.            *)
Consecutive(cs, s, q) ==
    /\ q = IF Len(cs) = 0 THEN 0 ELSE cs[Len(cs)].end + 1 - s
    /\ \A i \in 1..Len(cs) :
          /\ cs[i].start = IF i = 1 THEN s ELSE cs[i - 1].end + 1
          /\ cs[i].end + 1 >= s /\ cs[i].end + 1 - s <= q

(* An account that is stricter than the verifier's: by the times at which  *)
(* the chunks were sealed, and with one frame of credit per frame of time. *)
(* The credit after each chunk, never overdrawn, and the frames committed  *)
(* to through it.                                                          *)
Account(at, credit, count) ==
    /\ at \in [0..nextSequence -> Int] /\ credit \in [0..nextSequence -> Int]
    /\ count \in [0..nextSequence -> Int]
    /\ credit[0] = MaxFrames + Guard /\ count[0] = 0
    /\ at[nextSequence] <= now
    /\ \A k \in 1..nextSequence :
          /\ at[k - 1] <= at[k]
          /\ credit[k] = Lesser(MaxFrames + Guard, credit[k - 1] + (at[k] - at[k - 1])) - Spent(k)
          /\ credit[k] >= 0
          /\ count[k] = count[k - 1] + Spent(k)

(* No chunk is received before it is sealed, or later than the lag.        *)
Timely(at) ==
    /\ \A k \in 1..nextSequence : at[k] <= Received(k) /\ Received(k) <= at[k] + MaxLag
    /\ \A i \in DOMAIN queued : queued[i].sealed = at[Len(previousChain) + i]

(* The credit that a chunk sealed now would find, and how long the match   *)
(* has been going on, or had been when it was over.                        *)
Available(at, credit) ==
    Lesser(MaxFrames + Guard, credit[nextSequence] + (now - at[nextSequence]))
Latest(at) == IF pending = Log!None THEN at[nextSequence] ELSE now

(* The frames recorded and not sealed, but for one simulated in this frame *)
(* time; and the time that the pauses between rounds have given so far.    *)
Owed ==
    IF pending = Log!None THEN 0
    ELSE IF delay > 0 /\ pending.inputs > 0 THEN pending.inputs - 1 ELSE pending.inputs

Bonus ==
    IF lengths = <<>> THEN 0
    ELSE IF pending # Log!None /\ pace = 0 THEN Transition - delay ELSE Transition

OnPace(at, credit, count) ==
    /\ Available(at, credit) >= Owed
    /\ nextSequence > 0 =>
          /\ Latest(at) - at[1] + Guard >= count[nextSequence] - Spent(1) + Owed + Bonus
          /\ Latest(at) - at[1] >= Bonus

(* No round is simulated faster than the clock.                            *)
Pacing ==
    /\ delay \in Nat /\ mutual < pace
    /\ delay > 0 /\ pace > 0 => delay = 1 /\ mutual <= pace - 2
    /\ pace = 0 => delay <= Transition
    /\ pending = Log!None => Len(lengths) = Rounds

Paced(at, credit, count) ==
    Account(at, credit, count) /\ Timely(at) /\ OnPace(at, credit, count)
PacedInv == Pacing /\ \E at, credit, count : Paced(at, credit, count)

(* The pause between two rounds, less the lag, is worth the guard in credit. *)
PauseCoversGuard == (Transition - MaxLag) * Replenish >= Guard

(* One step of the verifier's credit, and of its count of frames.          *)
CreditStep(chain, f, i) ==
    IF i = 0 THEN Log!Burst
    ELSE LET elapsed == IF i = 1 THEN 0 ELSE chain[i].receivedAt - chain[i - 1].receivedAt
         IN  Log!Min({Log!Burst, f[i - 1] + elapsed * Replenish}) - Log!Frames(chain[i].chunk)

CountStep(chain, f, i) ==
    IF i = 0 THEN 0 ELSE f[i - 1] + Log!Frames(chain[i].chunk)

-----------------------------------------------------------------------------
(* Fight: a fighter within a frame. *)

(* What else a change of the fuel and the dash leaves alone. *)
Alike(x, y) ==
    /\ y.breaks = x.breaks /\ y.stunned = x.stunned /\ y.helpless = x.helpless
    /\ y.recovering = x.recovering
    /\ y.parry = x.parry /\ y.parryStartup = x.parryStartup /\ y.endLag = x.endLag
    /\ y.launchStartup = x.launchStartup /\ y.launchActive = x.launchActive
    /\ y.dunkStartup = x.dunkStartup /\ y.dunkActive = x.dunkActive
    /\ y.specialStartup = x.specialStartup /\ y.specialActive = x.specialActive
    /\ y.launched = x.launched
    /\ y.coolSpecial = x.coolSpecial /\ y.coolLaunch = x.coolLaunch /\ y.coolDunk = x.coolDunk

(* A fighter within a frame: committed to one thing, without an attack while *)
(* stunned or in recovery, without a dash while out of control.              *)
Whole(x) ==
    /\ x \in Duel!Fighter
    /\ x.parryStartup > 0 => ~Duel!Attacking(x)
    /\ Duel!Launching(x) => ~Duel!Dunking(x) /\ ~Duel!Casting(x)
    /\ Duel!Dunking(x) => ~Duel!Casting(x)
    /\ Duel!Attacking(x) => x.stunned = 0 /\ x.recovering = 0
    /\ x.superBoost => ~Duel!WithoutControl(x)
    /\ x.helpless <= Helpless

Credited(x) == x.launched <=> x.helpless > 0

(* An attack in flight comes up before the flight can end: its wind-up is   *)
(* no longer than what is left of it, and what is active became so in       *)
(* flight or as it began.  d: has it had its turn in this frame?            *)
Elapsed(x) == IF x.helpless > 0 THEN Helpless - x.helpless ELSE 0
Due(x, startup, active, wind, d) ==
    /\ startup > 0 => startup + Elapsed(x) + d <= wind
    /\ active > 0 /\ x.helpless > 0 => Elapsed(x) + d <= Duel!AtLeast(wind, 1)
Timed(x, c, l, k) ==
    /\ Due(x, x.specialStartup, x.specialActive, SpecialStartup, c)
    /\ Due(x, x.launchStartup, x.launchActive, LaunchStartup, l)
    /\ Due(x, x.dunkStartup, x.dunkActive, DunkStartup, k)

Fit(x, c, l, k) == Whole(x) /\ Credited(x) /\ Timed(x, c, l, k)

(* y is out of control, or in flight, only if x is. *)
Follows(x, y) == /\ Duel!WithoutControl(x) => Duel!WithoutControl(y)
                 /\ y.helpless > 0 => x.helpless > 0

-----------------------------------------------------------------------------
(* A frame under way. *)
Frame == [f : [Duel!Player -> Duel!Fighter], w : Duel!Player \cup {Duel!Nobody},
          shots : [Duel!Player -> Nat], apart : BOOLEAN,
          connected : SUBSET Duel!Player, returned : SUBSET Duel!Player]

Turn(p, S) == IF p \in S THEN 1 ELSE 0

(* lost: fighters in flight since before the frame.  S, L, D: whose special, *)
(* launch and dunk have had their turn.                                      *)
Round(s, lost, S, L, D) ==
    /\ s \in Frame
    /\ s.returned = {}
    /\ \A p \in Duel!Player : Fit(s.f[p], Turn(p, S), Turn(p, L), Turn(p, D))
    /\ ~ (s.f[Duel!P1].helpless > 0 /\ s.f[Duel!P2].helpless > 0)
    /\ \A p \in lost : Duel!WithoutControl(s.f[p]) /\ p \notin s.connected

(* t is s but for p, who is y. *)
Became(s, t, p, y) ==
    /\ t \in Frame /\ t.f[p] = y /\ \A q \in Duel!Player : q # p => t.f[q] = s.f[q]
    /\ t.w = s.w /\ t.apart = s.apart /\ t.connected = s.connected /\ t.returned = s.returned

(* p's grab has taken effect. *)
Grabbed(s, p) ==
    LET q == Duel!Other(p)
        t == Duel!Set(s, q, Duel!setStunned(s.f[q], GrabStun))
    IN  [t EXCEPT !.connected = t.connected \cup {p}]

-----------------------------------------------------------------------------
(* What a change of a fighter leaves alone. *)

(* A change that leaves control, credit and attacks as they are. *)
Steady(x, y) ==
    /\ y.stunned = x.stunned /\ y.helpless = x.helpless /\ y.recovering = x.recovering
    /\ y.launchStartup = x.launchStartup /\ y.launchActive = x.launchActive
    /\ y.dunkStartup = x.dunkStartup /\ y.dunkActive = x.dunkActive
    /\ y.specialStartup = x.specialStartup /\ y.specialActive = x.specialActive
    /\ y.launched = x.launched

(* An attack is ended: what is left is as it was. *)
Ended(x, y) ==
    /\ y \in Duel!Fighter
    /\ y.stunned = x.stunned /\ y.helpless = x.helpless /\ y.recovering = x.recovering
    /\ y.parryStartup = x.parryStartup /\ y.launched = x.launched /\ y.superBoost = x.superBoost

SameLaunch(x, y) == y.launchStartup = x.launchStartup /\ y.launchActive = x.launchActive
SameDunk(x, y) == y.dunkStartup = x.dunkStartup /\ y.dunkActive = x.dunkActive
SameSpecial(x, y) == y.specialStartup = x.specialStartup /\ y.specialActive = x.specialActive

(* A fighter thrown into recovery. *)
Thrown(t) ==
    Duel!ClearAttempts([t EXCEPT !.fuel = Duel!Minus(IF t.fuel = 0 THEN MaxFuel ELSE t.fuel,
                                 RecoveryCost),
                                 !.recovering = DunkRecovery, !.helpless = 0, !.stunned = 0,
                                 !.parry = 0, !.parryStartup = 0, !.endLag = 0,
                                 !.launched = FALSE, !.coolLaunch = 0, !.coolDunk = 0,
                                 !.coolSpecial = 0])

(* A fighter in control that may begin something. *)
Able(x) == Fit(x, 0, 0, 0) /\ ~Duel!WithoutControl(x)

(* What a fighter that begins an attack keeps. *)
Kept(x, y) ==
    /\ y \in Duel!Fighter
    /\ y.stunned = x.stunned /\ y.helpless = x.helpless /\ y.recovering = x.recovering
    /\ y.parryStartup = x.parryStartup /\ y.launched = x.launched

-----------------------------------------------------------------------------
(* A fighter that has had its turns, and may have begun an attack since. *)
Ready(x) ==
    /\ Whole(x) /\ Credited(x)
    /\ x.helpless > 0 => Timed(x, 1, 1, 1)
    /\ ~(x.helpless > 0) => Timed(x, 0, 0, 0)

Moving(s, lost) ==
    /\ s \in Frame
    /\ s.returned = {}
    /\ \A p \in Duel!Player : Ready(s.f[p])
    /\ ~ (s.f[Duel!P1].helpless > 0 /\ s.f[Duel!P2].helpless > 0)
    /\ \A p \in lost : Duel!WithoutControl(s.f[p]) /\ p \notin s.connected

-----------------------------------------------------------------------------
(* The end of the frame.  live: the round was not decided when the frame     *)
(* began; was: the fighter's attack was tainted then; r: its flight ended in *)
(* this frame.                                                               *)
Pre(x, live, was) ==
    /\ Whole(x) /\ Credited(x)
    /\ live => /\ x.helpless > 0 => Timed(x, 1, 1, 1)
               /\ ~(x.helpless > 0) => Timed(x, 0, 0, 0)
    /\ live /\ was /\ Duel!Attacking(x) => x.helpless > 0

Post(x, r, live, was) ==
    /\ Whole(x)
    /\ x.launched <=> (x.helpless > 0 \/ r)
    /\ r => x.helpless = 0
    /\ live => Timed(x, 0, 0, 0)
    /\ live /\ was /\ Duel!Attacking(x) => x.helpless > 0

(* U: whose timers have run down already. *)
Closing(s, lost, live, U) ==
    /\ s \in Frame
    /\ s.returned \subseteq U
    /\ live \/ s.w # Duel!Nobody
    /\ ~ (s.f[Duel!P1].helpless > 0 /\ s.f[Duel!P2].helpless > 0)
    /\ \A p \in Duel!Player : p \notin U => Pre(s.f[p], live, p \in lost)
    /\ \A p \in Duel!Player : p \in U => Post(s.f[p], p \in s.returned, live, p \in lost)
    /\ \A p \in lost : p \notin s.connected

Ticked(x, slow) ==
    LET y == [x EXCEPT !.stunned = Duel!Minus(@, 1), !.helpless = Duel!Minus(@, 1),
                       !.parry = Duel!Minus(@, 1),
                       !.endLag = Duel!Minus(@, 1), !.recovering = Duel!Minus(@, 1),
                       !.coolSpecial = Duel!Minus(@, 1), !.coolLaunch = Duel!Minus(@, 1),
                       !.coolDunk = Duel!Minus(@, 1)]
    IN  IF slow /\ y.helpless <= Helpless - MinFlight THEN [y EXCEPT !.helpless = 0] ELSE y

-----------------------------------------------------------------------------
(* Everyone's timers have run down, and whoever was back in control has no   *)
(* launcher any more.                                                        *)
Landed(s, lost, live) ==
    /\ s \in Frame
    /\ live \/ s.w # Duel!Nobody
    /\ ~ (s.f[Duel!P1].helpless > 0 /\ s.f[Duel!P2].helpless > 0)
    /\ \A p \in Duel!Player : Post(s.f[p], FALSE, live, p \in lost)
    /\ \A p \in lost : p \notin s.connected

-----------------------------------------------------------------------------
(* Between two frames.  In a round that goes on, a tainted attack belongs to *)
(* a fighter still in flight: one that has returned to control has none.     *)
Between(f, w, sh, st) ==
    /\ f \in [Duel!Player -> Duel!Fighter] /\ w \in Duel!Player \cup {Duel!Nobody}
    /\ sh \in [Duel!Player -> 0..MaxShots] /\ st = FALSE
    /\ \A p \in Duel!Player : /\ Whole(f[p]) /\ Credited(f[p])
                              /\ f[p].superBoost => w = Duel!Nobody
    /\ ~ (f[Duel!P1].helpless > 0 /\ f[Duel!P2].helpless > 0)
    /\ w = Duel!Nobody => \A p \in Duel!Player : /\ Timed(f[p], 0, 0, 0)
                                                 /\ f[p].tainted => Duel!Attacking(f[p])
                                                    /\ f[p].helpless > 0

FightInv == kind \in SpecialKinds /\ Between(fighter, winner, shots, stale)

-----------------------------------------------------------------------------
(* RollbackSession: types and predictions.                                 *)

(* The types of the session, within the frames that a round may have.      *)
Bounded ==
    /\ Goal <= MaxFrame
    /\ -1 <= confirmed /\ archived <= exchanged /\ exchanged < Larger(target, 1)
    /\ mode \in {"idle", "applying", "resimulating", "advancing", "archiving", "looping", "committed", "failed"}
    /\ \A f \in accepted \cup DOMAIN remote : f <= MaxFrame
    /\ snapshots = [f \in DOMAIN snapshots |-> snapshots[f]]
    /\ DOMAIN script \in {0..(target - 1), 0..target}

(* A prediction repeats the input of the frame before it.                  *)
Repeats(peer, f) ==
    peer[f].predicted /\ f - 1 \in DOMAIN peer => peer[f].input = peer[f - 1].input

(* Only frames that were simulated were predicted, and a prediction is     *)
(* fresh unless the correction that replaced its model will clear it.      *)
Fresh ==
    \A f \in DOMAIN remote :
        /\ remote[f].predicted => f < frame \/ (mode = "resimulating" /\ f = frame)
        /\ earliest = None \/ f <= earliest => Repeats(remote, f)

SessionInv == PlayInv /\ HistoryInv /\ Bounded /\ Fresh

-----------------------------------------------------------------------------
(* InputCommitments: the types of the recorder and the server, within the  *)
(* rounds and the frames that a match may have.                            *)
SealedRecords == [chunk : Log!ChunkRecords, sealed : Int]

PaceBounds ==
    /\ now \in Nat /\ waits \in 0..MaxWaits
    /\ delay \in Nat /\ (delay <= Transition \/ delay <= 1)
    /\ pace <= LastFrame /\ mutual < pace
    /\ attempt <= MaxAttempts /\ failed \in BOOLEAN

RoundBounds ==
    /\ lengths \in Seq(Int)
    /\ pending # Log!None => pending.epoch = Len(lengths) /\ Len(lengths) < Rounds

ListBounds ==
    /\ queued \in Seq(SealedRecords) /\ previousChain \in Seq(Log!ChunkRecords)
    /\ \A i \in DOMAIN stored : stored[i].receivedAt \in 0..now

RecorderBounds == PaceBounds /\ RoundBounds /\ ListBounds

-----------------------------------------------------------------------------
(* The whole client.                                                       *)
ClientInv ==
    /\ part \in {"session", "recorder", "fight"}
    /\ SessionInv /\ CommitInv /\ RecorderBounds /\ FightInv

=============================================================================
