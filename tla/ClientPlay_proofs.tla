--------------------------- MODULE ClientPlay_proofs ---------------------------
(***************************************************************************)
(* A client at play: what its rollback session archives, for every         *)
(* simulation, every window and every order in which inputs arrive; the    *)
(* chain of its input commitments, for every chunk and guard length and    *)
(* whatever happens to the submissions; and how the attacks of two         *)
(* fighters meet, for every kit.                                           *)
(***************************************************************************)
EXTENDS PlayInvariants, NaturalsInduction, WellFoundedInduction, TLAPS

-----------------------------------------------------------------------------
(* RollbackSession: the archive. *)

(* What is assumed of the simulation and the window. *)
LEMMA Constants ==
    /\ Neutral \in Input
    /\ InitialState \in GameState
    /\ \A s \in GameState, l \in Input, r \in Input : Simulate(s, l, r) \in GameState
    /\ \A s \in GameState, l \in Input, r \in Input :
          Winner(s) # NoWinner => Winner(Simulate(s, l, r)) = Winner(s)
    /\ Winner(InitialState) = NoWinner
    /\ MaxHistoryFrames \in Nat BY RollbackAssumption DEF RollbackAssumption

(* A prediction is an input. *)
LEMMA ResolvedIsEntry ==
    ASSUME NEW peer, peer \in [DOMAIN peer -> Entry], NEW f
    PROVE  Resolved(peer, f) \in Entry
<1>1. LastBefore(peer, f) \in Input BY Constants DEF LastBefore, Entry
<1> QED BY <1>1 DEF Resolved, Entry

(* No trim reaches into the window behind the newest frame. *)
LEMMA TrimIsOld ==
    ASSUME NEW A, NEW B, NEW top \in Int, NEW f \in Nat, f < TrimFloor(A, B, top)
    PROVE  f < WindowFloor(top) BY Constants DEF TrimFloor, WindowFloor

(* A round begins with nothing simulated and nothing archived. *)
LEMMA PlayInvInit == Init => PlayInv
<1> USE Constants
<1> SUFFICES ASSUME Init PROVE PlayInv OBVIOUS
<1>1. Counters /\ Modes BY DEF Init, Counters, Modes, None
<1>2. Scripted /\ OwnInputs(local) BY DEF Init, Scripted, OwnInputs
<1>3. PeerInputs(remote, newest) BY DEF Init, PeerInputs, None, Entry
<1>4. Simulated BY DEF Init, Simulated, None
<1>5. Decision BY DEF Init, Decision, NoWinningFrame, None
<1> QED BY <1>1, <1>2, <1>3, <1>4, <1>5 DEF PlayInv

(* A frame simulated on a timeline that agrees with what was simulated     *)
(* before keeps every agreement.                                           *)
LEMMA SimulationKeeps ==
    ASSUME Counters, Scripted, Simulated, Decision, earliest = None, mode # "failed",
           NEW own, NEW peer, NEW top \in Int, top >= -1,
           OwnInputs(own), PeerInputs(peer, top),
           \A f \in 0..(frame - 1) :
              f \in DOMAIN own => trajectory[f + 1] = Simulate(trajectory[f], script[f], used[f]),
           \A f \in DOMAIN peer : f < frame => used[f] = peer[f].input,
           frame \in DOMAIN script,
           SimulateSingleFrame(own, peer, top),
           UNCHANGED <<script, authentic, archived, earliest>>, mode' # "committed"
    PROVE  /\ frame' = frame + 1 /\ newest' \in Int /\ newest' >= -1
           /\ DOMAIN local' \subseteq DOMAIN own
           /\ OwnInputs(local)' /\ PeerInputs(remote, newest)' /\ Simulated' /\ Decision'
<1> USE Constants
<1> DEFINE entry == Resolved(peer, frame)
           mine  == IF frame \in DOMAIN own THEN own[frame] ELSE Neutral
           next  == Simulate(snapshots[frame], mine, entry.input)
           crest == Larger(top, frame)
           peers == IF frame < WindowFloor(top) THEN peer ELSE Put(peer, frame, entry)
           floor == Larger(TrimFloor(DOMAIN own, DOMAIN peers, crest), HistoryFloor(frame + 1))
<1>1. /\ frame' = frame + 1
      /\ newest' = crest
      /\ snapshots' = From(Put(snapshots, frame + 1, next), HistoryFloor(frame + 1))
      /\ local' = From(own, floor)
      /\ remote' = From(peers, floor)
      /\ winning' = IF Winner(next) # NoWinner /\ winning = NoWinningFrame
                    THEN [frame |-> frame, winner |-> Winner(next)] ELSE winning
      /\ used' = Put(used, frame, entry.input)
      /\ trajectory' = Put(trajectory, frame + 1, next) BY DEF SimulateSingleFrame
<1>2. frame \in Nat /\ archived \in Int /\ archived < frame BY DEF Counters
<1>3. entry \in Entry /\ mine \in Input /\ entry.input \in Input
  BY ResolvedIsEntry DEF PeerInputs, OwnInputs, Entry
<1>4. snapshots[frame] = trajectory[frame] /\ trajectory[frame] \in GameState BY <1>2 DEF Simulated
<1>5. next \in GameState /\ next = Simulate(trajectory[frame], mine, entry.input) BY <1>3, <1>4
<1>6. crest \in Int /\ crest >= top /\ crest >= frame BY <1>2 DEF Larger
<1>7. \A f \in Nat : f < floor => f < WindowFloor(crest)
  <2> SUFFICES ASSUME NEW f \in Nat, f < floor PROVE f < WindowFloor(crest) OBVIOUS
  <2>1. CASE f < TrimFloor(DOMAIN own, DOMAIN peers, crest) BY <2>1, <1>6, TrimIsOld
  <2>2. CASE f < HistoryFloor(frame + 1) BY <2>2, <1>2, <1>6 DEF HistoryFloor, Larger, WindowFloor
  <2> HIDE DEF crest, peers
  <2> QED BY <2>1, <2>2 DEF Larger
<1> HIDE DEF entry, mine, next, crest, floor
<1>8. /\ used' \in [0..frame -> Input] /\ used'[frame] = entry.input
      /\ \A f \in 0..(frame - 1) : used'[f] = used[f]
  <2>1. DOMAIN used = 0..(frame - 1) /\ 0..(frame - 1) \cup {frame} = 0..frame BY <1>2 DEF Simulated
  <2> QED BY <1>1, <1>2, <1>3, <2>1 DEF Simulated, Put
<1>9. /\ trajectory' \in [0..(frame + 1) -> GameState] /\ trajectory'[frame + 1] = next
      /\ \A f \in 0..frame : trajectory'[f] = trajectory[f]
  <2>1. DOMAIN trajectory = 0..frame /\ 0..frame \cup {frame + 1} = 0..(frame + 1)
    BY <1>2 DEF Simulated
  <2> QED BY <1>1, <1>2, <1>5, <2>1 DEF Simulated, Put
<1>10. /\ DOMAIN local' \subseteq DOMAIN own
       /\ \A f \in DOMAIN local' : local'[f] = own[f]
       /\ local' = [f \in DOMAIN local' |-> local'[f]] BY <1>1 DEF From
<1>11. OwnInputs(local)' BY <1>10 DEF OwnInputs
<1>12. /\ DOMAIN remote' = {f \in DOMAIN peers : f >= floor}
       /\ \A f \in DOMAIN remote' : remote'[f] = peers[f]
       /\ remote' = [f \in DOMAIN remote' |-> remote'[f]] BY <1>1 DEF From
<1>13. /\ DOMAIN peer \subseteq DOMAIN peers /\ DOMAIN peers \subseteq DOMAIN peer \cup {frame}
       /\ \A f \in DOMAIN peer : peers[f] = peer[f]
       /\ frame \in DOMAIN peers => peers[frame] = entry
  <2>1. frame \in DOMAIN peer => entry = peer[frame] BY DEF entry, Resolved
  <2>2. CASE frame < WindowFloor(top) BY <2>1, <2>2
  <2>3. CASE ~(frame < WindowFloor(top)) BY <2>1, <2>3 DEF Put
  <2> QED BY <2>2, <2>3
<1>14. /\ \A f \in DOMAIN peers : peers[f] \in Entry
       /\ DOMAIN peers \subseteq Nat BY <1>2, <1>3, <1>13 DEF PeerInputs
<1>15. frame \in DOMAIN peers /\ frame \notin DOMAIN peer => entry.predicted BY DEF entry, Resolved
<1> HIDE DEF peers
<1>16. WindowFloor(top) <= WindowFloor(crest) \/ WindowFloor(top) = 0 BY <1>6 DEF WindowFloor
<1>17. PeerInputs(remote, newest)'
  <2>1. \A f \in DOMAIN remote' : ~remote'[f].predicted =>
           f \in DOMAIN authentic /\ authentic[f] = remote'[f].input
    BY <1>12, <1>13, <1>15 DEF PeerInputs
  <2>2. ASSUME NEW f \in 0..archived PROVE
           /\ f \in DOMAIN remote' => ~remote'[f].predicted
           /\ f \notin DOMAIN remote' => f < WindowFloor(crest)
    <3>1. f # frame /\ f \in Nat BY <1>2
    <3>2. f \in DOMAIN remote' => ~remote'[f].predicted BY <3>1, <1>12, <1>13 DEF PeerInputs
    <3>3. CASE f \in DOMAIN peers
      <4>1. f \in DOMAIN remote' \/ ~(f >= floor) BY <3>3, <1>12
      <4>2. floor \in Int BY <1>2, <1>6, Constants DEF floor, Larger, TrimFloor, HistoryFloor
      <4> QED BY <3>1, <3>2, <4>1, <4>2, <1>7
    <3>4. CASE f \notin DOMAIN peers
      <4>1. f < WindowFloor(top) BY <3>4, <1>13 DEF PeerInputs
      <4>2. WindowFloor(top) \in Int /\ WindowFloor(crest) \in Int BY <1>6 DEF WindowFloor
      <4>3. f < WindowFloor(crest) BY <4>1, <4>2, <3>1, <1>16
      <4> QED BY <3>2, <4>3
    <3> QED BY <3>2, <3>3, <3>4
  <2> QED BY <2>1, <2>2, <1>1, <1>12, <1>14 DEF PeerInputs
<1>18. Simulated'
  <2>1. \A f \in DOMAIN snapshots' : f \in 0..(frame + 1) /\ snapshots'[f] = trajectory'[f]
    <3>1. \A f \in DOMAIN snapshots' :
             \/ f = frame + 1 /\ snapshots'[f] = next
             \/ f \in DOMAIN snapshots /\ snapshots'[f] = snapshots[f] BY <1>1 DEF From, Put
    <3>2. \A f \in DOMAIN snapshots : f \in 0..frame /\ f \in 0..(frame + 1) /\ snapshots[f] = trajectory'[f]
      BY <1>2, <1>9 DEF Simulated
    <3>3. frame + 1 \in 0..(frame + 1) /\ trajectory'[frame + 1] = next BY <1>2, <1>9
    <3> QED BY <3>1, <3>2, <3>3, Zenon
  <2>2. frame + 1 \in DOMAIN snapshots'
    <3>1. frame + 1 >= HistoryFloor(frame + 1) BY <1>2 DEF HistoryFloor, Larger
    <3> QED BY <1>1, <3>1 DEF From, Put
  <2>3. ASSUME NEW f \in 0..frame, f \in DOMAIN local'
        PROVE  trajectory'[f + 1] = Simulate(trajectory'[f], script[f], used'[f])
    <3>1. f \in DOMAIN own BY <2>3, <1>10
    <3>2. CASE f = frame BY <3>1, <3>2, <1>5, <1>8, <1>9, <1>2 DEF mine, OwnInputs
    <3>3. CASE f # frame
      <4>1. f \in 0..(frame - 1) /\ f + 1 \in 0..frame BY <3>3, <1>2
      <4> QED BY <3>1, <4>1, <1>8, <1>9, <1>2
    <3> QED BY <3>2, <3>3
  <2>4. ASSUME NEW f \in DOMAIN remote', f < frame + 1 PROVE used'[f] = remote'[f].input
    <3>1. f \in DOMAIN peers /\ f \in Nat /\ remote'[f] = peers[f] BY <2>4, <1>12, <1>14
    <3>2. CASE f = frame BY <3>1, <3>2, <1>8, <1>13
    <3>3. CASE f # frame
      <4>1. f \in 0..(frame - 1) /\ f \in DOMAIN peer BY <2>4, <3>1, <3>3, <1>2, <1>13
      <4> QED BY <3>1, <4>1, <1>8, <1>13, <1>2
    <3> QED BY <3>2, <3>3
  <2> QED BY <2>1, <2>2, <2>3, <2>4, <1>1, <1>2, <1>8, <1>9 DEF Simulated
<1>19. Decision'
  <2>1. winning # NoWinningFrame => Winner(next) = Winner(trajectory[frame]) /\ Winner(next) # NoWinner
    BY <1>2, <1>3, <1>4, <1>5 DEF Decision
  <2>2. winning = NoWinningFrame => Winner(trajectory[frame]) = NoWinner BY <1>2 DEF Decision
  <2>3. [frame |-> frame, winner |-> Winner(next)] # NoWinningFrame BY <1>2 DEF NoWinningFrame, None
  <2>4. CASE winning # NoWinningFrame
    <3>1. winning' = winning BY <2>4, <1>1
    <3>2. winning.frame \in 0..(frame - 1) /\ archived <= winning.frame BY <2>4 DEF Decision
    <3>3. winning.winner = Winner(trajectory'[winning.frame + 1])
      BY <2>4, <3>2, <1>2, <1>9 DEF Decision
    <3>4. ASSUME NEW f \in 0..(frame + 1)
          PROVE  Winner(trajectory'[f]) # NoWinner <=> winning.frame < f
      <4>1. CASE f = frame + 1
        <5>1. Winner(trajectory'[f]) # NoWinner BY <4>1, <2>1, <2>4, <1>9
        <5> QED BY <5>1, <4>1, <3>2, <1>2
      <4>2. CASE f # frame + 1
        <5>1. f \in 0..frame BY <4>2, <1>2
        <5> QED BY <5>1, <2>4, <1>9 DEF Decision
      <4> QED BY <4>1, <4>2
    <3> QED BY <2>4, <3>1, <3>2, <3>3, <3>4, <1>1, <1>2 DEF Decision
  <2>5. CASE winning = NoWinningFrame
    <3>1. \A f \in 0..frame : Winner(trajectory'[f]) = NoWinner BY <2>5, <1>9 DEF Decision
    <3>2. CASE Winner(next) = NoWinner
      <4>1. winning' = NoWinningFrame BY <2>5, <3>2, <1>1
      <4>2. \A f \in 0..(frame + 1) : Winner(trajectory'[f]) = NoWinner
        <5>1. \A f \in 0..(frame + 1) : f \in 0..frame \/ f = frame + 1 BY <1>2
        <5> QED BY <5>1, <3>1, <3>2, <1>9
      <4> QED BY <4>1, <4>2, <1>1 DEF Decision
    <3>3. CASE Winner(next) # NoWinner
      <4>1. winning' = [frame |-> frame, winner |-> Winner(next)] BY <2>5, <3>3, <1>1
      <4>2. \A f \in 0..(frame + 1) : (f \in 0..frame /\ ~(frame < f)) \/ (f = frame + 1 /\ frame < f)
        BY <1>2
      <4>3. \A f \in 0..(frame + 1) : Winner(trajectory'[f]) # NoWinner <=> frame < f
        <5> SUFFICES ASSUME NEW f \in 0..(frame + 1)
                     PROVE  Winner(trajectory'[f]) # NoWinner <=> frame < f OBVIOUS
        <5>1. CASE f \in 0..frame /\ ~(frame < f) BY <5>1, <3>1
        <5>2. CASE f = frame + 1 /\ frame < f
          <6>1. trajectory'[f] = next BY <5>2, <1>9
          <6> QED BY <6>1, <5>2, <3>3
        <5> QED BY <5>1, <5>2, <4>2
      <4>4. winning'.frame = frame /\ winning'.winner = Winner(next) /\ winning' # NoWinningFrame
        BY <4>1, <2>3
      <4>5. frame \in 0..(frame' - 1) /\ archived' <= frame BY <1>1, <1>2
      <4> QED BY <4>3, <4>4, <4>5, <1>1, <1>9 DEF Decision
    <3> QED BY <3>2, <3>3
  <2> QED BY <2>4, <2>5
<1>20. newest' \in Int /\ newest' >= -1 BY <1>1, <1>2, <1>6
<1> QED BY <1>1, <1>10, <1>11, <1>17, <1>18, <1>19, <1>20

(* An input is taken only for a frame that is not archived yet. *)
LEMMA TakenIsOpen ==
    ASSUME PeerInputs(remote, newest), NEW f \in Nat, archived \in Int,
           ~(f \in DOMAIN remote /\ ~remote[f].predicted), ~(f < WindowFloor(newest))
    PROVE  f > archived
<1> SUFFICES ASSUME f <= archived PROVE FALSE OBVIOUS
<1>1. f \in 0..archived OBVIOUS
<1> QED BY <1>1 DEF PeerInputs

(* An input that comes in keeps the agreement of what precedes the frame   *)
(* to roll back to.                                                        *)
LEMMA ApplyKeeps ==
    ASSUME PlayInv, NEW f \in batch, NEW value \in Input, ApplyEntry(f, value)
    PROVE  PlayInv'
<1> USE Constants DEF PlayInv
<1> DEFINE known == f \in DOMAIN remote /\ ~remote[f].predicted
           ignored == f < WindowFloor(newest)
           crest == Larger(newest, f)
           peers == Put(remote, f, [input |-> value, predicted |-> FALSE])
           floor == TrimFloor(DOMAIN local, DOMAIN peers, crest)
           taken == ~known /\ ~ignored
<1>1. f \in Nat /\ frame \in Nat /\ archived \in Int /\ newest \in Int /\ newest >= -1
  BY DEF Counters
<1>2. /\ mode = "applying" /\ mode' = mode
      /\ batch' = batch \ {f}
      /\ UNCHANGED <<frame, snapshots, winning, target, deciding, cursors, script, used, trajectory>>
  BY DEF ApplyEntry
<1>3. CASE ~taken
  <2>1. UNCHANGED <<newest, local, remote, authentic, earliest>> BY <1>3 DEF ApplyEntry
  <2>2. Counters' /\ Modes' BY <1>2, <2>1 DEF Counters, Modes, cursors
  <2>3. Scripted' /\ OwnInputs(local)' /\ PeerInputs(remote, newest)'
    BY <1>2, <2>1 DEF Scripted, OwnInputs, PeerInputs, cursors
  <2>4. Simulated' /\ Decision' BY <1>2, <2>1 DEF Simulated, Decision, cursors
  <2> QED BY <2>2, <2>3, <2>4
<1>4. CASE taken
  <2>1. /\ newest' = crest /\ local' = From(local, floor) /\ remote' = From(peers, floor)
        /\ authentic' = Put(authentic, f, value)
        /\ earliest' = IF f < frame /\ Corrects(f, value) THEN RollbackFrom(f) ELSE earliest
    BY <1>4 DEF ApplyEntry
  <2>2. f > archived BY <1>1, <1>4, TakenIsOpen
  <2>3. crest \in Int /\ crest >= newest /\ crest >= -1 BY <1>1 DEF Larger
  <2>4. \A g \in Nat : g < floor => g < WindowFloor(crest) BY <2>3, TrimIsOld
  <2>5. floor \in Int BY <2>3 DEF TrimFloor
  <2>6. /\ DOMAIN peers = DOMAIN remote \cup {f}
        /\ peers[f] = [input |-> value, predicted |-> FALSE]
        /\ \A g \in DOMAIN remote : g # f => peers[g] = remote[g] BY DEF Put
  <2>7. /\ DOMAIN authentic' = DOMAIN authentic \cup {f} /\ authentic'[f] = value
        /\ \A g \in DOMAIN authentic : g # f => authentic'[g] = authentic[g]
        /\ authentic' \in [DOMAIN authentic' -> Input] BY <2>1 DEF Put, Scripted
  <2>8. \/ earliest' = earliest /\ (f < frame => f \in DOMAIN remote /\ remote[f].input = value)
        \/ /\ f < frame /\ earliest' <= f /\ (earliest # None => earliest' <= earliest)
           /\ earliest' = f \/ (earliest' = earliest /\ earliest # None)
    <3>1. earliest \in Int BY DEF Counters
    <3>2. CASE f < frame /\ Corrects(f, value)
      <4>1. earliest' = RollbackFrom(f) BY <3>2, <2>1
      <4> QED BY <4>1, <3>1, <3>2, <1>1 DEF RollbackFrom, Smaller
    <3>3. CASE ~(f < frame /\ Corrects(f, value))
      <4>1. earliest' = earliest BY <3>3, <2>1
      <4>2. f < frame => f \in DOMAIN remote /\ remote[f].input = value BY <3>3 DEF Corrects
      <4> QED BY <4>1, <4>2
    <3> QED BY <3>2, <3>3
  <2> HIDE DEF known, ignored, taken, crest, floor, peers
  <2>9. /\ DOMAIN remote' = {g \in DOMAIN peers : g >= floor}
        /\ \A g \in DOMAIN remote' : remote'[g] = peers[g]
        /\ remote' = [g \in DOMAIN remote' |-> remote'[g]] BY <2>1 DEF From
  <2>10. /\ DOMAIN local' \subseteq DOMAIN local
         /\ \A g \in DOMAIN local' : local'[g] = local[g]
         /\ local' = [g \in DOMAIN local' |-> local'[g]] BY <2>1 DEF From
  <2>11. Counters' /\ Modes'
    BY <1>1, <1>2, <2>1, <2>2, <2>3, <2>8 DEF Counters, Modes, cursors, None
  <2>12. Scripted' /\ OwnInputs(local)' BY <1>2, <2>7, <2>10 DEF Scripted, OwnInputs, cursors
  <2>13. PeerInputs(remote, newest)'
    <3>1. DOMAIN remote' \subseteq Nat /\ \A g \in DOMAIN remote' : remote'[g] \in Entry
      <4>1. \A g \in DOMAIN remote' : (g = f /\ remote'[g] = peers[f]) \/ (g \in DOMAIN remote /\ remote'[g] = remote[g])
        BY <2>6, <2>9
      <4>2. peers[f] \in Entry BY <2>6 DEF Entry
      <4> QED BY <4>1, <4>2, <1>1 DEF PeerInputs
    <3>2. \A g \in DOMAIN remote' : ~remote'[g].predicted =>
             g \in DOMAIN authentic' /\ authentic'[g] = remote'[g].input
      BY <2>6, <2>7, <2>9 DEF PeerInputs
    <3>3. ASSUME NEW g \in 0..archived
          PROVE  /\ g \in DOMAIN remote' => ~remote'[g].predicted
                 /\ g \notin DOMAIN remote' => g < WindowFloor(crest)
      <4>1. g # f /\ g \in Nat BY <1>1, <2>2
      <4>2. g \in DOMAIN remote' => ~remote'[g].predicted BY <4>1, <2>6, <2>9 DEF PeerInputs
      <4>3. CASE g \in DOMAIN remote BY <4>1, <4>2, <4>3, <2>4, <2>5, <2>6, <2>9
      <4>4. CASE g \notin DOMAIN remote
        <5>1. g < WindowFloor(newest) BY <4>4 DEF PeerInputs
        <5>2. g < WindowFloor(crest) BY <5>1, <4>1, <1>1, <2>3 DEF WindowFloor
        <5> QED BY <4>2, <5>2
      <4> QED BY <4>3, <4>4
    <3> QED BY <1>2, <2>1, <2>9, <3>1, <3>2, <3>3 DEF PeerInputs, cursors
  <2>14. Simulated'
    <3>1. ASSUME NEW g \in DOMAIN remote', g < frame, earliest' = None \/ g < earliest'
          PROVE  used[g] = remote'[g].input
      <4>1. g \in DOMAIN peers /\ remote'[g] = peers[g] /\ g \in Nat
        BY <2>9, <2>6, <1>1 DEF PeerInputs
      <4>2. earliest' \in Int /\ earliest \in Int BY <2>11 DEF Counters
      <4>3. earliest = None \/ g < earliest BY <3>1, <4>1, <4>2, <2>8, <1>1 DEF None
      <4>4. CASE g = f
        <5>1. earliest' = earliest /\ f \in DOMAIN remote /\ remote[f].input = value
          BY <4>4, <3>1, <4>2, <2>8, <1>1, <2>11 DEF None, Counters
        <5>2. used[f] = remote[f].input BY <5>1, <4>3, <4>4, <3>1, <1>2 DEF Simulated
        <5> QED BY <5>1, <5>2, <4>1, <4>4, <2>6
      <4>5. CASE g # f BY <4>1, <4>3, <4>5, <3>1, <2>6, <1>2 DEF Simulated
      <4> QED BY <4>4, <4>5
    <3> QED BY <3>1, <1>2, <2>10 DEF Simulated
  <2>15. Decision' BY <1>2 DEF Decision, cursors
  <2> QED BY <2>11, <2>12, <2>13, <2>14, <2>15
<1> QED BY <1>3, <1>4

(* A restored snapshot is the state of its frame; what is archived stays. *)
LEMMA RollbackKeeps == ASSUME PlayInv, Rollback PROVE PlayInv'
<1> USE Constants DEF PlayInv
<1>1. /\ mode = "applying" /\ earliest # None /\ earliest' = None
      /\ remote' = ClearPredictedFrom(earliest + 1)
      /\ UNCHANGED <<local, newest, batch, deciding, cursors, script, authentic, tooLate>>
  BY DEF Rollback
<1>2. /\ frame \in Nat /\ target = frame /\ archived \in Int /\ archived >= -1
      /\ earliest \in Nat /\ archived < earliest /\ earliest < frame BY <1>1 DEF Counters, Modes
<1>3. /\ DOMAIN remote' = {g \in DOMAIN remote : ~(g >= earliest + 1 /\ remote[g].predicted)}
      /\ \A g \in DOMAIN remote' : remote'[g] = remote[g]
      /\ remote' = [g \in DOMAIN remote' |-> remote'[g]] BY <1>1 DEF ClearPredictedFrom
<1>4. PeerInputs(remote, newest)'
  <2>1. ASSUME NEW g \in 0..archived
        PROVE  /\ g \in DOMAIN remote' => ~remote'[g].predicted
               /\ g \notin DOMAIN remote' => g < WindowFloor(newest) BY <1>3 DEF PeerInputs
  <2> QED BY <1>1, <1>3, <2>1 DEF PeerInputs, cursors
<1>5. OwnInputs(local)' BY <1>1 DEF OwnInputs
<1>6. CASE RestoreSnapshot /\ earliest \in DOMAIN snapshots
  <2>1. /\ mode' = "resimulating" /\ target' = frame /\ frame' = earliest
        /\ snapshots' = UpTo(snapshots, earliest)
        /\ winning' = IF Winner(snapshots[earliest]) # NoWinner /\ winning.frame < earliest
                      THEN winning ELSE NoWinningFrame
        /\ used' = UpTo(used, earliest - 1)
        /\ trajectory' = UpTo(trajectory, earliest) BY <1>6 DEF RestoreSnapshot
  <2>2. /\ used' \in [0..(earliest - 1) -> Input]
        /\ \A g \in 0..(earliest - 1) : used'[g] = used[g]
    <3>1. DOMAIN used = 0..(frame - 1) /\ \A g \in 0..(frame - 1) : used[g] \in Input
      BY DEF Simulated
    <3>2. {g \in 0..(frame - 1) : g <= earliest - 1} = 0..(earliest - 1) BY <1>2
    <3>3. used' = [g \in 0..(earliest - 1) |-> used[g]] BY <2>1, <3>1, <3>2 DEF UpTo
    <3>4. \A g \in 0..(earliest - 1) : g \in 0..(frame - 1) BY <1>2
    <3> QED BY <3>1, <3>3, <3>4
  <2>3. /\ trajectory' \in [0..earliest -> GameState]
        /\ \A g \in 0..earliest : trajectory'[g] = trajectory[g] BY <2>1, <1>2 DEF UpTo, Simulated
  <2>4. /\ earliest \in DOMAIN snapshots'
        /\ \A g \in DOMAIN snapshots' : g \in 0..earliest /\ snapshots'[g] = trajectory[g]
    <3>1. DOMAIN snapshots' = {g \in DOMAIN snapshots : g <= earliest} BY <2>1 DEF UpTo
    <3>2. \A g \in DOMAIN snapshots' : snapshots'[g] = snapshots[g] BY <2>1 DEF UpTo
    <3> QED BY <3>1, <3>2, <1>2, <1>6 DEF Simulated
  <2>5. Counters' /\ Modes'
    <3>1. ~deciding => frame \in DOMAIN script BY <1>1, <1>2 DEF Modes
    <3>2. Counters' BY <1>1, <1>2, <2>1 DEF Counters, cursors, None
    <3>3. Modes' BY <1>1, <1>2, <2>1, <3>1 DEF Modes
    <3> QED BY <3>2, <3>3
  <2>6. Scripted' BY <1>1, <1>2, <2>1 DEF Scripted
  <2>7. Simulated'
    <3>1. \A g \in 0..(earliest - 1) : g \in 0..(frame - 1) /\ g \in 0..earliest /\ g + 1 \in 0..earliest
      BY <1>2
    <3>2. \A g \in DOMAIN remote' : g < earliest => used'[g] = remote'[g].input
      <4> SUFFICES ASSUME NEW g \in DOMAIN remote', g < earliest PROVE used'[g] = remote'[g].input
        OBVIOUS
      <4>1. g \in 0..(earliest - 1) /\ g < frame /\ g \in DOMAIN remote BY <1>2, <1>3 DEF PeerInputs
      <4>2. used[g] = remote[g].input BY <4>1, <1>1 DEF Simulated
      <4> QED BY <4>1, <4>2, <1>3, <2>2
    <3>3. \A g \in 0..(earliest - 1) :
             g \in DOMAIN local => trajectory'[g + 1] = Simulate(trajectory'[g], script[g], used'[g])
      BY <3>1, <2>2, <2>3 DEF Simulated
    <3>4. trajectory'[0] = InitialState BY <2>3, <1>2 DEF Simulated
    <3> QED BY <1>1, <2>1, <2>2, <2>3, <2>4, <3>2, <3>3, <3>4 DEF Simulated
  <2>8. Decision'
    <3>1. \A g \in 0..earliest : g \in 0..frame BY <1>2
    <3>2. Winner(trajectory[earliest]) # NoWinner <=> (winning # NoWinningFrame /\ winning.frame < earliest)
      BY <1>2, <3>1 DEF Decision
    <3>3. snapshots[earliest] = trajectory[earliest] BY <1>6 DEF Simulated
    <3>4. CASE winning # NoWinningFrame /\ winning.frame < earliest
      <4>1. winning' = winning BY <2>1, <3>2, <3>3, <3>4
      <4>2. winning.frame \in 0..(earliest - 1) /\ winning.frame + 1 \in 0..earliest
        BY <3>4, <1>2 DEF Decision
      <4> QED BY <4>1, <4>2, <3>1, <3>4, <1>1, <2>1, <2>3 DEF Decision, cursors
    <3>5. CASE ~(winning # NoWinningFrame /\ winning.frame < earliest)
      <4>1. winning' = NoWinningFrame BY <2>1, <3>2, <3>3, <3>5
      <4>2. \A g \in 0..earliest : Winner(trajectory[g]) = NoWinner
        <5> SUFFICES ASSUME NEW g \in 0..earliest, Winner(trajectory[g]) # NoWinner PROVE FALSE
          OBVIOUS
        <5>1. winning # NoWinningFrame /\ winning.frame < g /\ winning.frame \in Int
          BY <3>1 DEF Decision
        <5> QED BY <5>1, <3>5, <1>2
      <4> QED BY <4>1, <4>2, <2>1, <2>3 DEF Decision
    <3> QED BY <3>4, <3>5
  <2> QED BY <1>4, <1>5, <2>5, <2>6, <2>7, <2>8
<1>7. CASE mode' = "failed" /\ UNCHANGED <<frame, snapshots, winning, target, used, trajectory>>
  <2>1. Counters' /\ Modes'
    <3>1. Counters' BY <1>1, <1>2, <1>7 DEF Counters, cursors, None
    <3>2. Modes' BY <1>1, <1>2, <1>7 DEF Modes
    <3> QED BY <3>1, <3>2
  <2>2. Scripted' /\ Simulated' /\ Decision'
    BY <1>1, <1>7 DEF Scripted, Simulated, Decision, cursors
  <2> QED BY <1>4, <1>5, <2>1, <2>2
<1> QED BY <1>6, <1>7 DEF Rollback

(* A frame simulated again meets the inputs it was corrected by. *)
LEMMA ResimulateKeeps == ASSUME PlayInv, Resimulate PROVE PlayInv'
<1> USE Constants DEF PlayInv
<1>1. /\ mode = "resimulating" /\ SimulateSingleFrame(local, remote, newest)
      /\ mode' = IF frame + 1 = target THEN Applied ELSE "resimulating"
      /\ UNCHANGED <<batch, earliest, target, deciding, cursors, script, authentic, tooLate>>
  BY DEF Resimulate
<1>2. /\ frame \in Nat /\ target \in Nat /\ frame < target /\ earliest = None
      /\ newest \in Int /\ newest >= -1
      /\ archived \in Int /\ archived < frame BY <1>1 DEF Counters, Modes
<1>3. frame \in DOMAIN script BY <1>2 DEF Scripted
<1>4. mode' \in {"archiving", "advancing", "resimulating"} BY <1>1 DEF Applied
<1>5. \A f \in DOMAIN remote : f < frame => used[f] = remote[f].input BY <1>1, <1>2 DEF Simulated
<1>6. \A f \in 0..(frame - 1) :
         f \in DOMAIN local => trajectory[f + 1] = Simulate(trajectory[f], script[f], used[f])
  BY DEF Simulated
<1>7. /\ frame' = frame + 1 /\ newest' \in Int /\ newest' >= -1
      /\ DOMAIN local' \subseteq DOMAIN local
      /\ OwnInputs(local)' /\ PeerInputs(remote, newest)' /\ Simulated' /\ Decision'
  BY <1>1, <1>2, <1>3, <1>4, <1>5, <1>6, SimulationKeeps DEF cursors
<1>8. Counters' BY <1>1, <1>2, <1>7 DEF Counters, cursors
<1>9. Modes' BY <1>1, <1>2, <1>7 DEF Modes, Applied
<1>10. Scripted' BY <1>1, <1>2, <1>4, <1>7 DEF Scripted
<1> QED BY <1>7, <1>8, <1>9, <1>10

(* A new frame is simulated with the input that was enqueued for the peer. *)
LEMMA AdvanceKeeps == ASSUME PlayInv, AdvanceFrame PROVE PlayInv'
<1> USE Constants DEF PlayInv
<1> DEFINE crest == Larger(newest, frame)
           own == IF frame < WindowFloor(newest) THEN local ELSE Put(local, frame, script[frame])
           floor == TrimFloor(DOMAIN own, DOMAIN remote, crest)
           mine == From(own, floor)
           peer == From(remote, floor)
<1>1. /\ mode = "advancing" /\ SimulateSingleFrame(mine, peer, crest)
      /\ target' = frame + 1 /\ mode' = "archiving"
      /\ UNCHANGED <<batch, earliest, deciding, cursors, script, authentic, tooLate>>
  BY DEF AdvanceFrame
<1>2. /\ frame \in Nat /\ target = frame /\ earliest = None /\ ~deciding
      /\ newest \in Int /\ newest >= -1
      /\ archived \in Int /\ archived < frame
      /\ frame \in DOMAIN script BY <1>1 DEF Counters, Modes
<1>3. crest \in Int /\ crest >= newest /\ crest >= -1 BY <1>2 DEF Larger
<1>4. floor \in Int BY <1>3 DEF TrimFloor
<1>5. \A g \in Nat : g < floor => g < WindowFloor(crest) BY <1>3, TrimIsOld
<1>6. /\ DOMAIN own \subseteq DOMAIN local \cup {frame}
      /\ \A g \in DOMAIN own : own[g] = script[g] /\ g \in DOMAIN script BY <1>2 DEF Put, OwnInputs
<1> HIDE DEF own, crest, floor
<1>7. /\ DOMAIN mine \subseteq DOMAIN own
      /\ \A g \in DOMAIN mine : mine[g] = own[g]
      /\ mine = [g \in DOMAIN mine |-> mine[g]] BY DEF From
<1>8. /\ DOMAIN peer = {g \in DOMAIN remote : g >= floor}
      /\ \A g \in DOMAIN peer : peer[g] = remote[g]
      /\ peer = [g \in DOMAIN peer |-> peer[g]] BY DEF From
<1> HIDE DEF mine, peer
<1>9. OwnInputs(mine) BY <1>6, <1>7 DEF OwnInputs, Scripted
<1>10. PeerInputs(peer, crest)
  <2>1. ASSUME NEW g \in 0..archived
        PROVE  /\ g \in DOMAIN peer => ~peer[g].predicted
               /\ g \notin DOMAIN peer => g < WindowFloor(crest)
    <3>1. g \in Nat BY <1>2
    <3>2. g \in DOMAIN peer => ~peer[g].predicted BY <1>8 DEF PeerInputs
    <3>3. CASE g \in DOMAIN remote BY <3>1, <3>2, <3>3, <1>4, <1>5, <1>8
    <3>4. CASE g \notin DOMAIN remote
      <4>1. g < WindowFloor(newest) BY <3>4 DEF PeerInputs
      <4>2. g < WindowFloor(crest) BY <4>1, <3>1, <1>2, <1>3 DEF WindowFloor
      <4> QED BY <3>2, <4>2
    <3> QED BY <3>3, <3>4
  <2> QED BY <2>1, <1>8 DEF PeerInputs
<1>11. \A f \in DOMAIN peer : f < frame => used[f] = peer[f].input BY <1>1, <1>2, <1>8 DEF Simulated
<1>12. \A f \in 0..(frame - 1) :
          f \in DOMAIN mine => trajectory[f + 1] = Simulate(trajectory[f], script[f], used[f])
  <2> SUFFICES ASSUME NEW f \in 0..(frame - 1), f \in DOMAIN mine
               PROVE  trajectory[f + 1] = Simulate(trajectory[f], script[f], used[f]) OBVIOUS
  <2>1. f \in DOMAIN local BY <1>2, <1>6, <1>7
  <2> QED BY <2>1 DEF Simulated
<1>13. /\ frame' = frame + 1 /\ newest' \in Int /\ newest' >= -1
       /\ DOMAIN local' \subseteq DOMAIN mine
       /\ OwnInputs(local)' /\ PeerInputs(remote, newest)' /\ Simulated' /\ Decision'
  BY <1>1, <1>2, <1>3, <1>9, <1>10, <1>11, <1>12, SimulationKeeps DEF cursors
<1>14. Counters' /\ Modes' BY <1>1, <1>2, <1>13 DEF Counters, Modes, cursors
<1>15. Scripted'
  <2>1. \A g \in DOMAIN local' : g < frame + 1 BY <1>1, <1>2, <1>6, <1>7, <1>13 DEF Scripted
  <2>2. \A g \in 0..frame : g \in 0..(frame - 1) \/ g = frame BY <1>2
  <2> QED BY <2>1, <2>2, <1>1, <1>2, <1>13 DEF Scripted
<1> QED BY <1>13, <1>14, <1>15

(* A turn begins: only the input of the current frame is written, and no   *)
(* simulated frame has used it.                                            *)
LEMMA BeginFrameKeeps ==
    ASSUME PlayInv, NEW input \in Input, NEW frames \in SUBSET (0..frame), BeginFrame(input, frames)
    PROVE  PlayInv'
<1> USE Constants DEF PlayInv
<1>1. /\ mode \in {"idle", "looping"} /\ ~deciding
      /\ script' = Put(script, frame, input)
      /\ mode' = "applying" /\ batch' = frames
      /\ UNCHANGED <<frame, snapshots, timeline, winning, earliest, target, deciding, cursors, authentic, tooLate, used, trajectory>>
  BY DEF BeginFrame
<1>2. frame \in Nat /\ target = frame /\ earliest = None BY <1>1 DEF Counters, Modes
<1>3. /\ DOMAIN script' = DOMAIN script \cup {frame} /\ script'[frame] = input
      /\ \A g \in DOMAIN script : g # frame => script'[g] = script[g]
      /\ script' \in [DOMAIN script' -> Input] BY <1>1 DEF Put, Scripted
<1>4. Counters' BY <1>1, <1>2 DEF Counters, cursors, timeline
<1>5. Modes' BY <1>1, <1>2, <1>3 DEF Modes
<1>6. Scripted' BY <1>1, <1>2, <1>3 DEF Scripted, timeline
<1>7. \A g \in DOMAIN local : g # frame BY <1>1, <1>2 DEF Scripted
<1>8. OwnInputs(local)' BY <1>1, <1>3, <1>7 DEF OwnInputs, timeline
<1>9. PeerInputs(remote, newest)' BY <1>1 DEF PeerInputs, timeline, cursors
<1>10. Simulated'
  <2>1. \A g \in 0..(frame - 1) : g \in DOMAIN script /\ g # frame BY <1>2 DEF Scripted
  <2> QED BY <1>1, <1>3, <2>1 DEF Simulated, timeline
<1>11. Decision' BY <1>1 DEF Decision, cursors
<1> QED BY <1>4, <1>5, <1>6, <1>8, <1>9, <1>10, <1>11

(* The steps that only move the call on. *)
LEMMA CallKeeps ==
    ASSUME PlayInv,
           \/ \E frames \in SUBSET (0..frame) : BeginResolution(frames)
           \/ NothingChanged
    PROVE  PlayInv'
<1> USE Constants DEF PlayInv
<1>1. /\ mode \in {"idle", "applying"} /\ mode' \in {"applying", "advancing", "archiving", "failed"}
      /\ mode' # "failed" => (mode' = "advancing" => ~deciding) /\ (mode' # "archiving" /\ ~deciding => mode = "applying")
      /\ mode' # "applying" => earliest = None
      /\ batch' \subseteq Nat
      /\ UNCHANGED <<frame, snapshots, timeline, winning, earliest, target, deciding, cursors, observed>>
  <2>1. CASE \E frames \in SUBSET (0..frame) : BeginResolution(frames)
    BY <2>1 DEF BeginResolution, Counters
  <2>2. CASE NothingChanged BY <2>2 DEF NothingChanged, Applied, Counters
  <2> QED BY <2>1, <2>2
<1>2. Counters' BY <1>1 DEF Counters, cursors, timeline
<1>3. Modes' BY <1>1 DEF Modes, observed
<1>4. Scripted' /\ OwnInputs(local)' BY <1>1 DEF Scripted, OwnInputs, timeline, observed
<1>5. PeerInputs(remote, newest)' BY <1>1 DEF PeerInputs, timeline, cursors, observed
<1>6. Simulated' BY <1>1 DEF Simulated, timeline, observed
<1>7. Decision' BY <1>1 DEF Decision, cursors, observed
<1> QED BY <1>2, <1>3, <1>4, <1>5, <1>6, <1>7

(* A frame is archived with inputs that are no predictions, and not past   *)
(* the winning frame.                                                      *)
LEMMA ArchiveKeeps == ASSUME PlayInv, ArchiveFrame PROVE PlayInv'
<1> USE Constants DEF PlayInv
<1>1. /\ mode = "archiving" /\ archived < ReplayLimit
      /\ archived' = IF Archivable(archived + 1) THEN archived + 1 ELSE archived
      /\ mode' = IF Archivable(archived + 1) THEN mode ELSE "failed"
      /\ UNCHANGED <<frame, snapshots, timeline, winning, batch, earliest, target, deciding, exchanged, confirmed, observed>>
  BY DEF ArchiveFrame
<1>2. /\ frame \in Nat /\ archived \in Int /\ archived >= -1 /\ exchanged \in Int /\ confirmed <= exchanged
      /\ target = frame /\ earliest = None BY <1>1 DEF Counters, Modes
<1>3. winning # NoWinningFrame => winning.frame \in 0..(frame - 1) BY DEF Decision
<1>4. archived + 1 < frame /\ (winning # NoWinningFrame => archived + 1 <= winning.frame)
  <2>1. Smaller(exchanged, frame - 1) \in Int /\ Smaller(exchanged, frame - 1) <= frame - 1
    BY <1>2 DEF Smaller
  <2> QED BY <1>1, <1>2, <1>3, <2>1 DEF ReplayLimit, Smaller
<1>5. archived' \in Int /\ archived' >= archived /\ archived' <= archived + 1 BY <1>1, <1>2
<1>6. Counters' BY <1>1, <1>2, <1>4, <1>5 DEF Counters, timeline
<1>7. Modes' BY <1>1, <1>2 DEF Modes, observed
<1>8. Scripted' BY <1>1 DEF Scripted, timeline, observed
<1>9. OwnInputs(local)' BY <1>1 DEF OwnInputs, timeline, observed
<1>10. PeerInputs(remote, newest)'
  <2>1. ASSUME NEW g \in 0..archived'
        PROVE  /\ g \in DOMAIN remote => ~remote[g].predicted
               /\ g \notin DOMAIN remote => g < WindowFloor(newest)
    <3>1. CASE g \in 0..archived BY <3>1 DEF PeerInputs
    <3>2. CASE g \notin 0..archived
      <4>1. g = archived + 1 /\ Archivable(archived + 1) BY <3>2, <1>1, <1>2
      <4> QED BY <4>1 DEF Archivable
    <3> QED BY <3>1, <3>2
  <2> QED BY <1>1, <2>1 DEF PeerInputs, timeline, observed
<1>11. Simulated' BY <1>1, <1>2 DEF Simulated, timeline, observed
<1>12. Decision' BY <1>1, <1>2, <1>3, <1>4, <1>5 DEF Decision, observed
<1> QED BY <1>6, <1>7, <1>8, <1>9, <1>10, <1>11, <1>12

(* A committed round is archived exactly through its winning frame. *)
LEMMA EndCallKeeps == ASSUME PlayInv, EndCall PROVE PlayInv'
<1> USE Constants DEF PlayInv
<1>1. /\ mode = "archiving" /\ archived >= ReplayLimit
      /\ \/ deciding /\ Synchronized /\ mode' = "committed" /\ deciding' = deciding
         \/ mode' = "idle" /\ deciding' \in BOOLEAN
         \/ ~deciding /\ mode' = "looping" /\ deciding' = deciding
      /\ UNCHANGED <<frame, snapshots, timeline, winning, batch, earliest, target, cursors, observed>>
  BY DEF EndCall
<1>2. /\ frame \in Nat /\ archived \in Int /\ exchanged \in Int /\ confirmed \in Int /\ confirmed <= exchanged
      /\ target = frame /\ earliest = None /\ deciding \in BOOLEAN BY <1>1 DEF Counters, Modes
<1>3. Counters' BY <1>1 DEF Counters, timeline, cursors
<1>4. Modes' BY <1>1, <1>2 DEF Modes, observed
<1>5. Scripted' /\ OwnInputs(local)' BY <1>1 DEF Scripted, OwnInputs, timeline, observed
<1>6. PeerInputs(remote, newest)' BY <1>1 DEF PeerInputs, timeline, cursors, observed
<1>7. Simulated' BY <1>1 DEF Simulated, timeline, observed
<1>8. Decision'
  <2>1. mode' = "committed" => winning # NoWinningFrame /\ archived = winning.frame
    <3> SUFFICES ASSUME mode' = "committed"
                 PROVE  winning # NoWinningFrame /\ archived = winning.frame OBVIOUS
    <3>1. winning # NoWinningFrame /\ winning.frame <= confirmed BY <1>1 DEF Synchronized
    <3>2. winning.frame \in 0..(frame - 1) /\ archived <= winning.frame BY <3>1 DEF Decision
    <3>3. ReplayLimit = winning.frame BY <3>1, <3>2, <1>2 DEF ReplayLimit, Smaller
    <3> QED BY <3>1, <3>2, <3>3, <1>1, <1>2
  <2> QED BY <2>1, <1>1 DEF Decision, observed, cursors
<1> QED BY <1>3, <1>4, <1>5, <1>6, <1>7, <1>8

(* The exchange moves no frame of the session. *)
LEMMA ExchangeKeeps == ASSUME PlayInv, Exchange \/ Confirm \/ UNCHANGED vars PROVE PlayInv'
<1> USE Constants DEF PlayInv
<1>1. /\ exchanged' \in Int /\ confirmed' \in Int /\ confirmed' <= exchanged'
      /\ UNCHANGED <<session, archived, observed>> BY DEF Exchange, Confirm, vars, cursors, Counters
<1>2. Counters' BY <1>1 DEF Counters, session, timeline
<1>3. Modes' BY <1>1 DEF Modes, session, observed
<1>4. Scripted' /\ OwnInputs(local)' BY <1>1 DEF Scripted, OwnInputs, session, timeline, observed
<1>5. PeerInputs(remote, newest)' BY <1>1 DEF PeerInputs, session, timeline, observed
<1>6. Simulated' BY <1>1 DEF Simulated, session, timeline, observed
<1>7. Decision' BY <1>1 DEF Decision, session, observed
<1> QED BY <1>2, <1>3, <1>4, <1>5, <1>6, <1>7

(* The invariant is inductive. *)
LEMMA PlayInvNext == PlayInv /\ [Next]_vars => PlayInv'
<1> SUFFICES ASSUME PlayInv, [Next]_vars PROVE PlayInv' OBVIOUS
<1>1. CASE \E input \in Input, frames \in SUBSET (0..frame) : BeginFrame(input, frames)
  BY <1>1, BeginFrameKeeps
<1>2. CASE \E frames \in SUBSET (0..frame) : BeginResolution(frames) BY <1>2, CallKeeps
<1>3. CASE \E f \in batch, value \in Input : ApplyEntry(f, value) BY <1>3, ApplyKeeps
<1>4. CASE Rollback BY <1>4, RollbackKeeps
<1>5. CASE NothingChanged BY <1>5, CallKeeps
<1>6. CASE Resimulate BY <1>6, ResimulateKeeps
<1>7. CASE AdvanceFrame BY <1>7, AdvanceKeeps
<1>8. CASE ArchiveFrame BY <1>8, ArchiveKeeps
<1>9. CASE EndCall BY <1>9, EndCallKeeps
<1>10. CASE Exchange \/ Confirm \/ UNCHANGED vars BY <1>10, ExchangeKeeps
<1> QED BY <1>1, <1>2, <1>3, <1>4, <1>5, <1>6, <1>7, <1>8, <1>9, <1>10 DEF Next

(* Types, provenance of every input, and the simulation of every frame,    *)
(* whatever arrives when (RollbackSession and InputTimelineBuffer).        *)
THEOREM PlayHolds == Spec => []PlayInv BY PlayInvInit, PlayInvNext, PTL DEF Spec

(* The prediction window is within the retained history. *)
LEMMA WindowConstants ==
    MaxHistoryFrames \in Nat /\ MaxPrediction \in Nat /\ MaxPrediction < MaxHistoryFrames
  BY RollbackAssumption DEF RollbackAssumption

(* The numbers the arguments below count with. *)
LEMMA Numbers ==
    ASSUME PlayInv
    PROVE  /\ frame \in Nat /\ target \in Nat /\ Goal \in Nat /\ target <= Goal
           /\ newest \in Int /\ newest >= -1
           /\ archived \in Int /\ archived >= -1 /\ archived < frame
           /\ exchanged \in Int /\ confirmed \in Int /\ confirmed <= exchanged
           /\ earliest \in Int /\ earliest # None => earliest \in Nat /\ earliest < frame
           /\ batch \subseteq Nat BY DEF PlayInv, Counters, Goal

(* Nothing within the history counts as too old. *)
LEMMA HistoryIsInWindow ==
    ASSUME NEW goal \in Nat, NEW top \in Int, top < goal, NEW f \in Nat,
           f >= goal - MaxHistoryFrames
    PROVE  /\ ~(f < WindowFloor(top))
           /\ \A A, B : TrimFloor(A, B, top) \in Int /\ f >= TrimFloor(A, B, top)
  BY WindowConstants DEF WindowFloor, TrimFloor

(* A round begins with an empty history. *)
LEMMA HistoryInvInit == Init => HistoryInv
<1> USE WindowConstants DEF accepted
<1> SUFFICES ASSUME Init PROVE HistoryInv OBVIOUS
<1>1. Goal = 0 /\ target = 0 /\ frame = 0 /\ mode = "idle" BY DEF Init, Goal, Busy
<1>2. Window /\ Taken BY <1>1 DEF Init, Window, Taken, None
<1>3. Retained /\ Archiving BY <1>1 DEF Init, Retained, Archiving, None
<1> QED BY <1>2, <1>3 DEF HistoryInv

(* A frame simulated within the window keeps what the history must hold. *)
LEMMA SimulationRetains ==
    ASSUME NEW goal \in Nat, frame \in Nat, frame < goal, frame >= goal - 1 - MaxPrediction,
           NEW own, NEW peer, NEW top \in Int, top >= -1, top < goal,
           SimulateSingleFrame(own, peer, top),
           accepted \subseteq Nat,
           \A f \in accepted : f >= goal - MaxHistoryFrames => f \in DOMAIN peer,
           \A f \in accepted \cap DOMAIN peer : ~peer[f].predicted,
           \A f \in 0..frame : f >= goal - MaxHistoryFrames => f \in DOMAIN snapshots
    PROVE  /\ frame' = frame + 1 /\ newest' \in Int /\ newest' < goal
           /\ \A f \in accepted : f >= goal - MaxHistoryFrames => f \in DOMAIN remote'
           /\ \A f \in accepted \cap DOMAIN remote' : ~remote'[f].predicted
           /\ \A f \in Nat : f \in DOMAIN own /\ f >= goal - MaxHistoryFrames => f \in DOMAIN local'
           /\ \A f \in 0..(frame + 1) : f >= goal - MaxHistoryFrames => f \in DOMAIN snapshots'
           /\ winning # NoWinningFrame => winning' = winning
<1> USE WindowConstants DEF accepted
<1> DEFINE entry == Resolved(peer, frame)
           state == Simulate(snapshots[frame], IF frame \in DOMAIN own THEN own[frame] ELSE Neutral, entry.input)
           crest == Larger(top, frame)
           peers == IF frame < WindowFloor(top) THEN peer ELSE Put(peer, frame, entry)
           floor == Larger(TrimFloor(DOMAIN own, DOMAIN peers, crest), HistoryFloor(frame + 1))
<1>1. /\ frame' = frame + 1
      /\ newest' = crest
      /\ snapshots' = From(Put(snapshots, frame + 1, state), HistoryFloor(frame + 1))
      /\ local' = From(own, floor)
      /\ remote' = From(peers, floor)
      /\ winning # NoWinningFrame => winning' = winning BY DEF SimulateSingleFrame
<1>2. crest \in Int /\ crest < goal BY DEF Larger
<1>3. HistoryFloor(frame + 1) \in Int /\ \A f \in Nat : f >= goal - MaxHistoryFrames => f >= HistoryFloor(frame + 1)
  BY DEF HistoryFloor, Larger
<1>4. \A f \in Nat : f >= goal - MaxHistoryFrames => f >= floor
  <2> SUFFICES ASSUME NEW f \in Nat, f >= goal - MaxHistoryFrames PROVE f >= floor OBVIOUS
  <2>1. f >= TrimFloor(DOMAIN own, DOMAIN peers, crest) BY <1>2, HistoryIsInWindow
  <2> HIDE DEF peers, crest
  <2> QED BY <2>1, <1>3 DEF Larger
<1>5. frame \in accepted => frame \in DOMAIN peer OBVIOUS
<1>6. /\ DOMAIN peer \subseteq DOMAIN peers
      /\ \A f \in accepted \cap DOMAIN peers : f \in DOMAIN peer /\ peers[f] = peer[f]
  BY <1>5 DEF Put, Resolved
<1>7. frame + 1 \in DOMAIN Put(snapshots, frame + 1, state) /\ DOMAIN snapshots \subseteq DOMAIN Put(snapshots, frame + 1, state)
  BY DEF Put
<1> HIDE DEF state, entry, crest, peers, floor
<1>8. /\ DOMAIN remote' = {f \in DOMAIN peers : f >= floor}
      /\ \A f \in DOMAIN remote' : remote'[f] = peers[f] BY <1>1 DEF From
<1>9. \A f \in accepted : f >= goal - MaxHistoryFrames => f \in DOMAIN remote' BY <1>4, <1>6, <1>8
<1>10. \A f \in accepted \cap DOMAIN remote' : ~remote'[f].predicted BY <1>6, <1>8
<1>11. \A f \in Nat : f \in DOMAIN own /\ f >= goal - MaxHistoryFrames => f \in DOMAIN local'
  BY <1>1, <1>4 DEF From
<1>12. \A f \in 0..(frame + 1) : f >= goal - MaxHistoryFrames => f \in DOMAIN snapshots'
  <2> SUFFICES ASSUME NEW f \in 0..(frame + 1), f >= goal - MaxHistoryFrames PROVE f \in DOMAIN snapshots'
    OBVIOUS
  <2>1. f \in DOMAIN Put(snapshots, frame + 1, state)
    <3>1. f \in 0..frame \/ f = frame + 1 OBVIOUS
    <3> QED BY <3>1, <1>7
  <2>2. f >= HistoryFloor(frame + 1) BY <1>3
  <2> QED BY <1>1, <2>1, <2>2 DEF From
<1> QED BY <1>1, <1>2, <1>9, <1>10, <1>11, <1>12

(* The peer's inputs that a call begins with are within the window, because  *)
(* no frame is simulated further than that past what is confirmed.           *)
LEMMA BeginKeepsHistory ==
    ASSUME PlayInv, HistoryInv, NEW frames \in SUBSET (0..frame),
           \/ \E input \in Input : BeginFrame(input, frames)
           \/ BeginResolution(frames)
    PROVE  HistoryInv'
<1> USE WindowConstants, Numbers DEF HistoryInv, accepted
<1>1. CASE \E input \in Input : BeginFrame(input, frames)
  <2>1. /\ mode \in {"idle", "looping"} /\ ~deciding /\ CanAdvance /\ Pending(frames, frame)
        /\ mode' = "applying" /\ batch' = frames
        /\ UNCHANGED <<frame, snapshots, timeline, winning, earliest, target, deciding, cursors, authentic, tooLate>>
    BY <1>1 DEF BeginFrame
  <2>2. target = frame /\ earliest = None BY <2>1 DEF PlayInv, Modes
  <2>3. Goal = target /\ Goal' = target + 1 /\ batch = {} BY <2>1 DEF Goal, Busy, Window
  <2>4. confirmed >= Goal' - 1 - MaxPrediction BY <2>1, <2>2, <2>3 DEF CanAdvance
  <2>5. Window' BY <2>1, <2>2, <2>3, <2>4 DEF Window, timeline, cursors
  <2>6. ASSUME NEW f \in Nat \ accepted
        PROVE  f >= Goal' - 1 - MaxPrediction /\ (f \notin frames => f >= Goal' - MaxPrediction)
    <3>1. f >= Goal - MaxPrediction BY <2>3 DEF Taken
    <3>2. f \notin frames => f > exchanged BY <2>1 DEF Pending
    <3> QED BY <3>1, <3>2, <2>3, <2>4
  <2>7. Taken'
    <3>1. frames \cap accepted \subseteq DOMAIN remote /\ 0..exchanged \subseteq accepted \cup frames
      BY <2>1 DEF Pending
    <3>2. accepted \subseteq Nat /\ \A f \in accepted \cap DOMAIN remote : ~remote[f].predicted
      BY DEF Taken
    <3>3. UNCHANGED <<accepted, remote, exchanged>> BY <2>1 DEF timeline, cursors
    <3> QED BY <2>1, <2>6, <3>1, <3>2, <3>3 DEF Taken
  <2>8. Retained'
    <3>1. UNCHANGED <<accepted, remote, local, snapshots, frame, target>> BY <2>1 DEF timeline
    <3>2. Retained /\ Goal' - MaxHistoryFrames > Goal - MaxHistoryFrames BY <2>3 DEF Window
    <3>3. ASSUME NEW f \in Nat, f >= Goal' - MaxHistoryFrames PROVE f >= Goal - MaxHistoryFrames
      BY <3>3, <2>3
    <3>4. accepted \subseteq Nat /\ 0..(target - 1) \subseteq Nat /\ 0..frame \subseteq Nat
      BY DEF Taken
    <3> HIDE DEF accepted
    <3> QED BY <3>1, <3>2, <3>3, <3>4 DEF Retained
  <2>9. Archiving' BY <2>1, <2>3 DEF Archiving, cursors
  <2> QED BY <2>5, <2>7, <2>8, <2>9
<1>2. CASE BeginResolution(frames)
  <2>1. /\ mode = "idle" /\ deciding /\ Pending(frames, frame - 1)
        /\ mode' = "applying" /\ batch' = frames
        /\ UNCHANGED <<frame, snapshots, timeline, winning, earliest, target, deciding, cursors, authentic, tooLate>>
    BY <1>2 DEF BeginResolution, observed
  <2>2. target = frame /\ earliest = None BY <2>1 DEF PlayInv, Modes
  <2>3. Goal = target /\ Goal' = target /\ batch = {} BY <2>1 DEF Goal, Busy, Window
  <2>4. Window' BY <2>1, <2>2, <2>3 DEF Window, timeline, cursors, Pending
  <2>5. Taken' BY <2>1, <2>3 DEF Taken, timeline, cursors, Pending
  <2>6. Retained' BY <2>1, <2>3 DEF Retained, timeline
  <2>7. Archiving' BY <2>1, <2>3 DEF Archiving, cursors
  <2> QED BY <2>4, <2>5, <2>6, <2>7
<1> QED BY <1>1, <1>2

(* An input that comes in is not too late, and what it pushes out is old. *)
LEMMA ApplyKeepsHistory ==
    ASSUME PlayInv, HistoryInv, NEW f \in batch, NEW value \in Input, ApplyEntry(f, value)
    PROVE  HistoryInv'
<1> USE WindowConstants, Numbers DEF HistoryInv, accepted
<1> DEFINE known == f \in DOMAIN remote /\ ~remote[f].predicted
           ignored == f < WindowFloor(newest)
           crest == Larger(newest, f)
           peers == Put(remote, f, [input |-> value, predicted |-> FALSE])
           floor == TrimFloor(DOMAIN local, DOMAIN peers, crest)
<1>1. /\ mode = "applying" /\ mode' = mode
      /\ \A g \in batch : f <= g
      /\ batch' = batch \ {f}
      /\ UNCHANGED <<frame, snapshots, winning, target, deciding, cursors>> BY DEF ApplyEntry
<1>2. Goal' = Goal /\ f \in Nat /\ f < Goal BY <1>1 DEF Goal, Busy, Window
<1>3. CASE known
  <2>1. UNCHANGED <<newest, local, remote, authentic, tooLate, earliest>> BY <1>3 DEF ApplyEntry
  <2>2. f \in accepted BY <1>3 DEF PlayInv, PeerInputs
  <2>3. Window' /\ Taken' BY <1>1, <1>2, <2>1, <2>2 DEF Window, Taken, cursors
  <2>4. Retained' /\ Archiving' BY <1>1, <1>2, <2>1 DEF Retained, Archiving, cursors
  <2> QED BY <2>3, <2>4
<1>4. CASE ~known
  <2>1. f \notin accepted BY <1>4 DEF Taken
  <2>2. f >= Goal - 1 - MaxPrediction /\ f >= Goal - MaxHistoryFrames BY <1>2, <2>1 DEF Taken
  <2>3. newest < Goal BY DEF Window
  <2>4. ~ignored BY <1>2, <2>2, <2>3, HistoryIsInWindow
  <2>5. /\ newest' = crest /\ local' = From(local, floor) /\ remote' = From(peers, floor)
        /\ authentic' = Put(authentic, f, value) /\ tooLate' = tooLate
        /\ earliest' = IF f < frame /\ Corrects(f, value) THEN RollbackFrom(f) ELSE earliest
    BY <1>4, <2>4 DEF ApplyEntry
  <2>6. crest \in Int /\ crest < Goal BY <1>2, <2>3 DEF Larger
  <2>7. \A g \in Nat : g >= Goal - MaxHistoryFrames => g >= floor BY <2>6, HistoryIsInWindow
  <2>8. /\ DOMAIN peers = DOMAIN remote \cup {f} /\ ~peers[f].predicted
        /\ \A g \in DOMAIN remote : g # f => peers[g] = remote[g] BY DEF Put
  <2>9. accepted' = accepted \cup {f} BY <2>5 DEF Put
  <2>10. earliest' # None => earliest' >= Goal - 1 - MaxPrediction
    BY <1>2, <2>2, <2>5 DEF Window, RollbackFrom, Smaller, None
  <2> HIDE DEF known, ignored, crest, peers, floor
  <2>11. /\ DOMAIN remote' = {g \in DOMAIN peers : g >= floor}
         /\ \A g \in DOMAIN remote' : remote'[g] = peers[g]
         /\ DOMAIN local' = {g \in DOMAIN local : g >= floor} BY <2>5 DEF From
  <2>12. Window' BY <1>1, <1>2, <2>5, <2>6, <2>10 DEF Window, cursors
  <2>13. Taken'
    <3>1. accepted' \subseteq Nat /\ \A g \in accepted' \cap DOMAIN remote' : ~remote'[g].predicted
      BY <1>2, <2>8, <2>9, <2>11 DEF Taken
    <3>2. \A g \in Nat \ accepted' :
             g >= Goal - 1 - MaxPrediction /\ (g \notin batch' => g >= Goal - MaxPrediction)
      BY <1>1, <2>9 DEF Taken
    <3>3. ASSUME NEW g \in batch' \cap accepted' PROVE g \in DOMAIN remote'
      <4>1. g \in batch /\ g # f /\ g \in accepted /\ f <= g /\ g \in Nat BY <1>1, <2>9
      <4>2. g \in DOMAIN remote /\ g >= Goal - MaxHistoryFrames BY <4>1, <1>2, <2>2 DEF Taken
      <4> QED BY <4>1, <4>2, <2>7, <2>8, <2>11
    <3>4. 0..exchanged' \subseteq accepted' \cup batch' BY <1>1, <2>9 DEF Taken, cursors
    <3> QED BY <3>1, <3>2, <3>3, <3>4, <1>2 DEF Taken
  <2>14. Retained'
    <3>1. \A g \in accepted' : g >= Goal - MaxHistoryFrames => g \in DOMAIN remote'
      BY <1>2, <2>7, <2>8, <2>9, <2>11 DEF Taken, Retained
    <3>2. \A g \in 0..(target - 1) : g >= Goal - MaxHistoryFrames => g \in DOMAIN local'
      BY <2>7, <2>11 DEF Retained
    <3> QED BY <3>1, <3>2, <1>1, <1>2 DEF Retained
  <2>15. Archiving' BY <1>1, <1>2 DEF Archiving, cursors
  <2> QED BY <2>12, <2>13, <2>14, <2>15
<1> QED BY <1>3, <1>4

(* The snapshot to restore is there, and a decision the archive has reached  *)
(* is not undone.                                                            *)
LEMMA RollbackKeepsHistory == ASSUME PlayInv, HistoryInv, Rollback PROVE HistoryInv'
<1> USE WindowConstants, Numbers DEF HistoryInv, accepted
<1>1. /\ mode = "applying" /\ batch = {} /\ earliest # None /\ earliest' = None
      /\ remote' = ClearPredictedFrom(earliest + 1)
      /\ UNCHANGED <<local, newest, batch, deciding, cursors, authentic, tooLate>> BY DEF Rollback
<1>2. earliest \in Nat /\ earliest < frame /\ target = frame /\ archived < earliest
  BY <1>1 DEF PlayInv, Counters, Modes
<1>3. earliest >= Goal - 1 - MaxPrediction /\ earliest >= Goal - MaxHistoryFrames
  BY <1>1, <1>2 DEF Window
<1>4. earliest \in DOMAIN snapshots BY <1>2, <1>3 DEF Retained
<1>5. RestoreSnapshot BY <1>1, <1>4 DEF Rollback, Window
<1>6. /\ mode' = "resimulating" /\ target' = target /\ frame' = earliest
      /\ DOMAIN snapshots' = {g \in DOMAIN snapshots : g <= earliest}
      /\ winning' = IF Winner(snapshots[earliest]) # NoWinner /\ winning.frame < earliest
                    THEN winning ELSE NoWinningFrame BY <1>2, <1>5 DEF RestoreSnapshot, UpTo
<1>7. Goal' = Goal BY <1>1, <1>6 DEF Goal, Busy
<1>8. /\ DOMAIN remote' = {g \in DOMAIN remote : ~(g >= earliest + 1 /\ remote[g].predicted)}
      /\ \A g \in DOMAIN remote' : remote'[g] = remote[g] BY <1>1 DEF ClearPredictedFrom
<1>9. Window' BY <1>1, <1>3, <1>6, <1>7 DEF Window, cursors
<1>10. Taken' BY <1>1, <1>6, <1>7, <1>8 DEF Taken, cursors
<1>11. Retained'
  <2>1. \A g \in accepted : g >= Goal - MaxHistoryFrames => g \in DOMAIN remote'
    BY <1>8 DEF Retained, Taken
  <2>2. \A g \in 0..earliest : g >= Goal - MaxHistoryFrames => g \in DOMAIN snapshots'
    BY <1>2, <1>6 DEF Retained
  <2> QED BY <1>1, <1>6, <1>7, <2>1, <2>2 DEF Retained
<1>12. Archiving'
  <2>1. CASE winning # NoWinningFrame /\ archived = winning.frame
    <3>1. winning.frame < earliest BY <1>2, <2>1
    <3>2. earliest \in 0..frame /\ snapshots[earliest] = trajectory[earliest]
      BY <1>2, <1>4 DEF PlayInv, Simulated
    <3>3. Winner(snapshots[earliest]) # NoWinner BY <2>1, <3>1, <3>2 DEF PlayInv, Decision
    <3>4. winning' = winning BY <1>6, <3>1, <3>3
    <3> QED BY <2>1, <3>4, <1>1 DEF Archiving, cursors
  <2>2. CASE archived >= Goal - 2 - MaxPrediction BY <2>2, <1>1, <1>6, <1>7 DEF Archiving, cursors
  <2> QED BY <2>1, <2>2 DEF Archiving
<1> QED BY <1>9, <1>10, <1>11, <1>12

(* Simulating again stays within the history. *)
LEMMA ResimulateKeepsHistory == ASSUME PlayInv, HistoryInv, Resimulate PROVE HistoryInv'
<1> USE WindowConstants, Numbers DEF HistoryInv, accepted
<1>1. /\ mode = "resimulating" /\ SimulateSingleFrame(local, remote, newest)
      /\ mode' = IF frame + 1 = target THEN Applied ELSE "resimulating"
      /\ UNCHANGED <<batch, earliest, target, deciding, cursors, authentic, tooLate>>
  BY DEF Resimulate
<1>2. frame < target /\ earliest = None /\ deciding \in BOOLEAN BY <1>1 DEF PlayInv, Modes
<1>3. /\ Goal' = Goal /\ mode' \in {"resimulating", "advancing", "archiving"}
      /\ mode' = "resimulating" => mode = "resimulating" BY <1>1, <1>2 DEF Goal, Busy, Applied
<1>4. frame >= Goal - 1 - MaxPrediction /\ frame < Goal /\ newest < Goal /\ newest >= -1
  BY <1>1, <1>2 DEF Window
<1>5. /\ accepted \subseteq Nat
      /\ \A f \in accepted : f >= Goal - MaxHistoryFrames => f \in DOMAIN remote
      /\ \A f \in accepted \cap DOMAIN remote : ~remote[f].predicted
      /\ \A f \in 0..frame : f >= Goal - MaxHistoryFrames => f \in DOMAIN snapshots
  BY DEF Taken, Retained
<1>6. /\ frame' = frame + 1 /\ newest' \in Int /\ newest' < Goal
      /\ \A f \in accepted : f >= Goal - MaxHistoryFrames => f \in DOMAIN remote'
      /\ \A f \in accepted \cap DOMAIN remote' : ~remote'[f].predicted
      /\ \A f \in Nat : f \in DOMAIN local /\ f >= Goal - MaxHistoryFrames => f \in DOMAIN local'
      /\ \A f \in 0..(frame + 1) : f >= Goal - MaxHistoryFrames => f \in DOMAIN snapshots'
      /\ winning # NoWinningFrame => winning' = winning BY <1>1, <1>4, <1>5, SimulationRetains
<1>7. Window' BY <1>1, <1>2, <1>3, <1>4, <1>6 DEF Window, cursors
<1>8. Taken' BY <1>1, <1>3, <1>6 DEF Taken, Window, cursors
<1>9. Retained' BY <1>1, <1>3, <1>6 DEF Retained
<1>10. Archiving' BY <1>1, <1>3, <1>6 DEF Archiving, cursors
<1> QED BY <1>7, <1>8, <1>9, <1>10

(* The frame of the turn is simulated; the call's goal is reached. *)
LEMMA AdvanceKeepsHistory == ASSUME PlayInv, HistoryInv, AdvanceFrame PROVE HistoryInv'
<1> USE WindowConstants, Numbers DEF HistoryInv, accepted
<1> DEFINE crest == Larger(newest, frame)
           own == IF frame < WindowFloor(newest) THEN local ELSE Put(local, frame, script[frame])
           floor == TrimFloor(DOMAIN own, DOMAIN remote, crest)
           mine == From(own, floor)
           peer == From(remote, floor)
<1>1. /\ mode = "advancing" /\ SimulateSingleFrame(mine, peer, crest)
      /\ target' = frame + 1 /\ mode' = "archiving"
      /\ UNCHANGED <<batch, earliest, deciding, cursors, authentic, tooLate>> BY DEF AdvanceFrame
<1>2. target = frame /\ earliest = None /\ ~deciding BY <1>1 DEF PlayInv, Modes
<1>3. Goal = target + 1 /\ Goal' = Goal /\ target' = Goal BY <1>1, <1>2 DEF Goal, Busy
<1>4. newest < Goal /\ crest \in Int /\ crest < Goal /\ crest >= -1 BY <1>2, <1>3 DEF Window, Larger
<1>5. \A f \in Nat : f >= Goal - MaxHistoryFrames => f >= floor BY <1>4, HistoryIsInWindow
<1>6. \A f \in 0..target : f >= Goal - MaxHistoryFrames => f \in DOMAIN own
  <2>1. frame \in DOMAIN own
    <3>1. ~(frame < WindowFloor(newest)) BY <1>2, <1>3, <1>4, HistoryIsInWindow
    <3> QED BY <3>1 DEF Put
  <2>2. DOMAIN local \subseteq DOMAIN own BY DEF Put
  <2>3. \A f \in 0..target : f \in 0..(target - 1) \/ f = frame BY <1>2
  <2> HIDE DEF own
  <2> QED BY <2>1, <2>2, <2>3 DEF Retained
<1> HIDE DEF own, crest, floor
<1>7. \A f \in 0..target : f >= Goal - MaxHistoryFrames => f \in DOMAIN mine BY <1>5, <1>6 DEF From
<1>8. /\ accepted \subseteq Nat
      /\ \A f \in accepted : f >= Goal - MaxHistoryFrames => f \in DOMAIN peer
      /\ \A f \in accepted \cap DOMAIN peer : ~peer[f].predicted BY <1>5 DEF From, Taken, Retained
<1>9. \A f \in 0..frame : f >= Goal - MaxHistoryFrames => f \in DOMAIN snapshots BY DEF Retained
<1> HIDE DEF mine, peer
<1>10. /\ frame' = frame + 1 /\ newest' \in Int /\ newest' < Goal
       /\ \A f \in accepted : f >= Goal - MaxHistoryFrames => f \in DOMAIN remote'
       /\ \A f \in accepted \cap DOMAIN remote' : ~remote'[f].predicted
       /\ \A f \in Nat : f \in DOMAIN mine /\ f >= Goal - MaxHistoryFrames => f \in DOMAIN local'
       /\ \A f \in 0..(frame + 1) : f >= Goal - MaxHistoryFrames => f \in DOMAIN snapshots'
       /\ winning # NoWinningFrame => winning' = winning
  BY <1>1, <1>2, <1>3, <1>4, <1>8, <1>9, SimulationRetains
<1>11. Window' BY <1>1, <1>2, <1>3, <1>10 DEF Window, cursors
<1>12. Taken' BY <1>1, <1>3, <1>10 DEF Taken, Window, cursors
<1>13. Retained'
  <2>1. \A f \in 0..(target' - 1) : f \in 0..target BY <1>3
  <2> QED BY <1>1, <1>3, <1>7, <1>10, <2>1 DEF Retained
<1>14. Archiving' BY <1>1, <1>3, <1>10 DEF Archiving, cursors
<1> QED BY <1>11, <1>12, <1>13, <1>14

(* Every frame to be archived is there, with both inputs and its state. *)
LEMMA ArchiveKeepsHistory == ASSUME PlayInv, HistoryInv, ArchiveFrame PROVE HistoryInv'
<1> USE WindowConstants, Numbers DEF HistoryInv, accepted
<1>1. /\ mode = "archiving" /\ archived < ReplayLimit
      /\ archived' = IF Archivable(archived + 1) THEN archived + 1 ELSE archived
      /\ mode' = IF Archivable(archived + 1) THEN mode ELSE "failed"
      /\ UNCHANGED <<frame, snapshots, timeline, winning, batch, earliest, target, deciding, exchanged, confirmed, observed>>
  BY DEF ArchiveFrame
<1>2. target = frame /\ Goal = target /\ batch = {} BY <1>1 DEF PlayInv, Modes, Goal, Busy, Window
<1>3. archived + 1 <= exchanged /\ archived + 1 < frame /\ (winning # NoWinningFrame => archived # winning.frame)
  <2>1. winning # NoWinningFrame => winning.frame \in Int BY DEF PlayInv, Decision
  <2> QED BY <1>1, <2>1 DEF ReplayLimit, Smaller
<1>4. archived >= Goal - 2 - MaxPrediction BY <1>3 DEF Archiving
<1>5. /\ archived + 1 \in 0..(target - 1) /\ archived + 2 \in 0..frame /\ archived + 1 \in 0..exchanged
      /\ archived + 1 >= Goal - MaxHistoryFrames /\ archived + 2 >= Goal - MaxHistoryFrames
  BY <1>2, <1>3, <1>4
<1>6. archived + 1 \in DOMAIN local /\ archived + 2 \in DOMAIN snapshots BY <1>5 DEF Retained
<1>7. archived + 1 \in accepted BY <1>1, <1>2, <1>5 DEF Taken
<1>8. archived + 1 \in DOMAIN remote /\ ~remote[archived + 1].predicted
  BY <1>5, <1>7 DEF Retained, Taken
<1>9. Archivable(archived + 1)
  <2>1. archived + 1 + 1 = archived + 2 OBVIOUS
  <2> QED BY <1>6, <1>8, <2>1 DEF Archivable
<1>10. mode' = mode /\ archived' = archived + 1 /\ Goal' = Goal BY <1>1, <1>9 DEF Goal, Busy
<1>11. Window' /\ Taken' BY <1>1, <1>10 DEF Window, Taken, timeline, observed
<1>12. Retained' /\ Archiving' BY <1>1, <1>4, <1>10 DEF Retained, Archiving, timeline, observed
<1> QED BY <1>11, <1>12

(* A call ends with everything archived that it can. *)
LEMMA EndCallKeepsHistory == ASSUME PlayInv, HistoryInv, EndCall PROVE HistoryInv'
<1> USE WindowConstants, Numbers DEF HistoryInv, accepted
<1>1. /\ mode = "archiving" /\ archived >= ReplayLimit
      /\ mode' \in {"committed", "idle", "looping"}
      /\ UNCHANGED <<frame, snapshots, timeline, winning, batch, earliest, target, cursors, observed>>
  BY DEF EndCall
<1>2. target = frame /\ Goal = target /\ Goal' = target /\ batch = {}
  BY <1>1 DEF PlayInv, Modes, Goal, Busy, Window
<1>3. Window' /\ Taken' BY <1>1, <1>2 DEF Window, Taken, timeline, cursors, observed
<1>4. Retained' BY <1>1, <1>2 DEF Retained, timeline, observed
<1>5. Archiving'
  <2>1. exchanged >= Goal - 1 - MaxPrediction /\ frame - 1 >= Goal - 1 - MaxPrediction
    BY <1>2 DEF Window
  <2>2. CASE winning = NoWinningFrame
    <3>1. archived >= Goal - 1 - MaxPrediction BY <1>1, <2>1, <2>2 DEF ReplayLimit, Smaller
    <3> QED BY <3>1, <1>1, <1>2 DEF Archiving, cursors
  <2>3. CASE winning # NoWinningFrame
    <3>1. winning.frame \in Int /\ archived <= winning.frame BY <2>3 DEF PlayInv, Decision
    <3>2. archived = winning.frame \/ archived >= Goal - 1 - MaxPrediction
      BY <1>1, <2>1, <2>3, <3>1 DEF ReplayLimit, Smaller
    <3> QED BY <2>3, <3>2, <1>1, <1>2 DEF Archiving, cursors
  <2> QED BY <2>2, <2>3
<1> QED BY <1>3, <1>4, <1>5

(* The remaining steps move no frame. *)
LEMMA OtherKeepsHistory ==
    ASSUME PlayInv, HistoryInv, NothingChanged \/ Exchange \/ Confirm \/ UNCHANGED vars
    PROVE  HistoryInv'
<1> USE WindowConstants, Numbers DEF HistoryInv, accepted
<1>1. CASE NothingChanged
  <2>1. /\ mode = "applying" /\ batch = {} /\ earliest = None
        /\ mode' = Applied
        /\ UNCHANGED <<frame, snapshots, timeline, winning, batch, earliest, target, deciding, cursors, observed>>
    BY <1>1 DEF NothingChanged, Window
  <2>2. deciding \in BOOLEAN /\ Goal' = Goal BY <2>1 DEF PlayInv, Modes, Goal, Busy, Applied
  <2>3. Window' /\ Taken' BY <2>1, <2>2 DEF Window, Taken, Applied, timeline, cursors, observed
  <2>4. Retained' /\ Archiving'
    BY <2>1, <2>2 DEF Retained, Archiving, Applied, timeline, cursors, observed
  <2> QED BY <2>3, <2>4
<1>2. CASE Exchange \/ Confirm
  <2>1. /\ mode = "idle" /\ confirmed' >= confirmed /\ confirmed' \in Int
        /\ UNCHANGED <<session, archived, observed>> BY <1>2 DEF Exchange, Confirm
  <2>2. Goal' = Goal BY <2>1 DEF Goal, Busy, session
  <2>3. Window' /\ Taken' BY <2>1, <2>2 DEF Window, Taken, session, timeline, observed
  <2>4. Retained' /\ Archiving' BY <2>1, <2>2 DEF Retained, Archiving, session, timeline, observed
  <2> QED BY <2>3, <2>4
<1>3. CASE UNCHANGED vars
  <2>1. UNCHANGED <<session, cursors, observed>> BY <1>3 DEF vars
  <2>2. Goal' = Goal BY <2>1 DEF Goal, Busy, session
  <2>3. Window' /\ Taken' BY <2>1, <2>2 DEF Window, Taken, session, timeline, cursors, observed
  <2>4. Retained' /\ Archiving'
    BY <2>1, <2>2 DEF Retained, Archiving, session, timeline, cursors, observed
  <2> QED BY <2>3, <2>4
<1> QED BY <1>1, <1>2, <1>3

(* The history invariant is inductive. *)
LEMMA HistoryInvNext == PlayInv /\ HistoryInv /\ [Next]_vars => HistoryInv'
<1> SUFFICES ASSUME PlayInv, HistoryInv, [Next]_vars PROVE HistoryInv' OBVIOUS
<1>1. CASE \E input \in Input, frames \in SUBSET (0..frame) : BeginFrame(input, frames)
  BY <1>1, BeginKeepsHistory
<1>2. CASE \E frames \in SUBSET (0..frame) : BeginResolution(frames) BY <1>2, BeginKeepsHistory
<1>3. CASE \E f \in batch, value \in Input : ApplyEntry(f, value) BY <1>3, ApplyKeepsHistory
<1>4. CASE Rollback BY <1>4, RollbackKeepsHistory
<1>5. CASE Resimulate BY <1>5, ResimulateKeepsHistory
<1>6. CASE AdvanceFrame BY <1>6, AdvanceKeepsHistory
<1>7. CASE ArchiveFrame BY <1>7, ArchiveKeepsHistory
<1>8. CASE EndCall BY <1>8, EndCallKeepsHistory
<1>9. CASE NothingChanged \/ Exchange \/ Confirm \/ UNCHANGED vars BY <1>9, OtherKeepsHistory
<1> QED BY <1>1, <1>2, <1>3, <1>4, <1>5, <1>6, <1>7, <1>8, <1>9 DEF Next

(* No input within the prediction window comes too late, no snapshot that a  *)
(* correction needs has expired, and every frame to be archived is there:    *)
(* a match is never interrupted for want of history, for every window that   *)
(* is shorter than the history (rollbackAndResimulate, upsert, trimToWindow, *)
(* recordSynchronizedOnlineReplayFrames).                                    *)
THEOREM HistorySufficesHolds == Spec => []HistorySuffices
<1>1. PlayInv /\ HistoryInv => HistorySuffices BY DEF HistoryInv, Window, HistorySuffices
<1> QED BY <1>1, HistoryInvInit, HistoryInvNext, PlayHolds, PTL DEF Spec

(* A round is committed with its first decisive frame and its winner, the  *)
(* archive holds it exactly through that frame, and no archive runs past   *)
(* it (recordSynchronizedOnlineReplayFrames, updateOnlineRoundResolution). *)
THEOREM RoundEndsAtFirstDecisionHolds == Spec => []RoundEndsAtFirstDecision
<1>1. ASSUME PlayInv PROVE RoundEndsAtFirstDecision
  <2> DEFINE decisive == {f \in 0..archived : Winner(trajectory[f + 1]) # NoWinner}
  <2>1. frame \in Nat /\ archived \in Int /\ archived < frame BY <1>1 DEF PlayInv, Counters
  <2>2. \A f \in 0..archived : f + 1 \in 0..frame BY <2>1
  <2>3. ASSUME NEW f \in decisive PROVE f = archived /\ winning # NoWinningFrame
    <3>1. f \in 0..archived /\ Winner(trajectory[f + 1]) # NoWinner BY <2>3
    <3>2. winning # NoWinningFrame /\ winning.frame < f + 1
      BY <3>1, <2>2, <1>1 DEF PlayInv, Decision
    <3>3. winning.frame \in 0..(frame - 1) /\ archived <= winning.frame
      BY <3>2, <1>1 DEF PlayInv, Decision
    <3> QED BY <3>1, <3>2, <3>3, <2>1
  <2>4. ASSUME mode = "committed"
        PROVE  winning.frame \in decisive /\ winning.winner = Winner(trajectory[winning.frame + 1])
    <3>1. /\ winning # NoWinningFrame /\ archived = winning.frame
          /\ winning.frame \in 0..(frame - 1)
          /\ winning.winner = Winner(trajectory[winning.frame + 1])
      BY <2>4, <1>1 DEF PlayInv, Decision
    <3>2. winning.frame + 1 \in 0..frame /\ winning.frame < winning.frame + 1 /\ winning.frame \in 0..archived
      BY <3>1, <2>1
    <3>3. Winner(trajectory[winning.frame + 1]) # NoWinner BY <3>1, <3>2, <1>1 DEF PlayInv, Decision
    <3> QED BY <3>1, <3>2, <3>3
  <2>5. mode = "committed" => archived = winning.frame BY <1>1 DEF PlayInv, Decision
  <2> QED BY <2>3, <2>4, <2>5 DEF RoundEndsAtFirstDecision
<1> QED BY <1>1, PlayHolds, PTL

(* No step takes back what is archived. *)
LEMMA PastStays == ASSUME PlayInv, Authentic, [Next]_vars PROVE Past
<1> USE DEF PlayInv
<1>1. /\ frame \in Nat /\ archived \in Int /\ archived >= -1 /\ archived < frame
      /\ DOMAIN trajectory = 0..frame
      /\ 0..archived \subseteq DOMAIN script /\ 0..archived \subseteq DOMAIN authentic
  BY DEF Counters, Simulated, Scripted, Authentic
<1>2. ASSUME NEW own, NEW peer, NEW top, SimulateSingleFrame(own, peer, top)
      PROVE  \A f \in 0..(archived + 1) : trajectory'[f] = trajectory[f]
  <2> DEFINE next == Simulate(snapshots[frame], IF frame \in DOMAIN own THEN own[frame] ELSE Neutral,
                              Resolved(peer, frame).input)
  <2>1. trajectory' = Put(trajectory, frame + 1, next) BY <1>2 DEF SimulateSingleFrame
  <2> HIDE DEF next
  <2> QED BY <2>1, <1>1 DEF Put
<1>3. ASSUME NEW input \in Input, NEW frames \in SUBSET (0..frame), BeginFrame(input, frames) PROVE Past
  <2>1. script' = Put(script, frame, input) /\ UNCHANGED <<trajectory, authentic>>
    BY <1>3 DEF BeginFrame
  <2> QED BY <2>1, <1>1 DEF Put, Past
<1>4. ASSUME NEW f \in batch, NEW value \in Input, ApplyEntry(f, value) PROVE Past
  <2> DEFINE known == f \in DOMAIN remote /\ ~remote[f].predicted
             ignored == f < WindowFloor(newest)
  <2>1. UNCHANGED <<trajectory, script>> BY <1>4 DEF ApplyEntry
  <2>2. CASE known \/ ignored
    <3>1. authentic' = authentic BY <1>4, <2>2 DEF ApplyEntry
    <3> QED BY <2>1, <3>1 DEF Past
  <2>3. CASE ~(known \/ ignored)
    <3>1. authentic' = Put(authentic, f, value) BY <1>4, <2>3 DEF ApplyEntry
    <3>2. f \in Nat /\ f > archived BY <2>3, <1>1, TakenIsOpen DEF Counters
    <3> QED BY <2>1, <3>1, <3>2, <1>1 DEF Put, Past
  <2> QED BY <2>2, <2>3
<1>5. ASSUME Rollback PROVE Past
  <2>1. earliest \in Nat /\ archived < earliest /\ earliest < frame /\ UNCHANGED <<script, authentic>>
    BY <1>5 DEF Rollback, Counters
  <2>2. trajectory' = UpTo(trajectory, earliest) \/ trajectory' = trajectory
    BY <1>5 DEF Rollback, RestoreSnapshot
  <2> QED BY <2>1, <2>2, <1>1 DEF UpTo, Past
<1>6. ASSUME Resimulate \/ AdvanceFrame PROVE Past
  <2>1. UNCHANGED <<script, authentic>> BY <1>6 DEF Resimulate, AdvanceFrame
  <2>2. \A f \in 0..(archived + 1) : trajectory'[f] = trajectory[f]
    BY <1>2, <1>6 DEF Resimulate, AdvanceFrame
  <2> QED BY <2>1, <2>2 DEF Past
<1>7. ASSUME UNCHANGED observed PROVE Past BY <1>7 DEF observed, Past
<1>8. CASE \E frames \in SUBSET (0..frame) : BeginResolution(frames)
  BY <1>7, <1>8 DEF BeginResolution
<1>9. CASE NothingChanged \/ ArchiveFrame \/ EndCall \/ Exchange \/ Confirm \/ UNCHANGED vars
  BY <1>7, <1>9 DEF NothingChanged, ArchiveFrame, EndCall, Exchange, Confirm, vars
<1> QED BY <1>3, <1>4, <1>5, <1>6, <1>8, <1>9 DEF Next

(* Only the archive loop moves the archive, by a frame whose inputs are    *)
(* known and whose state follows from them.                                *)
LEMMA ArchiveMoves ==
    ASSUME PlayInv, [Next]_vars, archived' # archived
    PROVE  /\ archived' = archived + 1 /\ archived \in Int /\ archived >= -1
           /\ archived + 1 \in DOMAIN authentic
           /\ script[archived + 1] \in Input /\ authentic[archived + 1] \in Input
           /\ trajectory[archived + 2] = Simulate(trajectory[archived + 1], script[archived + 1], authentic[archived + 1])
           /\ UNCHANGED observed
<1> USE DEF PlayInv
<1>1. ASSUME UNCHANGED archived PROVE FALSE BY <1>1
<1>2. ASSUME NEW input, NEW frames, BeginFrame(input, frames) PROVE UNCHANGED archived
  BY <1>2 DEF BeginFrame, cursors
<1>3. ASSUME NEW frames, BeginResolution(frames) PROVE UNCHANGED archived
  BY <1>3 DEF BeginResolution, cursors
<1>4. ASSUME NEW f, NEW value, ApplyEntry(f, value) PROVE UNCHANGED archived
  BY <1>4 DEF ApplyEntry, cursors
<1>5. ASSUME Rollback \/ NothingChanged \/ Resimulate \/ AdvanceFrame PROVE UNCHANGED archived
  BY <1>5 DEF Rollback, NothingChanged, Resimulate, AdvanceFrame, cursors
<1>6. ASSUME EndCall \/ Exchange \/ Confirm \/ UNCHANGED vars PROVE UNCHANGED archived
  BY <1>6 DEF EndCall, Exchange, Confirm, vars, cursors
<1>7. ArchiveFrame BY <1>1, <1>2, <1>3, <1>4, <1>5, <1>6 DEF Next
<1>8. /\ archived' = archived + 1 /\ Archivable(archived + 1) /\ UNCHANGED observed
      /\ mode = "archiving" /\ archived < ReplayLimit BY <1>7 DEF ArchiveFrame
<1>9. /\ archived \in Int /\ archived >= -1 /\ frame \in Nat /\ earliest = None /\ exchanged \in Int
  BY <1>8 DEF Counters, Modes
<1>10. archived + 1 < frame
  <2>1. winning # NoWinningFrame => winning.frame \in 0..(frame - 1) BY DEF Decision
  <2> QED BY <2>1, <1>8, <1>9 DEF ReplayLimit, Smaller
<1>11. /\ archived + 1 \in DOMAIN local /\ archived + 1 \in DOMAIN remote
       /\ ~remote[archived + 1].predicted
       /\ archived + 1 \in 0..(frame - 1) BY <1>8, <1>9, <1>10 DEF Archivable
<1>12. /\ archived + 1 \in DOMAIN authentic
       /\ authentic[archived + 1] = remote[archived + 1].input
       /\ authentic[archived + 1] \in Input BY <1>11 DEF PeerInputs, Scripted
<1>13. used[archived + 1] = authentic[archived + 1] BY <1>8, <1>9, <1>10, <1>11, <1>12 DEF Simulated
<1>14. trajectory[(archived + 1) + 1] = Simulate(trajectory[archived + 1], script[archived + 1], used[archived + 1])
  BY <1>11 DEF Simulated
<1>15. script[archived + 1] \in Input BY <1>11 DEF OwnInputs, Scripted
<1>16. (archived + 1) + 1 = archived + 2 BY <1>9
<1> QED BY <1>8, <1>9, <1>12, <1>13, <1>14, <1>15, <1>16

(* What is archived stays authentic. *)
LEMMA AuthenticHolds == Spec => []Authentic
<1>1. Init => Authentic BY DEF Init, Authentic, None
<1>2. PlayInv /\ Authentic /\ [Next]_vars => Authentic'
  <2> SUFFICES ASSUME PlayInv, Authentic, [Next]_vars PROVE Authentic' OBVIOUS
  <2>1. DOMAIN authentic \subseteq DOMAIN authentic'
    <3>1. ASSUME NEW f, NEW value, ApplyEntry(f, value) PROVE DOMAIN authentic \subseteq DOMAIN authentic'
      BY <3>1 DEF ApplyEntry, Put
    <3>2. ASSUME NEW input, NEW frames, BeginFrame(input, frames) PROVE UNCHANGED authentic
      BY <3>2 DEF BeginFrame
    <3>3. ASSUME NEW frames, BeginResolution(frames) PROVE UNCHANGED authentic
      BY <3>3 DEF BeginResolution, observed
    <3>4. ASSUME Rollback \/ NothingChanged \/ Resimulate \/ AdvanceFrame PROVE UNCHANGED authentic
      BY <3>4 DEF Rollback, NothingChanged, Resimulate, AdvanceFrame, observed
    <3>5. ASSUME ArchiveFrame \/ EndCall \/ Exchange \/ Confirm \/ UNCHANGED vars PROVE UNCHANGED authentic
      BY <3>5 DEF ArchiveFrame, EndCall, Exchange, Confirm, vars, observed
    <3> QED BY <3>1, <3>2, <3>3, <3>4, <3>5 DEF Next
  <2>2. CASE archived' = archived BY <2>1, <2>2 DEF Authentic
  <2>3. CASE archived' # archived
    <3>1. archived' = archived + 1 /\ archived \in Int /\ archived >= -1 /\ archived + 1 \in DOMAIN authentic
      BY <2>3, ArchiveMoves
    <3>2. \A f \in 0..(archived + 1) : f \in 0..archived \/ f = archived + 1 BY <3>1
    <3> QED BY <2>1, <3>1, <3>2 DEF Authentic
  <2> QED BY <2>2, <2>3
<1> QED BY <1>1, <1>2, PlayHolds, PTL DEF Spec

(* The archived round is a lock-step play of both players' true inputs:    *)
(* every archived state follows from the one before it by the inputs the   *)
(* two players made, and no rollback ever takes one back.                  *)
THEOREM ArchiveImplementsLockstep == Spec => ImplementsLockstep
<1> USE Constants
<1>1. Init => Lockstep!Init
  <2> SUFFICES ASSUME Init PROVE Lockstep!Init OBVIOUS
  <2>1. archived = -1 /\ trajectory = [f \in {0} |-> InitialState] BY DEF Init, None
  <2>2. 0..(archived + 1) = {0} /\ 0..archived = {} BY <2>1
  <2> QED BY <2>1, <2>2 DEF Lockstep!Init
<1>2. PlayInv /\ Authentic /\ [Next]_vars => [Lockstep!Settle]_Lockstep!play
  <2> SUFFICES ASSUME PlayInv, Authentic, [Next]_vars PROVE Lockstep!Settle \/ UNCHANGED Lockstep!play
    OBVIOUS
  <2>1. Past BY PastStays
  <2>2. CASE archived' = archived
    <3>1. [f \in 0..(archived' + 1) |-> trajectory'[f]] = [f \in 0..(archived + 1) |-> trajectory[f]]
      BY <2>1, <2>2 DEF Past
    <3>2. [f \in 0..archived' |-> [local |-> script'[f], remote |-> authentic'[f]]]
            = [f \in 0..archived |-> [local |-> script[f], remote |-> authentic[f]]]
      BY <2>1, <2>2 DEF Past
    <3> QED BY <2>2, <3>1, <3>2 DEF Lockstep!play
  <2>3. CASE archived' # archived
    <3>1. /\ archived' = archived + 1 /\ archived \in Int /\ archived >= -1
          /\ script[archived + 1] \in Input /\ authentic[archived + 1] \in Input
          /\ trajectory[archived + 2] = Simulate(trajectory[archived + 1], script[archived + 1], authentic[archived + 1])
          /\ UNCHANGED <<script, authentic, trajectory>> BY <2>3, ArchiveMoves DEF observed
    <3>2. archived + 1 + 1 = archived + 2 BY <3>1
    <3> DEFINE settled2 == archived' + 1
               states1 == [f \in 0..(archived + 1) |-> trajectory[f]]
               states2 == [f \in 0..(archived' + 1) |-> trajectory'[f]]
               moves1 == [f \in 0..archived |-> [local |-> script[f], remote |-> authentic[f]]]
               moves2 == [f \in 0..archived' |-> [local |-> script'[f], remote |-> authentic'[f]]]
    <3>3. settled2 = archived + 1 + 1 /\ DOMAIN states2 = 0..settled2 /\ DOMAIN moves2 = 0..(archived + 1)
      BY <3>1
    <3>4. \A f \in 0..(archived + 1) : states2[f] = states1[f] BY <3>1
    <3>5. \A f \in 0..(archived + 1 - 1) : moves2[f] = moves1[f] BY <3>1
    <3>6. moves2[archived + 1].local = script[archived + 1] /\ moves2[archived + 1].remote = authentic[archived + 1]
      BY <3>1
    <3>7. states2[settled2] = trajectory[archived + 2] /\ states1[archived + 1] = trajectory[archived + 1]
      BY <3>1, <3>2
    <3> QED BY <3>1, <3>2, <3>3, <3>4, <3>5, <3>6, <3>7 DEF Lockstep!Settle
  <2> QED BY <2>2, <2>3
<1> QED BY <1>1, <1>2, PlayHolds, AuthenticHolds, PTL DEF Spec, ImplementsLockstep, Lockstep!Spec

-----------------------------------------------------------------------------
(* InputCommitments: the recorder, the server and what is between them. *)

(* The constants that the recorder depends on. *)
LEMMA CommitConstants ==
    /\ MaxFrames \in Nat \ {0} /\ Guard \in Nat \ {0} /\ Transition \in Nat
    /\ Log!Burst = MaxFrames + Guard /\ Log!PredictionWindow = Guard - 1
    /\ Log!None \notin [epoch : Int, start : Int, inputs : Nat]
    /\ DOMAIN Log!None = {"epoch"}
  BY PlayAssumption DEF Log!CommitmentAssumption, Log!Burst, Log!PredictionWindow, Log!None

(* What concatenation keeps of its operands. *)
LEMMA Joined ==
    ASSUME NEW S, NEW s \in Seq(S), NEW u \in Seq(S)
    PROVE  /\ s \o u \in Seq(S) /\ Len(s \o u) = Len(s) + Len(u)
           /\ \A i \in 1..Len(s) : (s \o u)[i] = s[i]
           /\ \A i \in 1..Len(u) : (s \o u)[Len(s) + i] = u[i] OBVIOUS

(* A bounded set of numbers has a greatest one. *)
LEMMA Greatest ==
    ASSUME NEW n \in Nat, NEW T \in SUBSET (0..n), T # {}
    PROVE  \E m \in T : \A k \in T : k <= m
<1> DEFINE U == {n - k : k \in T}
<1>1. U \in SUBSET Nat /\ U # {}
  <2>1. \A k \in T : k \in Nat /\ n - k \in Nat OBVIOUS
  <2>2. PICK k \in T : TRUE OBVIOUS
  <2>3. n - k \in U BY <2>2
  <2> QED BY <2>1, <2>3
<1>2. IsWellFoundedOn(OpToRel(<, Nat), Nat) BY NatLessThanWellFounded
<1> HIDE DEF U
<1>3. PICK m \in U : \A k \in U : ~ (<<k, m>> \in OpToRel(<, Nat)) BY <1>1, <1>2, WFMin
<1>4. \A k \in U : k < m => <<k, m>> \in OpToRel(<, Nat) BY <1>1, <1>3 DEF OpToRel
<1>5. \A k \in U : ~ (k < m) BY <1>3, <1>4, Zenon
<1>6. PICK g \in T : m = n - g BY <1>3 DEF U
<1>7. \A k \in T : n - k \in U /\ k \in Int /\ n - k \in Int BY DEF U
<1>8. \A k \in T : k <= g BY <1>5, <1>6, <1>7
<1> QED BY <1>8

(* As many chunks leave the open round as the guard and the archive allow, *)
(* and not one less.                                                       *)
LEMMA SealableIs ==
    ASSUME NEW round \in [epoch : Int, start : Int, inputs : Nat], NEW through \in Int
    PROVE  LET n == Log!Sealable(round, through) IN
           /\ n \in Nat
           /\ n > 0 => /\ round.inputs - (n - 1) * MaxFrames >= MaxFrames + Guard
                       /\ round.start + n * MaxFrames - 1 < through
           /\ round.inputs - n * MaxFrames >= 0
           /\ \/ round.inputs - n * MaxFrames < MaxFrames + Guard
              \/ round.start + (n + 1) * MaxFrames - 1 >= through
<1> DEFINE may(n) == /\ round.inputs - (n - 1) * MaxFrames >= MaxFrames + Guard
                     /\ round.start + n * MaxFrames - 1 < through
           S == {n \in 0..round.inputs : \A m \in 1..n : may(m)}
<1>1. round.inputs \in Nat /\ round.start \in Int /\ MaxFrames \in Nat \ {0} /\ Guard \in Nat \ {0}
  BY CommitConstants
<1>2. Log!Sealable(round, through) = Log!Max(S) BY CommitConstants DEF Log!Sealable
<1>3. S \in SUBSET (0..round.inputs) /\ 0 \in S BY <1>1
<1>4. PICK n \in S : \A k \in S : k <= n
  <2> HIDE DEF S
  <2> QED BY <1>1, <1>3, Greatest
<1>5. Log!Max(S) = n
  <2> HIDE DEF S
  <2>1. S \subseteq Int BY <1>1, <1>3
  <2>2. n \in S /\ \A k \in S : n >= k BY <1>4, <2>1
  <2>3. \A m \in S : (\A k \in S : m >= k) => m = n BY <2>1, <2>2
  <2> QED BY <2>2, <2>3 DEF Log!Max
<1>6. n \in Nat /\ n <= round.inputs /\ \A m \in 1..n : may(m) BY <1>4, <1>1
<1>7. ASSUME n > 0 PROVE may(n)
  <2>1. n \in 1..n BY <1>6, <1>7
  <2> QED BY <1>6, <2>1
<1>8. (n - 1) * MaxFrames = n * MaxFrames - MaxFrames /\ (n + 1) * MaxFrames = n * MaxFrames + MaxFrames
      /\ n * MaxFrames \in Nat /\ n * MaxFrames >= n BY <1>1, <1>6
<1>9. n + 1 \notin S
  <2> HIDE DEF S
  <2> QED BY <1>4, <1>6
<1>10. CASE n = round.inputs
  <2>1. round.inputs - n * MaxFrames < MaxFrames + Guard BY <1>1, <1>8, <1>10
  <2>2. n = 0
    <3> SUFFICES ASSUME n > 0 PROVE FALSE BY <1>6
    <3>1. round.inputs - (n - 1) * MaxFrames >= MaxFrames + Guard BY <1>7
    <3> QED BY <3>1, <1>1, <1>8, <1>10
  <2>3. round.inputs - n * MaxFrames >= 0 BY <2>2, <1>1, <1>10, <1>8
  <2> QED BY <1>2, <1>5, <1>6, <2>1, <2>2, <2>3
<1>11. CASE n # round.inputs
  <2>1. n + 1 \in 0..round.inputs BY <1>1, <1>6, <1>11
  <2>2. PICK m \in 1..(n + 1) : ~may(m) BY <1>9, <2>1
  <2>3. m = n + 1 BY <1>6, <2>2
  <2>4. \/ round.inputs - n * MaxFrames < MaxFrames + Guard
        \/ round.start + (n + 1) * MaxFrames - 1 >= through BY <1>1, <1>6, <1>8, <2>2, <2>3
  <2>5. round.inputs - n * MaxFrames >= 0
    <3>1. CASE n = 0 BY <3>1, <1>1, <1>8
    <3>2. CASE n > 0 BY <3>2, <1>1, <1>7, <1>8
    <3> QED BY <3>1, <3>2, <1>6
  <2> QED BY <1>2, <1>5, <1>6, <1>7, <2>4, <2>5
<1> QED BY <1>10, <1>11

(* The full chunks of a round follow one another. *)
LEMMA FullChunksAre ==
    ASSUME NEW round \in [epoch : Int, start : Int, inputs : Nat], NEW n \in Nat, nextSequence \in Int
    PROVE  LET cs == Log!FullChunks(round, n) IN
           /\ cs \in Seq(Chunks) /\ Len(cs) = n
           /\ \A i \in 1..n : cs[i] = FullChunk(round, i)
<1> USE CommitConstants
<1>1. ASSUME NEW i \in 1..n
      PROVE  /\ Log!FullChunks(round, n)[i] = FullChunk(round, i)
             /\ Log!FullChunks(round, n)[i] \in Chunks
  <2> DEFINE cut == [round EXCEPT !.start = @ + (i - 1) * MaxFrames]
  <2>1. cut.epoch = round.epoch /\ cut.start = round.start + (i - 1) * MaxFrames OBVIOUS
  <2>2. (i - 1) * MaxFrames + MaxFrames = i * MaxFrames /\ (i - 1) * MaxFrames \in Int /\ i * MaxFrames \in Int
    BY <1>1
  <2>3. Log!FullChunks(round, n)[i] = Log!Chunk(cut, nextSequence + i - 1, MaxFrames, FALSE)
    BY <1>1 DEF Log!FullChunks
  <2> HIDE DEF cut
  <2>4. cut.start + MaxFrames - 1 = round.start + i * MaxFrames - 1 BY <2>1, <2>2
  <2>5. Log!FullChunks(round, n)[i] = FullChunk(round, i)
    BY <2>1, <2>3, <2>4 DEF Log!Chunk, FullChunk
  <2>6. /\ nextSequence + i - 1 \in Int /\ round.epoch \in Int
        /\ round.start + (i - 1) * MaxFrames \in Int /\ round.start + i * MaxFrames - 1 \in Int
    BY <1>1, <2>2
  <2> QED BY <2>5, <2>6 DEF Chunks, FullChunk
<1> DEFINE cs == Log!FullChunks(round, n)
<1>2. cs = [i \in 1..n |-> cs[i]] BY DEF Log!FullChunks
<1> HIDE DEF cs
<1>3. \A i \in 1..n : cs[i] \in Chunks BY <1>1 DEF cs
<1>4. cs \in Seq(Chunks) /\ Len(cs) = n BY <1>2, <1>3
<1> QED BY <1>1, <1>4 DEF cs

(* The chunks that close a round: the full ones and what is left. *)
LEMMA FinalChunksAre ==
    ASSUME NEW round \in [epoch : Int, start : Int, inputs : Nat], round.inputs >= 1, nextSequence \in Int
    PROVE  LET cs == Log!FinalChunks(round) IN
           /\ cs \in Seq(Chunks) /\ Len(cs) >= 1
           /\ \A i \in 1..Len(cs) :
                 /\ cs[i].sequence = nextSequence + i - 1 /\ cs[i].epoch = round.epoch
                 /\ cs[i].start = round.start + (i - 1) * MaxFrames
                 /\ i < Len(cs) => ~cs[i].final /\ cs[i].end = round.start + i * MaxFrames - 1
           /\ cs[Len(cs)].final /\ cs[Len(cs)].end = round.start + round.inputs - 1
           /\ (Len(cs) - 1) * MaxFrames <= round.inputs - 1
<1> USE CommitConstants
<1> DEFINE n == (round.inputs - 1) \div MaxFrames
           full == Log!FullChunks(round, n)
           cut == [round EXCEPT !.start = @ + n * MaxFrames]
           last == Log!Chunk(cut, nextSequence + n, round.inputs - n * MaxFrames, TRUE)
           cs == Log!FinalChunks(round)
<1>1. n \in Nat OBVIOUS
<1>2. cs = Append(full, last) BY DEF Log!FinalChunks
<1>3. n * MaxFrames \in Int BY <1>1
<1>4. cut.epoch = round.epoch /\ cut.start = round.start + n * MaxFrames OBVIOUS
<1> HIDE DEF cut
<1>5. cut.start + (round.inputs - n * MaxFrames) - 1 = round.start + round.inputs - 1 BY <1>3, <1>4
<1>6. last = [sequence |-> nextSequence + n, epoch |-> round.epoch, start |-> round.start + n * MaxFrames,
              end |-> round.start + round.inputs - 1, final |-> TRUE] BY <1>4, <1>5 DEF Log!Chunk
<1>7. last \in Chunks
  <2>1. /\ nextSequence + n \in Int /\ round.epoch \in Int /\ round.start + n * MaxFrames \in Int
        /\ round.start + round.inputs - 1 \in Int BY <1>1, <1>3
  <2> HIDE DEF last, n
  <2> QED BY <1>6, <2>1 DEF Chunks
<1>8. /\ full \in Seq(Chunks) /\ Len(full) = n
      /\ \A i \in 1..n : full[i] = FullChunk(round, i)
  <2> HIDE DEF n
  <2> QED BY <1>1, FullChunksAre
<1> HIDE DEF n, full, last, cs
<1>9. cs \in Seq(Chunks) /\ Len(cs) = n + 1 /\ cs[n + 1] = last /\ \A i \in 1..n : cs[i] = full[i]
  BY <1>1, <1>2, <1>7, <1>8
<1>10. ASSUME NEW i \in 1..Len(cs)
       PROVE  /\ cs[i].sequence = nextSequence + i - 1 /\ cs[i].epoch = round.epoch
              /\ cs[i].start = round.start + (i - 1) * MaxFrames
              /\ i < Len(cs) => ~cs[i].final /\ cs[i].end = round.start + i * MaxFrames - 1
  <2>1. CASE i = n + 1 BY <1>1, <1>6, <1>9, <2>1
  <2>2. CASE i # n + 1
    <3>1. i \in 1..n BY <1>1, <1>9, <1>10, <2>2
    <3> QED BY <3>1, <1>8, <1>9 DEF FullChunk
  <2> QED BY <2>1, <2>2
<1>11. cs[Len(cs)].final /\ cs[Len(cs)].end = round.start + round.inputs - 1 /\ Len(cs) >= 1
  BY <1>1, <1>6, <1>9
<1>12. (Len(cs) - 1) * MaxFrames <= round.inputs - 1
  <2>1. ((round.inputs - 1) \div MaxFrames) * MaxFrames <= round.inputs - 1 OBVIOUS
  <2>2. Len(cs) - 1 = n BY <1>1, <1>9
  <2> QED BY <2>1, <2>2 DEF n
<1> QED BY <1>9, <1>10, <1>11, <1>12 DEF cs

(* Chunks are queued in order, behind those that are waiting. *)
LEMMA QueueExtends ==
    ASSUME RecorderTypes, NEW cs \in Seq(Chunks), Log!Queue(cs), previousChain' = previousChain
    PROVE  /\ queued' \in Seq(SealedChunks) /\ nextSequence' = nextSequence + Len(cs)
           /\ nextSequence' = Len(previousChain') + Len(queued')
           /\ \A k \in 1..nextSequence : Sealing(k)' = Sealing(k)
           /\ \A k \in Int : k - nextSequence \in 1..Len(cs) => Sealing(k)' = cs[k - nextSequence]
           /\ queued # <<>> => queued' # <<>> /\ queued'[1] = queued[1]
<1>1. /\ queued \in Seq(SealedChunks) /\ previousChain \in Seq(Chunks) /\ now \in Int
      /\ nextSequence = Len(previousChain) + Len(queued) BY DEF RecorderTypes
<1> DEFINE more == [i \in 1..Len(cs) |-> [chunk |-> cs[i], sealed |-> now]]
<1>2. more \in Seq(SealedChunks) /\ Len(more) = Len(cs) /\ \A i \in 1..Len(cs) : more[i].chunk = cs[i]
  BY <1>1 DEF SealedChunks
<1>3. queued' = queued \o more /\ nextSequence' = nextSequence + Len(cs) BY DEF Log!Queue
<1> HIDE DEF more
<1>4. queued' \in Seq(SealedChunks) /\ Len(queued') = Len(queued) + Len(cs)
  <2>1. queued \in Seq(SealedChunks) /\ more \in Seq(SealedChunks) BY <1>1, <1>2
  <2>2. queued \o more \in Seq(SealedChunks) /\ Len(queued \o more) = Len(queued) + Len(more)
    BY <2>1, Joined
  <2> QED BY <1>2, <1>3, <2>2
<1>5. \A i \in 1..Len(queued) : queued'[i] = queued[i] BY <1>1, <1>2, <1>3, Joined
<1>6. \A i \in 1..Len(cs) : queued'[Len(queued) + i] = more[i] BY <1>1, <1>2, <1>3, Joined
<1>7. ASSUME NEW k \in 1..nextSequence PROVE Sealing(k)' = Sealing(k)
  <2>1. CASE k <= Len(previousChain) BY <2>1 DEF Sealing
  <2>2. CASE k > Len(previousChain)
    <3>1. k - Len(previousChain) \in 1..Len(queued) /\ ~(k <= Len(previousChain))
      BY <1>1, <1>7, <2>2
    <3> QED BY <3>1, <1>5 DEF Sealing
  <2> QED BY <2>1, <2>2, <1>1
<1>8. ASSUME NEW k \in Int, k - nextSequence \in 1..Len(cs) PROVE Sealing(k)' = cs[k - nextSequence]
  <2>1. ~(k <= Len(previousChain)) /\ k - Len(previousChain) = Len(queued) + (k - nextSequence)
    BY <1>1, <1>8
  <2>2. Sealing(k)' = queued'[k - Len(previousChain)].chunk BY <2>1 DEF Sealing
  <2> QED BY <1>2, <1>6, <1>8, <2>1, <2>2
<1>9. queued # <<>> => queued' # <<>> /\ queued'[1] = queued[1] BY <1>1, <1>4, <1>5
<1> QED BY <1>1, <1>3, <1>4, <1>7, <1>8, <1>9

(* What waits behind the queue's head concerns neither the server nor the  *)
(* submission under way.                                                   *)
LEMMA QueueKeepsServer ==
    ASSUME CommitInv, NEW cs \in Seq(Chunks), Log!Queue(cs),
           UNCHANGED <<previousChain, attempt, requests, answers, stored>>
    PROVE  ServerFollows' /\ OnTheWay'
<1>1. RecorderTypes /\ ServerFollows /\ OnTheWay BY DEF CommitInv
<1>2. /\ nextSequence' = nextSequence + Len(cs)
      /\ \A k \in 1..nextSequence : Sealing(k)' = Sealing(k)
      /\ queued # <<>> => queued' # <<>> /\ queued'[1] = queued[1] BY <1>1, QueueExtends
<1>3. nextSequence \in Nat /\ Len(cs) \in Nat /\ stored \in Seq([chunk : Chunks, receivedAt : Int])
      /\ Len(previousChain) \in Nat BY <1>1 DEF RecorderTypes
<1>4. \A k \in 1..nextSequence : k \in 1..nextSequence' BY <1>2, <1>3
<1>5. ServerFollows'
  <2>1. /\ Len(previousChain) <= Len(stored) /\ Len(stored) <= Len(previousChain) + 1
        /\ Len(stored) <= nextSequence' BY <1>1, <1>2, <1>3 DEF ServerFollows
  <2>2. ASSUME NEW k \in DOMAIN stored PROVE stored[k].chunk = Sealing(k)'
    <3>1. k \in 1..nextSequence BY <1>1, <1>3 DEF ServerFollows
    <3> QED BY <1>1, <1>2, <3>1 DEF ServerFollows
  <2> QED BY <2>1, <2>2 DEF ServerFollows
<1>6. ASSUME NEW k \in 1..nextSequence PROVE SealedThrough(k - 1)' = SealedThrough(k - 1)
  <2>1. \A j \in 1..(k - 1) : Sealing(j)' = Sealing(j) BY <1>2, <1>3
  <2> QED BY <2>1 DEF SealedThrough
<1>7. OnTheWay'
  <2>1. attempt > 0 => queued' # <<>> BY <1>1, <1>2 DEF OnTheWay
  <2>2. ASSUME NEW r \in requests
        PROVE  \E k \in 1..nextSequence' :
                  k <= Len(previousChain) + 1 /\ r.chunk = Sealing(k)' /\ r.previous = SealedThrough(k - 1)'
    <3>1. PICK k \in 1..nextSequence :
              k <= Len(previousChain) + 1 /\ r.chunk = Sealing(k) /\ r.previous = SealedThrough(k - 1)
      BY <1>1 DEF OnTheWay
    <3> QED BY <3>1, <1>2, <1>4, <1>6
  <2>3. ASSUME NEW a \in answers
        PROVE  /\ queued' # <<>> /\ Len(stored) = Len(previousChain) + 1
               /\ a.ok /\ a.chain = Append(previousChain, queued'[1].chunk)
    BY <1>1, <1>2 DEF OnTheWay
  <2> QED BY <2>1, <2>2, <2>3 DEF OnTheWay
<1> QED BY <1>5, <1>7

(* Chunks that go on from the open round extend the chain. *)
LEMMA QueueExtendsChain ==
    ASSUME RecorderTypes, ChainRuns, pending # Log!None, previousChain' = previousChain,
           NEW cs \in Seq(Chunks), Log!Queue(cs),
           \A i \in 1..Len(cs) :
              /\ cs[i].sequence = nextSequence + i - 1
              /\ IF i = 1 THEN cs[i].epoch = pending.epoch /\ cs[i].start = pending.start
                 ELSE Succeeds(cs[i], cs[i - 1])
    PROVE  \A k \in 1..nextSequence' :
              /\ Sealing(k)'.sequence = k - 1
              /\ IF k = 1 THEN Sealing(k)'.epoch = 0 /\ Sealing(k)'.start = 0
                 ELSE Succeeds(Sealing(k)', Sealing(k - 1)')
<1>1. /\ nextSequence' = nextSequence + Len(cs)
      /\ \A k \in 1..nextSequence : Sealing(k)' = Sealing(k)
      /\ \A k \in Int : k - nextSequence \in 1..Len(cs) => Sealing(k)' = cs[k - nextSequence]
  BY QueueExtends
<1>2. nextSequence \in Nat /\ Len(cs) \in Nat BY DEF RecorderTypes
<1> SUFFICES ASSUME NEW k \in 1..nextSequence'
             PROVE  /\ Sealing(k)'.sequence = k - 1
                    /\ IF k = 1 THEN Sealing(k)'.epoch = 0 /\ Sealing(k)'.start = 0
                       ELSE Succeeds(Sealing(k)', Sealing(k - 1)') OBVIOUS
<1>3. CASE k <= nextSequence
  <2>1. k \in 1..nextSequence BY <1>1, <1>2, <1>3
  <2>2. Sealing(k)' = Sealing(k) /\ Sealing(k).sequence = k - 1 BY <1>1, <2>1 DEF ChainRuns
  <2>3. CASE k = 1 BY <2>1, <2>2, <2>3 DEF ChainRuns
  <2>4. CASE k # 1
    <3>1. k - 1 \in 1..nextSequence BY <1>2, <2>1, <2>4
    <3>2. Sealing(k - 1)' = Sealing(k - 1) BY <1>1, <3>1
    <3> QED BY <2>1, <2>2, <2>4, <3>2 DEF ChainRuns
  <2> QED BY <2>3, <2>4
<1>4. CASE k > nextSequence
  <2> DEFINE i == k - nextSequence
  <2>1. i \in 1..Len(cs) /\ k \in Int BY <1>1, <1>2, <1>4
  <2>2. Sealing(k)' = cs[i] /\ cs[i].sequence = k - 1 BY <1>1, <1>2, <2>1
  <2>3. CASE i = 1 /\ nextSequence = 0
    <3>1. k = 1 BY <2>3
    <3>2. cs[i].epoch = pending.epoch /\ cs[i].start = pending.start BY <2>1, <2>3
    <3>3. pending.epoch = 0 /\ pending.start = 0 BY <2>3 DEF ChainRuns
    <3> QED BY <2>2, <3>1, <3>2, <3>3
  <2>4. CASE i = 1 /\ nextSequence # 0
    <3>1. k # 1 /\ k - 1 = nextSequence /\ nextSequence \in 1..nextSequence BY <1>2, <2>1, <2>4
    <3>2. Sealing(k - 1)' = Sealing(k - 1) BY <1>1, <3>1
    <3>3. Succeeds(pending, Sealing(k - 1)) BY <2>4, <3>1 DEF ChainRuns
    <3>4. cs[i].epoch = pending.epoch /\ cs[i].start = pending.start BY <2>1, <2>4
    <3>5. Succeeds(cs[i], Sealing(k - 1)) BY <3>3, <3>4 DEF Succeeds
    <3> QED BY <2>2, <3>1, <3>2, <3>5
  <2>5. CASE i # 1
    <3>1. k # 1 /\ i - 1 \in 1..Len(cs) /\ k - 1 \in Int /\ (k - 1) - nextSequence = i - 1
      BY <1>2, <2>1, <2>5
    <3>2. Sealing(k - 1)' = cs[i - 1] BY <1>1, <3>1
    <3>3. Succeeds(cs[i], cs[i - 1]) BY <2>1, <2>5
    <3> QED BY <2>2, <3>1, <3>2, <3>3
  <2> QED BY <2>3, <2>4, <2>5
<1> QED BY <1>2, <1>3, <1>4

(* The lesser of two numbers. *)
LEMMA MinOfTwo ==
    ASSUME NEW m \in Int, NEW n \in Int
    PROVE  Log!Min({m, n}) = IF m <= n THEN m ELSE n
<1> DEFINE least == IF m <= n THEN m ELSE n
<1>1. least \in {m, n} /\ \A k \in {m, n} : least <= k OBVIOUS
<1>2. \A j \in {m, n} : (\A k \in {m, n} : j <= k) => j = least OBVIOUS
<1> HIDE DEF least
<1>3. Log!Min({m, n}) = least BY <1>1, <1>2 DEF Log!Min
<1> QED BY <1>3 DEF least

(* What the chain must be after a step, with its length given a name. *)
LEMMA ChainRunsNext ==
    ASSUME nextSequence' \in Nat,
           \A k \in 1..nextSequence' :
              /\ Sealing(k)'.sequence = k - 1
              /\ IF k = 1 THEN Sealing(k)'.epoch = 0 /\ Sealing(k)'.start = 0
                 ELSE Succeeds(Sealing(k)', Sealing(k - 1)'),
           pending' # Log!None =>
              \A k \in Nat : k = nextSequence' =>
                 IF k = 0 THEN pending'.epoch = 0 /\ pending'.start = 0
                 ELSE Succeeds(pending', Sealing(k)')
    PROVE  ChainRuns'
<1>1. PICK k \in Nat : k = nextSequence' OBVIOUS
<1>2. Sealing(nextSequence)' = Sealing(k)' BY <1>1 DEF Sealing
<1>3. pending' # Log!None =>
          IF nextSequence' = 0 THEN pending'.epoch = 0 /\ pending'.start = 0
          ELSE Succeeds(pending', Sealing(nextSequence)') BY <1>1, <1>2
<1> QED BY <1>3 DEF ChainRuns, Log!None

(* The recorder starts with nothing to show. *)
LEMMA CommitInvInit == ASSUME Log!Init PROVE CommitInv
<1> USE CommitConstants DEF Log!Init
<1>1. RecorderTypes
  <2>1. pending \in [epoch : Int, start : Int, inputs : Nat] OBVIOUS
  <2> QED BY <2>1 DEF RecorderTypes
<1>2. ChainRuns BY DEF ChainRuns
<1>3. ServerFollows BY DEF ServerFollows
<1>4. OnTheWay BY DEF OnTheWay
<1>5. TailBounds BY DEF TailBounds
<1> QED BY <1>1, <1>2, <1>3, <1>4, <1>5 DEF CommitInv

(* A frame is recorded: what the guard lets go of is sealed. *)
LEMMA FrameKeepsChain == ASSUME CommitInv, Log!SimulateFrame PROVE CommitInv'
<1> DEFINE n == Log!Sealable(pending, sealed)
           cs == Log!FullChunks(pending, n)
<1>1. /\ RecorderTypes /\ ChainRuns /\ TailBounds
      /\ pending # Log!None
      /\ pace' = pace + 1 /\ sealed' = Log!Min({mutual, pace})
      /\ UNCHANGED <<now, mutual, previousChain, attempt, requests, answers, stored>>
      /\ Log!CanAdvance BY DEF CommitInv, Log!SimulateFrame, Log!network
<1>2. /\ Log!Queue(cs)
      /\ pending' = [pending EXCEPT !.start = @ + n * MaxFrames, !.inputs = @ - n * MaxFrames + 1]
  BY DEF Log!SimulateFrame
<1>3. /\ pending \in [epoch : Int, start : Int, inputs : Nat] /\ sealed \in Int /\ mutual \in Int
      /\ pace \in Nat /\ nextSequence \in Nat /\ previousChain \in Seq(Chunks)
  BY <1>1 DEF RecorderTypes
<1>4. /\ n \in Nat
      /\ n > 0 => /\ pending.inputs - (n - 1) * MaxFrames >= MaxFrames + Guard
                  /\ pending.start + n * MaxFrames - 1 < sealed
      /\ pending.inputs - n * MaxFrames >= 0
      /\ \/ pending.inputs - n * MaxFrames < MaxFrames + Guard
         \/ pending.start + (n + 1) * MaxFrames - 1 >= sealed BY <1>3, SealableIs
<1> HIDE DEF n
<1>5. MaxFrames \in Nat \ {0} /\ Guard \in Nat \ {0} /\ Log!Burst = MaxFrames + Guard
      /\ Log!PredictionWindow = Guard - 1 BY CommitConstants
<1>6. n * MaxFrames \in Nat /\ (n + 1) * MaxFrames = n * MaxFrames + MaxFrames
      /\ (n = 0 => n * MaxFrames = 0) BY <1>4, <1>5
<1>7. /\ cs \in Seq(Chunks) /\ Len(cs) = n
      /\ \A i \in 1..n : cs[i] = FullChunk(pending, i)
  <2>1. nextSequence \in Int /\ n \in Nat /\ pending \in [epoch : Int, start : Int, inputs : Nat]
    BY <1>3, <1>4
  <2> QED BY <2>1, FullChunksAre
<1> HIDE DEF cs
<1>8. /\ pending' \in [epoch : Int, start : Int, inputs : Nat]
      /\ pending'.epoch = pending.epoch /\ pending'.start = pending.start + n * MaxFrames
      /\ pending'.inputs = pending.inputs - n * MaxFrames + 1
  <2> DEFINE moved == [pending EXCEPT !.start = @ + n * MaxFrames]
  <2>1. /\ moved \in [epoch : Int, start : Int, inputs : Nat]
        /\ moved.epoch = pending.epoch /\ moved.start = pending.start + n * MaxFrames
        /\ moved.inputs = pending.inputs BY <1>3, <1>6
  <2>2. pending' = [moved EXCEPT !.inputs = pending.inputs - n * MaxFrames + 1] BY <1>2, <1>3
  <2>3. pending.inputs - n * MaxFrames + 1 \in Nat BY <1>3, <1>4, <1>6
  <2> HIDE DEF moved
  <2> QED BY <2>1, <2>2, <2>3
<1>9. pending' # Log!None BY <1>8, CommitConstants
<1>10. /\ queued' \in Seq(SealedChunks) /\ nextSequence' = nextSequence + n
       /\ nextSequence' = Len(previousChain') + Len(queued')
       /\ \A k \in 1..nextSequence : Sealing(k)' = Sealing(k)
       /\ \A k \in Int : k - nextSequence \in 1..n => Sealing(k)' = cs[k - nextSequence]
  BY <1>1, <1>2, <1>7, QueueExtends
<1>11. sealed' = IF mutual <= pace THEN mutual ELSE pace BY <1>1, <1>3, MinOfTwo
<1>12. RecorderTypes'
  <2>1. pace' \in Nat /\ sealed' \in Int BY <1>1, <1>3, <1>11
  <2>2. pending' \in {Log!None} \cup [epoch : Int, start : Int, inputs : Nat] BY <1>8
  <2> QED BY <1>1, <1>10, <2>1, <2>2 DEF RecorderTypes, Log!None
<1>13. ChainRuns'
  <2>1. ASSUME NEW i \in 1..Len(cs)
        PROVE  /\ cs[i].sequence = nextSequence + i - 1
               /\ IF i = 1 THEN cs[i].epoch = pending.epoch /\ cs[i].start = pending.start
                  ELSE Succeeds(cs[i], cs[i - 1])
    <3>1. i \in 1..n /\ cs[i].sequence = nextSequence + i - 1 /\ cs[i].epoch = pending.epoch
          /\ cs[i].start = pending.start + (i - 1) * MaxFrames BY <1>7, <2>1 DEF FullChunk
    <3>2. CASE i = 1
      <4>1. (i - 1) * MaxFrames = 0 BY <3>2, <1>5
      <4> QED BY <3>1, <3>2, <4>1, <1>3
    <3>3. CASE i # 1
      <4>1. i - 1 \in 1..n BY <3>1, <3>3, <1>4
      <4>2. ~cs[i - 1].final /\ cs[i - 1].epoch = pending.epoch
            /\ cs[i - 1].end = pending.start + (i - 1) * MaxFrames - 1 BY <4>1, <1>7 DEF FullChunk
      <4>3. (i - 1) * MaxFrames \in Int BY <3>1, <1>5
      <4>4. cs[i].start = cs[i - 1].end + 1 BY <3>1, <4>2, <4>3, <1>3
      <4> QED BY <3>1, <3>3, <4>2, <4>4 DEF Succeeds
    <3> QED BY <3>1, <3>2, <3>3
  <2>2. \A k \in 1..nextSequence' :
           /\ Sealing(k)'.sequence = k - 1
           /\ IF k = 1 THEN Sealing(k)'.epoch = 0 /\ Sealing(k)'.start = 0
              ELSE Succeeds(Sealing(k)', Sealing(k - 1)')
    BY <1>1, <1>2, <1>7, <2>1, QueueExtendsChain
  <2>3. ASSUME NEW k \in Nat, k = nextSequence'
        PROVE  IF k = 0 THEN pending'.epoch = 0 /\ pending'.start = 0
               ELSE Succeeds(pending', Sealing(k)')
    <3>1. CASE n = 0
      <4>1. pending'.epoch = pending.epoch /\ pending'.start = pending.start /\ k = nextSequence
        BY <1>3, <1>6, <1>8, <1>10, <2>3, <3>1
      <4>2. CASE k = 0 BY <4>1, <4>2, <1>1 DEF ChainRuns
      <4>3. CASE k # 0
        <5>1. k \in 1..nextSequence BY <4>1, <4>3
        <5>2. Succeeds(pending, Sealing(k)) BY <4>1, <4>3, <1>1 DEF ChainRuns
        <5>3. Sealing(k)' = Sealing(k) BY <5>1, <1>10
        <5> QED BY <4>1, <4>3, <5>2, <5>3 DEF Succeeds
      <4> QED BY <4>2, <4>3
    <3>2. CASE n # 0
      <4>1. n \in 1..n /\ k - nextSequence = n /\ k # 0 /\ k \in Int
        BY <1>3, <1>4, <1>10, <2>3, <3>2
      <4>2. Sealing(k)' = cs[n] BY <4>1, <1>10
      <4>3. ~cs[n].final /\ cs[n].epoch = pending.epoch /\ cs[n].end = pending.start + n * MaxFrames - 1
        BY <4>1, <1>7 DEF FullChunk
      <4>4. pending'.start = cs[n].end + 1 BY <4>3, <1>3, <1>6, <1>8
      <4> QED BY <4>1, <4>2, <4>3, <4>4, <1>8 DEF Succeeds
    <3> QED BY <3>1, <3>2
  <2> QED BY <2>2, <2>3, <1>9, <1>3, <1>4, <1>10, ChainRunsNext
<1>14. ServerFollows' /\ OnTheWay' BY <1>1, <1>2, <1>7, QueueKeepsServer
<1>15. TailBounds'
  <2>1. /\ pending.start >= 0 /\ pending.start + pending.inputs = pace
        /\ pending.start = 0 \/ pending.start <= sealed
        /\ -1 <= sealed /\ sealed <= mutual /\ sealed < pace /\ pace - sealed <= Guard
    BY <1>1 DEF TailBounds
  <2>2. pace - (mutual + 1) < Guard - 1 BY <1>1, <1>5 DEF Log!CanAdvance
  <2>3. -1 <= sealed' /\ sealed <= sealed' /\ sealed' <= mutual /\ sealed' < pace + 1 /\ (pace + 1) - sealed' <= Guard
    <3>1. CASE mutual <= pace BY <3>1, <2>1, <2>2, <1>3, <1>5, <1>11
    <3>2. CASE ~(mutual <= pace) BY <3>2, <2>1, <1>3, <1>5, <1>11
    <3> QED BY <3>1, <3>2
  <2>4. pending'.start >= 0 /\ pending'.start + pending'.inputs = pace + 1
    <3>1. PICK p \in Nat : p = n * MaxFrames BY <1>6
    <3>2. pending.start \in Int /\ pending.inputs \in Int BY <1>3
    <3>3. pending'.start = pending.start + p /\ pending'.inputs = pending.inputs - p + 1
      BY <1>8, <3>1
    <3> QED BY <2>1, <3>1, <3>2, <3>3
  <2>5. pending'.start = 0 \/ pending'.start <= sealed'
    <3>1. CASE n = 0 BY <3>1, <2>1, <2>3, <1>3, <1>6, <1>8, <1>11
    <3>2. CASE n > 0
      <4>1. pending.start + n * MaxFrames - 1 < sealed BY <3>2, <1>4
      <4> QED BY <4>1, <2>3, <1>3, <1>6, <1>8, <1>11
    <3> QED BY <3>1, <3>2, <1>4
  <2>6. pending'.inputs <= MaxFrames + Guard
    <3>1. CASE pending.inputs - n * MaxFrames < MaxFrames + Guard BY <3>1, <1>3, <1>5, <1>6, <1>8
    <3>2. CASE pending.start + (n + 1) * MaxFrames - 1 >= sealed
      <4>1. PICK p \in Nat : p = n * MaxFrames BY <1>6
      <4>2. pending'.inputs = pending.inputs - p + 1 /\ pending.start + (p + MaxFrames) - 1 >= sealed
        BY <3>2, <4>1, <1>6, <1>8
      <4> QED BY <2>1, <4>2, <1>3, <1>5
    <3> QED BY <3>1, <3>2, <1>4
  <2>7. pace' = pace + 1 /\ mutual' = mutual BY <1>1
  <2>8. -1 <= sealed' /\ sealed' <= mutual' /\ sealed' < pace' /\ pace' - sealed' <= Guard
    <3>1. sealed' \in Int /\ pace' \in Int /\ mutual' \in Int /\ Guard \in Int
      BY <2>7, <1>3, <1>5, <1>12 DEF RecorderTypes
    <3>2. -1 <= sealed' BY <2>3
    <3>3. sealed' <= mutual' BY <2>3, <2>7
    <3>4. sealed' < pace' BY <2>3, <2>7
    <3>5. pace' - sealed' <= Guard BY <2>3, <2>7
    <3> QED BY <3>2, <3>3, <3>4, <3>5
  <2>9. /\ pending'.start >= 0 /\ pending'.start + pending'.inputs = pace'
        /\ pending'.start = 0 \/ pending'.start <= sealed'
        /\ pending'.inputs <= MaxFrames + Guard BY <2>4, <2>5, <2>6, <2>7
  <2> QED BY <2>8, <2>9 DEF TailBounds
<1> QED BY <1>12, <1>13, <1>14, <1>15 DEF CommitInv

(* What the chain is made of; its acknowledged part, and the chunk that is *)
(* being submitted behind it.                                              *)
LEMMA SealingIs ==
    ASSUME RecorderTypes
    PROVE  /\ Len(previousChain) \in Nat /\ Len(queued) \in Nat /\ nextSequence \in Nat
           /\ \A k \in 1..nextSequence : Sealing(k) \in Chunks
           /\ SealedThrough(Len(previousChain)) = previousChain
           /\ queued # <<>> =>
                 /\ Len(previousChain) + 1 \in 1..nextSequence
                 /\ Sealing(Len(previousChain) + 1) = queued[1].chunk
                 /\ SealedThrough(Len(previousChain) + 1) = Append(previousChain, queued[1].chunk)
<1>1. /\ queued \in Seq(SealedChunks) /\ previousChain \in Seq(Chunks)
      /\ nextSequence = Len(previousChain) + Len(queued)
      /\ Len(previousChain) \in Nat /\ Len(queued) \in Nat /\ nextSequence \in Nat
  BY DEF RecorderTypes
<1>2. ASSUME NEW k \in 1..nextSequence PROVE Sealing(k) \in Chunks
  <2>1. CASE k <= Len(previousChain)
    <3>1. k \in 1..Len(previousChain) BY <1>2, <2>1
    <3> QED BY <1>1, <2>1, <3>1 DEF Sealing
  <2>2. CASE ~(k <= Len(previousChain))
    <3>1. k - Len(previousChain) \in 1..Len(queued) BY <1>1, <1>2, <2>2
    <3>2. queued[k - Len(previousChain)] \in SealedChunks BY <1>1, <3>1
    <3> QED BY <2>2, <3>2 DEF Sealing, SealedChunks
  <2> QED BY <2>1, <2>2
<1>3. \A k \in 1..Len(previousChain) : Sealing(k) = previousChain[k] BY <1>1 DEF Sealing
<1>4. SealedThrough(Len(previousChain)) = previousChain
  <2>1. previousChain = [k \in 1..Len(previousChain) |-> previousChain[k]] BY <1>1
  <2>2. SealedThrough(Len(previousChain)) = [k \in 1..Len(previousChain) |-> previousChain[k]]
    BY <1>3 DEF SealedThrough
  <2> QED BY <2>1, <2>2
<1>5. ASSUME queued # <<>>
      PROVE  /\ Len(previousChain) + 1 \in 1..nextSequence
             /\ Sealing(Len(previousChain) + 1) = queued[1].chunk
             /\ SealedThrough(Len(previousChain) + 1) = Append(previousChain, queued[1].chunk)
  <2>1. Len(queued) >= 1 BY <1>1, <1>5
  <2>2. Len(previousChain) + 1 \in 1..nextSequence BY <1>1, <2>1
  <2>3. ~(Len(previousChain) + 1 <= Len(previousChain)) /\ Len(previousChain) + 1 - Len(previousChain) = 1
    BY <1>1
  <2>4. Sealing(Len(previousChain) + 1) = queued[1].chunk BY <2>3 DEF Sealing
  <2> DEFINE c == queued[1].chunk
  <2>5. c = Sealing(Len(previousChain) + 1) /\ c \in Chunks BY <1>2, <2>2, <2>4
  <2> HIDE DEF c
  <2>6. Append(previousChain, c) = [k \in 1..(Len(previousChain) + 1) |->
            IF k <= Len(previousChain) THEN previousChain[k] ELSE c] BY <1>1, <2>5
  <2>7. \A k \in 1..(Len(previousChain) + 1) :
            Sealing(k) = IF k <= Len(previousChain) THEN previousChain[k] ELSE c
    <3> SUFFICES ASSUME NEW k \in 1..(Len(previousChain) + 1)
                 PROVE  Sealing(k) = IF k <= Len(previousChain) THEN previousChain[k] ELSE c OBVIOUS
    <3>1. CASE k <= Len(previousChain) BY <3>1 DEF Sealing
    <3>2. CASE ~(k <= Len(previousChain))
      <4>1. k = Len(previousChain) + 1 BY <1>1, <3>2
      <4> QED BY <2>5, <3>2, <4>1
    <3> QED BY <3>1, <3>2
  <2>8. SealedThrough(Len(previousChain) + 1) = Append(previousChain, c)
    BY <2>6, <2>7 DEF SealedThrough
  <2> QED BY <2>2, <2>4, <2>8 DEF c
<1> QED BY <1>1, <1>2, <1>4, <1>5

(* What the server has stored is the beginning of the chain. *)
LEMMA StoredIs ==
    ASSUME RecorderTypes, ServerFollows, NEW n \in Nat, n <= Len(stored)
    PROVE  Log!ChainThrough(n) = SealedThrough(n)
<1>1. \A i \in 1..n : i \in DOMAIN stored BY DEF RecorderTypes
<1>2. \A i \in 1..n : stored[i].chunk = Sealing(i) BY <1>1 DEF ServerFollows
<1> QED BY <1>2 DEF Log!ChainThrough, SealedThrough

(* A step that leaves the chain, its messages and the server alone. *)
LEMMA PassingKeepsChain ==
    ASSUME CommitInv, now' \in Int,
           UNCHANGED <<pace, sealed, pending, queued, nextSequence, previousChain, attempt, requests, answers, stored>>,
           mutual' \in Int, mutual' >= mutual
    PROVE  CommitInv'
<1>1. RecorderTypes /\ ChainRuns /\ ServerFollows /\ OnTheWay /\ TailBounds BY DEF CommitInv
<1>2. RecorderTypes' BY <1>1 DEF RecorderTypes, Log!None
<1>3. ChainRuns' BY <1>1 DEF ChainRuns, Sealing, Log!None
<1>4. ServerFollows' BY <1>1 DEF ServerFollows, Sealing
<1>5. OnTheWay'
  <2>1. \A k \in 1..nextSequence : Sealing(k)' = Sealing(k) /\ SealedThrough(k - 1)' = SealedThrough(k - 1)
    BY DEF Sealing, SealedThrough
  <2>2. attempt > 0 => queued # <<>> BY <1>1 DEF OnTheWay
  <2>3. ASSUME NEW r \in requests
        PROVE  \E k \in 1..nextSequence :
                  k <= Len(previousChain) + 1 /\ r.chunk = Sealing(k)' /\ r.previous = SealedThrough(k - 1)'
    BY <1>1, <2>1 DEF OnTheWay
  <2>4. ASSUME NEW a \in answers
        PROVE  /\ queued # <<>> /\ Len(stored) = Len(previousChain) + 1
               /\ a.ok /\ a.chain = Append(previousChain, queued[1].chunk) BY <1>1 DEF OnTheWay
  <2> QED BY <2>2, <2>3, <2>4 DEF OnTheWay
<1>6. TailBounds'
  <2>1. mutual \in Int /\ sealed \in Int BY <1>1 DEF RecorderTypes
  <2>2. sealed <= mutual' BY <1>1, <2>1 DEF TailBounds
  <2> QED BY <1>1, <2>2 DEF TailBounds, Log!None
<1> QED BY <1>2, <1>3, <1>4, <1>5, <1>6 DEF CommitInv

(* The clock ticks. *)
LEMMA TickKeepsChain == ASSUME CommitInv, Log!Tick PROVE CommitInv'
<1>1. now \in Int /\ mutual \in Int BY DEF CommitInv, RecorderTypes
<1>2. now' = now + 1 /\ mutual' = mutual
      /\ UNCHANGED <<pace, sealed, pending, queued, nextSequence, previousChain, attempt, requests, answers, stored>>
  BY DEF Log!Tick, Log!recorder, Log!network
<1>3. now' \in Int /\ mutual' \in Int /\ mutual' >= mutual BY <1>1, <1>2
<1> QED BY <1>2, <1>3, PassingKeepsChain

(* The peer confirms. *)
LEMMA ConfirmKeepsChain == ASSUME CommitInv, Log!Confirm PROVE CommitInv'
<1>1. now \in Int /\ mutual \in Int /\ pace \in Int BY DEF CommitInv, RecorderTypes
<1>2. now' = now /\ mutual' \in (mutual + 1)..(pace - 1)
      /\ UNCHANGED <<pace, sealed, pending, queued, nextSequence, previousChain, attempt, requests, answers, stored>>
  BY DEF Log!Confirm, Log!recorder, Log!network
<1>3. now' \in Int /\ mutual' \in Int /\ mutual' >= mutual BY <1>1, <1>2
<1> QED BY <1>2, <1>3, PassingKeepsChain

(* What the end of a round does: the tail is sealed to the decisive frame, *)
(* which the recorder knows to be archived, in one chunk or more.          *)
LEMMA EndedRound ==
    ASSUME CommitInv, Log!EndRound
    PROVE  \E f, cs : RoundEnded(f, cs)
<1>1. RecorderTypes /\ TailBounds BY DEF CommitInv
<1>2. PICK f \in Log!FinalFrames : Log!FinalizeRound(f) BY DEF Log!EndRound
<1>3. pending # Log!None /\ f \in Int /\ sealed <= f /\ f <= mutual /\ f >= 0 /\ f < pace
  BY <1>2, <1>1 DEF Log!FinalizeRound, Log!FinalFrames, RecorderTypes
<1>4. /\ pending \in [epoch : Int, start : Int, inputs : Nat] /\ sealed \in Int /\ nextSequence \in Int
      /\ pending.epoch \in Int /\ pending.start \in Int /\ pending.inputs \in Nat
  BY <1>1, <1>3, SealingIs DEF RecorderTypes
<1>5. pending.start <= f
  <2>1. pending.start = 0 \/ pending.start <= sealed BY <1>1, <1>3 DEF TailBounds
  <2> QED BY <2>1, <1>3, <1>4
<1> DEFINE round == [pending EXCEPT !.inputs = f - pending.start + 1]
           cs == Log!FinalChunks(round)
<1>6. /\ Log!Queue(cs) /\ lengths' = Append(lengths, f + 1)
      /\ pending' = IF Len(lengths) + 1 = Rounds THEN Log!None
                    ELSE [epoch |-> pending.epoch + 1, start |-> 0, inputs |-> 0]
      /\ pace' = 0 /\ mutual' = -1 /\ sealed' = -1 /\ delay' = Transition
      /\ UNCHANGED <<now, waits, previousChain, failed, attempt, requests, answers, stored>>
  <2>1. ~(f < pending.start) BY <1>3, <1>4, <1>5
  <2> QED BY <1>2, <2>1 DEF Log!FinalizeRound, Log!network
<1>7. /\ round \in [epoch : Int, start : Int, inputs : Nat] /\ round.inputs >= 1
      /\ round.epoch = pending.epoch /\ round.start = pending.start
      /\ round.inputs - 1 = f - pending.start /\ round.start + round.inputs - 1 = f
  <2>1. f - pending.start + 1 \in Nat /\ f - pending.start + 1 >= 1 BY <1>3, <1>4, <1>5
  <2> QED BY <1>3, <1>4, <2>1
<1> HIDE DEF round
<1>8. /\ cs \in Seq(Chunks) /\ Len(cs) >= 1
      /\ \A i \in 1..Len(cs) :
            /\ cs[i].sequence = nextSequence + i - 1 /\ cs[i].epoch = pending.epoch
            /\ cs[i].start = pending.start + (i - 1) * MaxFrames
            /\ i < Len(cs) => ~cs[i].final /\ cs[i].end = pending.start + i * MaxFrames - 1
      /\ cs[Len(cs)].final /\ cs[Len(cs)].end = f
      /\ (Len(cs) - 1) * MaxFrames <= f - pending.start BY <1>4, <1>7, FinalChunksAre
<1> HIDE DEF cs
<1>9. RoundEnded(f, cs) BY <1>3, <1>4, <1>5, <1>6, <1>8 DEF RoundEnded
<1> QED BY <1>3, <1>8, <1>9

(* A round ends: its chunks are sealed, and the next round opens. *)
LEMMA RoundKeepsChain == ASSUME CommitInv, Log!EndRound PROVE CommitInv'
<1>1. /\ RecorderTypes /\ ChainRuns /\ TailBounds BY DEF CommitInv
<1> USE DEF RoundEnded
<1>2. PICK f, cs : RoundEnded(f, cs) BY EndedRound
<1>3. /\ pace \in Nat /\ nextSequence \in Nat /\ Len(cs) \in Nat /\ Len(cs) >= 1 /\ pending # Log!None
      /\ pending.epoch \in Int /\ pending.start \in Int
      /\ MaxFrames \in Nat \ {0} /\ Guard \in Nat \ {0}
  BY <1>1, <1>2, SealingIs, CommitConstants DEF RecorderTypes
<1>4. ASSUME NEW i \in 1..Len(cs)
      PROVE  /\ cs[i].sequence = nextSequence + i - 1
             /\ IF i = 1 THEN cs[i].epoch = pending.epoch /\ cs[i].start = pending.start
                ELSE Succeeds(cs[i], cs[i - 1])
  <2>1. CASE i = 1
    <3>1. (i - 1) * MaxFrames = 0 BY <2>1, <1>3
    <3> QED BY <1>2, <2>1, <3>1, <1>3
  <2>2. CASE i # 1
    <3>1. i - 1 \in 1..Len(cs) /\ i - 1 < Len(cs) BY <1>3, <1>4, <2>2
    <3>2. ~cs[i - 1].final /\ cs[i - 1].epoch = pending.epoch
          /\ cs[i - 1].end = pending.start + (i - 1) * MaxFrames - 1 BY <3>1, <1>2
    <3>3. (i - 1) * MaxFrames \in Int BY <1>4, <1>3
    <3>4. cs[i].start = cs[i - 1].end + 1 BY <1>2, <1>4, <3>2, <3>3, <1>3
    <3>5. Succeeds(cs[i], cs[i - 1]) BY <1>2, <1>4, <3>2, <3>4 DEF Succeeds
    <3> QED BY <1>2, <1>4, <2>2, <3>5
  <2> QED BY <2>1, <2>2
<1>5. /\ queued' \in Seq(SealedChunks) /\ nextSequence' = nextSequence + Len(cs)
      /\ nextSequence' = Len(previousChain') + Len(queued')
      /\ \A k \in Int : k - nextSequence \in 1..Len(cs) => Sealing(k)' = cs[k - nextSequence]
  BY <1>1, <1>2, QueueExtends
<1>6. /\ pending' \in {Log!None} \cup [epoch : Int, start : Int, inputs : Nat]
      /\ pending' # Log!None =>
            pending'.epoch = pending.epoch + 1 /\ pending'.start = 0 /\ pending'.inputs = 0
  <2>1. [epoch |-> pending.epoch + 1, start |-> 0, inputs |-> 0] \in [epoch : Int, start : Int, inputs : Nat]
    BY <1>3
  <2> QED BY <1>2, <2>1
<1>7. RecorderTypes' BY <1>1, <1>2, <1>5, <1>6 DEF RecorderTypes, Log!None
<1>8. ChainRuns'
  <2>1. \A k \in 1..nextSequence' :
           /\ Sealing(k)'.sequence = k - 1
           /\ IF k = 1 THEN Sealing(k)'.epoch = 0 /\ Sealing(k)'.start = 0
              ELSE Succeeds(Sealing(k)', Sealing(k - 1)')
    BY <1>1, <1>3, <1>2, <1>4, QueueExtendsChain
  <2>2. ASSUME pending' # Log!None, NEW k \in Nat, k = nextSequence'
        PROVE  IF k = 0 THEN pending'.epoch = 0 /\ pending'.start = 0
               ELSE Succeeds(pending', Sealing(k)')
    <3>1. k - nextSequence = Len(cs) /\ k - nextSequence \in 1..Len(cs) /\ k # 0 /\ k \in Int
      BY <1>3, <1>5, <2>2
    <3>2. Sealing(k)' = cs[Len(cs)] BY <1>5, <3>1
    <3>3. cs[Len(cs)].final /\ cs[Len(cs)].epoch = pending.epoch BY <1>2, <3>1
    <3> QED BY <1>6, <2>2, <3>1, <3>2, <3>3 DEF Succeeds
  <2>3. nextSequence' \in Nat BY <1>3, <1>5
  <2> QED BY <2>1, <2>2, <2>3, ChainRunsNext
<1>9. ServerFollows' /\ OnTheWay' BY <1>2, QueueKeepsServer
<1>10. TailBounds'
  <2>1. ASSUME pending' # Log!None
        PROVE  /\ pending'.start >= 0 /\ pending'.start + pending'.inputs = pace'
               /\ pending'.start = 0 \/ pending'.start <= sealed'
               /\ pending'.inputs <= MaxFrames + Guard BY <1>2, <1>3, <1>6, <2>1
  <2>2. -1 <= sealed' /\ sealed' <= mutual' /\ sealed' < pace' /\ pace' - sealed' <= Guard
    BY <1>2, <1>3
  <2> QED BY <2>1, <2>2 DEF TailBounds, Log!None
<1> QED BY <1>7, <1>8, <1>9, <1>10 DEF CommitInv

(* The head of the queue is submitted, once more or for the first time. *)
LEMMA AttemptKeepsChain ==
    ASSUME CommitInv, queued # <<>>, Log!Attempt,
           UNCHANGED <<now, pace, mutual, sealed, pending, queued, nextSequence, previousChain, stored>>
    PROVE  CommitInv'
<1> DEFINE submission == Log!Submission
           sent == [submission EXCEPT !.attempt = @ + 1]
<1>1. RecorderTypes /\ ChainRuns /\ ServerFollows /\ OnTheWay /\ TailBounds BY DEF CommitInv
<1>2. attempt' = attempt + 1 /\ requests' = requests \cup {sent} /\ answers' = {} BY DEF Log!Attempt
<1>3. sent.chunk = queued[1].chunk /\ sent.previous = previousChain BY DEF Log!Submission
<1> HIDE DEF sent
<1>4. RecorderTypes' BY <1>1, <1>2 DEF RecorderTypes, Log!None
<1>5. ChainRuns' BY <1>1 DEF ChainRuns, Sealing, Log!None
<1>6. ServerFollows' BY <1>1 DEF ServerFollows, Sealing
<1>7. TailBounds' BY <1>1 DEF TailBounds, Log!None
<1>8. \A k \in 1..nextSequence : Sealing(k)' = Sealing(k) /\ SealedThrough(k - 1)' = SealedThrough(k - 1)
  BY DEF Sealing, SealedThrough
<1>9. ASSUME NEW r \in requests'
      PROVE  \E k \in 1..nextSequence :
                k <= Len(previousChain) + 1 /\ r.chunk = Sealing(k)' /\ r.previous = SealedThrough(k - 1)'
  <2>1. CASE r \in requests BY <1>1, <1>8, <2>1 DEF OnTheWay
  <2>2. CASE r = sent
    <3> DEFINE k == Len(previousChain) + 1
    <3>1. k \in 1..nextSequence /\ Sealing(k) = queued[1].chunk /\ SealedThrough(Len(previousChain)) = previousChain
      BY <1>1, SealingIs
    <3>2. Len(previousChain) = k - 1 BY <1>1, SealingIs
    <3>3. r.chunk = Sealing(k) /\ r.previous = SealedThrough(k - 1) BY <1>3, <2>2, <3>1, <3>2
    <3>4. k <= Len(previousChain) + 1 BY <3>1
    <3> HIDE DEF k
    <3> QED BY <1>8, <3>1, <3>3, <3>4
  <2> QED BY <1>2, <1>9, <2>1, <2>2
<1>10. OnTheWay' BY <1>2, <1>9 DEF OnTheWay
<1> QED BY <1>4, <1>5, <1>6, <1>7, <1>10 DEF CommitInv

(* The drain submits. *)
LEMMA SubmitKeepsChain == ASSUME CommitInv, Log!Submit PROVE CommitInv'
  BY AttemptKeepsChain DEF Log!Submit, Log!simulation

(* Giving up an attempt, and losing requests, only takes away. *)
LEMMA FewerMessages ==
    ASSUME CommitInv, attempt' \in {0, attempt}, requests' \in SUBSET requests,
           UNCHANGED <<now, pace, mutual, sealed, pending, queued, nextSequence, previousChain, answers, stored>>
    PROVE  CommitInv'
<1>1. RecorderTypes /\ ChainRuns /\ ServerFollows /\ OnTheWay /\ TailBounds BY DEF CommitInv
<1>2. RecorderTypes' BY <1>1 DEF RecorderTypes, Log!None
<1>3. ChainRuns' BY <1>1 DEF ChainRuns, Sealing, Log!None
<1>4. ServerFollows' BY <1>1 DEF ServerFollows, Sealing
<1>5. TailBounds' BY <1>1 DEF TailBounds, Log!None
<1>6. \A k \in 1..nextSequence : Sealing(k)' = Sealing(k) /\ SealedThrough(k - 1)' = SealedThrough(k - 1)
  BY DEF Sealing, SealedThrough
<1>7. OnTheWay'
  <2>1. attempt' > 0 => queued # <<>> BY <1>1 DEF OnTheWay
  <2>2. ASSUME NEW r \in requests'
        PROVE  \E k \in 1..nextSequence :
                  k <= Len(previousChain) + 1 /\ r.chunk = Sealing(k)' /\ r.previous = SealedThrough(k - 1)'
    BY <1>1, <1>6 DEF OnTheWay
  <2>3. ASSUME NEW a \in answers
        PROVE  /\ queued # <<>> /\ Len(stored) = Len(previousChain) + 1
               /\ a.ok /\ a.chain = Append(previousChain, queued[1].chunk) BY <1>1 DEF OnTheWay
  <2> QED BY <2>1, <2>2, <2>3 DEF OnTheWay
<1> QED BY <1>2, <1>3, <1>4, <1>5, <1>7 DEF CommitInv

(* An attempt fails: the next one is made, or the recorder gives up. *)
LEMMA LostKeepsChain == ASSUME CommitInv, Log!LoseAttempt PROVE CommitInv'
<1>1. RecorderTypes /\ ChainRuns /\ ServerFollows /\ OnTheWay /\ TailBounds BY DEF CommitInv
<1>2. UNCHANGED <<now, pace, mutual, sealed, pending, queued, nextSequence, previousChain, stored>>
  BY DEF Log!LoseAttempt, Log!simulation
<1>3. queued # <<>> BY <1>1 DEF OnTheWay, Log!LoseAttempt
<1>4. CASE attempt < MaxAttempts
  <2>1. Log!Attempt BY <1>4 DEF Log!LoseAttempt
  <2> QED BY <1>2, <1>3, <2>1, AttemptKeepsChain
<1>5. CASE ~(attempt < MaxAttempts)
  <2>1. attempt' = 0 /\ UNCHANGED <<requests, answers>> BY <1>5 DEF Log!LoseAttempt, Log!network
  <2> QED BY <1>2, <2>1, FewerMessages
<1> QED BY <1>4, <1>5

(* A request is lost. *)
LEMMA DropKeepsChain == ASSUME CommitInv, Log!DropRequest PROVE CommitInv'
  BY FewerMessages DEF Log!DropRequest, Log!simulation, Log!recorder, CommitInv, RecorderTypes,
     OnTheWay

(* A receipt moves the head of the queue to the acknowledged chain. *)
LEMMA ReceiptMoves ==
    ASSUME RecorderTypes, queued # <<>>, queued' = Tail(queued),
           previousChain' = Append(previousChain, queued[1].chunk)
    PROVE  \A k \in 1..nextSequence : Sealing(k)' = Sealing(k)
<1>1. queued # <<>> /\ queued' = Tail(queued) /\ previousChain' = Append(previousChain, queued[1].chunk)
  OBVIOUS
<1>5. /\ queued \in Seq(SealedChunks) /\ previousChain \in Seq(Chunks)
      /\ nextSequence = Len(previousChain) + Len(queued)
      /\ Len(previousChain) \in Nat /\ Len(queued) \in Nat /\ nextSequence \in Nat
      /\ Len(previousChain) + 1 \in 1..nextSequence
      /\ Sealing(Len(previousChain) + 1) = queued[1].chunk
      /\ queued[1].chunk \in Chunks
  <2>1. queued[1] \in SealedChunks BY <1>1 DEF RecorderTypes
  <2> QED BY <1>1, <2>1, SealingIs DEF RecorderTypes, SealedChunks
<1>6. /\ queued' \in Seq(SealedChunks) /\ Len(queued') = Len(queued) - 1
      /\ \A i \in 1..(Len(queued) - 1) : queued'[i] = queued[i + 1]
      /\ previousChain' \in Seq(Chunks) /\ Len(previousChain') = Len(previousChain) + 1
      /\ \A i \in 1..Len(previousChain) : previousChain'[i] = previousChain[i]
      /\ previousChain'[Len(previousChain) + 1] = queued[1].chunk
  <2> DEFINE c == queued[1].chunk
  <2>1. c \in Chunks /\ previousChain' = Append(previousChain, c) BY <1>1, <1>5
  <2> HIDE DEF c
  <2>2. /\ previousChain' \in Seq(Chunks) /\ Len(previousChain') = Len(previousChain) + 1
        /\ \A i \in 1..Len(previousChain) : previousChain'[i] = previousChain[i]
        /\ previousChain'[Len(previousChain) + 1] = c BY <1>5, <2>1
  <2>3. /\ queued' \in Seq(SealedChunks) /\ Len(queued') = Len(queued) - 1
        /\ \A i \in 1..(Len(queued) - 1) : queued'[i] = queued[i + 1] BY <1>1, <1>5
  <2> QED BY <2>2, <2>3 DEF c
<1>7. ASSUME NEW k \in 1..nextSequence PROVE Sealing(k)' = Sealing(k)
  <2>1. CASE k <= Len(previousChain)
    <3>1. k \in 1..Len(previousChain) /\ k <= Len(previousChain') BY <1>5, <1>6, <2>1
    <3> QED BY <1>6, <2>1, <3>1 DEF Sealing
  <2>2. CASE k = Len(previousChain) + 1
    <3>1. k <= Len(previousChain') BY <1>5, <1>6, <2>2
    <3>2. Sealing(k)' = queued[1].chunk BY <1>6, <2>2, <3>1 DEF Sealing
    <3> QED BY <1>5, <2>2, <3>2
  <2>3. CASE k > Len(previousChain) + 1
    <3>1. /\ ~(k <= Len(previousChain)) /\ ~(k <= Len(previousChain'))
          /\ k - Len(previousChain') \in 1..(Len(queued) - 1)
          /\ (k - Len(previousChain')) + 1 = k - Len(previousChain) BY <1>5, <1>6, <1>7, <2>3
    <3>2. queued'[k - Len(previousChain')] = queued[k - Len(previousChain)] BY <1>6, <3>1
    <3> QED BY <3>1, <3>2 DEF Sealing
  <2> QED BY <1>5, <2>1, <2>2, <2>3
<1> QED BY <1>7

(* A receipt moves the queue: it is always the head's. *)
LEMMA ReceiptKeepsChain == ASSUME CommitInv, Log!Receive PROVE CommitInv'
<1>1. RecorderTypes /\ ChainRuns /\ ServerFollows /\ OnTheWay /\ TailBounds BY DEF CommitInv
<1>2. PICK a \in answers : Log!ReceiveReceipt(a) BY DEF Log!Receive
<1>3. /\ queued # <<>> /\ Len(stored) = Len(previousChain) + 1
      /\ a.ok /\ a.chain = Append(previousChain, queued[1].chunk) BY <1>1 DEF OnTheWay
<1>4. /\ queued' = Tail(queued) /\ previousChain' = Append(previousChain, queued[1].chunk)
      /\ attempt' = 0 /\ answers' = {}
      /\ UNCHANGED <<now, pace, mutual, sealed, pending, nextSequence, requests, stored>>
  BY <1>2, <1>3 DEF Log!ReceiveReceipt, Log!simulation
<1>5. /\ queued \in Seq(SealedChunks) /\ previousChain \in Seq(Chunks)
      /\ nextSequence = Len(previousChain) + Len(queued)
      /\ Len(previousChain) \in Nat /\ Len(queued) \in Nat /\ nextSequence \in Nat
      /\ Len(previousChain) + 1 \in 1..nextSequence
      /\ Sealing(Len(previousChain) + 1) = queued[1].chunk
      /\ queued[1].chunk \in Chunks
  <2>1. queued[1] \in SealedChunks BY <1>1, <1>3 DEF RecorderTypes
  <2> QED BY <1>1, <1>3, <2>1, SealingIs DEF RecorderTypes, SealedChunks
<1>6. /\ queued' \in Seq(SealedChunks) /\ Len(queued') = Len(queued) - 1
      /\ \A i \in 1..(Len(queued) - 1) : queued'[i] = queued[i + 1]
      /\ previousChain' \in Seq(Chunks) /\ Len(previousChain') = Len(previousChain) + 1
      /\ \A i \in 1..Len(previousChain) : previousChain'[i] = previousChain[i]
      /\ previousChain'[Len(previousChain) + 1] = queued[1].chunk
  <2> DEFINE c == queued[1].chunk
  <2>1. c \in Chunks /\ previousChain' = Append(previousChain, c) BY <1>4, <1>5
  <2> HIDE DEF c
  <2>2. /\ previousChain' \in Seq(Chunks) /\ Len(previousChain') = Len(previousChain) + 1
        /\ \A i \in 1..Len(previousChain) : previousChain'[i] = previousChain[i]
        /\ previousChain'[Len(previousChain) + 1] = c BY <1>5, <2>1
  <2>3. /\ queued' \in Seq(SealedChunks) /\ Len(queued') = Len(queued) - 1
        /\ \A i \in 1..(Len(queued) - 1) : queued'[i] = queued[i + 1] BY <1>3, <1>4, <1>5
  <2> QED BY <2>2, <2>3 DEF c
<1>7. \A k \in 1..nextSequence : Sealing(k)' = Sealing(k) BY <1>1, <1>3, <1>4, ReceiptMoves
<1>8. \A k \in 1..nextSequence : SealedThrough(k - 1)' = SealedThrough(k - 1)
  <2> SUFFICES ASSUME NEW k \in 1..nextSequence PROVE SealedThrough(k - 1)' = SealedThrough(k - 1)
    OBVIOUS
  <2>1. \A j \in 1..(k - 1) : Sealing(j)' = Sealing(j) BY <1>5, <1>7
  <2> QED BY <2>1 DEF SealedThrough
<1>9. RecorderTypes'
  <2>1. nextSequence' = Len(previousChain') + Len(queued') BY <1>4, <1>5, <1>6
  <2> QED BY <1>1, <1>4, <1>6, <2>1 DEF RecorderTypes, Log!None
<1>10. ChainRuns'
  <2>1. ASSUME NEW k \in 1..nextSequence
        PROVE  /\ Sealing(k)'.sequence = k - 1
               /\ IF k = 1 THEN Sealing(k)'.epoch = 0 /\ Sealing(k)'.start = 0
                  ELSE Succeeds(Sealing(k)', Sealing(k - 1)')
    <3>1. k # 1 => k - 1 \in 1..nextSequence BY <1>5
    <3>2. k # 1 => Sealing(k - 1)' = Sealing(k - 1) BY <1>7, <3>1
    <3> QED BY <1>1, <1>7, <3>2 DEF ChainRuns
  <2>2. ASSUME pending # Log!None, NEW k \in Nat, k = nextSequence
        PROVE  IF k = 0 THEN pending.epoch = 0 /\ pending.start = 0
               ELSE Succeeds(pending, Sealing(k)')
    <3>1. k # 0 => k \in 1..nextSequence BY <1>5, <2>2
    <3> QED BY <1>1, <1>7, <2>2, <3>1 DEF ChainRuns
  <2> QED BY <1>4, <1>5, <2>1, <2>2, ChainRunsNext
<1>11. ServerFollows'
  <2>1. \A k \in DOMAIN stored : k \in 1..nextSequence
    BY <1>1, <1>5 DEF ServerFollows, RecorderTypes
  <2>2. \A k \in DOMAIN stored : stored[k].chunk = Sealing(k)' BY <1>1, <1>7, <2>1 DEF ServerFollows
  <2>3. Len(previousChain') <= Len(stored) /\ Len(stored) <= Len(previousChain') + 1 /\ Len(stored) <= nextSequence
    BY <1>1, <1>3, <1>5, <1>6 DEF ServerFollows
  <2> QED BY <1>4, <2>2, <2>3 DEF ServerFollows
<1>12. OnTheWay'
  <2>1. ASSUME NEW r \in requests
        PROVE  \E k \in 1..nextSequence :
                  k <= Len(previousChain') + 1 /\ r.chunk = Sealing(k)' /\ r.previous = SealedThrough(k - 1)'
    <3>1. PICK k \in 1..nextSequence :
              k <= Len(previousChain) + 1 /\ r.chunk = Sealing(k) /\ r.previous = SealedThrough(k - 1)
      BY <1>1 DEF OnTheWay
    <3>2. k <= Len(previousChain') + 1 BY <1>5, <1>6, <3>1
    <3> QED BY <1>7, <1>8, <3>1, <3>2
  <2> QED BY <1>4, <2>1 DEF OnTheWay
<1>13. TailBounds' BY <1>1, <1>4 DEF TailBounds, Log!None
<1> QED BY <1>9, <1>10, <1>11, <1>12, <1>13 DEF CommitInv

(* What the server makes of a request of this chain: a chunk it has is     *)
(* answered with the receipt it gave before, the next one is stored.       *)
LEMMA ServedIs ==
    ASSUME CommitInv, NEW r \in requests, NEW k \in 1..nextSequence,
           k <= Len(previousChain) + 1, r.chunk = Sealing(k), r.previous = SealedThrough(k - 1)
    PROVE  /\ k <= Len(stored) =>
                 /\ Log!Existing(r) # {}
                 /\ Log!Answer(r) = [ok |-> TRUE, chain |-> SealedThrough(k)]
           /\ k > Len(stored) =>
                 /\ k = Len(stored) + 1 /\ Len(stored) = Len(previousChain)
                 /\ Log!Existing(r) = {} /\ Log!Continues(r)
                 /\ Log!Answer(r) = [ok |-> TRUE, chain |-> Append(SealedThrough(k - 1), r.chunk)]
<1>1. RecorderTypes /\ ChainRuns /\ ServerFollows BY DEF CommitInv
<1>2. /\ Len(stored) \in Nat /\ DOMAIN stored = 1..Len(stored) /\ Len(previousChain) \in Nat /\ nextSequence \in Nat
      /\ Len(previousChain) <= Len(stored) /\ Len(stored) <= nextSequence
      /\ stored = <<>> <=> Len(stored) = 0 BY <1>1, SealingIs DEF RecorderTypes, ServerFollows
<1>3. \A i \in DOMAIN stored : stored[i].chunk = Sealing(i) /\ Sealing(i).sequence = i - 1
  BY <1>1, <1>2 DEF ServerFollows, ChainRuns
<1>4. r.chunk.sequence = k - 1 BY <1>1 DEF ChainRuns
<1>5. \A i \in DOMAIN stored : stored[i].chunk.sequence = r.chunk.sequence <=> i = k
  BY <1>2, <1>3, <1>4
<1>6. ASSUME k <= Len(stored)
      PROVE  /\ Log!Existing(r) # {}
             /\ Log!Answer(r) = [ok |-> TRUE, chain |-> SealedThrough(k)]
  <2>1. k \in DOMAIN stored BY <1>2, <1>6
  <2>2. Log!Existing(r) = {k} BY <1>5, <2>1 DEF Log!Existing
  <2>3. Log!ChainThrough(k - 1) = r.previous
    <3>1. k - 1 \in Nat /\ k - 1 <= Len(stored) BY <1>2, <1>6
    <3> QED BY <1>1, <3>1, StoredIs
  <2>4. stored[k].chunk = r.chunk BY <1>3, <2>1
  <2> DEFINE same == {i \in Log!Existing(r) : stored[i].chunk = r.chunk /\ Log!ChainThrough(i - 1) = r.previous}
  <2>5. same = {k} BY <2>2, <2>3, <2>4
  <2>6. Log!Answer(r) = [ok |-> TRUE, chain |-> Log!ChainThrough(CHOOSE i \in same : TRUE)]
    <3>1. Log!Answer(r) =
              IF Log!Existing(r) # {}
              THEN IF same # {} THEN [ok |-> TRUE, chain |-> Log!ChainThrough(CHOOSE i \in same : TRUE)]
                   ELSE [ok |-> FALSE, chain |-> <<>>]
              ELSE IF Log!Continues(r)
                   THEN [ok |-> TRUE, chain |-> Append(Log!ChainThrough(Len(stored)), r.chunk)]
                   ELSE [ok |-> FALSE, chain |-> <<>>] BY DEF Log!Answer
    <3> HIDE DEF same
    <3> QED BY <2>2, <2>5, <3>1
  <2> HIDE DEF same
  <2>7. (CHOOSE i \in same : TRUE) = k BY <2>5
  <2>8. Log!ChainThrough(k) = SealedThrough(k) BY <1>1, <1>2, <1>6, StoredIs
  <2> QED BY <2>2, <2>6, <2>7, <2>8
<1>7. ASSUME k > Len(stored)
      PROVE  /\ k = Len(stored) + 1 /\ Len(stored) = Len(previousChain)
             /\ Log!Existing(r) = {} /\ Log!Continues(r)
             /\ Log!Answer(r) = [ok |-> TRUE, chain |-> Append(SealedThrough(k - 1), r.chunk)]
  <2>1. k = Len(stored) + 1 /\ Len(stored) = Len(previousChain) BY <1>2, <1>7
  <2>2. Log!Existing(r) = {} BY <1>2, <1>5, <1>7 DEF Log!Existing
  <2>3. Log!ChainThrough(Len(stored)) = SealedThrough(k - 1)
    <3>1. k - 1 = Len(stored) BY <1>2, <2>1
    <3> QED BY <1>1, <1>2, <3>1, StoredIs
  <2>4. Log!Continues(r)
    <3>1. CASE stored = <<>>
      <4>1. k = 1 BY <1>2, <2>1, <3>1
      <4>2. Sealing(k).epoch = 0 /\ Sealing(k).start = 0 BY <1>1, <4>1 DEF ChainRuns
      <4>3. SealedThrough(k - 1) = <<>> BY <4>1 DEF SealedThrough
      <4> QED BY <1>4, <3>1, <4>1, <4>2, <4>3 DEF Log!Continues
    <3>2. CASE stored # <<>>
      <4>1. Len(stored) \in DOMAIN stored /\ Len(stored) = k - 1 /\ k # 1 BY <1>2, <2>1, <3>2
      <4>2. stored[Len(stored)].chunk = Sealing(k - 1) /\ Sealing(k - 1).sequence = k - 1 - 1
        BY <1>3, <4>1
      <4>3. Succeeds(r.chunk, Sealing(k - 1)) BY <1>1, <4>1 DEF ChainRuns
      <4>4. r.chunk.sequence = Sealing(k - 1).sequence + 1 BY <1>4, <4>2
      <4> QED BY <2>3, <3>2, <4>2, <4>3, <4>4 DEF Log!Continues, Succeeds
    <3> QED BY <3>1, <3>2
  <2> QED BY <2>1, <2>2, <2>3, <2>4 DEF Log!Answer
<1> QED BY <1>2, <1>6, <1>7

(* The server executes a request, late or again. *)
LEMMA ServeKeepsChain == ASSUME CommitInv, Log!Serve PROVE CommitInv'
<1>1. RecorderTypes /\ ChainRuns /\ ServerFollows /\ OnTheWay /\ TailBounds BY DEF CommitInv
<1>2. PICK r \in requests : Log!Execute(r) BY DEF Log!Serve
<1>3. PICK k \in 1..nextSequence :
          k <= Len(previousChain) + 1 /\ r.chunk = Sealing(k) /\ r.previous = SealedThrough(k - 1)
  BY <1>1 DEF OnTheWay
<1>4. /\ requests' = requests \ {r}
      /\ stored' = IF Log!Existing(r) = {} /\ Log!Continues(r)
                   THEN Append(stored, [chunk |-> r.chunk, receivedAt |-> now]) ELSE stored
      /\ answers' = IF r.attempt = attempt /\ queued # <<>> /\ r.chunk = queued[1].chunk
                    THEN {Log!Answer(r)} ELSE answers
      /\ UNCHANGED <<now, pace, mutual, sealed, pending, queued, nextSequence, previousChain, attempt>>
  BY <1>2 DEF Log!Execute, Log!simulation, Log!recorder
<1>5. /\ k <= Len(stored) =>
             /\ Log!Existing(r) # {}
             /\ Log!Answer(r) = [ok |-> TRUE, chain |-> SealedThrough(k)]
      /\ k > Len(stored) =>
             /\ k = Len(stored) + 1 /\ Len(stored) = Len(previousChain)
             /\ Log!Existing(r) = {} /\ Log!Continues(r)
             /\ Log!Answer(r) = [ok |-> TRUE, chain |-> Append(SealedThrough(k - 1), r.chunk)]
  BY <1>3, ServedIs
<1>6. /\ stored \in Seq([chunk : Chunks, receivedAt : Int]) /\ now \in Int /\ nextSequence \in Nat
      /\ Len(stored) \in Nat /\ Len(previousChain) \in Nat
      /\ Len(previousChain) <= Len(stored) /\ Len(stored) <= Len(previousChain) + 1 /\ Len(stored) <= nextSequence
  BY <1>1, SealingIs DEF RecorderTypes, ServerFollows
<1>7. \A j \in 1..nextSequence : Sealing(j)' = Sealing(j) /\ SealedThrough(j - 1)' = SealedThrough(j - 1)
  BY <1>4 DEF Sealing, SealedThrough
<1>8. ChainRuns' BY <1>1, <1>4 DEF ChainRuns, Sealing, Log!None
<1>9. TailBounds' BY <1>1, <1>4 DEF TailBounds, Log!None
<1>10. ASSUME NEW q \in requests'
       PROVE  \E j \in 1..nextSequence :
                 j <= Len(previousChain) + 1 /\ q.chunk = Sealing(j)' /\ q.previous = SealedThrough(j - 1)'
  BY <1>1, <1>4, <1>7 DEF OnTheWay
<1>11. ASSUME r.chunk = queued[1].chunk, queued # <<>>
       PROVE  /\ k = Len(previousChain) + 1
              /\ Append(SealedThrough(k - 1), r.chunk) = Append(previousChain, queued[1].chunk)
              /\ SealedThrough(k) = Append(previousChain, queued[1].chunk)
  <2>1. /\ Len(previousChain) + 1 \in 1..nextSequence
        /\ Sealing(Len(previousChain) + 1) = queued[1].chunk
        /\ SealedThrough(Len(previousChain) + 1) = Append(previousChain, queued[1].chunk)
        /\ SealedThrough(Len(previousChain)) = previousChain BY <1>1, <1>11, SealingIs
  <2>2. Sealing(k).sequence = k - 1 /\ Sealing(Len(previousChain) + 1).sequence = Len(previousChain) + 1 - 1
    BY <1>1, <2>1 DEF ChainRuns
  <2>3. k - 1 = Len(previousChain) + 1 - 1 BY <1>3, <1>11, <2>1, <2>2
  <2>4. k = Len(previousChain) + 1 /\ k - 1 = Len(previousChain) BY <1>6, <2>3
  <2> QED BY <1>11, <2>1, <2>4
<1>12. CASE k <= Len(stored)
  <2>1. stored' = stored BY <1>4, <1>5, <1>12
  <2>2. RecorderTypes' BY <1>1, <1>4, <2>1 DEF RecorderTypes, Log!None
  <2>3. ServerFollows' BY <1>1, <1>4, <2>1 DEF ServerFollows, Sealing
  <2>4. ASSUME NEW a \in answers'
        PROVE  /\ queued # <<>> /\ Len(stored) = Len(previousChain) + 1
               /\ a.ok /\ a.chain = Append(previousChain, queued[1].chunk)
    <3>1. CASE r.attempt = attempt /\ queued # <<>> /\ r.chunk = queued[1].chunk
      <4>1. a = [ok |-> TRUE, chain |-> SealedThrough(k)] BY <1>4, <1>5, <1>12, <2>4, <3>1
      <4>2. k = Len(previousChain) + 1 /\ SealedThrough(k) = Append(previousChain, queued[1].chunk)
        BY <1>11, <3>1
      <4>3. Len(stored) = Len(previousChain) + 1 BY <1>6, <1>12, <4>2
      <4> QED BY <3>1, <4>1, <4>2, <4>3
    <3>2. CASE ~(r.attempt = attempt /\ queued # <<>> /\ r.chunk = queued[1].chunk)
      <4>1. a \in answers BY <1>4, <2>4, <3>2
      <4> QED BY <1>1, <4>1 DEF OnTheWay
    <3> QED BY <3>1, <3>2
  <2>5. OnTheWay'
    <3>1. attempt > 0 => queued # <<>> BY <1>1 DEF OnTheWay
    <3> QED BY <1>4, <1>10, <2>1, <2>4, <3>1 DEF OnTheWay
  <2> QED BY <1>8, <1>9, <2>2, <2>3, <2>5 DEF CommitInv
<1>13. CASE k > Len(stored)
  <2> DEFINE e == [chunk |-> r.chunk, receivedAt |-> now]
  <2>1. stored' = Append(stored, e) BY <1>4, <1>5, <1>13
  <2>2. e \in [chunk : Chunks, receivedAt : Int] /\ e.chunk = Sealing(k)
    <3>1. Sealing(k) \in Chunks BY <1>1, SealingIs
    <3> QED BY <1>3, <1>6, <3>1
  <2> HIDE DEF e
  <2>3. /\ stored' \in Seq([chunk : Chunks, receivedAt : Int]) /\ Len(stored') = Len(stored) + 1
        /\ DOMAIN stored' = 1..(Len(stored) + 1)
        /\ \A i \in 1..Len(stored) : stored'[i] = stored[i]
        /\ stored'[Len(stored) + 1] = e BY <1>6, <2>1, <2>2
  <2>4. k = Len(stored) + 1 /\ Len(stored) = Len(previousChain) BY <1>5, <1>13
  <2>5. RecorderTypes' BY <1>1, <1>4, <2>3 DEF RecorderTypes, Log!None
  <2>6. ServerFollows'
    <3>1. /\ Len(previousChain) <= Len(stored') /\ Len(stored') <= Len(previousChain) + 1
          /\ Len(stored') <= nextSequence BY <1>6, <2>3, <2>4
    <3>2. ASSUME NEW i \in DOMAIN stored' PROVE stored'[i].chunk = Sealing(i)'
      <4>1. CASE i = k BY <1>7, <2>2, <2>3, <2>4, <4>1
      <4>2. CASE i # k
        <5>1. i \in 1..Len(stored) /\ i \in DOMAIN stored /\ i \in 1..nextSequence
          BY <1>6, <2>3, <2>4, <3>2, <4>2
        <5>2. stored[i].chunk = Sealing(i) BY <1>1, <5>1 DEF ServerFollows
        <5> QED BY <1>7, <2>3, <5>1, <5>2
      <4> QED BY <4>1, <4>2
    <3> QED BY <1>4, <3>1, <3>2 DEF ServerFollows
  <2>7. ASSUME NEW a \in answers'
        PROVE  /\ queued # <<>> /\ Len(stored') = Len(previousChain) + 1
               /\ a.ok /\ a.chain = Append(previousChain, queued[1].chunk)
    <3>1. answers = {}
      <4> SUFFICES ASSUME NEW b \in answers PROVE FALSE OBVIOUS
      <4>1. Len(stored) = Len(previousChain) + 1 BY <1>1 DEF OnTheWay
      <4> QED BY <1>6, <2>4, <4>1
    <3>2. r.attempt = attempt /\ queued # <<>> /\ r.chunk = queued[1].chunk BY <1>4, <2>7, <3>1
    <3>3. a = [ok |-> TRUE, chain |-> Append(SealedThrough(k - 1), r.chunk)]
      BY <1>4, <1>5, <1>13, <2>7, <3>2
    <3>4. Append(SealedThrough(k - 1), r.chunk) = Append(previousChain, queued[1].chunk)
      BY <1>11, <3>2
    <3> QED BY <2>3, <2>4, <3>2, <3>3, <3>4
  <2>8. OnTheWay'
    <3>1. attempt > 0 => queued # <<>> BY <1>1 DEF OnTheWay
    <3> QED BY <1>4, <1>10, <2>7, <3>1 DEF OnTheWay
  <2> QED BY <1>8, <1>9, <2>5, <2>6, <2>8 DEF CommitInv
<1> QED BY <1>6, <1>12, <1>13

(* The invariant survives every step of the client. *)
LEMMA CommitInvNext ==
    ASSUME CommitInv, [Session \/ Record \/ Fight]_all
    PROVE  CommitInv'
<1>1. CASE Record
  <2>1. CASE Log!SimulateFrame BY <2>1, FrameKeepsChain
  <2>2. CASE Log!Tick BY <2>2, TickKeepsChain
  <2>3. CASE Log!Confirm BY <2>3, ConfirmKeepsChain
  <2>4. CASE Log!EndRound BY <2>4, RoundKeepsChain
  <2>5. CASE Log!Submit BY <2>5, SubmitKeepsChain
  <2>6. CASE Log!LoseAttempt BY <2>6, LostKeepsChain
  <2>7. CASE Log!DropRequest BY <2>7, DropKeepsChain
  <2>8. CASE Log!Receive BY <2>8, ReceiptKeepsChain
  <2>9. CASE Log!Serve BY <2>9, ServeKeepsChain
  <2> QED BY <1>1, <2>1, <2>2, <2>3, <2>4, <2>5, <2>6, <2>7, <2>8, <2>9 DEF Record, Log!Next
<1>2. CASE Session \/ Fight \/ UNCHANGED all
  <2>1. UNCHANGED recording BY <1>2 DEF Session, Fight, all
  <2>2. now \in Int /\ mutual \in Int BY DEF CommitInv, RecorderTypes
  <2> QED BY <2>1, <2>2, PassingKeepsChain DEF recording
<1> QED BY <1>1, <1>2

(* Every state of the client satisfies the invariant of its recorder. *)
THEOREM CommitInvHolds == PlaySpec => []CommitInv
<1>1. PlayInit => CommitInv BY CommitInvInit DEF PlayInit
<1>2. CommitInv /\ [Session \/ Record \/ Fight]_all => CommitInv' BY CommitInvNext
<1> QED BY <1>1, <1>2, PTL DEF PlaySpec

(* The server's chain of commitments never forks from the recorder's: for  *)
(* any chunk and guard length, any number of attempts, and whatever is     *)
(* lost, repeated or late (appendRankedInputCommitment, drainQueue).       *)
THEOREM ChainNeverForksHolds == PlaySpec => []ChainNeverForks
<1>1. CommitInv => ChainNeverForks
  <2> SUFFICES ASSUME CommitInv PROVE Log!ChainNeverForks BY DEF ChainNeverForks
  <2>1. RecorderTypes /\ ServerFollows /\ OnTheWay BY DEF CommitInv
  <2>2. Len(stored) \in Nat /\ Len(previousChain) \in Nat BY <2>1, SealingIs DEF RecorderTypes
  <2>3. Log!ChainThrough(Len(stored)) = SealedThrough(Len(stored)) BY <2>1, <2>2, StoredIs
  <2>4. CASE Len(stored) = Len(previousChain)
    <3>1. Log!ChainThrough(Len(stored)) = previousChain BY <2>1, <2>3, <2>4, SealingIs
    <3> QED BY <2>1, <3>1 DEF Log!ChainNeverForks, OnTheWay
  <2>5. CASE Len(stored) # Len(previousChain)
    <3>1. Len(stored) = Len(previousChain) + 1 /\ Len(stored) <= nextSequence
      BY <2>1, <2>2, <2>5 DEF ServerFollows
    <3>2. queued # <<>> BY <2>1, <2>2, <3>1 DEF RecorderTypes
    <3>3. Log!ChainThrough(Len(stored)) = Append(previousChain, queued[1].chunk)
      BY <2>1, <2>3, <3>1, <3>2, SealingIs
    <3> QED BY <2>1, <3>2, <3>3 DEF Log!ChainNeverForks, OnTheWay
  <2> QED BY <2>4, <2>5
<1> QED BY <1>1, CommitInvHolds, PTL

(* No chunk is sealed that a late correction could cut: whichever confirmed *)
(* frame ends the round is still in the open tail, which never outgrows     *)
(* what may be submitted at once (queueFullPrefix, finalizeRound).          *)
THEOREM TailStaysOpenHolds == PlaySpec => []Log!TailStaysOpen
<1>1. CommitInv => Log!TailStaysOpen
  <2> SUFFICES ASSUME CommitInv, pending # Log!None
               PROVE  /\ \A f \in Log!FinalFrames : f >= pending.start
                      /\ pending.inputs <= Log!Burst BY DEF Log!TailStaysOpen
  <2>1. /\ pending.start >= 0 /\ (pending.start = 0 \/ pending.start <= sealed)
        /\ pending.inputs <= MaxFrames + Guard BY DEF CommitInv, TailBounds
  <2>2. pending.start \in Int /\ sealed \in Int /\ mutual \in Int BY DEF CommitInv, RecorderTypes
  <2>3. ASSUME NEW f \in Log!FinalFrames PROVE f >= pending.start
    BY <2>1, <2>2, <2>3 DEF Log!FinalFrames
  <2> QED BY <2>1, <2>3, CommitConstants
<1> QED BY <1>1, CommitInvHolds, PTL

-----------------------------------------------------------------------------
(* InputCommitments: what the verifier makes of the stored chain. *)

(* What the rounds must be after a step, with the number of chunks named. *)
LEMMA RoundsInvNext ==
    ASSUME nextSequence' \in Nat, lengths' \in Seq(Nat),
           pending' # Log!None => pending'.epoch = Len(lengths'),
           pending' = Log!None =>
              \A k \in Nat : k = nextSequence' =>
                 k > 0 /\ Sealing(k)'.final /\ Sealing(k)'.epoch + 1 = Len(lengths'),
           \A k \in 1..nextSequence' : WithinRound(Sealing(k))'
    PROVE  RoundsInv'
<1>1. PICK k \in Nat : k = nextSequence' OBVIOUS
<1>2. Sealing(nextSequence)' = Sealing(k)' BY <1>1 DEF Sealing
<1>3. pending' = Log!None =>
          /\ nextSequence' > 0
          /\ Sealing(nextSequence)'.final /\ Sealing(nextSequence)'.epoch + 1 = Len(lengths')
  BY <1>1, <1>2
<1> QED BY <1>3 DEF RoundsInv, Log!None

(* Nothing is sealed before the first frame. *)
LEMMA RoundsInvInit == Log!Init => RoundsInv BY CommitConstants DEF Log!Init, RoundsInv, Log!None

(* A step that seals nothing. *)
LEMMA PassingKeepsRounds ==
    ASSUME CommitInv, RoundsInv, UNCHANGED <<lengths, pending, nextSequence>>,
           \A k \in 1..nextSequence : Sealing(k)' = Sealing(k)
    PROVE  RoundsInv'
<1>1. nextSequence \in Nat BY SealingIs DEF CommitInv
<1>2. ASSUME pending' = Log!None, NEW k \in Nat, k = nextSequence'
      PROVE  k > 0 /\ Sealing(k)'.final /\ Sealing(k)'.epoch + 1 = Len(lengths')
  <2>1. k = nextSequence /\ pending = Log!None BY <1>2
  <2>2. k > 0 /\ Sealing(k).final /\ Sealing(k).epoch + 1 = Len(lengths) BY <2>1 DEF RoundsInv
  <2>3. Sealing(k)' = Sealing(k) BY <1>1, <2>1, <2>2
  <2> QED BY <2>2, <2>3
<1>3. ASSUME NEW k \in 1..nextSequence' PROVE WithinRound(Sealing(k))'
  <2>1. Sealing(k)' = Sealing(k) /\ WithinRound(Sealing(k)) BY <1>3 DEF RoundsInv
  <2> QED BY <2>1 DEF WithinRound, Log!None
<1>4. /\ nextSequence' \in Nat /\ lengths' \in Seq(Nat)
      /\ pending' # Log!None => pending'.epoch = Len(lengths') BY <1>1 DEF RoundsInv
<1> QED BY <1>1, <1>2, <1>3, <1>4, RoundsInvNext

(* A frame is recorded: what is sealed ends before the tail that is left. *)
LEMMA FrameKeepsRounds == ASSUME CommitInv, RoundsInv, Log!SimulateFrame PROVE RoundsInv'
<1> DEFINE n == Log!Sealable(pending, sealed)
           cs == Log!FullChunks(pending, n)
<1>1. /\ RecorderTypes /\ TailBounds /\ pending # Log!None
      /\ Log!Queue(cs) /\ UNCHANGED <<lengths, previousChain>>
      /\ pending' = [pending EXCEPT !.start = @ + n * MaxFrames, !.inputs = @ - n * MaxFrames + 1]
  BY DEF CommitInv, Log!SimulateFrame
<1>2. /\ pending \in [epoch : Int, start : Int, inputs : Nat] /\ sealed \in Int
      /\ nextSequence \in Nat /\ MaxFrames \in Nat \ {0} /\ lengths \in Seq(Nat)
  BY <1>1, CommitConstants, SealingIs DEF RecorderTypes, RoundsInv
<1>3. n \in Nat BY <1>2, SealableIs
<1> HIDE DEF n
<1>4. /\ cs \in Seq(Chunks) /\ Len(cs) = n
      /\ \A i \in 1..n : cs[i] = FullChunk(pending, i)
  <2>1. nextSequence \in Int BY <1>2
  <2> QED BY <1>2, <1>3, <2>1, FullChunksAre
<1> HIDE DEF cs
<1>5. /\ nextSequence' = nextSequence + n
      /\ \A k \in 1..nextSequence : Sealing(k)' = Sealing(k)
      /\ \A k \in Int : k - nextSequence \in 1..n => Sealing(k)' = cs[k - nextSequence]
  BY <1>1, <1>4, QueueExtends
<1>6. /\ pending' # Log!None /\ pending'.epoch = pending.epoch
      /\ pending'.start = pending.start + n * MaxFrames
  <2> DEFINE moved == [pending EXCEPT !.start = @ + n * MaxFrames]
  <2>1. /\ moved \in [epoch : Int, start : Int, inputs : Nat]
        /\ moved.epoch = pending.epoch /\ moved.start = pending.start + n * MaxFrames
        /\ moved.inputs = pending.inputs BY <1>2, <1>3
  <2>2. pending' = [moved EXCEPT !.inputs = pending.inputs - n * MaxFrames + 1] BY <1>1, <1>2
  <2> HIDE DEF moved
  <2>3. "start" \in DOMAIN moved /\ DOMAIN pending' = DOMAIN moved BY <2>1, <2>2
  <2>4. pending' # Log!None BY <2>3, CommitConstants
  <2> QED BY <2>1, <2>2, <2>4
<1>7. \A i \in 1..n : i * MaxFrames \in Nat /\ i * MaxFrames <= n * MaxFrames BY <1>2, <1>3
<1>8. n * MaxFrames \in Nat BY <1>2, <1>3
<1>9. ASSUME NEW k \in 1..nextSequence' PROVE WithinRound(Sealing(k))'
  <2>1. CASE k <= nextSequence
    <3>1. k \in 1..nextSequence BY <1>2, <2>1, <1>9
    <3>2. Sealing(k)' = Sealing(k) /\ WithinRound(Sealing(k)) /\ Sealing(k).end \in Int
      BY <1>1, <1>5, <3>1, SealingIs DEF RoundsInv, Chunks
    <3>3. pending.start <= pending'.start BY <1>2, <1>6, <1>8
    <3>4. pending'.start \in Int /\ pending.start \in Int BY <1>2, <1>6, <1>8
    <3> QED BY <1>1, <1>6, <3>2, <3>3, <3>4 DEF WithinRound, Log!None
  <2>2. CASE k > nextSequence
    <3> DEFINE i == k - nextSequence
    <3>1. i \in 1..n /\ k \in Int BY <1>2, <1>3, <1>5, <1>9, <2>2
    <3>2. Sealing(k)' = cs[i] BY <1>5, <3>1
    <3>3. cs[i].epoch = Len(lengths) /\ ~cs[i].final /\ cs[i].end = pending.start + i * MaxFrames - 1
      BY <1>1, <1>4, <3>1 DEF RoundsInv, FullChunk
    <3> HIDE DEF i
    <3>4. cs[i].end < pending'.start BY <1>2, <1>6, <1>7, <1>8, <3>1, <3>3
    <3>5. Len(lengths) \in Nat BY <1>2
    <3> QED BY <1>1, <1>6, <3>2, <3>3, <3>4, <3>5 DEF WithinRound, Log!None
  <2> QED BY <1>2, <2>1, <2>2, <1>9, <1>5
<1>10. /\ nextSequence' \in Nat /\ lengths' \in Seq(Nat) /\ pending'.epoch = Len(lengths')
  BY <1>1, <1>2, <1>3, <1>5, <1>6 DEF RoundsInv
<1> QED BY <1>6, <1>9, <1>10, RoundsInvNext

(* A round ends where the archive allows it: behind every chunk that was   *)
(* sealed, and with the last of those that are sealed now.                 *)
LEMMA RoundKeepsRounds == ASSUME CommitInv, RoundsInv, Log!EndRound PROVE RoundsInv'
<1>1. RecorderTypes /\ TailBounds BY DEF CommitInv
<1> USE DEF RoundEnded
<1>2. PICK f, cs : RoundEnded(f, cs) BY EndedRound
<1>3. /\ nextSequence \in Nat /\ MaxFrames \in Nat \ {0} /\ Len(cs) \in Nat
      /\ lengths \in Seq(Nat) /\ Len(lengths) \in Nat /\ pending.epoch = Len(lengths)
      /\ f \in Nat /\ pending.start \in Int /\ pending.start <= f
  BY <1>1, <1>2, CommitConstants, SealingIs DEF RoundsInv
<1>4. /\ nextSequence' = nextSequence + Len(cs)
      /\ \A k \in 1..nextSequence : Sealing(k)' = Sealing(k)
      /\ \A k \in Int : k - nextSequence \in 1..Len(cs) => Sealing(k)' = cs[k - nextSequence]
  BY <1>1, <1>2, QueueExtends
<1>5. /\ lengths' \in Seq(Nat) /\ Len(lengths') = Len(lengths) + 1
      /\ \A e \in 1..Len(lengths) : lengths'[e] = lengths[e]
      /\ lengths'[Len(lengths) + 1] = f + 1
  <2>1. f + 1 \in Nat BY <1>3
  <2> QED BY <1>3, <1>2, <2>1
<1>6. pending' # Log!None => pending'.epoch = Len(lengths') BY <1>3, <1>2, <1>5
<1>7. ASSUME NEW i \in 1..Len(cs), i < Len(cs) PROVE cs[i].end < f
  <2>1. i * MaxFrames <= (Len(cs) - 1) * MaxFrames /\ i * MaxFrames \in Nat /\ (Len(cs) - 1) * MaxFrames \in Nat
    BY <1>3, <1>7
  <2>2. cs[i].end = pending.start + i * MaxFrames - 1 /\ (Len(cs) - 1) * MaxFrames <= f - pending.start
    BY <1>2, <1>7
  <2> QED BY <1>3, <2>1, <2>2
<1>8. ASSUME NEW k \in 1..nextSequence' PROVE WithinRound(Sealing(k))'
  <2>1. CASE k <= nextSequence
    <3>1. k \in 1..nextSequence BY <1>3, <2>1, <1>8
    <3>2. Sealing(k)' = Sealing(k) /\ WithinRound(Sealing(k)) /\ Sealing(k) \in Chunks
      BY <1>1, <1>4, <3>1, SealingIs DEF RoundsInv
    <3> DEFINE c == Sealing(k)
    <3>3. c.end \in Int /\ c.epoch \in Int /\ c.final \in BOOLEAN /\ 0 <= c.epoch
      BY <3>2 DEF Chunks, WithinRound
    <3>4. c.epoch < Len(lengths') /\ c.end < lengths'[c.epoch + 1] /\ (c.final <=> c.end = lengths'[c.epoch + 1] - 1)
      <4>1. CASE c.epoch < Len(lengths) /\ c.end < lengths[c.epoch + 1]
                 /\ (c.final <=> c.end = lengths[c.epoch + 1] - 1)
        <5>1. c.epoch + 1 \in 1..Len(lengths) BY <1>3, <3>3, <4>1
        <5>2. lengths'[c.epoch + 1] = lengths[c.epoch + 1] BY <1>5, <5>1
        <5> QED BY <1>3, <1>5, <3>3, <4>1, <5>2
      <4>2. CASE c.epoch = Len(lengths) /\ ~c.final /\ c.end < pending.start
        <5>1. lengths'[c.epoch + 1] = f + 1 /\ c.end < f BY <1>3, <1>5, <3>3, <4>2
        <5> HIDE DEF c
        <5>2. c.end < lengths'[c.epoch + 1] /\ c.epoch < Len(lengths')
          BY <1>3, <1>5, <3>3, <4>2, <5>1
        <5>3. c.end # lengths'[c.epoch + 1] - 1 BY <1>3, <3>3, <5>1
        <5> QED BY <4>2, <5>2, <5>3
      <4> QED BY <3>2, <4>1, <4>2 DEF WithinRound
    <3> QED BY <3>2, <3>3, <3>4 DEF WithinRound
  <2>2. CASE k > nextSequence
    <3> DEFINE i == k - nextSequence
    <3>1. i \in 1..Len(cs) /\ k \in Int BY <1>3, <1>4, <1>8, <2>2
    <3>2. Sealing(k)' = cs[i] /\ cs[i].epoch = Len(lengths) /\ cs[i] \in Chunks
      BY <1>3, <1>2, <1>4, <3>1
    <3> HIDE DEF i
    <3>3. cs[i].final \in BOOLEAN /\ cs[i].end \in Int BY <3>2 DEF Chunks
    <3>4. cs[i].end < f + 1 /\ (cs[i].final <=> cs[i].end = f + 1 - 1)
      <4>1. CASE i = Len(cs)
        <5>1. cs[i].end = f /\ cs[i].final BY <1>2, <4>1
        <5> QED BY <1>3, <3>3, <5>1
      <4>2. CASE i # Len(cs)
        <5>1. i < Len(cs) BY <1>3, <3>1, <4>2
        <5>2. cs[i].end < f /\ ~cs[i].final BY <1>2, <1>7, <3>1, <5>1
        <5> QED BY <1>3, <3>3, <5>2
      <4> QED BY <4>1, <4>2
    <3>5. 0 <= Len(lengths) /\ Len(lengths) < Len(lengths') BY <1>3, <1>5
    <3>6. lengths'[cs[i].epoch + 1] = f + 1 BY <1>5, <3>2
    <3> DEFINE d == cs[i]
    <3>7. /\ Sealing(k)' = d /\ 0 <= d.epoch /\ d.epoch < Len(lengths') /\ d.end < lengths'[d.epoch + 1]
          /\ d.final <=> d.end = lengths'[d.epoch + 1] - 1
      <4>1. 0 <= d.epoch /\ d.epoch < Len(lengths') BY <3>2, <3>5
      <4>2. d.end < lengths'[d.epoch + 1] BY <3>4, <3>6
      <4>3. d.final <=> d.end = lengths'[d.epoch + 1] - 1
        <5>1. d.final <=> d.end = f + 1 - 1 BY <3>4
        <5>2. lengths'[d.epoch + 1] - 1 = f + 1 - 1 BY <1>3, <3>6
        <5> QED BY <5>1, <5>2
      <4> QED BY <3>2, <4>1, <4>2, <4>3
    <3> HIDE DEF d
    <3> QED BY <3>7 DEF WithinRound
  <2> QED BY <1>3, <2>1, <2>2, <1>8, <1>4
<1>9. ASSUME pending' = Log!None, NEW k \in Nat, k = nextSequence'
      PROVE  k > 0 /\ Sealing(k)'.final /\ Sealing(k)'.epoch + 1 = Len(lengths')
  <2>1. k - nextSequence = Len(cs) /\ k - nextSequence \in 1..Len(cs) /\ k > 0 /\ k \in Int
    BY <1>3, <1>2, <1>4, <1>9
  <2>2. Sealing(k)' = cs[Len(cs)] BY <1>4, <2>1
  <2>3. cs[Len(cs)].final /\ cs[Len(cs)].epoch = Len(lengths) BY <1>3, <1>2, <2>1
  <2> QED BY <1>5, <2>1, <2>2, <2>3
<1>10. nextSequence' \in Nat BY <1>3, <1>4
<1> QED BY <1>5, <1>6, <1>8, <1>9, <1>10, RoundsInvNext

(* The rounds survive every step of the client. *)
LEMMA RoundsInvStep ==
    ASSUME CommitInv, RoundsInv, [Session \/ Record \/ Fight]_all
    PROVE  RoundsInv'
<1>1. CASE Log!SimulateFrame BY <1>1, FrameKeepsRounds
<1>2. CASE Log!EndRound BY <1>2, RoundKeepsRounds
<1>3. CASE Log!Receive
  <2>1. RecorderTypes /\ OnTheWay BY DEF CommitInv
  <2>2. PICK a \in answers : Log!ReceiveReceipt(a) BY <1>3 DEF Log!Receive
  <2>3. /\ queued # <<>> /\ queued' = Tail(queued) /\ previousChain' = Append(previousChain, queued[1].chunk)
        /\ UNCHANGED <<lengths, pending, nextSequence>>
    BY <2>1, <2>2 DEF OnTheWay, Log!ReceiveReceipt, Log!simulation
  <2>4. \A k \in 1..nextSequence : Sealing(k)' = Sealing(k) BY <2>1, <2>3, ReceiptMoves
  <2> QED BY <2>3, <2>4, PassingKeepsRounds
<1>4. CASE UNCHANGED <<lengths, pending, queued, nextSequence, previousChain>>
  <2>1. \A k \in 1..nextSequence : Sealing(k)' = Sealing(k) BY <1>4 DEF Sealing
  <2> QED BY <1>4, <2>1, PassingKeepsRounds
<1>5. CASE Log!Tick \/ Log!Confirm \/ Log!Submit \/ Log!LoseAttempt
           \/ Log!DropRequest \/ Log!Serve
  <2>1. UNCHANGED <<lengths, pending, queued, nextSequence, previousChain>>
    BY <1>5 DEF Log!Tick, Log!Confirm, Log!Submit, Log!LoseAttempt, Log!DropRequest, Log!Serve,
       Log!Execute, Log!simulation, Log!recorder
  <2> QED BY <1>4, <2>1
<1>6. CASE Session \/ Fight \/ UNCHANGED all
  <2>1. UNCHANGED recording BY <1>6 DEF Session, Fight, all
  <2> QED BY <1>4, <2>1 DEF recording
<1>7. CASE Record BY <1>1, <1>2, <1>3, <1>5, <1>7 DEF Record, Log!Next
<1> QED BY <1>6, <1>7

(* What a request does to the stored chain: nothing, or its chunk becomes  *)
(* the next one, received now.                                             *)
LEMMA ServedNow ==
    ASSUME CommitInv, Log!Serve
    PROVE  /\ UNCHANGED <<now, delay, waits, pace, mutual, sealed, lengths, pending, queued, nextSequence, previousChain, failed, attempt>>
           /\ \/ stored' = stored
              \/ /\ Len(stored) < nextSequence /\ Len(stored') = Len(stored) + 1
                 /\ \A k \in 1..Len(stored) : stored'[k] = stored[k]
                 /\ stored'[Len(stored) + 1].receivedAt = now
<1>1. PICK r \in requests : Log!Execute(r) BY DEF Log!Serve
<1>2. RecorderTypes /\ ServerFollows /\ OnTheWay BY DEF CommitInv
<1>3. PICK k \in 1..nextSequence :
          k <= Len(previousChain) + 1 /\ r.chunk = Sealing(k) /\ r.previous = SealedThrough(k - 1)
  BY <1>2 DEF OnTheWay
<1>4. /\ k <= Len(stored) => Log!Existing(r) # {}
      /\ k > Len(stored) => k = Len(stored) + 1 BY <1>3, ServedIs
<1>5. /\ stored \in Seq([chunk : Chunks, receivedAt : Int]) /\ now \in Int /\ nextSequence \in Nat
      /\ Len(stored) \in Nat /\ Sealing(k) \in Chunks BY <1>2, SealingIs DEF RecorderTypes
<1>6. /\ UNCHANGED <<now, delay, waits, pace, mutual, sealed, lengths, pending, queued, nextSequence, previousChain, failed, attempt>>
      /\ \/ stored' = stored
         \/ Log!Existing(r) = {} /\ stored' = Append(stored, [chunk |-> r.chunk, receivedAt |-> now])
  BY <1>1 DEF Log!Execute, Log!simulation, Log!recorder
<1>7. CASE Log!Existing(r) = {} /\ stored' = Append(stored, [chunk |-> r.chunk, receivedAt |-> now])
  <2> DEFINE e == [chunk |-> r.chunk, receivedAt |-> now]
  <2>1. e \in [chunk : Chunks, receivedAt : Int] /\ e.receivedAt = now /\ stored' = Append(stored, e)
    BY <1>3, <1>5, <1>7
  <2> HIDE DEF e
  <2>2. /\ Len(stored') = Len(stored) + 1 /\ stored'[Len(stored) + 1] = e
        /\ \A j \in 1..Len(stored) : stored'[j] = stored[j] BY <1>5, <2>1
  <2>3. Len(stored) < nextSequence BY <1>3, <1>4, <1>5, <1>7
  <2> QED BY <1>6, <2>1, <2>2, <2>3
<1> QED BY <1>6, <1>7

(* Time passes, and what arrives next arrives now. *)
LEMMA ClockInvStep ==
    ASSUME CommitInv, ClockInv, [Session \/ Record \/ Fight]_all
    PROVE  ClockInv'
<1>1. now \in Int /\ stored \in Seq([chunk : Chunks, receivedAt : Int]) /\ Len(stored) \in Nat
      /\ \A k \in 1..Len(stored) : stored[k].receivedAt \in Int
  <2> DEFINE S == [chunk : Chunks, receivedAt : Int]
  <2>1. now \in Int /\ stored \in Seq(S) BY DEF CommitInv, RecorderTypes
  <2>2. \A e \in S : e.receivedAt \in Int OBVIOUS
  <2> HIDE DEF S
  <2>3. \A k \in 1..Len(stored) : stored[k] \in S BY <2>1
  <2>4. \A k \in 1..Len(stored) : stored[k].receivedAt \in Int BY <2>2, <2>3
  <2>5. Len(stored) \in Nat BY <2>1
  <2> QED BY <2>1, <2>4, <2>5 DEF S
<1>2. CASE stored' = stored /\ now' \in {now, now + 1}
  <2>1. \A k \in 1..Len(stored) : stored[k].receivedAt <= now' BY <1>1, <1>2 DEF ClockInv
  <2> QED BY <1>2, <2>1 DEF ClockInv
<1>3. CASE Log!Serve
  <2>1. CASE stored' = stored BY <1>2, <1>3, <2>1, ServedNow
  <2>2. CASE stored' # stored
    <3>1. /\ now' = now /\ Len(stored') = Len(stored) + 1
          /\ \A k \in 1..Len(stored) : stored'[k] = stored[k]
          /\ stored'[Len(stored) + 1].receivedAt = now BY <1>3, <2>2, ServedNow
    <3>2. ASSUME NEW k \in 1..Len(stored')
          PROVE  /\ stored'[k].receivedAt <= now
                 /\ k > 1 => stored'[k - 1].receivedAt <= stored'[k].receivedAt
      <4>1. CASE k <= Len(stored)
        <5>1. k \in 1..Len(stored) /\ (k > 1 => k - 1 \in 1..Len(stored)) BY <1>1, <3>2, <4>1
        <5> QED BY <3>1, <5>1 DEF ClockInv
      <4>2. CASE k > Len(stored)
        <5>1. k = Len(stored) + 1 /\ (k > 1 => k - 1 \in 1..Len(stored)) BY <1>1, <3>1, <3>2, <4>2
        <5> QED BY <1>1, <3>1, <5>1 DEF ClockInv
      <4> QED BY <1>1, <3>2, <4>1, <4>2
    <3> QED BY <3>1, <3>2 DEF ClockInv
  <2> QED BY <2>1, <2>2
<1>4. CASE Log!SimulateFrame \/ Log!Tick \/ Log!Confirm \/ Log!EndRound
           \/ Log!Submit \/ Log!LoseAttempt \/ Log!DropRequest \/ Log!Receive
  <2>1. stored' = stored /\ now' \in {now, now + 1}
    BY <1>4 DEF Log!SimulateFrame, Log!Tick, Log!Confirm, Log!EndRound, Log!FinalizeRound,
       Log!Submit, Log!LoseAttempt, Log!DropRequest, Log!Receive, Log!ReceiveReceipt
  <2> QED BY <1>2, <2>1
<1>5. CASE Session \/ Fight \/ UNCHANGED all
  <2>1. UNCHANGED recording BY <1>5 DEF Session, Fight, all
  <2> QED BY <1>2, <2>1 DEF recording
<1> QED BY <1>3, <1>4, <1>5 DEF Record, Log!Next

(* The stored chain of a flushed match covers its proof, frame for frame   *)
(* and round for round, for any chunk and guard length and whatever became *)
(* of the submissions (verifyRankedInputCommitmentCoverage).               *)
THEOREM EvidenceCoversHolds == PlaySpec => [](Log!Flushed => Log!Covers(stored, lengths))
<1>1. CommitInv /\ RoundsInv /\ ClockInv => (Log!Flushed => Log!Covers(stored, lengths))
  <2> SUFFICES ASSUME CommitInv, RoundsInv, ClockInv, pending = Log!None, queued = <<>>
               PROVE  Log!Covers(stored, lengths) BY DEF Log!Flushed
  <2>1. RecorderTypes /\ ChainRuns /\ ServerFollows BY DEF CommitInv
  <2> DEFINE n == Len(stored)
  <2>2. /\ n \in Nat /\ n = nextSequence /\ n > 0 /\ DOMAIN stored = 1..n /\ stored # <<>>
        /\ \A k \in 1..n : stored[k].chunk = Sealing(k) /\ Sealing(k) \in Chunks
    BY <2>1, SealingIs DEF RecorderTypes, ServerFollows, RoundsInv
  <2>3. lengths \in Seq(Nat) /\ Len(lengths) \in Nat /\ DOMAIN lengths = 1..Len(lengths)
    BY DEF RoundsInv
  <2> HIDE DEF n
  <2>4. ASSUME NEW k \in 1..n
        PROVE  LET c == stored[k].chunk
               IN  /\ c.sequence = k - 1
                   /\ IF k = 1 THEN c.epoch = 0 /\ c.start = 0
                      ELSE LET last == stored[k - 1].chunk
                           IN  IF last.final THEN c.epoch = last.epoch + 1 /\ c.start = 0
                               ELSE c.epoch = last.epoch /\ c.start = last.end + 1
                   /\ k > 1 => stored[k - 1].receivedAt <= stored[k].receivedAt
                   /\ c.epoch + 1 \in DOMAIN lengths
                   /\ c.end < lengths[c.epoch + 1]
                   /\ c.final = (c.end = lengths[c.epoch + 1] - 1)
    <3> DEFINE c == stored[k].chunk
    <3>1. c = Sealing(k) /\ c.final \in BOOLEAN /\ c.epoch \in Int BY <2>2 DEF Chunks
    <3>2. WithinRound(c) BY <2>2, <3>1 DEF RoundsInv
    <3>3. c.sequence = k - 1 /\ (k = 1 => c.epoch = 0 /\ c.start = 0)
      BY <2>1, <2>2, <3>1 DEF ChainRuns
    <3>4. k # 1 => Succeeds(c, stored[k - 1].chunk)
      <4>1. k # 1 => k - 1 \in 1..n /\ k \in 1..nextSequence BY <2>2
      <4> QED BY <2>1, <2>2, <3>1, <4>1 DEF ChainRuns
    <3> HIDE DEF c
    <3>5. /\ 0 <= c.epoch /\ c.epoch < Len(lengths) /\ c.end < lengths[c.epoch + 1]
          /\ c.final <=> c.end = lengths[c.epoch + 1] - 1 BY <3>2 DEF WithinRound
    <3>6. c.final = (c.end = lengths[c.epoch + 1] - 1) BY <3>1, <3>5, Zenon
    <3>7. c.epoch + 1 \in DOMAIN lengths BY <2>3, <3>1, <3>5
    <3>8. IF k = 1 THEN c.epoch = 0 /\ c.start = 0
          ELSE LET last == stored[k - 1].chunk
               IN  IF last.final THEN c.epoch = last.epoch + 1 /\ c.start = 0
                   ELSE c.epoch = last.epoch /\ c.start = last.end + 1 BY <3>3, <3>4 DEF Succeeds
    <3>9. k > 1 => stored[k - 1].receivedAt <= stored[k].receivedAt BY DEF ClockInv, n
    <3> QED BY <3>3, <3>5, <3>6, <3>7, <3>8, <3>9 DEF c
  <2>5. stored[n].chunk.final /\ stored[n].chunk.epoch + 1 = Len(lengths)
    <3>1. Sealing(n).final /\ Sealing(n).epoch + 1 = Len(lengths) /\ n \in 1..n
      BY <2>2 DEF RoundsInv
    <3> QED BY <2>2, <3>1
  <2> QED BY <2>2, <2>4, <2>5 DEF Log!Covers, n
<1>2. PlayInit => RoundsInv /\ ClockInv
  <2>1. Log!Init => ClockInv BY DEF Log!Init, ClockInv
  <2> QED BY <2>1, RoundsInvInit DEF PlayInit
<1>3. CommitInv /\ RoundsInv /\ [Session \/ Record \/ Fight]_all => RoundsInv' BY RoundsInvStep
<1>4. CommitInv /\ ClockInv /\ [Session \/ Record \/ Fight]_all => ClockInv' BY ClockInvStep
<1> QED BY <1>1, <1>2, <1>3, <1>4, CommitInvHolds, PTL DEF PlaySpec

(* The constants that the clock depends on. *)
LEMMA PaceConstants ==
    /\ Replenish \in Nat \ {0} /\ Rounds \in Nat \ {0} /\ Transition \in Nat /\ MaxLag \in Nat
    /\ MaxFrames \in Nat \ {0} /\ Guard \in Nat \ {0} /\ MaxFrames + Guard \in Nat
    /\ \A m \in Int : m * Replenish \in Int BY PlayAssumption DEF Log!CommitmentAssumption

(* The numbers of an account. *)
LEMMA AccountNumbers ==
    ASSUME CommitInv, NEW at, NEW credit, NEW count, Account(at, credit, count)
    PROVE  /\ nextSequence \in Nat /\ now \in Int /\ Len(stored) \in Nat /\ Len(stored) <= nextSequence
           /\ \A k \in 1..nextSequence : Received(k) \in Int /\ Spent(k) \in Int
           /\ \A k \in 0..nextSequence : at[k] \in Int /\ credit[k] \in Int /\ count[k] \in Int
           /\ at[nextSequence] <= now
           /\ Available(at, credit) \in Int /\ Available(at, credit) <= MaxFrames + Guard
<1>1. RecorderTypes /\ ServerFollows BY DEF CommitInv
<1>2. nextSequence \in Nat /\ now \in Int /\ Len(stored) \in Nat /\ Len(stored) <= nextSequence
  BY <1>1, SealingIs DEF RecorderTypes, ServerFollows
<1>3. ASSUME NEW k \in 1..nextSequence PROVE Received(k) \in Int /\ Spent(k) \in Int
  <2> DEFINE S == [chunk : Chunks, receivedAt : Int]
  <2>1. stored \in Seq(S) /\ \A e \in S : e.receivedAt \in Int BY <1>1 DEF RecorderTypes
  <2> HIDE DEF S
  <2>2. k <= Len(stored) => stored[k] \in S BY <1>2, <2>1
  <2>3. Received(k) \in Int BY <1>2, <2>1, <2>2 DEF Received
  <2>4. Sealing(k) \in Chunks BY <1>1, SealingIs
  <2>5. Sealing(k).end \in Int /\ Sealing(k).start \in Int BY <2>4 DEF Chunks
  <2> QED BY <2>3, <2>5 DEF Spent, Log!Frames
<1>4. /\ \A k \in 0..nextSequence : at[k] \in Int /\ credit[k] \in Int /\ count[k] \in Int
      /\ at[nextSequence] <= now BY DEF Account
<1>5. Available(at, credit) \in Int /\ Available(at, credit) <= MaxFrames + Guard
  <2>1. nextSequence \in 0..nextSequence BY <1>2
  <2>2. credit[nextSequence] \in Int /\ at[nextSequence] \in Int BY <1>4, <2>1
  <2> QED BY <1>2, <2>2, PaceConstants DEF Available, Lesser
<1> QED BY <1>2, <1>3, <1>4, <1>5

(* A step that seals no chunk leaves the account alone. *)
LEMMA AccountStays ==
    ASSUME CommitInv, NEW at, NEW credit, NEW count, Account(at, credit, count),
           nextSequence' = nextSequence, now' \in {now, now + 1},
           \A k \in 1..nextSequence : Sealing(k)' = Sealing(k)
    PROVE  Account(at, credit, count)'
<1>1. \A k \in 1..nextSequence : Spent(k)' = Spent(k) BY DEF Spent, Log!Frames
<1>2. at[nextSequence'] <= now'
  <2>1. nextSequence \in 0..nextSequence /\ now \in Int /\ at[nextSequence] <= now BY AccountNumbers
  <2>2. at[nextSequence] \in Int BY <2>1, AccountNumbers
  <2> QED BY <2>1, <2>2
<1> QED BY <1>1, <1>2 DEF Account, Lesser

(* Chunks that are sealed at once, and that the credit covers, extend the  *)
(* account.                                                                *)
LEMMA AccountGrows ==
    ASSUME CommitInv, NEW at, NEW credit, NEW count, Account(at, credit, count), Timely(at),
           NEW cs \in Seq(Chunks), Log!Queue(cs), UNCHANGED <<now, stored, previousChain>>,
           NEW s \in Int, NEW q \in Nat, Consecutive(cs, s, q), q <= Available(at, credit)
    PROVE  \E when, more, total :
              /\ Account(when, more, total)' /\ Timely(when)'
              /\ Available(when, more)' = Available(at, credit) - q
              /\ total[nextSequence'] = count[nextSequence] + q
              /\ Len(cs) > 0 => when[nextSequence'] = now
              /\ nextSequence' > 0 => when[1] = IF nextSequence = 0 THEN now ELSE at[1]
<1> DEFINE m == Len(cs)
           B == MaxFrames + Guard
           sum(i) == IF i = 0 THEN 0 ELSE cs[i].end + 1 - s
<1>0. PICK n \in Nat : n = nextSequence BY AccountNumbers
<1>1. /\ n \in Nat /\ now \in Int /\ Len(stored) \in Nat /\ Len(stored) <= n
      /\ \A k \in 1..n : Received(k) \in Int /\ Spent(k) \in Int
      /\ \A k \in 0..n : at[k] \in Int /\ credit[k] \in Int /\ count[k] \in Int
      /\ at[n] <= now
      /\ Available(at, credit) \in Int /\ Available(at, credit) <= B BY <1>0, AccountNumbers
<1>2. m \in Nat /\ B \in Nat /\ RecorderTypes BY PaceConstants DEF CommitInv
<1>3. PICK a \in Int : a = Available(at, credit) BY <1>1
<1>4. \A i \in 0..m : sum(i) \in Int /\ sum(i) >= 0 /\ (i > 0 => sum(i) <= a)
  <2> SUFFICES ASSUME NEW i \in 0..m PROVE sum(i) \in Int /\ sum(i) >= 0 /\ (i > 0 => sum(i) <= a)
    OBVIOUS
  <2>1. CASE i = 0 BY <2>1
  <2>2. CASE i # 0
    <3>1. i \in 1..m BY <1>2, <2>2
    <3>2. cs[i] \in Chunks BY <3>1
    <3>3. cs[i].end \in Int BY <3>2 DEF Chunks
    <3>4. cs[i].end + 1 >= s /\ cs[i].end + 1 - s <= q BY <3>1 DEF Consecutive
    <3> QED BY <1>3, <2>2, <3>3, <3>4
  <2> QED BY <2>1, <2>2
<1>5. PICK more : more = [k \in 0..(n + m) |-> IF k <= n THEN credit[k] ELSE a - sum(k - n)] OBVIOUS
<1>6. PICK total : total = [k \in 0..(n + m) |-> IF k <= n THEN count[k] ELSE count[n] + sum(k - n)]
  OBVIOUS
<1>7. PICK when : when = [k \in 0..(n + m) |-> IF k <= n THEN at[k] ELSE now] OBVIOUS
<1>8. /\ nextSequence' = n + m
      /\ \A k \in 1..n : Sealing(k)' = Sealing(k)
      /\ \A k \in Int : k - n \in 1..m => Sealing(k)' = cs[k - n] BY <1>0, <1>2, QueueExtends
<1>9. ASSUME NEW i \in 1..m PROVE Spent(n + i)' = sum(i) - sum(i - 1)
  <2>1. n + i \in Int /\ (n + i) - n \in 1..m /\ (n + i) - n = i BY <1>1
  <2>2. Sealing(n + i)' = cs[i] BY <1>8, <2>1
  <2>3. cs[i].end \in Int /\ cs[i] \in Chunks
    <3>1. cs[i] \in Chunks OBVIOUS
    <3> QED BY <3>1 DEF Chunks
  <2>4. Spent(n + i)' = cs[i].end - cs[i].start + 1 BY <2>2 DEF Spent, Log!Frames
  <2>5. CASE i = 1
    <3>1. cs[i].start = s BY <2>5 DEF Consecutive
    <3> QED BY <2>3, <2>4, <2>5, <3>1
  <2>6. CASE i # 1
    <3>1. i - 1 \in 1..m BY <1>2, <1>9, <2>6
    <3>2. cs[i - 1].end \in Int
      <4>1. cs[i - 1] \in Chunks BY <3>1
      <4> QED BY <4>1 DEF Chunks
    <3>3. cs[i].start = cs[i - 1].end + 1 BY <2>6 DEF Consecutive
    <3>4. sum(i - 1) = cs[i - 1].end + 1 - s /\ sum(i) = cs[i].end + 1 - s BY <3>1
    <3> QED BY <2>3, <2>4, <3>2, <3>3, <3>4
  <2> QED BY <2>5, <2>6
<1>10. \A k \in 1..n : Spent(k)' = Spent(k) BY <1>8 DEF Spent, Log!Frames
<1>11. sum(0) = 0 OBVIOUS
<1> HIDE DEF sum
<1>12. /\ more \in [0..(n + m) -> Int] /\ total \in [0..(n + m) -> Int] /\ when \in [0..(n + m) -> Int]
       /\ \A k \in 0..n : more[k] = credit[k] /\ total[k] = count[k] /\ when[k] = at[k]
       /\ \A i \in 1..m : more[n + i] = a - sum(i) /\ total[n + i] = count[n] + sum(i) /\ when[n + i] = now
  <2>1. ASSUME NEW k \in 0..(n + m)
        PROVE  /\ (IF k <= n THEN credit[k] ELSE a - sum(k - n)) \in Int
               /\ (IF k <= n THEN count[k] ELSE count[n] + sum(k - n)) \in Int
               /\ (IF k <= n THEN at[k] ELSE now) \in Int
    <3>1. CASE k <= n BY <1>1, <2>1, <3>1
    <3>2. CASE ~(k <= n)
      <4>1. k - n \in 0..m /\ n \in 0..n BY <1>1, <1>2, <2>1, <3>2
      <4>2. sum(k - n) \in Int /\ count[n] \in Int BY <1>1, <1>4, <4>1
      <4> QED BY <1>1, <1>3, <3>2, <4>2
    <3> QED BY <3>1, <3>2
  <2>2. more \in [0..(n + m) -> Int] /\ total \in [0..(n + m) -> Int] /\ when \in [0..(n + m) -> Int]
    BY <1>5, <1>6, <1>7, <2>1
  <2>3. \A k \in 0..n : more[k] = credit[k] /\ total[k] = count[k] /\ when[k] = at[k]
    BY <1>1, <1>2, <1>5, <1>6, <1>7
  <2>4. ASSUME NEW i \in 1..m
        PROVE  more[n + i] = a - sum(i) /\ total[n + i] = count[n] + sum(i) /\ when[n + i] = now
    <3>1. n + i \in 0..(n + m) /\ ~(n + i <= n) /\ (n + i) - n = i BY <1>1, <1>2
    <3> QED BY <1>5, <1>6, <1>7, <3>1
  <2> QED BY <2>2, <2>3, <2>4
<1>13. ASSUME NEW i \in 1..m
       PROVE  /\ when[n + i - 1] <= when[n + i]
              /\ Lesser(B, more[n + i - 1] + (when[n + i] - when[n + i - 1])) = a - sum(i - 1)
              /\ total[n + i - 1] = count[n] + sum(i - 1)
  <2>1. when[n + i] = now BY <1>12
  <2>2. CASE i = 1
    <3>1. n + i - 1 = n /\ sum(i - 1) = 0 /\ n \in 0..n BY <1>1, <1>11, <2>2
    <3>2. /\ more[n + i - 1] = credit[n] /\ total[n + i - 1] = count[n] /\ when[n + i - 1] = at[n]
          /\ count[n] \in Int BY <1>1, <1>12, <3>1
    <3>3. a = Lesser(B, credit[n] + (now - at[n])) BY <1>0, <1>3 DEF Available
    <3> QED BY <1>1, <1>3, <2>1, <3>1, <3>2, <3>3
  <2>3. CASE i # 1
    <3>1. i - 1 \in 1..m /\ i - 1 \in 0..m /\ n + i - 1 = n + (i - 1) BY <1>1, <1>2, <1>13, <2>3
    <3>2. /\ more[n + i - 1] = a - sum(i - 1) /\ total[n + i - 1] = count[n] + sum(i - 1)
          /\ when[n + i - 1] = now /\ sum(i - 1) \in Int /\ sum(i - 1) >= 0 BY <1>4, <1>12, <3>1
    <3>3. more[n + i - 1] + (when[n + i] - when[n + i - 1]) = a - sum(i - 1)
      BY <1>1, <1>3, <2>1, <3>2
    <3>4. a - sum(i - 1) <= B /\ a - sum(i - 1) \in Int BY <1>1, <1>2, <1>3, <3>2
    <3>5. Lesser(B, a - sum(i - 1)) = a - sum(i - 1) BY <1>2, <3>4 DEF Lesser
    <3> QED BY <1>1, <2>1, <3>2, <3>3, <3>5
  <2> QED BY <2>2, <2>3
<1>14. ASSUME NEW k \in 1..(n + m)
       PROVE  /\ when[k - 1] <= when[k]
              /\ more[k] = Lesser(B, more[k - 1] + (when[k] - when[k - 1])) - Spent(k)'
              /\ more[k] >= 0
              /\ total[k] = total[k - 1] + Spent(k)'
  <2>1. CASE k <= n
    <3>1. k \in 1..n /\ k \in 0..n /\ k - 1 \in 0..n BY <1>1, <2>1, <1>14
    <3> QED BY <1>0, <1>10, <1>12, <3>1 DEF Account
  <2>2. CASE k > n
    <3>1. PICK i \in 1..m : i = k - n BY <1>1, <1>2, <1>14, <2>2
    <3>2. k = n + i /\ i \in 0..m /\ i - 1 \in 0..m /\ n \in 0..n BY <1>1, <1>2, <1>14, <3>1
    <3>3. /\ sum(i) \in Int /\ sum(i - 1) \in Int /\ sum(i) <= a /\ count[n] \in Int
          /\ more[k] = a - sum(i) /\ total[k] = count[n] + sum(i) BY <1>1, <1>4, <1>12, <3>1, <3>2
    <3>4. Spent(k)' = sum(i) - sum(i - 1) BY <1>9, <3>2
    <3>5. /\ when[k - 1] <= when[k] /\ total[k - 1] = count[n] + sum(i - 1)
          /\ Lesser(B, more[k - 1] + (when[k] - when[k - 1])) = a - sum(i - 1) BY <1>13, <3>2
    <3> QED BY <1>3, <3>3, <3>4, <3>5
  <2> QED BY <1>1, <1>14, <2>1, <2>2
<1>15. when[n + m] <= now /\ (m > 0 => when[n + m] = now)
  <2>1. CASE m = 0
    <3>1. n + m = n /\ n \in 0..n BY <1>1, <2>1
    <3> QED BY <1>1, <1>12, <2>1, <3>1
  <2>2. CASE m # 0
    <3>1. m \in 1..m BY <1>2, <2>2
    <3> QED BY <1>1, <1>12, <3>1
  <2> QED BY <2>1, <2>2
<1>16. Account(when, more, total)'
  <2>1. more[0] = B /\ total[0] = 0
    <3>1. 0 \in 0..n BY <1>1
    <3> QED BY <1>12, <3>1 DEF Account
  <2> QED BY <1>8, <1>12, <1>14, <1>15, <2>1 DEF Account, Lesser
<1>17. Timely(when)'
  <2>1. ASSUME NEW k \in 1..(n + m) PROVE when[k] <= Received(k)' /\ Received(k)' <= when[k] + MaxLag
    <3>1. CASE k <= n
      <4>1. k \in 1..n /\ k \in 0..n BY <1>1, <2>1, <3>1
      <4>2. Received(k)' = Received(k) BY DEF Received
      <4> QED BY <1>0, <1>12, <4>1, <4>2 DEF Timely
    <3>2. CASE k > n
      <4>1. k - n \in 1..m /\ k = n + (k - n) BY <1>1, <1>2, <2>1, <3>2
      <4>2. when[k] = now BY <1>12, <4>1
      <4>3. Received(k)' = now BY <1>1, <3>2, <2>1 DEF Received
      <4> QED BY <1>1, <4>2, <4>3, PaceConstants
    <3> QED BY <1>1, <2>1, <3>1, <3>2
  <2>2. ASSUME NEW i \in DOMAIN queued' PROVE queued'[i].sealed = when[Len(previousChain) + i]
    <3> DEFINE fresh == [j \in 1..m |-> [chunk |-> cs[j], sealed |-> now]]
    <3>1. fresh \in Seq(SealedChunks) /\ Len(fresh) = m /\ \A j \in 1..m : fresh[j].sealed = now
      BY <1>1, <1>2 DEF SealedChunks
    <3>2. queued' = queued \o fresh BY DEF Log!Queue
    <3> HIDE DEF fresh
    <3>3. /\ queued \in Seq(SealedChunks) /\ Len(queued) \in Nat /\ Len(previousChain) \in Nat
          /\ n = Len(previousChain) + Len(queued) BY <1>0, <1>2, SealingIs DEF RecorderTypes
    <3>4. /\ DOMAIN queued' = 1..(Len(queued) + m)
          /\ \A j \in 1..Len(queued) : queued'[j] = queued[j]
          /\ \A j \in 1..m : queued'[Len(queued) + j] = fresh[j]
      <4>1. PICK u : u = queued OBVIOUS
      <4>2. PICK v : v = fresh OBVIOUS
      <4>3. u \in Seq(SealedChunks) /\ v \in Seq(SealedChunks) BY <3>1, <3>3, <4>1, <4>2
      <4>4. /\ u \o v \in Seq(SealedChunks) /\ Len(u \o v) = Len(u) + Len(v)
            /\ \A j \in 1..Len(u) : (u \o v)[j] = u[j]
            /\ \A j \in 1..Len(v) : (u \o v)[Len(u) + j] = v[j] BY <4>3, Joined
      <4> HIDE DEF m
      <4>5. Len(v) = m BY <3>1, <4>2
      <4> QED BY <3>2, <4>1, <4>2, <4>4, <4>5
    <3>5. CASE i <= Len(queued)
      <4>1. i \in 1..Len(queued) /\ i \in DOMAIN queued /\ Len(previousChain) + i \in 0..n
        BY <3>3, <3>4, <2>2, <3>5
      <4> QED BY <1>12, <3>4, <4>1 DEF Timely
    <3>6. CASE i > Len(queued)
      <4>1. PICK j \in 1..m : i = Len(queued) + j
        <5>1. i - Len(queued) \in 1..m /\ i = Len(queued) + (i - Len(queued))
          BY <1>2, <3>3, <3>4, <2>2, <3>6
        <5> QED BY <5>1
      <4>2. Len(previousChain) + i = n + j BY <1>2, <3>3, <4>1
      <4> QED BY <1>12, <3>1, <3>4, <4>1, <4>2
    <3> QED BY <3>3, <3>4, <2>2, <3>5, <3>6
  <2> QED BY <1>8, <2>1, <2>2 DEF Timely
<1>18. n + m > 0 => when[1] = IF n = 0 THEN now ELSE at[1]
  <2>1. CASE n # 0
    <3>1. 1 \in 0..n BY <1>1, <2>1
    <3> QED BY <1>12, <2>1, <3>1
  <2>2. CASE n = 0 /\ m # 0
    <3>1. 1 \in 1..m /\ n + 1 = 1 BY <1>2, <2>2
    <3> QED BY <1>12, <2>2, <3>1
  <2> QED BY <1>1, <1>2, <2>1, <2>2
<1>19. /\ Available(when, more)' = a - sum(m)
       /\ total[n + m] = count[n] + sum(m)
  <2>1. Available(when, more)' = Lesser(B, more[n + m] + (now - when[n + m]))
    BY <1>8 DEF Available, Lesser
  <2>2. CASE m = 0
    <3>1. n + m = n /\ n \in 0..n /\ sum(m) = 0 BY <1>1, <1>11, <2>2
    <3>2. more[n + m] = credit[n] /\ total[n + m] = count[n] /\ when[n + m] = at[n] /\ count[n] \in Int
      BY <1>1, <1>12, <3>1
    <3>3. a = Lesser(B, credit[n] + (now - at[n])) BY <1>0, <1>3 DEF Available
    <3> QED BY <1>3, <2>1, <3>1, <3>2, <3>3
  <2>3. CASE m # 0
    <3>1. m \in 1..m /\ m \in 0..m BY <1>2, <2>3
    <3>2. more[n + m] = a - sum(m) /\ total[n + m] = count[n] + sum(m) /\ when[n + m] = now
          /\ sum(m) \in Int /\ sum(m) >= 0 BY <1>4, <1>12, <3>1
    <3> QED BY <1>1, <1>2, <1>3, <2>1, <3>2 DEF Lesser
  <2> QED BY <2>2, <2>3
<1>20. sum(m) = q BY DEF sum, Consecutive
<1> QED BY <1>0, <1>3, <1>8, <1>15, <1>16, <1>17, <1>18, <1>19, <1>20

(* Nothing is owed at first. *)
LEMMA PacedInvInit == ASSUME Log!Init PROVE PacedInv
<1>1. /\ delay = 0 /\ pace = 0 /\ mutual = -1 /\ queued = <<>> /\ lengths = <<>> /\ nextSequence = 0 /\ now = 0
      /\ pending = [epoch |-> 0, start |-> 0, inputs |-> 0] /\ pending # Log!None
  BY CommitConstants DEF Log!Init
<1>2. Pacing BY <1>1, PaceConstants DEF Pacing
<1>3. PICK credit : credit = [k \in 0..0 |-> MaxFrames + Guard] OBVIOUS
<1>4. PICK at : at = [k \in 0..0 |-> 0] OBVIOUS
<1>5. 0 \in 0..0 /\ 1..nextSequence = {} /\ 0..nextSequence = 0..0 BY <1>1
<1>6. Account(at, credit, at) BY <1>1, <1>3, <1>4, <1>5, PaceConstants DEF Account
<1>7. OnPace(at, credit, at)
  BY <1>1, <1>3, <1>4, <1>5, PaceConstants DEF OnPace, Available, Lesser, Owed
<1>8. Timely(at) BY <1>1, <1>5 DEF Timely
<1> QED BY <1>2, <1>6, <1>7, <1>8 DEF PacedInv, Paced

(* Steps that take no time, record nothing and seal nothing. *)
LEMMA PassingKeepsPace ==
    ASSUME CommitInv, PacedInv, UNCHANGED <<now, delay, pace, lengths, pending, nextSequence>>,
           mutual' < pace, delay > 0 => mutual' = mutual,
           \A k \in 1..nextSequence : Sealing(k)' = Sealing(k) /\ Received(k)' = Received(k),
           NEW shift \in {0, 1}, Len(previousChain)' = Len(previousChain) + shift,
           \A i \in DOMAIN queued' : i \in Nat /\ i + shift \in DOMAIN queued /\ queued'[i] = queued[i + shift]
    PROVE  PacedInv'
<1>1. PICK at, credit, count : Paced(at, credit, count) BY DEF PacedInv
<1>2. Account(at, credit, count)' BY <1>1, AccountStays DEF Paced
<1>3. Timely(at)'
  <2>1. \A i \in DOMAIN queued' : queued'[i].sealed = at[Len(previousChain)' + i]
    <3> SUFFICES ASSUME NEW i \in DOMAIN queued' PROVE queued'[i].sealed = at[Len(previousChain)' + i]
      OBVIOUS
    <3>1. Len(previousChain) \in Nat BY SealingIs DEF CommitInv
    <3>2. Len(previousChain)' + i = Len(previousChain) + (i + shift) BY <3>1
    <3> QED BY <1>1, <3>2 DEF Paced, Timely
  <2>2. \A k \in 1..nextSequence' : at[k] <= Received(k)' /\ Received(k)' <= at[k] + MaxLag
    BY <1>1 DEF Paced, Timely
  <2> QED BY <2>1, <2>2 DEF Timely
<1>4. OnPace(at, credit, count)'
  <2>1. PICK n \in Nat : n = nextSequence BY SealingIs DEF CommitInv
  <2>2. n > 0 => Spent(1)' = Spent(1)
    <3>1. n > 0 => Sealing(1)' = Sealing(1) BY <2>1
    <3> QED BY <3>1 DEF Spent, Log!Frames
  <2>3. /\ Available(at, credit)' = Available(at, credit) /\ Latest(at)' = Latest(at)
        /\ Owed' = Owed /\ Bonus' = Bonus BY DEF Available, Lesser, Latest, Owed, Bonus, Log!None
  <2> QED BY <1>1, <2>1, <2>2, <2>3 DEF Paced, OnPace
<1>5. Pacing' BY DEF PacedInv, Pacing, Log!None
<1> QED BY <1>2, <1>3, <1>4, <1>5 DEF PacedInv, Paced

(* The greater of two numbers. *)
LEMMA GreaterOfTwo ==
    ASSUME NEW m \in Int, NEW n \in Int
    PROVE  Log!Max({m, n}) = IF m >= n THEN m ELSE n
<1> DEFINE S == {m, n}
           most == IF m >= n THEN m ELSE n
<1>1. most \in S /\ \A k \in S : most >= k OBVIOUS
<1>2. \A j \in S : (\A k \in S : j >= k) => j = most OBVIOUS
<1>3. Log!Max(S) = most
  <2> HIDE DEF S, most
  <2> QED BY <1>1, <1>2 DEF Log!Max
<1> QED BY <1>3

(* A frame time passes: no queued chunk is later than the lag, and the     *)
(* credit grows by what may be recorded meanwhile.                         *)
LEMMA TickKeepsPace ==
    ASSUME CommitInv, RoundsInv, PacedInv, Log!Tick
    PROVE  PacedInv'
<1>1. PICK at, credit, count : Account(at, credit, count) /\ Timely(at) /\ OnPace(at, credit, count)
  BY DEF PacedInv, Paced
<1>2. /\ Pacing /\ RecorderTypes /\ ServerFollows /\ TailBounds
      /\ now' = now + 1 /\ delay' = Log!Max({delay - 1, 0})
      /\ UNCHANGED <<pace, mutual, sealed, lengths, pending, queued, nextSequence, previousChain, stored>>
  BY DEF PacedInv, CommitInv, Log!Tick, Log!recorder
<1>3. PICK n \in Nat : n = nextSequence BY <1>1, AccountNumbers
<1>4. /\ now \in Int /\ Len(stored) \in Nat /\ Len(stored) <= n
      /\ \A k \in 1..n : Received(k) \in Int /\ Spent(k) \in Int
      /\ \A k \in 0..n : at[k] \in Int /\ credit[k] \in Int /\ count[k] \in Int
      /\ at[n] <= now
      /\ Available(at, credit) \in Int /\ Available(at, credit) <= MaxFrames + Guard
  BY <1>1, <1>3, AccountNumbers
<1>5. \A k \in 1..n : Sealing(k)' = Sealing(k) /\ Spent(k)' = Spent(k)
  BY <1>2 DEF Sealing, Spent, Log!Frames
<1>6. Account(at, credit, count)' BY <1>1, <1>2, <1>3, <1>5, AccountStays
<1>7. Timely(at)'
  <2>1. ASSUME NEW k \in 1..n PROVE at[k] <= Received(k)' /\ Received(k)' <= at[k] + MaxLag
    <3>0. at[k] \in Int BY <1>4
    <3>1. CASE k <= Len(stored)
      <4>1. Received(k)' = Received(k) BY <1>2, <3>1 DEF Received
      <4> QED BY <1>1, <1>3, <4>1 DEF Timely
    <3>2. CASE k > Len(stored)
      <4>1. Received(k) = now /\ Received(k)' = now + 1 BY <1>2, <1>4, <3>2 DEF Received
      <4>2. Len(previousChain) \in Nat /\ Len(queued) \in Nat /\ n = Len(previousChain) + Len(queued)
            /\ Len(previousChain) <= Len(stored) /\ DOMAIN queued = 1..Len(queued)
        BY <1>2, <1>3, SealingIs DEF RecorderTypes, ServerFollows
      <4>3. PICK i \in DOMAIN queued : k = Len(previousChain) + i
        <5>1. k - Len(previousChain) \in DOMAIN queued /\ k = Len(previousChain) + (k - Len(previousChain))
          BY <1>4, <3>2, <4>2
        <5> QED BY <5>1
      <4>4. queued[i].sealed = at[k] BY <1>1, <4>3 DEF Timely
      <4>5. now - at[k] < MaxLag BY <4>4 DEF Log!Tick, Log!Prompt
      <4>6. at[k] <= now BY <1>1, <1>3, <4>1 DEF Timely
      <4> QED BY <1>4, <3>0, <4>1, <4>5, <4>6, PaceConstants
    <3> QED BY <1>4, <3>1, <3>2
  <2> QED BY <1>1, <1>2, <1>3, <2>1 DEF Timely
<1>8. /\ delay \in Nat /\ delay' \in Nat
      /\ delay' = IF delay > 0 THEN delay - 1 ELSE 0
  <2>1. delay \in Nat /\ delay - 1 \in Int BY <1>2 DEF Pacing
  <2> QED BY <1>2, <2>1, GreaterOfTwo
<1>9. Pacing'
  <2>1. pace \in Nat /\ mutual \in Int BY <1>2 DEF RecorderTypes
  <2>2. /\ delay' \in Nat /\ mutual' < pace'
        /\ delay' > 0 /\ pace' > 0 => delay' = 1 /\ mutual' <= pace' - 2
        /\ pace' = 0 => delay' <= Transition BY <1>2, <1>8, <2>1, PaceConstants DEF Pacing
  <2> QED BY <1>2, <2>2 DEF Pacing, Log!None
<1>10. n \in 0..n /\ at[n] \in Int /\ credit[n] \in Int /\ count[n] \in Int BY <1>4
<1>11. /\ Available(at, credit) = Lesser(MaxFrames + Guard, credit[n] + (now - at[n]))
       /\ Available(at, credit)' = Lesser(MaxFrames + Guard, credit[n] + (now + 1 - at[n]))
  <2>1. nextSequence = n /\ nextSequence' = n /\ now' = now + 1 BY <1>2, <1>3
  <2>2. Available(at, credit)' = Lesser(MaxFrames + Guard, credit[n] + (now' - at[n]))
    BY <2>1 DEF Available, Lesser
  <2>3. now' - at[n] = now + 1 - at[n] BY <1>4, <1>10, <2>1
  <2>4. Available(at, credit) = Lesser(MaxFrames + Guard, credit[n] + (now - at[n]))
    BY <2>1 DEF Available
  <2> QED BY <2>2, <2>3, <2>4
<1>12. CASE pending = Log!None
  <2>1. /\ Owed = 0 /\ Owed' = 0 /\ Bonus' = Bonus /\ Latest(at)' = Latest(at)
    BY <1>2, <1>12 DEF Owed, Bonus, Latest, Log!None
  <2>2. Available(at, credit)' >= 0 /\ Available(at, credit) >= 0
    <3>1. Available(at, credit) >= 0 BY <1>1, <2>1 DEF OnPace
    <3> QED BY <1>4, <1>10, <1>11, <3>1, PaceConstants DEF Lesser
  <2>3. n > 0 => Spent(1)' = Spent(1) BY <1>5
  <2>4. OnPace(at, credit, count)' BY <1>1, <1>2, <1>3, <2>1, <2>2, <2>3 DEF OnPace
  <2> QED BY <1>6, <1>7, <1>9, <2>4 DEF PacedInv, Paced
<1>13. CASE pending # Log!None
  <2>1. /\ pending \in [epoch : Int, start : Int, inputs : Nat] /\ pace \in Nat /\ mutual \in Int
        /\ pending.inputs \in Nat /\ pending.start \in Int
        /\ pending.start >= 0 /\ pending.start + pending.inputs = pace
        /\ pending.inputs <= MaxFrames + Guard BY <1>2, <1>13 DEF RecorderTypes, TailBounds
  <2>2. /\ Owed \in Nat /\ Owed' \in Nat /\ Owed' <= Owed + 1 /\ Owed' <= MaxFrames + Guard
        /\ pace = 0 => Owed' = Owed
    <3>1. /\ Owed = IF delay > 0 /\ pending.inputs > 0 THEN pending.inputs - 1 ELSE pending.inputs
          /\ Owed' = IF delay' > 0 /\ pending.inputs > 0 THEN pending.inputs - 1 ELSE pending.inputs
      BY <1>2, <1>13 DEF Owed, Log!None
    <3> QED BY <1>8, <2>1, <3>1, PaceConstants
  <2>3. /\ Bonus \in Int /\ Bonus' \in Int /\ Bonus' <= Bonus + 1
        /\ pace # 0 => Bonus' = Bonus
    <3>1. /\ Bonus = IF lengths = <<>> THEN 0 ELSE IF pace = 0 THEN Transition - delay ELSE Transition
          /\ Bonus' = IF lengths = <<>> THEN 0 ELSE IF pace = 0 THEN Transition - delay' ELSE Transition
      BY <1>2, <1>13 DEF Bonus, Log!None
    <3> QED BY <1>8, <3>1, PaceConstants
  <2>4. Latest(at) = now /\ Latest(at)' = now + 1 BY <1>2, <1>13 DEF Latest, Log!None
  <2>5. PICK o1 \in Int, o2 \in Int, b1 \in Int, b2 \in Int :
           o1 = Owed /\ o2 = Owed' /\ b1 = Bonus /\ b2 = Bonus' BY <2>2, <2>3
  <2>6. Available(at, credit)' >= Owed'
    <3>1. Available(at, credit) >= o1 BY <1>1, <2>5 DEF OnPace
    <3>2. o2 <= o1 + 1 /\ o2 <= MaxFrames + Guard BY <2>2, <2>5
    <3> QED BY <1>4, <1>10, <1>11, <2>5, <3>1, <3>2, PaceConstants DEF Lesser
  <2>7. ASSUME n > 0
        PROVE  /\ Latest(at)' - at[1] + Guard >= count[n] - Spent(1)' + Owed' + Bonus'
               /\ Latest(at)' - at[1] >= Bonus'
    <3>1. 1 \in 1..n /\ 1 \in 0..n BY <2>7
    <3>2. Spent(1)' = Spent(1) /\ Spent(1) \in Int /\ at[1] \in Int BY <1>4, <1>5, <3>1
    <3>3. now - at[1] + Guard >= count[n] - Spent(1) + o1 + b1 /\ now - at[1] >= b1
      BY <1>1, <1>3, <2>4, <2>5, <2>7 DEF OnPace
    <3>4. o2 <= o1 + 1 /\ b2 <= b1 + 1 /\ (o2 = o1 \/ b2 = b1) BY <2>2, <2>3, <2>5
    <3>5. (now + 1) - at[1] + Guard >= count[n] - Spent(1) + o2 + b2
      <4>1. PICK u \in Int, v \in Int, a \in Int : u = count[n] /\ v = Spent(1) /\ a = at[1]
        BY <1>10, <3>2
      <4>2. now - a + Guard >= u - v + o1 + b1 /\ Guard \in Int BY <3>3, <4>1, PaceConstants
      <4>3. PICK t \in Int, g \in Int : t = now /\ g = Guard BY <1>4, PaceConstants
      <4>4. t - a + g >= u - v + o1 + b1 BY <4>2, <4>3
      <4>5. (t + 1) - a + g >= u - v + o2 + b2 BY <3>4, <4>4
      <4> QED BY <4>1, <4>3, <4>5
    <3>6. (now + 1) - at[1] >= b2 BY <1>4, <3>2, <3>3, <3>4
    <3> QED BY <2>4, <2>5, <3>2, <3>5, <3>6
  <2>8. OnPace(at, credit, count)' BY <1>2, <1>3, <2>6, <2>7 DEF OnPace
  <2> QED BY <1>6, <1>7, <1>9, <2>8 DEF PacedInv, Paced
<1> QED BY <1>12, <1>13

(* Chunks are sealed of frames that were owed: they are paid for.  The     *)
(* first of all chunks leaves no more than the guard to pay.               *)
LEMMA SealingKeepsPace ==
    ASSUME CommitInv, PacedInv, pending # Log!None,
           NEW cs \in Seq(Chunks), Log!Queue(cs), UNCHANGED <<now, stored, previousChain>>,
           NEW s \in Int, NEW q \in Nat, Consecutive(cs, s, q),
           pending' = Log!None => Len(cs) > 0,
           NEW o \in Nat, o = Owed, Owed' \in Nat, q + Owed' <= o,
           NEW b \in Int, b = Bonus, Bonus' \in Int, Bonus' <= b,
           nextSequence = 0 /\ Len(cs) > 0 => Bonus' <= 0 /\ q - (cs[1].end + 1 - s) + Owed' <= Guard
    PROVE  \E when, more, total : Paced(when, more, total)'
<1>1. PICK at, credit, count : Account(at, credit, count) /\ Timely(at) /\ OnPace(at, credit, count)
  BY DEF PacedInv, Paced
<1>2. PICK n \in Nat : n = nextSequence BY <1>1, AccountNumbers
<1>3. /\ now \in Int
      /\ \A k \in 1..n : Spent(k) \in Int
      /\ \A k \in 0..n : at[k] \in Int /\ count[k] \in Int
      /\ Available(at, credit) \in Int BY <1>1, <1>2, AccountNumbers
<1>4. PICK a \in Int, o2 \in Nat, b2 \in Int : a = Available(at, credit) /\ o2 = Owed' /\ b2 = Bonus'
  BY <1>3
<1>5. a >= o /\ q + o2 <= o /\ b2 <= b BY <1>1, <1>4 DEF OnPace
<1>6. q <= a BY <1>5
<1>8. PICK when, more, total :
         /\ Account(when, more, total)' /\ Timely(when)'
         /\ Available(when, more)' = Available(at, credit) - q
         /\ total[nextSequence'] = count[nextSequence] + q
         /\ Len(cs) > 0 => when[nextSequence'] = now
         /\ nextSequence' > 0 => when[1] = IF nextSequence = 0 THEN now ELSE at[1]
  BY <1>1, <1>4, <1>6, AccountGrows
<1>9. Available(when, more)' = a - q /\ total[nextSequence'] = count[n] + q BY <1>2, <1>4, <1>8
<1>10. Available(when, more)' >= Owed'
  <2>1. a - q >= o2 BY <1>5
  <2> QED BY <1>4, <1>9, <2>1
<1>11. /\ nextSequence' = n + Len(cs)
       /\ \A k \in 1..n : Sealing(k)' = Sealing(k)
       /\ \A k \in Int : k - n \in 1..Len(cs) => Sealing(k)' = cs[k - n]
  BY <1>2, QueueExtends DEF CommitInv
<1>12. Latest(at) = now /\ Latest(when)' = now BY <1>8 DEF Latest, Log!None
<1>13. ASSUME nextSequence' > 0
       PROVE  /\ now - when[1] + Guard >= total[nextSequence'] - Spent(1)' + Owed' + Bonus'
              /\ now - when[1] >= Bonus'
  <2>1. CASE n > 0
    <3>1. 1 \in 1..n /\ 1 \in 0..n /\ n \in 0..n BY <2>1
    <3>2. Sealing(1)' = Sealing(1) BY <1>11, <3>1
    <3>3. Spent(1)' = Spent(1) /\ when[1] = at[1]
      BY <1>2, <1>8, <1>13, <2>1, <3>2 DEF Spent, Log!Frames
    <3>4. PICK u \in Int, v \in Int, x \in Int, t \in Int, g \in Int :
             u = count[n] /\ v = Spent(1) /\ x = at[1] /\ t = now /\ g = Guard
      BY <1>3, <3>1, PaceConstants
    <3>5. t - x + g >= u - v + o + b /\ t - x >= b BY <1>1, <1>2, <1>12, <2>1, <3>4 DEF OnPace
    <3>6. t - x + g >= u + q - v + o2 + b2 /\ t - x >= b2 BY <1>5, <3>5
    <3> QED BY <1>4, <1>9, <3>3, <3>4, <3>6
  <2>2. CASE n = 0
    <3>1. Len(cs) > 0 /\ 1 \in 1..Len(cs) BY <1>11, <1>13, <2>2
    <3>2. when[1] = now BY <1>2, <1>8, <1>13, <2>2
    <3>3. Spent(1)' = cs[1].end + 1 - s /\ Spent(1)' \in Int
      <4>1. 1 - n \in 1..Len(cs) /\ 1 - n = 1 BY <2>2, <3>1
      <4>2. Sealing(1)' = cs[1] BY <1>11, <4>1
      <4>3. cs[1] \in Chunks /\ cs[1].start = s BY <3>1 DEF Consecutive
      <4>4. Spent(1)' = cs[1].end - cs[1].start + 1 BY <4>2 DEF Spent, Log!Frames
      <4>5. cs[1].end \in Int BY <4>3 DEF Chunks
      <4> QED BY <4>3, <4>4, <4>5
    <3>4. total[nextSequence'] = q
      <4>1. count[n] = 0 BY <1>1, <1>2, <2>2 DEF Account
      <4> QED BY <1>9, <4>1
    <3>5. PICK v \in Int, g \in Int : v = Spent(1)' /\ g = Guard BY <3>3, PaceConstants
    <3>6. b2 <= 0 /\ q - v + o2 <= g BY <1>2, <1>4, <2>2, <3>1, <3>3, <3>5
    <3>7. 0 + g >= q - v + o2 + b2 BY <3>6
    <3>8. now - when[1] = 0 BY <1>3, <3>2
    <3> QED BY <1>4, <3>4, <3>5, <3>6, <3>7, <3>8
  <2> QED BY <2>1, <2>2
<1>14. OnPace(when, more, total)'
  <2>1. UNCHANGED now OBVIOUS
  <2> QED BY <1>10, <1>12, <1>13, <2>1 DEF OnPace
<1> QED BY <1>8, <1>14 DEF Paced

(* A frame is recorded when its time has come: what is sealed with it is   *)
(* paid for.                                                               *)
LEMMA FrameKeepsPace ==
    ASSUME CommitInv, RoundsInv, PacedInv, Log!SimulateFrame
    PROVE  PacedInv'
<1> DEFINE chunks == Log!Sealable(pending, sealed)
           cs == Log!FullChunks(pending, chunks)
<1>1. /\ RecorderTypes /\ ChainRuns /\ ServerFollows /\ TailBounds /\ Pacing
      /\ pending # Log!None /\ delay = 0 /\ delay' = 1
      /\ pace' = pace + 1 /\ UNCHANGED <<now, mutual, lengths, previousChain, stored>>
      /\ Log!Queue(cs)
      /\ pending' = [pending EXCEPT !.start = @ + chunks * MaxFrames, !.inputs = @ - chunks * MaxFrames + 1]
  BY DEF CommitInv, PacedInv, Log!SimulateFrame
<1>2. /\ pending \in [epoch : Int, start : Int, inputs : Nat] /\ sealed \in Int /\ pace \in Nat /\ mutual \in Int
      /\ pending.inputs \in Nat /\ pending.start \in Int /\ nextSequence \in Int
      /\ pending.start >= 0 /\ pending.start + pending.inputs = pace
      /\ pending.inputs <= MaxFrames + Guard BY <1>1, SealingIs DEF RecorderTypes, TailBounds
<1>3. chunks \in Nat /\ pending.inputs - chunks * MaxFrames >= 0 BY <1>2, SealableIs
<1>4. PICK m \in Nat : m = chunks BY <1>3
<1>5. PICK p \in Nat : p = m * MaxFrames BY <1>4, PaceConstants
<1> HIDE DEF chunks
<1>6. /\ cs \in Seq(Chunks) /\ Len(cs) = m
      /\ \A i \in 1..m : cs[i] = FullChunk(pending, i)
  BY <1>2, <1>3, <1>4, FullChunksAre
<1> HIDE DEF cs
<1>7. /\ nextSequence' = nextSequence + m
      /\ \A k \in 1..nextSequence : Sealing(k)' = Sealing(k)
      /\ \A k \in Int : k - nextSequence \in 1..m => Sealing(k)' = cs[k - nextSequence]
  BY <1>1, <1>6, QueueExtends
<1>8. /\ pending' # Log!None /\ pending'.inputs = pending.inputs - p + 1 /\ pending.inputs - p \in Nat
  <2> DEFINE moved == [pending EXCEPT !.start = @ + p]
  <2>1. /\ moved \in [epoch : Int, start : Int, inputs : Nat] /\ moved.inputs = pending.inputs
    BY <1>2
  <2>2. pending' = [moved EXCEPT !.inputs = pending.inputs - p + 1] BY <1>1, <1>2, <1>4, <1>5
  <2> HIDE DEF moved
  <2>3. "start" \in DOMAIN moved /\ DOMAIN pending' = DOMAIN moved /\ pending'.inputs = pending.inputs - p + 1
    BY <2>1, <2>2
  <2>4. pending' # Log!None BY <2>3, CommitConstants
  <2> QED BY <1>2, <1>3, <1>4, <1>5, <2>3, <2>4
<1>9. /\ Owed = pending.inputs /\ Owed' = pending.inputs - p
      /\ Bonus = (IF lengths = <<>> THEN 0 ELSE Transition) /\ Bonus' = Bonus
  <2>1. Owed = pending.inputs /\ Owed' = pending.inputs - p BY <1>1, <1>2, <1>8 DEF Owed, Log!None
  <2>2. Bonus = IF lengths = <<>> THEN 0 ELSE Transition BY <1>1, PaceConstants DEF Bonus
  <2>3. Bonus' = IF lengths = <<>> THEN 0 ELSE Transition
    <3>1. pace' # 0 BY <1>1, <1>2
    <3> QED BY <1>1, <3>1 DEF Bonus, Log!None
  <2> QED BY <2>1, <2>2, <2>3
<1>10. PICK s \in Int : s = pending.start BY <1>2
<1>11. ASSUME NEW i \in 1..m
       PROVE  /\ cs[i].start = IF i = 1 THEN s ELSE cs[i - 1].end + 1
              /\ cs[i].end + 1 >= s /\ cs[i].end + 1 - s <= p
              /\ cs[i].end + 1 - s = i * MaxFrames
  <2>1. PICK a \in Nat : a = i * MaxFrames BY PaceConstants
  <2>2. a <= p /\ (i - 1) * MaxFrames = a - MaxFrames BY <1>5, <2>1, PaceConstants
  <2>3. cs[i].start = s + (a - MaxFrames) /\ cs[i].end = s + a - 1 BY <1>6, <1>10, <2>1, <2>2 DEF FullChunk
  <2>4. cs[i].start = IF i = 1 THEN s ELSE cs[i - 1].end + 1
    <3>1. CASE i = 1 BY <2>1, <2>3, <3>1, PaceConstants
    <3>2. CASE i # 1
      <4>1. i - 1 \in 1..m BY <3>2
      <4>2. cs[i - 1].end = s + (i - 1) * MaxFrames - 1 BY <1>6, <1>10, <4>1 DEF FullChunk
      <4> QED BY <2>2, <2>3, <3>2, <4>2, PaceConstants
    <3> QED BY <3>1, <3>2
  <2> QED BY <2>1, <2>2, <2>3, <2>4
<1>12. p = IF Len(cs) = 0 THEN 0 ELSE cs[Len(cs)].end + 1 - s
  <2>1. CASE m = 0 BY <1>5, <1>6, <2>1, PaceConstants
  <2>2. CASE m # 0
    <3>1. m \in 1..m BY <2>2
    <3> QED BY <1>5, <1>6, <1>11, <2>2, <3>1
  <2> QED BY <2>1, <2>2
<1>13. ASSUME nextSequence = 0, Len(cs) > 0
       PROVE  Bonus' <= 0 /\ p - (cs[1].end + 1 - s) + Owed' <= Guard
  <2>1. lengths = <<>>
    <3>1. pending.epoch = 0 /\ pending.epoch = Len(lengths) /\ lengths \in Seq(Nat)
      BY <1>1, <1>13 DEF ChainRuns, RoundsInv
    <3> QED BY <3>1
  <2>2. 1 \in 1..m BY <1>4, <1>6, <1>13
  <2>3. cs[1].end + 1 - s = MaxFrames
    <3>1. cs[1].end + 1 - s = 1 * MaxFrames BY <1>11, <2>2
    <3> QED BY <3>1, PaceConstants
  <2> QED BY <1>2, <1>8, <1>9, <2>1, <2>3, PaceConstants
<1>14. Consecutive(cs, s, p) BY <1>6, <1>11, <1>12 DEF Consecutive
<1>16. \E when, more, total : Paced(when, more, total)'
  <2>1. PICK o \in Nat, b \in Int, ks \in Seq(Chunks) : o = Owed /\ b = Bonus /\ ks = cs
    <3>1. Owed \in Nat /\ Bonus \in Int BY <1>2, <1>9, PaceConstants
    <3> QED BY <1>6, <3>1
  <2>2. /\ Owed' \in Nat /\ p + Owed' <= o /\ Bonus' \in Int /\ Bonus' <= b
    BY <1>2, <1>8, <1>9, <2>1
  <2> QED BY <1>1, <1>6, <1>8, <1>13, <1>14, <2>1, <2>2, SealingKeepsPace
<1>15. Pacing'
  <2>1. /\ delay' \in Nat /\ mutual' < pace'
        /\ delay' > 0 /\ pace' > 0 => delay' = 1 /\ mutual' <= pace' - 2
        /\ pace' = 0 => delay' <= Transition BY <1>1, <1>2 DEF Pacing
  <2> QED BY <1>8, <2>1 DEF Pacing, Log!None
<1> QED BY <1>15, <1>16 DEF PacedInv

(* A round ends at a frame that was owed, so its chunks are paid for; the  *)
(* pause that follows is credit.                                           *)
LEMMA RoundKeepsPace ==
    ASSUME Rounds > 1, CommitInv, RoundsInv, PacedInv, Log!EndRound
    PROVE  PacedInv'
<1>1. /\ RecorderTypes /\ ChainRuns /\ ServerFollows /\ TailBounds /\ Pacing
  BY DEF CommitInv, PacedInv
<1>2. PICK f, cs : RoundEnded(f, cs) BY EndedRound
<1>3. pending # Log!None /\ f \in Nat /\ f <= mutual /\ f < pace /\ pending.start <= f
  BY <1>2 DEF RoundEnded
<1>4. /\ nextSequence \in Nat /\ MaxFrames \in Nat \ {0} /\ Guard \in Nat
      /\ pending.epoch \in Int /\ pending.start \in Int /\ pending.inputs \in Nat
      /\ pace \in Nat /\ mutual \in Int /\ delay \in Nat
      /\ pending.start >= 0 /\ pending.start + pending.inputs = pace
      /\ pending.inputs <= MaxFrames + Guard
      /\ lengths \in Seq(Nat) /\ Len(lengths) \in Nat /\ pending.epoch = Len(lengths)
  BY <1>1, <1>3, CommitConstants, SealingIs DEF RecorderTypes, RoundsInv, TailBounds, Pacing
<1>5. PICK s \in Int : s = pending.start BY <1>4
<1>6. s <= f BY <1>3, <1>5
<1>7. PICK q \in Nat : q = f - s + 1 BY <1>3, <1>6
<1>8. /\ lengths' = Append(lengths, f + 1)
      /\ pending' = IF Len(lengths) + 1 = Rounds THEN Log!None
                    ELSE [epoch |-> pending.epoch + 1, start |-> 0, inputs |-> 0]
      /\ pace' = 0 /\ mutual' = -1 /\ delay' = Transition
      /\ Log!Queue(cs) /\ UNCHANGED <<now, previousChain, stored>> BY <1>2 DEF RoundEnded
<1>9. /\ cs \in Seq(Chunks) /\ Len(cs) >= 1
      /\ \A i \in 1..Len(cs) :
            /\ cs[i].start = s + (i - 1) * MaxFrames
            /\ i < Len(cs) => cs[i].end = s + i * MaxFrames - 1
      /\ cs[Len(cs)].end = f
      /\ (Len(cs) - 1) * MaxFrames <= q - 1
  <2>1. f - s = q - 1 BY <1>3, <1>7
  <2> QED BY <1>2, <1>5, <2>1 DEF RoundEnded
<1>10. PICK m \in Nat : m = Len(cs) /\ m >= 1 BY <1>9
<1>15. Owed \in Nat /\ q <= Owed /\ Owed <= pending.inputs
  <2>1. Owed = IF delay > 0 /\ pending.inputs > 0 THEN pending.inputs - 1 ELSE pending.inputs
    BY <1>3 DEF Owed
  <2>2. CASE delay > 0 /\ pending.inputs > 0
    <3>1. mutual <= pace - 2 BY <1>1, <1>4, <2>2 DEF Pacing
    <3>2. q <= pending.inputs - 1 BY <1>3, <1>4, <1>5, <1>7, <3>1
    <3>3. pending.inputs - 1 \in Nat BY <1>4, <2>2
    <3> QED BY <1>4, <2>1, <2>2, <3>2, <3>3
  <2>3. CASE ~(delay > 0 /\ pending.inputs > 0) BY <1>3, <1>4, <1>5, <1>7, <2>1, <2>3
  <2> QED BY <2>2, <2>3
<1>16. Owed' = 0 BY <1>8 DEF Owed, Log!None
<1>18. ASSUME NEW i \in 1..m
       PROVE  /\ cs[i].start = IF i = 1 THEN s ELSE cs[i - 1].end + 1
              /\ cs[i].end + 1 >= s /\ cs[i].end + 1 - s <= q
  <2>1. PICK a \in Nat : a = i * MaxFrames BY <1>4
  <2>2. (i - 1) * MaxFrames = a - MaxFrames /\ a - MaxFrames >= 0 BY <1>4, <2>1
  <2>3. cs[i].start = IF i = 1 THEN s ELSE cs[i - 1].end + 1
    <3>1. cs[i].start = s + (a - MaxFrames) BY <1>9, <1>10, <2>2
    <3>2. CASE i = 1 BY <1>4, <2>1, <3>1, <3>2
    <3>3. CASE i # 1
      <4>1. i - 1 \in 1..m /\ i - 1 < m BY <3>3
      <4>2. cs[i - 1].end = s + (i - 1) * MaxFrames - 1 BY <1>9, <1>10, <4>1
      <4> QED BY <1>4, <2>2, <3>1, <3>3, <4>2
    <3> QED BY <3>2, <3>3
  <2>4. cs[i].end + 1 >= s /\ cs[i].end + 1 - s <= q
    <3>1. CASE i = m BY <1>3, <1>6, <1>7, <1>9, <1>10, <3>1
    <3>2. CASE i # m
      <4>1. i < m /\ cs[i].end = s + a - 1 BY <1>9, <1>10, <2>1, <3>2
      <4>2. PICK b \in Int : b = (m - 1) * MaxFrames BY <1>4
      <4>3. a <= b BY <1>4, <2>1, <4>1, <4>2
      <4>4. b <= q - 1 BY <1>9, <1>10, <4>2
      <4> QED BY <4>1, <4>3, <4>4
    <3> QED BY <3>1, <3>2
  <2> QED BY <2>3, <2>4
<1>20. q = IF Len(cs) = 0 THEN 0 ELSE cs[Len(cs)].end + 1 - s BY <1>3, <1>7, <1>9, <1>10
<1>23. lengths' # <<>> /\ Len(lengths') = Len(lengths) + 1
  <2>1. f + 1 \in Nat /\ lengths \in Seq(Nat) BY <1>3, <1>4
  <2>2. lengths' = Append(lengths, f + 1) BY <1>8
  <2> QED BY <2>1, <2>2
<1>24. /\ Bonus' \in Int
       /\ pending' # Log!None => Bonus' = 0
       /\ pending' = Log!None => Bonus' = Transition /\ Len(lengths) + 1 = Rounds
  <2>1. pending' = Log!None => Len(lengths) + 1 = Rounds BY <1>8 DEF Log!None
  <2>2. Bonus' = IF pending' # Log!None THEN Transition - Transition ELSE Transition
    BY <1>8, <1>23 DEF Bonus, Log!None
  <2> QED BY <2>1, <2>2, PaceConstants
<1>25. Bonus \in Int /\ Bonus' <= Bonus
  <2>1. Bonus = IF lengths = <<>> THEN 0 ELSE IF pace = 0 THEN Transition - delay ELSE Transition
    BY <1>3 DEF Bonus
  <2>2. pace # 0 BY <1>3, <1>4
  <2>3. lengths = <<>> => pending' # Log!None BY <1>24
  <2> QED BY <1>24, <2>1, <2>2, <2>3, PaceConstants
<1>27. ASSUME nextSequence = 0 PROVE Bonus' <= 0 /\ q - (cs[1].end + 1 - s) + Owed' <= Guard
  <2>1. lengths = <<>>
    <3>1. pending.epoch = 0 BY <1>1, <1>3, <1>27 DEF ChainRuns
    <3>2. Len(lengths) = 0 /\ lengths \in Seq(Nat) BY <1>4, <3>1
    <3> QED BY <3>2
  <2>2. q - (cs[1].end + 1 - s) <= Guard /\ cs[1].end \in Int
    <3>1. CASE m = 1
      <4>1. cs[1].end = f BY <1>9, <1>10, <3>1
      <4> QED BY <1>3, <1>4, <1>7, <4>1
    <3>2. CASE m # 1
      <4>1. 1 \in 1..Len(cs) /\ 1 < Len(cs) BY <1>10, <3>2
      <4>2. cs[1].end = s + 1 * MaxFrames - 1 BY <1>9, <4>1
      <4> QED BY <1>4, <1>15, <4>2
    <3> QED BY <3>1, <3>2
  <2> QED BY <1>4, <1>16, <1>24, <2>1, <2>2
<1>28. Consecutive(cs, s, q) BY <1>10, <1>18, <1>20 DEF Consecutive
<1>29. \E when, more, total : Paced(when, more, total)'
  <2>1. PICK o \in Nat, b \in Int : o = Owed /\ b = Bonus BY <1>15, <1>25
  <2>2. Owed' \in Nat /\ q + Owed' <= o BY <1>15, <1>16, <2>1
  <2>3. Bonus' \in Int /\ Bonus' <= b /\ cs \in Seq(Chunks) /\ Len(cs) > 0
    BY <1>9, <1>10, <1>24, <1>25, <2>1
  <2> QED BY <1>3, <1>8, <1>27, <1>28, <2>1, <2>2, <2>3, SealingKeepsPace
<1>26. Pacing'
  <2>1. /\ delay' \in Nat /\ mutual' < pace'
        /\ delay' > 0 /\ pace' > 0 => delay' = 1 /\ mutual' <= pace' - 2
        /\ pace' = 0 => delay' <= Transition BY <1>8, PaceConstants
  <2>2. pending' = Log!None => Len(lengths') = Rounds BY <1>23, <1>24
  <2> QED BY <2>1, <2>2 DEF Pacing, Log!None
<1> QED BY <1>26, <1>29 DEF PacedInv

(* Submissions and receipts take no time, and leave the stamps alone.      *)
LEMMA PacedInvStep ==
    ASSUME Rounds > 1, CommitInv, RoundsInv, PacedInv, [Session \/ Record \/ Fight]_all
    PROVE  PacedInv'
<1>1. /\ RecorderTypes /\ ServerFollows /\ OnTheWay /\ Pacing
      /\ mutual \in Int /\ pace \in Nat /\ mutual < pace /\ nextSequence \in Nat
      /\ Len(previousChain) \in Nat /\ queued \in Seq(SealedChunks)
  BY SealingIs DEF CommitInv, RecorderTypes, PacedInv, Pacing
<1>2. CASE Log!SimulateFrame BY <1>2, FrameKeepsPace
<1>3. CASE Log!Tick BY <1>3, TickKeepsPace
<1>4. CASE Log!EndRound BY <1>4, RoundKeepsPace
<1>5. ASSUME UNCHANGED <<now, delay, pace, lengths, pending, queued, nextSequence, previousChain>>,
             \A k \in 1..nextSequence : Received(k)' = Received(k),
             mutual' < pace, delay > 0 => mutual' = mutual
      PROVE  PacedInv'
  <2>1. \A k \in 1..nextSequence : Sealing(k)' = Sealing(k) BY <1>5 DEF Sealing
  <2>2. \A i \in DOMAIN queued' : i \in Nat /\ i + 0 \in DOMAIN queued /\ queued'[i] = queued[i + 0]
    <3>1. \A i \in DOMAIN queued : i \in Nat /\ i + 0 = i BY <1>1
    <3> QED BY <1>5, <3>1
  <2>3. Len(previousChain)' = Len(previousChain) + 0 BY <1>1, <1>5
  <2> QED BY <1>5, <2>1, <2>2, <2>3, PassingKeepsPace
<1>6. CASE Log!Confirm
  <2>1. /\ UNCHANGED <<now, delay, pace, lengths, pending, queued, nextSequence, previousChain, stored>>
        /\ delay = 0 /\ mutual' \in (mutual + 1)..(pace - 1) BY <1>6 DEF Log!Confirm, Log!recorder
  <2>2. mutual' < pace /\ (delay > 0 => mutual' = mutual) BY <1>1, <2>1
  <2> QED BY <1>5, <2>1, <2>2 DEF Received
<1>7. CASE Log!Submit \/ Log!LoseAttempt \/ Log!DropRequest
  <2>1. UNCHANGED <<now, delay, pace, mutual, lengths, pending, queued, nextSequence, previousChain, stored>>
    BY <1>7 DEF Log!Submit, Log!LoseAttempt, Log!DropRequest, Log!simulation, Log!recorder
  <2> QED BY <1>1, <1>5, <2>1 DEF Received
<1>8. CASE Log!Receive
  <2>1. PICK a \in answers : Log!ReceiveReceipt(a) BY <1>8 DEF Log!Receive
  <2>2. /\ queued # <<>> /\ queued' = Tail(queued) /\ previousChain' = Append(previousChain, queued[1].chunk)
        /\ UNCHANGED <<now, delay, pace, mutual, lengths, pending, nextSequence, stored>>
    BY <1>1, <2>1 DEF OnTheWay, Log!ReceiveReceipt, Log!simulation
  <2>3. \A k \in 1..nextSequence : Sealing(k)' = Sealing(k) BY <1>1, <2>2, ReceiptMoves
  <2>4. \A k \in 1..nextSequence : Received(k)' = Received(k) BY <2>2 DEF Received
  <2>5. \A i \in DOMAIN queued' : i \in Nat /\ i + 1 \in DOMAIN queued /\ queued'[i] = queued[i + 1]
    BY <1>1, <2>2
  <2>6. Len(previousChain)' = Len(previousChain) + 1
    <3>1. previousChain \in Seq(Chunks) BY <1>1 DEF RecorderTypes
    <3> QED BY <2>2, <3>1
  <2> QED BY <1>1, <2>2, <2>3, <2>4, <2>5, <2>6, PassingKeepsPace
<1>9. CASE Log!Serve
  <2>1. /\ UNCHANGED <<now, delay, pace, mutual, lengths, pending, queued, nextSequence, previousChain>>
        /\ \/ stored' = stored
           \/ /\ Len(stored) < nextSequence /\ Len(stored') = Len(stored) + 1
              /\ \A k \in 1..Len(stored) : stored'[k] = stored[k]
              /\ stored'[Len(stored) + 1].receivedAt = now BY <1>9, ServedNow
  <2>2. Len(stored) \in Nat BY <1>1 DEF RecorderTypes
  <2>3. ASSUME NEW k \in 1..nextSequence PROVE Received(k)' = Received(k)
    <3>1. CASE stored' = stored BY <2>1, <3>1 DEF Received
    <3>2. CASE stored' # stored
      <4>1. CASE k <= Len(stored)
        <5>1. k \in 1..Len(stored) /\ k <= Len(stored') BY <2>1, <2>2, <3>2, <4>1
        <5> QED BY <2>1, <3>2, <4>1, <5>1 DEF Received
      <4>2. CASE k = Len(stored) + 1
        <5>1. ~(k <= Len(stored)) /\ k <= Len(stored') BY <2>1, <2>2, <3>2, <4>2
        <5> QED BY <2>1, <3>2, <4>2, <5>1 DEF Received
      <4>3. CASE k > Len(stored) + 1
        <5>1. ~(k <= Len(stored)) /\ ~(k <= Len(stored')) BY <2>1, <2>2, <3>2, <4>3
        <5> QED BY <2>1, <5>1 DEF Received
      <4> QED BY <1>1, <2>2, <4>1, <4>2, <4>3
    <3> QED BY <3>1, <3>2
  <2> QED BY <1>1, <1>5, <2>1, <2>3
<1>10. CASE Session \/ Fight \/ UNCHANGED all
  <2>1. UNCHANGED recording BY <1>10 DEF Session, Fight, all
  <2> QED BY <1>1, <1>5, <2>1 DEF recording, Received
<1>11. CASE Record BY <1>2, <1>3, <1>4, <1>6, <1>7, <1>8, <1>9, <1>11 DEF Record, Log!Next
<1> QED BY <1>10, <1>11

(* What cannot hold of a number without holding of the one before holds of *)
(* none.                                                                   *)
LEMMA NoFirst ==
    ASSUME NEW m \in Nat, NEW T \in SUBSET (0..m), \A k \in T : k # 0 /\ k - 1 \in T
    PROVE  T = {}
<1> DEFINE U == {m - k : k \in T}
<1> SUFFICES ASSUME T # {} PROVE FALSE OBVIOUS
<1>1. U \in SUBSET (0..m) /\ U # {}
  <2>1. \A k \in T : m - k \in 0..m OBVIOUS
  <2>2. PICK k \in T : TRUE OBVIOUS
  <2>3. m - k \in U BY <2>2
  <2> QED BY <2>1, <2>3
<1>2. PICK u \in U : \A k \in U : k <= u
  <2> HIDE DEF U
  <2> QED BY <1>1, Greatest
<1>3. PICK k \in T : u = m - k BY <1>2
<1>4. k - 1 \in T /\ m - (k - 1) \in U OBVIOUS
<1>5. m - (k - 1) <= u BY <1>2, <1>4
<1> QED BY <1>3, <1>5

(* The verifier's credit takes these steps: there is a function that does, *)
(* for as many commitments as there are.                                   *)
LEMMA CreditSteps ==
    ASSUME NEW chain, Len(chain) \in Nat
    PROVE  \A i \in 0..Len(chain) : Log!Credit(chain)[i] = CreditStep(chain, Log!Credit(chain), i)
<1> DEFINE n == Len(chain)
           Good(m) == \E f : f = [k \in 0..m |-> CreditStep(chain, f, k)]
<1>1. \A f, g : \A k \in 1..n : f[k - 1] = g[k - 1] => CreditStep(chain, f, k) = CreditStep(chain, g, k)
  BY Zenon DEF CreditStep
<1>2. Good(0)
  <2>1. PICK f : f = [k \in 0..0 |-> Log!Burst] OBVIOUS
  <2>2. \A k \in 0..0 : CreditStep(chain, f, k) = Log!Burst BY DEF CreditStep
  <2> QED BY <2>1, <2>2
<1>3. ASSUME NEW m \in 1..n, Good(m - 1) PROVE Good(m)
  <2>1. PICK f : f = [k \in 0..(m - 1) |-> CreditStep(chain, f, k)] BY <1>3
  <2>2. PICK h : h = [k \in 0..m |-> IF k < m THEN f[k] ELSE CreditStep(chain, f, m)] OBVIOUS
  <2>3. \A k \in 0..(m - 1) : h[k] = f[k] /\ f[k] = CreditStep(chain, f, k)
    <3> SUFFICES ASSUME NEW k \in 0..(m - 1) PROVE h[k] = f[k] /\ f[k] = CreditStep(chain, f, k)
      OBVIOUS
    <3>1. k \in 0..m /\ k < m OBVIOUS
    <3> QED BY <2>1, <2>2, <3>1
  <2>4. ASSUME NEW k \in 0..m PROVE h[k] = CreditStep(chain, h, k)
    <3>1. CASE k = 0
      <4>1. 0 \in 0..(m - 1) OBVIOUS
      <4>2. h[0] = CreditStep(chain, f, 0) BY <2>3, <4>1
      <4> QED BY <3>1, <4>2 DEF CreditStep
    <3>2. CASE k # 0
      <4>1. k \in 1..n /\ k - 1 \in 0..(m - 1) BY <2>4, <3>2
      <4>2. CreditStep(chain, h, k) = CreditStep(chain, f, k) BY <1>1, <2>3, <4>1
      <4>3. CASE k < m
        <5>1. k \in 0..(m - 1) BY <2>4, <4>3
        <5> QED BY <2>3, <4>2, <5>1
      <4>4. CASE ~(k < m)
        <5>1. k = m BY <2>4, <4>4
        <5> QED BY <2>2, <4>2, <5>1
      <4> QED BY <4>3, <4>4
    <3> QED BY <3>1, <3>2
  <2>5. h = [k \in 0..m |-> CreditStep(chain, h, k)] BY <2>2, <2>4
  <2> QED BY <2>5
<1>4. Good(n)
  <2> DEFINE T == {m \in 0..n : ~Good(m)}
  <2>1. \A m \in T : m # 0 /\ m - 1 \in T
    <3> SUFFICES ASSUME NEW m \in T PROVE m # 0 /\ m - 1 \in T OBVIOUS
    <3>1. m \in 0..n /\ ~Good(m) OBVIOUS
    <3> HIDE DEF Good
    <3>2. m # 0 /\ m \in 1..n /\ m - 1 \in 0..n BY <1>2, <3>1
    <3> QED BY <1>3, <3>1, <3>2
  <2>2. T \in SUBSET (0..n) /\ n \in 0..n OBVIOUS
  <2>3. n \notin T
    <3> HIDE DEF T
    <3> QED BY <2>1, <2>2, NoFirst
  <2> HIDE DEF Good
  <2> QED BY <2>2, <2>3
<1> DEFINE F == Log!Credit(chain)
<1>5. F = [k \in 0..n |-> CreditStep(chain, F, k)]
  <2>1. \E f : f = [k \in 0..Len(chain) |-> CreditStep(chain, f, k)] BY <1>4
  <2> HIDE DEF Good
  <2> QED BY <2>1, ZenonT(40) DEF Log!Credit, CreditStep
<1> HIDE DEF F
<1>6. \A k \in 0..n : F[k] = CreditStep(chain, F, k) BY <1>5, Zenon
<1> QED BY <1>6 DEF F

(* A count that takes these steps is the one the verifier computes. *)
LEMMA CountComputed ==
    ASSUME NEW chain, Len(chain) \in Nat, NEW g, g = [i \in 0..Len(chain) |-> CountStep(chain, g, i)]
    PROVE  \A i \in 0..Len(chain) : Log!Committed(chain)[i] = g[i]
<1> DEFINE F == Log!Committed(chain)
<1>1. F = [i \in 0..Len(chain) |-> CountStep(chain, F, i)]
  <2>1. \E f : f = [i \in 0..Len(chain) |-> CountStep(chain, f, i)] OBVIOUS
  <2> QED BY <2>1, ZenonT(40) DEF Log!Committed, CountStep
<1> HIDE DEF F
<1>2. \A i \in 0..Len(chain) : F[i] = CountStep(chain, F, i) /\ g[i] = CountStep(chain, g, i)
  BY <1>1, Zenon
<1>3. F[0] = g[0]
  <2>1. 0 \in 0..Len(chain) OBVIOUS
  <2> QED BY <1>2, <2>1 DEF CountStep
<1>4. \A k \in 1..Len(chain) : F[k - 1] = g[k - 1] => F[k] = g[k]
  <2> SUFFICES ASSUME NEW k \in 1..Len(chain), F[k - 1] = g[k - 1] PROVE F[k] = g[k] OBVIOUS
  <2>1. k \in 0..Len(chain) OBVIOUS
  <2>2. CountStep(chain, F, k) = CountStep(chain, g, k) BY Zenon DEF CountStep
  <2> QED BY <1>2, <2>1, <2>2
<1> DEFINE T == {i \in 0..Len(chain) : F[i] # g[i]}
<1>5. \A k \in T : k # 0 /\ k - 1 \in T
  <2> SUFFICES ASSUME NEW k \in T PROVE k # 0 /\ k - 1 \in T OBVIOUS
  <2>1. k # 0 /\ k \in 1..Len(chain) BY <1>3
  <2>2. F[k - 1] # g[k - 1] /\ k - 1 \in 0..Len(chain) BY <1>4, <2>1
  <2> QED BY <2>1, <2>2
<1>6. T = {}
  <2>1. T \in SUBSET (0..Len(chain)) OBVIOUS
  <2> HIDE DEF T
  <2> QED BY <1>5, <2>1, NoFirst
<1> QED BY <1>6 DEF F

(* The verifier's credit falls short of the account by no more than the    *)
(* chunks are early: it gains at least as much between two receipts.       *)
LEMMA CreditFollows ==
    ASSUME CommitInv, ClockInv, NEW at, NEW credit, NEW count, Account(at, credit, count), Timely(at),
           Len(stored) = nextSequence
    PROVE  \A k \in 1..nextSequence :
              /\ Log!Credit(stored)[k] \in Int
              /\ Log!Credit(stored)[k] + MaxLag >= credit[k]
<1> DEFINE F == Log!Credit(stored)
           B == MaxFrames + Guard
           Bad(k) == ~(F[k] \in Int /\ (k > 0 => F[k] + MaxLag >= credit[k] + (Received(k) - at[k])))
<1>1. PICK n \in Nat : n = nextSequence BY AccountNumbers
<1>2. /\ \A k \in 1..n : Received(k) \in Int /\ Spent(k) \in Int
      /\ \A k \in 0..n : at[k] \in Int /\ credit[k] \in Int
      /\ B \in Nat BY <1>1, AccountNumbers, PaceConstants
<1>3. \A i \in 0..n : F[i] = CreditStep(stored, F, i) BY <1>1, CreditSteps
<1> HIDE DEF F
<1>4. F[0] = B
  <2>1. 0 \in 0..n BY <1>1
  <2> QED BY <1>3, <2>1, CommitConstants DEF CreditStep
<1>5. \A k \in 1..n : Received(k) = stored[k].receivedAt /\ Spent(k) = Log!Frames(stored[k].chunk)
  BY <1>1 DEF CommitInv, ServerFollows, Received, Spent
<1>6. \A k \in 1..n : at[k] <= Received(k) /\ Received(k) <= at[k] + MaxLag BY <1>1 DEF Timely
<1>7. ASSUME NEW k \in 1..n, ~Bad(k - 1) PROVE ~Bad(k)
  <2>1. k \in 0..n /\ k - 1 \in 0..n /\ k # 0 BY <1>1
  <2>2. PICK e \in Int : /\ e = (IF k = 1 THEN 0 ELSE Received(k) - Received(k - 1)) /\ e >= 0
                         /\ e = (IF k = 1 THEN 0 ELSE stored[k].receivedAt - stored[k - 1].receivedAt)
    <3>1. CASE k = 1 BY <3>1
    <3>2. CASE k # 1
      <4>1. k - 1 \in 1..n BY <1>1, <3>2
      <4>2. Received(k) = stored[k].receivedAt /\ Received(k - 1) = stored[k - 1].receivedAt
        BY <1>5, <4>1
      <4>3. stored[k - 1].receivedAt <= stored[k].receivedAt BY <1>1, <3>2 DEF ClockInv
      <4>4. Received(k) \in Int /\ Received(k - 1) \in Int BY <1>2, <4>1
      <4> QED BY <3>2, <4>2, <4>3, <4>4
    <3> QED BY <3>1, <3>2
  <2>3. PICK u \in Int : u = F[k - 1] BY <1>7
  <2>4. PICK r \in Int : r = e * Replenish BY <2>2, PaceConstants
  <2>10. r \in Int /\ r >= e /\ (e = 0 => r = 0)
    <3>1. PICK w \in Nat \ {0} : w = Replenish BY PaceConstants
    <3>2. e * w >= e /\ e * w \in Int /\ (e = 0 => e * w = 0) BY <2>2, <3>1
    <3> QED BY <2>4, <3>1, <3>2
  <2>5. F[k] = Lesser(B, u + r) - Spent(k)
    <3>1. CreditStep(stored, F, k) = Log!Min({B, u + r}) - Spent(k)
      BY <1>5, <2>1, <2>2, <2>3, <2>4, CommitConstants, Zenon DEF CreditStep
    <3>2. u + r \in Int /\ B \in Int BY <1>2, <2>3, <2>4
    <3>3. Log!Min({B, u + r}) = Lesser(B, u + r) BY <3>2, MinOfTwo DEF Lesser
    <3> QED BY <1>3, <2>1, <3>1, <3>3
  <2>6. PICK a \in Int, b \in Int, g \in Int, h \in Int, s \in Int, d \in Int :
           /\ a = at[k - 1] /\ b = at[k] /\ g = credit[k - 1] /\ h = credit[k] /\ s = Spent(k)
           /\ d = Received(k) BY <1>2, <2>1
  <2>7. h = Lesser(B, g + (b - a)) - s /\ b <= d /\ d <= b + MaxLag /\ a <= b
    BY <1>1, <1>6, <2>6 DEF Account
  <2>8. F[k] \in Int BY <1>2, <2>3, <2>4, <2>5, <2>6 DEF Lesser
  <2>9. F[k] + MaxLag >= h + (d - b)
    <3>0. PICK l \in Nat, t \in Int, y \in Int, z \in Int :
             l = MaxLag /\ t = B /\ y = g + (b - a) /\ z = u + r
      <4>1. MaxLag \in Nat /\ B \in Int /\ g + (b - a) \in Int /\ u + r \in Int
        BY <1>2, PaceConstants
      <4> QED BY <4>1
    <3>1. CASE k = 1
      <4>1. e = 0 /\ u = B BY <1>4, <2>2, <2>3, <3>1
      <4>2. r = 0 BY <2>10, <4>1
      <4>3. z = t BY <2>3, <3>0, <4>1, <4>2
      <4>4. F[k] = t - s BY <2>5, <2>6, <3>0, <4>3 DEF Lesser
      <4>5. h <= t - s
        <5>1. h = Lesser(t, y) - s BY <2>7, <3>0
        <5>2. Lesser(t, y) <= t BY <3>0 DEF Lesser
        <5>3. Lesser(t, y) \in Int BY <3>0 DEF Lesser
        <5> QED BY <2>6, <3>0, <5>1, <5>2, <5>3
      <4>6. d <= b + l BY <2>7, <3>0
      <4>7. (t - s) + l >= h + (d - b) BY <4>5, <4>6
      <4> QED BY <3>0, <4>4, <4>7
    <3>2. CASE k # 1
      <4>1. k - 1 \in 1..n BY <1>1, <3>2
      <4>2. PICK c \in Int : c = Received(k - 1) BY <1>2, <4>1
      <4>3. u + l >= g + (c - a) BY <1>7, <2>3, <2>6, <3>0, <4>1, <4>2
      <4>4. r >= d - c BY <2>2, <2>10, <2>6, <3>2, <4>2
      <4>5. z = u + r /\ y = g + (b - a) BY <3>0
      <4>8. z + l >= y + (d - b) BY <4>3, <4>4, <4>5
      <4>6. F[k] = Lesser(t, z) - s /\ h = Lesser(t, y) - s /\ d <= b + l BY <2>5, <2>6, <2>7, <3>0
      <4>7. (Lesser(t, z) - s) + l >= (Lesser(t, y) - s) + (d - b)
        <5>1. d <= b + l BY <4>6
        <5> QED BY <4>8, <5>1 DEF Lesser
      <4> QED BY <3>0, <4>6, <4>7
    <3> QED BY <3>1, <3>2
  <2> QED BY <2>6, <2>8, <2>9
<1>8. ~Bad(0) BY <1>2, <1>4
<1>9. {k \in 0..n : Bad(k)} = {}
  <2> DEFINE T == {k \in 0..n : Bad(k)}
  <2>1. \A k \in T : k # 0 /\ k - 1 \in T
    <3> SUFFICES ASSUME NEW k \in T PROVE k # 0 /\ k - 1 \in T OBVIOUS
    <3>1. k \in 0..n /\ Bad(k) OBVIOUS
    <3> HIDE DEF Bad
    <3>2. k # 0 /\ k \in 1..n /\ k - 1 \in 0..n BY <1>8, <3>1
    <3> QED BY <1>7, <3>1, <3>2
  <2>2. T \in SUBSET (0..n) OBVIOUS
  <2> HIDE DEF T
  <2>3. T = {} BY <2>1, <2>2, NoFirst
  <2> QED BY <2>3 DEF T
<1>10. ASSUME NEW k \in 1..n PROVE F[k] \in Int /\ F[k] + MaxLag >= credit[k]
  <2>1. ~Bad(k)
    <3> HIDE DEF Bad
    <3>1. k \in 0..n OBVIOUS
    <3> QED BY <1>9, <3>1
  <2>2. F[k] \in Int /\ F[k] + MaxLag >= credit[k] + (Received(k) - at[k]) BY <2>1
  <2>3. k \in 0..n /\ Received(k) \in Int /\ at[k] \in Int /\ credit[k] \in Int BY <1>2
  <2> QED BY <1>6, <2>2, <2>3, PaceConstants
<1> QED BY <1>1, <1>10 DEF F

(* At the end of a flushed match the evidence took its time, and overdraws *)
(* the credit by no more than the lag.                                     *)
LEMMA PacedIsCredible ==
    ASSUME Rounds > 1, PauseCoversGuard,
           CommitInv, RoundsInv, ClockInv, PacedInv, pending = Log!None, queued = <<>>
    PROVE  Log!CredibleWithin(stored, MaxLag)
<1>1. RecorderTypes /\ ChainRuns /\ ServerFollows /\ Pacing BY DEF CommitInv, PacedInv
<1>2. PICK at, credit, count : Account(at, credit, count) /\ Timely(at) /\ OnPace(at, credit, count)
  BY DEF PacedInv, Paced
<1>3. PICK n \in Nat : n = nextSequence BY <1>2, AccountNumbers
<1>4. /\ Len(stored) = n /\ n > 0 /\ DOMAIN stored = 1..n /\ now \in Int
      /\ \A k \in 1..n : stored[k].chunk = Sealing(k)
      /\ Sealing(n).epoch + 1 = Len(lengths) /\ Len(lengths) = Rounds
  <2>1. pending = Log!None /\ queued = <<>> OBVIOUS
  <2>2. nextSequence > 0 /\ Sealing(nextSequence).epoch + 1 = Len(lengths) /\ Len(lengths) = Rounds
    BY <1>1, <2>1 DEF RoundsInv, Pacing
  <2>3. nextSequence = Len(previousChain) /\ Len(previousChain) <= Len(stored) /\ Len(stored) <= nextSequence
        /\ Len(stored) \in Nat /\ Len(previousChain) \in Nat
    BY <1>1, <2>1 DEF RecorderTypes, ServerFollows
  <2>7. DOMAIN stored = 1..Len(stored) /\ now \in Int BY <1>1 DEF RecorderTypes
  <2>5. Len(stored) = n
    <3>1. PICK a \in Int, b \in Int, c \in Int : a = Len(stored) /\ b = Len(previousChain) /\ c = n
      BY <2>3
    <3>2. b = c /\ b <= a /\ a <= c BY <1>3, <2>3, <3>1
    <3>3. a = c BY <3>2
    <3> QED BY <3>1, <3>3
  <2>4. \A k \in 1..n : stored[k].chunk = Sealing(k) BY <1>1, <1>3, <2>5 DEF ServerFollows
  <2>6. Sealing(n).epoch + 1 = Len(lengths) BY <1>3, <2>2
  <2> QED BY <1>3, <2>2, <2>4, <2>5, <2>6, <2>7
<1>5. /\ \A k \in 1..n : Received(k) \in Int /\ Spent(k) \in Int
      /\ \A k \in 0..n : at[k] \in Int /\ credit[k] \in Int /\ count[k] \in Int
  BY <1>2, <1>3, AccountNumbers
<1>6. \A k \in 1..n : Received(k) = stored[k].receivedAt /\ Spent(k) = Log!Frames(stored[k].chunk)
  BY <1>4 DEF Received, Spent
<1>7. \A i \in DOMAIN stored : Log!Credit(stored)[i] + MaxLag >= 0
  <2> SUFFICES ASSUME NEW i \in 1..n PROVE Log!Credit(stored)[i] + MaxLag >= 0 BY <1>4
  <2>1. credit[i] >= 0 /\ credit[i] \in Int
    <3>1. credit[i] >= 0 /\ i \in 0..n BY <1>2, <1>3 DEF Account
    <3> QED BY <1>5, <3>1
  <2>2. Log!Credit(stored)[i] \in Int /\ Log!Credit(stored)[i] + MaxLag >= credit[i]
    BY <1>2, <1>3, <1>4, CreditFollows
  <2> QED BY <2>1, <2>2, PaceConstants
<1>8. count = [i \in 0..n |-> CountStep(stored, count, i)]
  <2>1. ASSUME NEW i \in 0..n PROVE count[i] = CountStep(stored, count, i)
    <3>1. CASE i = 0 BY <1>2, <3>1 DEF Account, CountStep
    <3>2. CASE i # 0
      <4>1. i \in 1..n BY <3>2
      <4> QED BY <1>2, <1>3, <1>6, <3>2, <4>1 DEF Account, CountStep
    <3> QED BY <3>1, <3>2
  <2>2. count \in [0..n -> Int] BY <1>2, <1>3 DEF Account
  <2> QED BY <2>1, <2>2
<1>9. n > 1
  <2> SUFFICES ASSUME n = 1 PROVE FALSE BY <1>4
  <2>1. Sealing(1).epoch = 0 BY <1>1, <1>3, <1>4 DEF ChainRuns
  <2> QED BY <1>4, <2>1
<1>10. 1 \in 1..n /\ n \in 1..n /\ n \in 0..n /\ 1 \in 0..n BY <1>4
<1>11. PICK d \in Int, x \in Int, a \in Int, b \in Int, u \in Int, v \in Int :
          /\ d = stored[n].receivedAt - stored[1].receivedAt
          /\ x = count[n] - Spent(1)
          /\ a = at[1] /\ b = at[n] /\ u = Received(1) /\ v = Received(n)
  <2>1. /\ Received(1) \in Int /\ Received(n) \in Int /\ Spent(1) \in Int
        /\ at[1] \in Int /\ at[n] \in Int /\ count[n] \in Int BY <1>5, <1>10
  <2>2. stored[n].receivedAt - stored[1].receivedAt = Received(n) - Received(1) BY <1>6, <1>10
  <2>3. stored[n].receivedAt - stored[1].receivedAt \in Int /\ count[n] - Spent(1) \in Int
    BY <2>1, <2>2
  <2> QED BY <2>1, <2>3
<1>12. PICK t \in Int, g \in Int, m \in Int, r \in Int :
          t = Transition /\ g = Guard /\ m = MaxLag /\ r = Replenish /\ r > 0 /\ g > 0
  BY PaceConstants
<1>13. d = v - u /\ v >= b /\ u <= a + m
  <2>1. d = v - u BY <1>6, <1>10, <1>11
  <2>2. at[n] <= Received(n) /\ Received(1) <= at[1] + MaxLag BY <1>2, <1>3, <1>10 DEF Timely
  <2> QED BY <1>11, <1>12, <2>1, <2>2
<1>14. b - a + g >= x + t /\ b - a >= t
  <2>1. lengths # <<>> BY <1>4 DEF RoundsInv
  <2>2. Owed = 0 /\ Bonus = Transition /\ Latest(at) = at[n] BY <1>3, <2>1 DEF Owed, Bonus, Latest
  <2>3. /\ at[n] - at[1] + Guard >= count[n] - Spent(1) + 0 + Transition
        /\ at[n] - at[1] >= Transition BY <1>2, <1>3, <1>4, <2>2 DEF OnPace
  <2>4. count[n] \in Int /\ Spent(1) \in Int BY <1>5, <1>10
  <2> QED BY <1>11, <1>12, <2>3, <2>4
<1>15. d * r >= x
  <2>1. PICK w \in Int : w = t - m BY <1>12
  <2>2. w * r >= g BY <1>12, <2>1 DEF PauseCoversGuard
  <2>3. d >= w /\ d >= x - g + w BY <1>13, <1>14, <2>1
  <2>4. \A i \in Int, j \in Int : i >= j => i * r >= j * r BY <1>12
  <2>5. CASE x <= g
    <3>1. d * r >= w * r BY <2>3, <2>4
    <3>2. PICK p \in Int, q \in Int : p = d * r /\ q = w * r BY <1>12
    <3> QED BY <1>12, <2>2, <2>5, <3>1, <3>2
  <2>6. CASE x > g
    <3>1. d * r >= (x - g + w) * r BY <1>12, <2>1, <2>3, <2>4
    <3>2. (x - g + w) * r = (x - g) * r + w * r BY <1>12, <2>1
    <3>3. (x - g) * r >= x - g BY <1>12, <2>6
    <3>4. PICK p \in Int, q \in Int, h \in Int : p = d * r /\ q = w * r /\ h = (x - g) * r BY <1>12
    <3>5. p >= h + q /\ q >= g /\ h >= x - g BY <2>2, <3>1, <3>2, <3>3, <3>4
    <3> QED BY <1>12, <3>4, <3>5
  <2> QED BY <1>12, <2>5, <2>6
<1>16. (stored[n].receivedAt - stored[1].receivedAt) * Replenish
          >= Log!Committed(stored)[n] - Log!Frames(stored[1].chunk)
  <2>1. Log!Committed(stored)[n] = count[n] BY <1>4, <1>8, <1>10, CountComputed
  <2>2. Spent(1) = Log!Frames(stored[1].chunk) BY <1>6, <1>10
  <2> QED BY <1>11, <1>12, <1>15, <2>1, <2>2
<1> QED BY <1>4, <1>7, <1>9, <1>16 DEF Log!CredibleWithin

(* The evidence of an honest client covers the proof, takes its time and   *)
(* overdraws the verifier's credit by no more than its chunks are late:    *)
(* for any chunk and guard length, rate of credit, number of rounds above  *)
(* one, number of attempts and lag, as long as the pause between two       *)
(* rounds, less the lag, is worth the guard in credit; in the code it is   *)
(* worth it while the lag is at most 42 of the 72 frame times              *)
(* (verifyRankedInputCommitmentCoverage).                                  *)
THEOREM EvidenceWithinLagHolds ==
    ASSUME Rounds > 1, (Transition - MaxLag) * Replenish >= Guard
    PROVE  PlaySpec => []EvidenceWithinLag
<1>1. CommitInv /\ RoundsInv /\ ClockInv /\ PacedInv
      => (Log!Flushed => Log!CredibleWithin(stored, MaxLag))
  BY PacedIsCredible DEF Log!Flushed, PauseCoversGuard
<1>2. PlayInit => RoundsInv /\ ClockInv /\ PacedInv
  <2>1. Log!Init => ClockInv BY DEF Log!Init, ClockInv
  <2> QED BY <2>1, RoundsInvInit, PacedInvInit DEF PlayInit
<1>3. CommitInv /\ RoundsInv /\ [Session \/ Record \/ Fight]_all => RoundsInv' BY RoundsInvStep
<1>4. CommitInv /\ ClockInv /\ [Session \/ Record \/ Fight]_all => ClockInv' BY ClockInvStep
<1>5. CommitInv /\ RoundsInv /\ PacedInv /\ [Session \/ Record \/ Fight]_all => PacedInv'
  BY PacedInvStep
<1>6. /\ Log!TailStaysOpen /\ (Log!Flushed => Log!Covers(stored, lengths))
      /\ Log!Flushed => Log!CredibleWithin(stored, MaxLag)
      => EvidenceWithinLag BY DEF EvidenceWithinLag, Log!EvidenceWithinLag
<1> QED
  BY <1>1, <1>2, <1>3, <1>4, <1>5, <1>6, CommitInvHolds, TailStaysOpenHolds, EvidenceCoversHolds,
     PTL DEF PlaySpec

-----------------------------------------------------------------------------
(* Fight: the numbers of the kit. *)
LEMMA FightKit == Duel!FightAssumption BY PlayAssumption

(* What is added up and counted down. *)
LEMMA KitNumbers ==
  /\ LaunchStartup \in Nat /\ LaunchActive \in Nat /\ LaunchActive > 0
  /\ LaunchHitRecovery \in Nat /\ LaunchWhiffRecovery \in Nat
  /\ DunkStartup \in Nat /\ DunkActive \in Nat /\ DunkActive > 0
  /\ DunkHitRecovery \in Nat /\ DunkWhiffRecovery \in Nat
  /\ SpecialStartup \in Nat /\ SpecialActive \in Nat /\ SpecialActive > 0
  /\ SpecialRecovery \in Nat /\ SpecialCooldown \in Nat
  /\ ParryStartup \in Nat /\ ParryActive \in Nat /\ ParryRecovery \in Nat
  /\ CounterStun \in Nat /\ GuardFrames \in Nat /\ BreakRecovery \in Nat /\ BreakRecovery > 0
  /\ Helpless \in Nat /\ DunkRecovery \in Nat /\ DunkRecovery > 0 /\ ShotStun \in Nat
  /\ GrabStun \in Nat /\ GrabStun > 0
  /\ MinFlight \in Nat /\ MinFlight > 1 /\ MinFlight <= Helpless
  /\ MinFlight > LaunchStartup /\ MinFlight > DunkStartup /\ MinFlight > SpecialStartup
  BY FightKit DEF Duel!FightAssumption

(* The fuel and what costs it. *)
LEMMA FuelNumbers ==
  /\ MaxFuel \in Nat /\ SpecialCost \in Nat /\ DashCost \in Nat /\ DashDebt \in Nat
  /\ NonCommitPenalty \in Nat /\ RecoveryCost \in Nat /\ Breaks \in Nat
  BY FightKit DEF Duel!FightAssumption

(* Spending fuel leaves a fighter one. *)
LEMMA SpendFits ==
    ASSUME NEW x \in Duel!Fighter, NEW n \in Nat
    PROVE  Duel!Spend(x, n) \in Duel!Fighter
<1>1. Duel!Minus(x.fuel, n) \in Duel!Fuel
  <2>1. x.fuel \in Duel!Fuel BY DEF Duel!Fighter
  <2> QED BY <2>1, FuelNumbers DEF Duel!Fuel, Duel!Minus
<1>2. \A m \in Duel!Fuel : [x EXCEPT !.fuel = m] \in Duel!Fighter BY DEF Duel!Fighter
<1> QED BY <1>1, <1>2 DEF Duel!Spend

(* Spending fuel changes nothing else. *)
LEMMA SpendIsAlike ==
    ASSUME NEW x \in Duel!Fighter, NEW n
    PROVE  Alike(x, Duel!Spend(x, n)) /\ Duel!Spend(x, n).superBoost = x.superBoost
  BY DEF Duel!Fighter, Duel!Spend, Alike

(* The end of a Super Boost changes only the dash and the fuel. *)
LEMMA FinishFits ==
    ASSUME NEW x \in Duel!Fighter
    PROVE  /\ Duel!finishSuperBoost(x) \in Duel!Fighter
           /\ Alike(x, Duel!finishSuperBoost(x))
           /\ Duel!finishSuperBoost(x).superBoost = FALSE
<1> DEFINE y == [x EXCEPT !.superBoost = FALSE]
           n == DashDebt + (IF x.didCommit THEN 0 ELSE NonCommitPenalty)
<1>1. y \in Duel!Fighter /\ Alike(x, y) /\ y.superBoost = FALSE BY DEF Duel!Fighter, Alike
<1>2. n \in Nat BY FuelNumbers
<1> HIDE DEF y, n
<1>3. Duel!Spend(y, n) \in Duel!Fighter /\ Alike(y, Duel!Spend(y, n))
      /\ Duel!Spend(y, n).superBoost = FALSE BY <1>1, <1>2, SpendFits, SpendIsAlike
<1>4. Alike(x, Duel!Spend(y, n)) BY <1>1, <1>3 DEF Alike
<1>5. x.superBoost \in BOOLEAN BY DEF Duel!Fighter
<1>6. CASE x.superBoost
  <2>1. Duel!finishSuperBoost(x) = Duel!Spend(y, n) BY <1>6 DEF Duel!finishSuperBoost, y, n
  <2> QED BY <2>1, <1>3, <1>4
<1>7. CASE ~x.superBoost
  <2>1. Duel!finishSuperBoost(x) = x BY <1>7 DEF Duel!finishSuperBoost
  <2> QED BY <2>1, <1>5, <1>7 DEF Alike
<1> QED BY <1>6, <1>7

(* Clearing the attempts ends every attack and nothing else. *)
LEMMA ClearFits ==
    ASSUME NEW x \in Duel!Fighter
    PROVE  LET y == Duel!ClearAttempts(x)
           IN  /\ y \in Duel!Fighter /\ ~Duel!Attacking(y)
               /\ y.stunned = x.stunned /\ y.helpless = x.helpless /\ y.recovering = x.recovering
               /\ y.parry = x.parry /\ y.parryStartup = x.parryStartup
               /\ y.launched = x.launched /\ y.superBoost = x.superBoost
<1>1. 0 \in Duel!Frames BY DEF Duel!Frames
<1>2. Duel!ClearAttempts(x) \in Duel!Fighter
  BY <1>1 DEF Duel!ClearAttempts, Duel!clearLaunchAttempt, Duel!clearDunkAttempt,
     Duel!clearSpecialAttempt, Duel!Fighter
<1> QED
  BY <1>2 DEF Duel!ClearAttempts, Duel!clearLaunchAttempt, Duel!clearDunkAttempt,
     Duel!clearSpecialAttempt, Duel!Attacking, Duel!Launching, Duel!Dunking, Duel!Casting,
     Duel!Fighter

(* A fighter without an attack is timed, however often it had its turn. *)
LEMMA IdleIsTimed ==
    ASSUME NEW x \in Duel!Fighter, ~Duel!Attacking(x), NEW c, NEW l, NEW k
    PROVE  Timed(x, c, l, k)
  BY DEF Timed, Due, Duel!Attacking, Duel!Launching, Duel!Dunking, Duel!Casting, Duel!Fighter,
     Duel!Frames

(* The types of a fighter's fields. *)
LEMMA NumbersOf ==
    ASSUME NEW x \in Duel!Fighter
    PROVE  /\ x.stunned \in Nat /\ x.helpless \in Nat /\ x.recovering \in Nat
           /\ x.parry \in Nat /\ x.parryStartup \in Nat /\ x.endLag \in Nat
           /\ x.launchStartup \in Nat /\ x.launchActive \in Nat
           /\ x.dunkStartup \in Nat /\ x.dunkActive \in Nat
           /\ x.specialStartup \in Nat /\ x.specialActive \in Nat
           /\ x.coolSpecial \in Nat /\ x.coolLaunch \in Nat /\ x.coolDunk \in Nat
           /\ x.superBoost \in BOOLEAN /\ x.launched \in BOOLEAN
           /\ x.fuel \in Duel!Fuel /\ x.breaks \in 0..Breaks
           /\ x.specialDidResolve \in BOOLEAN /\ x.tainted \in BOOLEAN
  BY DEF Duel!Fighter, Duel!Frames

(* A stun ends the dash, the wind-up of a parry and every attack. *)
LEMMA StunnedFits ==
    ASSUME NEW x \in Duel!Fighter, NEW n \in Nat
    PROVE  LET y == Duel!setStunned(x, n)
           IN  /\ y \in Duel!Fighter /\ ~Duel!Attacking(y) /\ ~y.superBoost
               /\ y.stunned = n /\ y.helpless = x.helpless /\ y.recovering = x.recovering
               /\ y.parry = x.parry /\ y.parryStartup = 0 /\ y.launched = x.launched
<1> DEFINE z == Duel!finishSuperBoost(x)
           v == [z EXCEPT !.stunned = n, !.parryStartup = 0]
<1>1. z \in Duel!Fighter /\ Alike(x, z) /\ z.superBoost = FALSE BY FinishFits
<1>2. n \in Duel!Frames /\ 0 \in Duel!Frames BY DEF Duel!Frames
<1> HIDE DEF z
<1>3. v \in Duel!Fighter BY <1>1, <1>2 DEF Duel!Fighter
<1>4. /\ v.stunned = n /\ v.helpless = z.helpless /\ v.recovering = z.recovering
      /\ v.parry = z.parry
      /\ v.parryStartup = 0 /\ v.launched = z.launched /\ v.superBoost = FALSE
  BY <1>1, <1>2 DEF Duel!Fighter
<1> HIDE DEF v
<1>5. Duel!setStunned(x, n) = Duel!ClearAttempts(v) BY DEF Duel!setStunned, z, v
<1> QED BY <1>1, <1>3, <1>4, <1>5, ClearFits DEF Alike

(* A stunned fighter is fit, and still in flight if it was. *)
LEMMA StunnedIsFit ==
    ASSUME NEW x, NEW c, NEW l, NEW k, Whole(x), Credited(x), NEW n \in Nat
    PROVE  LET y == Duel!setStunned(x, n)
           IN  Fit(y, c, l, k) /\ (n > 0 => Follows(x, y)) /\ y.helpless = x.helpless
<1>1. x \in Duel!Fighter BY DEF Whole
<1> DEFINE y == Duel!setStunned(x, n)
<1>2. /\ y \in Duel!Fighter /\ ~Duel!Attacking(y) /\ ~y.superBoost
      /\ y.stunned = n /\ y.helpless = x.helpless /\ y.recovering = x.recovering
      /\ y.parry = x.parry /\ y.parryStartup = 0 /\ y.launched = x.launched BY <1>1, StunnedFits
<1> HIDE DEF y
<1>3. Timed(y, c, l, k) BY <1>2, IdleIsTimed
<1>4. Whole(y) /\ Credited(y) /\ (n > 0 => Follows(x, y))
  BY <1>2 DEF Whole, Credited, Follows, Duel!Attacking, Duel!WithoutControl
<1> QED BY <1>2, <1>3, <1>4 DEF Fit, y

(* There are two fighters, each the other of the other. *)
LEMMA Two == Duel!P1 \in Duel!Player /\ Duel!P2 \in Duel!Player /\ Duel!P1 # Duel!P2
             /\ \A p \in Duel!Player : Duel!Other(p) \in Duel!Player /\ Duel!Other(p) # p
                /\ Duel!Other(Duel!Other(p)) = p
                                       /\ \A q \in Duel!Player : q = p \/ q = Duel!Other(p)
  BY DEF Duel!Player, Duel!P1, Duel!P2, Duel!Other

(* Replacing one fighter of a frame leaves the rest of it alone. *)
LEMMA SetIs ==
    ASSUME NEW s \in Frame, NEW p \in Duel!Player, NEW y \in Duel!Fighter
    PROVE  Became(s, Duel!Set(s, p, y), p, y)
<1>1. [s.f EXCEPT ![p] = y] \in [Duel!Player -> Duel!Fighter] BY DEF Frame
<1>2. \A g \in [Duel!Player -> Duel!Fighter] : LET t == [s EXCEPT !.f = g]
        IN /\ t \in Frame /\ t.f = g /\ t.w = s.w /\ t.apart = s.apart
           /\ t.connected = s.connected /\ t.returned = s.returned BY DEF Frame
<1>3. s.f \in [Duel!Player -> Duel!Fighter] BY DEF Frame
<1>4. Duel!Set(s, p, y) = [s EXCEPT !.f = [s.f EXCEPT ![p] = y]] BY DEF Duel!Set
<1> QED BY <1>1, <1>2, <1>3, <1>4 DEF Became

(* One fighter's turn, in which it is not launched. *)
LEMMA OneTurn ==
    ASSUME NEW lost \in SUBSET Duel!Player, NEW S, NEW L, NEW D, NEW S2, NEW L2, NEW D2,
           NEW s, Round(s, lost, S, L, D), NEW p \in Duel!Player,
           NEW t, NEW y, Became(s, t, p, y),
           Fit(y, Turn(p, S2), Turn(p, L2), Turn(p, D2)), Follows(s.f[p], y),
           \A q \in Duel!Player : q # p => Turn(q, S2) = Turn(q, S) /\ Turn(q, L2) = Turn(q, L)
           /\ Turn(q, D2) = Turn(q, D)
    PROVE  Round(t, lost, S2, L2, D2)
<1> USE DEF Became
<1>1. \A q \in Duel!Player : Fit(t.f[q], Turn(q, S2), Turn(q, L2), Turn(q, D2)) BY DEF Round
<1>2. ~ (t.f[Duel!P1].helpless > 0 /\ t.f[Duel!P2].helpless > 0) BY Two DEF Round, Follows
<1>3. \A q \in lost : Duel!WithoutControl(t.f[q]) /\ q \notin t.connected BY DEF Round, Follows
<1> QED BY <1>1, <1>2, <1>3 DEF Round

(* The same, when the turn replaces the fighter. *)
LEMMA SetTurn ==
    ASSUME NEW lost \in SUBSET Duel!Player, NEW S, NEW L, NEW D, NEW S2, NEW L2, NEW D2,
           NEW s, Round(s, lost, S, L, D), NEW p \in Duel!Player, NEW y,
           Fit(y, Turn(p, S2), Turn(p, L2), Turn(p, D2)), Follows(s.f[p], y),
           \A q \in Duel!Player : q # p => Turn(q, S2) = Turn(q, S) /\ Turn(q, L2) = Turn(q, L)
           /\ Turn(q, D2) = Turn(q, D)
    PROVE  Round(Duel!Set(s, p, y), lost, S2, L2, D2)
<1>1. s \in Frame /\ y \in Duel!Fighter BY DEF Round, Fit, Whole
<1>2. Became(s, Duel!Set(s, p, y), p, y) BY <1>1, SetIs
<1> QED BY <1>2, OneTurn

-----------------------------------------------------------------------------
(* The parry. *)
LEMMA ActivateIs ==
    ASSUME NEW x \in Duel!Fighter
    PROVE  LET y == Duel!activateParry(x)
           IN  /\ y \in Duel!Fighter
               /\ y.stunned = x.stunned /\ y.helpless = x.helpless /\ y.recovering = x.recovering
               /\ y.parryStartup = x.parryStartup
               /\ y.launchStartup = x.launchStartup /\ y.launchActive = x.launchActive
               /\ y.dunkStartup = x.dunkStartup /\ y.dunkActive = x.dunkActive
               /\ y.specialStartup = x.specialStartup /\ y.specialActive = x.specialActive
               /\ y.launched = x.launched /\ y.superBoost = x.superBoost
<1>1. ParryActive \in Duel!Frames /\ Duel!AtLeast(x.endLag, ParryRecovery) \in Duel!Frames
  BY NumbersOf, KitNumbers DEF Duel!AtLeast, Duel!Frames
<1> QED BY <1>1 DEF Duel!activateParry, Duel!Fighter

(* A change that is steady keeps a fighter fit. *)
LEMMA SteadyIsFit ==
    ASSUME NEW x, NEW c, NEW l, NEW k, Fit(x, c, l, k), NEW y \in Duel!Fighter, Steady(x, y),
           y.superBoost => x.superBoost,
           y.parryStartup > 0 => x.parryStartup > 0 \/ ~Duel!Attacking(x)
    PROVE  Fit(y, c, l, k) /\ Follows(x, y)
<1> USE DEF Steady
<1>1. Duel!WithoutControl(y) <=> Duel!WithoutControl(x) BY DEF Duel!WithoutControl
<1>2. (Duel!Launching(y) <=> Duel!Launching(x)) /\ (Duel!Dunking(y) <=> Duel!Dunking(x))
      /\ (Duel!Casting(y) <=> Duel!Casting(x)) BY DEF Duel!Launching, Duel!Dunking, Duel!Casting
<1>3. Duel!Attacking(y) <=> Duel!Attacking(x) BY <1>2 DEF Duel!Attacking
<1>4. Whole(y) /\ Credited(y) /\ Follows(x, y) BY <1>1, <1>2, <1>3 DEF Fit, Whole, Credited, Follows
<1>5. Timed(y, c, l, k) BY DEF Fit, Timed, Due, Elapsed
<1> QED BY <1>4, <1>5 DEF Fit

(* The wind-up of a parry is counted apart from everything else. *)
LEMMA WindUpIs ==
    ASSUME NEW x \in Duel!Fighter, NEW n \in Nat
    PROVE  LET y == [x EXCEPT !.parryStartup = n]
           IN  y \in Duel!Fighter /\ Steady(x, y) /\ y.superBoost = x.superBoost
              /\ y.parryStartup = n
<1>1. n \in Duel!Frames BY DEF Duel!Frames
<1> QED BY <1>1 DEF Duel!Fighter, Steady

(* A parry's wind-up goes on (advanceParryStartup). *)
LEMMA ParryAdvances ==
    ASSUME NEW lost \in SUBSET Duel!Player, NEW s, Round(s, lost, {}, {}, {}), NEW p \in Duel!Player
    PROVE  Round(Duel!advanceParryStartup(s, p), lost, {}, {}, {})
<1> DEFINE x == s.f[p]
           y == [x EXCEPT !.parryStartup = x.parryStartup - 1]
           z == IF Duel!WithoutControl(x) THEN [x EXCEPT !.parryStartup = 0]
                ELSE IF y.parryStartup = 0 THEN Duel!activateParry(y) ELSE y
<1>1. s \in Frame /\ Fit(x, Turn(p, {}), Turn(p, {}), Turn(p, {})) /\ x \in Duel!Fighter
  BY DEF Round, Fit, Whole
<1>2. CASE x.parryStartup = 0 BY <1>2 DEF Duel!advanceParryStartup
<1>3. CASE x.parryStartup # 0
  <2>1. Duel!advanceParryStartup(s, p) = Duel!Set(s, p, z) BY <1>3 DEF Duel!advanceParryStartup
  <2>2. x.parryStartup \in Nat BY <1>1, NumbersOf
  <2>3. x.parryStartup - 1 \in Nat BY <1>3, <2>2
  <2> HIDE DEF x
  <2>4. y \in Duel!Fighter /\ Steady(x, y) /\ y.superBoost = x.superBoost BY <1>1, <2>3, WindUpIs
  <2>5. LET v == [x EXCEPT !.parryStartup = 0] IN v \in Duel!Fighter /\ Steady(x, v)
            /\ v.superBoost = x.superBoost BY <1>1, WindUpIs
  <2> HIDE DEF y
  <2>6. LET v == Duel!activateParry(y) IN v \in Duel!Fighter /\ Steady(y, v)
            /\ v.superBoost = y.superBoost BY <2>4, ActivateIs DEF Steady
  <2>7. z \in Duel!Fighter /\ Steady(x, z) /\ z.superBoost = x.superBoost
    BY <2>4, <2>5, <2>6 DEF Steady
  <2> HIDE DEF z
  <2>8. x.parryStartup > 0 BY <1>3, <2>2
  <2>9. Fit(z, Turn(p, {}), Turn(p, {}), Turn(p, {})) /\ Follows(x, z)
    BY <1>1, <2>7, <2>8, SteadyIsFit
  <2> QED BY <2>1, <2>9, SetTurn DEF x
<1> QED BY <1>2, <1>3

(* A parry begins (startParryAttempt). *)
LEMMA ParryStarts ==
    ASSUME NEW lost \in SUBSET Duel!Player, NEW s, Round(s, lost, {}, {}, {}),
           NEW p \in Duel!Player, NEW held
    PROVE  Round(Duel!startParryAttempt(s, p, held), lost, {}, {}, {})
<1> DEFINE x == s.f[p]
           y == [x EXCEPT !.parryStartup = ParryStartup]
           z == IF ParryStartup = 0 THEN Duel!activateParry(y) ELSE y
<1>1. s \in Frame /\ Fit(x, Turn(p, {}), Turn(p, {}), Turn(p, {})) /\ x \in Duel!Fighter
  BY DEF Round, Fit, Whole
<1>2. CASE Duel!startParryAttempt(s, p, held) = s BY <1>2
<1>3. CASE Duel!startParryAttempt(s, p, held) # s
  <2>1. Duel!startParryAttempt(s, p, held) = Duel!Set(s, p, z) /\ ~Duel!hasAttackCommitment(x)
    BY <1>3 DEF Duel!startParryAttempt
  <2> HIDE DEF x
  <2>4. y \in Duel!Fighter /\ Steady(x, y) /\ y.superBoost = x.superBoost
    BY <1>1, KitNumbers, WindUpIs
  <2> HIDE DEF y
  <2>6. LET v == Duel!activateParry(y) IN v \in Duel!Fighter /\ Steady(y, v)
            /\ v.superBoost = y.superBoost BY <2>4, ActivateIs DEF Steady
  <2>7. z \in Duel!Fighter /\ Steady(x, z) /\ z.superBoost = x.superBoost BY <2>4, <2>6 DEF Steady
  <2> HIDE DEF z
  <2>9. Fit(z, Turn(p, {}), Turn(p, {}), Turn(p, {})) /\ Follows(x, z)
    BY <1>1, <2>1, <2>7, SteadyIsFit DEF Duel!hasAttackCommitment
  <2> QED BY <2>1, <2>9, SetTurn DEF x
<1> QED BY <1>2, <1>3

-----------------------------------------------------------------------------
(* The launch break. *)
LEMMA ApartIs ==
    ASSUME NEW s \in Frame, NEW b \in BOOLEAN
    PROVE  LET t == [s EXCEPT !.apart = b]
           IN  /\ t \in Frame /\ t.f = s.f /\ t.w = s.w /\ t.shots = s.shots
               /\ t.connected = s.connected /\ t.returned = s.returned /\ t.apart = b BY DEF Frame

(* Pushing the fighters apart changes no fighter. *)
LEMMA ApartRound ==
    ASSUME NEW lost \in SUBSET Duel!Player, NEW S, NEW L, NEW D, NEW s, Round(s, lost, S, L, D),
           NEW b \in BOOLEAN
    PROVE  Round([s EXCEPT !.apart = b], lost, S, L, D)
<1> DEFINE t == [s EXCEPT !.apart = b]
<1>1. s \in Frame BY DEF Round
<1>2. t \in Frame /\ t.f = s.f /\ t.connected = s.connected /\ t.returned = s.returned
  BY <1>1, ApartIs
<1> HIDE DEF t
<1>3. Round(t, lost, S, L, D) BY <1>2 DEF Round
<1> QED BY <1>3 DEF t

(* A launch break ends the flight and every attack of its fighter (tryLaunchBreak). *)
LEMMA BreakKeeps ==
    ASSUME NEW lost \in SUBSET Duel!Player, NEW S, NEW s, Round(s, lost, S, S, S),
           NEW p \in Duel!Player, NEW held
    PROVE  LET t == Duel!tryLaunchBreak(s, p, held)
           IN  /\ Duel!BreaksLaunch(s, p, held) =>
                  /\ Round(t, lost, S \cup {p}, S \cup {p}, S \cup {p})
                  /\ t.w = s.w /\ \A q \in Duel!Player : q # p => t.f[q] = s.f[q]
               /\ ~Duel!BreaksLaunch(s, p, held) => t = s
<1> DEFINE x == s.f[p]
           v == [x EXCEPT !.breaks = x.breaks - 1, !.helpless = 0, !.launched = FALSE]
           y == Duel!setStunned(v, BreakRecovery)
<1>1. s \in Frame /\ Fit(x, Turn(p, S), Turn(p, S), Turn(p, S)) /\ x \in Duel!Fighter
  BY DEF Round, Fit, Whole
<1>2. CASE ~Duel!BreaksLaunch(s, p, held) BY <1>2 DEF Duel!tryLaunchBreak
<1>3. CASE Duel!BreaksLaunch(s, p, held)
  <2>1. Duel!tryLaunchBreak(s, p,
        held) = [Duel!Set(s, p, y) EXCEPT !.apart = Duel!Set(s, p, y).apart \/ x.launched]
    BY <1>3 DEF Duel!tryLaunchBreak
  <2>2. x.breaks > 0 BY <1>3 DEF Duel!BreaksLaunch
  <2> HIDE DEF x
  <2>3. x.breaks - 1 \in 0..Breaks /\ 0 \in Duel!Frames /\ x.launched \in BOOLEAN
    BY <1>1, <2>2, NumbersOf, FuelNumbers DEF Duel!Frames
  <2>4. /\ v \in Duel!Fighter /\ v.helpless = 0 /\ v.launched = FALSE /\ v.superBoost = x.superBoost
        /\ v.stunned = x.stunned /\ v.recovering = x.recovering
        /\ v.parryStartup = x.parryStartup
        /\ v.launchStartup = x.launchStartup /\ v.launchActive = x.launchActive
        /\ v.dunkStartup = x.dunkStartup /\ v.dunkActive = x.dunkActive
        /\ v.specialStartup = x.specialStartup /\ v.specialActive = x.specialActive
    BY <1>1, <2>3 DEF Duel!Fighter
  <2> HIDE DEF v
  <2>5. Whole(v) /\ Credited(v)
    <3>1. (Duel!Launching(v) <=> Duel!Launching(x)) /\ (Duel!Dunking(v) <=> Duel!Dunking(x))
          /\ (Duel!Casting(v) <=> Duel!Casting(x))
      BY <2>4 DEF Duel!Launching, Duel!Dunking, Duel!Casting
    <3>2. Duel!WithoutControl(v) => Duel!WithoutControl(x) BY <2>4 DEF Duel!WithoutControl
    <3> QED BY <1>1, <2>4, <3>1, <3>2, KitNumbers DEF Fit, Whole, Credited, Duel!Attacking
  <2>6. /\ y \in Duel!Fighter /\ ~Duel!Attacking(y) /\ y.stunned = BreakRecovery /\ y.helpless = 0
    BY <2>4, KitNumbers, StunnedFits
  <2>7. Fit(y, Turn(p, S \cup {p}), Turn(p, S \cup {p}), Turn(p, S \cup {p}))
    BY <2>5, KitNumbers, StunnedIsFit
  <2> HIDE DEF y
  <2>8. Follows(x, y) BY <2>6, KitNumbers DEF Follows, Duel!WithoutControl
  <2>9. Round(Duel!Set(s, p, y), lost, S \cup {p}, S \cup {p}, S \cup {p})
    BY <2>7, <2>8, SetTurn DEF x, Turn
  <2> DEFINE t == Duel!Set(s, p, y)
  <2>10. t \in Frame /\ t.w = s.w /\ t.apart = s.apart
         /\ \A q \in Duel!Player : q # p => t.f[q] = s.f[q] BY <1>1, <2>6, SetIs DEF Became
  <2>11. (t.apart \/ x.launched) \in BOOLEAN OBVIOUS
  <2> HIDE DEF t
  <2>12. LET u == [t EXCEPT !.apart = t.apart \/ x.launched]
         IN  /\ Round(u, lost, S \cup {p}, S \cup {p}, S \cup {p})
             /\ u.f = t.f /\ u.w = t.w BY <2>9, <2>10, <2>11, ApartRound, ApartIs DEF t
  <2> QED BY <1>3, <2>1, <2>10, <2>12 DEF t
<1> QED BY <1>2, <1>3

-----------------------------------------------------------------------------
(* The special. *)

(* An attack connects whose fighter has not lost control since it began. *)
LEMMA ConnectedRound ==
    ASSUME NEW lost \in SUBSET Duel!Player, NEW S, NEW L, NEW D, NEW s, Round(s, lost, S, L, D),
           NEW p \in Duel!Player, p \notin lost
    PROVE  Round([s EXCEPT !.connected = s.connected \cup {p}], lost, S, L, D)
<1> DEFINE C == s.connected \cup {p}
           t == [s EXCEPT !.connected = C]
<1>1. s \in Frame BY DEF Round
<1>2. C \in SUBSET Duel!Player BY <1>1 DEF Frame
<1>3. \A q \in lost : q \in C => q \in s.connected OBVIOUS
<1> HIDE DEF C
<1>4. t \in Frame /\ t.f = s.f /\ t.connected = C /\ t.returned = s.returned BY <1>1, <1>2 DEF Frame
<1> HIDE DEF t
<1>5. Round(t, lost, S, L, D) BY <1>3, <1>4 DEF Round
<1> QED BY <1>5 DEF t, C

(* A grab takes effect on the other fighter alone. *)
LEMMA GrabIs ==
    ASSUME NEW s \in Frame, NEW p \in Duel!Player
    PROVE  LET e == Grabbed(s, p)
           IN  /\ e \in Frame /\ e.f[p] = s.f[p] /\ e.w = s.w /\ e.apart = s.apart
               /\ e.f[Duel!Other(p)] = Duel!setStunned(s.f[Duel!Other(p)], GrabStun)
               /\ e.connected = s.connected \cup {p} /\ e.returned = s.returned
<1> DEFINE q == Duel!Other(p)
           y == Duel!setStunned(s.f[q], GrabStun)
           t == Duel!Set(s, q, y)
           C == t.connected \cup {p}
<1>1. q \in Duel!Player /\ q # p BY Two
<1>2. y \in Duel!Fighter
  <2>1. s.f[q] \in Duel!Fighter BY <1>1 DEF Frame
  <2> QED BY <2>1, KitNumbers, StunnedFits
<1>3. Grabbed(s, p) = [t EXCEPT !.connected = C] BY DEF Grabbed
<1> HIDE DEF y, q
<1>5. Became(s, t, q, y) BY <1>1, <1>2, SetIs
<1>4. C \in SUBSET Duel!Player BY <1>5 DEF Became, Frame
<1> HIDE DEF t, C
<1>6. LET e == [t EXCEPT !.connected = C]
      IN  /\ e \in Frame /\ e.f = t.f /\ e.w = t.w /\ e.apart = t.apart
          /\ e.connected = C /\ e.returned = t.returned BY <1>4, <1>5 DEF Became, Frame
<1> QED BY <1>1, <1>3, <1>5, <1>6 DEF Became, y, q, C

(* A grab stuns a fighter that stays in flight if it was. *)
LEMMA GrabKeepsRound ==
    ASSUME NEW lost \in SUBSET Duel!Player, NEW S, NEW L, NEW D, NEW s, Round(s, lost, S, L, D),
           NEW p \in Duel!Player, p \notin lost
    PROVE  Round(Grabbed(s, p), lost, S, L, D)
<1> DEFINE q == Duel!Other(p)
           x == s.f[q]
           y == Duel!setStunned(x, GrabStun)
           t == Duel!Set(s, q, y)
<1>1. q \in Duel!Player BY Two
<1>2. Whole(x) /\ Credited(x) BY <1>1 DEF Round, Fit
<1>3. Fit(y, Turn(q, S), Turn(q, L), Turn(q, D)) /\ Follows(x, y) BY <1>2, KitNumbers, StunnedIsFit
<1>4. Grabbed(s, p) = [t EXCEPT !.connected = t.connected \cup {p}] /\ s \in Frame
  BY DEF Grabbed, Round
<1> HIDE DEF y, q
<1>5. Round(t, lost, S, L, D) BY <1>1, <1>3, SetTurn
<1> HIDE DEF t
<1> QED BY <1>4, <1>5, ConnectedRound

(* A special takes effect: a grab on the other fighter, any other on nobody. *)
LEMMA ResolveIs ==
    ASSUME NEW s \in Frame, NEW p \in Duel!Player, NEW grasp
    PROVE  LET t == Duel!ResolveSpecial(s, p, grasp)
           IN  \E u \in {s, Grabbed(s, p)} :
               /\ Became(u, t, p, t.f[p])
               /\ t.f[p] \in Duel!Fighter /\ Steady(s.f[p], t.f[p])
               /\ t.f[p].superBoost = s.f[p].superBoost /\ t.f[p].parryStartup = s.f[p].parryStartup
<1> DEFINE e == Duel!executeSpecial(s, p, grasp)
<1>0. s.f[p] \in Duel!Fighter BY DEF Frame
<1>1. PICK u \in {s, Grabbed(s, p)} :
      /\ Became(u, e, p, e.f[p]) /\ e.f[p] \in Duel!Fighter /\ Steady(s.f[p], e.f[p])
      /\ e.f[p].superBoost = s.f[p].superBoost /\ e.f[p].parryStartup = s.f[p].parryStartup
  <2>1. CASE kind = "projectile"
    <3>1. e = [s EXCEPT !.shots = [s.shots EXCEPT ![p] = s.shots[p] + 1]]
      BY <2>1 DEF Duel!executeSpecial
    <3>2. [s.shots EXCEPT ![p] = s.shots[p] + 1] \in [Duel!Player -> Nat] BY DEF Frame
    <3> HIDE DEF e
    <3>3. \A g \in [Duel!Player -> Nat] : LET t == [s EXCEPT !.shots = g]
            IN /\ t \in Frame /\ t.f = s.f /\ t.w = s.w /\ t.apart = s.apart
               /\ t.connected = s.connected /\ t.returned = s.returned BY DEF Frame
    <3>4. /\ e \in Frame /\ e.f = s.f /\ e.w = s.w /\ e.apart = s.apart
          /\ e.connected = s.connected /\ e.returned = s.returned BY <3>1, <3>2, <3>3
    <3> QED BY <1>0, <3>4 DEF Steady, Became
  <2>2. CASE kind = "guard"
    <3> DEFINE x == s.f[p]
               y == [x EXCEPT !.parry = Duel!AtLeast(x.parry, GuardFrames)]
    <3>1. e = Duel!Set(s, p, y) BY <2>2 DEF Duel!executeSpecial
    <3>2. Duel!AtLeast(x.parry, GuardFrames) \in Duel!Frames
      BY <1>0, KitNumbers, NumbersOf DEF Duel!AtLeast, Duel!Frames
    <3> HIDE DEF x, e
    <3>3. y \in Duel!Fighter /\ Steady(x, y) /\ y.superBoost = x.superBoost
          /\ y.parryStartup = x.parryStartup BY <1>0, <3>2 DEF Duel!Fighter, Steady, x
    <3> HIDE DEF y
    <3>4. Became(s, e, p, y) BY <3>1, <3>3, SetIs
    <3>5. e.f[p] = y BY <3>4 DEF Became
    <3> QED BY <3>3, <3>4, <3>5 DEF x
  <2>3. CASE kind = "grab" /\ grasp
    <3>1. e = Grabbed(s, p) BY <2>3 DEF Duel!executeSpecial, Grabbed
    <3> HIDE DEF e
    <3>2. e \in Frame /\ e.f[p] = s.f[p] BY <3>1, GrabIs
    <3> QED BY <1>0, <3>1, <3>2 DEF Steady, Became
  <2>4. CASE kind \notin {"projectile", "guard"} /\ ~(kind = "grab" /\ grasp)
    <3>1. e = s BY <2>4 DEF Duel!executeSpecial
    <3> QED BY <1>0, <3>1 DEF Steady, Became
  <2> HIDE DEF e
  <2> QED BY <2>1, <2>2, <2>3, <2>4
<1> HIDE DEF e
<1>2. CASE s.f[p].specialDidResolve
  <2>1. Duel!ResolveSpecial(s, p, grasp) = s BY <1>2 DEF Duel!ResolveSpecial
  <2> QED BY <1>0, <2>1 DEF Steady, Became
<1>3. CASE ~s.f[p].specialDidResolve
  <2> DEFINE x == e.f[p]
             y == [x EXCEPT !.specialDidResolve = TRUE]
  <2>1. Duel!ResolveSpecial(s, p, grasp) = Duel!Set(e, p, y) BY <1>3 DEF Duel!ResolveSpecial, e
  <2>2. x \in Duel!Fighter BY <1>1
  <2> HIDE DEF x
  <2>3. y \in Duel!Fighter /\ Steady(x, y) /\ y.superBoost = x.superBoost
        /\ y.parryStartup = x.parryStartup BY <2>2 DEF Duel!Fighter, Steady
  <2> HIDE DEF y
  <2>4. e \in Frame /\ y \in Duel!Fighter BY <1>1, <2>3 DEF Became
  <2>5. Became(e, Duel!Set(e, p, y), p, y) BY <2>4, SetIs
  <2>6. Became(u, Duel!Set(e, p, y), p, y) /\ Duel!Set(e, p, y).f[p] = y BY <1>1, <2>5 DEF Became
  <2>7. Steady(s.f[p], y) /\ y.superBoost = s.f[p].superBoost
        /\ y.parryStartup = s.f[p].parryStartup BY <1>1, <2>3 DEF Steady, x
  <2> QED BY <2>1, <2>3, <2>6, <2>7
<1> QED BY <1>2, <1>3

(* A fighter whose special alone has changed is fit after its special's turn. *)
LEMMA SpecialIsFit ==
    ASSUME NEW x, NEW l, NEW k, Fit(x, 0, l, k), NEW y, Ended(x, y), SameLaunch(x, y),
           SameDunk(x, y),
           Duel!Casting(y) => Duel!Casting(x),
           Due(y, y.specialStartup, y.specialActive, SpecialStartup, 1)
    PROVE  Fit(y, 1, l, k) /\ Follows(x, y)
<1> USE DEF Ended, SameLaunch, SameDunk
<1>1. Duel!WithoutControl(y) <=> Duel!WithoutControl(x) BY DEF Duel!WithoutControl
<1>2. (Duel!Launching(y) <=> Duel!Launching(x)) /\ (Duel!Dunking(y) <=> Duel!Dunking(x))
  BY DEF Duel!Launching, Duel!Dunking
<1>3. Duel!Attacking(y) => Duel!Attacking(x) BY <1>2 DEF Duel!Attacking
<1>4. Whole(y) /\ Credited(y) /\ Follows(x, y) BY <1>1, <1>2, <1>3 DEF Fit, Whole, Credited, Follows
<1>5. Timed(y, 1, l, k) BY DEF Fit, Timed, Due, Elapsed
<1> QED BY <1>4, <1>5 DEF Fit

(* A fighter whose launch alone has changed is fit after its launch's turn. *)
LEMMA LaunchIsFit ==
    ASSUME NEW x, NEW c, NEW k, NEW l \in {0, 1}, Fit(x, c, l, k), NEW y, Ended(x, y),
           SameSpecial(x, y), SameDunk(x, y),
           Duel!Launching(y) => Duel!Launching(x),
           Due(y, y.launchStartup, y.launchActive, LaunchStartup, 1)
    PROVE  Fit(y, c, 1, k) /\ Follows(x, y)
<1> USE DEF Ended, SameSpecial, SameDunk
<1>1. Duel!WithoutControl(y) <=> Duel!WithoutControl(x) BY DEF Duel!WithoutControl
<1>2. (Duel!Casting(y) <=> Duel!Casting(x)) /\ (Duel!Dunking(y) <=> Duel!Dunking(x))
  BY DEF Duel!Casting, Duel!Dunking
<1>3. Duel!Attacking(y) => Duel!Attacking(x) BY <1>2 DEF Duel!Attacking
<1>4. Whole(y) /\ Credited(y) /\ Follows(x, y) BY <1>1, <1>2, <1>3 DEF Fit, Whole, Credited, Follows
<1>5. Timed(y, c, 1, k) BY DEF Fit, Timed, Due, Elapsed
<1> QED BY <1>4, <1>5 DEF Fit

(* A fighter whose dunk alone has changed is fit after its dunk's turn. *)
LEMMA DunkIsFit ==
    ASSUME NEW x, NEW c, NEW l, Fit(x, c, l, 0), NEW y, Ended(x, y), SameSpecial(x, y),
           SameLaunch(x, y),
           Duel!Dunking(y) => Duel!Dunking(x),
           Due(y, y.dunkStartup, y.dunkActive, DunkStartup, 1)
    PROVE  Fit(y, c, l, 1) /\ Follows(x, y)
<1> USE DEF Ended, SameSpecial, SameLaunch
<1>1. Duel!WithoutControl(y) <=> Duel!WithoutControl(x) BY DEF Duel!WithoutControl
<1>2. (Duel!Casting(y) <=> Duel!Casting(x)) /\ (Duel!Launching(y) <=> Duel!Launching(x))
  BY DEF Duel!Casting, Duel!Launching
<1>3. Duel!Attacking(y) => Duel!Attacking(x) BY <1>2 DEF Duel!Attacking
<1>4. Whole(y) /\ Credited(y) /\ Follows(x, y) BY <1>1, <1>2, <1>3 DEF Fit, Whole, Credited, Follows
<1>5. Timed(y, c, l, 1) BY DEF Fit, Timed, Due, Elapsed
<1> QED BY <1>4, <1>5 DEF Fit

(* A wind-up that has one frame less to go, and becomes active at its end. *)
LEMMA WindDown ==
    ASSUME NEW x, Whole(x), NEW startup \in Nat, NEW active \in Nat, NEW wind \in Nat,
           NEW full \in Nat,
           startup > 0, Due(x, startup, active, wind, 0), NEW y, y.helpless = x.helpless
    PROVE  Due(y, startup - 1, IF startup = 1 THEN full ELSE active, wind, 1)
<1>1. x.helpless \in Nat /\ x.helpless <= Helpless /\ Helpless \in Nat
  BY KitNumbers, NumbersOf DEF Whole
<1>2. Elapsed(x) \in Nat /\ Elapsed(y) = Elapsed(x) BY <1>1 DEF Elapsed
<1> QED BY <1>1, <1>2 DEF Due, Duel!AtLeast

(* The turn of a special (advanceSpecialAttempt). *)
LEMMA SpecialAdvances ==
    ASSUME NEW lost \in SUBSET Duel!Player, NEW S, NEW L, NEW D, NEW s, Round(s, lost, S, L, D),
           NEW p \in Duel!Player, p \notin S, NEW grasp
    PROVE  Round(Duel!advanceSpecialAttempt(s, p, grasp), lost, S \cup {p}, L, D)
<1> DEFINE x == s.f[p]
           l == Turn(p, L)
           k == Turn(p, D)
<1>0. s \in Frame /\ Fit(x, 0, l, k) /\ x \in Duel!Fighter /\ Whole(x)
  BY DEF Round, Fit, Whole, Turn
<1>1. \A q \in Duel!Player : q # p => Turn(q, S \cup {p}) = Turn(q, S) BY DEF Turn
<1>2. Turn(p, S \cup {p}) = 1 /\ Turn(p, S) = 0 BY DEF Turn
<1>3. /\ x.specialStartup \in Nat /\ x.specialActive \in Nat /\ x.helpless \in Nat
      /\ SpecialStartup \in Nat /\ SpecialActive \in Nat /\ SpecialActive > 0
  BY <1>0, NumbersOf, KitNumbers
<1>4. ASSUME NEW y, Fit(y, 1, l, k), Follows(x, y)
      PROVE  Round(Duel!Set(s, p, y), lost, S \cup {p}, L, D) BY <1>1, <1>2, <1>4, SetTurn
<1> HIDE DEF x
<1>5. CASE x.specialStartup > 0
  <2> DEFINE n == x.specialStartup - 1
             m == IF x.specialStartup = 1 THEN SpecialActive ELSE x.specialActive
             y == [x EXCEPT !.specialStartup = n, !.specialActive = m]
  <2>1. Duel!advanceSpecialAttempt(s, p, grasp) = Duel!Set(s, p, y)
    BY <1>5 DEF Duel!advanceSpecialAttempt, x
  <2>2. n \in Duel!Frames /\ m \in Duel!Frames BY <1>3, <1>5 DEF Duel!Frames
  <2>3. Due(x, x.specialStartup, x.specialActive, SpecialStartup, 0) BY <1>0 DEF Fit, Timed
  <2> HIDE DEF n, m
  <2>4. Ended(x, y) /\ SameLaunch(x, y) /\ SameDunk(x, y) /\ y.specialStartup = n
        /\ y.specialActive = m BY <1>0, <2>2 DEF Ended, SameLaunch, SameDunk, Duel!Fighter
  <2> HIDE DEF y
  <2>5. Due(y, n, m, SpecialStartup, 1) BY <1>0, <1>3, <1>5, <2>3, <2>4, WindDown DEF n, m, Ended
  <2>6. Fit(y, 1, l, k) /\ Follows(x, y) BY <1>0, <1>5, <2>4, <2>5, SpecialIsFit DEF Duel!Casting
  <2> QED BY <1>4, <2>1, <2>6
<1>6. CASE x.specialStartup = 0 /\ x.specialActive = 0
  <2>1. Duel!advanceSpecialAttempt(s, p, grasp) = s BY <1>6 DEF Duel!advanceSpecialAttempt, x
  <2>2. Fit(x, 1, l, k) BY <1>0, <1>6 DEF Fit, Timed, Due
  <2>3. Round(s, lost, S \cup {p}, L, D) BY <1>1, <1>2, <2>2 DEF Round, x
  <2> QED BY <2>1, <2>3
<1>7. CASE x.specialStartup = 0 /\ x.specialActive > 0
           /\ (Duel!WithoutControl(x) \/ s.w # Duel!Nobody)
  <2> DEFINE y == Duel!clearSpecialAttempt(x)
  <2>1. Duel!advanceSpecialAttempt(s, p, grasp) = Duel!Set(s, p, y)
    BY <1>7 DEF Duel!advanceSpecialAttempt, x
  <2>2. Ended(x, y) /\ SameLaunch(x, y) /\ SameDunk(x, y) /\ y.specialStartup = 0
        /\ y.specialActive = 0
    BY <1>0 DEF Ended, SameLaunch, SameDunk, Duel!Fighter, Duel!clearSpecialAttempt, Duel!Frames
  <2> HIDE DEF y
  <2>3. Fit(y, 1, l, k) /\ Follows(x, y) BY <1>0, <2>2, SpecialIsFit DEF Duel!Casting, Due
  <2> QED BY <1>4, <2>1, <2>3
<1>8. CASE x.specialStartup = 0 /\ x.specialActive > 0 /\ ~Duel!WithoutControl(x)
           /\ s.w = Duel!Nobody
  <2> DEFINE t == Duel!ResolveSpecial(s, p, grasp)
             v == t.f[p]
             y == [v EXCEPT !.specialActive = v.specialActive - 1]
             u == [y EXCEPT !.endLag = Duel!AtLeast(y.endLag, SpecialRecovery),
                            !.coolSpecial = Duel!AtLeast(y.coolSpecial,
                            SpecialRecovery + SpecialCooldown)]
             z == IF y.specialActive > 0 THEN y ELSE Duel!clearSpecialAttempt(u)
  <2>1. Duel!advanceSpecialAttempt(s, p, grasp) = Duel!Set(t, p, z)
    BY <1>8 DEF Duel!advanceSpecialAttempt, x
  <2>2. PICK e \in {s, Grabbed(s, p)} :
        /\ Became(e, t, p, v) /\ t \in Frame /\ v \in Duel!Fighter /\ Steady(x, v)
        /\ v.superBoost = x.superBoost /\ v.parryStartup = x.parryStartup
    BY <1>0, ResolveIs DEF x, Became
  <2> HIDE DEF t, v
  <2>3. v.specialActive - 1 \in Duel!Frames
    <3>1. v.specialActive = x.specialActive BY <2>2 DEF Steady
    <3> QED BY <1>3, <1>8, <3>1 DEF Duel!Frames
  <2>4. /\ Ended(x, y) /\ SameLaunch(x, y) /\ SameDunk(x, y)
        /\ y.specialStartup = 0
    BY <1>8, <2>2, <2>3 DEF Ended, SameLaunch, SameDunk, Duel!Fighter, Steady
  <2> HIDE DEF y
  <2>5. y \in Duel!Fighter BY <2>4 DEF Ended
  <2>6. Duel!AtLeast(y.endLag, SpecialRecovery) \in Duel!Frames
        /\ Duel!AtLeast(y.coolSpecial, SpecialRecovery + SpecialCooldown) \in Duel!Frames
    BY <2>5, NumbersOf, KitNumbers DEF Duel!AtLeast, Duel!Frames
  <2>7. Ended(y, u) /\ SameLaunch(y, u) /\ SameDunk(y, u) /\ u.specialStartup = y.specialStartup
    BY <2>5, <2>6 DEF Ended, SameLaunch, SameDunk, Duel!Fighter
  <2> HIDE DEF u
  <2>8. LET c == Duel!clearSpecialAttempt(u) IN
        Ended(u, c) /\ SameLaunch(u, c) /\ SameDunk(u, c) /\ c.specialStartup = 0
    BY <2>7 DEF Ended, SameLaunch, SameDunk, Duel!Fighter, Duel!clearSpecialAttempt, Duel!Frames
  <2>9. Ended(x, z) /\ SameLaunch(x, z) /\ SameDunk(x, z) /\ z.specialStartup = 0
    BY <2>4, <2>7, <2>8 DEF Ended, SameLaunch, SameDunk
  <2> HIDE DEF z
  <2>10. z.helpless = 0 BY <1>3, <1>8, <2>9 DEF Ended, Duel!WithoutControl
  <2>11. Fit(z, 1, l, k) /\ Follows(x, z)
    BY <1>0, <1>8, <2>9, <2>10, SpecialIsFit DEF Duel!Casting, Due
  <2>12. z \in Duel!Fighter BY <2>9 DEF Ended
  <2>13. Became(t, Duel!Set(t, p, z), p, z) BY <2>2, <2>12, SetIs
  <2>14. Became(e, Duel!Set(t, p, z), p, z) BY <2>2, <2>13 DEF Became
  <2>16. Round(e, lost, S, L, D) /\ e.f[p] = x
    <3>1. p \notin lost BY <1>8 DEF Round, x
    <3> QED BY <1>0, <2>2, <3>1, GrabKeepsRound, GrabIs DEF x
  <2>15. Round(Duel!Set(t, p, z), lost, S \cup {p}, L, D)
    BY <1>1, <1>2, <2>11, <2>14, <2>16, OneTurn
  <2> QED BY <2>1, <2>15
<1>9. x.specialActive = 0 \/ x.specialActive > 0 BY <1>3
<1>10. x.specialStartup = 0 \/ x.specialStartup > 0 BY <1>3
<1> QED BY <1>5, <1>6, <1>7, <1>8, <1>9, <1>10

-----------------------------------------------------------------------------
(* The launch. *)
LEMMA EndLaunchIs ==
    ASSUME NEW x \in Duel!Fighter, NEW n \in Nat
    PROVE  LET y == Duel!EndLaunch(x, n)
           IN  /\ Ended(x, y) /\ SameSpecial(x, y) /\ SameDunk(x, y)
               /\ y.launchStartup = 0 /\ y.launchActive = 0
<1>1. Duel!AtLeast(x.endLag, n) \in Duel!Frames /\ Duel!AtLeast(x.coolLaunch, n) \in Duel!Frames
      /\ 0 \in Duel!Frames BY NumbersOf DEF Duel!AtLeast, Duel!Frames
<1> QED
  BY <1>1 DEF Duel!EndLaunch, Duel!clearLaunchAttempt, Ended, SameSpecial, SameDunk, Duel!Fighter

(* A launch that is over is fit whether or not it has had its turn. *)
LEMMA NoLaunchIsFit ==
    ASSUME NEW x, NEW c, NEW k, NEW l, NEW m, Fit(x, c, l, k), NEW y, Ended(x, y),
           SameSpecial(x, y), SameDunk(x, y),
           y.launchStartup = 0, y.launchActive = 0
    PROVE  Fit(y, c, m, k) /\ Follows(x, y)
<1> USE DEF Ended, SameSpecial, SameDunk
<1>1. Duel!WithoutControl(y) <=> Duel!WithoutControl(x) BY DEF Duel!WithoutControl
<1>2. (Duel!Casting(y) <=> Duel!Casting(x)) /\ (Duel!Dunking(y) <=> Duel!Dunking(x))
      /\ ~Duel!Launching(y) BY DEF Duel!Casting, Duel!Dunking, Duel!Launching
<1>3. Duel!Attacking(y) => Duel!Attacking(x) BY <1>2 DEF Duel!Attacking
<1>4. Whole(y) /\ Credited(y) /\ Follows(x, y) BY <1>1, <1>2, <1>3 DEF Fit, Whole, Credited, Follows
<1>5. Timed(y, c, m, k) BY DEF Fit, Timed, Due, Elapsed
<1> QED BY <1>4, <1>5 DEF Fit

(* A launched fighter keeps what it has begun, at the start of its flight. *)
LEMMA LaunchedIsFit ==
    ASSUME NEW x, NEW c \in {0, 1}, NEW l \in {0, 1}, NEW k \in {0, 1}, Fit(x, c, l, k)
    PROVE  LET y == [Duel!finishSuperBoost(x) EXCEPT !.helpless = Helpless, !.stunned = 0,
                                                     !.parryStartup = 0, !.launched = TRUE]
           IN  Fit(y, c, l, k) /\ Duel!WithoutControl(y)
<1> DEFINE z == Duel!finishSuperBoost(x)
           y == [z EXCEPT !.helpless = Helpless, !.stunned = 0, !.parryStartup = 0,
                          !.launched = TRUE]
<1>1. x \in Duel!Fighter /\ Whole(x) BY DEF Fit, Whole
<1>2. z \in Duel!Fighter /\ Alike(x, z) /\ z.superBoost = FALSE BY <1>1, FinishFits
<1>3. Helpless \in Duel!Frames /\ 0 \in Duel!Frames /\ Helpless > 0 /\ Helpless \in Nat
  BY KitNumbers DEF Duel!Frames
<1> HIDE DEF z
<1>4. /\ y \in Duel!Fighter /\ y.helpless = Helpless /\ y.stunned = 0 /\ y.parryStartup = 0
      /\ y.launched = TRUE
      /\ y.recovering = z.recovering /\ y.superBoost = FALSE
      /\ SameSpecial(z, y) /\ SameLaunch(z, y) /\ SameDunk(z, y)
  BY <1>2, <1>3 DEF Duel!Fighter, SameSpecial, SameLaunch, SameDunk
<1> HIDE DEF y
<1>5. y.recovering = x.recovering /\ SameSpecial(x, y) /\ SameLaunch(x, y) /\ SameDunk(x, y)
  BY <1>2, <1>4 DEF Alike, SameSpecial, SameLaunch, SameDunk
<1>6. (Duel!Launching(y) <=> Duel!Launching(x)) /\ (Duel!Dunking(y) <=> Duel!Dunking(x))
      /\ (Duel!Casting(y) <=> Duel!Casting(x))
  BY <1>5 DEF Duel!Launching, Duel!Dunking, Duel!Casting, SameSpecial, SameLaunch, SameDunk
<1>7. Whole(y) /\ Credited(y) BY <1>1, <1>3, <1>4, <1>5, <1>6 DEF Whole, Credited, Duel!Attacking
<1>8. Elapsed(y) = 0 /\ Elapsed(x) \in Nat BY <1>1, <1>3, <1>4, NumbersOf DEF Elapsed, Whole
<1>9. /\ x.specialStartup \in Nat /\ x.specialActive \in Nat /\ x.launchStartup \in Nat
      /\ x.launchActive \in Nat
      /\ x.dunkStartup \in Nat /\ x.dunkActive \in Nat BY <1>1, NumbersOf
<1>10. SpecialStartup \in Nat /\ LaunchStartup \in Nat /\ DunkStartup \in Nat BY KitNumbers
<1>11. Due(x, x.specialStartup, x.specialActive, SpecialStartup, c) =>
         Due(y, y.specialStartup, y.specialActive, SpecialStartup, c)
  BY <1>5, <1>8, <1>9, <1>10 DEF Due, Duel!AtLeast, SameSpecial
<1>12. Due(x, x.launchStartup, x.launchActive, LaunchStartup, l) =>
         Due(y, y.launchStartup, y.launchActive, LaunchStartup, l)
  BY <1>5, <1>8, <1>9, <1>10 DEF Due, Duel!AtLeast, SameLaunch
<1>13. Due(x, x.dunkStartup, x.dunkActive, DunkStartup, k) =>
         Due(y, y.dunkStartup, y.dunkActive, DunkStartup, k)
  BY <1>5, <1>8, <1>9, <1>10 DEF Due, Duel!AtLeast, SameDunk
<1>14. Timed(y, c, l, k) BY <1>11, <1>12, <1>13 DEF Fit, Timed
<1>15. Duel!WithoutControl(y) BY <1>3, <1>4 DEF Duel!WithoutControl
<1> QED BY <1>7, <1>14, <1>15 DEF Fit, y, z

(* A turn in which the opponent is launched: it must not be in flight already. *)
LEMMA LaunchedTurn ==
    ASSUME NEW lost \in SUBSET Duel!Player, NEW S, NEW L, NEW D,
           NEW s, Round(s, lost, S, L, D), NEW p \in Duel!Player, NEW y,
           Fit(y, Turn(p, S), Turn(p, L), Turn(p, D)), Duel!WithoutControl(y),
           s.f[Duel!Other(p)].helpless = 0
    PROVE  Round(Duel!Set(s, p, y), lost, S, L, D)
<1> DEFINE t == Duel!Set(s, p, y)
<1>1. s \in Frame /\ y \in Duel!Fighter BY DEF Round, Fit, Whole
<1>2. Became(s, t, p, y) BY <1>1, SetIs
<1> HIDE DEF t
<1> USE DEF Became
<1>3. \A q \in Duel!Player : Fit(t.f[q], Turn(q, S), Turn(q, L), Turn(q, D)) BY <1>2 DEF Round
<1>4. Duel!Other(p) \in Duel!Player /\ Duel!Other(p) # p BY Two
<1>5. t.f[Duel!Other(p)].helpless = 0 BY <1>2, <1>4
<1>6. ~ (t.f[Duel!P1].helpless > 0 /\ t.f[Duel!P2].helpless > 0) BY <1>5, Two
<1>7. \A q \in lost : Duel!WithoutControl(t.f[q]) /\ q \notin t.connected BY <1>2 DEF Round
<1>8. t \in Frame /\ t.returned = {} BY <1>2 DEF Round
<1>9. Round(t, lost, S, L, D) BY <1>3, <1>6, <1>7, <1>8 DEF Round
<1> QED BY <1>9 DEF t

(* A turn has been taken or not. *)
LEMMA TurnIsBit == \A p, S : Turn(p, S) \in {0, 1} BY DEF Turn

(* A launch connects, or is parried (resolveLaunchConnection). *)
LEMMA LaunchConnects ==
    ASSUME NEW lost \in SUBSET Duel!Player, NEW S, NEW L, NEW D, NEW s, Round(s, lost, S, L, D),
           NEW p \in Duel!Player,
           ~Duel!WithoutControl(s.f[p])
    PROVE  Round(Duel!resolveLaunchConnection(s, p), lost, S, L \cup {p}, D)
<1> DEFINE x == s.f[p]
           q == Duel!Other(p)
           other == s.f[q]
<1>1. /\ s \in Frame /\ Fit(x, Turn(p, S), Turn(p, L), Turn(p, D)) /\ x \in Duel!Fighter
      /\ Whole(x) /\ Credited(x) BY DEF Round, Fit, Whole
<1>2. q \in Duel!Player /\ q # p /\ Duel!Other(q) = p BY Two
<1>3. Fit(other, Turn(q, S), Turn(q, L), Turn(q, D)) /\ other \in Duel!Fighter
  BY <1>2 DEF Round, Fit, Whole
<1>4. /\ Turn(p, L \cup {p}) = 1 /\ \A r \in Duel!Player : r # p => Turn(r, L \cup {p}) = Turn(r, L)
  BY DEF Turn
<1>5. x.helpless = 0 BY <1>1, NumbersOf DEF Duel!WithoutControl
<1>6. p \notin lost BY DEF Round
<1>7. ~Duel!WithoutControl(x) OBVIOUS
<1> HIDE DEF q, other
<1>8. CASE other.parry > 0
  <2> DEFINE y == Duel!setStunned(x, CounterStun)
             z == [other EXCEPT !.parry = 0]
             t == Duel!Set(s, p, y)
             u == Duel!Set(t, q, z)
  <2>1. Duel!resolveLaunchConnection(s, p) = [u EXCEPT !.apart = TRUE]
    BY <1>8 DEF Duel!resolveLaunchConnection, q, other
  <2> HIDE DEF x
  <2>2. Fit(y, Turn(p, S), 1, Turn(p, D)) /\ y.helpless = x.helpless
    BY <1>1, KitNumbers, StunnedIsFit
  <2> HIDE DEF y
  <2>3. Follows(x, y) BY <1>5, <1>7, <2>2 DEF Follows
  <2>4. Round(t, lost, S, L \cup {p}, D) BY <1>4, <2>2, <2>3, SetTurn DEF x
  <2>5. t.f[q] = other
    <3>1. y \in Duel!Fighter BY <2>2 DEF Fit, Whole
    <3>2. Became(s, t, p, y) BY <1>1, <3>1, SetIs
    <3> QED BY <1>2, <3>2 DEF Became, other
  <2> HIDE DEF t
  <2>6. z \in Duel!Fighter /\ Steady(other, z) /\ z.superBoost = other.superBoost
        /\ z.parryStartup = other.parryStartup BY <1>3 DEF Duel!Fighter, Steady, Duel!Frames
  <2> HIDE DEF z
  <2>7. Fit(z, Turn(q, S), Turn(q, L \cup {p}), Turn(q, D)) /\ Follows(other, z)
    BY <1>2, <1>3, <1>4, <2>6, SteadyIsFit
  <2>8. Round(u, lost, S, L \cup {p}, D) BY <1>2, <2>4, <2>5, <2>7, SetTurn
  <2> HIDE DEF u
  <2>9. Round([u EXCEPT !.apart = TRUE], lost, S, L \cup {p}, D) BY <2>8, ApartRound
  <2> QED BY <2>1, <2>9
<1>9. CASE ~(other.parry > 0)
  <2> DEFINE y == Duel!EndLaunch(x, LaunchHitRecovery)
             z == [Duel!finishSuperBoost(other) EXCEPT !.helpless = Helpless, !.stunned = 0,
                                                       !.parryStartup = 0, !.launched = TRUE]
             t == Duel!Set(s, p, y)
             u == Duel!Set(t, q, z)
  <2>1. Duel!resolveLaunchConnection(s, p) = [u EXCEPT !.connected = u.connected \cup {p}]
    BY <1>9 DEF Duel!resolveLaunchConnection, q, other
  <2> HIDE DEF x
  <2>2. Ended(x, y) /\ SameSpecial(x, y) /\ SameDunk(x, y) /\ y.launchStartup = 0
        /\ y.launchActive = 0 BY <1>1, KitNumbers, EndLaunchIs
  <2> HIDE DEF y
  <2>3. Fit(y, Turn(p, S), 1, Turn(p, D)) /\ Follows(x, y) BY <1>1, <2>2, NoLaunchIsFit
  <2>4. Round(t, lost, S, L \cup {p}, D) BY <1>4, <2>3, SetTurn DEF x
  <2>5. t.f[q] = other /\ t.f[p] = y
    <3>1. y \in Duel!Fighter BY <2>2 DEF Ended
    <3>2. Became(s, t, p, y) BY <1>1, <3>1, SetIs
    <3> QED BY <1>2, <3>2 DEF Became, other
  <2>6. t.f[p].helpless = 0 BY <1>5, <2>2, <2>5 DEF Ended
  <2> HIDE DEF t
  <2> DEFINE c == Turn(q, S)
             l == Turn(q, L)
             k == Turn(q, D)
  <2>9. c \in {0, 1} /\ l \in {0, 1} /\ k \in {0, 1} BY TurnIsBit
  <2>10. Fit(other, c, l, k) BY <1>3
  <2> HIDE DEF c, l, k
  <2>11. Fit(z, c, l, k) /\ Duel!WithoutControl(z) BY <2>9, <2>10, LaunchedIsFit
  <2> HIDE DEF z
  <2>7. Fit(z, Turn(q, S), Turn(q, L \cup {p}), Turn(q, D)) /\ Duel!WithoutControl(z)
    BY <1>2, <1>4, <2>11 DEF c, l, k
  <2>8. Round(u, lost, S, L \cup {p}, D) BY <1>2, <2>4, <2>6, <2>7, LaunchedTurn
  <2> HIDE DEF u
  <2> QED BY <1>6, <2>1, <2>8, ConnectedRound
<1> QED BY <1>8, <1>9

(* Two launches clash (resolveLaunchClash). *)
LEMMA LaunchesClash ==
    ASSUME NEW lost \in SUBSET Duel!Player, NEW S, NEW L, NEW D, NEW s, Round(s, lost, S, L, D),
           NEW p \in Duel!Player
    PROVE  Round(Duel!resolveLaunchClash(s, p), lost, S, L \cup {p}, D)
<1> DEFINE x == s.f[p]
           q == Duel!Other(p)
           other == s.f[q]
           y == Duel!EndLaunch(x, LaunchWhiffRecovery)
           z == Duel!EndLaunch(other, LaunchWhiffRecovery)
           t == Duel!Set(s, p, y)
           u == Duel!Set(t, q, z)
<1>0. Duel!resolveLaunchClash(s, p) = [u EXCEPT !.apart = TRUE] BY DEF Duel!resolveLaunchClash
<1>1. s \in Frame /\ Fit(x, Turn(p, S), Turn(p, L), Turn(p, D)) /\ x \in Duel!Fighter
  BY DEF Round, Fit, Whole
<1>2. q \in Duel!Player /\ q # p BY Two
<1> HIDE DEF q
<1>3. Fit(other, Turn(q, S), Turn(q, L), Turn(q, D)) /\ other \in Duel!Fighter
  BY <1>2 DEF Round, Fit, Whole
<1>4. /\ Turn(p, L \cup {p}) = 1 /\ \A r \in Duel!Player : r # p => Turn(r, L \cup {p}) = Turn(r, L)
  BY DEF Turn
<1> HIDE DEF x, other
<1>5. Ended(x, y) /\ SameSpecial(x, y) /\ SameDunk(x, y) /\ y.launchStartup = 0
      /\ y.launchActive = 0 BY <1>1, KitNumbers, EndLaunchIs
<1>6. Ended(other, z) /\ SameSpecial(other, z) /\ SameDunk(other, z) /\ z.launchStartup = 0
      /\ z.launchActive = 0 BY <1>3, KitNumbers, EndLaunchIs
<1> HIDE DEF y, z
<1>7. Fit(y, Turn(p, S), 1, Turn(p, D)) /\ Follows(x, y) BY <1>1, <1>5, NoLaunchIsFit
<1>8. Fit(z, Turn(q, S), Turn(q, L \cup {p}), Turn(q, D)) /\ Follows(other, z)
  BY <1>3, <1>6, NoLaunchIsFit
<1>9. Round(t, lost, S, L \cup {p}, D) BY <1>4, <1>7, SetTurn DEF x
<1>10. t.f[q] = other
  <2>1. y \in Duel!Fighter BY <1>5 DEF Ended
  <2>2. Became(s, t, p, y) BY <1>1, <2>1, SetIs
  <2> QED BY <1>2, <2>2 DEF Became, other
<1> HIDE DEF t
<1>11. Round(u, lost, S, L \cup {p}, D) BY <1>2, <1>8, <1>9, <1>10, SetTurn
<1> HIDE DEF u
<1>12. Round([u EXCEPT !.apart = TRUE], lost, S, L \cup {p}, D) BY <1>11, ApartRound
<1> QED BY <1>0, <1>12

(* The turn of a launch (advanceLaunchAttempt): one in flight connects with nobody. *)
LEMMA LaunchAdvances ==
    ASSUME NEW lost \in SUBSET Duel!Player, NEW S, NEW L, NEW D, NEW s, Round(s, lost, S, L, D),
           NEW p \in Duel!Player, p \notin L,
           NEW active, NEW near
    PROVE  Round(Duel!advanceLaunchAttempt(s, p, active, near), lost, S, L \cup {p}, D)
<1> DEFINE x == s.f[p]
           c == Turn(p, S)
           k == Turn(p, D)
<1>0. s \in Frame /\ Fit(x, c, 0, k) /\ x \in Duel!Fighter /\ Whole(x)
  BY DEF Round, Fit, Whole, Turn
<1>1. \A q \in Duel!Player : q # p => Turn(q, L \cup {p}) = Turn(q, L) BY DEF Turn
<1>2. Turn(p, L \cup {p}) = 1 /\ Turn(p, L) = 0 BY DEF Turn
<1>3. /\ x.launchStartup \in Nat /\ x.launchActive \in Nat /\ x.helpless \in Nat
      /\ LaunchStartup \in Nat /\ LaunchActive \in Nat /\ LaunchActive > 0
  BY <1>0, NumbersOf, KitNumbers
<1>4. ASSUME NEW y, Fit(y, c, 1, k), Follows(x, y)
      PROVE  Round(Duel!Set(s, p, y), lost, S, L \cup {p}, D) BY <1>1, <1>2, <1>4, SetTurn
<1> HIDE DEF x
<1>5. CASE x.launchStartup > 0
  <2> DEFINE n == x.launchStartup - 1
             m == IF x.launchStartup = 1 THEN LaunchActive ELSE x.launchActive
             y == [x EXCEPT !.launchStartup = n, !.launchActive = m]
  <2>1. Duel!advanceLaunchAttempt(s, p, active, near) = Duel!Set(s, p, y)
    BY <1>5 DEF Duel!advanceLaunchAttempt, x
  <2>2. n \in Duel!Frames /\ m \in Duel!Frames BY <1>3, <1>5 DEF Duel!Frames
  <2>3. Due(x, x.launchStartup, x.launchActive, LaunchStartup, 0) BY <1>0 DEF Fit, Timed
  <2> HIDE DEF n, m
  <2>4. Ended(x, y) /\ SameSpecial(x, y) /\ SameDunk(x, y) /\ y.launchStartup = n
        /\ y.launchActive = m BY <1>0, <2>2 DEF Ended, SameSpecial, SameDunk, Duel!Fighter
  <2> HIDE DEF y
  <2>5. Due(y, n, m, LaunchStartup, 1) BY <1>0, <1>3, <1>5, <2>3, <2>4, WindDown DEF n, m, Ended
  <2>6. Fit(y, c, 1, k) /\ Follows(x, y) BY <1>0, <1>5, <2>4, <2>5, LaunchIsFit DEF Duel!Launching
  <2> QED BY <1>4, <2>1, <2>6
<1>6. CASE x.launchStartup = 0 /\ x.launchActive = 0
  <2>1. Duel!advanceLaunchAttempt(s, p, active, near) = s BY <1>6 DEF Duel!advanceLaunchAttempt, x
  <2>2. Fit(x, c, 1, k) BY <1>0, <1>6 DEF Fit, Timed, Due
  <2>3. Round(s, lost, S, L \cup {p}, D) BY <1>1, <1>2, <2>2 DEF Round, x
  <2> QED BY <2>1, <2>3
<1>7. CASE x.launchStartup = 0 /\ x.launchActive > 0
           /\ (Duel!WithoutControl(x) \/ s.w # Duel!Nobody)
  <2> DEFINE y == Duel!clearLaunchAttempt(x)
  <2>1. Duel!advanceLaunchAttempt(s, p, active, near) = Duel!Set(s, p, y)
    BY <1>7 DEF Duel!advanceLaunchAttempt, x
  <2>2. Ended(x, y) /\ SameSpecial(x, y) /\ SameDunk(x, y) /\ y.launchStartup = 0
        /\ y.launchActive = 0
    BY <1>0 DEF Ended, SameSpecial, SameDunk, Duel!Fighter, Duel!clearLaunchAttempt, Duel!Frames
  <2> HIDE DEF y
  <2>3. Fit(y, c, 1, k) /\ Follows(x, y) BY <1>0, <2>2, NoLaunchIsFit
  <2> QED BY <1>4, <2>1, <2>3
<1>8. CASE x.launchStartup = 0 /\ x.launchActive > 0 /\ ~Duel!WithoutControl(x)
           /\ s.w = Duel!Nobody /\ near /\ ~s.apart
  <2>1. \/ Duel!advanceLaunchAttempt(s, p, active, near) = Duel!resolveLaunchClash(s, p)
        \/ Duel!advanceLaunchAttempt(s, p, active, near) = Duel!resolveLaunchConnection(s, p)
    BY <1>8 DEF Duel!advanceLaunchAttempt, x
  <2>2. Round(Duel!resolveLaunchClash(s, p), lost, S, L \cup {p}, D) BY LaunchesClash
  <2>3. Round(Duel!resolveLaunchConnection(s, p), lost, S, L \cup {p}, D)
    BY <1>8, LaunchConnects DEF x
  <2> QED BY <2>1, <2>2, <2>3
<1>9. CASE x.launchStartup = 0 /\ x.launchActive > 0 /\ ~Duel!WithoutControl(x)
           /\ s.w = Duel!Nobody /\ ~(near /\ ~s.apart)
  <2> DEFINE y == [x EXCEPT !.launchActive = x.launchActive - 1]
             z == IF y.launchActive > 0 THEN y ELSE Duel!EndLaunch(y, LaunchWhiffRecovery)
  <2>1. Duel!advanceLaunchAttempt(s, p, active, near) = Duel!Set(s, p, z)
    BY <1>9 DEF Duel!advanceLaunchAttempt, x
  <2>2. x.launchActive - 1 \in Duel!Frames BY <1>3, <1>9 DEF Duel!Frames
  <2>3. Ended(x, y) /\ SameSpecial(x, y) /\ SameDunk(x, y) /\ y.launchStartup = 0
    BY <1>0, <1>9, <2>2 DEF Ended, SameSpecial, SameDunk, Duel!Fighter
  <2> HIDE DEF y
  <2>4. y \in Duel!Fighter BY <2>3 DEF Ended
  <2>5. LET v == Duel!EndLaunch(y, LaunchWhiffRecovery) IN
        Ended(y, v) /\ SameSpecial(y, v) /\ SameDunk(y, v) /\ v.launchStartup = 0
    BY <2>4, KitNumbers, EndLaunchIs
  <2>6. Ended(x, z) /\ SameSpecial(x, z) /\ SameDunk(x, z) /\ z.launchStartup = 0
    BY <2>3, <2>5 DEF Ended, SameSpecial, SameDunk
  <2> HIDE DEF z
  <2>7. z.helpless = 0 BY <1>3, <1>9, <2>6 DEF Ended, Duel!WithoutControl
  <2>8. Fit(z, c, 1, k) /\ Follows(x, z)
    BY <1>0, <1>9, <2>6, <2>7, LaunchIsFit DEF Duel!Launching, Due
  <2> QED BY <1>4, <2>1, <2>8
<1>10. x.launchActive = 0 \/ x.launchActive > 0 BY <1>3
<1>11. x.launchStartup = 0 \/ x.launchStartup > 0 BY <1>3
<1> QED BY <1>5, <1>6, <1>7, <1>8, <1>9, <1>10, <1>11

-----------------------------------------------------------------------------
(* The dunk. *)
LEMMA EndDunkIs ==
    ASSUME NEW x \in Duel!Fighter, NEW n \in Nat
    PROVE  LET y == Duel!EndDunk(x, n)
           IN  /\ Ended(x, y) /\ SameSpecial(x, y) /\ SameLaunch(x, y)
               /\ y.dunkStartup = 0 /\ y.dunkActive = 0
<1>1. Duel!AtLeast(x.endLag, n) \in Duel!Frames /\ Duel!AtLeast(x.coolDunk, n) \in Duel!Frames
      /\ 0 \in Duel!Frames BY NumbersOf DEF Duel!AtLeast, Duel!Frames
<1> QED
  BY <1>1 DEF Duel!EndDunk, Duel!clearDunkAttempt, Ended, SameSpecial, SameLaunch, Duel!Fighter

(* A dunk that is over is fit whether or not it has had its turn. *)
LEMMA NoDunkIsFit ==
    ASSUME NEW x, NEW c, NEW k, NEW l, NEW m, Fit(x, c, l, k), NEW y, Ended(x, y),
           SameSpecial(x, y), SameLaunch(x, y),
           y.dunkStartup = 0, y.dunkActive = 0
    PROVE  Fit(y, c, l, m) /\ Follows(x, y)
<1> USE DEF Ended, SameSpecial, SameLaunch
<1>1. Duel!WithoutControl(y) <=> Duel!WithoutControl(x) BY DEF Duel!WithoutControl
<1>2. (Duel!Casting(y) <=> Duel!Casting(x)) /\ (Duel!Launching(y) <=> Duel!Launching(x))
      /\ ~Duel!Dunking(y) BY DEF Duel!Casting, Duel!Dunking, Duel!Launching
<1>3. Duel!Attacking(y) => Duel!Attacking(x) BY <1>2 DEF Duel!Attacking
<1>4. Whole(y) /\ Credited(y) /\ Follows(x, y) BY <1>1, <1>2, <1>3 DEF Fit, Whole, Credited, Follows
<1>5. Timed(y, c, l, m) BY DEF Fit, Timed, Due, Elapsed
<1> QED BY <1>4, <1>5 DEF Fit

(* Only the dash of a fighter ends. *)
LEMMA FinishIsFit ==
    ASSUME NEW x, NEW c, NEW l, NEW k, Fit(x, c, l, k)
    PROVE  Fit(Duel!finishSuperBoost(x), c, l, k) /\ Follows(x, Duel!finishSuperBoost(x))
<1> DEFINE y == Duel!finishSuperBoost(x)
<1>1. x \in Duel!Fighter BY DEF Fit, Whole
<1>2. y \in Duel!Fighter /\ Alike(x, y) /\ y.superBoost = FALSE BY <1>1, FinishFits
<1> HIDE DEF y
<1>3. Steady(x, y) /\ y.parryStartup = x.parryStartup BY <1>2 DEF Alike, Steady
<1>4. Fit(y, c, l, k) /\ Follows(x, y) BY <1>2, <1>3, SteadyIsFit
<1> QED BY <1>4 DEF y

(* All attacks of a fighter end. *)
LEMMA ClearIsFit ==
    ASSUME NEW x, Whole(x), Credited(x), NEW c, NEW l, NEW k
    PROVE  LET y == Duel!ClearAttempts(x) IN Fit(y, c, l, k) /\ Follows(x, y)
          /\ y.helpless = x.helpless
<1> DEFINE y == Duel!ClearAttempts(x)
<1>1. x \in Duel!Fighter BY DEF Whole
<1>2. /\ y \in Duel!Fighter /\ ~Duel!Attacking(y)
      /\ y.stunned = x.stunned /\ y.helpless = x.helpless /\ y.recovering = x.recovering
      /\ y.parry = x.parry /\ y.parryStartup = x.parryStartup
      /\ y.launched = x.launched /\ y.superBoost = x.superBoost BY <1>1, ClearFits
<1> HIDE DEF y
<1>3. Timed(y, c, l, k) BY <1>2, IdleIsTimed
<1>4. Duel!WithoutControl(y) <=> Duel!WithoutControl(x) BY <1>2 DEF Duel!WithoutControl
<1>5. Whole(y) /\ Credited(y) /\ Follows(x, y)
  BY <1>2, <1>4 DEF Whole, Credited, Follows, Duel!Attacking
<1>6. Fit(y, c, l, k) BY <1>3, <1>5 DEF Fit
<1> QED BY <1>2, <1>5, <1>6 DEF y

(* Whoever is thrown into recovery has no attack, no flight and no control. *)
LEMMA ThrownIsFit ==
    ASSUME NEW t \in Duel!Fighter, t.superBoost = FALSE, NEW c, NEW l, NEW k
    PROVE  LET y == Thrown(t) IN
           /\ Fit(y, c, l, k) /\ y.helpless = 0 /\ Duel!WithoutControl(y) /\ ~Duel!Attacking(y)
           /\ y.launched = FALSE
<1> DEFINE n == Duel!Minus(IF t.fuel = 0 THEN MaxFuel ELSE t.fuel, RecoveryCost)
           v == [t EXCEPT !.fuel = n,
                          !.recovering = DunkRecovery, !.helpless = 0, !.stunned = 0,
                          !.parry = 0, !.parryStartup = 0, !.endLag = 0,
                          !.launched = FALSE, !.coolLaunch = 0, !.coolDunk = 0, !.coolSpecial = 0]
           y == Duel!ClearAttempts(v)
<1>1. n \in Duel!Fuel
  <2>1. t.fuel \in Duel!Fuel BY NumbersOf
  <2> QED BY <2>1, FuelNumbers DEF Duel!Fuel, Duel!Minus
<1> HIDE DEF n
<1>2. DunkRecovery \in Duel!Frames /\ 0 \in Duel!Frames /\ DunkRecovery > 0
  BY KitNumbers DEF Duel!Frames
<1>3. /\ v \in Duel!Fighter /\ v.helpless = 0 /\ v.stunned = 0 /\ v.recovering = DunkRecovery
      /\ v.parryStartup = 0
      /\ v.launched = FALSE /\ v.superBoost = FALSE BY <1>1, <1>2 DEF Duel!Fighter
<1> HIDE DEF v
<1>4. /\ y \in Duel!Fighter /\ ~Duel!Attacking(y)
      /\ y.stunned = 0 /\ y.helpless = 0 /\ y.recovering = DunkRecovery
      /\ y.parryStartup = 0
      /\ y.launched = FALSE /\ y.superBoost = FALSE BY <1>3, ClearFits
<1> HIDE DEF y
<1>5. Timed(y, c, l, k) BY <1>4, IdleIsTimed
<1>6. Whole(y) /\ Credited(y) /\ Duel!WithoutControl(y)
  BY <1>2, <1>4, KitNumbers DEF Whole, Credited, Duel!WithoutControl, Duel!Attacking
<1>7. Fit(y, c, l, k) /\ y.helpless = 0 /\ Duel!WithoutControl(y) /\ ~Duel!Attacking(y)
      /\ y.launched = FALSE BY <1>4, <1>5, <1>6 DEF Fit
<1> QED BY <1>7 DEF Thrown, v, n, y

(* A fighter who has won. *)
LEMMA WinnerIs ==
    ASSUME NEW s \in Frame, NEW p \in Duel!Player
    PROVE  LET t == [s EXCEPT !.w = p]
           IN  /\ t \in Frame /\ t.f = s.f /\ t.w = p /\ t.apart = s.apart /\ t.shots = s.shots
               /\ t.connected = s.connected /\ t.returned = s.returned BY DEF Frame

(* A decision changes no fighter. *)
LEMMA WinRound ==
    ASSUME NEW lost \in SUBSET Duel!Player, NEW S, NEW L, NEW D, NEW s, Round(s, lost, S, L, D),
           NEW p \in Duel!Player
    PROVE  Round([s EXCEPT !.w = p], lost, S, L, D)
<1> DEFINE t == [s EXCEPT !.w = p]
<1>1. s \in Frame BY DEF Round
<1>2. t \in Frame /\ t.f = s.f /\ t.connected = s.connected /\ t.returned = s.returned
  BY <1>1, WinnerIs
<1> HIDE DEF t
<1>3. Round(t, lost, S, L, D) BY <1>2 DEF Round
<1> QED BY <1>3 DEF t

(* Either p wins and the opponent's dash is over, or the opponent is thrown  *)
(* into recovery and p has nothing under way.                                *)
LEMMA RecoveryIs ==
    ASSUME NEW s, NEW p
    PROVE  LET q == Duel!Other(p)
               t == Duel!finishSuperBoost(s.f[q])
               u == Duel!startDunkRecovery(s, p)
           IN  \/ u = [Duel!Set(s, q, t) EXCEPT !.w = p]
               \/ u = Duel!Set(Duel!Set(s, q, Thrown(t)), p, Duel!ClearAttempts(s.f[p]))
  BY DEF Duel!startDunkRecovery, Thrown

(* The opponent of a dunk loses or recovers (startDunkRecovery). *)
LEMMA RecoveryRound ==
    ASSUME NEW lost \in SUBSET Duel!Player, NEW S, NEW L, NEW D, NEW s, Round(s, lost, S, L, D),
           NEW p \in Duel!Player
    PROVE  LET u == Duel!startDunkRecovery(s, p)
           IN  /\ Round(u, lost, S, L, D) /\ u.connected = s.connected
               /\ Duel!WithoutControl(u.f[p]) => Duel!WithoutControl(s.f[p])
<1> DEFINE q == Duel!Other(p)
           x == s.f[p]
           y == s.f[q]
           t == Duel!finishSuperBoost(y)
           u == Duel!startDunkRecovery(s, p)
<1>1. q \in Duel!Player /\ q # p BY Two
<1> HIDE DEF q
<1>2. s \in Frame /\ Fit(x, Turn(p, S), Turn(p, L), Turn(p, D)) /\ x \in Duel!Fighter /\ Whole(x)
      /\ Credited(x) BY DEF Round, Fit, Whole
<1>3. Fit(y, Turn(q, S), Turn(q, L), Turn(q, D)) /\ y \in Duel!Fighter BY <1>1 DEF Round, Fit, Whole
<1> HIDE DEF x, y
<1>4. Fit(t, Turn(q, S), Turn(q, L), Turn(q, D)) /\ Follows(y, t) BY <1>3, FinishIsFit
<1>5. t \in Duel!Fighter /\ t.superBoost = FALSE BY <1>3, FinishFits
<1> HIDE DEF t
<1>6. CASE u = [Duel!Set(s, q, t) EXCEPT !.w = p]
  <2> DEFINE v == Duel!Set(s, q, t)
  <2>1. Round(v, lost, S, L, D) BY <1>1, <1>4, SetTurn DEF y
  <2>2. Became(s, v, q, t) BY <1>1, <1>2, <1>5, SetIs
  <2>3. v \in Frame /\ v.f[p] = x /\ v.connected = s.connected BY <1>1, <2>2 DEF Became, x
  <2> HIDE DEF v
  <2>4. Round([v EXCEPT !.w = p], lost, S, L, D) BY <2>1, WinRound
  <2>5. [v EXCEPT !.w = p].f = v.f /\ [v EXCEPT !.w = p].connected = v.connected BY <2>3, WinnerIs
  <2>6. u = [v EXCEPT !.w = p] BY <1>6 DEF v
  <2> HIDE DEF u
  <2>7. Round(u, lost, S, L, D) /\ u.connected = s.connected /\ u.f[p] = x BY <2>3, <2>4, <2>5, <2>6
  <2> QED BY <2>7 DEF u, x
<1>7. CASE u = Duel!Set(Duel!Set(s, q, Thrown(t)), p, Duel!ClearAttempts(x))
  <2> DEFINE z == Thrown(t)
             v == Duel!Set(s, q, z)
             a == Duel!ClearAttempts(x)
             r == Duel!Set(v, p, a)
  <2>1. Fit(z, Turn(q, S), Turn(q, L), Turn(q, D)) /\ z.helpless = 0 /\ Duel!WithoutControl(z)
    BY <1>5, ThrownIsFit
  <2> HIDE DEF z
  <2>2. z \in Duel!Fighter /\ Follows(y, z) BY <2>1 DEF Fit, Whole, Follows
  <2>3. Round(v, lost, S, L, D) BY <1>1, <2>1, <2>2, SetTurn DEF y
  <2>4. Became(s, v, q, z) BY <1>1, <1>2, <2>2, SetIs
  <2>5. v \in Frame /\ v.f[p] = x /\ v.connected = s.connected BY <1>1, <2>4 DEF Became, x
  <2> HIDE DEF v
  <2>6. Fit(a, Turn(p, S), Turn(p, L), Turn(p, D)) /\ Follows(x, a) BY <1>2, ClearIsFit
  <2>7. a \in Duel!Fighter /\ (Duel!WithoutControl(a) => Duel!WithoutControl(x))
    BY <1>2, ClearFits DEF Duel!WithoutControl
  <2> HIDE DEF a
  <2>8. Round(r, lost, S, L, D) BY <2>3, <2>5, <2>6, SetTurn
  <2>9. Became(v, r, p, a) BY <2>5, <2>7, SetIs
  <2>10. u = r BY <1>7 DEF v, a, z
  <2> HIDE DEF r, u
  <2>11. u.connected = s.connected /\ u.f[p] = a BY <2>5, <2>9, <2>10 DEF Became
  <2> QED BY <2>7, <2>8, <2>10, <2>11 DEF u, x
<1>8. \/ u = [Duel!Set(s, q, t) EXCEPT !.w = p]
      \/ u = Duel!Set(Duel!Set(s, q, Thrown(t)), p, Duel!ClearAttempts(x))
  BY RecoveryIs DEF q, t, x, y
<1> QED BY <1>6, <1>7, <1>8

(* The turn of a dunk (advanceDunkAttempt). *)
LEMMA DunkAdvances ==
    ASSUME NEW lost \in SUBSET Duel!Player, NEW S, NEW L, NEW D, NEW s, Round(s, lost, S, L, D),
           NEW p \in Duel!Player, p \notin D,
           NEW close
    PROVE  Round(Duel!advanceDunkAttempt(s, p, close), lost, S, L, D \cup {p})
<1> DEFINE x == s.f[p]
           c == Turn(p, S)
           l == Turn(p, L)
<1>0. s \in Frame /\ Fit(x, c, l, 0) /\ x \in Duel!Fighter /\ Whole(x)
  BY DEF Round, Fit, Whole, Turn
<1>1. \A q \in Duel!Player : q # p => Turn(q, D \cup {p}) = Turn(q, D) BY DEF Turn
<1>2. Turn(p, D \cup {p}) = 1 /\ Turn(p, D) = 0 BY DEF Turn
<1>3. /\ x.dunkStartup \in Nat /\ x.dunkActive \in Nat /\ x.helpless \in Nat
      /\ DunkStartup \in Nat /\ DunkActive \in Nat /\ DunkActive > 0 BY <1>0, NumbersOf, KitNumbers
<1>4. ASSUME NEW y, Fit(y, c, l, 1), Follows(x, y)
      PROVE  Round(Duel!Set(s, p, y), lost, S, L, D \cup {p}) BY <1>1, <1>2, <1>4, SetTurn
<1> HIDE DEF x
<1>5. CASE x.dunkStartup > 0
  <2> DEFINE n == x.dunkStartup - 1
             m == IF x.dunkStartup = 1 THEN DunkActive ELSE x.dunkActive
             y == [x EXCEPT !.dunkStartup = n, !.dunkActive = m]
  <2>1. Duel!advanceDunkAttempt(s, p, close) = Duel!Set(s, p, y)
    BY <1>5 DEF Duel!advanceDunkAttempt, x
  <2>2. n \in Duel!Frames /\ m \in Duel!Frames BY <1>3, <1>5 DEF Duel!Frames
  <2>3. Due(x, x.dunkStartup, x.dunkActive, DunkStartup, 0) BY <1>0 DEF Fit, Timed
  <2> HIDE DEF n, m
  <2>4. Ended(x, y) /\ SameSpecial(x, y) /\ SameLaunch(x, y) /\ y.dunkStartup = n
        /\ y.dunkActive = m BY <1>0, <2>2 DEF Ended, SameSpecial, SameLaunch, Duel!Fighter
  <2> HIDE DEF y
  <2>5. Due(y, n, m, DunkStartup, 1) BY <1>0, <1>3, <1>5, <2>3, <2>4, WindDown DEF n, m, Ended
  <2>6. Fit(y, c, l, 1) /\ Follows(x, y) BY <1>0, <1>5, <2>4, <2>5, DunkIsFit DEF Duel!Dunking
  <2> QED BY <1>4, <2>1, <2>6
<1>6. CASE x.dunkStartup = 0 /\ x.dunkActive = 0
  <2>1. Duel!advanceDunkAttempt(s, p, close) = s BY <1>6 DEF Duel!advanceDunkAttempt, x
  <2>2. Fit(x, c, l, 1) BY <1>0, <1>6 DEF Fit, Timed, Due
  <2>3. Round(s, lost, S, L, D \cup {p}) BY <1>1, <1>2, <2>2 DEF Round, x
  <2> QED BY <2>1, <2>3
<1>7. CASE x.dunkStartup = 0 /\ x.dunkActive > 0 /\ (Duel!WithoutControl(x) \/ s.w # Duel!Nobody)
  <2> DEFINE y == Duel!clearDunkAttempt(x)
  <2>1. Duel!advanceDunkAttempt(s, p, close) = Duel!Set(s, p, y)
    BY <1>7 DEF Duel!advanceDunkAttempt, x
  <2>2. Ended(x, y) /\ SameSpecial(x, y) /\ SameLaunch(x, y) /\ y.dunkStartup = 0
        /\ y.dunkActive = 0
    BY <1>0 DEF Ended, SameSpecial, SameLaunch, Duel!Fighter, Duel!clearDunkAttempt, Duel!Frames
  <2> HIDE DEF y
  <2>3. Fit(y, c, l, 1) /\ Follows(x, y) BY <1>0, <2>2, NoDunkIsFit
  <2> QED BY <1>4, <2>1, <2>3
<1>8. CASE x.dunkStartup = 0 /\ x.dunkActive > 0 /\ ~Duel!WithoutControl(x) /\ s.w = Duel!Nobody
           /\ close /\ ~s.apart
  <2> DEFINE t == Duel!startDunkRecovery(s, p)
             y == Duel!EndDunk(t.f[p], DunkHitRecovery)
             u == Duel!Set(t, p, y)
  <2>1. Duel!advanceDunkAttempt(s, p, close) = [u EXCEPT !.connected = u.connected \cup {p}]
    BY <1>8 DEF Duel!advanceDunkAttempt, x
  <2>2. Round(t, lost, S, L, D) /\ t.connected = s.connected /\ ~Duel!WithoutControl(t.f[p])
    BY <1>8, RecoveryRound DEF x
  <2> HIDE DEF t
  <2>3. Fit(t.f[p], c, l, 0) /\ t.f[p] \in Duel!Fighter BY <1>2, <2>2 DEF Round, Fit, Whole
  <2>4. /\ Ended(t.f[p], y) /\ SameSpecial(t.f[p], y) /\ SameLaunch(t.f[p], y)
        /\ y.dunkStartup = 0 /\ y.dunkActive = 0 BY <2>3, KitNumbers, EndDunkIs
  <2> HIDE DEF y
  <2>5. Fit(y, c, l, 1) /\ Follows(t.f[p], y) BY <2>3, <2>4, NoDunkIsFit
  <2>6. Round(u, lost, S, L, D \cup {p}) BY <1>1, <1>2, <2>2, <2>5, SetTurn
  <2> HIDE DEF u
  <2>7. p \notin lost BY <1>8 DEF Round, x
  <2>8. Round([u EXCEPT !.connected = u.connected \cup {p}], lost, S, L, D \cup {p})
    BY <2>6, <2>7, ConnectedRound
  <2> QED BY <2>1, <2>8
<1>9. CASE x.dunkStartup = 0 /\ x.dunkActive > 0 /\ ~Duel!WithoutControl(x) /\ s.w = Duel!Nobody
           /\ ~(close /\ ~s.apart)
  <2> DEFINE y == [x EXCEPT !.dunkActive = x.dunkActive - 1]
             z == IF y.dunkActive > 0 THEN y ELSE Duel!EndDunk(y, DunkWhiffRecovery)
  <2>1. Duel!advanceDunkAttempt(s, p, close) = Duel!Set(s, p, z)
    BY <1>9 DEF Duel!advanceDunkAttempt, x
  <2>2. x.dunkActive - 1 \in Duel!Frames BY <1>3, <1>9 DEF Duel!Frames
  <2>3. Ended(x, y) /\ SameSpecial(x, y) /\ SameLaunch(x, y) /\ y.dunkStartup = 0
    BY <1>0, <1>9, <2>2 DEF Ended, SameSpecial, SameLaunch, Duel!Fighter
  <2> HIDE DEF y
  <2>4. y \in Duel!Fighter BY <2>3 DEF Ended
  <2>5. LET v == Duel!EndDunk(y, DunkWhiffRecovery) IN
        Ended(y, v) /\ SameSpecial(y, v) /\ SameLaunch(y, v) /\ v.dunkStartup = 0
    BY <2>4, KitNumbers, EndDunkIs
  <2>6. Ended(x, z) /\ SameSpecial(x, z) /\ SameLaunch(x, z) /\ z.dunkStartup = 0
    BY <2>3, <2>5 DEF Ended, SameSpecial, SameLaunch
  <2> HIDE DEF z
  <2>7. z.helpless = 0 BY <1>3, <1>9, <2>6 DEF Ended, Duel!WithoutControl
  <2>8. Fit(z, c, l, 1) /\ Follows(x, z) BY <1>0, <1>9, <2>6, <2>7, DunkIsFit DEF Duel!Dunking, Due
  <2> QED BY <1>4, <2>1, <2>8
<1>10. x.dunkActive = 0 \/ x.dunkActive > 0 BY <1>3
<1>11. x.dunkStartup = 0 \/ x.dunkStartup > 0 BY <1>3
<1> QED BY <1>5, <1>6, <1>7, <1>8, <1>9, <1>10, <1>11

-----------------------------------------------------------------------------
(* Locomotion. *)

(* A steady change leaves a fighter able. *)
LEMMA AbleStays ==
    ASSUME NEW x, Able(x), NEW y \in Duel!Fighter, Steady(x, y), y.parryStartup = x.parryStartup
    PROVE  Able(y)
<1> USE DEF Steady
<1>1. Duel!WithoutControl(y) <=> Duel!WithoutControl(x) BY DEF Duel!WithoutControl
<1>2. (Duel!Launching(y) <=> Duel!Launching(x)) /\ (Duel!Dunking(y) <=> Duel!Dunking(x))
      /\ (Duel!Casting(y) <=> Duel!Casting(x)) BY DEF Duel!Launching, Duel!Dunking, Duel!Casting
<1>3. Duel!Attacking(y) <=> Duel!Attacking(x) BY <1>2 DEF Duel!Attacking
<1>4. Whole(y) /\ Credited(y) BY <1>1, <1>2, <1>3 DEF Able, Fit, Whole, Credited
<1>5. Timed(y, 0, 0, 0) BY DEF Able, Fit, Timed, Due, Elapsed
<1> QED BY <1>1, <1>4, <1>5 DEF Able, Fit

(* Spending fuel leaves it able. *)
LEMMA SpendIsAble ==
    ASSUME NEW x, Able(x), NEW n \in Nat
    PROVE  Able(Duel!Spend(x, n))
<1> DEFINE y == Duel!Spend(x, n)
<1>1. x \in Duel!Fighter BY DEF Able, Fit, Whole
<1>2. y \in Duel!Fighter /\ Alike(x, y) BY <1>1, SpendFits, SpendIsAlike
<1> HIDE DEF y
<1>3. Steady(x, y) /\ y.parryStartup = x.parryStartup BY <1>2 DEF Alike, Steady
<1>4. Able(y) BY <1>2, <1>3, AbleStays
<1> QED BY <1>4 DEF y

(* The end of a Super Boost leaves it able. *)
LEMMA FinishIsAble ==
    ASSUME NEW x, Able(x)
    PROVE  Able(Duel!finishSuperBoost(x))
<1> DEFINE y == Duel!finishSuperBoost(x)
<1>1. x \in Duel!Fighter BY DEF Able, Fit, Whole
<1>2. y \in Duel!Fighter /\ Alike(x, y) BY <1>1, FinishFits
<1> HIDE DEF y
<1>3. Steady(x, y) /\ y.parryStartup = x.parryStartup BY <1>2 DEF Alike, Steady
<1>4. Able(y) BY <1>2, <1>3, AbleStays
<1> QED BY <1>4 DEF y

(* So does its beginning (startSuperBoost). *)
LEMMA BoostIsAble ==
    ASSUME NEW x, Able(x)
    PROVE  Able(Duel!startSuperBoost(x))
<1>1. CASE Duel!startSuperBoost(x) = x BY <1>1
<1>2. CASE Duel!startSuperBoost(x) # x
  <2> DEFINE y == Duel!Spend(x, DashCost)
             z == [y EXCEPT !.superBoost = TRUE, !.didCommit = FALSE]
  <2>1. Duel!startSuperBoost(x) = z BY <1>2 DEF Duel!startSuperBoost
  <2>2. Able(y) BY FuelNumbers, SpendIsAble
  <2>3. y \in Duel!Fighter BY <2>2 DEF Able, Fit, Whole
  <2> HIDE DEF y
  <2>4. z \in Duel!Fighter /\ Steady(y, z) /\ z.parryStartup = y.parryStartup
    BY <2>3 DEF Duel!Fighter, Steady
  <2> HIDE DEF z
  <2>5. Able(z) BY <2>2, <2>4, AbleStays
  <2> QED BY <2>1, <2>5
<1> QED BY <1>1, <1>2

(* Whoever begins one attack while committed to none stays able. *)
LEMMA BegunIsAble ==
    ASSUME NEW x, Able(x), ~Duel!hasAttackCommitment(x), NEW y, Kept(x, y),
           \/ /\ SameLaunch(x, y) /\ SameDunk(x, y) /\ y.specialStartup <= SpecialStartup
           \/ /\ SameSpecial(x, y) /\ SameDunk(x, y) /\ y.launchStartup <= LaunchStartup
           \/ /\ SameSpecial(x, y) /\ SameLaunch(x, y) /\ y.dunkStartup <= DunkStartup
    PROVE  Able(y)
<1>1. x \in Duel!Fighter /\ Whole(x) /\ Credited(x) BY DEF Able, Fit, Whole
<1>2. /\ x.stunned = 0 /\ x.helpless = 0 /\ x.recovering = 0
      /\ x.parryStartup = 0 /\ x.launchStartup = 0 /\ x.launchActive = 0
      /\ x.dunkStartup = 0 /\ x.dunkActive = 0 /\ x.specialStartup = 0 /\ x.specialActive = 0
  <2>1. ~Duel!WithoutControl(x) BY DEF Able
  <2>2. /\ ~(x.stunned > 0) /\ ~(x.helpless > 0) /\ ~(x.recovering > 0)
        /\ ~(x.parryStartup > 0) /\ ~(x.launchStartup > 0) /\ ~(x.launchActive > 0)
        /\ ~(x.dunkStartup > 0) /\ ~(x.dunkActive > 0) /\ ~(x.specialStartup > 0)
        /\ ~(x.specialActive > 0)
    BY <2>1 DEF Duel!WithoutControl, Duel!hasAttackCommitment, Duel!Attacking, Duel!Launching,
       Duel!Dunking, Duel!Casting
  <2> QED BY <1>1, <2>2, NumbersOf
<1>3. y.stunned = 0 /\ y.helpless = 0 /\ y.recovering = 0 /\ y.parryStartup = 0
      /\ y.launched = x.launched /\ y \in Duel!Fighter BY <1>2 DEF Kept
<1>4. ~Duel!WithoutControl(y) BY <1>3 DEF Duel!WithoutControl
<1>5. Credited(y) BY <1>1, <1>2, <1>3 DEF Credited
<1>6. Elapsed(y) = 0 BY <1>3 DEF Elapsed
<1>7. /\ y.launchStartup \in Nat /\ y.dunkStartup \in Nat /\ y.specialStartup \in Nat
      /\ LaunchStartup \in Nat /\ DunkStartup \in Nat /\ SpecialStartup \in Nat /\ Helpless \in Nat
  BY <1>3, NumbersOf, KitNumbers
<1>8. Timed(y, 0, 0, 0) BY <1>2, <1>3, <1>6, <1>7 DEF Timed, Due, SameLaunch, SameDunk, SameSpecial
<1>9. Whole(y)
  BY <1>2, <1>3, <1>4, <1>7 DEF Whole, Duel!Attacking, Duel!Launching, Duel!Dunking, Duel!Casting,
     SameLaunch, SameDunk, SameSpecial
<1> QED BY <1>4, <1>5, <1>8, <1>9 DEF Able, Fit

(* A launch begins (startLaunchAttempt). *)
LEMMA LaunchIsAble ==
    ASSUME NEW x, Able(x)
    PROVE  Able(Duel!startLaunchAttempt(x))
<1> DEFINE a == IF LaunchStartup > 0 THEN 0 ELSE LaunchActive
           d == x.didCommit \/ x.superBoost
           n == Duel!AtLeast(x.coolLaunch, LaunchStartup + LaunchActive)
           y == [x EXCEPT !.launchStartup = LaunchStartup, !.launchActive = a, !.didCommit = d,
                          !.coolLaunch = n]
<1>1. CASE x.coolLaunch > 0 \/ x.endLag > 0 \/ Duel!hasAttackCommitment(x)
  BY <1>1 DEF Duel!startLaunchAttempt
<1>2. CASE ~(x.coolLaunch > 0 \/ x.endLag > 0 \/ Duel!hasAttackCommitment(x))
  <2>1. Duel!startLaunchAttempt(x) = y BY <1>2 DEF Duel!startLaunchAttempt
  <2>2. x \in Duel!Fighter BY DEF Able, Fit, Whole
  <2>3. LaunchStartup \in Duel!Frames /\ a \in Duel!Frames /\ n \in Duel!Frames
        /\ LaunchStartup \in Nat BY <2>2, KitNumbers, NumbersOf DEF Duel!Frames, Duel!AtLeast
  <2>4. d \in BOOLEAN OBVIOUS
  <2> HIDE DEF a, d, n
  <2>5. Kept(x, y) /\ SameSpecial(x, y) /\ SameDunk(x, y) /\ y.launchStartup = LaunchStartup
    BY <2>2, <2>3, <2>4 DEF Kept, SameSpecial, SameDunk, Duel!Fighter
  <2> HIDE DEF y
  <2>6. y.launchStartup <= LaunchStartup BY <2>3, <2>5
  <2>7. Able(y) BY <1>2, <2>5, <2>6, BegunIsAble
  <2> QED BY <2>1, <2>7
<1> QED BY <1>1, <1>2

(* A dunk begins (startDunkAttempt). *)
LEMMA DunkIsAble ==
    ASSUME NEW x, Able(x)
    PROVE  Able(Duel!startDunkAttempt(x))
<1> DEFINE a == IF DunkStartup > 0 THEN 0 ELSE DunkActive
           d == x.didCommit \/ x.superBoost
           n == Duel!AtLeast(x.coolDunk, DunkStartup + DunkActive)
           y == [x EXCEPT !.dunkStartup = DunkStartup, !.dunkActive = a, !.didCommit = d,
                          !.coolDunk = n]
<1>1. CASE x.coolDunk > 0 \/ x.endLag > 0 \/ Duel!hasAttackCommitment(x)
  BY <1>1 DEF Duel!startDunkAttempt
<1>2. CASE ~(x.coolDunk > 0 \/ x.endLag > 0 \/ Duel!hasAttackCommitment(x))
  <2>1. Duel!startDunkAttempt(x) = y BY <1>2 DEF Duel!startDunkAttempt
  <2>2. x \in Duel!Fighter BY DEF Able, Fit, Whole
  <2>3. DunkStartup \in Duel!Frames /\ a \in Duel!Frames /\ n \in Duel!Frames /\ DunkStartup \in Nat
    BY <2>2, KitNumbers, NumbersOf DEF Duel!Frames, Duel!AtLeast
  <2>4. d \in BOOLEAN OBVIOUS
  <2> HIDE DEF a, d, n
  <2>5. Kept(x, y) /\ SameSpecial(x, y) /\ SameLaunch(x, y) /\ y.dunkStartup = DunkStartup
    BY <2>2, <2>3, <2>4 DEF Kept, SameSpecial, SameLaunch, Duel!Fighter
  <2> HIDE DEF y
  <2>6. y.dunkStartup <= DunkStartup BY <2>3, <2>5
  <2>7. Able(y) BY <1>2, <2>5, <2>6, BegunIsAble
  <2> QED BY <2>1, <2>7
<1> QED BY <1>1, <1>2

(* A special begins, and resolves at once without a wind-up (startSpecialAttempt). *)
LEMMA SpecialIsAble ==
    ASSUME NEW s \in Frame, NEW p \in Duel!Player, Able(s.f[p]), NEW grasp
    PROVE  LET t == Duel!startSpecialAttempt(s, p, grasp)
           IN  /\ \E e \in {s, Grabbed(s, p)} : Became(e, t, p, t.f[p])
               /\ Able(t.f[p])
<1> DEFINE x == s.f[p]
           v == Duel!Spend(x, SpecialCost)
           a == IF SpecialStartup > 0 THEN 0 ELSE SpecialActive
           d == v.didCommit \/ x.superBoost
           n == Duel!AtLeast(v.coolSpecial, SpecialStartup + SpecialActive + SpecialCooldown)
           y == [v EXCEPT !.specialStartup = SpecialStartup, !.specialActive = a,
                          !.specialDidResolve = FALSE,
                          !.didCommit = d, !.coolSpecial = n]
           t == Duel!Set(s, p, y)
<1>1. CASE x.coolSpecial > 0 \/ x.endLag > 0 \/ Duel!hasAttackCommitment(x) \/ x.fuel < SpecialCost
  <2>1. Duel!startSpecialAttempt(s, p, grasp) = s BY <1>1 DEF Duel!startSpecialAttempt
  <2> QED BY <2>1 DEF Became
<1>2. CASE ~(x.coolSpecial > 0 \/ x.endLag > 0 \/ Duel!hasAttackCommitment(x) \/ x.fuel < SpecialCost)
  <2>1. Duel!startSpecialAttempt(s, p, grasp) = IF SpecialStartup > 0 THEN t ELSE Duel!ResolveSpecial(t, p, grasp)
    BY <1>2 DEF Duel!startSpecialAttempt
  <2>2. x \in Duel!Fighter BY DEF Able, Fit, Whole
  <2>20. ~Duel!hasAttackCommitment(x) BY <1>2
  <2>21. Able(x) OBVIOUS
  <2> HIDE DEF x
  <2>22. v \in Duel!Fighter /\ Alike(x, v) BY <2>2, FuelNumbers, SpendFits, SpendIsAlike
  <2>23. Able(v) BY <2>21, FuelNumbers, SpendIsAble
  <2> HIDE DEF v
  <2>24. ~Duel!hasAttackCommitment(v)
    BY <2>20, <2>22 DEF Duel!hasAttackCommitment, Duel!Attacking, Duel!Launching, Duel!Dunking,
       Duel!Casting, Alike
  <2>3. SpecialStartup \in Duel!Frames /\ a \in Duel!Frames /\ n \in Duel!Frames
        /\ SpecialStartup \in Nat BY <2>22, KitNumbers, NumbersOf DEF Duel!Frames, Duel!AtLeast
  <2>4. d \in BOOLEAN OBVIOUS
  <2> HIDE DEF a, d, n
  <2>5. Kept(v, y) /\ SameLaunch(v, y) /\ SameDunk(v, y) /\ y.specialStartup = SpecialStartup
    BY <2>22, <2>3, <2>4 DEF Kept, SameDunk, SameLaunch, Duel!Fighter
  <2> HIDE DEF y
  <2>6. y.specialStartup <= SpecialStartup BY <2>3, <2>5
  <2>7. Able(y) BY <2>23, <2>24, <2>5, <2>6, BegunIsAble
  <2>8. y \in Duel!Fighter BY <2>5 DEF Kept
  <2>9. Became(s, t, p, y) BY <2>8, SetIs
  <2>10. t \in Frame /\ t.f[p] = y BY <2>9 DEF Became
  <2> HIDE DEF t
  <2> DEFINE u == Duel!ResolveSpecial(t, p, grasp)
  <2>11. PICK e \in {t, Grabbed(t, p)} :
         /\ Became(e, u, p, u.f[p])
         /\ u.f[p] \in Duel!Fighter /\ Steady(y, u.f[p]) /\ u.f[p].parryStartup = y.parryStartup
    BY <2>10, ResolveIs
  <2> HIDE DEF u
  <2>12. Able(u.f[p]) BY <2>7, <2>11, AbleStays
  <2>13. \E g \in {s, Grabbed(s, p)} : Became(g, u, p, u.f[p])
    <3>1. CASE e = t
      <4>1. Became(s, u, p, u.f[p]) BY <2>9, <2>11, <3>1 DEF Became
      <4> QED BY <4>1
    <3>2. CASE e = Grabbed(t, p)
      <4>1. Duel!Other(p) # p /\ \A q \in Duel!Player : q = p \/ q = Duel!Other(p) BY Two
      <4>2. t.f[Duel!Other(p)] = s.f[Duel!Other(p)] BY <2>9, <4>1, Two DEF Became
      <4> DEFINE o == Duel!Other(p)
                 m == Grabbed(s, p)
                 k == Grabbed(t, p)
      <4>3. m.f[o] = k.f[o] /\ m.w = k.w /\ m.apart = k.apart /\ m.connected = k.connected
            /\ m.returned = k.returned BY <2>9, <2>10, <4>2, GrabIs DEF Became
      <4>4. Became(k, u, p, u.f[p]) BY <2>11, <3>2
      <4> HIDE DEF o, m, k
      <4>5. Became(m, u, p, u.f[p]) BY <4>1, <4>3, <4>4 DEF o, Became
      <4> QED BY <4>5 DEF m
    <3> QED BY <2>11, <3>1, <3>2
  <2> QED BY <2>1, <2>7, <2>9, <2>10, <2>12, <2>13 DEF u
<1> QED BY <1>1, <1>2

(* Whoever has had its turns is ready. *)
LEMMA TurnedIsReady ==
    ASSUME NEW x, Fit(x, 1, 1, 1)
    PROVE  Ready(x)
<1>1. x \in Duel!Fighter /\ Whole(x) /\ Credited(x) BY DEF Fit, Whole
<1>2. /\ x.specialStartup \in Nat /\ x.launchStartup \in Nat /\ x.dunkStartup \in Nat
      /\ x.helpless \in Nat
      /\ SpecialStartup \in Nat /\ LaunchStartup \in Nat /\ DunkStartup \in Nat
  BY <1>1, NumbersOf, KitNumbers
<1>3. CASE x.helpless > 0 BY <1>1, <1>3 DEF Ready, Fit
<1>4. CASE ~(x.helpless > 0)
  <2>1. Elapsed(x) = 0 BY <1>4 DEF Elapsed
  <2>2. Timed(x, 0, 0, 0) BY <1>2, <1>4, <2>1 DEF Fit, Timed, Due
  <2> QED BY <1>1, <1>4, <2>2 DEF Ready
<1> QED BY <1>3, <1>4

(* Whoever is able is ready, and not in flight. *)
LEMMA AbleIsReady ==
    ASSUME NEW x, Able(x)
    PROVE  Ready(x) /\ x.helpless = 0
<1>1. x \in Duel!Fighter BY DEF Able, Fit, Whole
<1>2. ~(x.helpless > 0) BY DEF Able, Duel!WithoutControl
<1>3. x.helpless = 0 BY <1>1, <1>2, NumbersOf
<1> QED BY <1>2, <1>3 DEF Able, Fit, Ready

(* Whoever is ready and in control is able. *)
LEMMA ReadyIsAble ==
    ASSUME NEW x, Ready(x), ~Duel!WithoutControl(x)
    PROVE  Able(x)
<1>1. ~(x.helpless > 0) BY DEF Duel!WithoutControl
<1> QED BY <1>1 DEF Ready, Able, Fit

(* The end of a Super Boost leaves a fighter ready. *)
LEMMA FinishIsReady ==
    ASSUME NEW x, Ready(x)
    PROVE  LET y == Duel!finishSuperBoost(x) IN Ready(y) /\ Follows(x, y)
<1> DEFINE y == Duel!finishSuperBoost(x)
<1>1. x \in Duel!Fighter BY DEF Ready, Whole
<1>2. y \in Duel!Fighter /\ Alike(x, y) BY <1>1, FinishFits
<1>3. y.helpless = x.helpless BY <1>2 DEF Alike
<1>4. CASE x.helpless > 0
  <2>1. Fit(x, 1, 1, 1) BY <1>4 DEF Ready, Fit
  <2>2. Fit(y, 1, 1, 1) /\ Follows(x, y) BY <2>1, FinishIsFit
  <2> HIDE DEF y
  <2>3. Ready(y) BY <1>3, <1>4, <2>2 DEF Ready, Fit
  <2> QED BY <2>2, <2>3 DEF y
<1>5. CASE ~(x.helpless > 0)
  <2>1. Fit(x, 0, 0, 0) BY <1>5 DEF Ready, Fit
  <2>2. Fit(y, 0, 0, 0) /\ Follows(x, y) BY <2>1, FinishIsFit
  <2> HIDE DEF y
  <2>3. Ready(y) BY <1>3, <1>5, <2>2 DEF Ready, Fit
  <2> QED BY <2>2, <2>3 DEF y
<1> QED BY <1>4, <1>5

(* A turn that leaves its fighter ready, and sends nobody into flight. *)
LEMMA MovingTurn ==
    ASSUME NEW lost \in SUBSET Duel!Player, NEW s, Moving(s, lost), NEW p \in Duel!Player,
           NEW t, NEW y, Became(s, t, p, y), Ready(y),
           y.helpless > 0 => s.f[p].helpless > 0, p \in lost => Duel!WithoutControl(y)
    PROVE  Moving(t, lost)
<1> USE DEF Became
<1>1. \A q \in Duel!Player : Ready(t.f[q]) BY DEF Moving
<1>2. ~ (t.f[Duel!P1].helpless > 0 /\ t.f[Duel!P2].helpless > 0) BY Two DEF Moving
<1>3. \A q \in lost : Duel!WithoutControl(t.f[q]) /\ q \notin t.connected BY DEF Moving
<1> QED BY <1>1, <1>2, <1>3 DEF Moving

(* A grab in a turn of locomotion. *)
LEMMA GrabKeepsMoving ==
    ASSUME NEW lost \in SUBSET Duel!Player, NEW s, Moving(s, lost), NEW p \in Duel!Player,
           p \notin lost
    PROVE  Moving(Grabbed(s, p), lost)
<1> DEFINE q == Duel!Other(p)
           x == s.f[q]
           y == Duel!setStunned(x, GrabStun)
           e == Grabbed(s, p)
<1>1. q \in Duel!Player /\ s \in Frame /\ \A r \in Duel!Player : r = p \/ r = q BY Two DEF Moving
<1>2. Whole(x) /\ Credited(x) BY <1>1 DEF Moving, Ready
<1>3. Fit(y, 0, 0, 0) /\ Fit(y, 1, 1, 1) /\ Follows(x, y) BY <1>2, KitNumbers, StunnedIsFit
<1>4. /\ e \in Frame /\ e.f[p] = s.f[p] /\ e.f[q] = y
      /\ e.connected = s.connected \cup {p} /\ e.returned = s.returned BY <1>1, GrabIs
<1> HIDE DEF y, q, e
<1>5. Ready(y) BY <1>3 DEF Ready, Fit
<1>6. \A r \in Duel!Player : Ready(e.f[r]) BY <1>1, <1>4, <1>5 DEF Moving
<1>7. \A r \in Duel!Player : /\ e.f[r].helpless > 0 => s.f[r].helpless > 0
                             /\ Duel!WithoutControl(s.f[r]) => Duel!WithoutControl(e.f[r])
  BY <1>1, <1>3, <1>4 DEF Follows
<1>8. ~ (e.f[Duel!P1].helpless > 0 /\ e.f[Duel!P2].helpless > 0) BY <1>7, Two DEF Moving
<1>9. \A r \in lost : Duel!WithoutControl(e.f[r]) /\ r \notin e.connected BY <1>4, <1>7 DEF Moving
<1>10. Moving(e, lost) BY <1>4, <1>6, <1>8, <1>9 DEF Moving
<1> QED BY <1>10 DEF e

(* A turn of locomotion (movement). *)
LEMMA MovementKeeps ==
    ASSUME NEW lost \in SUBSET Duel!Player, NEW s, Moving(s, lost), NEW p \in Duel!Player,
           NEW held, NEW grasp
    PROVE  Moving(Duel!movement(s, p, held, grasp), lost)
<1> DEFINE x == s.f[p]
           cast == IF "special" \in held THEN Duel!startSpecialAttempt(s, p, grasp) ELSE s
           a == cast.f[p]
           b == IF "launch" \in held THEN Duel!startLaunchAttempt(a) ELSE a
           c == IF "dunk" \in held THEN Duel!startDunkAttempt(b) ELSE b
           d == CASE "superBoost" \in held /\ ~c.superBoost -> Duel!startSuperBoost(c)
                  [] "superBoost" \notin held /\ c.superBoost -> Duel!finishSuperBoost(c)
                  [] OTHER -> c
           e == IF "move" \in held THEN Duel!Spend(d, 1) ELSE d
           t == Duel!Set(cast, p, e)
           r == Duel!Set(s, p, Duel!finishSuperBoost(x))
<1>0. Duel!movement(s, p, held, grasp) = IF Duel!WithoutControl(x) \/ s.w # Duel!Nobody THEN r ELSE t
  BY DEF Duel!movement
<1>1. s \in Frame /\ Ready(x) /\ x \in Duel!Fighter BY DEF Moving, Ready, Whole
<1>2. CASE Duel!WithoutControl(x) \/ s.w # Duel!Nobody
  <2> DEFINE y == Duel!finishSuperBoost(x)
  <2>1. Ready(y) /\ Follows(x, y) /\ y \in Duel!Fighter BY <1>1, FinishIsReady, FinishFits
  <2> HIDE DEF y
  <2>2. Became(s, Duel!Set(s, p, y), p, y) BY <1>1, <2>1, SetIs
  <2>3. p \in lost => Duel!WithoutControl(y) BY <2>1 DEF Moving, Follows
  <2>4. Moving(Duel!Set(s, p, y), lost) BY <2>1, <2>2, <2>3, MovingTurn DEF Follows
  <2> QED BY <1>0, <1>2, <2>4 DEF y
<1>3. CASE ~(Duel!WithoutControl(x) \/ s.w # Duel!Nobody)
  <2>1. Able(x) BY <1>1, <1>3, ReadyIsAble
  <2>2. p \notin lost BY <1>3 DEF Moving
  <2>3. PICK g \in {s, Grabbed(s, p)} : Became(g, cast, p, a) /\ Able(a)
    <3>1. CASE "special" \in held BY <1>1, <2>1, <3>1, SpecialIsAble
    <3>2. CASE "special" \notin held
      <4>1. Became(s, cast, p, a) BY <1>1, <3>2 DEF Became
      <4> QED BY <2>1, <3>2, <4>1
    <3> QED BY <3>1, <3>2
  <2> HIDE DEF cast, a
  <2>4. Able(b) BY <2>3, LaunchIsAble
  <2> HIDE DEF b
  <2>5. Able(c) BY <2>4, DunkIsAble
  <2> HIDE DEF c
  <2>6. Able(Duel!startSuperBoost(c)) /\ Able(Duel!finishSuperBoost(c))
    BY <2>5, BoostIsAble, FinishIsAble
  <2>7. Able(d) BY <2>5, <2>6
  <2> HIDE DEF d
  <2>8. Able(e) BY <2>7, SpendIsAble
  <2> HIDE DEF e
  <2>9. Ready(e) /\ e.helpless = 0 /\ e \in Duel!Fighter BY <2>8, AbleIsReady DEF Able, Fit, Whole
  <2>10. cast \in Frame BY <2>3 DEF Became
  <2>11. Became(cast, t, p, e) BY <2>9, <2>10, SetIs
  <2> HIDE DEF t
  <2>12. Became(g, t, p, e) BY <2>3, <2>11 DEF Became
  <2>14. Moving(g, lost) BY <2>2, <2>3, GrabKeepsMoving
  <2>13. Moving(t, lost) BY <2>2, <2>9, <2>12, <2>14, MovingTurn
  <2> QED BY <1>0, <1>3, <2>13
<1> QED BY <1>2, <1>3

-----------------------------------------------------------------------------
(* The phases of the fight, P1's turn and P2's. *)
LEMMA Sole == \A S, v : S = {v} => (CHOOSE last \in S : TRUE) = v OBVIOUS

(* All phases of the fight: from one frame to the end of its locomotion. *)
LEMMA FoughtKeeps ==
    ASSUME NEW lost \in SUBSET Duel!Player, NEW s, Round(s, lost, {}, {}, {}), NEW held, NEW g
    PROVE  Moving(Duel!Fought(s, held, g), lost)
<1> DEFINE startParry(t, p) == Duel!startParryAttempt(t, p, held[p])
           s1 == Duel!InTurn(Duel!advanceParryStartup, s)
           parried == Duel!InTurn(startParry, s1)
           wasActive == [p \in Duel!Player |-> parried.f[p].launchActive > 0]
           broke == {p \in Duel!Player : Duel!BreaksLaunch(parried, p, held[p])}
           breakLaunch(t, p) == Duel!tryLaunchBreak(t, p, held[p])
           special(t, p) == IF p \in broke THEN t ELSE Duel!advanceSpecialAttempt(t, p, g.grasp[p])
           launch(t, p) == IF p \in broke THEN t
                           ELSE Duel!advanceLaunchAttempt(t, p, wasActive[Duel!Other(p)],
                           g.range = "near")
           dunk(t, p) == IF p \in broke THEN t ELSE Duel!advanceDunkAttempt(t, p, g.range # "far")
           move(t, p) == IF p \in broke THEN t ELSE Duel!movement(t, p, held[p], g.grasp[p])
           s3 == Duel!InTurn(breakLaunch, parried)
           s4 == Duel!InTurn(special, s3)
           s5 == Duel!InTurn(launch, s4)
           s6 == Duel!InTurn(dunk, s5)
           s7 == Duel!InTurn(move, s6)
<1>1. Duel!Fought(s, held, g) = s7 BY DEF Duel!Fought
<1>2. Duel!P1 \in Duel!Player /\ Duel!P2 \in Duel!Player /\ Duel!P1 # Duel!P2
      /\ Duel!Player = {Duel!P1, Duel!P2} BY Two DEF Duel!Player
<1>3. s1 = Duel!advanceParryStartup(Duel!advanceParryStartup(s, Duel!P1), Duel!P2)
  BY Sole DEF Duel!InTurn
<1> HIDE DEF s1
<1>4. Round(s1, lost, {}, {}, {})
  <2>1. Round(Duel!advanceParryStartup(s, Duel!P1), lost, {}, {}, {}) BY <1>2, ParryAdvances
  <2> QED BY <1>2, <1>3, <2>1, ParryAdvances
<1>5. parried = Duel!startParryAttempt(Duel!startParryAttempt(s1, Duel!P1, held[Duel!P1]), Duel!P2,
      held[Duel!P2]) BY Sole DEF Duel!InTurn
<1> HIDE DEF parried
<1>6. Round(parried, lost, {}, {}, {})
  <2>1. Round(Duel!startParryAttempt(s1, Duel!P1, held[Duel!P1]), lost, {}, {}, {})
    BY <1>2, <1>4, ParryStarts
  <2> QED BY <1>2, <1>5, <2>1, ParryStarts
<1>7. s3 = Duel!tryLaunchBreak(Duel!tryLaunchBreak(parried, Duel!P1, held[Duel!P1]), Duel!P2,
      held[Duel!P2]) BY Sole DEF Duel!InTurn
<1> HIDE DEF s3
<1>8. Round(s3, lost, broke, broke, broke)
  <2> DEFINE h == held[Duel!P1]
             t == Duel!tryLaunchBreak(parried, Duel!P1, h)
             b1 == Duel!BreaksLaunch(parried, Duel!P1, h)
             b2 == Duel!BreaksLaunch(parried, Duel!P2, held[Duel!P2])
             E == {}
  <2>0. Round(parried, lost, E, E, E) BY <1>6
  <2> HIDE DEF E, h
  <2>1. /\ b1 => /\ Round(t, lost, E \cup {Duel!P1}, E \cup {Duel!P1}, E \cup {Duel!P1})
                 /\ t.w = parried.w /\ \A q \in Duel!Player : q # Duel!P1 => t.f[q] = parried.f[q]
        /\ ~b1 => t = parried BY <1>2, <2>0, BreakKeeps
  <2>2. t.w = parried.w /\ t.f[Duel!P2] = parried.f[Duel!P2] BY <1>2, <2>1
  <2>3. Duel!BreaksLaunch(t, Duel!P2, held[Duel!P2]) <=> b2 BY <2>2 DEF Duel!BreaksLaunch
  <2>4. (Duel!P1 \in broke <=> b1) /\ (Duel!P2 \in broke <=> b2)
        /\ broke \subseteq {Duel!P1, Duel!P2} BY <1>2 DEF h
  <2>5. s3 = Duel!tryLaunchBreak(t, Duel!P2, held[Duel!P2]) BY <1>7 DEF h
  <2> HIDE DEF t, b1, b2, broke
  <2>6. Round(t, lost, broke \ {Duel!P2}, broke \ {Duel!P2}, broke \ {Duel!P2})
    <3>1. CASE b1
      <4>1. broke \ {Duel!P2} = E \cup {Duel!P1} BY <1>2, <2>4, <3>1 DEF E
      <4> QED BY <2>1, <3>1, <4>1
    <3>2. CASE ~b1
      <4>1. broke \ {Duel!P2} = E BY <2>4, <3>2 DEF E
      <4> QED BY <2>0, <2>1, <3>2, <4>1
    <3> QED BY <3>1, <3>2
  <2> DEFINE B == broke \ {Duel!P2}
  <2>7. (b2 => broke = B \cup {Duel!P2}) /\ (~b2 => broke = B) BY <2>4
  <2>8. Round(t, lost, B, B, B) BY <2>6
  <2> HIDE DEF B
  <2>9. /\ b2 => Round(s3, lost, B \cup {Duel!P2}, B \cup {Duel!P2}, B \cup {Duel!P2})
        /\ ~b2 => s3 = t BY <1>2, <2>3, <2>5, <2>8, BreakKeeps
  <2> QED BY <2>7, <2>8, <2>9
<1> DEFINE half == broke \cup {Duel!P1}
<1>9. /\ (Duel!P1 \in broke => half = broke) /\ (Duel!P2 \in broke => half = Duel!Player)
      /\ (Duel!P2 \notin broke => Duel!P2 \notin half) /\ half \cup {Duel!P2} = Duel!Player BY <1>2
<1> HIDE DEF half
<1>10. s4 = special(special(s3, Duel!P1), Duel!P2) BY Sole DEF Duel!InTurn
<1> HIDE DEF s4, broke
<1>11. Round(s4, lost, Duel!Player, broke, broke)
  <2> DEFINE t == special(s3, Duel!P1)
  <2>1. Round(t, lost, half, broke, broke)
    <3>1. CASE Duel!P1 \in broke BY <1>9, <1>8, <3>1
    <3>2. CASE Duel!P1 \notin broke BY <1>2, <1>8, <3>2, SpecialAdvances DEF half
    <3> QED BY <3>1, <3>2
  <2> HIDE DEF t
  <2>2. s4 = special(t, Duel!P2) BY <1>10 DEF t
  <2>3. CASE Duel!P2 \in broke BY <1>9, <2>1, <2>2, <2>3
  <2>4. CASE Duel!P2 \notin broke
    <3>1. s4 = Duel!advanceSpecialAttempt(t, Duel!P2, g.grasp[Duel!P2]) BY <2>2, <2>4
    <3>2. Round(s4, lost, half \cup {Duel!P2}, broke, broke)
      BY <1>2, <1>9, <2>1, <2>4, <3>1, SpecialAdvances
    <3> QED BY <1>9, <3>2
  <2> QED BY <2>3, <2>4
<1>12. s5 = launch(launch(s4, Duel!P1), Duel!P2) BY Sole DEF Duel!InTurn
<1> HIDE DEF s5, wasActive
<1>13. Round(s5, lost, Duel!Player, Duel!Player, broke)
  <2> DEFINE t == launch(s4, Duel!P1)
  <2>1. Round(t, lost, Duel!Player, half, broke)
    <3>1. CASE Duel!P1 \in broke BY <1>9, <1>11, <3>1
    <3>2. CASE Duel!P1 \notin broke BY <1>2, <1>11, <3>2, LaunchAdvances DEF half
    <3> QED BY <3>1, <3>2
  <2> HIDE DEF t
  <2>2. s5 = launch(t, Duel!P2) BY <1>12 DEF t
  <2>3. CASE Duel!P2 \in broke BY <1>9, <2>1, <2>2, <2>3
  <2>4. CASE Duel!P2 \notin broke
    <3>1. s5 = Duel!advanceLaunchAttempt(t, Duel!P2, wasActive[Duel!Other(Duel!P2)], g.range = "near")
      BY <2>2, <2>4
    <3>2. Round(s5, lost, Duel!Player, half \cup {Duel!P2}, broke)
      BY <1>2, <1>9, <2>1, <2>4, <3>1, LaunchAdvances
    <3> QED BY <1>9, <3>2
  <2> QED BY <2>3, <2>4
<1>14. s6 = dunk(dunk(s5, Duel!P1), Duel!P2) BY Sole DEF Duel!InTurn
<1> HIDE DEF s6
<1>15. Round(s6, lost, Duel!Player, Duel!Player, Duel!Player)
  <2> DEFINE t == dunk(s5, Duel!P1)
  <2>1. Round(t, lost, Duel!Player, Duel!Player, half)
    <3>1. CASE Duel!P1 \in broke BY <1>9, <1>13, <3>1
    <3>2. CASE Duel!P1 \notin broke BY <1>2, <1>13, <3>2, DunkAdvances DEF half
    <3> QED BY <3>1, <3>2
  <2> HIDE DEF t
  <2>2. s6 = dunk(t, Duel!P2) BY <1>14 DEF t
  <2>3. CASE Duel!P2 \in broke BY <1>9, <2>1, <2>2, <2>3
  <2>4. CASE Duel!P2 \notin broke
    <3>1. s6 = Duel!advanceDunkAttempt(t, Duel!P2, g.range # "far") BY <2>2, <2>4
    <3>2. Round(s6, lost, Duel!Player, Duel!Player, half \cup {Duel!P2})
      BY <1>2, <1>9, <2>1, <2>4, <3>1, DunkAdvances
    <3> QED BY <1>9, <3>2
  <2> QED BY <2>3, <2>4
<1>16. Moving(s6, lost)
  <2>1. \A p \in Duel!Player : Turn(p, Duel!Player) = 1 BY DEF Turn
  <2>2. \A p \in Duel!Player : Fit(s6.f[p], 1, 1, 1) BY <1>15, <2>1 DEF Round
  <2>3. \A p \in Duel!Player : Ready(s6.f[p]) BY <2>2, TurnedIsReady
  <2> QED BY <1>15, <2>3 DEF Round, Moving
<1>17. s7 = move(move(s6, Duel!P1), Duel!P2) BY Sole DEF Duel!InTurn
<1> HIDE DEF s7
<1>18. Moving(move(s6, Duel!P1), lost)
  <2>1. Moving(Duel!movement(s6, Duel!P1, held[Duel!P1], g.grasp[Duel!P1]), lost)
    BY <1>2, <1>16, MovementKeeps
  <2> QED BY <1>16, <2>1
<1>19. \A t : Moving(t, lost) => Moving(move(t, Duel!P2), lost)
  <2> TAKE t
  <2> HAVE Moving(t, lost)
  <2>1. Moving(Duel!movement(t, Duel!P2, held[Duel!P2], g.grasp[Duel!P2]), lost) BY <1>2, MovementKeeps
  <2> QED BY <2>1
<1> HIDE DEF move
<1> QED BY <1>1, <1>17, <1>18, <1>19

(* A timer runs down by one frame; a flight ends early only after MinFlight. *)
LEMMA TickedIs ==
    ASSUME NEW x \in Duel!Fighter, NEW slow
    PROVE  LET z == Ticked(x, slow)
           IN  /\ z \in Duel!Fighter
               /\ z.stunned = Duel!Minus(x.stunned, 1) /\ z.recovering = Duel!Minus(x.recovering, 1)
               /\ \/ z.helpless = Duel!Minus(x.helpless, 1)
                  \/ z.helpless = 0 /\ Duel!Minus(x.helpless, 1) <= Helpless - MinFlight
               /\ z.parryStartup = x.parryStartup /\ z.launched = x.launched
               /\ z.superBoost = x.superBoost
               /\ SameSpecial(x, z) /\ SameLaunch(x, z) /\ SameDunk(x, z)
<1> DEFINE a == Duel!Minus(x.stunned, 1)
           b == Duel!Minus(x.helpless, 1)
           c == Duel!Minus(x.parry, 1)
           d == Duel!Minus(x.endLag, 1)
           e == Duel!Minus(x.recovering, 1)
           h == Duel!Minus(x.coolSpecial, 1)
           i == Duel!Minus(x.coolLaunch, 1)
           j == Duel!Minus(x.coolDunk, 1)
           y == [x EXCEPT !.stunned = a, !.helpless = b, !.parry = c, !.endLag = d,
                          !.recovering = e,
                          !.coolSpecial = h, !.coolLaunch = i, !.coolDunk = j]
           v == [y EXCEPT !.helpless = 0]
           z == Ticked(x, slow)
<1>1. \A n \in Nat : Duel!Minus(n, 1) \in Duel!Frames BY DEF Duel!Minus, Duel!Frames
<1>2. /\ a \in Duel!Frames /\ b \in Duel!Frames /\ c \in Duel!Frames /\ d \in Duel!Frames
      /\ e \in Duel!Frames
      /\ h \in Duel!Frames /\ i \in Duel!Frames /\ j \in Duel!Frames BY <1>1, NumbersOf
<1>3. z = IF slow /\ y.helpless <= Helpless - MinFlight THEN v ELSE y BY DEF Ticked
<1> HIDE DEF a, b, c, d, e, h, i, j, z
<1>4. /\ y \in Duel!Fighter /\ y.stunned = a /\ y.helpless = b /\ y.recovering = e
      /\ y.parryStartup = x.parryStartup /\ y.launched = x.launched /\ y.superBoost = x.superBoost
      /\ SameSpecial(x, y) /\ SameLaunch(x, y) /\ SameDunk(x, y)
  BY <1>2 DEF Duel!Fighter, SameSpecial, SameLaunch, SameDunk
<1> HIDE DEF y
<1>5. 0 \in Duel!Frames BY DEF Duel!Frames
<1>6. /\ v \in Duel!Fighter /\ v.stunned = a /\ v.helpless = 0 /\ v.recovering = e
      /\ v.parryStartup = y.parryStartup /\ v.launched = y.launched /\ v.superBoost = y.superBoost
      /\ SameSpecial(y, v) /\ SameLaunch(y, v) /\ SameDunk(y, v)
  BY <1>4, <1>5 DEF Duel!Fighter, SameSpecial, SameLaunch, SameDunk
<1> HIDE DEF v
<1>7. CASE z = v /\ y.helpless <= Helpless - MinFlight
  <2>1. SameSpecial(x, z) /\ SameLaunch(x, z) /\ SameDunk(x, z)
    BY <1>4, <1>6, <1>7 DEF SameSpecial, SameLaunch, SameDunk
  <2> QED BY <1>4, <1>6, <1>7, <2>1 DEF z, a, b, e
<1>8. CASE z = y BY <1>4, <1>8 DEF z, a, b, e
<1> QED BY <1>3, <1>7, <1>8

(* An attack begun in an earlier frame is over by the time a flight can end. *)
LEMMA FlightOutlasts ==
    ASSUME NEW x, Whole(x), x.helpless > 0, NEW startup \in Nat, NEW active \in Nat,
           NEW wind \in Nat,
           wind < MinFlight, Due(x, startup, active, wind, 1),
           x.helpless = 1 \/ x.helpless - 1 <= Helpless - MinFlight
    PROVE  startup = 0 /\ active = 0
<1>1. /\ x.helpless \in Nat /\ x.helpless <= Helpless /\ Helpless \in Nat
      /\ MinFlight \in Nat /\ MinFlight > 1 /\ MinFlight <= Helpless
  BY KitNumbers, NumbersOf DEF Whole
<1>2. Elapsed(x) = Helpless - x.helpless BY DEF Elapsed
<1>3. Elapsed(x) \in Nat /\ Elapsed(x) + 1 >= MinFlight BY <1>1, <1>2
<1>4. ~(startup > 0) BY <1>1, <1>3 DEF Due
<1>5. ~(active > 0) BY <1>1, <1>3 DEF Due, Duel!AtLeast
<1> QED BY <1>4, <1>5

(* A frame of flight goes by. *)
LEMMA DueAges ==
    ASSUME NEW x, Whole(x), x.helpless > 1, NEW startup \in Nat, NEW active \in Nat,
           NEW wind \in Nat,
           Due(x, startup, active, wind, 1), NEW z, z.helpless = x.helpless - 1
    PROVE  Due(z, startup, active, wind, 0)
<1>1. x.helpless \in Nat /\ x.helpless <= Helpless /\ Helpless \in Nat
  BY KitNumbers, NumbersOf DEF Whole
<1>2. Elapsed(x) \in Nat /\ Elapsed(z) = Elapsed(x) + 1 BY <1>1 DEF Elapsed
<1>3. Duel!AtLeast(wind, 1) \in Nat BY DEF Duel!AtLeast
<1> QED BY <1>1, <1>2, <1>3 DEF Due

(* Timers run down: a flight that ends takes no attack with it. *)
LEMMA TickedIsPost ==
    ASSUME NEW x, NEW live, NEW was, Pre(x, live, was), NEW slow
    PROVE  LET z == Ticked(x, slow)
           IN  /\ Post(z, x.helpless > 0 /\ z.helpless = 0, live, was)
               /\ z.helpless > 0 => x.helpless > 0
               /\ z.launched = x.launched
<1> DEFINE z == Ticked(x, slow)
<1>1. x \in Duel!Fighter /\ Whole(x) /\ Credited(x) BY DEF Pre, Whole
<1>2. /\ z \in Duel!Fighter
      /\ z.stunned = Duel!Minus(x.stunned, 1) /\ z.recovering = Duel!Minus(x.recovering, 1)
      /\ \/ z.helpless = Duel!Minus(x.helpless, 1)
         \/ z.helpless = 0 /\ Duel!Minus(x.helpless, 1) <= Helpless - MinFlight
      /\ z.parryStartup = x.parryStartup /\ z.launched = x.launched /\ z.superBoost = x.superBoost
      /\ SameSpecial(x, z) /\ SameLaunch(x, z) /\ SameDunk(x, z) BY <1>1, TickedIs
<1> HIDE DEF z
<1>3. /\ x.stunned \in Nat /\ x.recovering \in Nat /\ x.helpless \in Nat /\ z.helpless \in Nat
      /\ x.specialStartup \in Nat /\ x.specialActive \in Nat
      /\ x.launchStartup \in Nat /\ x.launchActive \in Nat
      /\ x.dunkStartup \in Nat /\ x.dunkActive \in Nat
      /\ Helpless \in Nat /\ x.helpless <= Helpless BY <1>1, <1>2, NumbersOf, KitNumbers DEF Whole
<1>4. /\ (z.stunned > 0 => x.stunned > 0) /\ (z.recovering > 0 => x.recovering > 0)
      /\ (z.helpless > 0 => x.helpless > 0) /\ z.helpless <= Helpless
      /\ (x.stunned = 0 => z.stunned = 0) /\ (x.recovering = 0 => z.recovering = 0)
      /\ (x.helpless = 0 => z.helpless = 0)
      /\ (z.helpless > 0 => x.helpless > 1 /\ z.helpless = x.helpless - 1)
      /\ (x.helpless > 0
         /\ z.helpless = 0 => x.helpless = 1 \/ x.helpless - 1 <= Helpless - MinFlight)
  BY <1>2, <1>3 DEF Duel!Minus
<1>5. (Duel!Launching(z) <=> Duel!Launching(x)) /\ (Duel!Dunking(z) <=> Duel!Dunking(x))
      /\ (Duel!Casting(z) <=> Duel!Casting(x))
  BY <1>2 DEF Duel!Launching, Duel!Dunking, Duel!Casting, SameSpecial, SameLaunch, SameDunk
<1>6. Duel!Attacking(z) <=> Duel!Attacking(x) BY <1>5 DEF Duel!Attacking
<1>7. Duel!WithoutControl(z) => Duel!WithoutControl(x) BY <1>4 DEF Duel!WithoutControl
<1>8. Whole(z) BY <1>1, <1>2, <1>4, <1>5, <1>6, <1>7 DEF Whole
<1>9. z.launched <=> (z.helpless > 0 \/ (x.helpless > 0 /\ z.helpless = 0))
  BY <1>1, <1>2, <1>3, <1>4 DEF Credited
<1>10. /\ SpecialStartup \in Nat /\ LaunchStartup \in Nat /\ DunkStartup \in Nat
       /\ SpecialStartup < MinFlight /\ LaunchStartup < MinFlight /\ DunkStartup < MinFlight
  BY KitNumbers
<1>11. ASSUME live, x.helpless > 0, z.helpless = 0 PROVE ~Duel!Attacking(x)
  <2>1. Timed(x, 1, 1, 1) BY <1>11 DEF Pre
  <2>2. x.specialStartup = 0 /\ x.specialActive = 0
    BY <1>1, <1>3, <1>4, <1>10, <1>11, <2>1, FlightOutlasts DEF Timed
  <2>3. x.launchStartup = 0 /\ x.launchActive = 0
    BY <1>1, <1>3, <1>4, <1>10, <1>11, <2>1, FlightOutlasts DEF Timed
  <2>4. x.dunkStartup = 0 /\ x.dunkActive = 0
    BY <1>1, <1>3, <1>4, <1>10, <1>11, <2>1, FlightOutlasts DEF Timed
  <2> QED BY <2>2, <2>3, <2>4 DEF Duel!Attacking, Duel!Launching, Duel!Dunking, Duel!Casting
<1>12. ASSUME live PROVE Timed(z, 0, 0, 0)
  <2>1. CASE ~(x.helpless > 0)
    <3>1. Timed(x, 0, 0, 0) BY <1>12, <2>1 DEF Pre
    <3>2. Elapsed(x) = 0 /\ Elapsed(z) = 0 /\ ~(z.helpless > 0) BY <1>4, <2>1 DEF Elapsed
    <3> QED BY <1>2, <2>1, <3>1, <3>2 DEF Timed, Due, SameSpecial, SameLaunch, SameDunk
  <2>2. CASE x.helpless > 0 /\ z.helpless > 0
    <3>1. Timed(x, 1, 1, 1) BY <1>12, <2>2 DEF Pre
    <3>2. x.helpless > 1 /\ z.helpless = x.helpless - 1 BY <1>4, <2>2
    <3>3. Due(z, x.specialStartup, x.specialActive, SpecialStartup, 0)
      BY <1>1, <1>3, <1>10, <3>1, <3>2, DueAges DEF Timed
    <3>4. Due(z, x.launchStartup, x.launchActive, LaunchStartup, 0)
      BY <1>1, <1>3, <1>10, <3>1, <3>2, DueAges DEF Timed
    <3>5. Due(z, x.dunkStartup, x.dunkActive, DunkStartup, 0)
      BY <1>1, <1>3, <1>10, <3>1, <3>2, DueAges DEF Timed
    <3> QED BY <1>2, <3>3, <3>4, <3>5 DEF Timed, SameSpecial, SameLaunch, SameDunk
  <2>3. CASE x.helpless > 0 /\ ~(z.helpless > 0)
    <3>1. z.helpless = 0 BY <1>3, <2>3
    <3>2. ~Duel!Attacking(z) BY <1>6, <1>11, <1>12, <2>3, <3>1
    <3> QED BY <1>2, <3>2, IdleIsTimed
  <2> QED BY <2>1, <2>2, <2>3
<1>13. ASSUME live, was, Duel!Attacking(z) PROVE z.helpless > 0
  <2>1. x.helpless > 0 BY <1>6, <1>13 DEF Pre
  <2>2. z.helpless # 0 BY <1>6, <1>11, <1>13, <2>1
  <2> QED BY <1>3, <2>2
<1> QED BY <1>2, <1>4, <1>8, <1>9, <1>12, <1>13 DEF Post, z

(* What a fighter keeps when only its fuel and its dash change. *)
LEMMA StillPost ==
    ASSUME NEW x, NEW r, NEW live, NEW was, Post(x, r, live, was),
           NEW y \in Duel!Fighter, Steady(x, y), y.parryStartup = x.parryStartup,
           y.superBoost => x.superBoost
    PROVE  Post(y, r, live, was)
<1> USE DEF Steady
<1>1. Duel!WithoutControl(y) <=> Duel!WithoutControl(x) BY DEF Duel!WithoutControl
<1>2. (Duel!Launching(y) <=> Duel!Launching(x)) /\ (Duel!Dunking(y) <=> Duel!Dunking(x))
      /\ (Duel!Casting(y) <=> Duel!Casting(x)) BY DEF Duel!Launching, Duel!Dunking, Duel!Casting
<1>3. Duel!Attacking(y) <=> Duel!Attacking(x) BY <1>2 DEF Duel!Attacking
<1>4. Whole(y) BY <1>1, <1>2, <1>3 DEF Post, Whole
<1>5. Timed(x, 0, 0, 0) => Timed(y, 0, 0, 0) BY DEF Timed, Due, Elapsed
<1> QED BY <1>3, <1>4, <1>5 DEF Post

(* What a fighter keeps when its attacks end. *)
LEMMA QuietPost ==
    ASSUME NEW x, NEW r, NEW live, NEW was, Post(x, r, live, was),
           NEW y \in Duel!Fighter, ~Duel!Attacking(y), y.helpless = x.helpless,
           y.launched = x.launched,
           y.superBoost => x.superBoost /\ y.stunned = x.stunned /\ y.recovering = x.recovering
    PROVE  Post(y, r, live, was)
<1>1. y.superBoost => ~Duel!WithoutControl(y) BY DEF Post, Whole, Duel!WithoutControl
<1>2. Whole(y) BY <1>1 DEF Post, Whole, Duel!Attacking
<1>3. Timed(y, 0, 0, 0) BY IdleIsTimed
<1> QED BY <1>2, <1>3 DEF Post

(* The end of a Super Boost. *)
LEMMA FinishIsPost ==
    ASSUME NEW x, NEW r, NEW live, NEW was, Post(x, r, live, was)
    PROVE  LET y == Duel!finishSuperBoost(x)
           IN  Post(y, r, live, was) /\ y.helpless = x.helpless /\ y.superBoost = FALSE
<1> DEFINE y == Duel!finishSuperBoost(x)
<1>1. x \in Duel!Fighter BY DEF Post, Whole
<1>2. y \in Duel!Fighter /\ Alike(x, y) /\ y.superBoost = FALSE BY <1>1, FinishFits
<1> HIDE DEF y
<1>3. Steady(x, y) /\ y.parryStartup = x.parryStartup BY <1>2 DEF Alike, Steady
<1>4. Post(y, r, live, was) /\ y.helpless = x.helpless BY <1>2, <1>3, StillPost DEF Alike
<1> QED BY <1>2, <1>4 DEF y

(* A unit of fuel spent. *)
LEMMA SpendIsPost ==
    ASSUME NEW x, NEW r, NEW live, NEW was, Post(x, r, live, was)
    PROVE  LET y == Duel!Spend(x, 1)
           IN  Post(y, r, live, was) /\ y.helpless = x.helpless
<1> DEFINE y == Duel!Spend(x, 1)
<1>1. x \in Duel!Fighter BY DEF Post, Whole
<1>2. y \in Duel!Fighter /\ Alike(x, y) /\ y.superBoost = x.superBoost
  BY <1>1, SpendFits, SpendIsAlike
<1> HIDE DEF y
<1>3. Steady(x, y) /\ y.parryStartup = x.parryStartup BY <1>2 DEF Alike, Steady
<1>4. Post(y, r, live, was) /\ y.helpless = x.helpless BY <1>2, <1>3, StillPost DEF Alike
<1> QED BY <1>4 DEF y

(* All attacks end. *)
LEMMA ClearIsPost ==
    ASSUME NEW x, NEW r, NEW live, NEW was, Post(x, r, live, was)
    PROVE  LET y == Duel!ClearAttempts(x)
           IN  Post(y, r, live, was) /\ y.helpless = x.helpless
<1> DEFINE y == Duel!ClearAttempts(x)
<1>1. x \in Duel!Fighter BY DEF Post, Whole
<1>2. /\ y \in Duel!Fighter /\ ~Duel!Attacking(y)
      /\ y.stunned = x.stunned /\ y.helpless = x.helpless /\ y.recovering = x.recovering
      /\ y.launched = x.launched /\ y.superBoost = x.superBoost BY <1>1, ClearFits
<1> HIDE DEF y
<1>3. Post(y, r, live, was) BY <1>2, QuietPost
<1> QED BY <1>2, <1>3 DEF y

(* A stun. *)
LEMMA StunnedIsPost ==
    ASSUME NEW x, NEW r, NEW live, NEW was, Post(x, r, live, was), NEW n \in Nat
    PROVE  LET y == Duel!setStunned(x, n)
           IN  Post(y, r, live, was) /\ y.helpless = x.helpless
<1> DEFINE y == Duel!setStunned(x, n)
<1>1. x \in Duel!Fighter BY DEF Post, Whole
<1>2. y \in Duel!Fighter /\ ~Duel!Attacking(y) /\ ~y.superBoost /\ y.helpless = x.helpless
      /\ y.launched = x.launched BY <1>1, StunnedFits
<1> HIDE DEF y
<1>3. Post(y, r, live, was) BY <1>2, QuietPost
<1> QED BY <1>2, <1>3 DEF y

(* A throw into recovery. *)
LEMMA ThrownIsPost ==
    ASSUME NEW t \in Duel!Fighter, t.superBoost = FALSE, NEW live, NEW was
    PROVE  LET y == Thrown(t)
           IN  Post(y, FALSE, live, was) /\ y.helpless = 0 /\ y.launched = FALSE
<1> DEFINE y == Thrown(t)
<1>1. Fit(y, 0, 0, 0) /\ y.helpless = 0 /\ ~Duel!Attacking(y) /\ y.launched = FALSE BY ThrownIsFit
<1> HIDE DEF y
<1>2. Post(y, FALSE, live, was) BY <1>1 DEF Post, Fit
<1> QED BY <1>1, <1>2 DEF y

(* All attacks end, before the timers have run down. *)
LEMMA ClearIsPre ==
    ASSUME NEW x, NEW live, NEW was, Pre(x, live, was)
    PROVE  LET y == Duel!ClearAttempts(x)
           IN  Pre(y, live, was) /\ y.helpless = x.helpless
<1> DEFINE y == Duel!ClearAttempts(x)
<1>1. x \in Duel!Fighter /\ Whole(x) /\ Credited(x) BY DEF Pre, Whole
<1>2. /\ y \in Duel!Fighter /\ ~Duel!Attacking(y) BY <1>1, ClearFits
<1>3. Fit(y, 0, 0, 0) /\ y.helpless = x.helpless BY <1>1, ClearIsFit
<1> HIDE DEF y
<1>4. Timed(y, 0, 0, 0) /\ Timed(y, 1, 1, 1) BY <1>2, IdleIsTimed
<1>5. Pre(y, live, was) BY <1>2, <1>3, <1>4 DEF Pre, Fit
<1> QED BY <1>3, <1>5 DEF y

(* Timers run down. *)
LEMMA MovingCloses ==
    ASSUME NEW lost \in SUBSET Duel!Player, NEW s, Moving(s, lost)
    PROVE  Closing(s, lost, TRUE, {})
<1>1. ASSUME NEW p \in Duel!Player PROVE Pre(s.f[p], TRUE, p \in lost)
  <2> DEFINE x == s.f[p]
  <2>1. Ready(x) /\ (p \in lost => Duel!WithoutControl(x)) BY DEF Moving
  <2> HIDE DEF x
  <2>2. p \in lost /\ Duel!Attacking(x) => x.helpless > 0
    BY <2>1, NumbersOf DEF Ready, Whole, Duel!WithoutControl
  <2>3. Pre(x, TRUE, p \in lost) BY <2>1, <2>2 DEF Ready, Pre
  <2> QED BY <2>3 DEF x
<1> QED BY <1>1 DEF Moving, Closing

(* A turn in which p's timers run down: p is y after it, and returned to    *)
(* control if back; the opponent has kept its record or lost its attacks.   *)
LEMMA Closes ==
    ASSUME NEW lost \in SUBSET Duel!Player, NEW live, NEW U, NEW s, Closing(s, lost, live, U),
           NEW p \in Duel!Player, p \notin U, NEW u \in Frame, NEW back \in BOOLEAN,
           Post(u.f[p], back, live, p \in lost), u.f[p].helpless > 0 => s.f[p].helpless > 0,
           u.f[Duel!Other(p)] = s.f[Duel!Other(p)] \/ u.f[Duel!Other(p)] = Duel!ClearAttempts(s.f[Duel!Other(p)]),
           u.w # s.w => u.w # Duel!Nobody, u.connected = s.connected,
           u.returned = s.returned \cup {a \in {p} : back}
    PROVE  Closing(u, lost, live, U \cup {p})
<1> DEFINE q == Duel!Other(p)
<1>1. q \in Duel!Player /\ q # p /\ \A a \in Duel!Player : a = p \/ a = q BY Two
<1>2. u.f[q] = s.f[q] \/ u.f[q] = Duel!ClearAttempts(s.f[q]) OBVIOUS
<1> HIDE DEF q
<1>3. p \in u.returned <=> back BY DEF Closing
<1>4. q \in u.returned <=> q \in s.returned BY <1>1
<1>5. q \notin U => Pre(u.f[q], live, q \in lost) BY <1>1, <1>2, ClearIsPre DEF Closing
<1>6. q \in U => Post(u.f[q], q \in u.returned, live, q \in lost)
  BY <1>1, <1>2, <1>4, ClearIsPost DEF Closing
<1>7. u.f[q].helpless = s.f[q].helpless BY <1>1, <1>2, ClearIsPre, ClearIsPost DEF Closing
<1>8. ~ (u.f[Duel!P1].helpless > 0 /\ u.f[Duel!P2].helpless > 0) BY <1>1, <1>7, Two DEF Closing
<1>9. Post(u.f[p], p \in u.returned, live, p \in lost) BY <1>3
<1>10. u.returned \subseteq U \cup {p} BY DEF Closing
<1>11. \A a \in Duel!Player : a \notin U \cup {p} => Pre(u.f[a], live, a \in lost) BY <1>1, <1>5
<1>12. \A a \in Duel!Player : a \in U \cup {p} => Post(u.f[a], a \in u.returned, live, a \in lost)
  BY <1>1, <1>6, <1>9
<1>13. live \/ u.w # Duel!Nobody BY DEF Closing
<1>14. \A a \in lost : a \notin u.connected BY DEF Closing
<1> QED BY <1>8, <1>10, <1>11, <1>12, <1>13, <1>14 DEF Closing

(* Noting who is back changes no fighter. *)
LEMMA ReturnedIs ==
    ASSUME NEW s \in Frame, NEW R \in SUBSET Duel!Player
    PROVE  LET t == [s EXCEPT !.returned = R]
           IN  /\ t \in Frame /\ t.f = s.f /\ t.w = s.w /\ t.connected = s.connected
              /\ t.returned = R BY DEF Frame

(* The timers of one fighter run down, and the well may capture it (updatePlayer). *)
LEMMA UpdateCloses ==
    ASSUME NEW lost \in SUBSET Duel!Player, NEW live, NEW U, NEW s, Closing(s, lost, live, U),
           NEW p \in Duel!Player, p \notin U, NEW slow, NEW core
    PROVE  Closing(Duel!updatePlayer(s, p, slow, core), lost, live, U \cup {p})
<1> DEFINE x == s.f[p]
           q == Duel!Other(p)
           z == Ticked(x, slow)
           t == Duel!Set(s, p, z)
           capture == Well /\ core /\ t.w = Duel!Nobody /\ z.helpless > 0 /\ z.recovering = 0
           /\ z.launched
           u == IF capture THEN Duel!startDunkRecovery(t, q) ELSE t
           R == IF u.f[p].launched THEN u.returned \cup {p} ELSE u.returned
           v == IF x.helpless > 0 /\ u.f[p].helpless = 0 THEN [u EXCEPT !.returned = R] ELSE u
           was == p \in lost
           over == x.helpless > 0 /\ z.helpless = 0
<1>1. Duel!updatePlayer(s, p, slow, core) = v BY DEF Duel!updatePlayer, Ticked
<1>2. q \in Duel!Player /\ q # p /\ Duel!Other(q) = p BY Two
<1>3. s \in Frame /\ Pre(x, live, was) /\ x \in Duel!Fighter BY DEF Closing, Pre, Whole
<1>4. /\ Post(z, over, live, was) /\ (z.helpless > 0 => x.helpless > 0) /\ z.launched = x.launched
  BY <1>3, TickedIsPost
<1>5. z \in Duel!Fighter BY <1>4 DEF Post, Whole
<1>6. x.helpless \in Nat /\ z.helpless \in Nat BY <1>3, <1>5, NumbersOf
<1>7. Became(s, t, p, z) BY <1>3, <1>5, SetIs
<1>70. t \in Frame /\ t.f[p] = z /\ t.f[q] = s.f[q] /\ t.w = s.w /\ t.connected = s.connected
       /\ t.returned = s.returned BY <1>2, <1>7 DEF Became
<1>8. p \notin s.returned /\ s.returned \subseteq Duel!Player BY <1>3 DEF Closing, Frame
<1> HIDE DEF z, t
<1>9. CASE ~capture
  <2>1. u = t BY <1>9
  <2> HIDE DEF u
  <2>2. CASE over
    <3>1. t.f[p].launched BY <1>4, <1>70, <2>2 DEF Post
    <3>2. R = s.returned \cup {p} BY <1>70, <2>1, <3>1
    <3> HIDE DEF R
    <3>3. R \in SUBSET Duel!Player BY <1>8, <3>2
    <3>4. v = [t EXCEPT !.returned = R] BY <1>70, <2>1, <2>2
    <3> HIDE DEF v
    <3>5. v \in Frame /\ v.f = t.f /\ v.w = t.w /\ v.connected = t.connected /\ v.returned = R
      BY <1>70, <3>3, <3>4, ReturnedIs
    <3>6. v.returned = s.returned \cup {a \in {p} : over} BY <2>2, <3>2, <3>5
    <3>7. v.f[p] = z /\ v.f[q] = s.f[q] /\ v.w = s.w /\ v.connected = s.connected BY <1>70, <3>5
    <3>8. Post(v.f[p], over, live, was) /\ (v.f[p].helpless > 0 => s.f[p].helpless > 0)
      BY <1>4, <3>7
    <3> HIDE DEF over, x
    <3>9. (over <=> TRUE) /\ TRUE \in BOOLEAN BY <2>2
    <3>10. Post(v.f[p], TRUE, live, p \in lost) /\ v.returned = s.returned \cup {a \in {p} : TRUE}
      BY <2>2, <3>2, <3>5, <1>4, <3>7 DEF over, Post
    <3>11. Closing(v, lost, live, U \cup {p}) BY <3>5, <3>7, <3>8, <3>9, <3>10, Closes
    <3> QED BY <1>1, <3>11
  <2>3. CASE ~over
    <3>1. ~(x.helpless > 0 /\ z.helpless = 0) BY <2>3
    <3>2. v = t BY <1>70, <2>1, <3>1
    <3> HIDE DEF v
    <3>3. Post(t.f[p], FALSE, live, p \in lost) /\ t.returned = s.returned \cup {a \in {p} : FALSE}
      BY <1>4, <1>70, <2>3 DEF Post
    <3>4. t.f[p].helpless > 0 => s.f[p].helpless > 0 BY <1>4, <1>70
    <3>5. Closing(t, lost, live, U \cup {p}) BY <1>70, <3>3, <3>4, Closes
    <3> QED BY <1>1, <3>2, <3>5
  <2> QED BY <2>2, <2>3
<1>10. CASE capture
  <2> DEFINE y == Duel!finishSuperBoost(z)
             a == Duel!ClearAttempts(t.f[q])
             d == Thrown(y)
             m == Duel!Set(t, p, y)
             n == [m EXCEPT !.w = q]
             b == Duel!Set(t, p, d)
             e == Duel!Set(b, q, a)
  <2>1. u = Duel!startDunkRecovery(t, q) BY <1>10
  <2> HIDE DEF u
  <2>2. x.helpless > 0 /\ z.helpless > 0 /\ ~over BY <1>4, <1>10
  <2>3. Post(z, FALSE, live, was) BY <1>4, <2>2 DEF Post
  <2>4. Post(y, FALSE, live, was) /\ y.helpless = z.helpless /\ y.superBoost = FALSE
    BY <2>3, FinishIsPost
  <2>5. y \in Duel!Fighter BY <2>4 DEF Post, Whole
  <2>6. u = n \/ u = e BY <1>2, <1>70, <2>1, RecoveryIs
  <2> HIDE DEF y, capture
  <2>7. CASE u = n
    <3>1. Became(t, m, p, y) BY <1>70, <2>5, SetIs
    <3>2. m \in Frame /\ m.f[p] = y /\ m.f[q] = s.f[q] /\ m.connected = s.connected
          /\ m.returned = s.returned BY <1>2, <1>70, <3>1 DEF Became
    <3> HIDE DEF m
    <3>3. n \in Frame /\ n.f = m.f /\ n.w = q /\ n.connected = m.connected
          /\ n.returned = m.returned BY <1>2, <3>2, WinnerIs
    <3> HIDE DEF n
    <3>4. n.f[p] = y /\ n.f[q] = s.f[q] /\ n.connected = s.connected /\ n.returned = s.returned
          /\ n.w # Duel!Nobody BY <1>2, <3>2, <3>3 DEF Duel!Player, Duel!P1, Duel!P2, Duel!Nobody
    <3>5. ~(u.f[p].helpless = 0) BY <2>2, <2>4, <2>7, <3>4
    <3>6. v = n BY <2>7, <3>5
    <3> HIDE DEF v, R
    <3>7. Post(n.f[p], FALSE, live, p \in lost) /\ n.returned = s.returned \cup {h \in {p} : FALSE}
      BY <2>4, <3>4
    <3>8. n.f[p].helpless > 0 => s.f[p].helpless > 0 BY <2>2
    <3>9. Closing(n, lost, live, U \cup {p}) BY <3>3, <3>4, <3>7, <3>8, Closes
    <3> QED BY <1>1, <3>6, <3>9
  <2>8. CASE u = e
    <3>1. Post(d, FALSE, live, was) /\ d.helpless = 0 /\ d.launched = FALSE
      BY <2>4, <2>5, ThrownIsPost
    <3>2. d \in Duel!Fighter BY <3>1 DEF Post, Whole
    <3> HIDE DEF d
    <3>3. Became(t, b, p, d) BY <1>70, <3>2, SetIs
    <3>4. b \in Frame /\ b.f[p] = d /\ b.w = s.w /\ b.connected = s.connected
          /\ b.returned = s.returned BY <1>70, <3>3 DEF Became
    <3> HIDE DEF b
    <3>5. t.f[q] \in Duel!Fighter BY <1>2, <1>70 DEF Frame
    <3>6. a \in Duel!Fighter /\ a = Duel!ClearAttempts(s.f[q]) BY <1>70, <3>5, ClearFits
    <3> HIDE DEF a
    <3>7. Became(b, e, q, a) BY <1>2, <3>4, <3>6, SetIs
    <3>8. e \in Frame /\ e.f[q] = a /\ e.f[p] = d /\ e.w = s.w /\ e.connected = s.connected
          /\ e.returned = s.returned BY <1>2, <3>4, <3>7 DEF Became
    <3> HIDE DEF e
    <3>9. R = s.returned BY <2>8, <3>1, <3>8
    <3> HIDE DEF R
    <3>10. v = [e EXCEPT !.returned = s.returned] BY <2>2, <2>8, <3>1, <3>8, <3>9
    <3> HIDE DEF v
    <3>11. v \in Frame /\ v.f = e.f /\ v.w = e.w /\ v.connected = e.connected
           /\ v.returned = s.returned BY <1>8, <3>8, <3>10, ReturnedIs
    <3>12. Post(v.f[p], FALSE, live, p \in lost) /\ v.returned = s.returned \cup {h \in {p} : FALSE}
      BY <3>1, <3>8, <3>11
    <3>13. (v.f[p].helpless > 0 => s.f[p].helpless > 0) /\ v.f[q] = Duel!ClearAttempts(s.f[q])
           /\ v.w = s.w /\ v.connected = s.connected BY <2>2, <3>6, <3>8, <3>11
    <3>14. Closing(v, lost, live, U \cup {p}) BY <3>11, <3>12, <3>13, Closes
    <3> QED BY <1>1, <3>14
  <2> QED BY <2>6, <2>7, <2>8
<1> QED BY <1>9, <1>10

(* Whoever is back in control has no launcher any more. *)
LEMMA CreditIs ==
    ASSUME NEW x, NEW r \in BOOLEAN, NEW live, NEW was, Post(x, r, live, was)
    PROVE  LET y == [x EXCEPT !.launched = x.launched /\ ~r]
           IN  y \in Duel!Fighter /\ Post(y, FALSE, live, was) /\ y.helpless = x.helpless
<1> DEFINE b == x.launched /\ ~r
           y == [x EXCEPT !.launched = b]
<1>1. x \in Duel!Fighter BY DEF Post, Whole
<1>2. b \in BOOLEAN OBVIOUS
<1>20. b <=> x.launched /\ ~r OBVIOUS
<1> HIDE DEF b
<1>3. /\ y \in Duel!Fighter /\ (y.launched <=> b) /\ y.superBoost = x.superBoost
         /\ y.parryStartup = x.parryStartup
      /\ y.stunned = x.stunned /\ y.helpless = x.helpless /\ y.recovering = x.recovering
      /\ SameSpecial(x, y) /\ SameLaunch(x, y) /\ SameDunk(x, y)
  BY <1>1, <1>2 DEF Duel!Fighter, SameSpecial, SameLaunch, SameDunk
<1> HIDE DEF y
<1>4. Duel!WithoutControl(y) <=> Duel!WithoutControl(x) BY <1>3 DEF Duel!WithoutControl
<1>5. (Duel!Launching(y) <=> Duel!Launching(x)) /\ (Duel!Dunking(y) <=> Duel!Dunking(x))
      /\ (Duel!Casting(y) <=> Duel!Casting(x))
  BY <1>3 DEF Duel!Launching, Duel!Dunking, Duel!Casting, SameSpecial, SameLaunch, SameDunk
<1>6. Duel!Attacking(y) <=> Duel!Attacking(x) BY <1>5 DEF Duel!Attacking
<1>7. Whole(y) BY <1>3, <1>4, <1>5, <1>6 DEF Post, Whole
<1>8. Timed(x, 0, 0, 0) => Timed(y, 0, 0, 0)
  BY <1>3 DEF Timed, Due, Elapsed, SameSpecial, SameLaunch, SameDunk
<1>9. x.helpless \in Nat BY <1>1, NumbersOf
<1>10. y.launched <=> (y.helpless > 0 \/ FALSE) BY <1>3, <1>9, <1>20 DEF Post
<1>11. Post(y, FALSE, live, was) BY <1>3, <1>6, <1>7, <1>8, <1>10 DEF Post
<1> QED BY <1>3, <1>11 DEF y, b

(* Replacing both fighters of a frame leaves the rest of it alone. *)
LEMMA FightersIs ==
    ASSUME NEW s \in Frame, NEW g \in [Duel!Player -> Duel!Fighter]
    PROVE  LET t == [s EXCEPT !.f = g]
           IN  /\ t \in Frame /\ t.f = g /\ t.w = s.w /\ t.connected = s.connected
              /\ t.shots = s.shots BY DEF Frame

(* Launchers are forgotten (resolveNaturalControlReturns). *)
LEMMA Lands ==
    ASSUME NEW lost \in SUBSET Duel!Player, NEW live, NEW s, Closing(s, lost, live, Duel!Player)
    PROVE  Landed(Duel!resolveNaturalControlReturns(s), lost, live)
<1> DEFINE g == [p \in Duel!Player |-> [s.f[p] EXCEPT !.launched = s.f[p].launched
    /\ p \notin s.returned]]
           t == [s EXCEPT !.f = g]
<1>1. Duel!resolveNaturalControlReturns(s) = t BY DEF Duel!resolveNaturalControlReturns
<1>2. \A p \in Duel!Player : Post(s.f[p], p \in s.returned, live, p \in lost) BY DEF Closing
<1>3. ASSUME NEW p \in Duel!Player
      PROVE  g[p] \in Duel!Fighter /\ Post(g[p], FALSE, live, p \in lost)
            /\ g[p].helpless = s.f[p].helpless
  <2> DEFINE x == s.f[p]
             r == p \in s.returned
             y == [x EXCEPT !.launched = x.launched /\ ~r]
  <2>1. g[p] = y OBVIOUS
  <2>2. Post(x, r, live, p \in lost) /\ r \in BOOLEAN BY <1>2
  <2> HIDE DEF r, g
  <2>3. y \in Duel!Fighter /\ Post(y, FALSE, live, p \in lost) /\ y.helpless = x.helpless
    BY <2>2, CreditIs
  <2> QED BY <2>1, <2>3
<1>4. g \in [Duel!Player -> Duel!Fighter] BY <1>3
<1> HIDE DEF g
<1>5. s \in Frame BY DEF Closing
<1>6. t \in Frame /\ t.f = g /\ t.w = s.w /\ t.connected = s.connected BY <1>4, <1>5, FightersIs
<1> HIDE DEF t
<1>7. ~ (t.f[Duel!P1].helpless > 0 /\ t.f[Duel!P2].helpless > 0) BY <1>3, <1>6, Two DEF Closing
<1>8. Landed(t, lost, live) BY <1>3, <1>6, <1>7 DEF Closing, Landed
<1> QED BY <1>1, <1>8

-----------------------------------------------------------------------------
(* Projectiles. *)
LEMMA LandedTurn ==
    ASSUME NEW lost, NEW live, NEW s, Landed(s, lost, live), NEW p \in Duel!Player, NEW y,
           Post(y, FALSE, live, p \in lost), y.helpless = s.f[p].helpless
    PROVE  Landed(Duel!Set(s, p, y), lost, live)
<1> DEFINE t == Duel!Set(s, p, y)
<1>1. s \in Frame /\ y \in Duel!Fighter BY DEF Landed, Post, Whole
<1>2. Became(s, t, p, y) BY <1>1, SetIs
<1> HIDE DEF t
<1> USE <1>2 DEF Became
<1>3. \A a \in Duel!Player : t.f[a].helpless = s.f[a].helpless OBVIOUS
<1>4. ~ (t.f[Duel!P1].helpless > 0 /\ t.f[Duel!P2].helpless > 0) BY <1>3, Two DEF Landed
<1>5. \A a \in Duel!Player : Post(t.f[a], FALSE, live, a \in lost) BY DEF Landed
<1>6. Landed(t, lost, live) BY <1>4, <1>5 DEF Landed
<1> QED BY <1>6 DEF t

(* A projectile is gone. *)
LEMMA LandedShots ==
    ASSUME NEW lost, NEW live, NEW s, Landed(s, lost, live), NEW p \in Duel!Player, s.shots[p] > 0
    PROVE  Landed([s EXCEPT !.shots[p] = s.shots[p] - 1], lost, live)
<1> DEFINE n == s.shots[p] - 1
           h == [s.shots EXCEPT ![p] = n]
           t == [s EXCEPT !.shots = h]
<1>1. s \in Frame BY DEF Landed
<1>2. s.shots \in [Duel!Player -> Nat] BY <1>1 DEF Frame
<1>3. s.shots[p] \in Nat BY <1>2
<1>4. n \in Nat BY <1>3
<1> HIDE DEF n
<1>5. h \in [Duel!Player -> Nat] BY <1>2, <1>4
<1> HIDE DEF h
<1>6. t \in Frame /\ t.f = s.f /\ t.w = s.w /\ t.connected = s.connected BY <1>1, <1>5 DEF Frame
<1>7. [s EXCEPT !.shots[p] = s.shots[p] - 1] = t BY DEF h, n
<1> HIDE DEF t
<1>8. Landed(t, lost, live) BY <1>6 DEF Landed
<1> QED BY <1>7, <1>8

(* Replacing a fighter leaves the projectiles alone. *)
LEMMA SetShots ==
    ASSUME NEW s \in Frame, NEW p \in Duel!Player, NEW y
    PROVE  Duel!Set(s, p, y).shots = s.shots BY DEF Duel!Set, Frame

(* A projectile flies on, hits or is gone (updateProjectiles). *)
LEMMA Flies ==
    ASSUME NEW lost, NEW live, NEW s, Landed(s, lost, live), NEW p \in Duel!Player, NEW outcome
    PROVE  outcome \in {"flies", "hits", "gone"} => Landed(Duel!updateProjectiles(s, p, outcome),
          lost, live)
<1> HAVE outcome \in {"flies", "hits", "gone"}
<1> DEFINE q == Duel!Other(p)
           other == s.f[q]
           hit == Duel!setStunned(other, ShotStun)
           y == IF hit.helpless = 0 THEN Duel!Spend(hit, 1) ELSE hit
           u == Duel!Set(s, q, y)
           t == Duel!updateProjectiles(s, p, outcome)
           a == s.shots[p] = 0 \/ outcome = "flies"
           b == s.shots[p] > 0 /\ outcome = "hits" /\ other.parry = 0
           c == s.shots[p] > 0 /\ outcome = "hits" /\ other.parry > 0
           d == s.shots[p] > 0 /\ outcome = "gone"
           gone == [s EXCEPT !.shots[p] = s.shots[p] - 1]
           struck == [u EXCEPT !.shots[p] = u.shots[p] - 1]
<1>1. q \in Duel!Player BY Two
<1> HIDE DEF q
<1>2. s \in Frame /\ Post(other, FALSE, live, q \in lost) /\ other \in Duel!Fighter
  BY <1>1 DEF Landed, Post, Whole
<1>3. s.shots[p] \in Nat /\ other.parry \in Nat BY <1>2, NumbersOf DEF Frame
<1>4. t = CASE a -> s [] b -> struck [] c -> s [] d -> gone BY DEF Duel!updateProjectiles, q
<1>40. ~(a /\ b) /\ ~(a /\ c) /\ ~(a /\ d) /\ ~(b /\ c) /\ ~(b /\ d) /\ ~(c /\ d) BY <1>3
<1>41. a \/ b \/ c \/ d BY <1>3
<1> HIDE DEF t
<1>5. (a => t = s) /\ (b => t = struck) /\ (c => t = s) /\ (d => t = gone) /\ (a \/ b \/ c \/ d)
  <2> HIDE DEF a, b, c, d, struck, gone
  <2> QED BY <1>4, <1>40, <1>41
<1>6. CASE d
  <2>1. Landed(gone, lost, live) BY <1>6, LandedShots
  <2> QED BY <1>5, <1>6, <2>1 DEF t
<1>7. CASE b
  <2>1. Post(hit, FALSE, live, q \in lost) /\ hit.helpless = other.helpless
    BY <1>2, KitNumbers, StunnedIsPost
  <2> HIDE DEF hit
  <2>2. Post(y, FALSE, live, q \in lost) /\ y.helpless = other.helpless BY <2>1, SpendIsPost
  <2> HIDE DEF y
  <2>3. Landed(u, lost, live) BY <1>1, <2>2, LandedTurn
  <2>4. u.shots = s.shots BY <1>1, <1>2, SetShots
  <2> HIDE DEF u
  <2>5. Landed(struck, lost, live) BY <1>7, <2>3, <2>4, LandedShots
  <2> QED BY <1>5, <1>7, <2>5 DEF t
<1> QED BY <1>5, <1>6, <1>7 DEF t

(* Once the round is decided no dash goes on. *)
LEMMA Settles ==
    ASSUME NEW lost, NEW live, NEW s, Landed(s, lost, live)
    PROVE  LET t == Duel!settle(s)
           IN  Landed(t, lost, live)
              /\ \A p \in Duel!Player : t.f[p].superBoost => t.w = Duel!Nobody
<1> DEFINE g == [p \in Duel!Player |-> Duel!finishSuperBoost(s.f[p])]
           t == [s EXCEPT !.f = g]
<1>1. CASE s.w = Duel!Nobody
  <2>1. Duel!settle(s) = s BY <1>1 DEF Duel!settle
  <2> QED BY <1>1, <2>1
<1>2. CASE s.w # Duel!Nobody
  <2>1. Duel!settle(s) = t BY <1>2 DEF Duel!settle
  <2>2. \A p \in Duel!Player : /\ Post(g[p], FALSE, live, p \in lost)
        /\ g[p].helpless = s.f[p].helpless
                               /\ g[p].superBoost = FALSE BY FinishIsPost DEF Landed
  <2>3. \A p \in Duel!Player : g[p] \in Duel!Fighter BY <2>2 DEF Post, Whole
  <2>4. g \in [Duel!Player -> Duel!Fighter] BY <2>3
  <2> HIDE DEF g
  <2>5. s \in Frame BY DEF Landed
  <2>6. t \in Frame /\ t.f = g /\ t.w = s.w /\ t.connected = s.connected BY <2>4, <2>5, FightersIs
  <2> HIDE DEF t
  <2>7. ~ (t.f[Duel!P1].helpless > 0 /\ t.f[Duel!P2].helpless > 0) BY <2>2, <2>6, Two DEF Landed
  <2>8. Landed(t, lost, live) BY <2>2, <2>6, <2>7 DEF Landed
  <2> QED BY <2>1, <2>2, <2>6, <2>8
<1> QED BY <1>1, <1>2

(* What a frame starts from. *)
LEMMA RunningIs ==
    ASSUME NEW f \in [Duel!Player -> Duel!Fighter], NEW w \in Duel!Player \cup {Duel!Nobody},
           NEW sh \in [Duel!Player -> 0..MaxShots]
    PROVE  LET s == Duel!Running(f, w, sh)
           IN  /\ s \in Frame /\ s.f = f /\ s.w = w /\ s.shots = sh
               /\ s.connected = {} /\ s.returned = {}
<1>1. sh \in [Duel!Player -> Nat] OBVIOUS
<1> QED BY <1>1 DEF Duel!Running, Frame

(* From one frame to the end of its locomotion, in a round decided or not. *)
LEMMA FightBegins ==
    ASSUME NEW f, NEW w, NEW sh, NEW st, Between(f, w, sh, st), NEW held, NEW g
    PROVE  LET s == Duel!Running(f, w, sh)
               lost == {p \in Duel!Player : f[p].tainted}
               fought == IF s.w = Duel!Nobody THEN Duel!Fought(s, held, g) ELSE s
           IN  Closing(fought, lost, w = Duel!Nobody, {})
<1> DEFINE s == Duel!Running(f, w, sh)
           lost == {p \in Duel!Player : f[p].tainted}
           fought == IF s.w = Duel!Nobody THEN Duel!Fought(s, held, g) ELSE s
<1>1. f \in [Duel!Player -> Duel!Fighter] /\ w \in Duel!Player \cup {Duel!Nobody}
      /\ sh \in [Duel!Player -> 0..MaxShots] BY DEF Between
<1>2. s \in Frame /\ s.f = f /\ s.w = w /\ s.connected = {} /\ s.returned = {} BY <1>1, RunningIs
<1>3. lost \in SUBSET Duel!Player /\ \A p \in lost : p \in Duel!Player /\ f[p].tainted OBVIOUS
<1> HIDE DEF s, lost
<1>4. CASE w = Duel!Nobody
  <2>1. \A p \in Duel!Player : Turn(p, {}) = 0 BY DEF Turn
  <2>2. \A p \in Duel!Player : Fit(f[p], 0, 0, 0) BY <1>4 DEF Between, Fit
  <2>3. \A p \in lost : Duel!WithoutControl(f[p]) BY <1>3, <1>4 DEF Between, Duel!WithoutControl
  <2>4. Round(s, lost, {}, {}, {}) BY <1>2, <2>1, <2>2, <2>3 DEF Between, Round
  <2>5. Moving(Duel!Fought(s, held, g), lost) BY <1>3, <2>4, FoughtKeeps
  <2>6. Closing(Duel!Fought(s, held, g), lost, TRUE, {}) BY <1>3, <2>5, MovingCloses
  <2>7. fought = Duel!Fought(s, held, g) /\ (w = Duel!Nobody) = TRUE BY <1>2, <1>4
  <2> QED BY <2>6, <2>7 DEF s, lost
<1>5. CASE w # Duel!Nobody
  <2>1. fought = s /\ (w = Duel!Nobody) = FALSE BY <1>2, <1>5
  <2>2. \A p \in Duel!Player : Pre(s.f[p], FALSE, p \in lost) BY <1>2 DEF Between, Pre
  <2>3. Closing(s, lost, FALSE, {}) BY <1>2, <1>5, <2>2 DEF Between, Closing
  <2> QED BY <2>1, <2>3 DEF s, lost
<1> QED BY <1>4, <1>5

(* A whole frame (step). *)
LEMMA StepLands ==
    ASSUME NEW f, NEW w, NEW sh, NEW st, Between(f, w, sh, st), NEW held, NEW g,
           \A p \in Duel!Player : g.shot[p] \in {"flies", "hits", "gone"},
           NEW lost, lost = {p \in Duel!Player : f[p].tainted}, NEW live, live = (w = Duel!Nobody),
           NEW s, s = Duel!step(Duel!Running(f, w, sh), held, g)
    PROVE  /\ Landed(s, lost, live)
           /\ \A p \in Duel!Player : s.f[p].superBoost => s.w = Duel!Nobody
<1> DEFINE s0 == Duel!Running(f, w, sh)
           update(t, p) == Duel!updatePlayer(t, p, g.slow[p], g.core[p])
           fly(t, p) == Duel!updateProjectiles(t, p, g.shot[p])
           s1 == IF s0.w = Duel!Nobody THEN Duel!Fought(s0, held, g) ELSE s0
           s2 == Duel!InTurn(update, s1)
           s3 == Duel!resolveNaturalControlReturns(s2)
           s4 == Duel!InTurn(fly, s3)
<1>1. Duel!step(s0, held, g) = Duel!settle(s4) BY DEF Duel!step
<1>2. Duel!P1 \in Duel!Player /\ Duel!P2 \in Duel!Player /\ Duel!P1 # Duel!P2
      /\ Duel!Player = {Duel!P1, Duel!P2} BY Two DEF Duel!Player
<1>3. Closing(s1, lost, live, {}) BY FightBegins
<1>4. lost \in SUBSET Duel!Player OBVIOUS
<1> HIDE DEF s0, s1
<1>5. s2 = Duel!updatePlayer(Duel!updatePlayer(s1, Duel!P1, g.slow[Duel!P1], g.core[Duel!P1]),
      Duel!P2, g.slow[Duel!P2], g.core[Duel!P2]) BY Sole DEF Duel!InTurn
<1> HIDE DEF s2
<1>6. Closing(s2, lost, live, Duel!Player)
  <2> DEFINE E == {}
             t == Duel!updatePlayer(s1, Duel!P1, g.slow[Duel!P1], g.core[Duel!P1])
             U == E \cup {Duel!P1}
  <2>1. Closing(s1, lost, live, E) /\ Duel!P1 \notin E BY <1>3
  <2> HIDE DEF E
  <2>2. Closing(t, lost, live, U) BY <1>2, <1>4, <2>1, UpdateCloses
  <2>3. Duel!P2 \notin U /\ U \cup {Duel!P2} = Duel!Player BY <1>2 DEF E
  <2> HIDE DEF t, U
  <2>4. Closing(Duel!updatePlayer(t, Duel!P2, g.slow[Duel!P2], g.core[Duel!P2]), lost, live,
        U \cup {Duel!P2}) BY <1>2, <1>4, <2>2, <2>3, UpdateCloses
  <2> QED BY <1>5, <2>3, <2>4 DEF t
<1>7. Landed(s3, lost, live) BY <1>4, <1>6, Lands
<1> HIDE DEF s3
<1>8. s4 = Duel!updateProjectiles(Duel!updateProjectiles(s3, Duel!P1, g.shot[Duel!P1]), Duel!P2,
      g.shot[Duel!P2]) BY Sole DEF Duel!InTurn
<1> HIDE DEF s4
<1>9. Landed(s4, lost, live)
  <2> DEFINE t == Duel!updateProjectiles(s3, Duel!P1, g.shot[Duel!P1])
  <2>1. Landed(t, lost, live) BY <1>2, <1>7, Flies
  <2> HIDE DEF t
  <2>2. Landed(Duel!updateProjectiles(t, Duel!P2, g.shot[Duel!P2]), lost, live) BY <1>2, <2>1, Flies
  <2> QED BY <1>8, <2>2 DEF t
<1>10. Landed(Duel!settle(s4), lost, live)
       /\ \A p \in Duel!Player : Duel!settle(s4).f[p].superBoost => Duel!settle(s4).w = Duel!Nobody
  BY <1>9, Settles
<1> QED BY <1>1, <1>10 DEF s0

(* Tainting changes nothing a frame depends on. *)
LEMMA MarkIs ==
    ASSUME NEW x, NEW live, NEW was, Post(x, FALSE, live, was), NEW b \in BOOLEAN
    PROVE  LET y == [x EXCEPT !.tainted = b]
           IN  /\ y \in Duel!Fighter /\ Post(y, FALSE, live, was) /\ y.helpless = x.helpless
               /\ y.superBoost = x.superBoost /\ y.tainted = b
               /\ Duel!Attacking(y) <=> Duel!Attacking(x)
               /\ Duel!WithoutControl(y) <=> Duel!WithoutControl(x)
<1> DEFINE y == [x EXCEPT !.tainted = b]
<1>1. x \in Duel!Fighter BY DEF Post, Whole
<1>2. /\ y \in Duel!Fighter /\ Steady(x, y) /\ y.parryStartup = x.parryStartup
      /\ y.superBoost = x.superBoost
      /\ y.tainted = b BY <1>1 DEF Duel!Fighter, Steady
<1> HIDE DEF y
<1>3. Post(y, FALSE, live, was) BY <1>2, StillPost
<1>4. (Duel!Attacking(y) <=> Duel!Attacking(x))
      /\ (Duel!WithoutControl(y) <=> Duel!WithoutControl(x)) /\ y.helpless = x.helpless
  BY <1>2 DEF Steady, Duel!Attacking, Duel!Launching, Duel!Dunking, Duel!Casting,
     Duel!WithoutControl
<1> QED BY <1>2, <1>3, <1>4 DEF y

(* From one frame to the next. *)
LEMMA FrameKeeps ==
    ASSUME NEW f, NEW w, NEW sh, NEW st, Between(f, w, sh, st), NEW held, NEW g,
           \A p \in Duel!Player : g.shot[p] \in {"flies", "hits", "gone"},
           NEW s, s = Duel!step(Duel!Running(f, w, sh), held, g),
           \A p \in Duel!Player : s.shots[p] <= MaxShots,
           NEW st2, st2 = (st \/ \E p \in s.connected : f[p].tainted)
    PROVE  Between(Duel!Marked(f, s.f), s.w, s.shots, st2)
<1> DEFINE lost == {p \in Duel!Player : f[p].tainted}
           live == w = Duel!Nobody
           h == Duel!Marked(f, s.f)
<1>1. Landed(s, lost, live) /\ \A p \in Duel!Player : s.f[p].superBoost => s.w = Duel!Nobody
  <2>1. lost = {p \in Duel!Player : f[p].tainted} /\ live = (w = Duel!Nobody) OBVIOUS
  <2> HIDE DEF lost, live
  <2> QED BY <2>1, StepLands, SMTT(20)
<1>2. \A p \in Duel!Player : f[p].tainted <=> p \in lost OBVIOUS
<1> HIDE DEF lost, live
<1>3. s \in Frame BY <1>1 DEF Landed
<1>4. s.w \in Duel!Player \cup {Duel!Nobody} /\ s.shots \in [Duel!Player -> Nat]
      /\ s.connected \subseteq Duel!Player BY <1>3 DEF Frame
<1>5. s.shots \in [Duel!Player -> 0..MaxShots]
  <2>1. MaxShots \in Nat BY FightKit DEF Duel!FightAssumption
  <2>2. \A p \in Duel!Player : s.shots[p] \in 0..MaxShots BY <1>4, <2>1
  <2> QED BY <1>4, <2>2
<1>6. st2 = FALSE
  <2>1. \A p \in s.connected : ~f[p].tainted BY <1>1, <1>2, <1>4 DEF Landed
  <2>2. st = FALSE BY DEF Between
  <2> QED BY <2>1, <2>2
<1>7. ASSUME NEW p \in Duel!Player
      PROVE  /\ h[p] \in Duel!Fighter /\ Whole(h[p]) /\ Credited(h[p])
             /\ h[p].superBoost => s.w = Duel!Nobody
             /\ h[p].helpless = s.f[p].helpless
             /\ s.w = Duel!Nobody => /\ Timed(h[p], 0, 0, 0)
                                     /\ h[p].tainted => Duel!Attacking(h[p]) /\ h[p].helpless > 0
  <2> DEFINE x == s.f[p]
             b == /\ Duel!Attacking(x)
                  /\ Duel!WithoutControl(x) \/ (f[p].tainted /\ Duel!Attacking(f[p]))
             y == [x EXCEPT !.tainted = b]
  <2>1. h[p] = y BY DEF Duel!Marked
  <2>2. Post(x, FALSE, live, p \in lost) BY <1>1 DEF Landed
  <2>3. b \in BOOLEAN OBVIOUS
  <2>4. b => Duel!Attacking(x) /\ (Duel!WithoutControl(x) \/ p \in lost) BY <1>2
  <2>5. x.superBoost => s.w = Duel!Nobody BY <1>1
  <2>6. live \/ s.w # Duel!Nobody BY <1>1 DEF Landed
  <2> HIDE DEF x, b, h
  <2>7. /\ y \in Duel!Fighter /\ Post(y, FALSE, live, p \in lost) /\ y.helpless = x.helpless
        /\ y.superBoost = x.superBoost /\ y.tainted = b
        /\ Duel!Attacking(y) <=> Duel!Attacking(x)
        /\ Duel!WithoutControl(y) <=> Duel!WithoutControl(x) BY <2>2, <2>3, MarkIs
  <2> HIDE DEF y
  <2>8. Whole(y) /\ Credited(y) BY <2>7 DEF Post, Credited
  <2>9. ASSUME s.w = Duel!Nobody PROVE Timed(y, 0, 0, 0) BY <2>6, <2>7, <2>9 DEF Post
  <2>10. ASSUME s.w = Duel!Nobody, y.tainted PROVE Duel!Attacking(y) /\ y.helpless > 0
    <3>1. Duel!Attacking(y) /\ (Duel!WithoutControl(y) \/ p \in lost) BY <2>4, <2>7, <2>10
    <3>2. CASE Duel!WithoutControl(y)
      BY <2>7, <2>8, <3>1, <3>2, NumbersOf DEF Whole, Duel!WithoutControl
    <3>3. CASE p \in lost BY <2>6, <2>7, <2>10, <3>1, <3>3 DEF Post
    <3> QED BY <3>1, <3>2, <3>3
  <2> QED BY <2>1, <2>5, <2>7, <2>8, <2>9, <2>10 DEF x
<1>8. h \in [Duel!Player -> Duel!Fighter]
  <2>1. h = [p \in Duel!Player |-> h[p]] BY DEF Duel!Marked
  <2> HIDE DEF h
  <2> QED BY <1>7, <2>1
<1> HIDE DEF h
<1>9. ~ (h[Duel!P1].helpless > 0 /\ h[Duel!P2].helpless > 0) BY <1>1, <1>7, Two DEF Landed
<1>10. Between(h, s.w, s.shots, st2) BY <1>4, <1>5, <1>6, <1>7, <1>8, <1>9 DEF Between
<1> QED BY <1>10 DEF h

(* The first frame of a round. *)
LEMMA FightInit == Duel!Init => FightInv
<1> SUFFICES ASSUME Duel!Init PROVE Between(fighter, winner, shots, stale)
  BY DEF FightInv, Duel!Init
<1>1. Duel!Fresh \in Duel!Fighter
  BY FuelNumbers DEF Duel!Fresh, Duel!Fighter, Duel!Fuel, Duel!Frames
<1>2. /\ Duel!Fresh.stunned = 0 /\ Duel!Fresh.helpless = 0 /\ Duel!Fresh.recovering = 0
      /\ Duel!Fresh.parryStartup = 0
      /\ Duel!Fresh.launchStartup = 0 /\ Duel!Fresh.launchActive = 0 /\ Duel!Fresh.dunkStartup = 0
      /\ Duel!Fresh.dunkActive = 0
      /\ Duel!Fresh.specialStartup = 0 /\ Duel!Fresh.specialActive = 0
      /\ Duel!Fresh.superBoost = FALSE /\ Duel!Fresh.launched = FALSE /\ Duel!Fresh.tainted = FALSE
  BY DEF Duel!Fresh
<1>3. ~Duel!Attacking(Duel!Fresh)
  BY <1>2 DEF Duel!Attacking, Duel!Launching, Duel!Dunking, Duel!Casting
<1>4. Timed(Duel!Fresh, 0, 0, 0) BY <1>1, <1>3, IdleIsTimed
<1>5. Whole(Duel!Fresh) /\ Credited(Duel!Fresh)
  <2>1. ~Duel!WithoutControl(Duel!Fresh) BY <1>2 DEF Duel!WithoutControl
  <2>2. Duel!Fresh.helpless <= Helpless BY <1>2, KitNumbers
  <2>3. Whole(Duel!Fresh) BY <1>1, <1>2, <1>3, <2>1, <2>2 DEF Whole, Duel!Attacking
  <2>4. ~(Duel!Fresh.helpless > 0) BY <1>2
  <2> QED BY <1>2, <2>3, <2>4 DEF Credited
<1>6. MaxShots \in Nat BY FightKit DEF Duel!FightAssumption
<1>7. /\ fighter = [p \in Duel!Player |-> Duel!Fresh] /\ winner = Duel!Nobody
      /\ shots = [p \in Duel!Player |-> 0] /\ stale = FALSE BY DEF Duel!Init
<1>8. \A p \in Duel!Player : fighter[p] = Duel!Fresh BY <1>7
<1>9. fighter \in [Duel!Player -> Duel!Fighter] /\ shots \in [Duel!Player -> 0..MaxShots]
  BY <1>1, <1>6, <1>7
<1> QED BY <1>2, <1>4, <1>5, <1>7, <1>8, <1>9, Two DEF Between

(* Every frame after it. *)
LEMMA FightNext == FightInv /\ Duel!Next => FightInv'
<1> SUFFICES ASSUME FightInv, Duel!Next PROVE Between(fighter', winner', shots', stale')
  BY DEF FightInv, Duel!Next
<1>1. PICK g \in Duel!Choices, h1 \in Duel!Held(Duel!P1), h2 \in Duel!Held(Duel!P2) :
        LET held == [p \in Duel!Player |-> IF p = Duel!P1 THEN h1 ELSE h2]
            s == Duel!step(Duel!Running(fighter, winner, shots), held, g)
        IN  /\ \A p \in Duel!Player : s.shots[p] <= MaxShots
            /\ fighter' = Duel!Marked(fighter, s.f)
            /\ winner' = s.w
            /\ shots' = s.shots
            /\ stale' = (stale \/ \E p \in s.connected : fighter[p].tainted) BY DEF Duel!Next
<1> DEFINE held == [p \in Duel!Player |-> IF p = Duel!P1 THEN h1 ELSE h2]
           s == Duel!step(Duel!Running(fighter, winner, shots), held, g)
<1>2. \A p \in Duel!Player : g.shot[p] \in {"flies", "hits", "gone"} BY DEF Duel!Choices
<1>3. Between(fighter, winner, shots, stale) BY DEF FightInv
<1>4. /\ \A p \in Duel!Player : s.shots[p] <= MaxShots
      /\ fighter' = Duel!Marked(fighter, s.f) /\ winner' = s.w /\ shots' = s.shots
      /\ stale' = (stale \/ \E p \in s.connected : fighter[p].tainted) BY <1>1
<1>5. s = Duel!step(Duel!Running(fighter, winner, shots), held, g) OBVIOUS
<1> HIDE DEF s, held
<1>6. Between(Duel!Marked(fighter, s.f), s.w, s.shots, stale') BY <1>2, <1>3, <1>4, <1>5, FrameKeeps
<1> QED BY <1>4, <1>6

(* The invariant is about the fight alone. *)
LEMMA FightKept == FightInv /\ UNCHANGED Duel!vars => FightInv' BY DEF FightInv, Duel!vars

(* What the invariant says of every frame's end. *)
LEMMA WholeIsOne ==
    ASSUME NEW x, Whole(x), NEW c \in Duel!Commitments(x), NEW d \in Duel!Commitments(x)
    PROVE  c = d BY DEF Duel!Commitments, Whole, Duel!Attacking

(* What the invariant says of the fight. *)
LEMMA FightSafe == ASSUME FightInv PROVE Duel!NeverBothHelpless /\ Duel!NoStaleHit
             /\ Duel!FightInvariant
<1> USE DEF FightInv
<1>1. Duel!NeverBothHelpless BY DEF Duel!NeverBothHelpless, Between
<1>2. Duel!NoStaleHit BY DEF Duel!NoStaleHit, Between
<1>3. Duel!TypeOK BY DEF Duel!TypeOK, Between
<1>4. Duel!OneCommitment BY WholeIsOne DEF Duel!OneCommitment, Between
<1>5. Duel!HelplessHasLauncher BY DEF Duel!HelplessHasLauncher, Between, Credited
<1>6. Duel!DashEndsWithControl
  <2>1. ASSUME NEW p \in Duel!Player, fighter[p].superBoost
        PROVE  winner = Duel!Nobody /\ fighter[p].stunned = 0 /\ fighter[p].helpless = 0
              /\ fighter[p].recovering = 0
    <3>1. Whole(fighter[p]) /\ winner = Duel!Nobody BY <2>1 DEF Between
    <3>2. ~Duel!WithoutControl(fighter[p]) /\ fighter[p] \in Duel!Fighter BY <2>1, <3>1 DEF Whole
    <3> QED BY <3>1, <3>2, NumbersOf DEF Duel!WithoutControl
  <2> QED BY <2>1 DEF Duel!DashEndsWithControl
<1> QED BY <1>1, <1>2, <1>3, <1>4, <1>5, <1>6 DEF Duel!FightInvariant

(* The other parts of the client leave the fight alone. *)
LEMMA FightInvNext == FightInv /\ [Session \/ Record \/ Fight]_all => FightInv'
<1> SUFFICES ASSUME FightInv, [Session \/ Record \/ Fight]_all PROVE FightInv' OBVIOUS
<1>1. CASE Fight BY <1>1, FightNext DEF Fight
<1>2. CASE Session \/ Record \/ UNCHANGED all
  <2>1. UNCHANGED fighting BY <1>2 DEF Session, Record, all
  <2> QED BY <2>1, FightKept DEF fighting, Duel!vars
<1> QED BY <1>1, <1>2

(* Between any two frames of a match, for every kit, every pair of inputs  *)
(* and every geometry, the fighters are as Between says.                   *)
THEOREM FightInvHolds == PlaySpec => []FightInv
<1>1. PlayInit => FightInv BY FightInit DEF PlayInit
<1> QED BY <1>1, FightInvNext, PTL DEF PlaySpec

(* The two fighters are never both in flight: who was launched cannot      *)
(* launch back with an attack already under way, and launches that meet    *)
(* clash (advanceLaunchAttempt, resolveLaunchClash).                       *)
THEOREM NeverBothHelplessHolds == PlaySpec => []NeverBothHelpless
<1>1. FightInv => NeverBothHelpless BY FightSafe DEF NeverBothHelpless
<1> QED BY <1>1, FightInvHolds, PTL

(* An attack whose fighter was launched, stunned or dunked after it began  *)
(* never connects: a stun and a recovery end it at once, and a flight      *)
(* outlasts its wind-up, after which it is dropped (setStunned,            *)
(* startDunkRecovery, advanceLaunchAttempt, updatePlayer).                 *)
THEOREM NoStaleHitHolds == PlaySpec => []NoStaleHit
<1>1. FightInv => NoStaleHit BY FightSafe DEF NoStaleHit
<1> QED BY <1>1, FightInvHolds, PTL

-----------------------------------------------------------------------------
(* RollbackSession: types and predictions. *)

(* The bound on frames is a number. *)
LEMMA FramesAreBounded == MaxFrame \in Nat BY RollbackAssumption DEF RollbackAssumption

(* A round begins within its bounds and without a prediction. *)
LEMMA SessionInvInit == Init => SessionInv
<1> SUFFICES ASSUME Init PROVE Bounded /\ Fresh BY PlayInvInit, HistoryInvInit DEF SessionInv
<1>1. Bounded BY FramesAreBounded DEF Init, Bounded, Goal, Busy, None, Larger, accepted
<1>2. Fresh BY DEF Init, Fresh
<1> QED BY <1>1, <1>2

(* The last input before a frame, when the frame before it has one. *)
LEMMA LastIsPrevious ==
    ASSUME NEW peer, DOMAIN peer \subseteq Nat, NEW f \in Nat, f - 1 \in DOMAIN peer
    PROVE  LastBefore(peer, f) = peer[f - 1].input
<1> DEFINE last == {g \in DOMAIN peer : g < f /\ \A h \in DOMAIN peer : h < f => h <= g}
<1>1. last = {f - 1} OBVIOUS
<1> HIDE DEF last
<1>2. LastBefore(peer, f) = IF last = {} THEN Neutral ELSE peer[CHOOSE g \in last : TRUE].input
  BY DEF LastBefore, last
<1> QED BY <1>1, <1>2

(* Simulating a frame leaves its predictions fresh and its bounds kept. *)
LEMMA SimulationIsFresh ==
    ASSUME frame \in Nat, frame <= MaxFrame, NEW own, NEW peer, NEW top, SimulateSingleFrame(own, peer, top),
           DOMAIN peer \subseteq Nat, peer \in [DOMAIN peer -> Entry],
           \A f \in DOMAIN peer : f <= MaxFrame /\ (peer[f].predicted => f <= frame) /\ Repeats(peer, f)
    PROVE  /\ \A f \in DOMAIN remote' :
                 f <= MaxFrame /\ (remote'[f].predicted => f < frame') /\ Repeats(remote', f)
           /\ frame' = frame + 1 /\ snapshots' = [f \in DOMAIN snapshots' |-> snapshots'[f]]
<1> DEFINE entry == Resolved(peer, frame)
           peers == IF frame < WindowFloor(top) THEN peer ELSE Put(peer, frame, entry)
           crest == Larger(top, frame)
           floor == Larger(TrimFloor(DOMAIN own, DOMAIN peers, crest), HistoryFloor(frame + 1))
<1>1. /\ remote' = From(peers, floor) /\ frame' = frame + 1
      /\ snapshots' = [f \in DOMAIN snapshots' |-> snapshots'[f]] BY DEF SimulateSingleFrame, From
<1> HIDE DEF floor, crest
<1>2. ASSUME NEW f \in DOMAIN peers
      PROVE  f \in Nat /\ f <= MaxFrame /\ (peers[f].predicted => f <= frame) /\ Repeats(peers, f)
  <2>1. CASE frame < WindowFloor(top) BY <1>2, <2>1
  <2>2. CASE ~(frame < WindowFloor(top)) /\ frame \in DOMAIN peer
    <3>1. peers = Put(peer, frame, peer[frame]) BY <2>2 DEF Resolved
    <3>2. DOMAIN peers = DOMAIN peer /\ \A g \in DOMAIN peer : peers[g] = peer[g]
      BY <2>2, <3>1 DEF Put
    <3> HIDE DEF peers
    <3> QED BY <1>2, <3>2 DEF Repeats
  <2>3. CASE ~(frame < WindowFloor(top)) /\ frame \notin DOMAIN peer
    <3>1. /\ peers = Put(peer, frame, entry)
          /\ entry = [input |-> LastBefore(peer, frame), predicted |-> TRUE] BY <2>3 DEF Resolved
    <3> HIDE DEF peers, entry
    <3>2. DOMAIN peers = DOMAIN peer \cup {frame} /\ peers[frame] = entry
          /\ \A g \in DOMAIN peer : peers[g] = peer[g] BY <2>3, <3>1 DEF Put
    <3>3. CASE f = frame
      <4>1. f - 1 \in DOMAIN peers => f - 1 \in DOMAIN peer BY <3>2, <3>3
      <4>2. f - 1 \in DOMAIN peer => entry.input = peer[f - 1].input BY <3>1, <3>3, LastIsPrevious
      <4> QED BY <3>2, <3>3, <4>1, <4>2 DEF Repeats
    <3>4. CASE f # frame
      <4>1. f \in DOMAIN peer /\ f \in Nat /\ peers[f] = peer[f] /\ Repeats(peer, f)
        BY <1>2, <3>2, <3>4
      <4>2. f \in Nat /\ f <= MaxFrame /\ (peers[f].predicted => f <= frame) BY <4>1
      <4>3. peers[f].predicted => f - 1 # frame BY <4>2, <3>4
      <4>4. Repeats(peers, f) BY <4>1, <4>3, <3>2 DEF Repeats
      <4> QED BY <4>2, <4>4
    <3> QED BY <3>3, <3>4
  <2> QED BY <2>1, <2>2, <2>3
<1> HIDE DEF peers
<1>3. ASSUME NEW f \in DOMAIN remote'
      PROVE  f <= MaxFrame /\ (remote'[f].predicted => f < frame') /\ Repeats(remote', f)
  <2>1. /\ DOMAIN remote' \subseteq DOMAIN peers
        /\ \A g \in DOMAIN remote' : remote'[g] = peers[g] BY <1>1 DEF From
  <2> QED BY <1>1, <1>2, <1>3, <2>1 DEF Repeats
<1> QED BY <1>1, <1>3

(* What the invariant says between and within calls. *)
LEMMA SessionFacts ==
    ASSUME SessionInv
    PROVE  /\ frame \in Nat /\ target \in Nat /\ Goal \in Nat /\ frame <= target /\ target <= Goal
           /\ Goal <= MaxFrame /\ MaxFrame \in Nat
           /\ mode # "resimulating" => target = frame
           /\ mode # "applying" => earliest = None
           /\ DOMAIN remote \subseteq Nat /\ remote \in [DOMAIN remote -> Entry]
           /\ batch \subseteq Nat /\ \A f \in batch : f < Goal
           /\ mode # "failed" /\ tooLate = {}
<1> USE FramesAreBounded DEF SessionInv
<1>1. mode # "failed" /\ tooLate = {} /\ \A f \in batch : f < Goal BY DEF HistoryInv, Window
<1>2. frame \in Nat /\ target \in Nat /\ batch \subseteq Nat BY DEF PlayInv, Counters
<1>3. /\ mode # "resimulating" => target = frame
      /\ mode # "applying" => earliest = None
      /\ frame <= target BY <1>1, <1>2 DEF PlayInv, Modes
<1>4. Goal \in Nat /\ target <= Goal BY <1>2 DEF Goal
<1>5. DOMAIN remote \subseteq Nat /\ remote \in [DOMAIN remote -> Entry] BY DEF PlayInv, PeerInputs
<1> QED BY <1>1, <1>2, <1>3, <1>4, <1>5 DEF Bounded

(* A call that begins reads nothing and simulates nothing. *)
LEMMA BeginIsBounded ==
    ASSUME SessionInv, NEW frames \in SUBSET (0..frame),
           \/ \E input \in Input : BeginFrame(input, frames)
           \/ BeginResolution(frames)
    PROVE  Bounded' /\ Fresh'
<1> USE SessionFacts
<1>1. /\ mode \in {"idle", "looping"} /\ mode' = "applying"
      /\ UNCHANGED <<frame, snapshots, remote, earliest, target, deciding, exchanged, confirmed, archived, accepted>>
  BY DEF BeginFrame, BeginResolution, timeline, cursors, observed, accepted
<1>2. Fresh' BY <1>1 DEF SessionInv, Fresh, Repeats
<1>3. target = frame /\ DOMAIN script \in {0..(target - 1), 0..target}
  BY <1>1 DEF SessionInv, Bounded
<1>4. Goal' <= MaxFrame /\ DOMAIN script' \in {0..(target - 1), 0..target}
  <2>1. CASE BeginResolution(frames)
    BY <1>1, <1>3, <2>1 DEF BeginResolution, observed, Goal, Busy, SessionInv, Bounded
  <2>2. CASE \E input \in Input : BeginFrame(input, frames)
    <3>1. frame < MaxFrame /\ ~deciding /\ \E input \in Input : script' = Put(script, frame, input)
      BY <2>2 DEF BeginFrame
    <3>2. DOMAIN script' = 0..target BY <1>3, <3>1 DEF Put
    <3> QED BY <1>1, <1>3, <3>1, <3>2 DEF Goal, Busy
  <2> QED BY <2>1, <2>2
<1>5. /\ -1 <= confirmed /\ archived <= exchanged /\ exchanged < Larger(target, 1)
      /\ \A f \in accepted \cup DOMAIN remote : f <= MaxFrame
      /\ snapshots = [f \in DOMAIN snapshots |-> snapshots[f]] BY DEF SessionInv, Bounded
<1> HIDE DEF accepted
<1> QED BY <1>1, <1>2, <1>4, <1>5 DEF Bounded

(* The peer's input at f replaces what was there; the prediction after it   *)
(* is fresh, or will be cleared.                                            *)
LEMMA ApplyIsBounded ==
    ASSUME SessionInv, NEW f \in batch, NEW value \in Input, ApplyEntry(f, value)
    PROVE  Bounded' /\ Fresh'
<1> USE SessionFacts
<1> DEFINE known   == f \in DOMAIN remote /\ ~remote[f].predicted
           ignored == f < WindowFloor(newest)
           crest   == Larger(newest, f)
           peers   == Put(remote, f, [input |-> value, predicted |-> FALSE])
           floor   == TrimFloor(DOMAIN local, DOMAIN peers, crest)
           taken   == ~known /\ ~ignored
<1>1. /\ mode = "applying" /\ f \in Nat /\ f <= MaxFrame
      /\ UNCHANGED <<frame, snapshots, mode, target, deciding, exchanged, confirmed, archived, script>>
      /\ remote' = IF taken THEN From(peers, floor) ELSE remote
      /\ authentic' = IF taken THEN Put(authentic, f, value) ELSE authentic
      /\ earliest' = IF taken /\ f < frame /\ Corrects(f, value) THEN RollbackFrom(f) ELSE earliest
  BY DEF ApplyEntry, cursors
<1>2. /\ -1 <= confirmed /\ archived <= exchanged /\ exchanged < Larger(target, 1)
      /\ \A g \in accepted \cup DOMAIN remote : g <= MaxFrame
      /\ snapshots = [g \in DOMAIN snapshots |-> snapshots[g]]
      /\ DOMAIN script \in {0..(target - 1), 0..target} BY DEF SessionInv, Bounded
<1>3. Goal' = Goal BY <1>1 DEF Goal, Busy
<1>4. earliest \in Int BY DEF SessionInv, PlayInv, Counters
<1> HIDE DEF floor, crest, known, ignored
<1>5. CASE ~taken
  <2>1. UNCHANGED <<remote, authentic, earliest>> BY <1>1, <1>5
  <2>2. Fresh' BY <1>1, <2>1 DEF SessionInv, Fresh, Repeats
  <2>3. Bounded' BY <1>1, <1>2, <1>3, <2>1 DEF Bounded, accepted
  <2> QED BY <2>2, <2>3
<1>6. CASE taken
  <2>1. /\ DOMAIN remote' \subseteq DOMAIN remote \cup {f}
        /\ \A g \in DOMAIN remote' : remote'[g] = IF g = f THEN [input |-> value, predicted |-> FALSE] ELSE remote[g]
    BY <1>1, <1>6 DEF From, Put
  <2>2. DOMAIN authentic' = DOMAIN authentic \cup {f} BY <1>1, <1>6 DEF Put
  <2>3. Bounded' BY <1>1, <1>2, <1>3, <2>1, <2>2 DEF Bounded, accepted
  <2>4. ASSUME NEW g \in DOMAIN remote', remote'[g].predicted
        PROVE  /\ g < frame
               /\ (earliest' = None \/ g <= earliest') /\ g - 1 \in DOMAIN remote' =>
                     remote'[g].input = remote'[g - 1].input
    <3>1. g # f /\ g \in DOMAIN remote /\ g \in Nat /\ remote'[g] = remote[g] BY <2>1, <2>4
    <3>2. g < frame /\ (earliest = None \/ g <= earliest => Repeats(remote, g))
      BY <1>1, <2>4, <3>1 DEF SessionInv, Fresh
    <3>3. ASSUME earliest' = None \/ g <= earliest', g - 1 \in DOMAIN remote'
          PROVE  remote'[g].input = remote'[g - 1].input
      <4>1. earliest = None \/ g <= earliest
        BY <1>1, <1>4, <3>1, <3>3 DEF RollbackFrom, Smaller, None
      <4>2. CASE g - 1 # f BY <2>1, <2>4, <3>1, <3>2, <3>3, <4>1, <4>2 DEF Repeats
      <4>3. CASE g - 1 = f
        <5>1. f < frame BY <1>1, <3>1, <3>2, <4>3
        <5>2. ~Corrects(f, value)
          <6> SUFFICES ASSUME Corrects(f, value) PROVE FALSE OBVIOUS
          <6>1. earliest' = RollbackFrom(f) BY <1>1, <1>6, <5>1
          <6>2. earliest' \in Int /\ earliest' <= f /\ earliest' # None
            BY <1>1, <1>4, <6>1 DEF RollbackFrom, Smaller, None, SessionInv, PlayInv, Counters
          <6> QED BY <1>1, <3>1, <3>3, <4>3, <6>2
        <5>3. f \in DOMAIN remote /\ remote[f].input = value BY <5>2 DEF Corrects
        <5>4. remote'[f].input = value BY <2>1, <3>3, <4>3
        <5> QED BY <2>4, <3>1, <3>2, <4>1, <4>3, <5>3, <5>4 DEF Repeats
      <4> QED BY <4>2, <4>3
    <3> QED BY <3>2, <3>3
  <2>5. Fresh' BY <1>1, <2>4 DEF Fresh, Repeats
  <2> QED BY <2>3, <2>5
<1> QED BY <1>5, <1>6

(* A rollback clears the predictions that rested on what was corrected. *)
LEMMA RollbackIsBounded == ASSUME SessionInv, Rollback, HistoryInv' PROVE Bounded' /\ Fresh'
<1> USE SessionFacts
<1>1. /\ mode = "applying" /\ batch = {} /\ earliest # None
      /\ remote' = ClearPredictedFrom(earliest + 1) /\ earliest' = None
      /\ UNCHANGED <<deciding, exchanged, confirmed, archived, script, accepted>>
  BY DEF Rollback, cursors, accepted
<1>2. /\ mode' = "resimulating" /\ target' = frame /\ frame' = earliest
      /\ snapshots' = UpTo(snapshots, earliest) BY DEF Rollback, RestoreSnapshot, HistoryInv, Window
<1>3. /\ -1 <= confirmed /\ archived <= exchanged /\ exchanged < Larger(target, 1)
      /\ \A g \in accepted \cup DOMAIN remote : g <= MaxFrame
      /\ DOMAIN script \in {0..(target - 1), 0..target} BY DEF SessionInv, Bounded
<1>4. target = frame /\ earliest \in Int /\ earliest < frame
  BY <1>1 DEF SessionInv, PlayInv, Counters
<1>5. Goal' = Goal BY <1>1, <1>2, <1>4 DEF Goal, Busy
<1>6. /\ DOMAIN remote' \subseteq DOMAIN remote
      /\ \A g \in DOMAIN remote' : remote'[g] = remote[g] /\ (remote[g].predicted => g <= earliest)
  BY <1>1, <1>4 DEF ClearPredictedFrom
<1>7. snapshots' = [g \in DOMAIN snapshots' |-> snapshots'[g]] BY <1>2 DEF UpTo
<1>8. Bounded'
  <2>1. \A g \in accepted' \cup DOMAIN remote' : g <= MaxFrame BY <1>1, <1>3, <1>6
  <2> HIDE DEF accepted
  <2> QED BY <1>1, <1>2, <1>3, <1>4, <1>5, <1>7, <2>1 DEF Bounded
<1>9. Fresh'
  <2> SUFFICES ASSUME NEW g \in DOMAIN remote', remote'[g].predicted
               PROVE  g <= frame' /\ Repeats(remote', g)
    BY <1>1, <1>2, <1>4, <1>6 DEF Fresh, Repeats
  <2>1. g \in DOMAIN remote /\ remote'[g] = remote[g] /\ g <= earliest /\ Repeats(remote, g)
    BY <1>6 DEF SessionInv, Fresh
  <2> QED BY <1>2, <1>6, <2>1 DEF Repeats
<1> QED BY <1>8, <1>9

(* A frame is simulated once more. *)
LEMMA ResimulateIsBounded == ASSUME SessionInv, Resimulate PROVE Bounded' /\ Fresh'
<1> USE SessionFacts
<1>1. /\ mode = "resimulating" /\ SimulateSingleFrame(local, remote, newest)
      /\ mode' = IF frame + 1 = target THEN Applied ELSE "resimulating"
      /\ UNCHANGED <<earliest, target, deciding, exchanged, confirmed, archived, script, accepted>>
  BY DEF Resimulate, cursors, accepted
<1>2. frame < target BY <1>1 DEF SessionInv, PlayInv, Modes
<1>3. \A f \in DOMAIN remote : f <= MaxFrame /\ (remote[f].predicted => f <= frame) /\ Repeats(remote, f)
  BY <1>1 DEF SessionInv, Fresh, Bounded, Repeats
<1>4. /\ \A f \in DOMAIN remote' :
            f <= MaxFrame /\ (remote'[f].predicted => f < frame') /\ Repeats(remote', f)
      /\ frame' = frame + 1 /\ snapshots' = [f \in DOMAIN snapshots' |-> snapshots'[f]]
  BY <1>1, <1>2, <1>3, SimulationIsFresh
<1>5. Goal' <= MaxFrame /\ mode' \in {"resimulating", "advancing", "archiving"}
  BY <1>1, <1>2, <1>4 DEF Goal, Busy, Applied
<1>6. /\ -1 <= confirmed /\ archived <= exchanged /\ exchanged < Larger(target, 1)
      /\ \A g \in accepted : g <= MaxFrame
      /\ DOMAIN script \in {0..(target - 1), 0..target} BY DEF SessionInv, Bounded
<1>7. Bounded'
  <2> HIDE DEF accepted
  <2> QED BY <1>1, <1>4, <1>5, <1>6 DEF Bounded
<1>8. Fresh' BY <1>4 DEF Fresh, Repeats
<1> QED BY <1>7, <1>8

(* The frame of this turn is simulated. *)
LEMMA AdvanceIsBounded == ASSUME SessionInv, AdvanceFrame PROVE Bounded' /\ Fresh'
<1> USE SessionFacts
<1> DEFINE crest == Larger(newest, frame)
           own   == IF frame < WindowFloor(newest) THEN local ELSE Put(local, frame, script[frame])
           floor == TrimFloor(DOMAIN own, DOMAIN remote, crest)
           peer  == From(remote, floor)
<1>1. /\ mode = "advancing" /\ SimulateSingleFrame(From(own, floor), peer, crest)
      /\ target' = frame + 1 /\ mode' = "archiving"
      /\ UNCHANGED <<earliest, deciding, exchanged, confirmed, archived, script, accepted>>
  BY DEF AdvanceFrame, cursors, accepted
<1>2. target = frame /\ ~deciding /\ target \in DOMAIN script BY <1>1 DEF SessionInv, PlayInv, Modes
<1>3. Goal = target + 1 /\ Goal' = target' BY <1>1, <1>2 DEF Goal, Busy
<1>4. /\ DOMAIN peer \subseteq DOMAIN remote
      /\ peer = [g \in DOMAIN peer |-> peer[g]] /\ \A g \in DOMAIN peer : peer[g] = remote[g]
  BY DEF From
<1> HIDE DEF own, crest, floor, peer
<1>5. \A f \in DOMAIN peer : f <= MaxFrame /\ (peer[f].predicted => f <= frame) /\ Repeats(peer, f)
  BY <1>1, <1>2, <1>4 DEF SessionInv, Fresh, Bounded, Repeats
<1>6. DOMAIN peer \subseteq Nat /\ peer \in [DOMAIN peer -> Entry] BY <1>4
<1>7. /\ \A f \in DOMAIN remote' :
            f <= MaxFrame /\ (remote'[f].predicted => f < frame') /\ Repeats(remote', f)
      /\ frame' = frame + 1 /\ snapshots' = [f \in DOMAIN snapshots' |-> snapshots'[f]]
  BY <1>1, <1>5, <1>6, SimulationIsFresh
<1>8. /\ -1 <= confirmed /\ archived <= exchanged /\ exchanged < Larger(target, 1)
      /\ \A g \in accepted : g <= MaxFrame
      /\ DOMAIN script \in {0..(target - 1), 0..target} BY DEF SessionInv, Bounded
<1>9. exchanged < Larger(target', 1) /\ DOMAIN script = 0..(target' - 1)
  BY <1>1, <1>2, <1>8 DEF Larger, SessionInv, PlayInv, Counters
<1>10. Bounded'
  <2> HIDE DEF accepted
  <2> QED BY <1>1, <1>3, <1>7, <1>8, <1>9 DEF Bounded
<1>11. Fresh' BY <1>7 DEF Fresh, Repeats
<1> QED BY <1>10, <1>11

(* What neither simulates nor takes an input. *)
LEMMA OtherIsBounded ==
    ASSUME SessionInv, HistoryInv',
           NothingChanged \/ ArchiveFrame \/ EndCall \/ Exchange \/ Confirm \/ UNCHANGED vars
    PROVE  Bounded' /\ Fresh'
<1> USE SessionFacts
<1>1. UNCHANGED <<frame, snapshots, remote, earliest, target, script, accepted>>
  BY DEF NothingChanged, ArchiveFrame, EndCall, Exchange, Confirm, vars, session, timeline,
     observed, accepted
<1>2. /\ -1 <= confirmed /\ archived <= exchanged /\ exchanged < Larger(target, 1)
      /\ \A g \in accepted \cup DOMAIN remote : g <= MaxFrame
      /\ snapshots = [g \in DOMAIN snapshots |-> snapshots[g]]
      /\ DOMAIN script \in {0..(target - 1), 0..target}
      /\ mode \in {"idle", "applying", "resimulating", "advancing", "archiving", "looping", "committed", "failed"}
  BY DEF SessionInv, Bounded
<1>3. archived \in Int /\ exchanged \in Int /\ confirmed \in Int
  BY DEF SessionInv, PlayInv, Counters
<1>4. mode = "resimulating" => mode' = "resimulating"
  BY DEF NothingChanged, ArchiveFrame, EndCall, Exchange, Confirm, vars, session
<1>5. Fresh' BY <1>1, <1>4 DEF SessionInv, Fresh, Repeats
<1>6. /\ Goal' <= MaxFrame
      /\ mode' \in {"idle", "applying", "resimulating", "advancing", "archiving", "looping", "committed", "failed"}
  <2>1. CASE NothingChanged BY <1>1, <2>1 DEF NothingChanged, Applied, Goal, Busy
  <2>2. CASE ArchiveFrame \/ EndCall BY <1>1, <2>2 DEF ArchiveFrame, EndCall, Goal, Busy
  <2>3. CASE Exchange \/ Confirm \/ UNCHANGED vars
    BY <1>1, <1>2, <2>3 DEF Exchange, Confirm, vars, session, Goal, Busy
  <2> QED BY <2>1, <2>2, <2>3
<1>7. -1 <= confirmed' /\ archived' <= exchanged' /\ exchanged' < Larger(target', 1)
  <2>1. CASE NothingChanged \/ EndCall \/ UNCHANGED vars
    BY <1>1, <1>2, <2>1 DEF NothingChanged, EndCall, vars, cursors
  <2>2. CASE ArchiveFrame
    <3>1. winning # NoWinningFrame => winning.frame \in Int BY DEF SessionInv, PlayInv, Decision
    <3>2. ReplayLimit <= exchanged BY <1>3, <3>1 DEF ReplayLimit, Smaller
    <3>3. archived < ReplayLimit /\ ReplayLimit \in Int
      BY <1>3, <2>2, <3>1 DEF ArchiveFrame, ReplayLimit, Smaller
    <3>4. archived' \in {archived, archived + 1} /\ UNCHANGED <<exchanged, confirmed>>
      BY <2>2 DEF ArchiveFrame
    <3> QED BY <1>1, <1>2, <1>3, <3>2, <3>3, <3>4
  <2>3. CASE Exchange BY <1>1, <1>2, <1>3, <2>3 DEF Exchange, Larger
  <2>4. CASE Confirm BY <1>1, <1>2, <1>3, <2>4 DEF Confirm
  <2> QED BY <2>1, <2>2, <2>3, <2>4
<1>8. Bounded'
  <2> HIDE DEF accepted
  <2> QED BY <1>1, <1>2, <1>6, <1>7 DEF Bounded
<1> QED BY <1>5, <1>8

(* The invariant of the session is inductive. *)
LEMMA SessionInvNext == SessionInv /\ [Next]_vars => SessionInv'
<1> SUFFICES ASSUME SessionInv, [Next]_vars PROVE Bounded' /\ Fresh'
  BY PlayInvNext, HistoryInvNext DEF SessionInv
<1>1. HistoryInv' BY PlayInvNext, HistoryInvNext DEF SessionInv
<1>2. CASE \E input \in Input, frames \in SUBSET (0..frame) : BeginFrame(input, frames)
  BY <1>2, BeginIsBounded
<1>3. CASE \E frames \in SUBSET (0..frame) : BeginResolution(frames) BY <1>3, BeginIsBounded
<1>4. CASE \E f \in batch, value \in Input : ApplyEntry(f, value) BY <1>4, ApplyIsBounded
<1>5. CASE Rollback BY <1>1, <1>5, RollbackIsBounded
<1>6. CASE Resimulate BY <1>6, ResimulateIsBounded
<1>7. CASE AdvanceFrame BY <1>7, AdvanceIsBounded
<1>8. CASE NothingChanged \/ ArchiveFrame \/ EndCall \/ Exchange \/ Confirm \/ UNCHANGED vars
  BY <1>1, <1>8, OtherIsBounded
<1> QED BY <1>2, <1>3, <1>4, <1>5, <1>6, <1>7, <1>8 DEF Next

(* The invariant says of the session what a run checks of it. *)
LEMMA SessionIsSafe == SessionInv => TimelineInvariant
<1> SUFFICES ASSUME SessionInv PROVE TypeOK /\ PredictionsAreFresh BY DEF TimelineInvariant
<1> USE SessionFacts
<1>1. PlayInv /\ HistoryInv /\ Bounded /\ Fresh BY DEF SessionInv
<1>2. PredictionsAreFresh BY <1>1 DEF PredictionsAreFresh, Fresh, Repeats
<1>3. /\ frame \in 0..MaxFrame /\ target \in 0..MaxFrame /\ newest \in -1..MaxFrame
      /\ earliest \in -1..(MaxFrame - 1) /\ winning.frame \in -1..(MaxFrame - 1)
      /\ batch \subseteq 0..MaxFrame /\ tooLate \subseteq 0..MaxFrame
  <2>1. frame \in 0..MaxFrame /\ target \in 0..MaxFrame /\ newest \in -1..MaxFrame
        /\ batch \subseteq 0..MaxFrame /\ tooLate \subseteq 0..MaxFrame
    BY <1>1 DEF PlayInv, Counters, HistoryInv, Window
  <2>2. earliest \in -1..(MaxFrame - 1) BY <1>1, <2>1 DEF PlayInv, Counters, None
  <2>3. winning.frame \in -1..(MaxFrame - 1)
    BY <1>1, <2>1 DEF PlayInv, Decision, NoWinningFrame, None
  <2> QED BY <2>1, <2>2, <2>3
<1>4. /\ -1 <= archived /\ archived <= exchanged /\ -1 <= confirmed /\ confirmed <= exchanged
      /\ exchanged < Larger(target, 1) /\ exchanged \in Int /\ confirmed \in Int /\ archived \in Int
      /\ mode \in {"idle", "applying", "resimulating", "advancing", "archiving", "looping", "committed", "failed"}
      /\ deciding \in BOOLEAN BY <1>1 DEF PlayInv, Counters, Modes, Bounded
<1>5. /\ DOMAIN snapshots \subseteq 0..frame /\ frame \in DOMAIN snapshots
      /\ snapshots \in [DOMAIN snapshots -> GameState]
      /\ used \in [0..(frame - 1) -> Input] /\ trajectory \in [0..frame -> GameState]
  BY <1>1 DEF PlayInv, Simulated, Bounded
<1>6. DOMAIN local \subseteq 0..MaxFrame /\ local \in [DOMAIN local -> Input]
  BY <1>1 DEF PlayInv, OwnInputs, Scripted
<1>7. /\ DOMAIN remote \subseteq 0..MaxFrame /\ remote \in [DOMAIN remote -> Entry]
      /\ accepted \subseteq 0..MaxFrame /\ authentic \in [accepted -> Input]
  BY <1>1 DEF PlayInv, Scripted, Bounded, HistoryInv, Taken, accepted
<1>8. DOMAIN script \in {0..(target - 1), 0..target} /\ script \in [DOMAIN script -> Input]
  BY <1>1 DEF PlayInv, Scripted, Bounded
<1>9. TypeOK BY <1>3, <1>4, <1>5, <1>6, <1>7, <1>8 DEF TypeOK
<1> QED BY <1>2, <1>9

(* The bounds are numbers. *)
LEMMA BoundsAreNumbers ==
    /\ Rounds \in Nat /\ Rounds > 0 /\ MaxAttempts \in Nat /\ MaxAttempts > 0
    /\ LastFrame \in Nat /\ Transition \in Nat /\ MaxWaits \in Nat
  BY PlayAssumption DEF Log!CommitmentAssumption

(* The greater of two numbers. *)
LEMMA MaxOfTwo ==
    ASSUME NEW m \in Int, NEW n \in Int
    PROVE  Log!Max({m, n}) = IF m >= n THEN m ELSE n
<1> DEFINE most == IF m >= n THEN m ELSE n
<1>1. most \in {m, n} /\ \A k \in {m, n} : most >= k OBVIOUS
<1>2. \A j \in {m, n} : (\A k \in {m, n} : j >= k) => j = most OBVIOUS
<1> HIDE DEF most
<1>3. Log!Max({m, n}) = most BY <1>1, <1>2 DEF Log!Max
<1> QED BY <1>3 DEF most

(* Fewer full chunks hold fewer inputs. *)
LEMMA FewerChunksAreShorter ==
    ASSUME NEW i \in Nat, NEW n \in Nat, i <= n
    PROVE  i * MaxFrames \in Nat /\ n * MaxFrames \in Nat /\ i * MaxFrames <= n * MaxFrames
<1>1. MaxFrames \in Nat BY CommitConstants
<1>2. n = i + (n - i) /\ n - i \in Nat OBVIOUS
<1>3. (n - i) * MaxFrames \in Nat /\ n * MaxFrames = i * MaxFrames + (n - i) * MaxFrames
  BY <1>1, <1>2
<1> QED BY <1>1, <1>3

(* Chunks that fit are queued among chunks that fit. *)
LEMMA QueueFits ==
    ASSUME now \in Int, queued \in Seq(SealedRecords), NEW cs, cs \in Seq(Log!ChunkRecords), Log!Queue(cs)
    PROVE  queued' \in Seq(SealedRecords)
<1> DEFINE more == [i \in 1..Len(cs) |-> [chunk |-> cs[i], sealed |-> now]]
<1>1. more \in Seq(SealedRecords) BY DEF SealedRecords
<1>2. queued' = queued \o more BY DEF Log!Queue
<1> HIDE DEF more
<1> QED BY <1>1, <1>2

(* A match begins within its bounds. *)
LEMMA RecorderBoundsInit == ASSUME Log!Init PROVE RecorderBounds
<1>1. PaceBounds
  <2>1. /\ now = 0 /\ waits = 0 /\ delay = 0 /\ pace = 0 /\ mutual = -1 /\ attempt = 0
        /\ failed \in BOOLEAN BY DEF Log!Init
  <2> QED BY <2>1, BoundsAreNumbers DEF PaceBounds
<1>2. RoundBounds BY BoundsAreNumbers DEF Log!Init, RoundBounds
<1>3. ListBounds BY DEF Log!Init, ListBounds
<1> QED BY <1>1, <1>2, <1>3 DEF RecorderBounds

(* The full chunks that leave the open round end before the present frame. *)
LEMMA FrameKeepsBounds ==
    ASSUME CommitInv, RecorderBounds, Log!SimulateFrame PROVE RecorderBounds'
<1> USE BoundsAreNumbers
<1> DEFINE n == Log!Sealable(pending, sealed)
           cs == Log!FullChunks(pending, n)
<1>1. /\ pending # Log!None /\ pace < LastFrame /\ pace' = pace + 1 /\ delay' = 1
      /\ Log!Queue(cs)
      /\ UNCHANGED <<now, waits, mutual, lengths, previousChain, failed, attempt, stored>>
      /\ pending' = [pending EXCEPT !.start = @ + n * MaxFrames, !.inputs = @ - n * MaxFrames + 1]
  BY DEF Log!SimulateFrame
<1>2. /\ pending \in [epoch : Int, start : Int, inputs : Nat] /\ sealed \in Int /\ mutual \in Int
      /\ pace \in Nat /\ nextSequence \in Nat
      /\ pending.start >= 0 /\ pending.start + pending.inputs = pace
      /\ pending.epoch \in Int /\ pending.start \in Int /\ pending.inputs \in Nat
  BY <1>1, SealingIs DEF CommitInv, RecorderTypes, TailBounds
<1>3. n \in Nat /\ pending.inputs - n * MaxFrames >= 0 BY <1>2, SealableIs
<1> HIDE DEF n
<1>4. /\ cs \in Seq(Chunks) /\ Len(cs) = n
      /\ \A i \in 1..n : cs[i] = FullChunk(pending, i)
  <2>1. nextSequence \in Int BY <1>2
  <2> QED BY <1>2, <1>3, <2>1, FullChunksAre
<1> HIDE DEF cs
<1>5. pending.epoch \in 0..(Rounds - 1)
  <2>1. pending.epoch = Len(lengths) /\ Len(lengths) < Rounds /\ Len(lengths) \in Nat
    BY <1>1 DEF RecorderBounds, RoundBounds
  <2> QED BY <2>1
<1>6. ASSUME NEW i \in 1..n PROVE cs[i] \in Log!ChunkRecords
  <2>1. /\ (i - 1) * MaxFrames \in Nat /\ i * MaxFrames \in Nat /\ i * MaxFrames <= n * MaxFrames
        /\ n * MaxFrames \in Nat /\ (i - 1) * MaxFrames <= n * MaxFrames
    BY <1>3, FewerChunksAreShorter
  <2>2. i * MaxFrames >= 1 BY CommitConstants
  <2>3. pending.start + (i - 1) * MaxFrames \in 0..LastFrame BY <1>1, <1>2, <1>3, <2>1
  <2>4. pending.start + i * MaxFrames - 1 \in 0..LastFrame BY <1>1, <1>2, <1>3, <2>1, <2>2
  <2>5. nextSequence + i - 1 \in Nat BY <1>2
  <2>6. cs[i] = FullChunk(pending, i) BY <1>4
  <2> QED BY <1>5, <2>3, <2>4, <2>5, <2>6 DEF Log!ChunkRecords, FullChunk
<1>7. cs \in Seq(Log!ChunkRecords) BY <1>3, <1>4, <1>6
<1>8. queued' \in Seq(SealedRecords)
  BY <1>1, <1>7, QueueFits DEF RecorderBounds, PaceBounds, ListBounds
<1>9. pending'.epoch = pending.epoch BY <1>1, <1>2
<1>10. PaceBounds' BY <1>1, <1>2 DEF RecorderBounds, PaceBounds
<1>11. RoundBounds' BY <1>1, <1>9 DEF RecorderBounds, RoundBounds
<1>12. ListBounds' BY <1>1, <1>8 DEF RecorderBounds, ListBounds
<1> QED BY <1>10, <1>11, <1>12 DEF RecorderBounds

(* The chunks that close a round end with its last frame. *)
LEMMA RoundKeepsBounds ==
    ASSUME CommitInv, RecorderBounds, Log!EndRound PROVE RecorderBounds'
<1> USE BoundsAreNumbers
<1> USE DEF RoundEnded
<1>1. PICK f, cs : RoundEnded(f, cs) BY EndedRound
<1>2. /\ pace \in Nat /\ nextSequence \in Nat /\ pending.start \in Nat
      /\ pending # Log!None /\ f \in Nat /\ f < pace /\ pending.start <= f
  BY <1>1, SealingIs DEF CommitInv, RecorderTypes, TailBounds
<1>3. lengths \in Seq(Int) /\ Len(lengths) \in Nat /\ pending.epoch = Len(lengths)
      /\ Len(lengths) < Rounds /\ pace <= LastFrame /\ now \in Nat
  BY <1>2 DEF RecorderBounds, PaceBounds, RoundBounds
<1>4. ASSUME NEW i \in 1..Len(cs) PROVE cs[i] \in Log!ChunkRecords
  <2> DEFINE p == (i - 1) * MaxFrames
             q == (Len(cs) - 1) * MaxFrames
  <2>1. i \in Nat /\ i >= 1 /\ i <= Len(cs) /\ Len(cs) \in Nat /\ i - 1 \in Nat /\ Len(cs) - 1 \in Nat
    BY <1>1
  <2>2. p \in Nat /\ p <= q /\ q \in Nat /\ q <= f - pending.start /\ cs[i].start = pending.start + p
    <3>1. q <= f - pending.start /\ cs[i].start = pending.start + p BY <1>1
    <3> QED BY <2>1, <3>1, FewerChunksAreShorter
  <2> HIDE DEF p
  <2>3. f <= LastFrame /\ pace \in Nat /\ pending.start \in Nat /\ f \in Nat BY <1>2, <1>1, <1>3
  <2>7. cs[i].start \in 0..LastFrame
    <3> HIDE DEF q
    <3> QED BY <2>2, <2>3
  <2>4. cs[i].end \in 0..LastFrame
    <3>1. CASE i = Len(cs) BY <1>1, <2>3, <3>1
    <3>2. CASE i # Len(cs)
      <4> DEFINE r == i * MaxFrames
      <4>1. r \in Nat /\ r <= q BY <2>1, <3>2, FewerChunksAreShorter
      <4>2. r >= 1 BY <2>1, CommitConstants
      <4>3. cs[i].end = pending.start + r - 1 BY <1>1, <2>1, <3>2
      <4> HIDE DEF r, q
      <4> QED BY <2>2, <2>3, <4>1, <4>2, <4>3
    <3> QED BY <3>1, <3>2
  <2>5. cs[i].sequence \in Nat /\ cs[i].epoch \in 0..(Rounds - 1)
    <3>1. cs[i].sequence = nextSequence + i - 1 /\ cs[i].epoch = pending.epoch BY <1>1
    <3>2. pending.epoch = Len(lengths) /\ Len(lengths) \in Nat /\ Len(lengths) < Rounds /\ nextSequence \in Nat
      BY <1>2, <1>3
    <3> QED BY <2>1, <3>1, <3>2
  <2>6. cs[i] \in Chunks BY <1>1
  <2> QED BY <2>4, <2>5, <2>6, <2>7 DEF Chunks, Log!ChunkRecords
<1>5. cs \in Seq(Log!ChunkRecords)
  <2>1. cs \in Seq(Chunks) BY <1>1
  <2> QED BY <1>4, <2>1
<1>6. queued' \in Seq(SealedRecords)
  <2>1. now \in Int /\ queued \in Seq(SealedRecords) BY DEF RecorderBounds, PaceBounds, ListBounds
  <2> QED BY <1>1, <1>5, <2>1, QueueFits
<1>7. lengths' \in Seq(Int) /\ Len(lengths') = Len(lengths) + 1 BY <1>2, <1>1, <1>3
<1>8. pending' # Log!None => pending'.epoch = Len(lengths') /\ Len(lengths') < Rounds
  BY <1>1, <1>3, <1>7
<1>9. PaceBounds' BY <1>1 DEF RecorderBounds, PaceBounds
<1>10. RoundBounds' BY <1>7, <1>8 DEF RoundBounds, Log!None
<1>11. ListBounds' BY <1>1, <1>6 DEF RecorderBounds, ListBounds
<1> QED BY <1>9, <1>10, <1>11 DEF RecorderBounds

(* What seals nothing. *)
LEMMA OtherKeepsBounds ==
    ASSUME CommitInv, RecorderBounds,
           \/ Log!Tick \/ Log!Confirm
           \/ Log!Submit \/ Log!LoseAttempt \/ Log!DropRequest
           \/ UNCHANGED recording
    PROVE  RecorderBounds'
<1> USE BoundsAreNumbers DEF RecorderBounds, PaceBounds, RoundBounds, ListBounds
<1>1. pace \in Nat /\ mutual \in Int /\ attempt \in Nat BY DEF CommitInv, RecorderTypes
<1>2. CASE Log!Tick
  <2>1. /\ now' = now + 1 /\ waits' \in {waits, waits + 1} /\ waits' <= MaxWaits
        /\ delay' = Log!Max({delay - 1, 0})
        /\ UNCHANGED <<pace, mutual, lengths, pending, queued, previousChain, failed, attempt, stored>>
    BY <1>2 DEF Log!Tick, Log!recorder
  <2>2. delay' = IF delay - 1 >= 0 THEN delay - 1 ELSE 0 BY <2>1, MaxOfTwo
  <2>3. delay' \in Nat /\ (delay' <= Transition \/ delay' <= 1) BY <2>2
  <2>4. now' \in Nat /\ waits' \in 0..MaxWaits /\ \A i \in DOMAIN stored : stored[i].receivedAt \in 0..now'
    BY <2>1
  <2> QED BY <2>1, <2>3, <2>4 DEF Log!None
<1>3. CASE Log!Confirm BY <1>1, <1>3 DEF Log!Confirm, Log!recorder, Log!None
<1>4. CASE Log!Submit \/ Log!LoseAttempt
  <2>1. /\ attempt' <= MaxAttempts /\ failed' \in BOOLEAN
        /\ UNCHANGED <<now, delay, waits, pace, mutual, lengths, pending, queued, previousChain, stored>>
    <3>1. CASE Log!Submit BY <1>1, <3>1 DEF Log!Submit, Log!Attempt, Log!simulation
    <3>2. CASE Log!LoseAttempt /\ attempt < MaxAttempts
      BY <1>1, <3>2 DEF Log!LoseAttempt, Log!Attempt, Log!simulation
    <3>3. CASE Log!LoseAttempt /\ ~(attempt < MaxAttempts)
      BY <1>1, <3>3 DEF Log!LoseAttempt, Log!simulation
    <3> QED BY <1>4, <3>1, <3>2, <3>3
  <2> QED BY <2>1 DEF Log!None
<1>5. CASE Log!DropRequest \/ UNCHANGED recording
  <2>1. UNCHANGED <<now, delay, waits, pace, mutual, lengths, pending, queued, previousChain, failed, attempt, stored>>
    BY <1>5 DEF Log!DropRequest, Log!simulation, Log!recorder, recording
  <2> QED BY <2>1 DEF Log!None
<1> QED BY <1>2, <1>3, <1>4, <1>5

(* The head of the queue becomes the end of the acknowledged chain. *)
LEMMA ReceiptKeepsBounds ==
    ASSUME CommitInv, RecorderBounds, Log!Receive PROVE RecorderBounds'
<1>1. PICK a \in answers : Log!ReceiveReceipt(a) BY DEF Log!Receive
<1>2. /\ attempt' = 0 /\ failed' \in BOOLEAN
      /\ UNCHANGED <<now, delay, waits, pace, mutual, lengths, pending, stored>>
  BY <1>1 DEF Log!ReceiveReceipt, Log!simulation, RecorderBounds, PaceBounds, RoundBounds,
     ListBounds
<1>3. /\ queued # <<>> /\ a.chain = Append(previousChain, queued[1].chunk) /\ a.ok
  BY DEF CommitInv, OnTheWay
<1>4. queued' = Tail(queued) /\ previousChain' = Append(previousChain, queued[1].chunk)
  BY <1>1, <1>3 DEF Log!ReceiveReceipt
<1>5. queued \in Seq(SealedRecords) /\ previousChain \in Seq(Log!ChunkRecords)
  BY DEF RecorderBounds, PaceBounds, RoundBounds, ListBounds
<1>6. queued[1] \in SealedRecords BY <1>3, <1>5
<1>7. queued[1].chunk \in Log!ChunkRecords BY <1>6 DEF SealedRecords
<1>8. queued' \in Seq(SealedRecords) /\ previousChain' \in Seq(Log!ChunkRecords)
  BY <1>3, <1>4, <1>5, <1>7
<1> QED
  BY <1>2, <1>8, BoundsAreNumbers DEF RecorderBounds, PaceBounds, RoundBounds, ListBounds, Log!None

(* What is stored is stored now. *)
LEMMA ServeKeepsBounds ==
    ASSUME CommitInv, RecorderBounds, Log!Serve PROVE RecorderBounds'
<1>1. PICK r \in requests : Log!Execute(r) BY DEF Log!Serve
<1>2. /\ stored' \in {stored, Append(stored, [chunk |-> r.chunk, receivedAt |-> now])}
      /\ UNCHANGED <<now, delay, waits, pace, mutual, lengths, pending, queued, previousChain, failed, attempt>>
  BY <1>1 DEF Log!Execute, Log!simulation, Log!recorder
<1>3. stored \in Seq([chunk : Chunks, receivedAt : Int]) /\ now \in Nat
  BY DEF CommitInv, RecorderTypes, RecorderBounds, PaceBounds, RoundBounds, ListBounds
<1>4. ASSUME NEW i \in DOMAIN stored' PROVE stored'[i].receivedAt \in 0..now
  <2>1. CASE stored' = stored BY <2>1, <1>4 DEF RecorderBounds, PaceBounds, RoundBounds, ListBounds
  <2>2. CASE stored' = Append(stored, [chunk |-> r.chunk, receivedAt |-> now])
    <3>1. CASE i \in DOMAIN stored
      BY <1>3, <2>2, <3>1 DEF RecorderBounds, PaceBounds, RoundBounds, ListBounds
    <3>2. CASE i \notin DOMAIN stored
      <4>1. stored'[i] = [chunk |-> r.chunk, receivedAt |-> now] BY <1>3, <1>4, <2>2, <3>2
      <4> QED BY <1>3, <4>1
    <3> QED BY <3>1, <3>2
  <2> QED BY <1>2, <2>1, <2>2
<1> QED BY <1>2, <1>3, <1>4 DEF RecorderBounds, PaceBounds, RoundBounds, ListBounds, Log!None

(* The bounds are kept by every step of the client. *)
LEMMA RecorderBoundsNext ==
    ASSUME CommitInv, RecorderBounds, [Session \/ Record \/ Fight]_all PROVE RecorderBounds'
<1>1. CASE Record
  <2>1. CASE Log!SimulateFrame BY <2>1, FrameKeepsBounds
  <2>2. CASE Log!EndRound BY <2>2, RoundKeepsBounds
  <2>3. CASE Log!Receive BY <2>3, ReceiptKeepsBounds
  <2>4. CASE Log!Serve BY <2>4, ServeKeepsBounds
  <2>5. CASE Log!Tick \/ Log!Confirm \/ Log!Submit \/ Log!LoseAttempt \/ Log!DropRequest
    BY <2>5, OtherKeepsBounds
  <2> QED BY <1>1, <2>1, <2>2, <2>3, <2>4, <2>5 DEF Record, Log!Next
<1>2. CASE Session \/ Fight \/ UNCHANGED all
  <2>1. UNCHANGED recording BY <1>2 DEF Session, Fight, all
  <2> QED BY <2>1, OtherKeepsBounds
<1> QED BY <1>1, <1>2

(* The invariants say of the recorder what a run checks of it. *)
LEMMA RecorderIsTyped == ASSUME CommitInv, RecorderBounds PROVE Log!TypeOK
<1> USE BoundsAreNumbers
<1>1. RecorderTypes /\ ChainRuns /\ ServerFollows /\ TailBounds BY DEF CommitInv
<1>2. delay \in 0..Log!Max({Transition, 1})
  <2>1. Log!Max({Transition, 1}) = IF Transition >= 1 THEN Transition ELSE 1 BY MaxOfTwo
  <2> QED BY <2>1 DEF RecorderBounds, PaceBounds, RoundBounds, ListBounds
<1>3. /\ now \in Nat /\ waits \in 0..MaxWaits /\ attempt \in 0..MaxAttempts /\ failed \in BOOLEAN
      /\ pace \in 0..LastFrame /\ mutual \in -1..(pace - 1) /\ sealed \in -1..mutual
  BY <1>1 DEF RecorderBounds, PaceBounds, RoundBounds, ListBounds, RecorderTypes, TailBounds
<1>4. pending # Log!None => pending.epoch = Len(lengths) /\ pending.start + pending.inputs = pace
  BY <1>1 DEF RecorderBounds, PaceBounds, RoundBounds, ListBounds, TailBounds
<1>5. ASSUME NEW i \in DOMAIN queued
      PROVE  /\ queued[i].chunk \in Log!ChunkRecords
             /\ queued[i].chunk.sequence = Len(previousChain) + i - 1
  <2>1. /\ i \in 1..Len(queued) /\ Len(queued) \in Nat /\ Len(previousChain) \in Nat
        /\ nextSequence = Len(previousChain) + Len(queued) /\ queued[i] \in SealedRecords
    BY <1>1, <1>5 DEF RecorderTypes, RecorderBounds, PaceBounds, RoundBounds, ListBounds
  <2>2. Len(previousChain) + i \in 1..nextSequence /\ ~(Len(previousChain) + i <= Len(previousChain))
        /\ Len(previousChain) + i - Len(previousChain) = i BY <2>1
  <2>3. Sealing(Len(previousChain) + i) = queued[i].chunk BY <2>2 DEF Sealing
  <2> QED BY <1>1, <2>1, <2>2, <2>3 DEF ChainRuns, SealedRecords
<1>6. ASSUME NEW i \in DOMAIN stored
      PROVE  stored[i].chunk \in Log!ChunkRecords /\ stored[i].receivedAt \in 0..now
  <2>1. /\ i \in 1..nextSequence /\ stored[i].chunk = Sealing(i)
        /\ Len(queued) \in Nat /\ Len(previousChain) \in Nat
        /\ nextSequence = Len(previousChain) + Len(queued)
    BY <1>1, <1>6 DEF RecorderTypes, ServerFollows
  <2>2. Sealing(i) \in Log!ChunkRecords
    <3>1. CASE i <= Len(previousChain)
      BY <2>1, <3>1 DEF Sealing, RecorderBounds, PaceBounds, RoundBounds, ListBounds
    <3>2. CASE ~(i <= Len(previousChain))
      <4>1. i - Len(previousChain) \in 1..Len(queued) BY <2>1, <3>2
      <4>2. queued[i - Len(previousChain)] \in SealedRecords
        BY <4>1 DEF RecorderBounds, PaceBounds, RoundBounds, ListBounds
      <4> QED BY <3>2, <4>2 DEF Sealing, SealedRecords
    <3> QED BY <3>1, <3>2
  <2> QED BY <2>1, <2>2 DEF RecorderBounds, PaceBounds, RoundBounds, ListBounds
<1>7. nextSequence = Len(previousChain) + Len(queued) BY <1>1 DEF RecorderTypes
<1> QED BY <1>2, <1>3, <1>4, <1>5, <1>6, <1>7 DEF Log!TypeOK

(* In every state the client is within its types and bounds; between calls *)
(* every prediction repeats the input before it, a sealed chunk continues  *)
(* the one before it, and at a frame's end each fighter is in one piece:   *)
(* committed to one thing, in flight only if launched, boosting only in    *)
(* control (applyRemoteAuthoritativeInputs, rollbackAndResimulate,         *)
(* queueInputPrefix, drainQueue, step).                                    *)
THEOREM ClientInvariantHolds == PlaySpec => []ClientInvariant
<1>1. PlayInit => ClientInv
  BY SessionInvInit, CommitInvInit, RecorderBoundsInit, FightInit DEF PlayInit, ClientInv
<1>2. ClientInv /\ [Session \/ Record \/ Fight]_all => ClientInv'
  <2> SUFFICES ASSUME ClientInv, [Session \/ Record \/ Fight]_all PROVE ClientInv' OBVIOUS
  <2>1. [Next]_vars /\ part' = part BY DEF Session, Record, Fight, all
  <2>2. SessionInv' BY <2>1, SessionInvNext DEF ClientInv
  <2>3. CommitInv' /\ RecorderBounds' /\ FightInv'
    BY CommitInvNext, RecorderBoundsNext, FightInvNext DEF ClientInv
  <2> QED BY <2>1, <2>2, <2>3 DEF ClientInv
<1>3. ClientInv => ClientInvariant
  <2> SUFFICES ASSUME ClientInv PROVE ClientInvariant OBVIOUS
  <2>1. TimelineInvariant /\ Log!TypeOK /\ Duel!FightInvariant
    BY SessionIsSafe, RecorderIsTyped, FightSafe DEF ClientInv
  <2>2. CASE part = "session" BY <2>1, <2>2 DEF ClientInvariant
  <2>3. CASE part = "recorder" BY <2>1, <2>3 DEF ClientInvariant
  <2>4. CASE part = "fight" BY <2>1, <2>4 DEF ClientInvariant
  <2> QED BY <2>2, <2>3, <2>4 DEF ClientInv
<1> QED BY <1>1, <1>2, <1>3, PTL DEF PlaySpec
=============================================================================
