------------------------- MODULE FrameExchange_proofs -------------------------
(***************************************************************************)
(* Two clients pass from round to round together, lose no input, confirm   *)
(* only what they hold and never provoke a protocol error, for every       *)
(* number of rounds, every prediction window and batch size, any number of *)
(* recoveries and with the channel failing at any moment.  And the page    *)
(* that goes on and off line around such a match settles as it was asked   *)
(* to and hears nothing of a session it has left.                          *)
(***************************************************************************)
EXTENDS MCFrameExchange, FiniteSetTheorems, NaturalsInduction, WellFoundedInduction, TLAPS

(* What a message in transit to c is, seen as a set.                       *)
Index(c) == DOMAIN channel[c]
IsBatch(m, e) == m.type = "frame-batch" /\ m.epoch = e
IsAck(m, e) == m.type = "frame-ack" /\ m.epoch = e
IsConfirmation(m) == m.type = "frame-confirmation"
Linked(c) == transport[c] \in {"connected", "staged"}

(* The rounds a client counts and the epoch that it plays.                 *)
RoundsOf(c) ==
    /\ phase[c] = "playing" => frame[c] <= Decisive + MaxPrediction
    /\ phase[c] \in {"playing", "resolving"} => score[c] = epoch[c]
    /\ phase[c] = "transition" => score[c] = epoch[c] + 1 /\ score[c] < Rounds
    /\ phase[c] = "over" => score[c] = epoch[c] + 1 /\ score[c] = Rounds
    /\ phase[c] \in {"transition", "over"} => outbound[c] = {}
    /\ score[c] \in {epoch[c], epoch[c] + 1}
    /\ Playing(c) => frame[c] <= contiguous[c] + 1 + MaxPrediction
    /\ transport[c] \in {"reconnecting", "staged"} => recoveries[c] < MaxRecoveries

(* Nothing comes from an epoch that its sender has not reached.            *)
EpochsOf(c) ==
    LET p == Peer(c) IN
    /\ peerConfirmed[c] # None => epoch[c] <= epoch[p]
    /\ \A e \in Epoch : e > epoch[p] => heard[c][e] = None /\ received[c][e] = {}
    /\ \A e \in Epoch : e > epoch[c] => told[c][e] = None
    /\ \A i \in Index(c) :
          channel[c][i].epoch <= IF channel[c][i].type = "frame-ack" THEN epoch[c] ELSE epoch[p]

(* What a replaced channel leaves behind.                                  *)
LinkOf(c) ==
    LET p == Peer(c) IN
    /\ ~Linked(c) => channel[c] = <<>>
    /\ transport[p] = "staged" => channel[c] = <<>>
    /\ transport[p] = "staged" /\ transport[c] = "connected" =>
          heard[c] = Unsaid /\ peerConfirmed[c] = None
    /\ transport[c] = "staged" => score[c] = score[p]
    /\ transport[c] # "connected" => upload[c] = {}

(* The tail, the upload in flight and what has arrived of them.            *)
TailOf(c) ==
    LET p == Peer(c)
        e == epoch[c]
    IN  /\ \A f \in outbound[c] : f < frame[c] /\ f..(frame[c] - 1) \subseteq outbound[c]
        /\ upload[c] \subseteq outbound[c]
        /\ \A f \in upload[c], g \in outbound[c] : g <= f => g \in upload[c]
        /\ \A f \in outbound[c], g \in upload[c] : g < f + MaxBatch
        /\ \A f \in received[p][e] : f < frame[c]
        /\ \A f \in outbound[c], g \in received[p][e] : g < f + MaxBatch
        /\ \A i \in Index(p) : IsBatch(channel[p][i], e) =>
              /\ \A g \in channel[p][i].frames : g < frame[c]
              /\ \A f \in outbound[c], g \in channel[p][i].frames : g < f + MaxBatch

(* Batches come in the order of their epochs.                              *)
BatchesOf(c) ==
    /\ \A i, j \in Index(c) :
          /\ i < j /\ channel[c][i].type = "frame-batch" /\ channel[c][j].type = "frame-batch"
          => channel[c][i].epoch <= channel[c][j].epoch
    /\ \A i \in Index(c), e \in Epoch :
          channel[c][i].type = "frame-batch" /\ received[c][e] # {} => e <= channel[c][i].epoch

(* One upload at a time: while c has a channel, its batch or the           *)
(* acknowledgement of it is in transit, never both.                        *)
UploadOf(c) ==
    LET p == Peer(c)
        e == epoch[c]
    IN  Linked(c) =>
        /\ \A i \in Index(p) : IsBatch(channel[p][i], e) => channel[p][i].frames = upload[c] /\ upload[c] # {}
        /\ \A i \in Index(c) : IsAck(channel[c][i], e) => channel[c][i].frames = upload[c] /\ upload[c] # {}
        /\ \A i, j \in Index(p) : IsBatch(channel[p][i], e) /\ IsBatch(channel[p][j], e) => i = j
        /\ \A i, j \in Index(c) : IsAck(channel[c][i], e) /\ IsAck(channel[c][j], e) => i = j
        /\ \A i \in Index(p), j \in Index(c) : ~(IsBatch(channel[p][i], e) /\ IsAck(channel[c][j], e))

(* What is acknowledged or confirmed is held.                              *)
HeldOf(c) ==
    LET p == Peer(c) IN
    /\ 0..contiguous[c] \subseteq received[c][epoch[c]]
    /\ 0..peerConfirmed[c] \subseteq received[p][epoch[c]]
    /\ \A e \in Epoch : 0..heard[c][e] \subseteq received[p][e]
    /\ \A i \in Index(c) :
          /\ channel[c][i].type = "frame-ack" => channel[c][i].frames \subseteq received[p][channel[c][i].epoch]
          /\ IsConfirmation(channel[c][i]) => 0..channel[c][i].through \subseteq received[p][channel[c][i].epoch]
    /\ Playing(c) => 0..(frame[c] - 1) \subseteq outbound[c] \cup received[p][epoch[c]]

(* A client confirms nothing beyond its prefix.                            *)
PrefixOf(c) ==
    LET p == Peer(c)
        e == epoch[c]
    IN  /\ Playing(c) =>
            /\ told[c][e] <= contiguous[c]
            /\ heard[p][e] <= contiguous[c]
            /\ epoch[p] = e => peerConfirmed[p] <= contiguous[c]
            /\ \A i \in Index(p) : IsConfirmation(channel[p][i]) /\ channel[p][i].epoch = e =>
                  channel[p][i].through <= contiguous[c]
        /\ confirmationSent[c] <= told[c][e]

(* Confirmations come in order.                                            *)
OrderOf(c) ==
    /\ \A i, j \in Index(c) :
          i < j /\ IsConfirmation(channel[c][i]) /\ IsConfirmation(channel[c][j]) =>
            /\ channel[c][i].epoch <= channel[c][j].epoch
            /\ channel[c][i].epoch = channel[c][j].epoch => channel[c][i].through <= channel[c][j].through
    /\ \A i \in Index(c) : IsConfirmation(channel[c][i]) =>
          /\ latestConfirmation[c] <= channel[c][i].epoch
          /\ heard[c][channel[c][i].epoch] <= channel[c][i].through
    /\ latestConfirmation[c] <= epoch[Peer(c)]

(* What a connected client has confirmed is heard or on its way.           *)
DeliveryOf(c) ==
    LET p == Peer(c) IN
    transport[p] = "connected" /\ Linked(c) =>
        \A e \in Epoch :
            \/ told[p][e] = None
            \/ transport[c] = "connected" /\ told[p][e] <= heard[c][e]
            \/ \E i \in Index(c) : IsConfirmation(channel[c][i]) /\ channel[c][i].epoch = e
                                    /\ told[p][e] <= channel[c][i].through

(* A round that c has committed.                                           *)
CommitsOf(c) ==
    LET p == Peer(c) IN
    /\ score[c] <= epoch[p] + 1
    /\ \A e \in Epoch : e < score[c] => 0..Decisive \subseteq received[p][e]
    /\ score[p] < score[c] => Decisive <= told[c][epoch[p]]

Shape ==
    /\ TypeOK
    /\ upload \in [Client -> SUBSET Frame]
    /\ channel \in [Client -> Seq(Message)]

Rounding == \A c \in Client : RoundsOf(c)

-----------------------------------------------------------------------------
(* What is assumed of the parameters.                                        *)
LEMMA Constants ==
    /\ Rounds \in Nat \ {0} /\ Decisive \in Nat
    /\ MaxPrediction \in Nat \ {0} /\ MaxBatch \in Nat \ {0}
    /\ MaxOutbound \in Nat \ {0}
    /\ MaxRecoveries \in Nat /\ MaxBreaks \in Nat
BY ExchangeAssumption DEF ExchangeAssumption

(* The other of two.                                                         *)
LEMMA Peers ==
    ASSUME NEW c \in Client
    PROVE  /\ Peer(c) \in Client /\ Peer(c) # c /\ Peer(Peer(c)) = c
           /\ \A d \in Client : d = c \/ d = Peer(c)
<1>1. PICK a \in Client, b \in Client : a # b /\ Client = {a, b}
  BY ExchangeAssumption DEF ExchangeAssumption
<1>2. \A d \in Client : Peer(d) \in Client /\ Peer(d) # d
  BY <1>1 DEF Peer
<1> QED BY <1>1, <1>2

(* The numbers of the frames and of the rounds.                              *)
LEMMA Numbers ==
    /\ Frame \subseteq Nat /\ Cursor \subseteq Int /\ Epoch \subseteq Nat /\ None \in Int
    /\ \A f \in Int : f \in Frame <=> 0 <= f /\ f <= Decisive + MaxPrediction
    /\ \A f \in Int : f \in Cursor <=> -1 <= f /\ f <= Decisive + MaxPrediction
    /\ \A e \in Int : e \in Epoch <=> 0 <= e /\ e < Rounds
    /\ None = -1
BY Constants DEF Frame, Cursor, Epoch, None

(* A cursor is a number, -1 for none.                                       *)
LEMMA Cursors == \A f \in Cursor : f \in Int /\ None <= f /\ -1 <= f
BY Numbers

(* An epoch is the number of a round.                                       *)
LEMMA Epochs == \A e \in Epoch : e \in Nat /\ e \in Int /\ 0 <= e /\ e < Rounds
BY Constants, Numbers

(* Two messages, one behind the other.                                       *)
LEMMA Joined ==
    ASSUME NEW S, NEW a \in S, NEW b \in S
    PROVE  <<a>> \o <<b>> = <<a, b>>
<1>1. <<a>> \in Seq(S) /\ <<b>> \in Seq(S) /\ Len(<<a>>) = 1 /\ Len(<<b>>) = 1
  OBVIOUS
<1> DEFINE s == <<a>> \o <<b>>
<1>2. s \in Seq(S) /\ Len(s) = 2 /\ s[1] = a /\ s[2] = b
  BY <1>1
<1> HIDE DEF s
<1>3. s = <<a, b>>
  BY <1>2
<1> QED BY <1>3 DEF s

(* The first message of a queue, and the rest.                               *)
LEMMA Rest ==
    ASSUME NEW S, NEW s \in Seq(S), s # <<>>
    PROVE  /\ Tail(s) \in Seq(S) /\ 1 \in DOMAIN s /\ Head(s) = s[1] /\ Head(s) \in S
           /\ \A i \in DOMAIN Tail(s) : i \in Nat \ {0} /\ i + 1 \in DOMAIN s /\ i + 1 # 1 /\ Tail(s)[i] = s[i + 1]
OBVIOUS

(* A queue with more messages behind it.                                     *)
LEMMA Appended ==
    ASSUME NEW S, NEW s \in Seq(S), NEW u \in Seq(S)
    PROVE  /\ s \o u \in Seq(S)
           /\ \A i \in DOMAIN s : i \in DOMAIN (s \o u) /\ (s \o u)[i] = s[i]
           /\ \A i \in DOMAIN (s \o u) :
                 \/ i \in DOMAIN s /\ (s \o u)[i] = s[i]
                 \/ i > Len(s) /\ i - Len(s) \in DOMAIN u /\ (s \o u)[i] = u[i - Len(s)]
OBVIOUS

(* A set of numbers has a least one.                                         *)
LEMMA Least ==
    ASSUME NEW T \in SUBSET Nat, T # {}
    PROVE  \E m \in T : \A n \in T : m <= n
<1>1. IsWellFoundedOn(OpToRel(<, Nat), Nat)
  BY NatLessThanWellFounded
<1>2. PICK m \in T : \A n \in T : ~ (<<n, m>> \in OpToRel(<, Nat))
  BY <1>1, WFMin
<1>3. \A n \in T : n < m => <<n, m>> \in OpToRel(<, Nat)
  BY DEF OpToRel
<1>4. \A n \in T : ~ (n < m)
  BY <1>2, <1>3, Zenon
<1> QED BY <1>4

(* The prefix that a poll finds.                                             *)
LEMMA HeldThroughIs ==
    ASSUME NEW c \in Client, Shape
    PROVE  /\ HeldThrough(c) \in Cursor /\ contiguous[c] <= HeldThrough(c)
           /\ (contiguous[c] + 1)..HeldThrough(c) \subseteq received[c][epoch[c]]
<1> DEFINE gaps == ((contiguous[c] + 1)..(Decisive + MaxPrediction + 1)) \ received[c][epoch[c]]
           least == CHOOSE g \in gaps : \A h \in gaps : g <= h
<1>1. /\ contiguous[c] \in Int /\ -1 <= contiguous[c] /\ contiguous[c] <= Decisive + MaxPrediction
      /\ received[c][epoch[c]] \subseteq Frame
  <2>1. contiguous[c] \in Cursor /\ epoch[c] \in Epoch
    BY DEF Shape, TypeOK
  <2>2. received[c][epoch[c]] \subseteq Frame
    <3>1. received \in [Client -> [Epoch -> SUBSET Frame]]
      BY DEF Shape, TypeOK
    <3> QED BY <2>1, <3>1
  <2> QED BY <2>1, <2>2, Constants, Numbers
<1> USE Constants, Numbers
<1>2. gaps \subseteq Nat /\ Decisive + MaxPrediction + 1 \in gaps
  BY <1>1
<1>3. \E g \in gaps : \A h \in gaps : g <= h
  <2> HIDE DEF gaps
  <2> QED BY <1>2, Least
<1>4. least \in gaps /\ \A h \in gaps : least <= h
  <2> HIDE DEF gaps
  <2> QED BY <1>3
<1>5. HeldThrough(c) = least - 1
  BY DEF HeldThrough
<1>6. \A f \in (contiguous[c] + 1)..(least - 1) : f \in received[c][epoch[c]]
  BY <1>1, <1>4
<1> HIDE DEF least
<1> QED BY <1>1, <1>2, <1>4, <1>5, <1>6

-----------------------------------------------------------------------------
(* What the variables of a client are.                                       *)
LEMMA Shapes ==
    ASSUME NEW c \in Client, Shape
    PROVE  /\ phase[c] \in Phase /\ epoch[c] \in Epoch /\ frame[c] \in Nat
           /\ frame[c] <= Decisive + MaxPrediction + 1
           /\ final[c] \in Cursor /\ score[c] \in 0..Rounds
           /\ outbound[c] \subseteq Frame /\ upload[c] \subseteq outbound[c]
           /\ contiguous[c] \in Cursor /\ peerConfirmed[c] \in Cursor
           /\ confirmationSent[c] \in Cursor /\ confirmationSent[c] <= contiguous[c]
           /\ \A e \in Epoch : received[c][e] \subseteq Frame /\ heard[c][e] \in Cursor /\ told[c][e] \in Cursor
           /\ latestConfirmation[c] \in Epoch \cup {None}
           /\ transport[c] \in Transport /\ recoveries[c] \in 0..MaxRecoveries
           /\ channel[c] \in Seq(Message)
BY Constants DEF Shape, TypeOK

(* The numbers among them.                                                   *)
LEMMA Integers ==
    ASSUME NEW c \in Client, Shape
    PROVE  /\ frame[c] \in Int /\ contiguous[c] \in Int /\ peerConfirmed[c] \in Int
           /\ confirmationSent[c] \in Int /\ final[c] \in Int /\ epoch[c] \in Int /\ score[c] \in Int
<1>1. /\ contiguous[c] \in Cursor /\ peerConfirmed[c] \in Cursor /\ confirmationSent[c] \in Cursor
      /\ final[c] \in Cursor /\ frame[c] \in Nat /\ epoch[c] \in Epoch /\ score[c] \in 0..Rounds
  BY Shapes
<1>2. \A f \in Cursor : f \in Int
  BY Cursors
<1>3. \A e \in Epoch : e \in Int
  BY Epochs
<1>4. score[c] \in Int
  BY <1>1, Constants
<1>5. contiguous[c] \in Int /\ peerConfirmed[c] \in Int /\ confirmationSent[c] \in Int /\ final[c] \in Int
  BY <1>1, <1>2
<1>6. frame[c] \in Int
  BY <1>1
<1>7. epoch[c] \in Int
  BY <1>1, <1>3
<1> QED BY <1>4, <1>5, <1>6, <1>7

(* Everything starts well.                                                   *)
LEMMA ShapeInit == Init => Shape /\ Rounding
<1> USE Constants, Numbers
<1> SUFFICES ASSUME Init PROVE Shape /\ Rounding
  OBVIOUS
<1>1. TypeOK
  BY DEF Init, TypeOK, Phase, Transport, Unsaid
<1>2. Shape
  BY <1>1 DEF Init, Shape
<1>3. Rounding
  BY DEF Init, Rounding, RoundsOf, Playing
<1> QED BY <1>2, <1>3

(* A client that leaves the channel stays well formed.                       *)
LEMMA InterruptionKeepsShape ==
    ASSUME Shape, Rounding, NEW c \in Client, Interrupted(c),
           UNCHANGED <<wire, recoveries>>, breaks' \in 0..MaxBreaks, faulty' \subseteq Client
    PROVE  Shape' /\ Rounding'
<1> USE Constants, Numbers
<1>1. TypeOK'
  BY DEF Shape, TypeOK, Interrupted, wire, Phase, Transport
<1>2. Shape'
  BY <1>1 DEF Shape, TypeOK, Interrupted
<1>3. Rounding'
  BY DEF Shape, TypeOK, Interrupted, Rounding, RoundsOf, Playing, Phase
<1> QED BY <1>2, <1>3

(* So does one that waits for another channel.                               *)
LEMMA RecoveryKeepsShape ==
    ASSUME Shape, Rounding, NEW c \in Client, RequestRecovery(c),
           UNCHANGED <<wire, recoveries>>, breaks' \in 0..MaxBreaks, faulty' \subseteq Client
    PROVE  Shape' /\ Rounding'
<1> USE Constants, Numbers
<1>1. CASE Interrupted(c)
  BY <1>1, InterruptionKeepsShape
<1>2. CASE /\ ~(recoveries[c] >= MaxRecoveries)
           /\ transport' = [transport EXCEPT ![c] = "reconnecting"]
           /\ upload' = [upload EXCEPT ![c] = {}]
           /\ channel' = [channel EXCEPT ![c] = <<>>]
           /\ UNCHANGED <<loop, outbound, contiguous, peerConfirmed, confirmationSent>>
  <2>1. TypeOK'
    BY <1>2 DEF Shape, TypeOK, loop, wire, Transport
  <2>2. Shape'
    BY <1>2, <2>1 DEF Shape, TypeOK
  <2>3. Rounding'
    BY <1>2 DEF Shape, TypeOK, loop, Rounding, RoundsOf, Playing
  <2> QED BY <2>2, <2>3
<1> QED BY <1>1, <1>2 DEF RequestRecovery


(* The frames that may look decisive, and what follows for the play.         *)
LEMMA WinningIs ==
    ASSUME NEW c \in Client, NEW n \in Nat, n <= Decisive + MaxPrediction + 1,
           contiguous[c] \in Cursor, NEW f \in WinningFrames(c, n)
    PROVE  /\ f \in Cursor
           /\ f = None => n <= Decisive \/ contiguous[c] < Decisive
           /\ f # None /\ f <= contiguous[c] => f = Decisive
<1> USE Constants, Numbers
<1>1. CASE Decisive <= contiguous[c] /\ Decisive < n
  <2>1. f = Decisive
    BY <1>1 DEF WinningFrames
  <2> QED BY <2>1
<1>2. CASE ~(Decisive <= contiguous[c] /\ Decisive < n)
  <2>1. f = None \/ f \in (contiguous[c] + 1)..(n - 1)
    BY <1>2 DEF WinningFrames
  <2>3. contiguous[c] \in Int /\ -1 <= contiguous[c]
    OBVIOUS
  <2>2. n <= Decisive \/ contiguous[c] < Decisive
    <3>1. ~(Decisive <= contiguous[c]) => contiguous[c] < Decisive
      BY <2>3
    <3>2. ~(Decisive < n) => n <= Decisive
      OBVIOUS
    <3> QED BY <1>2, <3>1, <3>2
  <2>4. CASE f = None
    BY <2>2, <2>4
  <2>5. CASE f \in (contiguous[c] + 1)..(n - 1)
    <3>1. f \in Int /\ 0 <= f /\ f <= Decisive + MaxPrediction /\ f > contiguous[c]
      BY <2>3, <2>5
    <3> QED BY <2>3, <3>1
  <2> QED BY <2>1, <2>4, <2>5
<1> QED BY <1>1, <1>2

(* What is confirmed by both is in the client's own prefix.                  *)
LEMMA MutualIs ==
    ASSUME NEW c \in Client, Shape
    PROVE  /\ Mutual(c) \in Cursor /\ Mutual(c) <= contiguous[c]
           /\ Mutual(c) <= peerConfirmed[c] /\ Mutual(c) <= confirmationSent[c]
<1>1. contiguous[c] \in Int /\ peerConfirmed[c] \in Int /\ confirmationSent[c] \in Int
  BY Integers
<1>2. contiguous[c] \in Cursor /\ peerConfirmed[c] \in Cursor /\ confirmationSent[c] \in Cursor
  BY Shapes
<1> QED BY <1>1, <1>2 DEF Mutual, Smaller

(* The game loop.                                                            *)
LEMMA SimulateFrameKeepsShape ==
    ASSUME Shape, Rounding, NEW c \in Client, SimulateFrame(c)
    PROVE  Shape' /\ Rounding'
<1> USE Constants, Numbers
<1>1. CASE Interrupted(c) /\ faulty' = faulty \cup {c} /\ UNCHANGED <<wire, recoveries, breaks>>
  BY <1>1, InterruptionKeepsShape DEF Shape, TypeOK
<1>2. ASSUME NEW f \in WinningFrames(c, frame[c] + 1),
             /\ frame' = [frame EXCEPT ![c] = @ + 1]
             /\ outbound' = [outbound EXCEPT ![c] = @ \cup {frame[c]}]
             /\ final' = [final EXCEPT ![c] = f]
             /\ phase' = [phase EXCEPT ![c] = IF f = None THEN @ ELSE "resolving"]
             /\ UNCHANGED <<epoch, score, upload, contiguous, peerConfirmed, confirmationSent, wire, link, channel, faulty>>
      PROVE  Shape' /\ Rounding'
  <2>1. phase[c] = "playing" /\ CanAdvance(c)
    BY DEF SimulateFrame
  <2>2. frame[c] <= Decisive + MaxPrediction /\ score[c] = epoch[c]
    BY <2>1 DEF Rounding, RoundsOf
  <2>3. frame[c] + 1 <= contiguous[c] + 1 + MaxPrediction
    <3>1. frame[c] \in Int /\ contiguous[c] \in Int /\ Mutual(c) \in Int
      BY Integers, MutualIs, Cursors
    <3>2. Mutual(c) <= contiguous[c] /\ frame[c] - (Mutual(c) + 1) < MaxPrediction
      BY <2>1, MutualIs DEF CanAdvance
    <3> QED BY <3>1, <3>2
  <2>4. f \in Cursor /\ (f = None => frame[c] + 1 <= Decisive \/ contiguous[c] < Decisive)
    BY <2>2, Shapes, WinningIs
  <2>5. TypeOK'
    <3>1. frame' \in [Client -> 0..(Decisive + MaxPrediction + 1)]
      <4>1. frame[c] + 1 \in 0..(Decisive + MaxPrediction + 1)
        BY <2>2, Shapes
      <4> QED BY <1>2, <4>1 DEF Shape, TypeOK
    <3>2. phase' \in [Client -> Phase] /\ final' \in [Client -> Cursor]
      BY <1>2, <2>4 DEF Shape, TypeOK, Phase
    <3>3. outbound' \in [Client -> SUBSET Frame] /\ \A d \in Client : upload[d] \subseteq outbound'[d]
      <4>1. frame[c] \in Frame
        BY <2>2, Shapes DEF Frame
      <4>2. \A d \in Client : outbound'[d] = IF d = c THEN outbound[d] \cup {frame[c]} ELSE outbound[d]
        BY <1>2 DEF Shape, TypeOK
      <4>3. outbound' \in [Client -> SUBSET Frame]
        BY <1>2, <4>1 DEF Shape, TypeOK
      <4> QED BY <4>2, <4>3 DEF Shape, TypeOK
    <3>4. UNCHANGED <<epoch, score, upload, contiguous, peerConfirmed, confirmationSent, received, heard, told,
                      latestConfirmation, transport, recoveries, breaks, channel, faulty>>
      BY <1>2 DEF wire, link
    <3> QED BY <3>1, <3>2, <3>3, <3>4 DEF Shape, TypeOK
  <2>6. Shape'
    BY <1>2, <2>5 DEF Shape, TypeOK
  <2>7. f = None => frame[c] + 1 <= Decisive + MaxPrediction
    BY <2>3, <2>4, Integers
  <2>8. Rounding'
    BY <1>2, <2>1, <2>2, <2>3, <2>7 DEF Shape, TypeOK, Rounding, RoundsOf, Playing, wire, link
  <2> QED BY <2>6, <2>8
<1> QED BY <1>1, <1>2 DEF SimulateFrame

(* A round is resolved: committed, corrected or waited for.                 *)
LEMMA ResolveRoundKeepsShape ==
    ASSUME Shape, Rounding, NEW c \in Client, ResolveRound(c)
    PROVE  Shape' /\ Rounding'
<1> USE Constants, Numbers
<1>1. PICK f \in WinningFrames(c, frame[c]) :
          /\ final' = [final EXCEPT ![c] = f]
          /\ IF f # None /\ Synchronized(c, f) THEN CommitRound(c)
             ELSE /\ phase' = [phase EXCEPT ![c] = IF f = None THEN "playing" ELSE @]
                  /\ UNCHANGED score
  BY DEF ResolveRound
<1>2. phase[c] = "resolving" /\ UNCHANGED <<epoch, frame, pump, wire, link, channel, faulty>>
  BY DEF ResolveRound
<1>3. score[c] = epoch[c] /\ frame[c] <= contiguous[c] + 1 + MaxPrediction
  BY <1>2 DEF Rounding, RoundsOf, Playing
<1>4. f \in Cursor /\ (f = None => frame[c] <= Decisive \/ contiguous[c] < Decisive)
  BY Shapes, WinningIs
<1>5. CASE f # None /\ Synchronized(c, f)
  <2>1. outbound[c] = {} /\ CommitRound(c)
    BY <1>1, <1>5 DEF Synchronized
  <2>2. TypeOK'
    BY <1>1, <1>2, <1>3, <1>4, <2>1 DEF Shape, TypeOK, pump, wire, link, Phase, CommitRound
  <2>3. Shape'
    BY <1>2, <2>2 DEF Shape, TypeOK, pump
  <2>4. Rounding'
    BY <1>2, <1>3, <2>1 DEF Shape, TypeOK, Rounding, RoundsOf, Playing, pump, wire, link, CommitRound
  <2> QED BY <2>3, <2>4
<1>6. CASE ~(f # None /\ Synchronized(c, f))
  <2>1. phase' = [phase EXCEPT ![c] = IF f = None THEN "playing" ELSE @] /\ UNCHANGED score
    BY <1>1, <1>6
  <2>2. TypeOK'
    BY <1>1, <1>2, <1>4, <2>1 DEF Shape, TypeOK, pump, wire, link, Phase
  <2>3. Shape'
    BY <1>2, <2>2 DEF Shape, TypeOK, pump
  <2>4. f = None => frame[c] <= Decisive + MaxPrediction
    <3>1. contiguous[c] \in Cursor /\ frame[c] \in Nat
      BY Shapes
    <3>2. contiguous[c] \in Int
      BY <3>1
    <3>3. ASSUME contiguous[c] < Decisive PROVE frame[c] <= Decisive + MaxPrediction
      BY <1>3, <3>1, <3>2, <3>3
    <3>4. ASSUME frame[c] <= Decisive PROVE frame[c] <= Decisive + MaxPrediction
      BY <3>1, <3>4
    <3> QED BY <1>4, <3>3, <3>4
  <2>5. Rounding'
    BY <1>2, <1>3, <2>1, <2>4 DEF Shape, TypeOK, Rounding, RoundsOf, Playing, pump, wire, link
  <2> QED BY <2>3, <2>5
<1> QED BY <1>5, <1>6

(* The next round starts from its first frame.                              *)
LEMMA NextRoundKeepsShape ==
    ASSUME Shape, Rounding, NEW c \in Client, NextRound(c)
    PROVE  Shape' /\ Rounding'
<1> USE Constants, Numbers
<1>1. phase[c] = "transition" /\ score[c] = epoch[c] + 1 /\ score[c] < Rounds
  BY DEF NextRound, Rounding, RoundsOf
<1>2. TypeOK'
  BY <1>1 DEF NextRound, StartEpoch, Shape, TypeOK, wire, link, Phase
<1>3. Shape'
  BY <1>2 DEF NextRound, StartEpoch, Shape, TypeOK
<1>4. Rounding'
  BY <1>1 DEF NextRound, StartEpoch, Shape, TypeOK, Rounding, RoundsOf, Playing, wire, link
<1> QED BY <1>3, <1>4

(* What a batch may be: the upload in flight stays in the tail.              *)
LEMMA LowestIs ==
    ASSUME NEW frames
    PROVE  Lowest(frames) \subseteq frames
BY DEF Lowest

(* What is sent keeps a queue a queue.                                       *)
LEMMA SentIs ==
    ASSUME Shape, NEW p \in Client, NEW messages \in Seq(Message)
    PROVE  Sent(p, messages) \in Seq(Message)
BY Shapes, Appended DEF Sent

(* The messages themselves.                                                  *)
LEMMA Messages ==
    ASSUME NEW e \in Epoch
    PROVE  /\ \A frames \in SUBSET Frame : Batch(e, frames) \in Message /\ Ack(e, frames) \in Message
           /\ \A through \in Frame : Confirmation(e, through) \in Message
           /\ \A m \in Message :
                /\ m.type \in {"frame-batch", "frame-ack", "frame-confirmation"} /\ m.epoch \in Epoch
                /\ m.type \in {"frame-batch", "frame-ack"} => m.frames \in SUBSET Frame
                /\ m.type = "frame-confirmation" => m.through \in Frame
BY DEF Batch, Ack, Confirmation, Message


(* What a flush sends.                                                       *)
Uploading(c) == IF upload[c] = {} THEN Lowest(outbound[c]) ELSE {}
Outgoing(c) ==
    (IF Uploading(c) = {} THEN <<>> ELSE <<Batch(epoch[c], Uploading(c))>>)
    \o (IF Confirmable(c) THEN <<Confirmation(epoch[c], contiguous[c])>> ELSE <<>>)

(* A flush: the upload, the confirmation and the poll, apart.               *)
LEMMA FlushIs ==
    ASSUME NEW c \in Client, Flush(c)
    PROVE  /\ Playing(c) /\ transport[c] = "connected"
           /\ upload' = [upload EXCEPT ![c] = @ \cup Uploading(c)]
           /\ channel' = [channel EXCEPT ![Peer(c)] = Sent(Peer(c), Outgoing(c))]
           /\ told' = [told EXCEPT ![c][epoch[c]] = IF Confirmable(c) THEN contiguous[c] ELSE @]
           /\ confirmationSent' = [confirmationSent EXCEPT ![c] = IF @ < contiguous[c] THEN contiguous[c] ELSE @]
           /\ peerConfirmed' = [peerConfirmed EXCEPT ![c] = IF @ < heard[c][epoch[c]] THEN heard[c][epoch[c]] ELSE @]
           /\ contiguous' = [contiguous EXCEPT ![c] = HeldThrough(c)]
           /\ UNCHANGED <<loop, outbound, received, heard, latestConfirmation, link, faulty>>
BY DEF Flush, Uploading, Outgoing, Playing

(* What a flush sends: at most a batch and, behind it, a confirmation.      *)
LEMMA OutgoingIs ==
    ASSUME NEW c \in Client, Shape
    PROVE  /\ Uploading(c) \subseteq outbound[c] /\ Uploading(c) \in SUBSET Frame
           /\ Confirmable(c) => contiguous[c] \in Frame
           /\ Outgoing(c) \in Seq(Message)
           /\ \A k \in DOMAIN Outgoing(c) :
                 \/ k = 1 /\ Uploading(c) # {} /\ Outgoing(c)[k] = Batch(epoch[c], Uploading(c))
                 \/ /\ Confirmable(c) /\ Outgoing(c)[k] = Confirmation(epoch[c], contiguous[c])
                    /\ \A l \in DOMAIN Outgoing(c) : l <= k
           /\ Confirmable(c) =>
                 \E k \in DOMAIN Outgoing(c) : Outgoing(c)[k] = Confirmation(epoch[c], contiguous[c])
<1> DEFINE batch == Batch(epoch[c], Uploading(c))
           confirmation == Confirmation(epoch[c], contiguous[c])
<1>1. Uploading(c) \subseteq outbound[c] /\ Uploading(c) \in SUBSET Frame
  BY Shapes, LowestIs DEF Uploading
<1>2. Confirmable(c) => contiguous[c] \in Frame
  <2>1. confirmationSent[c] \in Cursor /\ contiguous[c] \in Cursor
    BY Shapes
  <2>2. /\ confirmationSent[c] \in Int /\ contiguous[c] \in Int /\ -1 <= confirmationSent[c]
        /\ contiguous[c] <= Decisive + MaxPrediction
    BY <2>1, Constants, Numbers
  <2>3. Confirmable(c) => confirmationSent[c] < contiguous[c]
    BY DEF Confirmable
  <2> QED BY <2>2, <2>3, Constants, Numbers
<1>3. batch \in Message /\ (Confirmable(c) => confirmation \in Message)
  BY <1>1, <1>2, Shapes, Messages
<1> HIDE DEF batch, confirmation
<1>4. Outgoing(c) = (IF Uploading(c) = {} THEN <<>> ELSE <<batch>>)
                    \o (IF Confirmable(c) THEN <<confirmation>> ELSE <<>>)
  BY DEF Outgoing, batch, confirmation
<1>5. CASE Uploading(c) = {} /\ ~Confirmable(c)
  <2>1. Outgoing(c) = <<>>
    BY <1>4, <1>5
  <2> QED BY <1>1, <1>5, <2>1
<1>6. CASE Uploading(c) # {} /\ ~Confirmable(c)
  <2>1. Outgoing(c) = <<batch>>
    BY <1>4, <1>6
  <2> QED BY <1>1, <1>3, <1>6, <2>1 DEF batch
<1>7. CASE Uploading(c) = {} /\ Confirmable(c)
  <2>1. Outgoing(c) = <<confirmation>>
    BY <1>4, <1>7
  <2> QED BY <1>1, <1>2, <1>3, <1>7, <2>1 DEF confirmation
<1>8. CASE Uploading(c) # {} /\ Confirmable(c)
  <2>1. Outgoing(c) = <<batch, confirmation>>
    <3>1. Outgoing(c) = <<batch>> \o <<confirmation>>
      BY <1>4, <1>8
    <3> QED BY <1>3, <1>8, <3>1, Joined
  <2> QED BY <1>1, <1>2, <1>3, <1>8, <2>1 DEF batch, confirmation
<1> QED BY <1>5, <1>6, <1>7, <1>8

(* The pump and the channel under it.                                        *)
LEMMA FlushKeepsShape ==
    ASSUME Shape, Rounding, NEW c \in Client, Flush(c)
    PROVE  Shape' /\ Rounding'
<1> USE Constants, Numbers
<1> DEFINE p == Peer(c)
<1>1. p \in Client
  BY Peers
<1>2. Sent(p, Outgoing(c)) \in Seq(Message)
  BY <1>1, OutgoingIs, SentIs
<1>3. HeldThrough(c) \in Cursor /\ contiguous[c] <= HeldThrough(c)
  BY HeldThroughIs
<1>4. channel' \in [Client -> Seq(Message)]
  BY <1>1, <1>2, FlushIs DEF Shape
<1>5. upload' \in [Client -> SUBSET Frame] /\ \A d \in Client : upload'[d] \subseteq outbound'[d]
  <2>1. upload' = [upload EXCEPT ![c] = upload[c] \cup Uploading(c)] /\ outbound' = outbound
    BY FlushIs
  <2>2. upload \in [Client -> SUBSET Frame] /\ \A d \in Client : upload[d] \subseteq outbound[d]
    BY DEF Shape, TypeOK
  <2>3. Uploading(c) \subseteq outbound[c] /\ Uploading(c) \in SUBSET Frame
    BY OutgoingIs
  <2> QED BY <2>1, <2>2, <2>3
<1>6. told' \in [Client -> [Epoch -> Cursor]]
  <2>1. told' = [told EXCEPT ![c][epoch[c]] = IF Confirmable(c) THEN contiguous[c] ELSE @]
    BY FlushIs
  <2>2. told \in [Client -> [Epoch -> Cursor]] /\ epoch[c] \in Epoch /\ contiguous[c] \in Cursor
    BY DEF Shape, TypeOK
  <2> QED BY <2>1, <2>2
<1>7. /\ contiguous' \in [Client -> Cursor] /\ peerConfirmed' \in [Client -> Cursor]
      /\ confirmationSent' \in [Client -> Cursor]
      /\ \A d \in Client : confirmationSent'[d] <= contiguous'[d]
  <2>1. /\ confirmationSent' = [confirmationSent EXCEPT ![c] = IF @ < contiguous[c] THEN contiguous[c] ELSE @]
        /\ peerConfirmed' = [peerConfirmed EXCEPT ![c] = IF @ < heard[c][epoch[c]] THEN heard[c][epoch[c]] ELSE @]
        /\ contiguous' = [contiguous EXCEPT ![c] = HeldThrough(c)]
    BY FlushIs
  <2>2. heard[c][epoch[c]] \in Cursor
    BY Shapes
  <2>3. /\ contiguous \in [Client -> Cursor] /\ peerConfirmed \in [Client -> Cursor]
        /\ confirmationSent \in [Client -> Cursor]
        /\ \A d \in Client : confirmationSent[d] <= contiguous[d]
    BY DEF Shape, TypeOK
  <2>4. confirmationSent'[c] = IF confirmationSent[c] < contiguous[c] THEN contiguous[c] ELSE confirmationSent[c]
    BY <2>1, <2>3
  <2>5. confirmationSent'[c] <= contiguous[c] /\ confirmationSent'[c] \in Cursor
    <3>1. confirmationSent[c] \in Cursor /\ contiguous[c] \in Cursor /\ confirmationSent[c] <= contiguous[c]
      BY <2>3
    <3>2. confirmationSent[c] \in Int /\ contiguous[c] \in Int
      BY <3>1
    <3> QED BY <2>4, <3>1, <3>2
  <2>6. confirmationSent'[c] <= contiguous'[c]
    <3>1. contiguous'[c] = HeldThrough(c)
      BY <2>1, <2>3
    <3>2. confirmationSent'[c] \in Int /\ contiguous[c] \in Int /\ HeldThrough(c) \in Int
      BY <1>3, <2>5, Integers, Cursors
    <3> QED BY <1>3, <2>5, <3>1, <3>2
  <2>7. \A d \in Client : d # c => confirmationSent'[d] = confirmationSent[d] /\ contiguous'[d] = contiguous[d]
    BY <2>1, <2>3
  <2>8. contiguous' \in [Client -> Cursor] /\ peerConfirmed' \in [Client -> Cursor]
    BY <1>3, <2>1, <2>2, <2>3
  <2> QED BY <2>1, <2>3, <2>5, <2>6, <2>7, <2>8
<1>8. UNCHANGED <<loop, outbound, received, heard, latestConfirmation, link, faulty>>
  BY FlushIs
<1>9. Shape'
  <2>1. \A d \in Client : \A i \in DOMAIN channel'[d] : channel'[d][i] \in Message
    BY <1>4
  <2> QED BY <1>4, <1>5, <1>6, <1>7, <1>8, <2>1 DEF Shape, TypeOK, loop, link
<1>10. Rounding'
  <2>1. ASSUME NEW d \in Client
        PROVE  /\ contiguous[d] \in Int /\ contiguous'[d] \in Int /\ contiguous[d] <= contiguous'[d]
    <3>1. contiguous'[d] = IF d = c THEN HeldThrough(c) ELSE contiguous[d]
      BY FlushIs DEF Shape, TypeOK
    <3>2. contiguous[d] \in Int /\ HeldThrough(c) \in Int
      BY <1>3, Integers, Cursors
    <3> QED BY <1>3, <3>1, <3>2
  <2>2. ASSUME NEW d \in Client
        PROVE  Playing(d) => frame[d] <= contiguous'[d] + 1 + MaxPrediction
    <3>1. Playing(d) => frame[d] <= contiguous[d] + 1 + MaxPrediction
      BY DEF Rounding, RoundsOf
    <3> QED BY <2>1, <3>1, Integers
  <2> QED BY <1>8, <2>2 DEF Rounding, RoundsOf, Playing, loop, link
<1> QED BY <1>9, <1>10

(* What is delivered is the first message.                                   *)
LEMMA HeadIs ==
    ASSUME Shape, NEW c \in Client, channel[c] # <<>>
    PROVE  Head(channel[c]) \in Message /\ Tail(channel[c]) \in Seq(Message)
BY Shapes, Rest

(* A message of the declared types leaves the types as they are.            *)
LEMMA DeliverKeepsShape ==
    ASSUME Shape, Rounding, NEW c \in Client, Deliver(c)
    PROVE  Shape' /\ Rounding'
<1> USE Constants, Numbers
<1> DEFINE m == Head(channel[c])
           p == Peer(c)
<1>1. channel[c] # <<>> /\ m \in Message /\ Tail(channel[c]) \in Seq(Message) /\ m.epoch \in Epoch
  <2>1. channel[c] # <<>>
    BY DEF Deliver
  <2>2. m \in Message /\ Tail(channel[c]) \in Seq(Message)
    BY <2>1, HeadIs
  <2>3. m.epoch \in Epoch
    BY <2>2 DEF Message
  <2> QED BY <2>1, <2>2, <2>3
<1>2. p \in Client /\ p # c
  BY Peers
<1> HIDE DEF p, m
<1>3. CASE Interrupted(c) /\ faulty' = faulty \cup {c} /\ UNCHANGED <<wire, recoveries, breaks>>
  BY <1>3, InterruptionKeepsShape DEF Shape, TypeOK
<1>4. CASE m.type = "frame-batch" /\ ReceiveBatch(c, m)
  <2>1. m.frames \in SUBSET Frame /\ <<Ack(m.epoch, m.frames)>> \in Seq(Message)
    <3>1. m.frames \in SUBSET Frame
      BY <1>1, <1>4, Messages
    <3>2. Ack(m.epoch, m.frames) \in Message
      BY <1>1, <3>1, Messages
    <3> QED BY <3>1, <3>2
  <2>2. channel' \in [Client -> Seq(Message)]
    BY <1>1, <1>2, <1>4, <2>1, SentIs DEF ReceiveBatch, Shape, p
  <2>3. received' \in [Client -> [Epoch -> SUBSET Frame]]
    <3>1. received' = [received EXCEPT ![c][m.epoch] = @ \cup m.frames]
      BY <1>4 DEF ReceiveBatch
    <3>2. received \in [Client -> [Epoch -> SUBSET Frame]]
      BY DEF Shape, TypeOK
    <3> QED BY <1>1, <2>1, <3>1, <3>2
  <2>4. UNCHANGED <<loop, pump, heard, told, latestConfirmation, link, faulty>>
    BY <1>4 DEF ReceiveBatch
  <2>5. \A d \in Client : \A i \in DOMAIN channel'[d] : channel'[d][i] \in Message
    BY <2>2
  <2>6. Shape'
    BY <2>2, <2>3, <2>4, <2>5 DEF Shape, TypeOK, loop, pump, link
  <2> QED BY <2>4, <2>6 DEF Shape, TypeOK, Rounding, RoundsOf, Playing, loop, pump, link
<1>5. CASE m.type = "frame-ack" /\ ReceiveAck(c, m)
  <2>1. channel' \in [Client -> Seq(Message)]
    BY <1>1, <1>5 DEF ReceiveAck, Shape
  <2>2. UNCHANGED <<loop, contiguous, peerConfirmed, confirmationSent, wire, link, faulty>>
    BY <1>5 DEF ReceiveAck
  <2>3. /\ upload' \in [Client -> SUBSET Frame] /\ outbound' \in [Client -> SUBSET Frame]
        /\ \A d \in Client : upload'[d] \subseteq outbound'[d] /\ outbound'[d] \subseteq outbound[d]
    <3>1. upload \in [Client -> SUBSET Frame] /\ outbound \in [Client -> SUBSET Frame]
      BY DEF Shape, TypeOK
    <3>2. \A d \in Client : upload[d] \subseteq outbound[d]
      BY Shapes
    <3>3. CASE m.epoch = epoch[c]
      <4>1. /\ upload' = [upload EXCEPT ![c] = {}]
            /\ outbound' = [outbound EXCEPT ![c] = outbound[c] \ m.frames]
        BY <1>5, <3>3 DEF ReceiveAck, Acknowledged
      <4>2. outbound[c] \ m.frames \in SUBSET Frame
        BY <3>1
      <4>3. upload' \in [Client -> SUBSET Frame] /\ outbound' \in [Client -> SUBSET Frame]
        BY <3>1, <4>1, <4>2
      <4>4. /\ upload'[c] = {} /\ outbound'[c] = outbound[c] \ m.frames
            /\ \A d \in Client : d # c => upload'[d] = upload[d] /\ outbound'[d] = outbound[d]
        BY <3>1, <4>1
      <4> QED BY <3>2, <4>3, <4>4
    <3>4. CASE m.epoch # epoch[c]
      <4>1. upload' = upload /\ outbound' = outbound
        BY <1>5, <3>4 DEF ReceiveAck
      <4> QED BY <3>1, <3>2, <4>1
    <3> QED BY <3>3, <3>4
  <2>4. \A d \in Client : \A i \in DOMAIN channel'[d] : channel'[d][i] \in Message
    BY <2>1
  <2>5. Shape'
    BY <2>1, <2>2, <2>3, <2>4 DEF Shape, TypeOK, loop, wire, link
  <2> QED BY <2>2, <2>3, <2>5 DEF Shape, TypeOK, Rounding, RoundsOf, Playing, loop, wire, link
<1>6. CASE m.type = "frame-confirmation" /\ ReceiveConfirmation(c, m)
  <2>1. channel' \in [Client -> Seq(Message)]
    BY <1>1, <1>6 DEF ReceiveConfirmation, Shape
  <2>2. m.through \in Frame
    BY <1>1, <1>6, Messages
  <2>3. /\ heard' \in [Client -> [Epoch -> Cursor]]
        /\ latestConfirmation' \in [Client -> Epoch \cup {None}]
    <3>1. /\ heard' = [heard EXCEPT ![c][m.epoch] = m.through]
          /\ latestConfirmation' = [latestConfirmation EXCEPT ![c] = IF @ < m.epoch THEN m.epoch ELSE @]
      BY <1>6 DEF ReceiveConfirmation
    <3>2. /\ heard \in [Client -> [Epoch -> Cursor]]
          /\ latestConfirmation \in [Client -> Epoch \cup {None}]
      BY DEF Shape, TypeOK
    <3>3. m.through \in Cursor
      BY <2>2 DEF Cursor
    <3>4. heard' \in [Client -> [Epoch -> Cursor]]
      BY <1>1, <3>1, <3>2, <3>3
    <3> QED BY <1>1, <3>1, <3>2, <3>4
  <2>4. UNCHANGED <<loop, pump, received, told, link, faulty>>
    BY <1>6 DEF ReceiveConfirmation
  <2>5. \A d \in Client : \A i \in DOMAIN channel'[d] : channel'[d][i] \in Message
    BY <2>1
  <2>6. Shape'
    BY <2>1, <2>3, <2>4, <2>5 DEF Shape, TypeOK, loop, pump, link
  <2> QED BY <2>4, <2>6 DEF Shape, TypeOK, Rounding, RoundsOf, Playing, loop, pump, link
<1>7. m.type \in {"frame-batch", "frame-ack", "frame-confirmation"}
  BY <1>1, Messages
<1> QED BY <1>3, <1>4, <1>5, <1>6, <1>7 DEF Deliver, m


(* The replacement of the channel.                                           *)
LEMMA LoseChannelKeepsShape ==
    ASSUME Shape, Rounding, NEW c \in Client, LoseChannel(c) \/ ObserveClose(c)
    PROVE  Shape' /\ Rounding'
<1>1. /\ RequestRecovery(c) /\ UNCHANGED <<wire, recoveries, faulty>>
      /\ breaks' = breaks \/ (breaks < MaxBreaks /\ breaks' = breaks + 1)
  BY DEF LoseChannel, ObserveClose
<1>2. breaks' \in 0..MaxBreaks /\ faulty' \subseteq Client
  BY <1>1, Constants DEF Shape, TypeOK
<1> QED BY <1>1, <1>2, RecoveryKeepsShape

(* So does the exchange of the checkpoints,                                 *)
LEMMA ExchangeKeepsShape ==
    ASSUME Shape, Rounding, ExchangeCheckpoints
    PROVE  Shape' /\ Rounding'
<1>1. PICK t \in {"staged", "refused"} : transport' = [c \in Client |-> t]
  BY DEF ExchangeCheckpoints
<1>2. \A c \in Client : transport[c] = "reconnecting"
  BY DEF ExchangeCheckpoints
<1>3. Shape'
  BY <1>1 DEF ExchangeCheckpoints, Shape, TypeOK, loop, pump, wire, Transport
<1>4. Rounding'
  BY <1>1, <1>2 DEF ExchangeCheckpoints, Rounding, RoundsOf, Playing, loop, pump
<1> QED BY <1>3, <1>4

(* the activation of the replacement,                                       *)
LEMMA ActivateKeepsShape ==
    ASSUME Shape, Rounding, NEW c \in Client, Activate(c)
    PROVE  Shape' /\ Rounding'
<1> USE Constants, Numbers
<1>1. recoveries[c] < MaxRecoveries /\ recoveries[c] \in Nat
  BY Shapes DEF Activate, Rounding, RoundsOf
<1>2. Unsaid \in [Epoch -> Cursor]
  BY DEF Unsaid
<1>3. /\ transport' \in [Client -> Transport] /\ recoveries' \in [Client -> 0..MaxRecoveries]
      /\ heard' \in [Client -> [Epoch -> Cursor]] /\ told' \in [Client -> [Epoch -> Cursor]]
  BY <1>1, <1>2 DEF Activate, Shape, TypeOK, Transport
<1>4. /\ peerConfirmed' \in [Client -> Cursor] /\ confirmationSent' \in [Client -> Cursor]
      /\ contiguous' = contiguous
      /\ \A d \in Client : confirmationSent'[d] <= contiguous'[d]
  <2>1. /\ peerConfirmed' = [peerConfirmed EXCEPT ![c] = None]
        /\ confirmationSent' = [confirmationSent EXCEPT ![c] = None] /\ contiguous' = contiguous
    BY DEF Activate, Resume
  <2>2. /\ peerConfirmed \in [Client -> Cursor] /\ confirmationSent \in [Client -> Cursor]
        /\ contiguous \in [Client -> Cursor] /\ \A d \in Client : confirmationSent[d] <= contiguous[d]
    BY DEF Shape, TypeOK
  <2>3. None \in Cursor /\ \A d \in Client : None <= contiguous[d]
    BY <2>2, Cursors DEF Cursor
  <2> QED BY <2>1, <2>2, <2>3
<1>5. UNCHANGED <<loop, outbound, upload, contiguous, received, latestConfirmation, breaks, channel, faulty>>
  BY DEF Activate
<1>6. Shape'
  BY <1>3, <1>4, <1>5 DEF Shape, TypeOK, loop
<1>7. Rounding'
  BY <1>5 DEF Activate, Shape, TypeOK, Rounding, RoundsOf, Playing, loop
<1> QED BY <1>6, <1>7

(* a recovery that fails,                                                   *)
LEMMA FailRecoveryKeepsShape ==
    ASSUME Shape, Rounding, NEW c \in Client, FailRecovery(c)
    PROVE  Shape' /\ Rounding'
<1>1. Interrupted(c) /\ UNCHANGED <<wire, recoveries, faulty>>
  BY DEF FailRecovery
<1>2. breaks' = breaks \/ (breaks < MaxBreaks /\ breaks' = breaks + 1)
  BY DEF FailRecovery
<1>3. breaks' \in 0..MaxBreaks /\ faulty' \subseteq Client
  BY <1>1, <1>2, Constants DEF Shape, TypeOK
<1> QED BY <1>1, <1>3, InterruptionKeepsShape

(* and the end of the match.                                                *)
LEMMA CloseCompletedKeepsShape ==
    ASSUME Shape, Rounding, NEW c \in Client, CloseCompleted(c)
    PROVE  Shape' /\ Rounding'
<1>1. Shape'
  BY DEF CloseCompleted, Shape, TypeOK, loop, pump, wire, Transport
<1>2. Rounding'
  BY DEF CloseCompleted, Shape, TypeOK, Rounding, RoundsOf, Playing, loop, pump
<1> QED BY <1>1, <1>2

(* Every step keeps the types, the rounds and the epochs in order.          *)
LEMMA ShapeStep ==
    ASSUME Shape, Rounding, [Next]_vars
    PROVE  Shape' /\ Rounding'
<1>1. CASE UNCHANGED vars
  BY <1>1 DEF vars, loop, pump, wire, link, Shape, TypeOK, Rounding, RoundsOf, Playing
<1>2. CASE Next
  BY <1>2, SimulateFrameKeepsShape, ResolveRoundKeepsShape, NextRoundKeepsShape, FlushKeepsShape,
     DeliverKeepsShape, LoseChannelKeepsShape, ExchangeKeepsShape, ActivateKeepsShape,
     FailRecoveryKeepsShape, CloseCompletedKeepsShape DEF Next
<1> QED BY <1>1, <1>2

(* The variables of the exchange are what they are declared to be, and each  *)
(* client's rounds, epochs and phases agree.                                 *)
THEOREM ShapeHolds == Spec => [](Shape /\ Rounding)
<1> QED BY ShapeInit, ShapeStep, PTL DEF Spec


-----------------------------------------------------------------------------
(* The steps, sorted by what they do to the exchange.  A frame is simulated  *)
(* and kept for the peer.                                                    *)
Simulating(c) ==
    /\ phase[c] = "playing" /\ transport[c] = "connected" /\ CanAdvance(c)
    /\ frame' = [frame EXCEPT ![c] = @ + 1]
    /\ outbound' = [outbound EXCEPT ![c] = @ \cup {frame[c]}]
    /\ phase' \in [Client -> Phase] /\ phase'[c] \in {"playing", "resolving"}
    /\ \A d \in Client \ {c} : phase'[d] = phase[d]
    /\ UNCHANGED <<epoch, score, upload, contiguous, peerConfirmed, confirmationSent, wire, link, channel>>

(* The first message is taken.                                               *)
Taking(c, m) ==
    /\ transport[c] = "connected" /\ channel[c] # <<>> /\ m = Head(channel[c]) /\ ~Invalid(c, m)
    /\ \/ m.type = "frame-batch" /\ ReceiveBatch(c, m)
       \/ m.type = "frame-ack" /\ ReceiveAck(c, m)
       \/ m.type = "frame-confirmation" /\ ReceiveConfirmation(c, m)

(* A client leaves the channel, for a while or for good.                     *)
Leaving(c) ==
    /\ transport' \in [Client -> Transport] /\ transport'[c] \in {"reconnecting", "failed", "closed"}
    /\ \A d \in Client \ {c} : transport'[d] = transport[d]
    /\ channel' = [channel EXCEPT ![c] = <<>>]
    /\ upload' = [upload EXCEPT ![c] = {}]
    /\ \/ UNCHANGED <<phase, outbound, contiguous, peerConfirmed, confirmationSent>>
       \/ /\ phase'[c] \notin {"playing", "resolving", "transition"}
          /\ phase' \in [Client -> Phase]
          /\ \A d \in Client \ {c} : phase'[d] = phase[d]
          /\ outbound' = [outbound EXCEPT ![c] = {}]
          /\ contiguous' = [contiguous EXCEPT ![c] = None]
          /\ peerConfirmed' = [peerConfirmed EXCEPT ![c] = None]
          /\ confirmationSent' = [confirmationSent EXCEPT ![c] = None]
    /\ UNCHANGED <<epoch, frame, score, wire>>

(* What leaving and activating a channel mean to either client.              *)
LEMMA LeavingIs ==
    ASSUME Shape, NEW c \in Client, Leaving(c), NEW d \in Client
    PROVE  /\ UNCHANGED <<epoch, frame, score, received, heard, told, latestConfirmation>>
           /\ channel'[d] = IF d = c THEN <<>> ELSE channel[d]
           /\ upload'[d] = IF d = c THEN {} ELSE upload[d]
           /\ transport'[d] \in {"reconnecting", "failed", "closed"} \/ (d # c /\ transport'[d] = transport[d])
           /\ d # c => transport'[d] = transport[d] /\ phase'[d] = phase[d]
           /\ d = c => transport'[d] \in {"reconnecting", "failed", "closed"}
           /\ peerConfirmed'[d] \in {peerConfirmed[d], None}
           /\ confirmationSent'[d] \in {confirmationSent[d], None}
           /\ Playing(d)' => Playing(d) /\ contiguous'[d] = contiguous[d]
<1> DEFINE stays == UNCHANGED <<phase, outbound, contiguous, peerConfirmed, confirmationSent>>
           quits == /\ phase'[c] \notin {"playing", "resolving", "transition"}
                    /\ \A e \in Client \ {c} : phase'[e] = phase[e]
                    /\ contiguous' = [contiguous EXCEPT ![c] = None]
                    /\ peerConfirmed' = [peerConfirmed EXCEPT ![c] = None]
                    /\ confirmationSent' = [confirmationSent EXCEPT ![c] = None]
<1>1. /\ channel' = [channel EXCEPT ![c] = <<>>] /\ upload' = [upload EXCEPT ![c] = {}]
      /\ transport'[c] \in {"reconnecting", "failed", "closed"}
      /\ \A e \in Client \ {c} : transport'[e] = transport[e]
      /\ stays \/ quits
      /\ UNCHANGED <<epoch, frame, score, received, heard, told, latestConfirmation>>
  BY DEF Leaving, wire
<1>2. /\ DOMAIN channel = Client /\ DOMAIN upload = Client /\ DOMAIN contiguous = Client
      /\ DOMAIN peerConfirmed = Client /\ DOMAIN confirmationSent = Client
  BY DEF Shape, TypeOK
<1>3. /\ channel'[d] = IF d = c THEN <<>> ELSE channel[d]
      /\ upload'[d] = IF d = c THEN {} ELSE upload[d]
  BY <1>1, <1>2
<1>4. /\ peerConfirmed'[d] \in {peerConfirmed[d], None}
      /\ confirmationSent'[d] \in {confirmationSent[d], None}
  BY <1>1, <1>2
<1>5. d # c => transport'[d] = transport[d] /\ phase'[d] = phase[d]
  BY <1>1
<1>6. Playing(d)' => Playing(d) /\ contiguous'[d] = contiguous[d]
  <2>1. CASE stays
    BY <2>1 DEF Playing
  <2>2. CASE quits /\ d = c
    BY <2>2 DEF Playing
  <2>3. CASE quits /\ d # c
    BY <1>2, <2>3 DEF Playing
  <2> QED BY <1>1, <2>1, <2>2, <2>3
<1> QED BY <1>1, <1>3, <1>4, <1>5, <1>6

(* The channel that replaces another starts without confirmations.           *)
LEMMA ActivateIs ==
    ASSUME Shape, NEW c \in Client, Activate(c), NEW d \in Client
    PROVE  /\ UNCHANGED <<phase, epoch, frame, final, score, outbound, upload, contiguous, received, channel>>
           /\ latestConfirmation' = latestConfirmation
           /\ transport[c] = "staged"
           /\ transport'[d] = IF d = c THEN "connected" ELSE transport[d]
           /\ heard'[d] = IF d = c THEN Unsaid ELSE heard[d]
           /\ told'[d] = IF d = c THEN Unsaid ELSE told[d]
           /\ peerConfirmed'[d] = IF d = c THEN None ELSE peerConfirmed[d]
           /\ confirmationSent'[d] = IF d = c THEN None ELSE confirmationSent[d]
           /\ \A e \in Epoch : Unsaid[e] = None
<1>1. /\ transport[c] = "staged" /\ transport' = [transport EXCEPT ![c] = "connected"]
      /\ heard' = [heard EXCEPT ![c] = Unsaid] /\ told' = [told EXCEPT ![c] = Unsaid]
      /\ peerConfirmed' = [peerConfirmed EXCEPT ![c] = None]
      /\ confirmationSent' = [confirmationSent EXCEPT ![c] = None]
      /\ UNCHANGED <<phase, epoch, frame, final, score, outbound, upload, contiguous, received, channel>>
      /\ latestConfirmation' = latestConfirmation
  BY DEF Activate, Resume, loop
<1>2. /\ DOMAIN transport = Client /\ DOMAIN heard = Client /\ DOMAIN told = Client
      /\ DOMAIN peerConfirmed = Client /\ DOMAIN confirmationSent = Client
  BY DEF Shape, TypeOK
<1>3. \A e \in Epoch : Unsaid[e] = None
  BY DEF Unsaid
<1>4. heard'[d] = (IF d = c THEN Unsaid ELSE heard[d]) /\ told'[d] = IF d = c THEN Unsaid ELSE told[d]
  BY <1>1, <1>2
<1>5. /\ transport'[d] = IF d = c THEN "connected" ELSE transport[d]
      /\ peerConfirmed'[d] = IF d = c THEN None ELSE peerConfirmed[d]
      /\ confirmationSent'[d] = IF d = c THEN None ELSE confirmationSent[d]
  BY <1>1, <1>2
<1> QED BY <1>1, <1>3, <1>4, <1>5

(* Whoever is interrupted leaves the channel,                               *)
LEMMA InterruptionLeaves ==
    ASSUME Shape, NEW c \in Client, Interrupted(c), UNCHANGED wire
    PROVE  Leaving(c)
<1>1. phase' \in [Client -> Phase] /\ phase'[c] \notin {"playing", "resolving", "transition"}
      /\ \A d \in Client \ {c} : phase'[d] = phase[d]
  BY DEF Interrupted, Shape, TypeOK, Phase
<1>2. transport' \in [Client -> Transport] /\ transport'[c] = "failed"
      /\ \A d \in Client \ {c} : transport'[d] = transport[d]
  BY DEF Interrupted, Shape, TypeOK, Transport
<1> QED BY <1>1, <1>2 DEF Interrupted, Leaving

(* so does whoever asks for another one,                                    *)
LEMMA RecoveryLeaves ==
    ASSUME Shape, NEW c \in Client, RequestRecovery(c), UNCHANGED wire
    PROVE  Leaving(c)
<1>1. CASE Interrupted(c)
  BY <1>1, InterruptionLeaves
<1>2. CASE ~Interrupted(c)
  <2>1. /\ transport' = [transport EXCEPT ![c] = "reconnecting"]
        /\ upload' = [upload EXCEPT ![c] = {}]
        /\ channel' = [channel EXCEPT ![c] = <<>>]
        /\ UNCHANGED <<loop, outbound, contiguous, peerConfirmed, confirmationSent>>
    BY <1>2 DEF RequestRecovery
  <2>2. transport' \in [Client -> Transport] /\ transport'[c] = "reconnecting"
        /\ \A d \in Client \ {c} : transport'[d] = transport[d]
    BY <2>1 DEF Shape, TypeOK, Transport
  <2> QED BY <2>1, <2>2 DEF Leaving, loop
<1> QED BY <1>1, <1>2

(* and whoever has completed the match.                                     *)
LEMMA CloseLeaves ==
    ASSUME Shape, Rounding, NEW c \in Client, CloseCompleted(c)
    PROVE  Leaving(c)
<1>1. outbound[c] = {}
  BY DEF CloseCompleted, Rounding, RoundsOf
<1>2. upload[c] = {} /\ upload \in [Client -> SUBSET Frame]
  BY <1>1 DEF Shape, TypeOK
<1>3. upload' = [upload EXCEPT ![c] = {}]
  BY <1>2 DEF CloseCompleted, pump
<1>4. transport' \in [Client -> Transport] /\ transport'[c] = "closed"
      /\ \A d \in Client \ {c} : transport'[d] = transport[d]
  BY DEF CloseCompleted, Shape, TypeOK, Transport
<1> QED BY <1>3, <1>4 DEF CloseCompleted, Leaving, loop, pump

(* A tick simulates a frame or, on a full tail, leaves.                     *)
LEMMA SimulateSteps ==
    ASSUME Shape, NEW c \in Client, SimulateFrame(c)
    PROVE  Simulating(c) \/ Leaving(c)
<1>1. CASE Cardinality(outbound[c]) >= MaxOutbound
  BY <1>1, InterruptionLeaves DEF SimulateFrame
<1>2. CASE ~(Cardinality(outbound[c]) >= MaxOutbound)
  <2>1. PICK f : /\ frame' = [frame EXCEPT ![c] = @ + 1]
                 /\ outbound' = [outbound EXCEPT ![c] = @ \cup {frame[c]}]
                 /\ phase' = [phase EXCEPT ![c] = IF f = None THEN @ ELSE "resolving"]
                 /\ UNCHANGED <<epoch, score, upload, contiguous, peerConfirmed, confirmationSent, wire, link, channel>>
    BY <1>2 DEF SimulateFrame
  <2>2. phase[c] = "playing" /\ transport[c] = "connected" /\ CanAdvance(c)
    BY DEF SimulateFrame
  <2>3. /\ phase' \in [Client -> Phase] /\ phase'[c] \in {"playing", "resolving"}
        /\ \A d \in Client \ {c} : phase'[d] = phase[d]
    BY <2>1, <2>2 DEF Shape, TypeOK, Phase
  <2> QED BY <2>1, <2>2, <2>3 DEF Simulating
<1> QED BY <1>1, <1>2

(* A delivery takes the first message or leaves over it.                    *)
LEMMA DeliverSteps ==
    ASSUME Shape, NEW c \in Client, Deliver(c)
    PROVE  Taking(c, Head(channel[c])) \/ Leaving(c)
<1> DEFINE m == Head(channel[c])
<1>1. m.type \in {"frame-batch", "frame-ack", "frame-confirmation"}
  BY HeadIs, Messages DEF Deliver, Shape, TypeOK
<1>2. CASE Invalid(c, m)
  BY <1>2, InterruptionLeaves DEF Deliver
<1>3. CASE ~Invalid(c, m)
  <2>1. CASE m.type = "frame-batch"
    BY <1>3, <2>1 DEF Deliver, Taking
  <2>2. CASE m.type = "frame-ack"
    BY <1>3, <2>2 DEF Deliver, Taking
  <2>3. CASE m.type = "frame-confirmation"
    BY <1>3, <2>3 DEF Deliver, Taking
  <2> QED BY <1>1, <2>1, <2>2, <2>3
<1> QED BY <1>2, <1>3

Moves(c) ==
    \/ Simulating(c) \/ ResolveRound(c) \/ NextRound(c) \/ Flush(c)
    \/ (\E m \in Message : Taking(c, m)) \/ Leaving(c) \/ Activate(c)

(* Every step is one of these moves or the exchange of checkpoints.         *)
LEMMA Steps ==
    ASSUME Shape, Rounding, [Next]_vars
    PROVE  UNCHANGED vars \/ ExchangeCheckpoints \/ \E c \in Client : Moves(c)
<1>1. ASSUME NEW c \in Client, Deliver(c)
      PROVE  Moves(c)
  <2>1. Head(channel[c]) \in Message
    BY <1>1, HeadIs DEF Deliver
  <2> QED BY <1>1, <2>1, DeliverSteps DEF Moves
<1>2. ASSUME NEW c \in Client, LoseChannel(c) \/ ObserveClose(c) \/ FailRecovery(c)
      PROVE  Moves(c)
  BY <1>2, RecoveryLeaves, InterruptionLeaves DEF LoseChannel, ObserveClose, FailRecovery, Moves
<1>3. ASSUME NEW c \in Client, SimulateFrame(c)
      PROVE  Moves(c)
  BY <1>3, SimulateSteps DEF Moves
<1>4. ASSUME NEW c \in Client, CloseCompleted(c)
      PROVE  Moves(c)
  BY <1>4, CloseLeaves DEF Moves
<1> QED BY <1>1, <1>2, <1>3, <1>4 DEF Next, Moves


(* What is in transit after a flush.                                         *)
LEMMA FlushQueue ==
    ASSUME Shape, NEW c \in Client, Flush(c), NEW d \in Client, NEW i \in DOMAIN channel'[d]
    PROVE  \/ i \in Index(d) /\ channel'[d][i] = channel[d][i]
           \/ /\ d = Peer(c) /\ Linked(d) /\ i \in Nat /\ \A j \in Index(d) : j < i
              /\ \/ /\ Uploading(c) # {} /\ channel'[d][i] = Batch(epoch[c], Uploading(c))
                    /\ i = Len(channel[d]) + 1
                 \/ /\ Confirmable(c) /\ channel'[d][i] = Confirmation(epoch[c], contiguous[c])
                    /\ \A j \in DOMAIN channel'[d] : j <= i
<1> DEFINE p == Peer(c)
<1>1. p \in Client /\ channel' = [channel EXCEPT ![p] = Sent(p, Outgoing(c))]
  BY FlushIs, Peers
<1>2. CASE d # p
  BY <1>1, <1>2 DEF Shape, Index
<1>3. CASE d = p /\ ~Linked(p)
  BY <1>1, <1>3 DEF Shape, Sent, Linked
<1>4. CASE d = p /\ Linked(p)
  <2>1. channel'[d] = channel[d] \o Outgoing(c) /\ channel[d] \in Seq(Message) /\ Outgoing(c) \in Seq(Message)
    BY <1>1, <1>4, OutgoingIs DEF Shape, Sent, Linked
  <2>2. \/ i \in Index(d) /\ channel'[d][i] = channel[d][i]
        \/ i > Len(channel[d]) /\ i - Len(channel[d]) \in DOMAIN Outgoing(c)
           /\ channel'[d][i] = Outgoing(c)[i - Len(channel[d])]
    BY <2>1, Appended DEF Index
  <2>3. CASE i > Len(channel[d]) /\ i - Len(channel[d]) \in DOMAIN Outgoing(c)
             /\ channel'[d][i] = Outgoing(c)[i - Len(channel[d])]
    <3> DEFINE k == i - Len(channel[d])
    <3>1. i \in Nat /\ Len(channel[d]) \in Nat /\ \A j \in Index(d) : j < i
      BY <2>1, <2>3 DEF Index
    <3>2. \/ k = 1 /\ Uploading(c) # {} /\ Outgoing(c)[k] = Batch(epoch[c], Uploading(c))
          \/ /\ Confirmable(c) /\ Outgoing(c)[k] = Confirmation(epoch[c], contiguous[c])
             /\ \A l \in DOMAIN Outgoing(c) : l <= k
      BY <2>3, OutgoingIs
    <3>3. CASE k = 1 /\ Uploading(c) # {} /\ Outgoing(c)[k] = Batch(epoch[c], Uploading(c))
      <4>1. i = Len(channel[d]) + 1
        BY <3>1, <3>3
      <4> QED BY <1>4, <2>3, <3>1, <3>3, <4>1
    <3>4. CASE /\ Confirmable(c) /\ Outgoing(c)[k] = Confirmation(epoch[c], contiguous[c])
               /\ \A l \in DOMAIN Outgoing(c) : l <= k
      <4>1. ASSUME NEW j \in DOMAIN channel'[d] PROVE j <= i
        <5>1. \/ j \in DOMAIN channel[d]
              \/ j > Len(channel[d]) /\ j - Len(channel[d]) \in DOMAIN Outgoing(c)
          BY <2>1, Appended
        <5>2. CASE j \in DOMAIN channel[d]
          BY <3>1, <5>2 DEF Index
        <5>3. CASE j > Len(channel[d]) /\ j - Len(channel[d]) \in DOMAIN Outgoing(c)
          <6>1. j - Len(channel[d]) <= k
            BY <3>4, <5>3
          <6>2. j \in Int
            BY <2>1
          <6> QED BY <3>1, <6>1, <6>2
        <5> QED BY <5>1, <5>2, <5>3
      <4> QED BY <1>4, <2>3, <3>1, <3>4, <4>1
    <3> QED BY <3>2, <3>3, <3>4
  <2> QED BY <2>2, <2>3
<1> QED BY <1>2, <1>3, <1>4

(* And after a message has been taken.                                       *)
LEMMA TakeQueue ==
    ASSUME Shape, NEW c \in Client, NEW m \in Message, Taking(c, m),
           NEW d \in Client, NEW i \in DOMAIN channel'[d]
    PROVE  \/ d = c /\ i \in Nat \ {0} /\ i + 1 \in Index(c) /\ channel'[c][i] = channel[c][i + 1]
           \/ d = Peer(c) /\ i \in Index(d) /\ channel'[d][i] = channel[d][i]
           \/ /\ d = Peer(c) /\ m.type = "frame-batch" /\ Linked(d)
              /\ i = Len(channel[d]) + 1 /\ \A j \in Index(d) : j < i
              /\ channel'[d][i] = Ack(m.epoch, m.frames)
<1> DEFINE p == Peer(c)
<1>1. p \in Client /\ p # c /\ (d = c \/ d = p)
  BY Peers
<1>2. channel[c] \in Seq(Message) /\ channel[c] # <<>> /\ channel[d] \in Seq(Message)
  BY DEF Taking, Shape
<1>3. CASE d = c
  <2>1. channel'[c] = Tail(channel[c])
    BY <1>1, <1>2 DEF Taking, ReceiveBatch, ReceiveAck, ReceiveConfirmation, Shape
  <2> QED BY <1>2, <1>3, <2>1, Rest DEF Index
<1>4. CASE d = p /\ m.type # "frame-batch"
  BY <1>1, <1>4 DEF Taking, ReceiveAck, ReceiveConfirmation, Shape, Index
<1>5. CASE d = p /\ m.type = "frame-batch"
  <2>1. channel'[d] = Sent(d, <<Ack(m.epoch, m.frames)>>)
    BY <1>1, <1>5 DEF Taking, ReceiveBatch, Shape
  <2>2. CASE ~Linked(d)
    BY <1>1, <2>1, <2>2 DEF Sent, Linked
  <2>3. CASE Linked(d)
    <3>1. <<Ack(m.epoch, m.frames)>> \in Seq(Message)
      <4>1. m.epoch \in Epoch
        BY Shapes, Messages
      <4>2. m.frames \in SUBSET Frame
        BY <1>5, <4>1, Messages
      <4>3. Ack(m.epoch, m.frames) \in Message
        BY <4>1, <4>2, Messages
      <4> QED BY <4>3
    <3>2. channel'[d] = channel[d] \o <<Ack(m.epoch, m.frames)>>
      BY <2>1, <2>3 DEF Sent, Linked
    <3>3. \/ i \in DOMAIN channel[d] /\ channel'[d][i] = channel[d][i]
          \/ /\ i > Len(channel[d]) /\ i - Len(channel[d]) \in DOMAIN <<Ack(m.epoch, m.frames)>>
             /\ channel'[d][i] = <<Ack(m.epoch, m.frames)>>[i - Len(channel[d])]
      BY <1>2, <3>1, <3>2, Appended
    <3>4. CASE /\ i > Len(channel[d]) /\ i - Len(channel[d]) \in DOMAIN <<Ack(m.epoch, m.frames)>>
               /\ channel'[d][i] = <<Ack(m.epoch, m.frames)>>[i - Len(channel[d])]
      <4>1. i - Len(channel[d]) = 1 /\ channel'[d][i] = Ack(m.epoch, m.frames)
        BY <3>4
      <4>2. i = Len(channel[d]) + 1 /\ \A j \in Index(d) : j < i
        BY <1>2, <3>2, <4>1 DEF Index
      <4> QED BY <1>5, <2>3, <4>1, <4>2
    <3> QED BY <1>5, <3>3, <3>4 DEF Index
  <2> QED BY <2>2, <2>3
<1> QED BY <1>1, <1>3, <1>4, <1>5

(* The first message of the queue, and its place there.                      *)
LEMMA TakingIs ==
    ASSUME Shape, NEW c \in Client, NEW m \in Message, Taking(c, m)
    PROVE  /\ transport[c] = "connected" /\ 1 \in Index(c) /\ channel[c][1] = m /\ m.epoch \in Epoch
           /\ UNCHANGED <<loop, contiguous, peerConfirmed, confirmationSent, told, link>>
           /\ \/ /\ m.type = "frame-batch" /\ m.frames \in SUBSET Frame
                 /\ \A d \in Client, e \in Epoch : received'[d][e] =
                       IF d = c /\ e = m.epoch THEN received[d][e] \cup m.frames ELSE received[d][e]
                 /\ UNCHANGED <<outbound, upload, heard, latestConfirmation>>
              \/ /\ m.type = "frame-ack" /\ m.epoch = epoch[c] /\ m.frames = upload[c]
                 /\ upload' = [upload EXCEPT ![c] = {}]
                 /\ outbound' = [outbound EXCEPT ![c] = outbound[c] \ upload[c]]
                 /\ UNCHANGED <<received, heard, latestConfirmation>>
              \/ /\ m.type = "frame-ack" /\ m.epoch # epoch[c]
                 /\ UNCHANGED <<outbound, upload, received, heard, latestConfirmation>>
              \/ /\ m.type = "frame-confirmation" /\ m.through \in Frame
                 /\ \A d \in Client, e \in Epoch : heard'[d][e] =
                       IF d = c /\ e = m.epoch THEN m.through ELSE heard[d][e]
                 /\ latestConfirmation' =
                       [latestConfirmation EXCEPT ![c] = IF @ < m.epoch THEN m.epoch ELSE @]
                 /\ UNCHANGED <<outbound, upload, received>>
<1>1. channel[c] \in Seq(Message) /\ channel[c] # <<>> /\ transport[c] = "connected" /\ m = Head(channel[c])
  BY DEF Taking, Shape
<1>2. 1 \in Index(c) /\ channel[c][1] = m
  BY <1>1, Rest DEF Index
<1>3. m.epoch \in Epoch
  BY Shapes, Messages
<1>4. UNCHANGED <<loop, contiguous, peerConfirmed, confirmationSent, told, link>>
  BY DEF Taking, ReceiveBatch, ReceiveAck, ReceiveConfirmation, pump, wire
<1>5. CASE m.type = "frame-batch" /\ ReceiveBatch(c, m)
  <2>1. m.frames \in SUBSET Frame
    BY <1>3, <1>5, Messages
  <2>2. received' = [received EXCEPT ![c][m.epoch] = @ \cup m.frames]
    BY <1>5 DEF ReceiveBatch
  <2>3. \A d \in Client, e \in Epoch : received'[d][e] =
           IF d = c /\ e = m.epoch THEN received[d][e] \cup m.frames ELSE received[d][e]
    BY <1>3, <2>2 DEF Shape, TypeOK
  <2> QED BY <1>1, <1>2, <1>3, <1>4, <1>5, <2>1, <2>3 DEF ReceiveBatch, pump
<1>6. CASE m.type = "frame-ack" /\ ReceiveAck(c, m)
  BY <1>1, <1>2, <1>3, <1>4, <1>6 DEF ReceiveAck, Acknowledged, Taking, Invalid, wire
<1>7. CASE m.type = "frame-confirmation" /\ ReceiveConfirmation(c, m)
  <2>1. m.through \in Frame
    BY <1>3, <1>7, Messages
  <2>2. heard' = [heard EXCEPT ![c][m.epoch] = m.through]
    BY <1>7 DEF ReceiveConfirmation
  <2>3. \A d \in Client, e \in Epoch : heard'[d][e] = IF d = c /\ e = m.epoch THEN m.through ELSE heard[d][e]
    BY <1>3, <2>2 DEF Shape, TypeOK
  <2> QED BY <1>1, <1>2, <1>3, <1>4, <1>7, <2>1, <2>3 DEF ReceiveConfirmation, pump
<1> QED BY <1>5, <1>6, <1>7 DEF Taking

(* What it changes, one client at a time.                                    *)
LEMMA TakenIs ==
    ASSUME Shape, NEW c \in Client, NEW m \in Message, Taking(c, m), NEW d \in Client, NEW e \in Epoch
    PROVE  /\ \/ received'[d][e] = received[d][e]
              \/ /\ d = c /\ IsBatch(m, e) /\ m.frames \in SUBSET Frame
                 /\ received'[d][e] = received[d][e] \cup m.frames
           /\ \/ heard'[d][e] = heard[d][e]
              \/ /\ d = c /\ IsConfirmation(m) /\ m.epoch = e /\ m.through \in Frame
                 /\ heard'[d][e] = m.through
           /\ \/ outbound'[d] = outbound[d] /\ upload'[d] = upload[d]
              \/ /\ d = c /\ IsAck(m, epoch[d]) /\ m.frames = upload[d]
                 /\ upload'[d] = {} /\ outbound'[d] = outbound[d] \ upload[d]
           /\ d = c /\ IsBatch(m, e) => received'[d][e] = received[d][e] \cup m.frames
           /\ d # c => latestConfirmation'[d] = latestConfirmation[d]
<1>1. CASE m.type = "frame-batch"
  <2>1. /\ m.frames \in SUBSET Frame
        /\ received'[d][e] = IF d = c /\ e = m.epoch THEN received[d][e] \cup m.frames ELSE received[d][e]
        /\ UNCHANGED <<outbound, upload, heard, latestConfirmation>>
    BY <1>1, TakingIs
  <2> QED BY <1>1, <2>1 DEF IsBatch
<1>2. CASE m.type = "frame-ack"
  <2>1. /\ received' = received /\ heard' = heard /\ latestConfirmation' = latestConfirmation
        /\ \/ UNCHANGED <<outbound, upload>>
           \/ /\ m.epoch = epoch[c] /\ m.frames = upload[c]
              /\ upload' = [upload EXCEPT ![c] = {}]
              /\ outbound' = [outbound EXCEPT ![c] = outbound[c] \ upload[c]]
    BY <1>2, TakingIs
  <2>2. DOMAIN upload = Client /\ DOMAIN outbound = Client
    BY DEF Shape, TypeOK
  <2> QED BY <1>2, <2>1, <2>2 DEF IsAck, IsBatch
<1>3. CASE m.type = "frame-confirmation"
  <2>1. /\ m.through \in Frame
        /\ heard'[d][e] = IF d = c /\ e = m.epoch THEN m.through ELSE heard[d][e]
        /\ UNCHANGED <<outbound, upload, received>>
    BY <1>3, TakingIs
  <2>2. latestConfirmation' = [latestConfirmation EXCEPT ![c] = IF @ < m.epoch THEN m.epoch ELSE @]
    BY <1>3, TakingIs
  <2>3. d # c => latestConfirmation'[d] = latestConfirmation[d]
    BY <2>2 DEF Shape, TypeOK
  <2> QED BY <1>3, <2>1, <2>3 DEF IsBatch, IsConfirmation
<1> QED BY <1>1, <1>2, <1>3 DEF Taking

(* What was in transit to a client that listens still is after a flush.      *)
LEMMA FlushAdds ==
    ASSUME Shape, NEW c \in Client, Flush(c), NEW d \in Client, Linked(d)
    PROVE  /\ \A i \in Index(d) : i \in DOMAIN channel'[d] /\ channel'[d][i] = channel[d][i]
           /\ d = Peer(c) /\ Confirmable(c) =>
                 \E i \in DOMAIN channel'[d] : channel'[d][i] = Confirmation(epoch[c], contiguous[c])
<1> DEFINE p == Peer(c)
<1>1. p \in Client /\ channel' = [channel EXCEPT ![p] = Sent(p, Outgoing(c))]
  BY FlushIs, Peers
<1>2. CASE d # p
  BY <1>1, <1>2 DEF Shape, Index
<1>3. CASE d = p
  <2>1. channel'[d] = channel[d] \o Outgoing(c) /\ channel[d] \in Seq(Message) /\ Outgoing(c) \in Seq(Message)
    BY <1>1, <1>3, OutgoingIs DEF Shape, Sent, Linked
  <2>2. \A i \in Index(d) : i \in DOMAIN channel'[d] /\ channel'[d][i] = channel[d][i]
    BY <2>1, Appended DEF Index
  <2>3. ASSUME NEW k \in DOMAIN Outgoing(c)
        PROVE  Len(channel[d]) + k \in DOMAIN channel'[d] /\ channel'[d][Len(channel[d]) + k] = Outgoing(c)[k]
    BY <2>1
  <2> QED BY <2>2, <2>3, OutgoingIs
<1> QED BY <1>2, <1>3


-----------------------------------------------------------------------------
(* Nothing comes from an epoch that its sender has not reached.              *)
Reached == \A c \in Client : EpochsOf(c)

(* At the start nothing has been said about any epoch.                      *)
LEMMA ReachedInit == Init => Reached
BY Constants, Numbers, Peers DEF Init, Reached, EpochsOf, Unsaid, Index

(* Nobody says anything about an epoch that it has not reached.             *)
LEMMA ReachedStep ==
    ASSUME Shape, Rounding, Shape', Reached, [Next]_vars
    PROVE  Reached'
<1> USE Constants, Numbers, Peers
<1> SUFFICES ASSUME NEW d \in Client
             PROVE  EpochsOf(d)'
  BY DEF Reached
<1>1. EpochsOf(d) /\ EpochsOf(Peer(d))
  BY DEF Reached
<1>2. CASE UNCHANGED vars
  BY <1>1, <1>2 DEF vars, loop, pump, wire, EpochsOf, Index
<1>3. CASE ExchangeCheckpoints
  BY <1>1, <1>3 DEF ExchangeCheckpoints, loop, pump, wire, EpochsOf, Index
<1>4. ASSUME NEW c \in Client, Simulating(c)
      PROVE  EpochsOf(d)'
  BY <1>1, <1>4 DEF Simulating, loop, pump, wire, EpochsOf, Index
<1>5. ASSUME NEW c \in Client, ResolveRound(c)
      PROVE  EpochsOf(d)'
  BY <1>1, <1>5 DEF ResolveRound, loop, pump, wire, EpochsOf, Index
<1>6. ASSUME NEW c \in Client, NextRound(c)
      PROVE  EpochsOf(d)'
  <2>1. /\ epoch' = [epoch EXCEPT ![c] = epoch[c] + 1]
        /\ peerConfirmed' = [peerConfirmed EXCEPT ![c] = None]
        /\ UNCHANGED <<heard, received, told, channel>>
    BY <1>6 DEF NextRound, StartEpoch, wire
  <2>2. \A b \in Client : epoch[b] \in Nat /\ epoch'[b] \in Nat /\ epoch[b] <= epoch'[b]
    <3>1. epoch \in [Client -> Epoch] /\ \A b \in Client : epoch[b] \in Nat
      BY DEF Shape, TypeOK
    <3>2. \A b \in Client : epoch'[b] = IF b = c THEN epoch[b] + 1 ELSE epoch[b]
      BY <2>1, <3>1
    <3> QED BY <3>1, <3>2
  <2>3. peerConfirmed'[d] # None => epoch'[d] <= epoch'[Peer(d)]
    <3>1. /\ peerConfirmed'[d] = IF d = c THEN None ELSE peerConfirmed[d]
          /\ epoch'[d] = IF d = c THEN epoch[d] + 1 ELSE epoch[d]
      BY <2>1 DEF Shape, TypeOK
    <3>2. peerConfirmed[d] # None => epoch[d] <= epoch[Peer(d)]
      BY <1>1 DEF EpochsOf
    <3>3. /\ epoch[d] \in Nat /\ epoch[Peer(d)] \in Nat /\ epoch'[Peer(d)] \in Nat
          /\ epoch[Peer(d)] <= epoch'[Peer(d)]
      BY <2>2
    <3> QED BY <3>1, <3>2, <3>3
  <2>4. \A e \in Epoch : e > epoch'[Peer(d)] => heard[d][e] = None /\ received[d][e] = {}
    BY <1>1, <2>2 DEF EpochsOf
  <2>5. \A e \in Epoch : e > epoch'[d] => told[d][e] = None
    BY <1>1, <2>2 DEF EpochsOf
  <2>6. ASSUME NEW i \in Index(d)
        PROVE  channel[d][i].epoch <= IF channel[d][i].type = "frame-ack" THEN epoch'[d] ELSE epoch'[Peer(d)]
    <3>1. channel[d][i].epoch \in Nat
      <4>1. channel[d][i] \in Message
        BY DEF Index, Shape, TypeOK
      <4>2. \A j \in Epoch : j \in Nat
        BY Epochs
      <4>3. channel[d][i].epoch \in Epoch
        BY <4>1, <2>2, Messages
      <4> QED BY <4>2, <4>3
    <3> QED BY <1>1, <2>2, <3>1 DEF EpochsOf
  <2> QED BY <2>1, <2>3, <2>4, <2>5, <2>6 DEF EpochsOf, Index
<1>7. ASSUME NEW c \in Client, Flush(c)
      PROVE  EpochsOf(d)'
  <2>1. UNCHANGED <<epoch, heard, received>>
    BY <1>7, FlushIs DEF loop
  <2>2. peerConfirmed'[d] # None => epoch[d] <= epoch[Peer(d)]
    <3>1. peerConfirmed[d] # None => epoch[d] <= epoch[Peer(d)]
      BY <1>1 DEF EpochsOf
    <3>2. heard[d][epoch[d]] # None => epoch[d] <= epoch[Peer(d)]
      <4>1. epoch[d] \in Epoch /\ epoch[d] \in Int /\ epoch[Peer(d)] \in Int
        BY Shapes, Integers
      <4>2. epoch[d] > epoch[Peer(d)] => heard[d][epoch[d]] = None
        BY <1>1, <4>1 DEF EpochsOf
      <4> QED BY <4>1, <4>2
    <3>3. peerConfirmed'[d] \in {peerConfirmed[d], heard[d][epoch[d]]}
      BY <1>7, FlushIs DEF Shape, TypeOK
    <3> QED BY <3>1, <3>2, <3>3
  <2>3. \A e \in Epoch : e > epoch[d] => told'[d][e] = None
    <3> SUFFICES ASSUME NEW e \in Epoch, e > epoch[d] PROVE told'[d][e] = None
      OBVIOUS
    <3>1. told[d][e] = None
      BY <1>1 DEF EpochsOf
    <3>2. told' = [told EXCEPT ![c][epoch[c]] = IF Confirmable(c) THEN contiguous[c] ELSE @]
      BY <1>7, FlushIs
    <3>3. told \in [Client -> [Epoch -> Cursor]] /\ epoch[c] \in Epoch /\ epoch[c] \in Int /\ e \in Int
      BY <1>7, Integers, Epochs DEF Shape, TypeOK
    <3>4. d = c => e # epoch[c]
      BY <3>3
    <3>5. told'[d][e] = told[d][e]
      BY <3>2, <3>3, <3>4
    <3> QED BY <3>1, <3>5
  <2>4. ASSUME NEW i \in DOMAIN channel'[d]
        PROVE  channel'[d][i].epoch <= IF channel'[d][i].type = "frame-ack" THEN epoch[d] ELSE epoch[Peer(d)]
    <3>1. CASE i \in Index(d) /\ channel'[d][i] = channel[d][i]
      BY <1>1, <3>1 DEF EpochsOf
    <3>2. CASE d = Peer(c) /\ channel'[d][i].epoch = epoch[c] /\ channel'[d][i].type # "frame-ack"
      <4>1. Peer(d) = c /\ epoch[c] <= epoch[c]
        BY <1>7, <3>2, Peers, Integers
      <4> QED BY <3>2, <4>1
    <3>3. \/ channel'[d][i] = Batch(epoch[c], Uploading(c))
          \/ channel'[d][i] = Confirmation(epoch[c], contiguous[c])
          => channel'[d][i].epoch = epoch[c] /\ channel'[d][i].type # "frame-ack"
      BY DEF Batch, Confirmation
    <3> QED BY <1>7, <3>1, <3>2, <3>3, FlushQueue
  <2> QED BY <1>1, <2>1, <2>2, <2>3, <2>4 DEF EpochsOf, Index
<1>8. ASSUME NEW c \in Client, NEW m \in Message, Taking(c, m)
      PROVE  EpochsOf(d)'
  <2>1. UNCHANGED <<epoch, told, peerConfirmed>> /\ 1 \in Index(c) /\ channel[c][1] = m
    BY <1>8, Rest DEF Taking, ReceiveBatch, ReceiveAck, ReceiveConfirmation, loop, pump, wire, Shape, Index
  <2>2. m.type # "frame-ack" => m.epoch <= epoch[Peer(c)]
    BY <1>1, <2>1 DEF Reached, EpochsOf
  <2>3. \A e \in Epoch : e > epoch[Peer(d)] => heard'[d][e] = None /\ received'[d][e] = {}
    <3> SUFFICES ASSUME NEW e \in Epoch, e > epoch[Peer(d)]
                 PROVE  heard'[d][e] = None /\ received'[d][e] = {}
      OBVIOUS
    <3>1. heard[d][e] = None /\ received[d][e] = {}
      BY <1>1 DEF EpochsOf
    <3>2. d = c /\ m.type # "frame-ack" => e # m.epoch
      <4>1. m.epoch \in Int /\ e \in Int /\ epoch[Peer(d)] \in Int
        BY <1>8, TakingIs, Epochs, Integers
      <4> QED BY <2>2, <4>1
    <3>3. heard'[d][e] = heard[d][e] /\ received'[d][e] = received[d][e]
      BY <1>8, <3>2, TakenIs DEF IsBatch, IsConfirmation
    <3> QED BY <3>1, <3>3
  <2>4. ASSUME NEW i \in DOMAIN channel'[d]
        PROVE  channel'[d][i].epoch <= IF channel'[d][i].type = "frame-ack" THEN epoch[d] ELSE epoch[Peer(d)]
    <3>1. CASE \E j \in Index(d) : channel'[d][i] = channel[d][j]
      BY <1>1, <3>1 DEF EpochsOf
    <3>2. CASE d = Peer(c) /\ m.type = "frame-batch" /\ channel'[d][i] = Ack(m.epoch, m.frames)
      <4>1. channel'[d][i].type = "frame-ack" /\ channel'[d][i].epoch = m.epoch
        BY <3>2 DEF Ack
      <4> QED BY <2>2, <3>2, <4>1
    <3> QED BY <1>8, <3>1, <3>2, TakeQueue
  <2> QED BY <1>1, <2>1, <2>3, <2>4 DEF EpochsOf, Index
<1>9. ASSUME NEW c \in Client, Leaving(c)
      PROVE  EpochsOf(d)'
  <2>1. UNCHANGED <<epoch, heard, received, told>>
    BY <1>9 DEF Leaving, wire
  <2>2. peerConfirmed'[d] \in {peerConfirmed[d], None}
    BY <1>9 DEF Leaving, Shape, TypeOK
  <2>3. \A i \in DOMAIN channel'[d] : i \in Index(d) /\ channel'[d][i] = channel[d][i]
    BY <1>9 DEF Leaving, Shape, Index
  <2> QED BY <1>1, <2>1, <2>2, <2>3 DEF EpochsOf, Index
<1>10. ASSUME NEW c \in Client, Activate(c)
      PROVE  EpochsOf(d)'
  <2>1. /\ UNCHANGED <<epoch, received, channel>>
        /\ heard'[d] = IF d = c THEN Unsaid ELSE heard[d]
        /\ told'[d] = IF d = c THEN Unsaid ELSE told[d]
        /\ peerConfirmed'[d] = IF d = c THEN None ELSE peerConfirmed[d]
        /\ \A e \in Epoch : Unsaid[e] = None
    BY <1>10, ActivateIs
  <2>2. peerConfirmed'[d] # None => epoch[d] <= epoch[Peer(d)]
    BY <1>1, <2>1 DEF EpochsOf
  <2>3. \A e \in Epoch : e > epoch[Peer(d)] => heard'[d][e] = None /\ received[d][e] = {}
    BY <1>1, <2>1 DEF EpochsOf
  <2>4. \A e \in Epoch : e > epoch[d] => told'[d][e] = None
    BY <1>1, <2>1 DEF EpochsOf
  <2>5. \A i \in Index(d) :
           channel[d][i].epoch <= IF channel[d][i].type = "frame-ack" THEN epoch[d] ELSE epoch[Peer(d)]
    BY <1>1 DEF EpochsOf
  <2> QED BY <2>1, <2>2, <2>3, <2>4, <2>5 DEF EpochsOf, Index
<1> QED BY <1>2, <1>3, <1>4, <1>5, <1>6, <1>7, <1>8, <1>9, <1>10, Steps DEF Moves


(* Only a round that the peer plays or has played is committed.              *)
LEMMA CommitsTogether ==
    ASSUME Shape, Rounding, Reached, NEW c \in Client, ResolveRound(c)
    PROVE  \/ UNCHANGED score
           \/ /\ score' = [score EXCEPT ![c] = @ + 1]
              /\ score[c] = epoch[c] /\ score[c] < Rounds
              /\ epoch[c] <= epoch[Peer(c)] /\ score[c] <= score[Peer(c)]
              /\ outbound[c] = {} /\ Decisive <= contiguous[c]
              /\ Decisive <= peerConfirmed[c] /\ Decisive <= confirmationSent[c]
<1> DEFINE p == Peer(c)
<1>1. PICK f \in WinningFrames(c, frame[c]) :
          IF f # None /\ Synchronized(c, f) THEN CommitRound(c) ELSE UNCHANGED score
  BY DEF ResolveRound
<1>2. CASE f # None /\ Synchronized(c, f)
  <2>1. CommitRound(c) /\ outbound[c] = {} /\ f <= Mutual(c)
    BY <1>1, <1>2 DEF Synchronized
  <2>2. f \in Cursor /\ f \in Int /\ (f <= contiguous[c] => f = Decisive)
    BY <1>2, Shapes, WinningIs, Cursors
  <2>3. /\ Mutual(c) \in Int /\ contiguous[c] \in Int /\ peerConfirmed[c] \in Int /\ confirmationSent[c] \in Int
        /\ Mutual(c) <= contiguous[c] /\ Mutual(c) <= peerConfirmed[c] /\ Mutual(c) <= confirmationSent[c]
    BY MutualIs, Shapes, Cursors
  <2>4. f <= contiguous[c]
    BY <2>1, <2>2, <2>3
  <2>5. f = Decisive
    BY <2>2, <2>4
  <2>6. Decisive <= contiguous[c] /\ Decisive <= peerConfirmed[c] /\ Decisive <= confirmationSent[c]
    BY <2>1, <2>3, <2>5, Constants
  <2>7. epoch[c] <= epoch[p]
    BY <2>3, <2>6, Constants, Numbers DEF Reached, EpochsOf
  <2>8. phase[c] = "resolving" /\ score[c] = epoch[c]
    BY DEF ResolveRound, Rounding, RoundsOf
  <2>9. p \in Client /\ epoch[c] \in Epoch /\ epoch[p] \in Epoch
    BY Peers, Shapes
  <2>10. epoch[p] <= score[p]
    <3>1. score[p] = epoch[p] \/ score[p] = epoch[p] + 1
      BY <2>9 DEF Rounding, RoundsOf
    <3>2. epoch[p] \in Int
      BY <2>9, Epochs
    <3> HIDE DEF p
    <3> QED BY <3>1, <3>2
  <2>11. score[c] <= score[p] /\ score[c] < Rounds
    <3>1. score[p] \in Nat
      BY <2>9, Shapes, Constants
    <3>2. epoch[c] \in Nat /\ epoch[p] \in Nat /\ epoch[c] < Rounds
      BY <2>9, Epochs
    <3> HIDE DEF p
    <3> QED BY <2>7, <2>8, <2>10, <3>1, <3>2
  <2> QED BY <2>1, <2>6, <2>7, <2>8, <2>11 DEF CommitRound
<1> QED BY <1>1, <1>2

(* So that is always so.                                                    *)
LEMMA ReachedHolds == Spec => []Reached
<1>1. Shape /\ Rounding /\ Reached /\ [Next]_vars => Reached'
  BY ShapeStep, ReachedStep
<1> QED BY <1>1, ReachedInit, ShapeHolds, PTL DEF Spec

(* Two clients pass from round to round together: a round is committed by    *)
(* commitRoundWin only while the peer has committed every earlier one,       *)
(* whatever was predicted, lost with a channel or confirmed twice.           *)
THEOREM BarrierHolds == Spec => ImplementsBarrier
<1>1. Init => Barrier!Init
  BY DEF Init, Barrier!Init
<1>2. ASSUME Shape, Rounding, Reached, [Next]_vars
      PROVE  [Barrier!Next]_score
  <2>1. ASSUME NEW c \in Client, ResolveRound(c)
        PROVE  [Barrier!Next]_score
    <3>1. CASE /\ score' = [score EXCEPT ![c] = @ + 1]
               /\ score[c] < Rounds /\ score[c] <= score[Peer(c)]
      <4>1. \A d \in Client : score[c] <= score[d]
        <5>1. score[c] \in Nat
          BY <1>2, Shapes, Constants
        <5> QED BY <3>1, <5>1, Peers
      <4>2. Barrier!Commit(c)
        BY <3>1, <4>1 DEF Barrier!Commit
      <4> QED BY <4>2 DEF Barrier!Next
    <3>2. UNCHANGED score \/ (score' = [score EXCEPT ![c] = @ + 1] /\ score[c] < Rounds /\ score[c] <= score[Peer(c)])
      BY <1>2, <2>1, CommitsTogether
    <3> QED BY <3>1, <3>2
  <2>2. ASSUME NEW c \in Client, Moves(c), ~ResolveRound(c)
        PROVE  UNCHANGED score
    BY <2>2, FlushIs DEF Moves, Simulating, NextRound, Taking, ReceiveBatch, ReceiveAck, ReceiveConfirmation,
         Leaving, Activate, loop
  <2>3. UNCHANGED vars \/ ExchangeCheckpoints => UNCHANGED score
    BY DEF vars, loop, ExchangeCheckpoints
  <2> QED BY <1>2, <2>1, <2>2, <2>3, Steps
<1> QED BY <1>1, <1>2, ShapeHolds, ReachedHolds, PTL DEF Spec, ImplementsBarrier, Barrier!Spec


-----------------------------------------------------------------------------
(* What a replaced channel leaves behind.                                    *)
Linking == \A c \in Client : LinkOf(c)

(* At the start both are connected.                                         *)
LEMMA LinkingInit == Init => Linking
BY Peers DEF Init, Linking, LinkOf, Linked

(* A replacement starts empty, on checkpoints that agree.                   *)
LEMMA LinkingStep ==
    ASSUME Shape, Rounding, Reached, Shape', Linking, [Next]_vars
    PROVE  Linking'
<1> USE Peers DEF Linked
<1> SUFFICES ASSUME NEW d \in Client
             PROVE  LinkOf(d)'
  BY DEF Linking
<1>1. LinkOf(d) /\ LinkOf(Peer(d))
  BY DEF Linking
<1>2. CASE UNCHANGED vars
  BY <1>1, <1>2 DEF vars, loop, pump, wire, link, LinkOf
<1>3. CASE ExchangeCheckpoints
  <2>1. transport[d] = "reconnecting" /\ transport[Peer(d)] = "reconnecting"
    BY <1>3 DEF ExchangeCheckpoints
  <2>2. /\ transport'[d] \in {"staged", "refused"}
        /\ transport'[d] = "staged" => Checkpoint(d) = Checkpoint(Peer(d))
        /\ transport'[Peer(d)] \in {"staged", "refused"}
    BY <1>3 DEF ExchangeCheckpoints
  <2>3. UNCHANGED <<channel, score, upload>>
    BY <1>3 DEF ExchangeCheckpoints, loop, pump
  <2> QED BY <1>1, <2>1, <2>2, <2>3 DEF LinkOf, Checkpoint
<1>4. ASSUME NEW c \in Client, Simulating(c)
      PROVE  LinkOf(d)'
  BY <1>1, <1>4 DEF Simulating, wire, link, LinkOf
<1>5. ASSUME NEW c \in Client, ResolveRound(c)
      PROVE  LinkOf(d)'
  <2>1. UNCHANGED <<transport, channel, upload, heard, peerConfirmed>> /\ transport[c] = "connected"
    BY <1>5 DEF ResolveRound, pump, wire, link
  <2>2. transport[Peer(c)] = "staged" => UNCHANGED score
    <3>1. transport[Peer(c)] = "staged" => peerConfirmed[c] = None
      BY <2>1 DEF Linking, LinkOf
    <3> QED BY <1>5, <3>1, CommitsTogether, Constants, Numbers
  <2>3. transport[d] = "staged" => score'[d] = score'[Peer(d)]
    BY <1>1, <1>5, <2>1, <2>2, CommitsTogether DEF LinkOf
  <2> QED BY <1>1, <2>1, <2>3 DEF LinkOf
<1>6. ASSUME NEW c \in Client, NextRound(c)
      PROVE  LinkOf(d)'
  BY <1>1, <1>6 DEF NextRound, StartEpoch, wire, link, LinkOf, Shape, TypeOK
<1>7. ASSUME NEW c \in Client, Flush(c)
      PROVE  LinkOf(d)'
  <2>1. UNCHANGED <<transport, score, heard>> /\ transport[c] = "connected"
    BY <1>7, FlushIs DEF loop, link
  <2>2. /\ ~Linked(d) => channel'[d] = <<>>
        /\ transport[Peer(d)] = "staged" => channel'[d] = <<>>
    BY <1>1, <1>7, <2>1, FlushIs DEF LinkOf, Sent, Shape
  <2>3. /\ d # c => peerConfirmed'[d] = peerConfirmed[d]
        /\ heard[c] = Unsaid /\ peerConfirmed[c] = None => peerConfirmed'[c] = None
    <3>1. peerConfirmed' = [peerConfirmed EXCEPT ![c] = IF @ < heard[c][epoch[c]] THEN heard[c][epoch[c]] ELSE @]
      BY <1>7, FlushIs
    <3>2. peerConfirmed \in [Client -> Cursor] /\ epoch[c] \in Epoch
      BY DEF Shape, TypeOK
    <3>3. heard[c] = Unsaid => heard[c][epoch[c]] = None
      BY <3>2 DEF Unsaid
    <3> QED BY <3>1, <3>2, <3>3
  <2>4. d # c => upload'[d] = upload[d]
    BY <1>7, FlushIs DEF Shape
  <2> QED BY <1>1, <2>1, <2>2, <2>3, <2>4 DEF LinkOf
<1>8. ASSUME NEW c \in Client, NEW m \in Message, Taking(c, m)
      PROVE  LinkOf(d)'
  <2>1. UNCHANGED <<transport, score, peerConfirmed>> /\ transport[c] = "connected" /\ channel[c] # <<>>
    BY <1>8 DEF Taking, ReceiveBatch, ReceiveAck, ReceiveConfirmation, loop, pump, link
  <2>2. d # c => UNCHANGED <<heard[d], upload[d]>>
    <3>1. \/ UNCHANGED <<heard, upload>>
          \/ heard' = heard /\ upload' = [upload EXCEPT ![c] = {}]
          \/ heard' = [heard EXCEPT ![c][m.epoch] = m.through] /\ upload' = upload
      BY <1>8 DEF Taking, ReceiveBatch, ReceiveAck, ReceiveConfirmation, pump, wire
    <3>2. DOMAIN heard = Client /\ DOMAIN upload = Client
      BY DEF Shape, TypeOK
    <3> QED BY <3>1, <3>2
  <2>3. ~Linked(d) => channel'[d] = <<>>
    <3> SUFFICES ASSUME ~Linked(d) PROVE channel'[d] = <<>>
      OBVIOUS
    <3>1. d # c /\ channel[d] = <<>>
      BY <1>1, <2>1 DEF LinkOf, Linked
    <3>2. \/ channel' = [channel EXCEPT ![c] = Tail(@)]
          \/ channel' = [channel EXCEPT ![c] = Tail(@), ![Peer(c)] = Sent(Peer(c), <<Ack(m.epoch, m.frames)>>)]
      BY <1>8 DEF Taking, ReceiveBatch, ReceiveAck, ReceiveConfirmation
    <3>3. Peer(c) = d => Sent(Peer(c), <<Ack(m.epoch, m.frames)>>) = <<>>
      BY DEF Sent, Linked
    <3>4. DOMAIN channel = Client
      BY DEF Shape
    <3> QED BY <3>1, <3>2, <3>3, <3>4
  <2>4. transport[Peer(c)] # "staged"
    BY <1>1, <2>1 DEF LinkOf
  <2> QED BY <1>1, <2>1, <2>2, <2>3, <2>4 DEF LinkOf
<1>9. ASSUME NEW c \in Client, Leaving(c)
      PROVE  LinkOf(d)'
  <2> DEFINE p == Peer(d)
  <2>1. p \in Client
    OBVIOUS
  <2> HIDE DEF p
  <2>2. /\ UNCHANGED <<score, heard>>
        /\ transport'[d] \in {"reconnecting", "failed", "closed"} \/ (d # c /\ transport'[d] = transport[d])
        /\ channel'[d] = IF d = c THEN <<>> ELSE channel[d]
        /\ upload'[d] = IF d = c THEN {} ELSE upload[d]
        /\ d = c => transport'[d] \in {"reconnecting", "failed", "closed"}
        /\ peerConfirmed'[d] \in {peerConfirmed[d], None}
    BY <1>9, LeavingIs
  <2>3. transport'[p] \in {"reconnecting", "failed", "closed"} \/ transport'[p] = transport[p]
    BY <1>9, <2>1, LeavingIs
  <2>4. /\ ~Linked(d) => channel[d] = <<>>
        /\ transport[p] = "staged" => channel[d] = <<>>
        /\ transport[p] = "staged" /\ transport[d] = "connected" => heard[d] = Unsaid /\ peerConfirmed[d] = None
        /\ transport[d] = "staged" => score[d] = score[p]
        /\ transport[d] # "connected" => upload[d] = {}
    BY <1>1 DEF LinkOf, p
  <2>5. /\ transport'[d] \notin {"connected", "staged"} => channel'[d] = <<>>
        /\ transport'[p] = "staged" => channel'[d] = <<>>
        /\ transport'[p] = "staged" /\ transport'[d] = "connected" => heard[d] = Unsaid /\ peerConfirmed'[d] = None
        /\ transport'[d] = "staged" => score[d] = score[p]
        /\ transport'[d] # "connected" => upload'[d] = {}
    <3>1. CASE d = c
      <4>1. channel'[d] = <<>> /\ upload'[d] = {} /\ transport'[d] \in {"reconnecting", "failed", "closed"}
        BY <2>2, <3>1
      <4> QED BY <4>1
    <3>2. CASE d # c
      <4>1. transport'[d] = transport[d] /\ channel'[d] = channel[d] /\ upload'[d] = upload[d]
        BY <1>9, <2>2, <3>2, LeavingIs
      <4>2. transport'[p] = "staged" => transport[p] = "staged"
        BY <2>3
      <4>3. peerConfirmed[d] = None => peerConfirmed'[d] = None
        BY <2>2
      <4> QED BY <2>4, <4>1, <4>2, <4>3 DEF Linked
    <3> QED BY <3>1, <3>2
  <2> QED BY <2>2, <2>5 DEF LinkOf, Linked, p
<1>10. ASSUME NEW c \in Client, Activate(c)
      PROVE  LinkOf(d)'
  BY <1>1, <1>10 DEF Activate, Resume, loop, LinkOf, Shape, TypeOK
<1> QED BY <1>2, <1>3, <1>4, <1>5, <1>6, <1>7, <1>8, <1>9, <1>10, Steps DEF Moves


-----------------------------------------------------------------------------
(* The frames of a batch: the lowest of the tail, close together.            *)
LEMMA LowestOfTail ==
    ASSUME NEW frames \in SUBSET Frame, NEW top \in Nat,
           \A f \in frames : f < top /\ f..(top - 1) \subseteq frames
    PROVE  /\ \A f \in Lowest(frames), g \in frames : g <= f => g \in Lowest(frames)
           /\ \A f \in frames, g \in Lowest(frames) : g < f + MaxBatch
<1> USE Constants
<1> DEFINE below(g) == {x \in frames : x < g}
<1>1. Frame \subseteq Nat /\ IsFiniteSet(frames)
  <2>1. IsFiniteSet(0..(Decisive + MaxPrediction))
    BY FS_Interval
  <2> QED BY <2>1, Numbers, FS_Subset DEF Frame
<1>2. \A g \in frames : IsFiniteSet(below(g)) /\ Cardinality(below(g)) \in Nat
  <2>1. \A g \in frames : below(g) \subseteq frames
    OBVIOUS
  <2> HIDE DEF below
  <2> QED BY <1>1, <2>1, FS_Subset, FS_CardinalityType
<1>3. ASSUME NEW f \in Lowest(frames), NEW g \in frames, g <= f
      PROVE  g \in Lowest(frames)
  <2>1. f \in frames /\ Cardinality(below(f)) < MaxBatch
    BY DEF Lowest
  <2>2. below(g) \subseteq below(f)
    <3>1. f \in Nat /\ g \in Nat /\ frames \subseteq Nat
      BY <1>1, <2>1
    <3>2. \A x \in frames : x < g => x < f
      BY <1>3, <3>1
    <3> QED BY <3>2
  <2>3. Cardinality(below(g)) <= Cardinality(below(f))
    <3> HIDE DEF below
    <3> QED BY <1>2, <2>1, <2>2, FS_Subset
  <2>4. Cardinality(below(g)) < MaxBatch
    <3> HIDE DEF below
    <3> QED BY <1>2, <2>1, <2>3
  <2> QED BY <2>4 DEF Lowest
<1>4. ASSUME NEW f \in frames, NEW g \in Lowest(frames), ~(g < f + MaxBatch)
      PROVE  FALSE
  <2>1. g \in frames /\ Cardinality(below(g)) < MaxBatch /\ g \in Nat /\ f \in Nat
    BY <1>1 DEF Lowest
  <2>2. g < top /\ f..(top - 1) \subseteq frames
    BY <2>1
  <2>3. f..(f + MaxBatch - 1) \subseteq below(g)
    BY <1>4, <2>1, <2>2
  <2>4. IsFiniteSet(f..(f + MaxBatch - 1)) /\ Cardinality(f..(f + MaxBatch - 1)) = MaxBatch
    BY <2>1, FS_Interval
  <2> HIDE DEF below
  <2>5. MaxBatch <= Cardinality(below(g))
    BY <1>2, <2>1, <2>3, <2>4, FS_Subset
  <2> QED BY <1>2, <2>1, <2>5
<1>5. \A f \in frames, g \in Lowest(frames) : g < f + MaxBatch
  BY <1>4
<1> QED BY <1>3, <1>5

-----------------------------------------------------------------------------
(* Uploads: the tail, what is in flight of it and what has arrived.          *)
Tails == \A c \in Client : TailOf(c)
Uploads == \A c \in Client : UploadOf(c)
Batches == \A c \in Client : BatchesOf(c)

(* At the start there is nothing to upload.                                 *)
LEMMA UploadsInit == Init => Tails /\ Uploads /\ Batches
BY Constants, Numbers, Peers DEF Init, Tails, TailOf, Uploads, UploadOf, Batches, BatchesOf, Index

(* A message in transit.                                                     *)
LEMMA InTransit ==
    ASSUME Shape, NEW c \in Client, NEW i \in Index(c)
    PROVE  /\ channel[c][i] \in Message /\ channel[c][i].epoch \in Epoch
           /\ channel[c][i].type \in {"frame-batch", "frame-ack", "frame-confirmation"}
           /\ channel[c][i].type \in {"frame-batch", "frame-ack"} => channel[c][i].frames \in SUBSET Frame
           /\ channel[c][i].type = "frame-confirmation" => channel[c][i].through \in Frame
           /\ i \in Nat
<1>1. channel[c][i] \in Message /\ i \in Nat /\ epoch[c] \in Epoch
  BY DEF Shape, TypeOK, Index
<1> QED BY <1>1, Messages

(* The tail stays without gaps, and the batches at its front.               *)
LEMMA TailsStep ==
    ASSUME Shape, Rounding, Reached, Shape', Tails, [Next]_vars
    PROVE  Tails'
<1> USE Peers
<1> SUFFICES ASSUME NEW d \in Client
             PROVE  TailOf(d)'
  BY DEF Tails
<1> DEFINE p == Peer(d)
<1>1. TailOf(d) /\ p \in Client /\ p # d /\ Peer(p) = d
  BY DEF Tails
<1>2. /\ epoch[d] \in Epoch /\ epoch[d] \in Nat /\ frame[d] \in Nat
      /\ outbound[d] \subseteq Nat /\ upload[d] \subseteq Nat /\ received[p][epoch[d]] \subseteq Nat
  BY <1>1, Shapes, Numbers, Epochs
<1>3. CASE UNCHANGED <<frame, outbound, upload, epoch, received, channel>>
  BY <1>1, <1>3 DEF TailOf, Index
<1>4. ASSUME NEW c \in Client, Simulating(c)
      PROVE  TailOf(d)'
  <2>1. CASE d = c
    <3>1. /\ frame'[d] = frame[d] + 1 /\ outbound'[d] = outbound[d] \cup {frame[d]}
          /\ UNCHANGED <<upload, epoch, received, channel>>
      BY <1>4, <2>1 DEF Simulating, Shape, TypeOK, wire
    <3>2. \A f \in outbound'[d] : f < frame'[d] /\ f..(frame'[d] - 1) \subseteq outbound'[d]
      BY <1>1, <1>2, <3>1 DEF TailOf
    <3>3. \A f \in upload[d], g \in outbound'[d] : g <= f => g \in upload[d]
      BY <1>1, <1>2, <3>1 DEF TailOf
    <3>4. \A f \in outbound'[d], g \in upload[d] : g < f + MaxBatch
      BY <1>1, <1>2, <3>1, Constants DEF TailOf
    <3>5. \A f \in received[p][epoch[d]] : f < frame'[d]
      BY <1>1, <1>2, <3>1 DEF TailOf
    <3>6. \A f \in outbound'[d], g \in received[p][epoch[d]] : g < f + MaxBatch
      BY <1>1, <1>2, <3>1, Constants DEF TailOf
    <3>7. ASSUME NEW i \in Index(p), IsBatch(channel[p][i], epoch[d]), NEW g \in channel[p][i].frames
          PROVE  g < frame'[d] /\ \A f \in outbound'[d] : g < f + MaxBatch
      <4>1. g \in Nat /\ g < frame[d] /\ \A f \in outbound[d] : g < f + MaxBatch
        BY <1>1, <3>7, InTransit, Numbers DEF TailOf, IsBatch
      <4> QED BY <1>2, <3>1, <4>1, Constants
    <3>8. upload[d] \subseteq outbound'[d]
      BY <1>1, <3>1 DEF TailOf
    <3> QED BY <3>1, <3>2, <3>3, <3>4, <3>5, <3>6, <3>7, <3>8 DEF TailOf, Index
  <2>2. CASE d # c
    <3>1. frame'[d] = frame[d] /\ outbound'[d] = outbound[d] /\ UNCHANGED <<upload, epoch, received, channel>>
      BY <1>4, <2>2 DEF Simulating, Shape, TypeOK, wire
    <3> QED BY <1>1, <3>1 DEF TailOf, Index
  <2> QED BY <2>1, <2>2
<1>5. ASSUME NEW c \in Client, NextRound(c)
      PROVE  TailOf(d)'
  <2>1. UNCHANGED <<received, channel>>
    BY <1>5 DEF NextRound, wire
  <2>2. CASE d = c
    <3>1. epoch'[d] = epoch[d] + 1 /\ epoch'[d] \in Epoch /\ outbound'[d] = {} /\ upload'[d] = {}
      BY <1>5, <2>2 DEF NextRound, StartEpoch, Shape, TypeOK
    <3>2. received[p][epoch'[d]] = {}
      BY <1>1, <1>2, <3>1 DEF Reached, EpochsOf
    <3>3. \A i \in Index(p) : ~IsBatch(channel[p][i], epoch'[d])
      <4>1. \A i \in Index(p) : channel[p][i].type = "frame-batch" => channel[p][i].epoch <= epoch[d]
        BY <1>1 DEF Reached, EpochsOf
      <4> QED BY <1>2, <3>1, <4>1 DEF IsBatch
    <3> QED BY <2>1, <3>1, <3>2, <3>3 DEF TailOf, Index
  <2>3. CASE d # c
    <3>1. frame'[d] = frame[d] /\ outbound'[d] = outbound[d] /\ upload'[d] = upload[d] /\ epoch'[d] = epoch[d]
      BY <1>5, <2>3 DEF NextRound, StartEpoch, Shape, TypeOK
    <3> QED BY <1>1, <2>1, <3>1 DEF TailOf, Index
  <2> QED BY <2>2, <2>3
<1>6. ASSUME NEW c \in Client, Flush(c)
      PROVE  TailOf(d)'
  <2>1. UNCHANGED <<frame, epoch, outbound, received>>
    BY <1>6, FlushIs DEF loop
  <2>2. CASE d = c
    <3>1. upload'[d] = upload[d] \cup Uploading(d)
      BY <1>6, <2>2, FlushIs DEF Shape
    <3>2. /\ Uploading(d) \subseteq outbound[d]
          /\ \A f \in Uploading(d), g \in outbound[d] : g <= f => g \in Uploading(d)
          /\ \A f \in outbound[d], g \in Uploading(d) : g < f + MaxBatch
      <4>1. CASE upload[d] = {}
        <5>1. Uploading(d) = Lowest(outbound[d])
          BY <4>1 DEF Uploading
        <5>2. outbound[d] \in SUBSET Frame
          BY Shapes
        <5>3. \A f \in outbound[d] : f < frame[d] /\ f..(frame[d] - 1) \subseteq outbound[d]
          BY <1>1 DEF TailOf
        <5>4. /\ \A f \in Lowest(outbound[d]), g \in outbound[d] : g <= f => g \in Lowest(outbound[d])
              /\ \A f \in outbound[d], g \in Lowest(outbound[d]) : g < f + MaxBatch
          BY <1>2, <5>2, <5>3, LowestOfTail
        <5> QED BY <5>1, <5>4, OutgoingIs
      <4>2. CASE upload[d] # {}
        BY <4>2 DEF Uploading
      <4> QED BY <4>1, <4>2
    <3>3. ASSUME NEW i \in DOMAIN channel'[p], IsBatch(channel'[p][i], epoch[d])
          PROVE  /\ \A g \in channel'[p][i].frames : g < frame[d]
                 /\ \A f \in outbound[d], g \in channel'[p][i].frames : g < f + MaxBatch
      <4>1. CASE i \in Index(p) /\ channel'[p][i] = channel[p][i]
        BY <1>1, <3>3, <4>1 DEF TailOf
      <4>2. CASE channel'[p][i] = Batch(epoch[d], Uploading(d))
        BY <1>1, <3>2, <4>2 DEF TailOf, Batch
      <4>3. channel'[p][i] # Confirmation(epoch[d], contiguous[d])
        BY <3>3 DEF IsBatch, Confirmation
      <4> QED BY <1>1, <1>6, <2>2, <4>1, <4>2, <4>3, FlushQueue
    <3> QED BY <1>1, <2>1, <3>1, <3>2, <3>3 DEF TailOf, Index
  <2>3. CASE d # c
    <3>1. upload'[d] = upload[d] /\ channel'[p] = channel[p]
      BY <1>1, <1>6, <2>3, FlushIs DEF Shape
    <3> QED BY <1>1, <2>1, <3>1 DEF TailOf, Index
  <2> QED BY <2>2, <2>3
<1>7. ASSUME NEW c \in Client, NEW m \in Message, Taking(c, m)
      PROVE  TailOf(d)'
  <2>1. UNCHANGED <<frame, epoch>>
    BY <1>7, TakingIs DEF loop
  <2>2. ASSUME NEW i \in DOMAIN channel'[p], IsBatch(channel'[p][i], epoch[d])
        PROVE  \E j \in Index(p) : channel'[p][i] = channel[p][j]
    <3>1. channel'[p][i] # Ack(m.epoch, m.frames)
      BY <2>2 DEF IsBatch, Ack
    <3> QED BY <1>1, <1>7, <3>1, TakeQueue
  <2>3. /\ outbound'[d] \subseteq outbound[d] /\ upload'[d] \subseteq upload[d]
        /\ \/ UNCHANGED <<outbound[d], upload[d]>>
           \/ upload'[d] = {} /\ outbound'[d] = outbound[d] \ upload[d]
    BY <1>2, <1>7, TakenIs
  <2>4. \A g \in received'[p][epoch[d]] : g < frame[d] /\ \A f \in outbound[d] : g < f + MaxBatch
    <3>1. CASE received'[p][epoch[d]] = received[p][epoch[d]]
      BY <1>1, <3>1 DEF TailOf
    <3>2. CASE p = c /\ IsBatch(m, epoch[d]) /\ received'[p][epoch[d]] = received[p][epoch[d]] \cup m.frames
      BY <1>1, <1>7, <3>2, TakingIs DEF TailOf
    <3> QED BY <1>1, <1>2, <1>7, <3>1, <3>2, TakenIs
  <2>5. \A f \in outbound'[d] : f < frame[d] /\ f..(frame[d] - 1) \subseteq outbound'[d]
    <3>1. CASE UNCHANGED outbound[d]
      BY <1>1, <3>1 DEF TailOf
    <3>2. CASE outbound'[d] = outbound[d] \ upload[d]
      <4>1. ASSUME NEW f \in outbound[d] \ upload[d], NEW g \in f..(frame[d] - 1)
            PROVE  g \in outbound[d] \ upload[d]
        <5>1. g \in outbound[d] /\ f <= g
          BY <1>1, <1>2 DEF TailOf
        <5> QED BY <1>1, <5>1 DEF TailOf
      <4> QED BY <1>1, <3>2, <4>1 DEF TailOf
    <3> QED BY <2>3, <3>1, <3>2
  <2> HIDE DEF p
  <2>6. \A i \in DOMAIN channel'[p] : IsBatch(channel'[p][i], epoch[d]) =>
           /\ \A g \in channel'[p][i].frames : g < frame[d]
           /\ \A f \in outbound'[d], g \in channel'[p][i].frames : g < f + MaxBatch
    BY <1>1, <2>2, <2>3 DEF TailOf, p
  <2> QED BY <1>1, <2>1, <2>3, <2>4, <2>5, <2>6 DEF TailOf, Index, p
<1>8. ASSUME NEW c \in Client, Leaving(c)
      PROVE  TailOf(d)'
  <2>1. /\ UNCHANGED <<frame, epoch, received>>
        /\ outbound'[d] = outbound[d] \/ outbound'[d] = {}
        /\ upload'[d] = {} \/ (upload'[d] = upload[d] /\ outbound'[d] = outbound[d])
        /\ channel'[p] = channel[p] \/ channel'[p] = <<>>
    <3>1. UNCHANGED <<frame, epoch, received>> /\ upload'[d] = IF d = c THEN {} ELSE upload[d]
      BY <1>8, LeavingIs
    <3>2. outbound' = outbound \/ outbound' = [outbound EXCEPT ![c] = {}]
      BY <1>8 DEF Leaving
    <3>3. DOMAIN outbound = Client
      BY DEF Shape, TypeOK
    <3>4. channel'[p] = channel[p] \/ channel'[p] = <<>>
      <4> HIDE DEF p
      <4> QED BY <1>1, <1>8, LeavingIs
    <3>5. outbound'[d] = outbound[d] \/ (outbound'[d] = {} /\ d = c)
      BY <3>2, <3>3
    <3> QED BY <3>1, <3>4, <3>5
  <2> HIDE DEF p
  <2> QED BY <1>1, <2>1 DEF TailOf, Index, p
<1>9. UNCHANGED vars \/ ExchangeCheckpoints =>
         UNCHANGED <<frame, outbound, upload, epoch, received, channel>>
  BY DEF vars, loop, pump, wire, ExchangeCheckpoints
<1>10. \A c \in Client : ResolveRound(c) \/ Activate(c) =>
          UNCHANGED <<frame, outbound, upload, epoch, received, channel>>
  BY DEF loop, pump, wire, ResolveRound, Activate
<1> QED BY <1>3, <1>4, <1>5, <1>6, <1>7, <1>8, <1>9, <1>10, Steps DEF Moves


(* Batches come in the order of their epochs.                               *)
LEMMA BatchesStep ==
    ASSUME Shape, Rounding, Reached, Linking, Shape', Batches, [Next]_vars
    PROVE  Batches'
<1> USE Peers
<1> SUFFICES ASSUME NEW d \in Client
             PROVE  BatchesOf(d)'
  BY DEF Batches
<1>1. BatchesOf(d)
  BY DEF Batches
<1>2. CASE UNCHANGED <<received, channel>>
  BY <1>1, <1>2 DEF BatchesOf, Index
<1>3. ASSUME NEW c \in Client, Flush(c)
      PROVE  BatchesOf(d)'
  <2>1. received' = received
    BY <1>3, FlushIs
  <2>2. ASSUME NEW i \in DOMAIN channel'[d], channel'[d][i].type = "frame-batch"
        PROVE  \/ i \in Index(d) /\ channel'[d][i] = channel[d][i]
               \/ /\ d = Peer(c) /\ channel'[d][i].epoch = epoch[c] /\ i = Len(channel[d]) + 1
    <3>1. channel'[d][i] # Confirmation(epoch[c], contiguous[c])
      BY <2>2 DEF Confirmation
    <3>2. Batch(epoch[c], Uploading(c)).epoch = epoch[c]
      BY DEF Batch
    <3> QED BY <1>3, <3>1, <3>2, FlushQueue
  <2>3. ASSUME NEW i \in DOMAIN channel'[d], NEW j \in DOMAIN channel'[d], i < j,
               channel'[d][i].type = "frame-batch", channel'[d][j].type = "frame-batch"
        PROVE  channel'[d][i].epoch <= channel'[d][j].epoch
    <3>1. CASE /\ i \in Index(d) /\ channel'[d][i] = channel[d][i]
               /\ j \in Index(d) /\ channel'[d][j] = channel[d][j]
      BY <1>1, <2>3, <3>1 DEF BatchesOf
    <3>2. CASE /\ i \in Index(d) /\ channel'[d][i] = channel[d][i]
               /\ d = Peer(c) /\ channel'[d][j].epoch = epoch[c]
      BY <2>3, <3>2 DEF Reached, EpochsOf
    <3>3. CASE i = Len(channel[d]) + 1
      <4>1. channel[d] \in Seq(Message) /\ Len(channel[d]) \in Nat
        BY DEF Shape
      <4>2. j \notin Index(d) /\ j # Len(channel[d]) + 1
        BY <2>3, <3>3, <4>1 DEF Index
      <4> QED BY <2>2, <2>3, <4>2
    <3> QED BY <2>2, <2>3, <3>1, <3>2, <3>3
  <2>4. ASSUME NEW i \in DOMAIN channel'[d], NEW e \in Epoch,
               channel'[d][i].type = "frame-batch", received[d][e] # {}
        PROVE  e <= channel'[d][i].epoch
    <3>1. CASE i \in Index(d) /\ channel'[d][i] = channel[d][i]
      BY <1>1, <2>4, <3>1 DEF BatchesOf
    <3>2. CASE d = Peer(c) /\ channel'[d][i].epoch = epoch[c]
      <4>1. ~(e > epoch[c])
        BY <2>4, <3>2 DEF Reached, EpochsOf
      <4> QED BY <3>2, <4>1, Shapes, Epochs
    <3> QED BY <2>2, <2>4, <3>1, <3>2
  <2> QED BY <2>1, <2>3, <2>4 DEF BatchesOf, Index
<1>4. ASSUME NEW c \in Client, NEW m \in Message, Taking(c, m)
      PROVE  BatchesOf(d)'
  <2>1. ASSUME NEW i \in DOMAIN channel'[d], channel'[d][i].type = "frame-batch"
        PROVE  \/ d = c /\ i \in Nat \ {0} /\ i + 1 \in Index(c) /\ channel'[d][i] = channel[c][i + 1]
               \/ d # c /\ i \in Index(d) /\ channel'[d][i] = channel[d][i]
    <3>1. channel'[d][i] # Ack(m.epoch, m.frames)
      BY <2>1 DEF Ack
    <3> QED BY <1>4, <3>1, TakeQueue
  <2>2. ASSUME NEW i \in DOMAIN channel'[d], NEW j \in DOMAIN channel'[d], i < j,
               channel'[d][i].type = "frame-batch", channel'[d][j].type = "frame-batch"
        PROVE  channel'[d][i].epoch <= channel'[d][j].epoch
    BY <1>1, <2>1, <2>2 DEF BatchesOf
  <2>3. ASSUME NEW i \in DOMAIN channel'[d], NEW e \in Epoch,
               channel'[d][i].type = "frame-batch", received'[d][e] # {}
        PROVE  e <= channel'[d][i].epoch
    <3>1. CASE received'[d][e] = received[d][e]
      BY <1>1, <2>1, <2>3, <3>1 DEF BatchesOf
    <3>2. CASE d = c /\ m.type = "frame-batch" /\ e = m.epoch
      <4>1. i \in Nat \ {0} /\ i + 1 \in Index(c) /\ channel'[d][i] = channel[c][i + 1]
        BY <2>1, <2>3, <3>2
      <4>2. 1 \in Index(c) /\ channel[c][1] = m /\ channel[c] \in Seq(Message)
        BY <1>4, TakingIs DEF Shape
      <4>3. 1 < i + 1
        BY <4>1
      <4> QED BY <1>1, <2>3, <3>2, <4>1, <4>2, <4>3 DEF BatchesOf
    <3> QED BY <1>4, <3>1, <3>2, TakenIs DEF IsBatch
  <2> QED BY <2>2, <2>3 DEF BatchesOf, Index
<1>5. ASSUME NEW c \in Client, Leaving(c)
      PROVE  BatchesOf(d)'
  <2>1. received' = received /\ (channel'[d] = channel[d] \/ channel'[d] = <<>>)
    BY <1>5 DEF Leaving, wire, Shape
  <2> QED BY <1>1, <2>1 DEF BatchesOf, Index
<1>6. UNCHANGED vars \/ ExchangeCheckpoints => UNCHANGED <<received, channel>>
  BY DEF vars, wire, ExchangeCheckpoints
<1>7. \A c \in Client : Simulating(c) \/ ResolveRound(c) \/ NextRound(c) \/ Activate(c) =>
          UNCHANGED <<received, channel>>
  BY DEF Simulating, ResolveRound, NextRound, Activate, wire
<1> QED BY <1>2, <1>3, <1>4, <1>5, <1>6, <1>7, Steps DEF Moves


(* There is one batch in flight, or its acknowledgement, or neither.        *)
LEMMA UploadsStep ==
    ASSUME Shape, Rounding, Reached, Linking, Shape', Uploads, [Next]_vars
    PROVE  Uploads'
<1> USE Peers
<1> SUFFICES ASSUME NEW d \in Client, Linked(d)'
             PROVE  UploadOf(d)'
  BY DEF Uploads, UploadOf
<1> DEFINE p == Peer(d)
           e == epoch[d]
<1>1. UploadOf(d) /\ p \in Client /\ p # d /\ Peer(p) = d
  BY DEF Uploads
<1>2. CASE UNCHANGED <<epoch, upload, channel>> /\ Linked(d)
  BY <1>1, <1>2 DEF UploadOf, Index
<1>3. ASSUME NEW c \in Client, NextRound(c)
      PROVE  UploadOf(d)'
  <2>1. channel' = channel /\ Linked(d)
    BY <1>3 DEF NextRound, Linked, link
  <2>2. CASE d = c
    <3>1. epoch'[d] = epoch[d] + 1 /\ epoch[d] \in Nat
      BY <1>3, <2>2, Shapes, Epochs DEF NextRound, StartEpoch, Shape, TypeOK
    <3>2. \A i \in Index(p) : ~IsBatch(channel[p][i], epoch'[d])
      <4>1. \A i \in Index(p) : channel[p][i].type = "frame-batch" => channel[p][i].epoch <= epoch[d]
        BY <1>1 DEF Reached, EpochsOf
      <4> QED BY <3>1, <4>1 DEF IsBatch
    <3>3. \A i \in Index(d) : ~IsAck(channel[d][i], epoch'[d])
      <4>1. \A i \in Index(d) : channel[d][i].type = "frame-ack" => channel[d][i].epoch <= epoch[d]
        BY DEF Reached, EpochsOf
      <4> QED BY <3>1, <4>1 DEF IsAck
    <3> QED BY <2>1, <3>2, <3>3 DEF UploadOf, Index
  <2>3. CASE d # c
    <3>1. upload'[d] = upload[d] /\ epoch'[d] = epoch[d]
      BY <1>3, <2>3 DEF NextRound, StartEpoch, Shape, TypeOK
    <3> QED BY <1>1, <2>1, <3>1 DEF UploadOf, Index
  <2> QED BY <2>2, <2>3
<1>4. ASSUME NEW c \in Client, Flush(c)
      PROVE  UploadOf(d)'
  <2>1. epoch' = epoch /\ Linked(d)
    BY <1>4, FlushIs DEF loop, link, Linked
  <2>2. ASSUME NEW b \in Client, NEW i \in DOMAIN channel'[b], IsAck(channel'[b][i], e)
        PROVE  i \in Index(b) /\ channel'[b][i] = channel[b][i]
    <3>1. channel'[b][i] # Batch(epoch[c], Uploading(c)) /\ channel'[b][i] # Confirmation(epoch[c], contiguous[c])
      BY <2>2 DEF IsAck, Batch, Confirmation
    <3> QED BY <1>4, <3>1, FlushQueue
  <2>3. CASE d = c /\ Uploading(d) # {}
    <3>1. upload[d] = {} /\ upload'[d] = Uploading(d)
      <4>1. upload[d] = {}
        BY <2>3 DEF Uploading
      <4>2. upload'[d] = upload[d] \cup Uploading(d)
        BY <1>4, <2>3, FlushIs DEF Shape
      <4> QED BY <4>1, <4>2
    <3>2. /\ \A i \in Index(p) : ~IsBatch(channel[p][i], e)
          /\ \A i \in Index(d) : ~IsAck(channel[d][i], e)
      BY <1>1, <2>1, <3>1 DEF UploadOf
    <3>3. \A i \in DOMAIN channel'[d] : ~IsAck(channel'[d][i], e)
      BY <2>2, <3>2
    <3>4. ASSUME NEW i \in DOMAIN channel'[p], IsBatch(channel'[p][i], e)
          PROVE  channel'[p][i] = Batch(e, Uploading(d)) /\ i = Len(channel[p]) + 1
      <4>1. channel'[p][i] # Confirmation(e, contiguous[d])
        BY <3>4 DEF IsBatch, Confirmation
      <4>2. ~(i \in Index(p) /\ channel'[p][i] = channel[p][i])
        BY <3>2, <3>4
      <4> QED BY <1>1, <1>4, <2>3, <4>1, <4>2, FlushQueue
    <3>5. \A i \in DOMAIN channel'[p] : IsBatch(channel'[p][i], e) => channel'[p][i].frames = upload'[d]
      BY <3>1, <3>4 DEF Batch
    <3> QED BY <2>1, <2>3, <3>1, <3>3, <3>4, <3>5 DEF UploadOf, Index
  <2>4. CASE d # c \/ Uploading(d) = {}
    <3>1. upload'[d] = upload[d]
      <4>1. upload' = [upload EXCEPT ![c] = upload[c] \cup Uploading(c)]
        BY <1>4, FlushIs
      <4>2. upload \in [Client -> SUBSET Frame]
        BY DEF Shape
      <4> QED BY <2>4, <4>1, <4>2
    <3>2. ASSUME NEW i \in DOMAIN channel'[p], IsBatch(channel'[p][i], e)
          PROVE  i \in Index(p) /\ channel'[p][i] = channel[p][i]
      <4>1. channel'[p][i] # Confirmation(epoch[c], contiguous[c])
        BY <3>2 DEF IsBatch, Confirmation
      <4>2. p = Peer(c) => c = d
        BY <1>1
      <4> QED BY <1>1, <1>4, <2>4, <4>1, <4>2, FlushQueue
    <3> QED BY <1>1, <2>1, <2>2, <3>1, <3>2 DEF UploadOf, Index
  <2> QED BY <2>3, <2>4
<1>5. ASSUME NEW c \in Client, NEW m \in Message, Taking(c, m)
      PROVE  UploadOf(d)'
  <2>1. epoch' = epoch /\ Linked(d) /\ 1 \in Index(c) /\ channel[c][1] = m
    BY <1>5, TakingIs DEF loop, link, Linked
  <2>2. ASSUME NEW b \in Client, NEW i \in DOMAIN channel'[b], IsBatch(channel'[b][i], e)
        PROVE  \/ b = c /\ i \in Nat \ {0} /\ i + 1 \in Index(b) /\ channel'[b][i] = channel[b][i + 1]
               \/ b # c /\ i \in Index(b) /\ channel'[b][i] = channel[b][i]
    <3>1. channel'[b][i] # Ack(m.epoch, m.frames)
      BY <2>2 DEF IsBatch, Ack
    <3> QED BY <1>5, <3>1, TakeQueue
  <2>3. CASE d = c
    <3>1. ASSUME NEW i \in DOMAIN channel'[p], IsBatch(channel'[p][i], e)
          PROVE  i \in Index(p) /\ channel'[p][i] = channel[p][i]
      BY <1>1, <2>2, <2>3, <3>1
    <3>2. ASSUME NEW i \in DOMAIN channel'[d]
          PROVE  i \in Nat \ {0} /\ i + 1 \in Index(d) /\ channel'[d][i] = channel[d][i + 1]
      BY <1>1, <1>5, <2>3, TakeQueue
    <3>3. CASE m.type = "frame-ack" /\ m.epoch = e
      <4>1. IsAck(channel[d][1], e)
        BY <2>1, <2>3, <3>3 DEF IsAck
      <4>2. \A i \in DOMAIN channel'[p] : ~IsBatch(channel'[p][i], e)
        BY <1>1, <2>1, <2>3, <3>1, <4>1 DEF UploadOf
      <4>3. \A i \in DOMAIN channel'[d] : ~IsAck(channel'[d][i], e)
        <5>1. \A i \in DOMAIN channel'[d] : IsAck(channel'[d][i], e) => i + 1 = 1
          BY <1>1, <2>1, <2>3, <3>2, <4>1 DEF UploadOf
        <5> QED BY <3>2, <5>1
      <4> QED BY <2>1, <4>2, <4>3 DEF UploadOf, Index
    <3>4. CASE ~(m.type = "frame-ack" /\ m.epoch = e)
      <4>1. upload'[d] = upload[d]
        BY <1>5, <2>3, <3>4, TakingIs
      <4>2. \A i, j \in DOMAIN channel'[d] : IsAck(channel'[d][i], e) /\ IsAck(channel'[d][j], e) => i = j
        <5>1. \A i, j \in DOMAIN channel'[d] : IsAck(channel'[d][i], e) /\ IsAck(channel'[d][j], e) => i + 1 = j + 1
          BY <1>1, <2>1, <3>2 DEF UploadOf
        <5> QED BY <3>2, <5>1
      <4> QED BY <1>1, <2>1, <3>1, <3>2, <4>1, <4>2 DEF UploadOf, Index
    <3> QED BY <3>3, <3>4
  <2>4. CASE d # c
    <3>1. c = p /\ upload'[d] = upload[d]
      BY <1>1, <1>5, <2>4, TakingIs DEF Shape
    <3>2. ASSUME NEW i \in DOMAIN channel'[p], IsBatch(channel'[p][i], e)
          PROVE  i \in Nat \ {0} /\ i + 1 \in Index(p) /\ channel'[p][i] = channel[p][i + 1]
      BY <1>1, <2>2, <3>1, <3>2
    <3>3. CASE IsBatch(m, e)
      <4>1. IsBatch(channel[p][1], e) /\ 1 \in Index(p)
        BY <2>1, <3>1, <3>3
      <4>2. \A i \in DOMAIN channel'[p] : ~IsBatch(channel'[p][i], e)
        <5>1. \A i \in DOMAIN channel'[p] : IsBatch(channel'[p][i], e) => i + 1 = 1
          BY <1>1, <2>1, <3>2, <4>1 DEF UploadOf
        <5> QED BY <3>2, <5>1
      <4>3. \A i \in Index(d) : ~IsAck(channel[d][i], e)
        BY <1>1, <2>1, <4>1 DEF UploadOf
      <4>4. m.frames = upload[d] /\ upload[d] # {}
        BY <1>1, <2>1, <3>1, <4>1 DEF UploadOf
      <4>5. ASSUME NEW i \in DOMAIN channel'[d], IsAck(channel'[d][i], e)
            PROVE  i = Len(channel[d]) + 1 /\ channel'[d][i] = Ack(m.epoch, m.frames)
        BY <1>5, <2>4, <4>3, <4>5, TakeQueue
      <4>6. \A i \in DOMAIN channel'[d] : IsAck(channel'[d][i], e) => channel'[d][i].frames = upload[d]
        BY <4>4, <4>5 DEF Ack
      <4> QED BY <2>1, <3>1, <4>2, <4>4, <4>5, <4>6 DEF UploadOf, Index
    <3>4. CASE ~IsBatch(m, e)
      <4>1. ASSUME NEW i \in DOMAIN channel'[d], IsAck(channel'[d][i], e)
            PROVE  i \in Index(d) /\ channel'[d][i] = channel[d][i]
        <5>1. ~(m.type = "frame-batch" /\ channel'[d][i] = Ack(m.epoch, m.frames))
          BY <3>4, <4>1 DEF IsBatch, IsAck, Ack
        <5> QED BY <1>5, <2>4, <5>1, TakeQueue
      <4>2. \A i, j \in DOMAIN channel'[p] : IsBatch(channel'[p][i], e) /\ IsBatch(channel'[p][j], e) => i = j
        <5>1. \A i, j \in DOMAIN channel'[p] :
                 IsBatch(channel'[p][i], e) /\ IsBatch(channel'[p][j], e) => i + 1 = j + 1
          BY <1>1, <2>1, <3>2 DEF UploadOf
        <5> QED BY <3>2, <5>1
      <4> QED BY <1>1, <2>1, <3>1, <3>2, <4>1, <4>2 DEF UploadOf, Index
    <3> QED BY <3>3, <3>4
  <2> QED BY <2>3, <2>4
<1>6. ASSUME NEW c \in Client, Leaving(c)
      PROVE  UploadOf(d)'
  <2>1. d # c
    BY <1>6 DEF Leaving, Linked
  <2>2. /\ epoch' = epoch /\ upload'[d] = upload[d] /\ Linked(d)
        /\ channel'[d] = channel[d] /\ channel'[p] = <<>>
    BY <1>1, <1>6, <2>1 DEF Leaving, Linked, Shape
  <2> HIDE DEF p
  <2> QED BY <1>1, <2>2 DEF UploadOf, Index, p
<1>7. CASE ExchangeCheckpoints
  <2>1. /\ channel' = channel /\ channel[d] = <<>> /\ channel[p] = <<>>
    BY <1>1, <1>7 DEF ExchangeCheckpoints, Linking, LinkOf, Linked
  <2> HIDE DEF p
  <2> QED BY <1>1, <2>1 DEF UploadOf, Index, p
<1>8. UNCHANGED vars => UNCHANGED <<epoch, upload, channel>> /\ Linked(d)
  BY DEF vars, loop, pump, link, Linked
<1>9. ASSUME NEW c \in Client, Simulating(c) \/ ResolveRound(c) \/ Activate(c)
      PROVE  UNCHANGED <<epoch, upload, channel>> /\ Linked(d)
  <2>1. CASE Simulating(c) \/ ResolveRound(c)
    BY <2>1, <1>1 DEF Simulating, ResolveRound, loop, pump, link, Linked
  <2>2. CASE Activate(c)
    <3>1. UNCHANGED <<epoch, upload, channel>> /\ transport[c] = "staged"
          /\ transport'[d] = IF d = c THEN "connected" ELSE transport[d]
      BY <2>2, ActivateIs
    <3> QED BY <3>1, <1>1 DEF Linked
  <2> QED BY <1>9, <2>1, <2>2
<1> QED BY <1>2, <1>3, <1>4, <1>5, <1>6, <1>7, <1>8, <1>9, Steps DEF Moves


-----------------------------------------------------------------------------
(* What is acknowledged or confirmed is held.                                *)
Holding == \A c \in Client : HeldOf(c)

(* At the start nothing is held or confirmed.                               *)
LEMMA HoldingInit == Init => Holding
BY Constants, Numbers, Peers DEF Init, Holding, HeldOf, Unsaid, Index

(* What a transport holds it goes on holding.                                *)
LEMMA ReceivedGrows ==
    ASSUME Shape, Rounding, [Next]_vars, NEW d \in Client, NEW e \in Epoch
    PROVE  received[d][e] \subseteq received'[d][e]
<1>1. ASSUME NEW c \in Client, NEW m \in Message, Taking(c, m)
      PROVE  received[d][e] \subseteq received'[d][e]
  <2>1. received' = received \/ received' = [received EXCEPT ![c][m.epoch] = @ \cup m.frames]
    BY <1>1 DEF Taking, ReceiveBatch, ReceiveAck, ReceiveConfirmation, wire
  <2>2. received \in [Client -> [Epoch -> SUBSET Frame]]
    BY DEF Shape, TypeOK
  <2>3. received'[d][e] = received[d][e] \cup m.frames \/ received'[d][e] = received[d][e]
    BY <2>1, <2>2
  <2> QED BY <2>3
<1>2. \A c \in Client : Moves(c) => UNCHANGED received \/ \E m \in Message : Taking(c, m)
  BY FlushIs DEF Moves, Simulating, ResolveRound, NextRound, Leaving, Activate, wire
<1>3. UNCHANGED vars \/ ExchangeCheckpoints => UNCHANGED received
  BY DEF vars, wire, ExchangeCheckpoints
<1> QED BY <1>1, <1>2, <1>3, Steps

(* What is confirmed or acknowledged stays held.                            *)
LEMMA HoldingStep ==
    ASSUME Shape, Rounding, Reached, Shape', Holding, [Next]_vars
    PROVE  Holding'
<1> USE Peers
<1> SUFFICES ASSUME NEW d \in Client
             PROVE  HeldOf(d)'
  BY DEF Holding
<1> DEFINE p == Peer(d)
           e == epoch[d]
<1>1. HeldOf(d) /\ HeldOf(p) /\ p \in Client /\ p # d /\ Peer(p) = d
  BY DEF Holding
<1>2. e \in Epoch /\ frame[d] \in Nat
  BY Shapes
<1>3. \A b \in Client, x \in Epoch : received[b][x] \subseteq received'[b][x]
  BY ReceivedGrows
<1>4. \A i \in Index(d) : channel[d][i].epoch \in Epoch
  BY InTransit
<1>5. CASE /\ UNCHANGED <<epoch, received, contiguous, peerConfirmed, heard, channel, outbound, frame>>
           /\ Playing(d)' => Playing(d)
  BY <1>1, <1>5 DEF HeldOf, Index
<1>6. ASSUME NEW c \in Client, Simulating(c)
      PROVE  HeldOf(d)'
  <2>1. UNCHANGED <<epoch, received, contiguous, peerConfirmed, heard, channel>> /\ Playing(c)
    BY <1>6 DEF Simulating, wire, Playing
  <2>2. CASE d = c
    <3>1. frame'[d] = frame[d] + 1 /\ outbound'[d] = outbound[d] \cup {frame[d]}
      BY <1>6, <2>2 DEF Simulating, Shape, TypeOK
    <3>2. 0..(frame[d] - 1) \subseteq outbound[d] \cup received[p][e]
      BY <1>1, <2>1, <2>2 DEF HeldOf
    <3>3. 0..(frame'[d] - 1) \subseteq outbound'[d] \cup received[p][e]
      BY <1>2, <3>1, <3>2
    <3> QED BY <1>1, <2>1, <3>3 DEF HeldOf, Index
  <2>3. CASE d # c
    <3>1. frame'[d] = frame[d] /\ outbound'[d] = outbound[d] /\ phase'[d] = phase[d]
      BY <1>6, <2>3 DEF Simulating, Shape, TypeOK
    <3> QED BY <1>1, <2>1, <3>1 DEF HeldOf, Index, Playing
  <2> QED BY <2>2, <2>3
<1>7. ASSUME NEW c \in Client, NextRound(c)
      PROVE  HeldOf(d)'
  <2>1. UNCHANGED <<received, heard, channel>>
    BY <1>7 DEF NextRound, wire
  <2>2. CASE d = c
    <3>1. frame'[d] = 0 /\ contiguous'[d] = None /\ peerConfirmed'[d] = None
      BY <1>7, <2>2 DEF NextRound, StartEpoch, Shape, TypeOK
    <3>2. 0..contiguous'[d] = {} /\ 0..peerConfirmed'[d] = {} /\ 0..(frame'[d] - 1) = {}
      BY <3>1, Numbers
    <3> QED BY <1>1, <2>1, <3>2 DEF HeldOf, Index
  <2>3. CASE d # c
    <3>1. /\ frame'[d] = frame[d] /\ outbound'[d] = outbound[d] /\ epoch'[d] = epoch[d] /\ phase'[d] = phase[d]
          /\ contiguous'[d] = contiguous[d] /\ peerConfirmed'[d] = peerConfirmed[d]
      BY <1>7, <2>3 DEF NextRound, StartEpoch, Shape, TypeOK
    <3> QED BY <1>1, <2>1, <3>1 DEF HeldOf, Index, Playing
  <2> QED BY <2>2, <2>3
<1>8. ASSUME NEW c \in Client, Flush(c)
      PROVE  HeldOf(d)'
  <2>1. UNCHANGED <<phase, epoch, frame, outbound, received, heard>>
    BY <1>8, FlushIs DEF loop
  <2>2. 0..contiguous'[d] \subseteq received[d][e]
    <3>1. CASE contiguous'[d] = contiguous[d]
      BY <1>1, <3>1 DEF HeldOf
    <3>2. CASE contiguous'[d] = HeldThrough(d)
      <4>1. /\ HeldThrough(d) \in Cursor /\ (contiguous[d] + 1)..HeldThrough(d) \subseteq received[d][e]
        BY HeldThroughIs
      <4>2. 0..contiguous[d] \subseteq received[d][e]
        BY <1>1 DEF HeldOf
      <4>3. contiguous[d] \in Int /\ HeldThrough(d) \in Int
        BY <4>1, Shapes, Cursors
      <4> QED BY <3>2, <4>1, <4>2, <4>3
    <3>3. contiguous' = [contiguous EXCEPT ![c] = HeldThrough(c)] /\ DOMAIN contiguous = Client
      BY <1>8, FlushIs DEF Shape, TypeOK
    <3>4. contiguous'[d] = contiguous[d] \/ contiguous'[d] = HeldThrough(d)
      BY <3>3
    <3> QED BY <3>1, <3>2, <3>4
  <2>3. 0..peerConfirmed'[d] \subseteq received[p][e]
    <3>1. peerConfirmed'[d] = peerConfirmed[d] \/ peerConfirmed'[d] = heard[d][e]
      <4>1. /\ peerConfirmed' = [peerConfirmed EXCEPT ![c] =
                   IF @ < heard[c][epoch[c]] THEN heard[c][epoch[c]] ELSE @]
            /\ DOMAIN peerConfirmed = Client
        BY <1>8, FlushIs DEF Shape, TypeOK
      <4> QED BY <4>1
    <3> QED BY <1>1, <1>2, <3>1 DEF HeldOf
  <2>4. ASSUME NEW i \in DOMAIN channel'[d]
        PROVE  /\ channel'[d][i].type = "frame-ack" =>
                     channel'[d][i].frames \subseteq received[p][channel'[d][i].epoch]
               /\ IsConfirmation(channel'[d][i]) =>
                     0..channel'[d][i].through \subseteq received[p][channel'[d][i].epoch]
    <3>1. CASE i \in Index(d) /\ channel'[d][i] = channel[d][i]
      BY <1>1, <3>1 DEF HeldOf
    <3>2. CASE channel'[d][i] = Batch(epoch[c], Uploading(c))
      BY <3>2 DEF Batch, IsConfirmation
    <3>3. CASE d = Peer(c) /\ channel'[d][i] = Confirmation(epoch[c], contiguous[c])
      <4>1. c = p /\ 0..contiguous[c] \subseteq received[p][epoch[c]]
        BY <1>1, <3>3 DEF HeldOf
      <4> QED BY <3>3, <4>1 DEF Confirmation
    <3> QED BY <1>8, <3>1, <3>2, <3>3, FlushQueue
  <2> QED BY <1>1, <2>1, <2>2, <2>3, <2>4 DEF HeldOf, Index, Playing
<1>9. ASSUME NEW c \in Client, NEW m \in Message, Taking(c, m)
      PROVE  HeldOf(d)'
  <2>1. UNCHANGED <<phase, epoch, frame, contiguous, peerConfirmed>> /\ 1 \in Index(c) /\ channel[c][1] = m
        /\ m.epoch \in Epoch
    BY <1>9, TakingIs DEF loop
  <2>2. 0..contiguous[d] \subseteq received'[d][e] /\ 0..peerConfirmed[d] \subseteq received'[p][e]
    BY <1>1, <1>2, <1>3 DEF HeldOf
  <2>3. ASSUME NEW x \in Epoch
        PROVE  0..heard'[d][x] \subseteq received'[p][x]
    <3>1. CASE heard'[d][x] = heard[d][x]
      BY <1>1, <1>3, <3>1 DEF HeldOf
    <3>2. CASE d = c /\ x = m.epoch /\ m.type = "frame-confirmation" /\ heard'[d][x] = m.through
      BY <1>1, <1>3, <2>1, <3>2 DEF HeldOf, IsConfirmation
    <3> QED BY <1>9, <3>1, <3>2, TakenIs DEF IsConfirmation
  <2>4. ASSUME NEW i \in DOMAIN channel'[d]
        PROVE  /\ channel'[d][i].type = "frame-ack" =>
                     channel'[d][i].frames \subseteq received'[p][channel'[d][i].epoch]
               /\ IsConfirmation(channel'[d][i]) =>
                     0..channel'[d][i].through \subseteq received'[p][channel'[d][i].epoch]
    <3>1. CASE \E j \in Index(d) : channel'[d][i] = channel[d][j]
      BY <1>1, <1>3, <1>4, <3>1 DEF HeldOf
    <3>2. CASE d = Peer(c) /\ m.type = "frame-batch" /\ channel'[d][i] = Ack(m.epoch, m.frames)
      <4>1. c = p /\ received'[p][m.epoch] = received[p][m.epoch] \cup m.frames
        <5>1. c = p /\ c \in Client
          BY <1>1, <1>9, <3>2
        <5>2. received'[c][m.epoch] = received[c][m.epoch] \cup m.frames
          BY <1>9, <2>1, <3>2, <5>1, TakenIs DEF IsBatch
        <5> QED BY <5>1, <5>2
      <4>2. m.frames \subseteq received'[p][m.epoch]
        BY <4>1
      <4> QED BY <3>2, <4>2 DEF Ack, IsConfirmation
    <3> QED BY <1>9, <3>1, <3>2, TakeQueue
  <2>5. Playing(d) => 0..(frame[d] - 1) \subseteq outbound'[d] \cup received'[p][e]
    <3>1. CASE outbound'[d] = outbound[d]
      BY <1>1, <1>2, <1>3, <3>1 DEF HeldOf
    <3>2. CASE d = c /\ m.type = "frame-ack" /\ m.epoch = e /\ outbound'[d] = outbound[d] \ m.frames
      <4>1. m.frames \subseteq received[p][e]
        BY <1>1, <2>1, <3>2 DEF HeldOf
      <4> QED BY <1>1, <1>2, <1>3, <3>2, <4>1 DEF HeldOf
    <3> QED BY <1>9, <3>1, <3>2, TakenIs, Shapes DEF IsAck
  <2> QED BY <1>1, <2>1, <2>2, <2>3, <2>4, <2>5 DEF HeldOf, Index, Playing
<1>10. ASSUME NEW c \in Client, Leaving(c)
       PROVE  HeldOf(d)'
  <2>1. /\ UNCHANGED <<epoch, frame, received, heard>>
        /\ channel'[d] = channel[d] \/ channel'[d] = <<>>
        /\ contiguous'[d] \in {contiguous[d], None} /\ peerConfirmed'[d] \in {peerConfirmed[d], None}
        /\ Playing(d)' => Playing(d) /\ outbound'[d] = outbound[d]
    BY <1>10 DEF Leaving, wire, Shape, TypeOK, Playing
  <2>2. 0..None = {}
    BY Numbers
  <2>3. 0..contiguous'[d] \subseteq received[d][e] /\ 0..peerConfirmed'[d] \subseteq received[p][e]
    BY <1>1, <2>1, <2>2 DEF HeldOf
  <2> QED BY <1>1, <2>1, <2>3 DEF HeldOf, Index
<1>11. ASSUME NEW c \in Client, Activate(c)
       PROVE  HeldOf(d)'
  <2>1. /\ UNCHANGED <<phase, epoch, frame, received, channel, contiguous, outbound>>
        /\ peerConfirmed'[d] \in {peerConfirmed[d], None}
        /\ \A x \in Epoch : heard'[d][x] \in {heard[d][x], None}
    BY <1>11 DEF Activate, Resume, loop, Shape, TypeOK, Unsaid
  <2>2. 0..None = {}
    BY Numbers
  <2>3. /\ 0..peerConfirmed'[d] \subseteq received[p][e]
        /\ \A x \in Epoch : 0..heard'[d][x] \subseteq received[p][x]
    BY <1>1, <2>1, <2>2 DEF HeldOf
  <2> QED BY <1>1, <2>1, <2>3 DEF HeldOf, Index, Playing
<1>12. UNCHANGED vars \/ ExchangeCheckpoints =>
          /\ UNCHANGED <<epoch, received, contiguous, peerConfirmed, heard, channel, outbound, frame>>
          /\ Playing(d)' => Playing(d)
  BY DEF vars, loop, pump, wire, ExchangeCheckpoints, Playing
<1>13. \A c \in Client : ResolveRound(c) =>
          /\ UNCHANGED <<epoch, received, contiguous, peerConfirmed, heard, channel, outbound, frame>>
          /\ Playing(d)' => Playing(d)
  BY DEF ResolveRound, CommitRound, pump, wire, Playing, Shape, TypeOK
<1> QED BY <1>5, <1>6, <1>7, <1>8, <1>9, <1>10, <1>11, <1>12, <1>13, Steps DEF Moves


-----------------------------------------------------------------------------
(* A client confirms nothing beyond its prefix.                              *)
Prefixes == \A c \in Client : PrefixOf(c)

(* At the start nothing is confirmed.                                       *)
LEMMA PrefixesInit == Init => Prefixes
<1> SUFFICES ASSUME Init, NEW c \in Client PROVE PrefixOf(c)
  BY DEF Prefixes
<1>1. Peer(c) \in Client /\ 0 \in Epoch
  BY Peers, Constants, Numbers
<1>2. /\ epoch[c] = 0 /\ epoch[Peer(c)] = 0 /\ contiguous[c] = None /\ confirmationSent[c] = None
      /\ told[c][0] = None /\ heard[Peer(c)][0] = None /\ peerConfirmed[Peer(c)] = None
      /\ channel[Peer(c)] = <<>>
  BY <1>1 DEF Init, Unsaid
<1>3. None <= None /\ Index(Peer(c)) = {}
  BY <1>2, Numbers DEF Index
<1> QED BY <1>2, <1>3 DEF PrefixOf

(* Nobody confirms more than its own prefix.                                *)
LEMMA PrefixesStep ==
    ASSUME Shape, Rounding, Reached, Shape', Prefixes, [Next]_vars
    PROVE  Prefixes'
<1> USE Peers
<1> SUFFICES ASSUME NEW d \in Client
             PROVE  PrefixOf(d)'
  BY DEF Prefixes
<1> DEFINE p == Peer(d)
           e == epoch[d]
<1>1. PrefixOf(d) /\ p \in Client /\ p # d /\ Peer(p) = d
  BY DEF Prefixes
<1>2. e \in Epoch /\ contiguous[d] \in Cursor /\ contiguous[d] \in Int /\ -1 <= contiguous[d] /\ None = -1
  BY Shapes, Cursors, Numbers
<1>3. CASE /\ UNCHANGED <<epoch, contiguous, told, heard, peerConfirmed, confirmationSent, channel>>
           /\ Playing(d)' => Playing(d)
  BY <1>1, <1>3 DEF PrefixOf, Index
<1>4. ASSUME NEW c \in Client, NextRound(c)
      PROVE  PrefixOf(d)'
  <2>1. UNCHANGED <<told, heard, channel>>
    BY <1>4 DEF NextRound, wire
  <2>2. CASE d = c
    <3>1. /\ epoch'[d] = epoch[d] + 1 /\ contiguous'[d] = None /\ confirmationSent'[d] = None
          /\ epoch'[p] = epoch[p] /\ peerConfirmed'[p] = peerConfirmed[p] /\ epoch'[d] \in Epoch
      BY <1>1, <1>4, <2>2 DEF NextRound, StartEpoch, Shape, TypeOK
    <3>2. epoch[d] \in Nat /\ epoch'[d] > epoch[d]
      BY <1>2, <3>1, Epochs
    <3>3. told[d][epoch'[d]] = None /\ heard[p][epoch'[d]] = None
      BY <1>1, <3>1, <3>2 DEF Reached, EpochsOf
    <3>4. epoch[p] = epoch'[d] => peerConfirmed[p] = None
      BY <1>1, <3>1, <3>2 DEF Reached, EpochsOf
    <3>5. \A i \in Index(p) : IsConfirmation(channel[p][i]) => channel[p][i].epoch # epoch'[d]
      <4>1. \A i \in Index(p) : IsConfirmation(channel[p][i]) => channel[p][i].epoch <= epoch[d]
        BY <1>1 DEF Reached, EpochsOf, IsConfirmation
      <4> QED BY <3>1, <3>2, <4>1
    <3>6. None <= None
      BY <1>2
    <3> QED BY <1>1, <2>1, <3>1, <3>3, <3>4, <3>5, <3>6 DEF PrefixOf, Index
  <2>3. CASE d # c
    <3>1. /\ epoch'[d] = epoch[d] /\ phase'[d] = phase[d]
          /\ contiguous'[d] = contiguous[d] /\ confirmationSent'[d] = confirmationSent[d]
          /\ peerConfirmed'[p] = None
      BY <1>1, <1>4, <2>3 DEF NextRound, StartEpoch, Shape, TypeOK
    <3>2. None <= contiguous[d]
      BY <1>2
    <3> QED BY <1>1, <2>1, <3>1, <3>2 DEF PrefixOf, Index, Playing
  <2> QED BY <2>2, <2>3
<1>5. ASSUME NEW c \in Client, Flush(c)
      PROVE  PrefixOf(d)'
  <2>1. UNCHANGED <<phase, epoch, heard>> /\ Playing(c)
    BY <1>5, FlushIs DEF loop
  <2>2. CASE d = c
    <3>1. /\ contiguous'[d] = HeldThrough(d) /\ peerConfirmed'[p] = peerConfirmed[p]
          /\ told'[d][e] = IF Confirmable(d) THEN contiguous[d] ELSE told[d][e]
          /\ confirmationSent'[d] = IF confirmationSent[d] < contiguous[d] THEN contiguous[d] ELSE confirmationSent[d]
      <4>1. /\ contiguous' = [contiguous EXCEPT ![d] = HeldThrough(d)]
            /\ peerConfirmed' = [peerConfirmed EXCEPT ![d] = IF @ < heard[d][e] THEN heard[d][e] ELSE @]
            /\ confirmationSent' = [confirmationSent EXCEPT ![d] = IF @ < contiguous[d] THEN contiguous[d] ELSE @]
            /\ told' = [told EXCEPT ![d][e] = IF Confirmable(d) THEN contiguous[d] ELSE @]
        BY <1>5, <2>2, FlushIs
      <4>2. /\ DOMAIN contiguous = Client /\ DOMAIN peerConfirmed = Client /\ DOMAIN confirmationSent = Client
            /\ DOMAIN told = Client /\ DOMAIN told[d] = Epoch
        BY DEF Shape, TypeOK
      <4>3. contiguous'[d] = HeldThrough(d) /\ peerConfirmed'[p] = peerConfirmed[p]
        BY <1>1, <4>1, <4>2
      <4>4. confirmationSent'[d] = IF confirmationSent[d] < contiguous[d] THEN contiguous[d] ELSE confirmationSent[d]
        BY <4>1, <4>2
      <4>5. told'[d][e] = IF Confirmable(d) THEN contiguous[d] ELSE told[d][e]
        <5> HIDE DEF e
        <5> QED BY <1>2, <4>1, <4>2
      <4> QED BY <4>3, <4>4, <4>5
    <3>2. HeldThrough(d) \in Int /\ contiguous[d] <= HeldThrough(d)
      BY HeldThroughIs, Cursors
    <3>3. /\ told[d][e] \in Int /\ confirmationSent[d] \in Int /\ heard[p][e] \in Int /\ peerConfirmed[p] \in Int
      BY <1>1, <1>2, Shapes, Cursors
    <3>4. Confirmable(d) <=> confirmationSent[d] < contiguous[d] /\ told[d][e] < contiguous[d]
      BY DEF Confirmable
    <3>5. /\ told[d][e] <= contiguous[d] /\ heard[p][e] <= contiguous[d]
          /\ epoch[p] = e => peerConfirmed[p] <= contiguous[d]
          /\ confirmationSent[d] <= told[d][e]
      BY <1>1, <2>1, <2>2 DEF PrefixOf
    <3>6. confirmationSent'[d] <= told'[d][e] /\ told'[d][e] <= contiguous'[d]
      BY <1>2, <3>1, <3>2, <3>3, <3>4, <3>5
    <3>7. heard[p][e] <= contiguous'[d] /\ (epoch[p] = e => peerConfirmed[p] <= contiguous'[d])
      BY <1>2, <3>1, <3>2, <3>3, <3>5
    <3>8. ASSUME NEW i \in DOMAIN channel'[p], IsConfirmation(channel'[p][i]), channel'[p][i].epoch = e
          PROVE  channel'[p][i].through <= contiguous'[d]
      <4>1. CASE i \in Index(p) /\ channel'[p][i] = channel[p][i]
        <5>1. channel[p][i].through <= contiguous[d] /\ channel[p][i].through \in Frame
          BY <1>1, <2>1, <2>2, <3>8, <4>1, InTransit DEF PrefixOf, IsConfirmation
        <5>2. channel[p][i].through \in Int
          BY <5>1 DEF Frame
        <5> QED BY <1>2, <3>1, <3>2, <4>1, <5>1, <5>2
      <4>2. CASE channel'[p][i] = Confirmation(e, contiguous[d])
        BY <3>1, <3>2, <4>2 DEF Confirmation
      <4>3. channel'[p][i] # Batch(e, Uploading(d))
        BY <3>8 DEF Batch, IsConfirmation
      <4> QED BY <1>1, <1>5, <2>2, <4>1, <4>2, <4>3, FlushQueue
    <3> QED BY <1>1, <2>1, <3>1, <3>6, <3>7, <3>8 DEF PrefixOf, Index
  <2>3. CASE d # c
    <3>1. c = p /\ contiguous'[d] = contiguous[d] /\ confirmationSent'[d] = confirmationSent[d]
          /\ told'[d] = told[d] /\ channel'[p] = channel[p]
      <4>1. c = p /\ Peer(c) = d
        BY <1>1, <2>3
      <4>2. /\ contiguous' = [contiguous EXCEPT ![c] = HeldThrough(c)]
            /\ confirmationSent' = [confirmationSent EXCEPT ![c] = IF @ < contiguous[c] THEN contiguous[c] ELSE @]
            /\ told' = [told EXCEPT ![c][epoch[c]] = IF Confirmable(c) THEN contiguous[c] ELSE @]
            /\ channel' = [channel EXCEPT ![Peer(c)] = Sent(Peer(c), Outgoing(c))]
        BY <1>5, FlushIs
      <4>3. /\ DOMAIN contiguous = Client /\ DOMAIN confirmationSent = Client /\ DOMAIN told = Client
            /\ DOMAIN channel = Client
        BY DEF Shape, TypeOK
      <4>4. contiguous'[d] = contiguous[d] /\ confirmationSent'[d] = confirmationSent[d] /\ told'[d] = told[d]
        BY <2>3, <4>2, <4>3
      <4>5. channel'[p] = channel[p]
        BY <1>1, <4>1, <4>2, <4>3
      <4> QED BY <4>1, <4>4, <4>5
    <3>2. peerConfirmed'[p] = peerConfirmed[p] \/ peerConfirmed'[p] = heard[p][epoch[p]]
      <4>1. /\ peerConfirmed' = [peerConfirmed EXCEPT ![c] =
                   IF @ < heard[c][epoch[c]] THEN heard[c][epoch[c]] ELSE @]
            /\ DOMAIN peerConfirmed = Client
        BY <1>5, FlushIs DEF Shape, TypeOK
      <4> QED BY <1>1, <3>1, <4>1
    <3> QED BY <1>1, <2>1, <3>1, <3>2 DEF PrefixOf, Index, Playing
  <2> QED BY <2>2, <2>3
<1>6. ASSUME NEW c \in Client, NEW m \in Message, Taking(c, m)
      PROVE  PrefixOf(d)'
  <2>1. /\ UNCHANGED <<phase, epoch, contiguous, peerConfirmed, confirmationSent, told>>
        /\ 1 \in Index(c) /\ channel[c][1] = m
    BY <1>6, TakingIs DEF loop
  <2>2. Playing(d) => heard'[p][e] <= contiguous[d]
    <3>1. CASE heard'[p][e] = heard[p][e]
      BY <1>1, <3>1 DEF PrefixOf
    <3>2. CASE p = c /\ m.type = "frame-confirmation" /\ m.epoch = e /\ heard'[p][e] = m.through
      BY <1>1, <2>1, <3>2 DEF PrefixOf, IsConfirmation
    <3> QED BY <1>1, <1>2, <1>6, <3>1, <3>2, TakingIs
  <2>3. ASSUME NEW i \in DOMAIN channel'[p], IsConfirmation(channel'[p][i])
        PROVE  \E j \in Index(p) : channel'[p][i] = channel[p][j]
    <3>1. channel'[p][i] # Ack(m.epoch, m.frames)
      BY <2>3 DEF IsConfirmation, Ack
    <3> QED BY <1>1, <1>6, <3>1, TakeQueue
  <2> QED BY <1>1, <2>1, <2>2, <2>3 DEF PrefixOf, Index, Playing
<1>7. ASSUME NEW c \in Client, Leaving(c)
      PROVE  PrefixOf(d)'
  <2>1. /\ UNCHANGED <<epoch, told, heard>>
        /\ channel'[p] = channel[p] \/ channel'[p] = <<>>
        /\ Playing(d)' => Playing(d) /\ contiguous'[d] = contiguous[d]
        /\ peerConfirmed'[p] \in {peerConfirmed[p], None}
        /\ confirmationSent'[d] \in {confirmationSent[d], None}
    <3>1. UNCHANGED <<epoch, told, heard>> /\ (Playing(d)' => Playing(d) /\ contiguous'[d] = contiguous[d])
          /\ confirmationSent'[d] \in {confirmationSent[d], None}
      BY <1>7, LeavingIs
    <3>2. (channel'[p] = channel[p] \/ channel'[p] = <<>>) /\ peerConfirmed'[p] \in {peerConfirmed[p], None}
      <4> HIDE DEF p
      <4>1. channel'[p] = IF p = c THEN <<>> ELSE channel[p]
        BY <1>1, <1>7, LeavingIs
      <4>2. peerConfirmed'[p] \in {peerConfirmed[p], None}
        BY <1>1, <1>7, LeavingIs
      <4> QED BY <4>1, <4>2
    <3> QED BY <3>1, <3>2
  <2>2. None <= contiguous[d] /\ None <= told[d][e]
    BY <1>2, Shapes, Cursors
  <2> HIDE DEF p
  <2> QED BY <1>1, <2>1, <2>2 DEF PrefixOf, Index, p
<1>8. ASSUME NEW c \in Client, Activate(c)
      PROVE  PrefixOf(d)'
  <2>1. UNCHANGED <<phase, epoch, contiguous, channel>>
    BY <1>8, ActivateIs
  <2>2. None <= contiguous[d] /\ None <= told[d][e] /\ None <= None
    BY <1>2, Shapes, Cursors
  <2>3. CASE d = c
    <3>1. /\ told'[d][e] = None /\ confirmationSent'[d] = None
          /\ heard'[p] = heard[p] /\ peerConfirmed'[p] = peerConfirmed[p]
      <4>1. told'[d] = Unsaid /\ confirmationSent'[d] = None /\ Unsaid[e] = None
        BY <1>2, <1>8, <2>3, ActivateIs
      <4>2. heard'[p] = heard[p] /\ peerConfirmed'[p] = peerConfirmed[p]
        <5> HIDE DEF p
        <5> QED BY <1>1, <1>8, <2>3, ActivateIs
      <4> QED BY <4>1, <4>2
    <3> QED BY <1>1, <2>1, <2>2, <3>1 DEF PrefixOf, Index, Playing
  <2>4. CASE d # c
    <3>1. /\ told'[d] = told[d] /\ confirmationSent'[d] = confirmationSent[d]
          /\ heard'[p][e] = None /\ peerConfirmed'[p] = None
      <4>1. told'[d] = told[d] /\ confirmationSent'[d] = confirmationSent[d] /\ Unsaid[e] = None
        BY <1>2, <1>8, <2>4, ActivateIs
      <4>2. p = c
        BY <1>1, <2>4
      <4>3. heard'[p] = Unsaid /\ peerConfirmed'[p] = None
        <5> HIDE DEF p
        <5> QED BY <1>1, <1>8, <4>2, ActivateIs
      <4> QED BY <4>1, <4>3
    <3> QED BY <1>1, <2>1, <2>2, <3>1 DEF PrefixOf, Index, Playing
  <2> QED BY <2>3, <2>4
<1>9. UNCHANGED vars \/ ExchangeCheckpoints =>
          /\ UNCHANGED <<epoch, contiguous, told, heard, peerConfirmed, confirmationSent, channel>>
          /\ Playing(d)' => Playing(d)
  BY DEF vars, loop, pump, wire, ExchangeCheckpoints, Playing
<1>10. ASSUME NEW c \in Client, Simulating(c) \/ ResolveRound(c)
       PROVE  /\ UNCHANGED <<epoch, contiguous, told, heard, peerConfirmed, confirmationSent, channel>>
              /\ Playing(d)' => Playing(d)
  <2>1. UNCHANGED <<epoch, contiguous, told, heard, peerConfirmed, confirmationSent, channel>>
    BY <1>10 DEF Simulating, ResolveRound, pump, wire
  <2>2. phase[c] \in {"playing", "resolving"} /\ \A b \in Client \ {c} : phase'[b] = phase[b]
    <3>1. CASE Simulating(c)
      BY <3>1 DEF Simulating
    <3>2. CASE ResolveRound(c)
      <4>1. PICK x : phase' = [phase EXCEPT ![c] = x]
        <5>1. \/ phase' = [phase EXCEPT ![c] = IF score[c] + 1 = Rounds THEN "over" ELSE "transition"]
              \/ \E f \in WinningFrames(c, frame[c]) :
                     phase' = [phase EXCEPT ![c] = IF f = None THEN "playing" ELSE phase[c]]
          BY <3>2 DEF ResolveRound, CommitRound
        <5> QED BY <5>1
      <4> QED BY <3>2, <4>1 DEF ResolveRound, Shape, TypeOK
    <3> QED BY <1>10, <3>1, <3>2
  <2>3. Playing(d)' => Playing(d)
    <3>1. CASE d = c
      BY <2>2, <3>1 DEF Playing
    <3>2. CASE d # c
      BY <2>2, <3>2 DEF Playing
    <3> QED BY <3>1, <3>2
  <2> QED BY <2>1, <2>3
<1> QED BY <1>3, <1>4, <1>5, <1>6, <1>7, <1>8, <1>9, <1>10, Steps DEF Moves


-----------------------------------------------------------------------------
(* Confirmations come in order.                                              *)
Orders == \A c \in Client : OrderOf(c)

(* At the start no confirmation is in transit.                              *)
LEMMA OrdersInit == Init => Orders
<1> USE Constants, Numbers, Peers
<1> SUFFICES ASSUME Init, NEW c \in Client PROVE OrderOf(c)
  BY DEF Orders
<1>1. Index(c) = {} /\ latestConfirmation[c] = None /\ epoch[Peer(c)] = 0
  BY DEF Init, Index
<1> QED BY <1>1 DEF OrderOf

(* Confirmations come in the order of their epochs and frames.              *)
LEMMA OrdersStep ==
    ASSUME Shape, Rounding, Reached, Prefixes, Shape', Orders, [Next]_vars
    PROVE  Orders'
<1> USE Peers
<1> SUFFICES ASSUME NEW d \in Client
             PROVE  OrderOf(d)'
  BY DEF Orders
<1> DEFINE p == Peer(d)
<1>1. OrderOf(d) /\ p \in Client /\ p # d /\ Peer(p) = d
  BY DEF Orders
<1>2. CASE UNCHANGED <<epoch, heard, latestConfirmation, channel>>
  BY <1>1, <1>2 DEF OrderOf, Index
<1>3. ASSUME NEW c \in Client, NextRound(c)
      PROVE  OrderOf(d)'
  <2>1. UNCHANGED <<heard, latestConfirmation, channel>>
    BY <1>3 DEF NextRound, wire
  <2>2. epoch'[p] = epoch[p] \/ epoch'[p] = epoch[p] + 1
    BY <1>1, <1>3 DEF NextRound, StartEpoch, Shape, TypeOK
  <2>3. epoch[p] \in Int /\ latestConfirmation[d] \in Int
    BY <1>1, Shapes, Epochs, Numbers
  <2>4. latestConfirmation[d] <= epoch'[p]
    BY <1>1, <2>2, <2>3 DEF OrderOf
  <2> QED BY <1>1, <2>1, <2>4 DEF OrderOf, Index
<1>4. ASSUME NEW c \in Client, Flush(c)
      PROVE  OrderOf(d)'
  <2>1. UNCHANGED <<epoch, heard, latestConfirmation>> /\ Playing(c)
    BY <1>4, FlushIs DEF loop
  <2>2. ASSUME NEW i \in DOMAIN channel'[d], IsConfirmation(channel'[d][i])
        PROVE  \/ i \in Index(d) /\ channel'[d][i] = channel[d][i]
               \/ /\ d = Peer(c) /\ c = p /\ \A j \in DOMAIN channel'[d] : j <= i
                  /\ channel'[d][i].epoch = epoch[c] /\ channel'[d][i].through = contiguous[c]
    <3>1. channel'[d][i] # Batch(epoch[c], Uploading(c))
      BY <2>2 DEF Batch, IsConfirmation
    <3>2. /\ Confirmation(epoch[c], contiguous[c]).epoch = epoch[c]
          /\ Confirmation(epoch[c], contiguous[c]).through = contiguous[c]
      BY DEF Confirmation
    <3> QED BY <1>4, <3>1, <3>2, FlushQueue
  <2>3. ASSUME NEW i \in Index(d), IsConfirmation(channel[d][i]), c = p
        PROVE  /\ channel[d][i].epoch <= epoch[c]
               /\ channel[d][i].epoch = epoch[c] => channel[d][i].through <= contiguous[c]
    BY <1>1, <2>1, <2>3 DEF Reached, EpochsOf, Prefixes, PrefixOf, IsConfirmation
  <2>4. ASSUME NEW i \in DOMAIN channel'[d], NEW j \in DOMAIN channel'[d], i < j,
               IsConfirmation(channel'[d][i]), IsConfirmation(channel'[d][j])
        PROVE  /\ channel'[d][i].epoch <= channel'[d][j].epoch
               /\ channel'[d][i].epoch = channel'[d][j].epoch => channel'[d][i].through <= channel'[d][j].through
    <3>1. ~(\A k \in DOMAIN channel'[d] : k <= i)
      <4>1. i \in Int /\ j \in Int
        BY DEF Shape
      <4> QED BY <2>4, <4>1
    <3>2. i \in Index(d) /\ channel'[d][i] = channel[d][i]
      BY <2>2, <2>4, <3>1
    <3>3. CASE j \in Index(d) /\ channel'[d][j] = channel[d][j]
      BY <1>1, <2>4, <3>2, <3>3 DEF OrderOf
    <3>4. CASE c = p /\ channel'[d][j].epoch = epoch[c] /\ channel'[d][j].through = contiguous[c]
      BY <2>3, <2>4, <3>2, <3>4
    <3> QED BY <2>2, <2>4, <3>3, <3>4
  <2>5. ASSUME NEW i \in DOMAIN channel'[d], IsConfirmation(channel'[d][i])
        PROVE  /\ latestConfirmation[d] <= channel'[d][i].epoch
               /\ heard[d][channel'[d][i].epoch] <= channel'[d][i].through
    <3>1. CASE i \in Index(d) /\ channel'[d][i] = channel[d][i]
      BY <1>1, <2>5, <3>1 DEF OrderOf
    <3>2. CASE c = p /\ channel'[d][i].epoch = epoch[c] /\ channel'[d][i].through = contiguous[c]
      BY <1>1, <2>1, <3>2 DEF OrderOf, Prefixes, PrefixOf
    <3> QED BY <2>2, <2>5, <3>1, <3>2
  <2> QED BY <1>1, <2>1, <2>4, <2>5 DEF OrderOf, Index
<1>5. ASSUME NEW c \in Client, NEW m \in Message, Taking(c, m)
      PROVE  OrderOf(d)'
  <2>1. epoch' = epoch /\ 1 \in Index(c) /\ channel[c][1] = m /\ m.epoch \in Epoch
    BY <1>5, TakingIs DEF loop
  <2>2. CASE d = c
    <3>1. ASSUME NEW i \in DOMAIN channel'[d]
          PROVE  i \in Nat \ {0} /\ i + 1 \in Index(d) /\ channel'[d][i] = channel[d][i + 1]
      BY <1>1, <1>5, <2>2, TakeQueue
    <3>2. \A i, j \in DOMAIN channel'[d] :
             i < j /\ IsConfirmation(channel'[d][i]) /\ IsConfirmation(channel'[d][j]) =>
                /\ channel'[d][i].epoch <= channel'[d][j].epoch
                /\ channel'[d][i].epoch = channel'[d][j].epoch => channel'[d][i].through <= channel'[d][j].through
      <4>1. ASSUME NEW i \in DOMAIN channel'[d], NEW j \in DOMAIN channel'[d], i < j
            PROVE  i + 1 < j + 1
        BY <3>1, <4>1
      <4> QED BY <1>1, <3>1, <4>1 DEF OrderOf
    <3>3. CASE m.type = "frame-confirmation"
      <4>1. /\ \A x \in Epoch : heard'[d][x] = IF x = m.epoch THEN m.through ELSE heard[d][x]
            /\ latestConfirmation'[d] = IF latestConfirmation[d] < m.epoch THEN m.epoch ELSE latestConfirmation[d]
        <5>1. ReceiveConfirmation(d, m)
          BY <1>5, <2>2, <3>3 DEF Taking
        <5>2. /\ heard' = [heard EXCEPT ![d][m.epoch] = m.through]
              /\ latestConfirmation' = [latestConfirmation EXCEPT ![d] = IF @ < m.epoch THEN m.epoch ELSE @]
          BY <5>1 DEF ReceiveConfirmation
        <5>3. heard \in [Client -> [Epoch -> Cursor]] /\ latestConfirmation \in [Client -> Epoch \cup {None}]
          BY DEF Shape, TypeOK
        <5> QED BY <5>2, <5>3
      <4>2. IsConfirmation(channel[d][1]) /\ 1 \in Index(d)
        BY <2>1, <2>2, <3>3 DEF IsConfirmation
      <4>3. ASSUME NEW i \in DOMAIN channel'[d], IsConfirmation(channel'[d][i])
            PROVE  /\ latestConfirmation'[d] <= channel'[d][i].epoch
                   /\ heard'[d][channel'[d][i].epoch] <= channel'[d][i].through
        <5>1. 1 < i + 1 /\ i + 1 \in Index(d) /\ channel'[d][i] = channel[d][i + 1]
          BY <3>1
        <5>2. /\ m.epoch <= channel[d][i + 1].epoch
              /\ m.epoch = channel[d][i + 1].epoch => m.through <= channel[d][i + 1].through
              /\ latestConfirmation[d] <= channel[d][i + 1].epoch
              /\ heard[d][channel[d][i + 1].epoch] <= channel[d][i + 1].through
          BY <1>1, <2>1, <2>2, <4>2, <4>3, <5>1 DEF OrderOf
        <5>3. channel[d][i + 1].epoch \in Epoch
          BY <5>1, InTransit
        <5> QED BY <4>1, <5>1, <5>2, <5>3
      <4>4. latestConfirmation'[d] <= epoch[p]
        <5>1. m.epoch <= epoch[p]
          BY <1>1, <2>1, <2>2, <3>3 DEF Reached, EpochsOf
        <5> QED BY <1>1, <4>1, <5>1 DEF OrderOf
      <4> QED BY <2>1, <3>2, <4>3, <4>4 DEF OrderOf, Index
    <3>4. CASE m.type # "frame-confirmation"
      <4>1. UNCHANGED <<heard, latestConfirmation>>
        BY <1>5, <3>4, TakingIs
      <4> QED BY <1>1, <2>1, <3>1, <3>2, <4>1 DEF OrderOf, Index
    <3> QED BY <3>3, <3>4
  <2>3. CASE d # c
    <3>1. latestConfirmation'[d] = latestConfirmation[d] /\ \A x \in Epoch : heard'[d][x] = heard[d][x]
      <4>1. \A x \in Epoch : heard'[d][x] = heard[d][x]
        BY <1>5, <2>3, TakenIs
      <4>2. epoch[d] \in Epoch
        BY Shapes
      <4>3. latestConfirmation'[d] = latestConfirmation[d]
        BY <1>5, <2>3, <4>2, TakenIs
      <4> QED BY <4>1, <4>3
    <3>2. ASSUME NEW i \in DOMAIN channel'[d], IsConfirmation(channel'[d][i])
          PROVE  i \in Index(d) /\ channel'[d][i] = channel[d][i]
      <4>1. channel'[d][i] # Ack(m.epoch, m.frames)
        BY <3>2 DEF IsConfirmation, Ack
      <4> QED BY <1>5, <2>3, <4>1, TakeQueue
    <3>3. \A i \in DOMAIN channel'[d] : IsConfirmation(channel'[d][i]) => channel'[d][i].epoch \in Epoch
      BY <3>2, InTransit
    <3> QED BY <1>1, <2>1, <3>1, <3>2, <3>3 DEF OrderOf, Index
  <2> QED BY <2>2, <2>3
<1>6. ASSUME NEW c \in Client, Leaving(c)
      PROVE  OrderOf(d)'
  <2>1. UNCHANGED <<epoch, heard, latestConfirmation>> /\ (channel'[d] = channel[d] \/ channel'[d] = <<>>)
    BY <1>6 DEF Leaving, wire, Shape
  <2> QED BY <1>1, <2>1 DEF OrderOf, Index
<1>7. ASSUME NEW c \in Client, Activate(c)
      PROVE  OrderOf(d)'
  <2>1. UNCHANGED <<epoch, latestConfirmation, channel>> /\ \A x \in Epoch : heard'[d][x] \in {heard[d][x], None}
    BY <1>7 DEF Activate, loop, Shape, TypeOK, Unsaid
  <2>2. ASSUME NEW i \in Index(d), IsConfirmation(channel[d][i])
        PROVE  channel[d][i].epoch \in Epoch /\ None <= channel[d][i].through
    <3>1. channel[d][i].epoch \in Epoch /\ channel[d][i].through \in Frame
      BY <2>2, InTransit DEF IsConfirmation
    <3> QED BY <3>1 DEF Frame, None
  <2> QED BY <1>1, <2>1, <2>2 DEF OrderOf, Index
<1>8. UNCHANGED vars \/ ExchangeCheckpoints => UNCHANGED <<epoch, heard, latestConfirmation, channel>>
  BY DEF vars, loop, wire, ExchangeCheckpoints
<1>9. \A c \in Client : Simulating(c) \/ ResolveRound(c) => UNCHANGED <<epoch, heard, latestConfirmation, channel>>
  BY DEF Simulating, ResolveRound, wire
<1> QED BY <1>2, <1>3, <1>4, <1>5, <1>6, <1>7, <1>8, <1>9, Steps DEF Moves


-----------------------------------------------------------------------------
(* What a connected client has confirmed is heard or on its way.             *)
Deliveries == \A c \in Client : DeliveryOf(c)

(* At the start nothing has been told.                                      *)
LEMMA DeliveriesInit == Init => Deliveries
BY Peers DEF Init, Deliveries, DeliveryOf, Unsaid

(* A message that is not the first stays when that is taken.                 *)
LEMMA TakeLeaves ==
    ASSUME Shape, NEW c \in Client, NEW m \in Message, Taking(c, m),
           NEW d \in Client, Linked(d), NEW i \in Index(d), d = c => i # 1
    PROVE  \E j \in DOMAIN channel'[d] : channel'[d][j] = channel[d][i]
<1> DEFINE p == Peer(c)
<1>1. p \in Client /\ p # c /\ (d = c \/ d = p) /\ channel[d] \in Seq(Message) /\ i \in Nat
  BY Peers DEF Shape, Index
<1>2. CASE d = c
  <2>1. channel'[c] = Tail(channel[c]) /\ channel[c] # <<>>
    BY <1>1 DEF Taking, ReceiveBatch, ReceiveAck, ReceiveConfirmation, Shape
  <2>2. i - 1 \in DOMAIN channel'[d] /\ channel'[d][i - 1] = channel[d][i]
    BY <1>1, <1>2, <2>1 DEF Index
  <2> QED BY <2>2
<1>3. CASE d = p /\ m.type # "frame-batch"
  BY <1>1, <1>3 DEF Taking, ReceiveAck, ReceiveConfirmation, Shape, Index
<1>4. CASE d = p /\ m.type = "frame-batch"
  <2>1. channel'[d] = channel[d] \o <<Ack(m.epoch, m.frames)>>
    BY <1>1, <1>4 DEF Taking, ReceiveBatch, Shape, Sent, Linked
  <2>2. i \in DOMAIN channel'[d] /\ channel'[d][i] = channel[d][i]
    BY <1>1, <2>1 DEF Index
  <2> QED BY <2>2
<1> QED BY <1>1, <1>2, <1>3, <1>4

(* What has been told on a channel is heard or in transit on it.            *)
LEMMA DeliveriesStep ==
    ASSUME Shape, Rounding, Reached, Linking, Orders, Shape', Deliveries, [Next]_vars
    PROVE  Deliveries'
<1> USE Peers
<1> SUFFICES ASSUME NEW d \in Client, transport'[Peer(d)] = "connected", Linked(d)', NEW e \in Epoch,
                    told'[Peer(d)][e] # None
             PROVE  \/ transport'[d] = "connected" /\ told'[Peer(d)][e] <= heard'[d][e]
                    \/ \E i \in DOMAIN channel'[d] :
                          /\ IsConfirmation(channel'[d][i]) /\ channel'[d][i].epoch = e
                          /\ told'[Peer(d)][e] <= channel'[d][i].through
  BY DEF Deliveries, DeliveryOf, Index
<1> DEFINE p == Peer(d)
           Comes ==
             \/ transport'[d] = "connected" /\ told'[p][e] <= heard'[d][e]
             \/ \E i \in DOMAIN channel'[d] :
                   /\ IsConfirmation(channel'[d][i]) /\ channel'[d][i].epoch = e
                   /\ told'[p][e] <= channel'[d][i].through
           Came ==
             \/ told[p][e] = None
             \/ transport[d] = "connected" /\ told[p][e] <= heard[d][e]
             \/ \E i \in Index(d) :
                   /\ IsConfirmation(channel[d][i]) /\ channel[d][i].epoch = e
                   /\ told[p][e] <= channel[d][i].through
<1>1. p \in Client /\ p # d /\ Peer(p) = d
  OBVIOUS
<1>2. transport[p] = "connected" /\ Linked(d) => Came
  BY DEF Deliveries, DeliveryOf
<1>3. CASE UNCHANGED <<told, heard, channel, transport>>
  BY <1>2, <1>3 DEF Linked, Index
<1>4. ASSUME NEW c \in Client, Flush(c)
      PROVE  Comes
  <2>1. UNCHANGED <<heard, transport>> /\ Linked(d)
    BY <1>4, FlushIs DEF link, Linked
  <2>2. \A i \in Index(d) : i \in DOMAIN channel'[d] /\ channel'[d][i] = channel[d][i]
    BY <1>4, <2>1, FlushAdds
  <2>3. CASE told'[p][e] = told[p][e]
    <3>1. Came /\ told[p][e] # None
      BY <1>2, <2>1, <2>3
    <3> QED BY <2>1, <2>2, <2>3, <3>1
  <2>4. CASE c = p /\ e = epoch[c] /\ Confirmable(c) /\ told'[p][e] = contiguous[c]
    <3>1. PICK i \in DOMAIN channel'[d] : channel'[d][i] = Confirmation(epoch[c], contiguous[c])
      BY <1>1, <1>4, <2>1, <2>4, FlushAdds
    <3>2. contiguous[c] <= contiguous[c]
      BY Shapes, Cursors
    <3> QED BY <2>4, <3>1, <3>2 DEF Confirmation, IsConfirmation
  <2>5. told' = [told EXCEPT ![c][epoch[c]] = IF Confirmable(c) THEN contiguous[c] ELSE @]
    BY <1>4, FlushIs
  <2> QED BY <1>1, <2>3, <2>4, <2>5 DEF Shape, TypeOK
<1>5. ASSUME NEW c \in Client, NEW m \in Message, Taking(c, m)
      PROVE  Comes
  <2>1. UNCHANGED <<told, transport>> /\ Linked(d) /\ 1 \in Index(c) /\ channel[c][1] = m
    BY <1>5, TakingIs DEF link, Linked
  <2>2. Came /\ told[p][e] # None
    BY <1>2, <2>1
  <2>3. told[p][e] \in Int /\ heard[d][e] \in Int
    BY <1>1, Shapes, Cursors
  <2>4. heard'[d][e] = heard[d][e] \/ (heard[d][e] <= heard'[d][e] /\ heard'[d][e] \in Int)
    <3>1. CASE d = c /\ e = m.epoch /\ m.type = "frame-confirmation" /\ heard'[d][e] = m.through
      <4>1. heard[d][e] <= m.through
        BY <2>1, <3>1 DEF Orders, OrderOf, IsConfirmation
      <4>2. m.through \in Int
        BY <1>5, <3>1, TakingIs DEF Frame
      <4> QED BY <3>1, <4>1, <4>2
    <3>2. \/ heard' = heard
          \/ m.type = "frame-confirmation" /\ heard' = [heard EXCEPT ![c][m.epoch] = m.through]
      BY <1>5 DEF Taking, ReceiveBatch, ReceiveAck, ReceiveConfirmation, wire
    <3>3. heard \in [Client -> [Epoch -> Cursor]]
      BY DEF Shape, TypeOK
    <3> QED BY <3>1, <3>2, <3>3
  <2>5. CASE transport[d] = "connected" /\ told[p][e] <= heard[d][e]
    BY <2>1, <2>3, <2>4, <2>5
  <2>6. ASSUME NEW i \in Index(d), IsConfirmation(channel[d][i]), channel[d][i].epoch = e,
               told[p][e] <= channel[d][i].through
        PROVE  Comes
    <3>1. CASE d = c /\ i = 1
      <4>1. m = channel[d][i] /\ m.type = "frame-confirmation" /\ m.epoch = e
        BY <2>1, <2>6, <3>1 DEF IsConfirmation
      <4>2. heard'[d][e] = m.through
        BY <1>5, <3>1, <4>1, TakingIs
      <4>3. transport[d] = "connected"
        BY <1>5, <3>1 DEF Taking
      <4> QED BY <2>1, <2>6, <4>1, <4>2, <4>3
    <3>2. CASE ~(d = c /\ i = 1)
      <4>1. PICK j \in DOMAIN channel'[d] : channel'[d][j] = channel[d][i]
        BY <1>5, <2>1, <3>2, TakeLeaves
      <4> QED BY <2>1, <2>6, <4>1
    <3> QED BY <3>1, <3>2
  <2> QED BY <2>2, <2>5, <2>6
<1>6. ASSUME NEW c \in Client, Leaving(c)
      PROVE  Comes
  <2>1. d # c /\ p # c
    BY <1>6 DEF Leaving, Linked
  <2> QED BY <1>1, <2>1
<1>7. ASSUME NEW c \in Client, Activate(c)
      PROVE  Comes
  <2>1. channel' = channel
    BY <1>7 DEF Activate
  <2>2. p # c
    <3>1. told'[c] = Unsaid
      BY <1>7 DEF Activate, Shape, TypeOK
    <3> QED BY <3>1 DEF Unsaid
  <2>3. d = c /\ transport[p] = "connected" /\ transport[d] = "staged" /\ told'[p] = told[p]
    BY <1>1, <1>7, <2>2 DEF Activate, Shape, TypeOK
  <2>4. Came /\ told[p][e] # None
    BY <1>2, <2>3 DEF Linked
  <2> QED BY <2>1, <2>3, <2>4 DEF Index
<1>8. CASE ExchangeCheckpoints
  BY <1>8 DEF ExchangeCheckpoints
<1>9. UNCHANGED vars => UNCHANGED <<told, heard, channel, transport>>
  BY DEF vars, wire, link
<1>10. \A c \in Client : Simulating(c) \/ ResolveRound(c) \/ NextRound(c) => UNCHANGED <<told, heard, channel, transport>>
  BY DEF Simulating, ResolveRound, NextRound, wire, link
<1> QED BY <1>3, <1>4, <1>5, <1>6, <1>7, <1>8, <1>9, <1>10, Steps DEF Moves


-----------------------------------------------------------------------------
(* A round that a client has committed.                                      *)
Commitments == \A c \in Client : CommitsOf(c)

(* At the start no round is committed.                                      *)
LEMMA CommitmentsInit == Init => Commitments
<1> SUFFICES ASSUME Init, NEW c \in Client PROVE CommitsOf(c)
  BY DEF Commitments
<1>1. Peer(c) \in Client
  BY Peers
<1>2. score[c] = 0 /\ score[Peer(c)] = 0 /\ epoch[Peer(c)] = 0
  BY <1>1 DEF Init
<1>3. \A e \in Epoch : ~(e < 0)
  BY Epochs
<1>4. \A e \in Epoch : ~(e < score[c])
  BY <1>2, <1>3
<1>5. score[c] <= epoch[Peer(c)] + 1 /\ ~(score[Peer(c)] < score[c])
  BY <1>2
<1> QED BY <1>4, <1>5 DEF CommitsOf

(* A committed round has both sides' inputs, and its confirmation is told.  *)
LEMMA CommitmentsStep ==
    ASSUME Shape, Rounding, Reached, Linking, Holding, Prefixes, Shape', Commitments, [Next]_vars
    PROVE  Commitments'
<1> USE Peers
<1> SUFFICES ASSUME NEW d \in Client
             PROVE  CommitsOf(d)'
  BY DEF Commitments
<1> DEFINE p == Peer(d)
<1>1. CommitsOf(d) /\ CommitsOf(p) /\ p \in Client /\ p # d /\ Peer(p) = d
  BY DEF Commitments
<1>2. /\ score[d] \in Nat /\ score[p] \in Nat /\ epoch[d] \in Epoch /\ epoch[p] \in Epoch
      /\ epoch[d] \in Nat /\ epoch[p] \in Nat
  BY <1>1, Shapes, Constants, Epochs
<1>3. \A x \in Epoch : received[p][x] \subseteq received'[p][x]
  BY <1>1, ReceivedGrows
<1>4. CASE UNCHANGED <<epoch, score, told>>
  BY <1>1, <1>3, <1>4 DEF CommitsOf
<1>5. ASSUME NEW c \in Client, ResolveRound(c)
      PROVE  CommitsOf(d)'
  <2>1. UNCHANGED <<epoch, received, told>>
    BY <1>5 DEF ResolveRound, wire
  <2>2. CASE UNCHANGED score
    BY <1>4, <2>1, <2>2
  <2>3. CASE d = c /\ score' # score
    <3>1. /\ score'[d] = score[d] + 1 /\ score'[p] = score[p] /\ score[d] = epoch[d]
          /\ epoch[d] <= epoch[p] /\ Decisive <= peerConfirmed[d] /\ Decisive <= confirmationSent[d]
      <4>1. /\ score' = [score EXCEPT ![c] = @ + 1] /\ score[c] = epoch[c]
            /\ epoch[c] <= epoch[Peer(c)] /\ Decisive <= peerConfirmed[c] /\ Decisive <= confirmationSent[c]
        BY <1>5, <2>3, CommitsTogether
      <4>2. DOMAIN score = Client
        BY DEF Shape, TypeOK
      <4> QED BY <1>1, <2>3, <4>1, <4>2
    <3>2. 0..Decisive \subseteq received[p][epoch[d]]
      <4>1. 0..peerConfirmed[d] \subseteq received[p][epoch[d]] /\ peerConfirmed[d] \in Int
        BY <1>1, Shapes, Cursors DEF Holding, HeldOf
      <4> QED BY <3>1, <4>1, Constants
    <3>3. \A e \in Epoch : e < score'[d] => 0..Decisive \subseteq received[p][e]
      <4>1. ASSUME NEW e \in Epoch, e < score'[d]
            PROVE  e < score[d] \/ e = epoch[d]
        BY <1>2, <3>1, <4>1, Epochs
      <4> QED BY <1>1, <3>2, <4>1 DEF CommitsOf
    <3>4. score[p] < score'[d] => Decisive <= told[d][epoch[p]]
      <4>1. score[p] = epoch[p] \/ score[p] = epoch[p] + 1
        BY <1>1 DEF Rounding, RoundsOf
      <4>2. score[p] < score'[d] => epoch[p] = epoch[d]
        BY <1>2, <3>1, <4>1
      <4>3. Decisive <= told[d][epoch[d]]
        <5>1. confirmationSent[d] <= told[d][epoch[d]]
          BY DEF Prefixes, PrefixOf
        <5>2. confirmationSent[d] \in Int /\ told[d][epoch[d]] \in Int
          BY <1>2, Shapes, Cursors
        <5> QED BY <3>1, <5>1, <5>2, Constants
      <4> QED BY <4>2, <4>3
    <3> QED BY <1>1, <1>2, <2>1, <3>1, <3>3, <3>4 DEF CommitsOf
  <2>4. CASE d # c /\ score' # score
    <3>1. score'[d] = score[d] /\ score'[p] = score[p] + 1
      <4>1. score' = [score EXCEPT ![c] = @ + 1]
        BY <1>5, <2>4, CommitsTogether
      <4>2. DOMAIN score = Client /\ p = c
        BY <1>5, <2>4 DEF Shape, TypeOK
      <4> QED BY <1>1, <2>4, <4>1, <4>2
    <3>2. score'[p] < score[d] => score[p] < score[d]
      BY <1>2, <3>1
    <3> QED BY <1>1, <2>1, <3>1, <3>2 DEF CommitsOf
  <2> QED BY <2>2, <2>3, <2>4
<1>6. ASSUME NEW c \in Client, NextRound(c)
      PROVE  CommitsOf(d)'
  <2>1. UNCHANGED <<score, received, told>>
    BY <1>6 DEF NextRound, wire
  <2>2. CASE d = c
    <3>1. epoch'[p] = epoch[p]
      BY <1>1, <1>6, <2>2 DEF NextRound, StartEpoch, Shape, TypeOK
    <3> QED BY <1>1, <2>1, <3>1 DEF CommitsOf
  <2>3. CASE p = c
    <3>1. epoch'[p] = epoch[p] + 1 /\ score[p] = epoch[p] + 1
      BY <1>6, <2>3 DEF NextRound, StartEpoch, Shape, TypeOK, Rounding, RoundsOf
    <3>2. score[d] <= epoch'[p] + 1 /\ ~(score[p] < score[d])
      BY <1>1, <1>2, <3>1 DEF CommitsOf
    <3> QED BY <1>1, <2>1, <3>2 DEF CommitsOf
  <2> QED BY <1>1, <2>2, <2>3
<1>7. ASSUME NEW c \in Client, Flush(c)
      PROVE  CommitsOf(d)'
  <2>1. UNCHANGED <<epoch, score, received>>
    BY <1>7, FlushIs DEF loop
  <2>2. told'[d][epoch[p]] = told[d][epoch[p]]
        \/ (told[d][epoch[p]] < told'[d][epoch[p]] /\ told'[d][epoch[p]] \in Int)
    <3>1. told' = [told EXCEPT ![c][epoch[c]] = IF Confirmable(c) THEN contiguous[c] ELSE @]
      BY <1>7, FlushIs
    <3>2. Confirmable(c) => told[c][epoch[c]] < contiguous[c] /\ contiguous[c] \in Int
      BY Shapes, Cursors DEF Confirmable
    <3>3. told \in [Client -> [Epoch -> Cursor]] /\ epoch[c] \in Epoch
      BY DEF Shape, TypeOK
    <3> QED BY <1>2, <3>1, <3>2, <3>3
  <2>3. told[d][epoch[p]] \in Int
    BY <1>2, Shapes, Cursors
  <2>4. Decisive <= told[d][epoch[p]] => Decisive <= told'[d][epoch[p]]
    BY <2>2, <2>3, Constants
  <2> QED BY <1>1, <2>1, <2>4 DEF CommitsOf
<1>8. ASSUME NEW c \in Client, Activate(c)
      PROVE  CommitsOf(d)'
  <2>1. UNCHANGED <<epoch, score, received>>
    BY <1>8 DEF Activate, loop
  <2>2. CASE d = c
    <3>1. score[d] = score[p]
      BY <1>8, <2>2 DEF Activate, Linking, LinkOf
    <3> QED BY <1>1, <1>2, <2>1, <3>1 DEF CommitsOf
  <2>3. CASE d # c
    <3>1. told'[d] = told[d]
      BY <1>8, <2>3 DEF Activate, Shape, TypeOK
    <3> QED BY <1>1, <2>1, <3>1 DEF CommitsOf
  <2> QED BY <2>2, <2>3
<1>9. UNCHANGED vars \/ ExchangeCheckpoints => UNCHANGED <<epoch, score, told>>
  BY DEF vars, loop, wire, ExchangeCheckpoints
<1>10. \A c \in Client : Simulating(c) \/ Leaving(c) => UNCHANGED <<epoch, score, told>>
  BY DEF Simulating, Leaving, loop, wire
<1>11. \A c \in Client, m \in Message : Taking(c, m) => UNCHANGED <<epoch, score, told>>
  BY TakingIs DEF loop, wire
<1> QED BY <1>4, <1>5, <1>6, <1>7, <1>8, <1>9, <1>10, <1>11, Steps DEF Moves


-----------------------------------------------------------------------------
(* Everything that the exchange keeps.                                       *)
IInv ==
    /\ Shape /\ Rounding /\ Reached /\ Linking /\ Tails /\ Uploads /\ Batches
    /\ Holding /\ Prefixes /\ Orders /\ Deliveries /\ Commitments

(* The exchange starts in order,                                            *)
LEMMA InvInit == Init => IInv
BY ShapeInit, ReachedInit, LinkingInit, UploadsInit, HoldingInit, PrefixesInit, OrdersInit,
   DeliveriesInit, CommitmentsInit DEF IInv

(* every step keeps it in order,                                            *)
LEMMA InvStep == IInv /\ [Next]_vars => IInv'
<1> SUFFICES ASSUME IInv, [Next]_vars PROVE IInv'
  OBVIOUS
<1> USE DEF IInv
<1>1. Shape' /\ Rounding'
  BY ShapeStep
<1>2. Reached'
  BY <1>1, ReachedStep
<1>3. Linking'
  BY <1>1, LinkingStep
<1>4. Tails'
  BY <1>1, TailsStep
<1>5. Uploads'
  BY <1>1, UploadsStep
<1>6. Batches'
  BY <1>1, BatchesStep
<1>7. Holding'
  BY <1>1, HoldingStep
<1>8. Prefixes'
  BY <1>1, PrefixesStep
<1>9. Orders'
  BY <1>1, OrdersStep
<1>10. Deliveries'
  BY <1>1, DeliveriesStep
<1>11. Commitments'
  BY <1>1, CommitmentsStep
<1> QED BY <1>1, <1>2, <1>3, <1>4, <1>5, <1>6, <1>7, <1>8, <1>9, <1>10, <1>11

(* and so it always is.                                                     *)
LEMMA InvHolds == Spec => []IInv
<1> QED BY InvInit, InvStep, PTL DEF Spec

(* A client whose play may go on has room in its tail: what it has simulated *)
(* beyond the peer's confirmation is bounded by the prediction window, and   *)
(* the rest of the tail by the one batch in flight.                          *)
LEMMA TailHasRoom ==
    ASSUME MaxPrediction + MaxBatch <= MaxOutbound, IInv, NEW c \in Client, CanAdvance(c)
    PROVE  ~(Cardinality(outbound[c]) >= MaxOutbound)
<1> DEFINE k == Mutual(c)
           low == k - MaxBatch + 1
           high == frame[c] - 1
<1>1. /\ k \in Int /\ -1 <= k /\ k <= peerConfirmed[c] /\ peerConfirmed[c] \in Int
      /\ frame[c] \in Nat /\ outbound[c] \subseteq Nat
  BY MutualIs, Shapes, Cursors, Numbers DEF IInv
<1>2. frame[c] <= k + MaxPrediction
  BY <1>1, Constants DEF CanAdvance
<1>3. 0..peerConfirmed[c] \subseteq received[Peer(c)][epoch[c]]
  BY DEF IInv, Holding, HeldOf
<1>4. /\ \A f \in outbound[c] : f < frame[c]
      /\ \A f \in outbound[c], g \in received[Peer(c)][epoch[c]] : g < f + MaxBatch
  BY DEF IInv, Tails, TailOf
<1> HIDE DEF k
<1>5. \A f \in outbound[c] : k < f + MaxBatch
  <2>1. CASE k = -1
    BY <1>1, <2>1, Constants
  <2>2. CASE k # -1
    <3>1. k \in received[Peer(c)][epoch[c]]
      BY <1>1, <1>3, <2>2
    <3> QED BY <1>4, <3>1
  <2> QED BY <2>1, <2>2
<1>6. outbound[c] \subseteq low..high
  BY <1>1, <1>4, <1>5, Constants
<1>7. IsFiniteSet(low..high) /\ Cardinality(low..high) = IF low > high THEN 0 ELSE high - low + 1
  <2>1. low \in Int /\ high \in Int
    BY <1>1, Constants
  <2> HIDE DEF low, high
  <2> QED BY <2>1, FS_Interval
<1>8. Cardinality(low..high) < MaxOutbound
  BY <1>1, <1>2, <1>7, Constants
<1>9. /\ Cardinality(outbound[c]) <= Cardinality(low..high)
      /\ Cardinality(outbound[c]) \in Nat /\ Cardinality(low..high) \in Nat
  BY <1>6, <1>7, FS_Subset, FS_CardinalityType
<1> QED BY <1>8, <1>9, Constants

(* What arrives is valid: no stale epoch, no confirmation that goes back, no *)
(* acknowledgement of anything but the upload in flight.                     *)
LEMMA MessagesAreValid ==
    ASSUME IInv, NEW c \in Client, Deliver(c)
    PROVE  ~Invalid(c, Head(channel[c]))
<1> DEFINE m == Head(channel[c])
<1>1. channel[c] \in Seq(Message) /\ channel[c] # <<>> /\ transport[c] = "connected"
  BY Shapes DEF IInv, Deliver
<1>2. 1 \in Index(c) /\ channel[c][1] = m
  BY <1>1, Rest DEF Index
<1>3. m.epoch \in Int /\ (m.type = "frame-confirmation" => m.through \in Int)
  BY <1>2, InTransit, Epochs DEF IInv, Frame
<1> HIDE DEF m
<1>4. CASE m.type = "frame-batch"
  <2>1. \A e \in Epoch : received[c][e] # {} => e <= m.epoch
    BY <1>2, <1>4 DEF IInv, Batches, BatchesOf
  <2>2. \A e \in Epoch : e <= m.epoch => ~(m.epoch < e)
    BY <1>3, Epochs
  <2> QED BY <1>4, <2>1, <2>2 DEF Invalid, m
<1>5. CASE m.type = "frame-confirmation"
  <2>1. latestConfirmation[c] <= m.epoch /\ heard[c][m.epoch] <= m.through
    BY <1>2, <1>5 DEF IInv, Orders, OrderOf, IsConfirmation
  <2>2. m.epoch \in Epoch
    BY <1>2, InTransit DEF IInv
  <2>3. latestConfirmation[c] \in Int /\ heard[c][m.epoch] \in Int
    BY <2>2, Shapes, Cursors, Epochs, Numbers DEF IInv
  <2> QED BY <1>3, <1>5, <2>1, <2>3 DEF Invalid, m
<1>6. CASE m.type = "frame-ack"
  <2>1. epoch[c] = m.epoch => upload[c] = m.frames
    BY <1>1, <1>2, <1>6 DEF IInv, Uploads, UploadOf, IsAck, Linked
  <2> QED BY <1>6, <2>1 DEF Invalid, m
<1>7. m.type \in {"frame-batch", "frame-ack", "frame-confirmation"}
  BY <1>2, InTransit DEF IInv
<1> QED BY <1>4, <1>5, <1>6, <1>7 DEF m

(* Nobody raises a protocol error.                                           *)
LEMMA ProtocolStep ==
    ASSUME MaxPrediction + MaxBatch <= MaxOutbound, IInv, ProtocolHolds, [Next]_vars
    PROVE  ProtocolHolds'
<1>1. ASSUME NEW c \in Client, SimulateFrame(c)
      PROVE  UNCHANGED faulty
  <2>1. ~(Cardinality(outbound[c]) >= MaxOutbound)
    BY <1>1, TailHasRoom DEF SimulateFrame
  <2> QED BY <1>1, <2>1 DEF SimulateFrame
<1>2. ASSUME NEW c \in Client, Deliver(c)
      PROVE  UNCHANGED faulty
  <2> DEFINE m == Head(channel[c])
  <2>1. ~Invalid(c, m) /\ m.type \in {"frame-batch", "frame-ack", "frame-confirmation"}
    <3>1. channel[c] \in Seq(Message) /\ channel[c] # <<>>
      BY <1>2, Shapes DEF IInv, Deliver
    <3>2. m \in Message
      BY <3>1, Rest
    <3>3. epoch[c] \in Epoch
      BY Shapes DEF IInv
    <3> QED BY <1>2, <3>2, <3>3, MessagesAreValid, Messages
  <2>2. ReceiveBatch(c, m) \/ ReceiveAck(c, m) \/ ReceiveConfirmation(c, m)
    BY <1>2, <2>1 DEF Deliver
  <2> QED BY <2>2 DEF ReceiveBatch, ReceiveAck, ReceiveConfirmation
<1>3. ASSUME NEW c \in Client,
             \/ ResolveRound(c) \/ NextRound(c) \/ Flush(c) \/ LoseChannel(c) \/ ObserveClose(c)
             \/ Activate(c) \/ FailRecovery(c) \/ CloseCompleted(c)
      PROVE  UNCHANGED faulty
  BY <1>3 DEF ResolveRound, NextRound, Flush, LoseChannel, ObserveClose, Activate, FailRecovery, CloseCompleted
<1>4. ExchangeCheckpoints \/ UNCHANGED vars => UNCHANGED faulty
  BY DEF ExchangeCheckpoints, vars
<1> QED BY <1>1, <1>2, <1>3, <1>4 DEF Next, ProtocolHolds

(* What holds of both says what the exchange promises.                      *)
LEMMA InvIsExchange ==
    ASSUME IInv, ProtocolHolds
    PROVE  ExchangeInvariant
<1>1. TypeOK
  BY DEF IInv, Shape
<1>2. NoInputLost
  BY DEF NoInputLost, IInv, Holding, HeldOf
<1>3. ASSUME NEW c \in Client, Playing(c)
      PROVE  /\ 0..peerConfirmed[c] \subseteq received[Peer(c)][epoch[c]]
             /\ Playing(Peer(c)) /\ epoch[c] = epoch[Peer(c)] => peerConfirmed[c] <= contiguous[Peer(c)]
  <2>1. Peer(c) \in Client /\ Peer(Peer(c)) = c
    BY Peers
  <2>2. HeldOf(c) /\ PrefixOf(Peer(c))
    BY <2>1 DEF IInv, Holding, Prefixes
  <2> QED BY <2>1, <2>2 DEF HeldOf, PrefixOf
<1> QED BY <1>1, <1>2, <1>3 DEF ExchangeInvariant, ConfirmedIsHeld

(* Two clients that follow the protocol provoke no error in each other, lose *)
(* no input and take for confirmed only what the other holds, with the       *)
(* channel replaced at any moment.  The limit on the unacknowledged tail     *)
(* (maxOutboundFrames, 240) must leave room for the prediction window (119)  *)
(* and one batch (30).                                                       *)
THEOREM ExchangeInvariantHolds ==
    ASSUME MaxPrediction + MaxBatch <= MaxOutbound
    PROVE  Spec => []ExchangeInvariant
<1>1. Init => ProtocolHolds
  BY DEF Init, ProtocolHolds
<1>2. IInv /\ ProtocolHolds /\ [Next]_vars => ProtocolHolds'
  BY ProtocolStep
<1>3. IInv /\ ProtocolHolds => ExchangeInvariant
  BY InvIsExchange
<1> QED BY <1>1, <1>2, <1>3, InvHolds, PTL DEF Spec

(* ... leaves a peer that has not what it needs.                            *)
LEMMA PeerIsFree == ASSUME IInv PROVE PeerCanCommit
<1>1. ASSUME NEW c \in Client,
             Playing(Peer(c)), score[Peer(c)] < score[c],
             transport[c] = "connected", transport[Peer(c)] = "connected"
      PROVE  LET p == Peer(c)
                 e == epoch[p]
             IN  /\ 0..Decisive \subseteq received[p][e]
                 /\ \/ Decisive <= peerConfirmed[p] \/ Decisive <= heard[p][e]
                    \/ \E i \in DOMAIN channel[p] :
                          /\ channel[p][i].type = "frame-confirmation"
                          /\ channel[p][i].epoch = e /\ Decisive <= channel[p][i].through
  <2> DEFINE p == Peer(c)
             e == epoch[p]
  <2>1. p \in Client /\ Peer(p) = c
    BY Peers
  <2>2. e \in Epoch /\ e \in Nat /\ score[p] \in Nat /\ score[c] \in Nat
    BY <1>1, <2>1, Shapes, Epochs, Constants DEF IInv
  <2>3. score[p] = e \/ score[p] = e + 1
    BY <1>1, <2>1 DEF IInv, Rounding, RoundsOf
  <2>4. CommitsOf(c) /\ DeliveryOf(p)
    BY <1>1, <2>1 DEF IInv, Commitments, Deliveries
  <2>5. 0..Decisive \subseteq received[p][e]
    <3>1. e < score[c]
      BY <1>1, <2>2, <2>3
    <3> QED BY <2>2, <2>4, <3>1 DEF CommitsOf
  <2>6. Decisive <= told[c][e] /\ told[c][e] \in Int /\ heard[p][e] \in Int
    BY <1>1, <2>1, <2>2, <2>4, Shapes, Cursors DEF CommitsOf, IInv
  <2>7. \/ told[c][e] <= heard[p][e]
        \/ \E i \in Index(p) : IsConfirmation(channel[p][i]) /\ channel[p][i].epoch = e
                                /\ told[c][e] <= channel[p][i].through
    <3>1. told[c][e] # None
      BY <2>6, Constants, Numbers
    <3> QED BY <1>1, <2>1, <2>2, <2>4, <3>1 DEF DeliveryOf, Linked
  <2>8. CASE told[c][e] <= heard[p][e]
    <3>1. Decisive <= heard[p][e]
      BY <2>6, <2>8, Constants
    <3> QED BY <2>5, <3>1
  <2>9. CASE \E i \in Index(p) : IsConfirmation(channel[p][i]) /\ channel[p][i].epoch = e
                                 /\ told[c][e] <= channel[p][i].through
    <3>1. PICK i \in Index(p) : IsConfirmation(channel[p][i]) /\ channel[p][i].epoch = e
                                 /\ told[c][e] <= channel[p][i].through
      BY <2>9
    <3>2. channel[p][i].through \in Int
      BY <1>1, <2>1, <3>1, InTransit DEF IInv, IsConfirmation, Frame
    <3>3. Decisive <= channel[p][i].through
      BY <2>6, <3>1, <3>2, Constants
    <3> QED BY <2>5, <3>1, <3>3 DEF Index, IsConfirmation
  <2> QED BY <2>7, <2>8, <2>9
<1> QED BY <1>1 DEF PeerCanCommit

(* A client that has committed a round is not needed any more by a peer that *)
(* has not: the peer's transport has every frame through the decisive one,   *)
(* and the confirmation of the peer's own frames has been heard or is in     *)
(* transit on the channel that both have.                                    *)
THEOREM PeerCanCommitHolds == Spec => []PeerCanCommit
<1>1. IInv => PeerCanCommit
  BY PeerIsFree
<1> QED BY <1>1, InvHolds, PTL

-----------------------------------------------------------------------------
(* The page (SessionLifecycle).  Its variables, and the part of the chain of *)
(* each session that says what will become of the controller.                *)
Transition == {"suspend", "resume", "recover"}
Call ==
    [on : {"nothing", "disconnect", "reconnect", "retry"}, attempt : 0..MaxAttempts,
     reply : {"none", "ok", "refused"}]

LastOf(q) == q[Len(q)]

PageTypes ==
    /\ visible \in BOOLEAN
    /\ started \in 0..MaxSessions /\ target \in 0..started
    /\ stage \in {"idle", "active", "suspending", "suspended", "resuming"}
    /\ desiredSuspended \in BOOLEAN /\ disconnectConfirmed \in BOOLEAN /\ beating \in BOOLEAN
    /\ pulse \in {"none", "sent", "ok", "disconnected", "resolved"}
    /\ counted \in [Page!Session -> {"connected", "disconnected", "resolved"}]
    /\ strays \subseteq Page!Session \X {"disconnect", "reconnect"}
    /\ events \in 0..MaxEvents /\ faults \in 0..MaxFaults

Chained ==
    /\ queue \in [Page!Session -> Seq(Transition)]
    /\ call \in [Page!Session -> Call]
    /\ \A s \in Page!Session :
        /\ s > started => queue[s] = <<>> /\ call[s] = Page!Idle
        /\ call[s].on = "nothing" => call[s] = Page!Idle
        /\ call[s].on = "retry" => call[s].attempt < MaxAttempts

(* The last transition that waits is the one the page asked for last; while  *)
(* one runs the phase says which; and what runs for a page that was shown    *)
(* again meanwhile is followed by another.                                   *)
Intent ==
    target # 0 =>
        /\ desiredSuspended = ~visible
        /\ call[target] # Page!Idle =>
              stage = IF call[target].on = "disconnect" THEN "suspending" ELSE "resuming"
        /\ queue[target] # <<>> => (LastOf(queue[target]) = "suspend" <=> ~visible)
        /\ ~visible /\ stage = "active" =>
              call[target] = Page!Idle /\ queue[target] # <<>> /\ Head(queue[target]) = "suspend"
        /\ visible /\ call[target].on = "disconnect" => queue[target] # <<>>

PageInv == PageTypes /\ Chained /\ Intent /\ Page!HiddenIsSilent /\ Page!SettlesAsAsked

(* What is assumed of the page's bounds.                                     *)
LEMMA PageBounds ==
    MaxSessions \in Nat /\ MaxEvents \in Nat /\ MaxFaults \in Nat /\ MaxAttempts \in Nat \ {0}
BY PageAssumption DEF Page!LifecycleAssumption

(* A transition joins the end of a chain.                                    *)
LEMMA Joins ==
    ASSUME NEW q \in Seq(Transition), NEW op \in Transition
    PROVE  /\ Append(q, op) \in Seq(Transition) /\ Append(q, op) # <<>>
           /\ LastOf(Append(q, op)) = op
           /\ Head(Append(q, op)) = IF q = <<>> THEN op ELSE Head(q)
<1>1. Append(q, op) \in Seq(Transition) /\ Len(Append(q, op)) = Len(q) + 1 /\ Len(q) \in Nat
      /\ Append(q, op)[Len(q) + 1] = op
  OBVIOUS
<1>2. Head(Append(q, op)) = IF q = <<>> THEN op ELSE Head(q)
  OBVIOUS
<1>3. Append(q, op) # <<>>
  BY <1>1
<1>4. LastOf(Append(q, op)) = op
  BY <1>1 DEF LastOf
<1> QED BY <1>1, <1>2, <1>3, <1>4

(* ... and leaves it at its head.                                            *)
LEMMA Departs ==
    ASSUME NEW q \in Seq(Transition), q # <<>>
    PROVE  /\ Tail(q) \in Seq(Transition) /\ Head(q) \in Transition
           /\ Tail(q) # <<>> => LastOf(Tail(q)) = LastOf(q)
           /\ Tail(q) = <<>> => LastOf(q) = Head(q)
<1>1. Len(q) \in Nat /\ Len(q) > 0 /\ Tail(q) \in Seq(Transition) /\ Len(Tail(q)) = Len(q) - 1 /\ Head(q) \in Transition
  OBVIOUS
<1>2. ASSUME Tail(q) # <<>> PROVE LastOf(Tail(q)) = LastOf(q)
  <2>1. Len(Tail(q)) # 0
    BY <1>1, <1>2
  <2>2. Tail(q)[Len(q) - 1] = q[Len(q)]
    BY <1>1, <2>1
  <2> QED BY <1>1, <2>2 DEF LastOf
<1>3. ASSUME Tail(q) = <<>> PROVE LastOf(q) = Head(q)
  <2> DEFINE r == Tail(q)
             n == Len(q)
  <2>1. n \in Nat /\ n > 0 /\ Len(r) = n - 1 /\ r = <<>>
    BY <1>1, <1>3
  <2> HIDE DEF r, n
  <2>2. Len(r) = 0
    BY <2>1
  <2>3. n = 1
    BY <2>1, <2>2
  <2> QED BY <2>3 DEF LastOf, n
<1> QED BY <1>1, <1>2, <1>3

(* What Chained says of one session.                                         *)
LEMMA ChainedAt ==
    ASSUME Chained, NEW s \in Page!Session
    PROVE  /\ queue[s] \in Seq(Transition) /\ call[s] \in Call
           /\ call[s].on \in {"nothing", "disconnect", "reconnect", "retry"}
           /\ call[s].attempt \in 0..MaxAttempts /\ call[s].reply \in {"none", "ok", "refused"}
           /\ s > started => queue[s] = <<>> /\ call[s] = Page!Idle
           /\ call[s].on = "nothing" <=> call[s] = Page!Idle
           /\ call[s].on = "retry" => call[s].attempt < MaxAttempts
<1>1. queue[s] \in Seq(Transition) /\ call[s] \in Call
  BY DEF Chained
<1>2. /\ call[s].on \in {"nothing", "disconnect", "reconnect", "retry"}
      /\ call[s].attempt \in 0..MaxAttempts /\ call[s].reply \in {"none", "ok", "refused"}
  BY <1>1 DEF Call
<1> QED BY <1>1, <1>2 DEF Chained, Page!Idle

(* The session the controller has is one of the page's.                      *)
LEMMA TargetIs == ASSUME PageTypes, target # 0 PROVE target \in Page!Session /\ target <= started /\ target \in Nat
BY PageBounds DEF PageTypes, Page!Session

(* The variables are what SessionLifecycle says they are.                    *)
LEMMA PageTyped == ASSUME PageTypes, Chained PROVE Page!TypeOK
<1>1. \A s \in Page!Session : queue[s] \in Seq({"suspend", "resume", "recover"})
  BY DEF Chained, Transition
<1>2. call \in [Page!Session -> [on : {"nothing", "disconnect", "reconnect", "retry"},
                                 attempt : 0..MaxAttempts, reply : {"none", "ok", "refused"}]]
  BY DEF Chained, Call
<1> QED BY <1>1, <1>2 DEF PageTypes, Page!TypeOK

(* Before the first match nothing is asked.                                  *)
LEMMA PageBegins == Page!Init => PageInv
<1> SUFFICES ASSUME Page!Init PROVE PageInv
  OBVIOUS
<1>1. PageTypes
  <2>1. 0 \in 0..MaxSessions /\ 0 \in 0..0 /\ 0 \in 0..MaxEvents /\ 0 \in 0..MaxFaults
    BY PageBounds
  <2>2. counted \in [Page!Session -> {"connected", "disconnected", "resolved"}]
    BY DEF Page!Init
  <2> QED BY <2>1, <2>2 DEF Page!Init, PageTypes
<1>2. Page!Idle \in Call /\ <<>> \in Seq(Transition)
  BY PageBounds DEF Page!Idle, Call
<1>3. Page!Idle.on = "nothing"
  BY DEF Page!Idle
<1>4. Chained
  BY <1>2, <1>3 DEF Page!Init, Chained
<1> QED BY <1>1, <1>4 DEF PageInv, Page!Init, Intent, Page!HiddenIsSilent, Page!SettlesAsAsked

(* One session's chain moves: it is given a queue and a call.                *)
Moved(s, q, c) == queue' = [queue EXCEPT ![s] = q] /\ call' = [call EXCEPT ![s] = c]

(* Its queue and its call must be ones that a chain may have.                *)
LEMMA MovedKeepsChained ==
    ASSUME PageTypes, Chained, NEW s \in Page!Session, NEW q \in Seq(Transition), NEW c \in Call, Moved(s, q, c),
           started' \in Nat, started <= started', s <= started',
           c.on = "nothing" => c = Page!Idle, c.on = "retry" => c.attempt < MaxAttempts
    PROVE  /\ Chained' /\ queue'[s] = q /\ call'[s] = c
           /\ \A x \in Page!Session : x # s => queue'[x] = queue[x] /\ call'[x] = call[x]
<1>1. queue'[s] = q /\ call'[s] = c /\ \A x \in Page!Session : x # s => queue'[x] = queue[x] /\ call'[x] = call[x]
  BY DEF Moved, Chained
<1>2. queue' \in [Page!Session -> Seq(Transition)] /\ call' \in [Page!Session -> Call]
  BY DEF Moved, Chained
<1>3. s \in Nat /\ started \in Nat /\ \A x \in Page!Session : x \in Nat
  BY PageBounds DEF Page!Session, PageTypes
<1>4. ASSUME NEW x \in Page!Session
      PROVE  /\ x > started' => queue'[x] = <<>> /\ call'[x] = Page!Idle
             /\ call'[x].on = "nothing" => call'[x] = Page!Idle
             /\ call'[x].on = "retry" => call'[x].attempt < MaxAttempts
  BY <1>1, <1>3 DEF Chained
<1> QED BY <1>1, <1>2, <1>4 DEF Chained

(* No chain moves.                                                           *)
LEMMA StillKeepsChained ==
    ASSUME PageTypes, Chained, queue' = queue, call' = call, started' \in Nat, started <= started'
    PROVE  Chained'
<1>1. started \in Nat /\ \A x \in Page!Session : x \in Nat
  BY PageBounds DEF Page!Session, PageTypes
<1> QED BY <1>1 DEF Chained

(* A session that was left does not concern the controller.                  *)
LEMMA OthersIntend ==
    ASSUME PageTypes, Intent, Page!SettlesAsAsked, UNCHANGED <<visible, target, stage, desiredSuspended, beating>>,
           target # 0 => queue'[target] = queue[target] /\ call'[target] = call[target]
    PROVE  Intent' /\ Page!SettlesAsAsked'
BY DEF Intent, Page!SettlesAsAsked, LastOf

(* With no session there is nothing to intend.                               *)
LEMMA NobodyIntends == ASSUME target' = 0 PROVE Intent' /\ Page!SettlesAsAsked'
BY DEF Intent, Page!SettlesAsAsked

(* A match starts: a page that is hidden asks to be counted out at once.     *)
LEMMA StartStep == ASSUME PageInv, Page!Start PROVE PageInv'
<1> USE DEF PageInv
<1>1. /\ started < MaxSessions /\ started' = started + 1 /\ target' = started + 1
      /\ disconnectConfirmed' = FALSE /\ desiredSuspended' = ~visible /\ stage' = "active"
      /\ beating' = visible /\ pulse' = IF visible THEN "sent" ELSE "none"
      /\ queue' = IF visible THEN queue ELSE [queue EXCEPT ![started + 1] = <<"suspend">>]
      /\ UNCHANGED <<visible, call, counted, strays, events, faults>>
  BY DEF Page!Start
<1>2. started \in Nat /\ started' \in Nat /\ started + 1 \in Page!Session /\ started' # 0
  BY <1>1, PageBounds DEF PageTypes, Page!Session
<1>3. PageTypes'
  <2>1. started' \in 0..MaxSessions /\ target' \in 0..started'
    BY <1>1, <1>2, PageBounds DEF PageTypes
  <2>2. /\ visible' \in BOOLEAN /\ desiredSuspended' \in BOOLEAN /\ disconnectConfirmed' \in BOOLEAN /\ beating' \in BOOLEAN
        /\ pulse' \in {"none", "sent", "ok", "disconnected", "resolved"}
    BY <1>1 DEF PageTypes
  <2>3. /\ counted' \in [Page!Session -> {"connected", "disconnected", "resolved"}]
        /\ strays' \subseteq Page!Session \X {"disconnect", "reconnect"}
        /\ events' \in 0..MaxEvents /\ faults' \in 0..MaxFaults
        /\ stage' \in {"idle", "active", "suspending", "suspended", "resuming"}
    BY <1>1 DEF PageTypes
  <2> QED BY <2>1, <2>2, <2>3 DEF PageTypes
<1>4. queue[started + 1] = <<>> /\ call[started + 1] = Page!Idle
  BY <1>2 DEF Chained
<1>5. Page!Idle \in Call /\ <<>> \in Seq(Transition) /\ <<"suspend">> \in Seq(Transition) /\ Page!Idle.on = "nothing"
  BY PageBounds DEF Page!Idle, Call, Transition
<1> DEFINE q == IF visible THEN <<>> ELSE <<"suspend">>
<1>6. q \in Seq(Transition) /\ Moved(started + 1, q, Page!Idle)
  BY <1>1, <1>2, <1>4, <1>5 DEF Moved, Chained
<1>7. Chained' /\ queue'[started + 1] = q /\ call'[started + 1] = Page!Idle
  <2>1. started \in Nat /\ started <= started' /\ started + 1 <= started' /\ q \in Seq(Transition)
    BY <1>1, <1>2, <1>6
  <2>2. Page!Idle.on # "retry"
    BY <1>5
  <2> HIDE DEF q
  <2> QED BY <1>2, <1>5, <1>6, <2>1, <2>2, MovedKeepsChained
<1>8. Head(<<"suspend">>) = "suspend" /\ LastOf(<<"suspend">>) = "suspend" /\ <<"suspend">> # <<>>
  BY DEF LastOf
<1>9. queue'[target'] = q /\ call'[target'] = Page!Idle /\ visible \in BOOLEAN /\ visible' = visible
  BY <1>1, <1>7 DEF PageTypes
<1>10. Intent'
  BY <1>1, <1>5, <1>8, <1>9 DEF Intent
<1>11. Page!SettlesAsAsked' /\ Page!HiddenIsSilent'
  <2>1. ~visible => q # <<>>
    BY <1>8
  <2> HIDE DEF q
  <2>2. Page!SettlesAsAsked'
    BY <1>1, <1>9, <2>1 DEF Page!SettlesAsAsked
  <2>3. Page!HiddenIsSilent'
    BY <1>1, <1>2, <1>9 DEF Page!HiddenIsSilent
  <2> QED BY <2>2, <2>3
<1> QED BY <1>3, <1>7, <1>10, <1>11

(* The match is over or left: there is nothing to be silent about.           *)
LEMMA LeaveStep == ASSUME PageInv, Page!Leave PROVE PageInv'
<1> USE DEF PageInv
<1>1. /\ target' = 0 /\ stage' = "idle" /\ beating' = FALSE /\ pulse' = "none" /\ desiredSuspended' = FALSE
      /\ disconnectConfirmed' = FALSE /\ events < MaxEvents /\ events' = events + 1
      /\ UNCHANGED <<visible, started, queue, call, counted, strays, faults>>
  BY DEF Page!Leave, Page!Reset, Page!StopBeating, Page!Event
<1>2. PageTypes'
  <2>1. started' \in 0..MaxSessions /\ target' \in 0..started' /\ events' \in 0..MaxEvents
    BY <1>1, PageBounds DEF PageTypes
  <2>2. /\ visible' \in BOOLEAN /\ desiredSuspended' \in BOOLEAN /\ disconnectConfirmed' \in BOOLEAN /\ beating' \in BOOLEAN
        /\ pulse' \in {"none", "sent", "ok", "disconnected", "resolved"}
    BY <1>1 DEF PageTypes
  <2>3. /\ counted' \in [Page!Session -> {"connected", "disconnected", "resolved"}]
        /\ strays' \subseteq Page!Session \X {"disconnect", "reconnect"}
        /\ faults' \in 0..MaxFaults
        /\ stage' \in {"idle", "active", "suspending", "suspended", "resuming"}
    BY <1>1 DEF PageTypes
  <2> QED BY <2>1, <2>2, <2>3 DEF PageTypes
<1>3. Chained'
  BY <1>1, StillKeepsChained DEF PageTypes
<1>4. Page!HiddenIsSilent'
  BY <1>1 DEF Page!HiddenIsSilent
<1> QED BY <1>1, <1>2, <1>3, <1>4, NobodyIntends

(* Hidden, the page falls silent and the chain ends with "suspend"; shown,   *)
(* with "resume".                                                            *)
LEMMA HideStep == ASSUME PageInv, Page!Suspend \/ Page!Resume PROVE PageInv'
<1> USE DEF PageInv
<1> DEFINE op == IF Page!Suspend THEN "suspend" ELSE "resume"
<1>1. /\ events < MaxEvents /\ events' = events + 1 /\ Page!Quiet
      /\ UNCHANGED <<started, target, stage, disconnectConfirmed, call, counted, strays, faults>>
  BY DEF Page!Suspend, Page!Resume, Page!Event
<1>2. CASE target = 0
  <2>1. visible' \in BOOLEAN /\ UNCHANGED <<desiredSuspended, beating, pulse, queue>>
    BY <1>2 DEF Page!Suspend, Page!Resume
  <2>2. PageTypes'
    BY <1>1, <2>1, PageBounds DEF PageTypes
  <2>3. Chained'
    BY <1>1, <2>1, StillKeepsChained DEF PageTypes
  <2>4. Page!HiddenIsSilent'
    BY <1>1, <2>1 DEF Page!HiddenIsSilent
  <2> QED BY <1>1, <1>2, <2>2, <2>3, <2>4, NobodyIntends
<1>3. CASE target # 0
  <2>1. target \in Page!Session /\ target <= started /\ target \in Nat /\ started \in Nat
    BY <1>3, TargetIs, PageBounds DEF PageTypes
  <2>2. PICK wish \in {"suspend", "resume"} :
            /\ queue' = [queue EXCEPT ![target] = Append(@, wish)]
            /\ visible' = (wish = "resume") /\ desiredSuspended' = (wish = "suspend")
            /\ wish = "suspend" => beating' = FALSE /\ pulse' = "none"
            /\ wish = "resume" => UNCHANGED <<beating, pulse>>
    <3>1. CASE Page!Suspend
      BY <1>3, <3>1 DEF Page!Suspend, Page!StopBeating, Page!Enqueue
    <3>2. CASE Page!Resume
      BY <1>3, <3>2 DEF Page!Resume, Page!Enqueue
    <3> QED BY <3>1, <3>2
  <2> DEFINE o == queue[target]
             q == Append(o, wish)
             c == call[target]
  <2>3. /\ o \in Seq(Transition) /\ c \in Call /\ (c.on = "nothing" <=> c = Page!Idle)
        /\ c.on = "retry" => c.attempt < MaxAttempts
        /\ c.on \in {"nothing", "disconnect", "reconnect", "retry"}
    BY <2>1, ChainedAt
  <2>4. q \in Seq(Transition) /\ q # <<>> /\ LastOf(q) = wish /\ Head(q) = IF o = <<>> THEN wish ELSE Head(o)
    BY <2>3, Joins DEF Transition
  <2>5. Moved(target, q, c)
    BY <1>1, <2>1, <2>2 DEF Moved, Chained
  <2>6. o = <<>> \/ c # Page!Idle
    BY <1>1, <2>1 DEF Page!Quiet, Page!Ready
  <2>7. c # Page!Idle => stage # "active"
    BY <1>3 DEF Intent
  <2> HIDE DEF q, c, o
  <2>8. Chained' /\ queue'[target] = q /\ call'[target] = c
    BY <1>1, <2>1, <2>3, <2>4, <2>5, MovedKeepsChained
  <2>9. PageTypes'
    <3>1. events' \in 0..MaxEvents
      BY <1>1, PageBounds DEF PageTypes
    <3>2. visible' \in BOOLEAN /\ desiredSuspended' \in BOOLEAN
      BY <2>2
    <3>3. beating' \in BOOLEAN /\ pulse' \in {"none", "sent", "ok", "disconnected", "resolved"}
      <4>1. CASE wish = "suspend"
        BY <2>2, <4>1
      <4>2. CASE wish = "resume"
        BY <2>2, <4>2 DEF PageTypes
      <4> QED BY <4>1, <4>2
    <3> QED BY <1>1, <3>1, <3>2, <3>3 DEF PageTypes
  <2>10. queue'[target'] = q /\ call'[target'] = c
    BY <1>1, <2>8
  <2>11. Page!HiddenIsSilent'
    BY <1>1, <1>3, <2>2 DEF Page!HiddenIsSilent
  <2>12. Page!SettlesAsAsked'
    BY <2>4, <2>10 DEF Page!SettlesAsAsked
  <2>13. c # Page!Idle => stage = IF c.on = "disconnect" THEN "suspending" ELSE "resuming"
    BY <1>3 DEF Intent, c
  <2>14. Intent'
    BY <1>1, <2>2, <2>4, <2>6, <2>7, <2>10, <2>13 DEF Intent
  <2> QED BY <2>8, <2>9, <2>11, <2>12, <2>14
<1> QED BY <1>2, <1>3

(* Pulses come and go, the server counts a player out or hears a call that   *)
(* was given up: no chain and no intent moves.                               *)
LEMMA OutsideStep ==
    ASSUME PageInv, NEW s \in Page!Session,
           \/ Page!Pulse \/ Page!PulseFails \/ Page!ServePulse \/ Page!CountOut(s)
           \/ \E kind \in {"disconnect", "reconnect"} : Page!ServeStray(s, kind)
    PROVE  PageInv'
<1> USE DEF PageInv
<1>1. UNCHANGED <<visible, started, target, stage, desiredSuspended, disconnectConfirmed, beating, queue, call, events>>
  BY DEF Page!Pulse, Page!PulseFails, Page!ServePulse, Page!CountOut, Page!ServeStray, Page!controller
<1>2. /\ pulse' \in {"none", "sent", "ok", "disconnected", "resolved"}
      /\ desiredSuspended \/ target = 0 => pulse' = "none"
  <2>1. CASE Page!Pulse
    BY <2>1 DEF Page!Pulse, Page!HiddenIsSilent
  <2>2. CASE Page!PulseFails
    BY <2>2 DEF Page!PulseFails
  <2>3. CASE Page!ServePulse
    <3>1. pulse = "sent" /\ target # 0 /\ pulse' = IF counted[target] = "connected" THEN "ok" ELSE counted[target]
      BY <2>3 DEF Page!ServePulse, Page!HiddenIsSilent
    <3>2. counted[target] \in {"connected", "disconnected", "resolved"}
      BY <3>1, TargetIs DEF PageTypes
    <3>3. ~desiredSuspended
      BY <3>1 DEF Page!HiddenIsSilent
    <3> QED BY <3>1, <3>2, <3>3
  <2>4. CASE pulse' = pulse
    BY <2>4 DEF PageTypes, Page!HiddenIsSilent
  <2> QED BY <2>1, <2>2, <2>3, <2>4 DEF Page!CountOut, Page!ServeStray, Page!controller
<1>3. counted' \in [Page!Session -> {"connected", "disconnected", "resolved"}]
  <2>1. CASE counted' = counted
    BY <2>1 DEF PageTypes
  <2>2. CASE Page!CountOut(s)
    BY <2>2 DEF Page!CountOut, PageTypes
  <2>3. ASSUME NEW kind \in {"disconnect", "reconnect"}, Page!ServeStray(s, kind)
        PROVE  counted' \in [Page!Session -> {"connected", "disconnected", "resolved"}]
    <3>1. counted[s] \in {"connected", "disconnected", "resolved"}
      BY DEF PageTypes
    <3>2. Page!After(counted[s], kind) \in {"connected", "disconnected", "resolved"}
      BY <3>1 DEF Page!After
    <3>3. counted' = counted \/ counted' = [counted EXCEPT ![s] = Page!After(counted[s], kind)]
      BY <2>3 DEF Page!ServeStray
    <3> QED BY <3>2, <3>3 DEF PageTypes
  <2> QED BY <2>1, <2>2, <2>3 DEF Page!Pulse, Page!PulseFails, Page!ServePulse
<1>4. strays' \subseteq strays /\ (faults' = faults \/ (faults < MaxFaults /\ faults' = faults + 1))
  BY DEF Page!Pulse, Page!PulseFails, Page!ServePulse, Page!CountOut, Page!ServeStray, Page!Fault
<1>5. faults' \in 0..MaxFaults
  BY <1>4, PageBounds DEF PageTypes
<1>6. PageTypes'
  BY <1>1, <1>2, <1>3, <1>4, <1>5 DEF PageTypes
<1>7. Chained'
  BY <1>1, StillKeepsChained DEF PageTypes
<1>8. Page!HiddenIsSilent'
  BY <1>1, <1>2 DEF Page!HiddenIsSilent
<1>9. Intent' /\ Page!SettlesAsAsked'
  BY <1>1, OthersIntend
<1> QED BY <1>6, <1>7, <1>8, <1>9

(* The server hears a transition's request: its answer is under way.         *)
LEMMA ServeStep == ASSUME PageInv, NEW s \in Page!Session, Page!Serve(s) PROVE PageInv'
<1> USE DEF PageInv
<1> DEFINE o == call[s]
           answer == IF counted[s] = "resolved" THEN "refused" ELSE "ok"
           c == [o EXCEPT !.reply = answer]
<1>1. /\ o \in Call /\ o.on \in {"disconnect", "reconnect"}
      /\ call' = [call EXCEPT ![s] = c]
      /\ counted' = [counted EXCEPT ![s] = Page!After(counted[s], o.on)]
      /\ UNCHANGED <<visible, started, target, stage, desiredSuspended, disconnectConfirmed, beating, pulse,
                     queue, strays, events, faults>>
  <2>1. call \in [Page!Session -> Call]
    BY DEF Chained
  <2>2. call' = [call EXCEPT ![s].reply = answer] /\ call[s].on \in {"disconnect", "reconnect"}
        /\ counted' = [counted EXCEPT ![s] = Page!After(@, call[s].on)]
        /\ UNCHANGED <<visible, started, target, stage, desiredSuspended, disconnectConfirmed, beating, pulse,
                       queue, strays, events, faults>>
    BY DEF Page!Serve, Page!controller
  <2> QED BY <2>1, <2>2 DEF PageTypes
<1>2. c \in Call /\ c.on = o.on
  BY <1>1 DEF Call
<1>3. s <= started /\ queue[s] \in Seq(Transition) /\ o # Page!Idle /\ c # Page!Idle /\ started \in Nat
  <2>1. s \in Nat /\ started \in Nat
    BY PageBounds DEF Page!Session, PageTypes
  <2>2. o # Page!Idle /\ c # Page!Idle
    BY <1>1, <1>2 DEF Page!Idle
  <2> QED BY <2>1, <2>2, ChainedAt
<1> HIDE DEF c, o
<1>4. Moved(s, queue[s], c)
  BY <1>1 DEF Moved, Chained
<1>5. /\ Chained' /\ queue'[s] = queue[s] /\ call'[s] = c
      /\ \A x \in Page!Session : x # s => queue'[x] = queue[x] /\ call'[x] = call[x]
  BY <1>1, <1>2, <1>3, <1>4, MovedKeepsChained
<1>6. PageTypes'
  <2>1. counted[s] \in {"connected", "disconnected", "resolved"}
    BY DEF PageTypes
  <2>2. Page!After(counted[s], o.on) \in {"connected", "disconnected", "resolved"}
    BY <1>1, <2>1 DEF Page!After
  <2>3. counted' \in [Page!Session -> {"connected", "disconnected", "resolved"}]
    BY <1>1, <2>2 DEF PageTypes
  <2> QED BY <1>1, <2>3 DEF PageTypes
<1>7. Page!HiddenIsSilent'
  BY <1>1 DEF Page!HiddenIsSilent
<1>8. CASE s # target \/ target = 0
  <2>1. target # 0 => queue'[target] = queue[target] /\ call'[target] = call[target]
    BY <1>5, <1>8, TargetIs
  <2> QED BY <1>1, <1>5, <1>6, <1>7, <2>1, OthersIntend
<1>9. CASE s = target /\ target # 0
  <2>1. /\ stage = IF o.on = "disconnect" THEN "suspending" ELSE "resuming"
        /\ desiredSuspended = ~visible
        /\ queue[s] # <<>> => (LastOf(queue[s]) = "suspend" <=> ~visible)
        /\ visible /\ o.on = "disconnect" => queue[s] # <<>>
    BY <1>3, <1>9 DEF Intent, o
  <2>2. Intent'
    BY <1>1, <1>2, <1>3, <1>5, <1>9, <2>1 DEF Intent
  <2>3. Page!SettlesAsAsked'
    BY <1>1, <1>3, <1>5, <1>9 DEF Page!SettlesAsAsked
  <2> QED BY <1>5, <1>6, <1>7, <2>2, <2>3
<1> QED BY <1>8, <1>9

(* The answer to a pulse.                                                    *)
LEMMA BeatStep == ASSUME PageInv, Page!Beat PROVE PageInv'
<1> USE DEF PageInv
<1>1. UNCHANGED <<visible, started, call, counted, strays, events, faults>>
  BY DEF Page!Beat
<1>2. CASE pulse = "ok" /\ pulse' = "none" /\ UNCHANGED <<target, stage, desiredSuspended, disconnectConfirmed, beating, queue>>
  <2>1. PageTypes' /\ Page!HiddenIsSilent'
    BY <1>1, <1>2 DEF PageTypes, Page!HiddenIsSilent
  <2>2. Chained'
    BY <1>1, <1>2, StillKeepsChained DEF PageTypes
  <2> QED BY <1>1, <1>2, <2>1, <2>2, OthersIntend
<1>3. CASE pulse = "resolved" /\ Page!Reset /\ stage' = "idle" /\ UNCHANGED queue
  <2>1. target' = 0 /\ beating' = FALSE /\ pulse' = "none" /\ desiredSuspended' = FALSE /\ disconnectConfirmed' = FALSE
    BY <1>3 DEF Page!Reset, Page!StopBeating
  <2>2. started \in Nat
    BY PageBounds DEF PageTypes
  <2>3. PageTypes'
    <3>1. target' \in 0..started' /\ started' \in 0..MaxSessions /\ stage' \in {"idle", "active", "suspending", "suspended", "resuming"}
      BY <1>1, <1>3, <2>1, <2>2 DEF PageTypes
    <3> QED BY <1>1, <2>1, <3>1 DEF PageTypes
  <2>4. Chained'
    BY <1>1, <1>3, <2>2, StillKeepsChained
  <2>5. Page!HiddenIsSilent'
    BY <2>1 DEF Page!HiddenIsSilent
  <2> QED BY <2>1, <2>3, <2>4, <2>5, NobodyIntends
<1>4. CASE Page!Refused
  <2>1. /\ pulse = "disconnected" /\ beating' = FALSE /\ pulse' = "none" /\ disconnectConfirmed' = TRUE
        /\ queue' = [queue EXCEPT ![target] = Append(@, "recover")]
        /\ UNCHANGED <<target, stage, desiredSuspended>>
    BY <1>4 DEF Page!Refused, Page!StopBeating, Page!Enqueue
  <2>2. target # 0 /\ ~desiredSuspended
    BY <2>1 DEF Page!HiddenIsSilent
  <2>3. target \in Page!Session /\ target <= started /\ target \in Nat /\ started \in Nat
    BY <2>2, TargetIs, PageBounds DEF PageTypes
  <2> DEFINE o == queue[target]
             q == Append(o, "recover")
             c == call[target]
  <2>4. /\ o \in Seq(Transition) /\ c \in Call /\ (c.on = "nothing" <=> c = Page!Idle)
        /\ c.on = "retry" => c.attempt < MaxAttempts
    BY <2>3, ChainedAt
  <2>5. q \in Seq(Transition) /\ q # <<>> /\ LastOf(q) = "recover"
    BY <2>4, Joins DEF Transition
  <2>6. Moved(target, q, c)
    BY <1>1, <2>1, <2>3 DEF Moved, Chained
  <2>7. visible /\ (c # Page!Idle => stage = IF c.on = "disconnect" THEN "suspending" ELSE "resuming")
    BY <2>2 DEF Intent, c, PageTypes
  <2> HIDE DEF q, c, o
  <2>8. Chained' /\ queue'[target] = q /\ call'[target] = c
    BY <1>1, <2>3, <2>4, <2>5, <2>6, MovedKeepsChained
  <2>9. queue'[target'] = q /\ call'[target'] = c
    BY <2>1, <2>8
  <2>10. PageTypes' /\ Page!HiddenIsSilent'
    BY <1>1, <2>1 DEF PageTypes, Page!HiddenIsSilent
  <2>11. Intent'
    BY <1>1, <2>1, <2>2, <2>5, <2>7, <2>9 DEF Intent
  <2>12. Page!SettlesAsAsked'
    BY <2>5, <2>9 DEF Page!SettlesAsAsked
  <2> QED BY <2>8, <2>10, <2>11, <2>12
<1> QED BY <1>2, <1>3, <1>4 DEF Page!Beat

(* What a transition of the controller's session leaves: its chain, the call *)
(* that runs, and a phase that goes with both.                               *)
Follows(s, q, c) ==
    /\ Moved(s, q, c)
    /\ c.on = "nothing" => c = Page!Idle
    /\ c.on = "retry" => c.attempt < MaxAttempts
    /\ stage' \in {"idle", "active", "suspending", "suspended", "resuming"} /\ disconnectConfirmed' \in BOOLEAN
    /\ beating' \in BOOLEAN /\ pulse' \in {"none", "sent", "ok", "disconnected", "resolved"}
    /\ c # Page!Idle => stage' = IF c.on = "disconnect" THEN "suspending" ELSE "resuming"
    /\ ~visible => stage' # "active" /\ ~beating' /\ pulse' = "none"
    /\ visible /\ c.on = "disconnect" => q # <<>>
    /\ q = <<>> /\ c = Page!Idle => stage' = (IF visible THEN "active" ELSE "suspended") /\ beating' = visible

Others ==
    /\ UNCHANGED <<visible, started, counted, events>>
    /\ strays' \subseteq Page!Session \X {"disconnect", "reconnect"} /\ faults' \in 0..MaxFaults

(* What follows so keeps the page as it must be.                             *)
LEMMA FollowsKeeps ==
    ASSUME PageInv, Others, target # 0, UNCHANGED <<target, desiredSuspended>>,
           NEW q \in Seq(Transition), NEW c \in Call, Follows(target, q, c),
           q # <<>> => (LastOf(q) = "suspend" <=> ~visible)
    PROVE  PageInv'
<1> USE DEF PageInv
<1>1. target \in Page!Session /\ target <= started /\ target \in Nat /\ started \in Nat
  BY TargetIs, PageBounds DEF PageTypes
<1>2. Chained' /\ queue'[target] = q /\ call'[target] = c
  BY <1>1, MovedKeepsChained DEF Follows, Others
<1>3. PageTypes'
  BY DEF PageTypes, Follows, Others
<1>4. desiredSuspended' = ~visible' /\ visible' = visible /\ target' = target /\ queue'[target'] = q /\ call'[target'] = c
  BY <1>2 DEF Intent, Others
<1>5. Intent'
  BY <1>4 DEF Intent, Follows
<1>6. Page!SettlesAsAsked'
  BY <1>4 DEF Page!SettlesAsAsked, Follows
<1>7. Page!HiddenIsSilent'
  BY <1>4 DEF Page!HiddenIsSilent, Follows
<1> QED BY <1>2, <1>3, <1>5, <1>6, <1>7

(* The controller lets go of its session.                                    *)
LEMMA ResetKeeps ==
    ASSUME PageInv, Others, NEW s \in Page!Session, s <= started, queue' = queue, call' = [call EXCEPT ![s] = Page!Idle],
           Page!Reset, stage' \in {"idle", "suspended"}
    PROVE  PageInv'
<1> USE DEF PageInv
<1>1. target' = 0 /\ beating' = FALSE /\ pulse' = "none" /\ desiredSuspended' = FALSE /\ disconnectConfirmed' = FALSE
  BY DEF Page!Reset, Page!StopBeating
<1>2. Page!Idle \in Call /\ queue[s] \in Seq(Transition) /\ Page!Idle.on = "nothing"
  BY PageBounds, ChainedAt DEF Page!Idle, Call
<1>3. started \in Nat /\ started' = started
  BY PageBounds DEF Others, PageTypes
<1>4. Moved(s, queue[s], Page!Idle)
  BY DEF Moved, Chained
<1>5. Chained'
  BY <1>2, <1>3, <1>4, MovedKeepsChained
<1>6. target' \in 0..started' /\ stage' \in {"idle", "active", "suspending", "suspended", "resuming"}
  BY <1>1, <1>3
<1>7. PageTypes'
  BY <1>1, <1>6 DEF PageTypes, Others
<1>8. Page!HiddenIsSilent'
  BY <1>1 DEF Page!HiddenIsSilent
<1> QED BY <1>1, <1>5, <1>7, <1>8, NobodyIntends

(* A transition of a session that was left.                                  *)
LEMMA StrangersKeep ==
    ASSUME PageInv, Others, NEW s \in Page!Session, s # target, s <= started, UNCHANGED Page!controller,
           NEW q \in Seq(Transition), NEW c \in Call, Moved(s, q, c),
           c.on = "nothing" => c = Page!Idle, c.on = "retry" => c.attempt < MaxAttempts
    PROVE  PageInv'
<1> USE DEF PageInv
<1>1. UNCHANGED <<visible, started, target, stage, desiredSuspended, disconnectConfirmed, beating, pulse>>
  BY DEF Page!controller, Others
<1>2. started \in Nat
  BY PageBounds DEF PageTypes
<1>3. Chained' /\ \A x \in Page!Session : x # s => queue'[x] = queue[x] /\ call'[x] = call[x]
  BY <1>1, <1>2, MovedKeepsChained
<1>4. PageTypes' /\ Page!HiddenIsSilent'
  BY <1>1 DEF PageTypes, Page!HiddenIsSilent, Others
<1>5. target # 0 => queue'[target] = queue[target] /\ call'[target] = call[target]
  BY <1>3, TargetIs
<1> QED BY <1>1, <1>3, <1>4, <1>5, OthersIntend

(* The two requests, and no request.                                         *)
Leave0 == [on |-> "disconnect", attempt |-> 0, reply |-> "none"]
Come1 == [on |-> "reconnect", attempt |-> 1, reply |-> "none"]

(* A call that runs is not the idle one.                                     *)
LEMMA Requests ==
    /\ Page!Idle \in Call /\ Page!Idle.on = "nothing"
    /\ Leave0 \in Call /\ Leave0.on = "disconnect" /\ Leave0 # Page!Idle
    /\ Come1 \in Call /\ Come1.on = "reconnect" /\ Come1 # Page!Idle
<1>1. 0 \in 0..MaxAttempts /\ 1 \in 0..MaxAttempts
  BY PageBounds
<1> QED BY <1>1 DEF Leave0, Come1, Page!Idle, Call

(* A transition begins.                                                      *)
LEMMA BeginStep == ASSUME PageInv, NEW s \in Page!Session, Page!Begin(s) PROVE PageInv'
<1> USE DEF PageInv
<1> DEFINE o == queue[s]
           q == Tail(o)
<1>1. /\ o # <<>> /\ call[s] = Page!Idle /\ queue' = [queue EXCEPT ![s] = q]
      /\ UNCHANGED <<visible, started, target, desiredSuspended, counted, strays, events, faults>>
  <2>1. o # <<>> /\ call[s] = Page!Idle /\ queue' = [queue EXCEPT ![s] = Tail(@)]
        /\ UNCHANGED <<visible, started, target, desiredSuspended, counted, strays, events, faults>>
    BY DEF Page!Begin, Page!Ready
  <2> QED BY <2>1 DEF Chained
<1>2. /\ o \in Seq(Transition) /\ q \in Seq(Transition) /\ Head(o) \in Transition
      /\ q # <<>> => LastOf(q) = LastOf(o)
      /\ q = <<>> => LastOf(o) = Head(o)
  BY <1>1, ChainedAt, Departs
<1>3. s <= started /\ started \in Nat
  <2>1. s \in Nat /\ started \in Nat
    BY PageBounds DEF Page!Session, PageTypes
  <2> QED BY <1>1, <2>1, ChainedAt
<1>4. Others
  BY <1>1 DEF Others, PageTypes
<1>5. call' = call => Moved(s, q, Page!Idle)
  BY <1>1 DEF Moved, Chained
<1> HIDE DEF q
<1>6. CASE s # target
  <2>1. UNCHANGED <<stage, disconnectConfirmed, beating, pulse, call>>
    BY <1>6 DEF Page!Begin
  <2>2. UNCHANGED Page!controller
    BY <1>1, <2>1 DEF Page!controller
  <2> QED BY <1>2, <1>3, <1>4, <1>5, <1>6, <2>1, <2>2, Requests, StrangersKeep
<1>7. CASE s = target
  <2>1. target # 0
    BY <1>7 DEF Page!Session
  <2>2. /\ desiredSuspended = ~visible
        /\ LastOf(o) = "suspend" <=> ~visible
        /\ ~visible /\ stage = "active" => Head(o) = "suspend"
    BY <1>1, <1>7, <2>1 DEF Intent
  <2>3. desiredSuspended => ~beating /\ pulse = "none"
    BY DEF Page!HiddenIsSilent
  <2>4. /\ stage \in {"idle", "active", "suspending", "suspended", "resuming"} /\ disconnectConfirmed \in BOOLEAN
        /\ pulse \in {"none", "sent", "ok", "disconnected", "resolved"} /\ beating \in BOOLEAN /\ visible \in BOOLEAN
    BY DEF PageTypes
  <2>5. q # <<>> => (LastOf(q) = "suspend" <=> ~visible)
    BY <1>2, <2>2
  <2>6. Page!Rejoin(s) /\ Head(o) # "suspend" => \E c \in Call : Follows(s, q, c)
    <3>1. CASE disconnectConfirmed
      <4>1. ASSUME Page!Rejoin(s), Head(o) # "suspend" PROVE Follows(s, q, Come1)
        <5>1. stage' = "resuming" /\ call' = [call EXCEPT ![s] = Come1] /\ UNCHANGED <<disconnectConfirmed, beating, pulse>>
          BY <3>1, <4>1 DEF Page!Rejoin, Page!Request, Page!Await, Come1
        <5>2. Moved(s, q, Come1)
          BY <1>1, <5>1 DEF Moved
        <5> QED BY <2>2, <2>3, <2>4, <5>1, <5>2, Requests DEF Follows
      <4> QED BY <4>1, Requests
    <3>2. CASE ~disconnectConfirmed
      <4>1. ASSUME Page!Rejoin(s), Head(o) # "suspend" PROVE Follows(s, q, Page!Idle)
        <5>1. /\ disconnectConfirmed' = FALSE /\ call' = call
              /\ IF desiredSuspended THEN stage' = "suspended" /\ UNCHANGED <<beating, pulse>>
                 ELSE stage' = "active" /\ beating' = TRUE /\ pulse' = IF beating THEN pulse ELSE "sent"
          BY <3>2, <4>1 DEF Page!Rejoin, Page!Rejoined, Page!StartBeating
        <5>2. Moved(s, q, Page!Idle)
          BY <1>5, <5>1
        <5>3. CASE desiredSuspended
          BY <1>2, <2>2, <2>3, <2>4, <4>1, <5>1, <5>2, <5>3, Requests DEF Follows
        <5>4. CASE ~desiredSuspended
          BY <1>2, <2>2, <2>3, <2>4, <4>1, <5>1, <5>2, <5>4, Requests DEF Follows
        <5> QED BY <5>3, <5>4
      <4> QED BY <4>1, Requests
    <3> QED BY <2>4, <3>1, <3>2
  <2>7. CASE Page!BeginSuspend(s)
    <3>1. Head(o) = "suspend" /\ UNCHANGED <<disconnectConfirmed, beating, pulse>>
      BY <2>7 DEF Page!BeginSuspend
    <3>2. CASE stage = "suspended" /\ disconnectConfirmed
      <4>1. UNCHANGED <<stage, call>>
        BY <2>7, <3>2 DEF Page!BeginSuspend
      <4>2. Follows(s, q, Page!Idle)
        BY <1>2, <1>5, <2>2, <2>3, <2>4, <3>1, <3>2, <4>1, Requests DEF Follows
      <4> QED BY <1>1, <1>2, <1>4, <1>7, <2>1, <2>5, <4>2, Requests, FollowsKeeps
    <3>3. CASE ~(stage = "suspended" /\ disconnectConfirmed)
      <4>1. stage' = "suspending" /\ call' = [call EXCEPT ![s] = Leave0]
        BY <2>7, <3>3 DEF Page!BeginSuspend, Page!Request, Page!Await, Leave0
      <4>2. Moved(s, q, Leave0)
        BY <1>1, <4>1 DEF Moved
      <4>3. Follows(s, q, Leave0)
        BY <1>2, <2>2, <2>3, <2>4, <3>1, <4>1, <4>2, Requests DEF Follows
      <4> QED BY <1>1, <1>2, <1>4, <1>7, <2>1, <2>5, <4>3, Requests, FollowsKeeps
    <3> QED BY <3>2, <3>3
  <2>8. CASE Page!BeginResume(s)
    <3>1. Head(o) = "resume"
      BY <2>8 DEF Page!BeginResume
    <3>2. CASE stage = "active"
      <4>1. beating' = TRUE /\ pulse' = (IF beating THEN pulse ELSE "sent") /\ UNCHANGED <<stage, disconnectConfirmed, call>>
        BY <2>8, <3>2 DEF Page!BeginResume, Page!StartBeating
      <4>2. visible
        BY <2>2, <2>4, <3>1, <3>2
      <4>3. Follows(s, q, Page!Idle)
        BY <1>2, <1>5, <2>4, <3>2, <4>1, <4>2, Requests DEF Follows
      <4> QED BY <1>1, <1>2, <1>4, <1>7, <2>1, <2>5, <4>3, Requests, FollowsKeeps
    <3>3. CASE stage # "active"
      <4>1. PICK c \in Call : Follows(s, q, c)
        BY <2>6, <2>8, <3>1, <3>3 DEF Page!BeginResume
      <4> QED BY <1>1, <1>2, <1>4, <1>7, <2>1, <2>5, <4>1, FollowsKeeps
    <3> QED BY <3>2, <3>3
  <2>9. CASE Page!BeginRecover(s)
    <3>1. Head(o) = "recover"
      BY <2>9 DEF Page!BeginRecover
    <3>2. CASE desiredSuspended
      <4>1. stage' = "suspended" /\ UNCHANGED <<disconnectConfirmed, beating, pulse, call>>
        BY <2>9, <3>2 DEF Page!BeginRecover
      <4>2. Follows(s, q, Page!Idle)
        BY <1>2, <1>5, <2>2, <2>3, <2>4, <3>1, <3>2, <4>1, Requests DEF Follows
      <4> QED BY <1>1, <1>2, <1>4, <1>7, <2>1, <2>5, <4>2, Requests, FollowsKeeps
    <3>3. CASE ~desiredSuspended
      <4>1. PICK c \in Call : Follows(s, q, c)
        BY <2>6, <2>9, <3>1, <3>3 DEF Page!BeginRecover
      <4> QED BY <1>1, <1>2, <1>4, <1>7, <2>1, <2>5, <4>1, FollowsKeeps
    <3> QED BY <3>2, <3>3
  <2> QED BY <1>7, <2>7, <2>8, <2>9 DEF Page!Begin
<1> QED BY <1>6, <1>7

(* What Answer, Fail and Retry begin from: a call that runs.                 *)
LEMMA Running ==
    ASSUME PageInv, NEW s \in Page!Session, call[s] # Page!Idle
    PROVE  /\ s <= started /\ queue[s] \in Seq(Transition) /\ call[s] \in Call
           /\ call[s].on \in {"disconnect", "reconnect", "retry"} /\ call[s].attempt \in 0..MaxAttempts
           /\ call[s].on = "retry" => call[s].attempt < MaxAttempts
           /\ queue' = queue /\ call' = [call EXCEPT ![s] = Page!Idle] => Moved(s, queue[s], Page!Idle)
           /\ s = target =>
                /\ target # 0 /\ desiredSuspended = ~visible
                /\ queue[s] # <<>> => (LastOf(queue[s]) = "suspend" <=> ~visible)
                /\ visible /\ call[s].on = "disconnect" => queue[s] # <<>>
                /\ stage = IF call[s].on = "disconnect" THEN "suspending" ELSE "resuming"
<1> USE DEF PageInv
<1>1. s \in Nat /\ started \in Nat /\ s # 0
  BY PageBounds DEF Page!Session, PageTypes
<1>2. s <= started
  BY <1>1, ChainedAt
<1>3. queue' = queue /\ call' = [call EXCEPT ![s] = Page!Idle] => Moved(s, queue[s], Page!Idle)
  BY DEF Moved, Chained
<1>4. s = target =>
          /\ target # 0 /\ desiredSuspended = ~visible
          /\ queue[s] # <<>> => (LastOf(queue[s]) = "suspend" <=> ~visible)
          /\ visible /\ call[s].on = "disconnect" => queue[s] # <<>>
          /\ stage = IF call[s].on = "disconnect" THEN "suspending" ELSE "resuming"
  BY <1>1 DEF Intent
<1> QED BY <1>2, <1>3, <1>4, ChainedAt

(* What the controller has before a transition ends.                         *)
LEMMA Before ==
    ASSUME PageInv
    PROVE  /\ stage \in {"idle", "active", "suspending", "suspended", "resuming"} /\ disconnectConfirmed \in BOOLEAN
           /\ pulse \in {"none", "sent", "ok", "disconnected", "resolved"} /\ beating \in BOOLEAN /\ visible \in BOOLEAN
           /\ desiredSuspended => ~beating /\ pulse = "none"
BY DEF PageInv, PageTypes, Page!HiddenIsSilent

(* suspend ends.                                                             *)
LEMMA DisconnectedKeeps ==
    ASSUME PageInv, Others, NEW s \in Page!Session, call[s].on = "disconnect", NEW b \in BOOLEAN, Page!Disconnected(s, b),
           queue' = queue, call' = [call EXCEPT ![s] = Page!Idle], UNCHANGED <<target, desiredSuspended, beating, pulse>>
    PROVE  PageInv'
<1>1. call[s] # Page!Idle
  BY Requests
<1>2. CASE s # target
  <2>1. UNCHANGED Page!controller
    BY <1>2 DEF Page!Disconnected, Page!controller
  <2> QED BY <1>1, <1>2, <2>1, Running, Requests, StrangersKeep
<1>3. CASE s = target
  <2>1. stage' = "suspended" /\ disconnectConfirmed' = b
    BY <1>3 DEF Page!Disconnected
  <2>2. Moved(s, queue[s], Page!Idle)
    BY <1>1, Running
  <2>3. visible => queue[s] # <<>>
    BY <1>1, <1>3, Running
  <2>4. ~visible => ~beating /\ pulse = "none"
    BY <1>1, <1>3, Running, Before
  <2>5. Follows(s, queue[s], Page!Idle)
    BY <2>1, <2>2, <2>3, <2>4, Before, Requests DEF Follows
  <2>6. /\ target # 0 /\ queue[s] \in Seq(Transition) /\ UNCHANGED <<target, desiredSuspended>>
        /\ queue[s] # <<>> => (LastOf(queue[s]) = "suspend" <=> ~visible)
    BY <1>1, <1>3, Running
  <2> QED BY <1>3, <2>5, <2>6, Requests, FollowsKeeps
<1> QED BY <1>2, <1>3

(* reconnect ends.                                                           *)
LEMMA RejoinedKeeps ==
    ASSUME PageInv, Others, NEW s \in Page!Session, call[s].on = "reconnect", s = target, Page!Rejoined(s),
           queue' = queue, call' = [call EXCEPT ![s] = Page!Idle], UNCHANGED <<target, desiredSuspended>>
    PROVE  PageInv'
<1>1. call[s] # Page!Idle
  BY Requests
<1>2. Moved(s, queue[s], Page!Idle) /\ desiredSuspended = ~visible
  BY <1>1, Running
<1>3. /\ disconnectConfirmed' = FALSE
      /\ IF desiredSuspended THEN stage' = "suspended" /\ UNCHANGED <<beating, pulse>>
         ELSE stage' = "active" /\ beating' = TRUE /\ pulse' = IF beating THEN pulse ELSE "sent"
  BY DEF Page!Rejoined, Page!StartBeating
<1>4. Follows(s, queue[s], Page!Idle)
  <2>1. CASE desiredSuspended
    BY <1>2, <1>3, <2>1, Before, Requests DEF Follows
  <2>2. CASE ~desiredSuspended
    BY <1>2, <1>3, <2>2, Before, Requests DEF Follows
  <2> QED BY <2>1, <2>2
<1>5. /\ target # 0 /\ queue[s] \in Seq(Transition) /\ UNCHANGED <<target, desiredSuspended>>
      /\ queue[s] # <<>> => (LastOf(queue[s]) = "suspend" <=> ~visible)
  BY <1>1, Running
<1> QED BY <1>4, <1>5, Requests, FollowsKeeps

(* reconnect gives up.                                                       *)
LEMMA GivingUpKeeps ==
    ASSUME PageInv, Others, NEW s \in Page!Session, call[s] # Page!Idle, s = target, Page!GiveUp(s),
           queue' = queue, call' = [call EXCEPT ![s] = Page!Idle]
    PROVE  PageInv'
<1>1. CASE desiredSuspended
  <2>1. /\ stage' = "suspended" /\ beating' = FALSE /\ pulse' = "none"
        /\ UNCHANGED <<target, desiredSuspended, disconnectConfirmed>>
    BY <1>1 DEF Page!GiveUp, Page!StopBeating
  <2>2. Moved(s, queue[s], Page!Idle) /\ desiredSuspended = ~visible
    BY Running
  <2>3. Follows(s, queue[s], Page!Idle)
    BY <1>1, <2>1, <2>2, Before, Requests DEF Follows
  <2>4. /\ target # 0 /\ queue[s] \in Seq(Transition)
        /\ queue[s] # <<>> => (LastOf(queue[s]) = "suspend" <=> ~visible)
    BY Running
  <2> QED BY <2>1, <2>3, <2>4, Requests, FollowsKeeps
<1>2. CASE ~desiredSuspended
  <2>1. Page!Reset /\ stage' = "suspended"
    BY <1>2 DEF Page!GiveUp
  <2> QED BY <2>1, Running, ResetKeeps
<1> QED BY <1>1, <1>2

(* The answer to a transition's request.                                     *)
LEMMA AnswerStep == ASSUME PageInv, NEW s \in Page!Session, Page!Answer(s) PROVE PageInv'
<1>1. /\ call[s].reply # "none" /\ queue' = queue /\ call' = [call EXCEPT ![s] = Page!Idle]
      /\ UNCHANGED <<visible, started, counted, strays, events, faults>>
  BY DEF Page!Answer, Page!Await
<1>2. call[s] # Page!Idle
  BY <1>1 DEF Page!Idle
<1>3. Others
  BY <1>1 DEF Others, PageInv, PageTypes
<1>4. CASE /\ call[s].on = "disconnect" /\ Page!Disconnected(s, call[s].reply = "ok")
           /\ UNCHANGED <<target, desiredSuspended, beating, pulse>>
  <2>1. (call[s].reply = "ok") \in BOOLEAN
    OBVIOUS
  <2> QED BY <1>1, <1>3, <1>4, <2>1, DisconnectedKeeps
<1>5. CASE /\ call[s].on = "reconnect" /\ UNCHANGED <<target, desiredSuspended>>
           /\ IF s = target THEN Page!Rejoined(s) ELSE UNCHANGED <<stage, disconnectConfirmed, beating, pulse>>
  <2>1. CASE s = target
    BY <1>1, <1>3, <1>5, <2>1, RejoinedKeeps
  <2>2. CASE s # target
    <3>1. UNCHANGED Page!controller
      BY <1>5, <2>2 DEF Page!controller
    <3> QED BY <1>1, <1>2, <1>3, <2>2, <3>1, Running, Requests, StrangersKeep
  <2> QED BY <2>1, <2>2
<1>6. CASE call[s].on = "reconnect" /\ IF s = target THEN Page!GiveUp(s) ELSE UNCHANGED Page!controller
  <2>1. CASE s = target
    BY <1>1, <1>2, <1>3, <1>6, <2>1, GivingUpKeeps
  <2>2. CASE s # target
    <3>1. UNCHANGED Page!controller
      BY <1>6, <2>2
    <3> QED BY <1>1, <1>2, <1>3, <2>2, <3>1, Running, Requests, StrangersKeep
  <2> QED BY <2>1, <2>2
<1> QED BY <1>4, <1>5, <1>6 DEF Page!Answer

(* A request fails.                                                          *)
LEMMA FailStep == ASSUME PageInv, NEW s \in Page!Session, Page!Fail(s) PROVE PageInv'
<1>1. /\ call[s].on \in {"disconnect", "reconnect"} /\ queue' = queue
      /\ UNCHANGED <<visible, started, counted, events>>
      /\ faults < MaxFaults /\ faults' = faults + 1
      /\ strays' = strays \/ strays' = strays \cup {<<s, call[s].on>>}
  BY DEF Page!Fail, Page!Fault
<1>2. call[s] # Page!Idle
  BY <1>1, Requests
<1>3. Others
  <2>1. faults' \in 0..MaxFaults
    BY <1>1, PageBounds DEF PageInv, PageTypes
  <2>2. strays' \subseteq Page!Session \X {"disconnect", "reconnect"}
    BY <1>1 DEF PageInv, PageTypes
  <2> QED BY <1>1, <2>1, <2>2 DEF Others
<1>4. CASE /\ call[s].on = "disconnect" /\ Page!Await(s, Page!Idle) /\ Page!Disconnected(s, FALSE)
           /\ UNCHANGED <<target, desiredSuspended, beating, pulse>>
  <2>1. call' = [call EXCEPT ![s] = Page!Idle]
    BY <1>4 DEF Page!Await
  <2> QED BY <1>1, <1>3, <1>4, <2>1, DisconnectedKeeps
<1>5. CASE s # target /\ Page!Await(s, Page!Idle) /\ UNCHANGED Page!controller
  <2>1. call' = [call EXCEPT ![s] = Page!Idle]
    BY <1>5 DEF Page!Await
  <2> QED BY <1>1, <1>2, <1>3, <1>5, <2>1, Running, Requests, StrangersKeep
<1>6. CASE s = target /\ Page!Await(s, Page!Idle) /\ Page!GiveUp(s)
  <2>1. call' = [call EXCEPT ![s] = Page!Idle]
    BY <1>6 DEF Page!Await
  <2> QED BY <1>1, <1>2, <1>3, <1>6, <2>1, GivingUpKeeps
<1>7. CASE /\ s = target /\ call[s].on = "reconnect" /\ Page!Retryable(s)
           /\ Page!Request(s, "retry", call[s].attempt) /\ UNCHANGED Page!controller
  <2> DEFINE c == [on |-> "retry", attempt |-> call[s].attempt, reply |-> "none"]
  <2>1. call' = [call EXCEPT ![s] = c] /\ call[s].attempt < MaxAttempts /\ ~desiredSuspended
    BY <1>7 DEF Page!Request, Page!Await, Page!Retryable
  <2>2. call[s].attempt \in 0..MaxAttempts
    BY <1>2, Running
  <2>3. c \in Call /\ c.on = "retry" /\ c.attempt < MaxAttempts /\ c # Page!Idle
    BY <2>1, <2>2 DEF Call, Page!Idle
  <2> HIDE DEF c
  <2>4. Moved(s, queue[s], c)
    BY <1>1, <2>1 DEF Moved, PageInv, Chained
  <2>5. /\ target # 0 /\ desiredSuspended = ~visible /\ queue[s] \in Seq(Transition)
        /\ queue[s] # <<>> => (LastOf(queue[s]) = "suspend" <=> ~visible)
        /\ stage = "resuming"
    BY <1>2, <1>7, Running
  <2>6. UNCHANGED <<target, stage, desiredSuspended, disconnectConfirmed, beating, pulse>>
    BY <1>7 DEF Page!controller
  <2>7. Follows(s, queue[s], c)
    BY <2>1, <2>3, <2>4, <2>5, <2>6, Before DEF Follows
  <2> QED BY <1>3, <1>7, <2>3, <2>5, <2>6, <2>7, FollowsKeeps
<1> QED BY <1>4, <1>5, <1>6, <1>7 DEF Page!Fail

(* The pause before another attempt ends.                                    *)
LEMMA RetryStep == ASSUME PageInv, NEW s \in Page!Session, Page!Retry(s) PROVE PageInv'
<1>1. call[s].on = "retry" /\ queue' = queue /\ UNCHANGED <<visible, started, counted, strays, events, faults>>
  BY DEF Page!Retry
<1>2. call[s] # Page!Idle
  BY <1>1, Requests
<1>3. Others
  BY <1>1 DEF Others, PageInv, PageTypes
<1>4. CASE s # target /\ Page!Await(s, Page!Idle) /\ UNCHANGED Page!controller
  <2>1. call' = [call EXCEPT ![s] = Page!Idle]
    BY <1>4 DEF Page!Await
  <2> QED BY <1>1, <1>2, <1>3, <1>4, <2>1, Running, Requests, StrangersKeep
<1>5. CASE s = target /\ Page!Await(s, Page!Idle) /\ Page!GiveUp(s)
  <2>1. call' = [call EXCEPT ![s] = Page!Idle]
    BY <1>5 DEF Page!Await
  <2> QED BY <1>1, <1>2, <1>3, <1>5, <2>1, GivingUpKeeps
<1>6. CASE /\ s = target /\ ~desiredSuspended
           /\ Page!Request(s, "reconnect", call[s].attempt + 1) /\ UNCHANGED Page!controller
  <2> DEFINE c == [on |-> "reconnect", attempt |-> call[s].attempt + 1, reply |-> "none"]
  <2>1. call' = [call EXCEPT ![s] = c]
    BY <1>6 DEF Page!Request, Page!Await
  <2>2. call[s].attempt \in 0..MaxAttempts /\ call[s].attempt < MaxAttempts
    BY <1>1, <1>2, Running
  <2>3. c \in Call /\ c.on = "reconnect" /\ c # Page!Idle
    <3>1. call[s].attempt + 1 \in 0..MaxAttempts
      BY <2>2, PageBounds
    <3> QED BY <3>1 DEF Call, Page!Idle
  <2> HIDE DEF c
  <2>4. Moved(s, queue[s], c)
    BY <1>1, <2>1 DEF Moved, PageInv, Chained
  <2>5. /\ target # 0 /\ desiredSuspended = ~visible /\ queue[s] \in Seq(Transition)
        /\ queue[s] # <<>> => (LastOf(queue[s]) = "suspend" <=> ~visible)
        /\ stage = "resuming"
    BY <1>1, <1>2, <1>6, Running
  <2>6. UNCHANGED <<target, stage, desiredSuspended, disconnectConfirmed, beating, pulse>>
    BY <1>6 DEF Page!controller
  <2>7. Follows(s, queue[s], c)
    BY <1>6, <2>3, <2>4, <2>5, <2>6, Before DEF Follows
  <2> QED BY <1>3, <1>6, <2>3, <2>5, <2>6, <2>7, FollowsKeeps
<1> QED BY <1>4, <1>5, <1>6 DEF Page!Retry

(* The page keeps what it intends, whatever comes when.                      *)
LEMMA PageStep == ASSUME PageInv, [Page!Next]_(Page!vars) PROVE PageInv'
<1>1. CASE Page!Start
  BY <1>1, StartStep
<1>2. CASE Page!Leave
  BY <1>2, LeaveStep
<1>3. CASE Page!Suspend \/ Page!Resume
  BY <1>3, HideStep
<1>4. CASE Page!Beat
  BY <1>4, BeatStep
<1>5. ASSUME NEW s \in Page!Session,
             \/ Page!Begin(s) \/ Page!Answer(s) \/ Page!Fail(s) \/ Page!Retry(s) \/ Page!Serve(s)
      PROVE  PageInv'
  BY <1>5, BeginStep, AnswerStep, FailStep, RetryStep, ServeStep
<1>6. ASSUME NEW s \in Page!Session,
             \/ Page!CountOut(s) \/ \E kind \in {"disconnect", "reconnect"} : Page!ServeStray(s, kind)
      PROVE  PageInv'
  BY <1>6, OutsideStep
<1>7. CASE Page!Pulse \/ Page!PulseFails \/ Page!ServePulse
  <2>1. CASE MaxSessions = 0
    <3>1. target = 0 /\ desiredSuspended \in BOOLEAN
      BY <2>1 DEF PageInv, PageTypes
    <3>2. ~beating /\ pulse = "none"
      BY <3>1 DEF PageInv, Page!HiddenIsSilent
    <3> QED BY <1>7, <3>2 DEF Page!Pulse, Page!PulseFails, Page!ServePulse
  <2>2. CASE MaxSessions # 0
    <3>1. 1 \in Page!Session
      BY <2>2, PageBounds DEF Page!Session
    <3> QED BY <1>7, <3>1, OutsideStep
  <2> QED BY <2>1, <2>2
<1>8. CASE UNCHANGED Page!vars
  <2>1. UNCHANGED <<visible, started, target, stage, desiredSuspended, disconnectConfirmed, beating, pulse,
                    queue, call, counted, strays, events, faults>>
    BY <1>8 DEF Page!vars, Page!controller
  <2> QED BY <2>1 DEF PageInv, PageTypes, Chained, Intent, Page!HiddenIsSilent, Page!SettlesAsAsked
<1> QED BY <1>1, <1>2, <1>3, <1>4, <1>5, <1>6, <1>7, <1>8 DEF Page!Next

(* What a session that was left may still do.                                *)
Inert ==
    \A s \in Page!Session : s # target /\ call'[s] # call[s] =>
        /\ call'[s].on \in {call[s].on, "nothing"}
        /\ UNCHANGED Page!controller

(* Only the session that the controller has goes on asking.                  *)
LEMMA InertStep == ASSUME Chained, Page!Next PROVE Inert
<1>1. ASSUME call' = call PROVE Inert
  BY <1>1 DEF Inert
<1>2. ASSUME NEW t \in Page!Session, NEW c, call' = [call EXCEPT ![t] = c],
             t = target \/ (c.on \in {call[t].on, "nothing"} /\ UNCHANGED Page!controller)
      PROVE  Inert
  <2>1. \A s \in Page!Session : s # t => call'[s] = call[s]
    BY <1>2 DEF Chained
  <2>2. call'[t] = c
    BY <1>2 DEF Chained
  <2> QED BY <1>2, <2>1, <2>2 DEF Inert
<1>3. CASE Page!Start \/ Page!Leave \/ Page!Suspend \/ Page!Resume \/ Page!Pulse \/ Page!PulseFails \/ Page!Beat \/ Page!ServePulse
  BY <1>1, <1>3 DEF Page!Start, Page!Leave, Page!Suspend, Page!Resume, Page!Pulse, Page!PulseFails, Page!Beat, Page!ServePulse
<1>4. ASSUME NEW t \in Page!Session, Page!CountOut(t) \/ \E kind \in {"disconnect", "reconnect"} : Page!ServeStray(t, kind)
      PROVE  Inert
  BY <1>1, <1>4 DEF Page!CountOut, Page!ServeStray
<1>5. ASSUME NEW t \in Page!Session, Page!Begin(t) PROVE Inert
  <2>1. CASE t # target
    BY <1>1, <1>5, <2>1 DEF Page!Begin
  <2>2. CASE t = target
    <3>1. call' = call \/ \E c : call' = [call EXCEPT ![t] = c]
      BY <1>5, <2>2 DEF Page!Begin, Page!BeginSuspend, Page!BeginResume, Page!BeginRecover, Page!Rejoin, Page!Request, Page!Await
    <3> QED BY <1>1, <1>2, <2>2, <3>1
  <2> QED BY <2>1, <2>2
<1>6. ASSUME NEW t \in Page!Session, Page!Answer(t) PROVE Inert
  <2>1. call' = [call EXCEPT ![t] = Page!Idle] /\ Page!Idle.on = "nothing"
    BY <1>6 DEF Page!Answer, Page!Await, Page!Idle
  <2>2. t # target => UNCHANGED Page!controller
    BY <1>6 DEF Page!Answer, Page!Disconnected, Page!controller
  <2> QED BY <1>2, <2>1, <2>2
<1>7. ASSUME NEW t \in Page!Session, Page!Fail(t) PROVE Inert
  <2>1. CASE t = target
    <3>1. \E c : call' = [call EXCEPT ![t] = c]
      BY <1>7 DEF Page!Fail, Page!Await, Page!Request
    <3> QED BY <1>2, <2>1, <3>1
  <2>2. CASE t # target
    <3>1. call' = [call EXCEPT ![t] = Page!Idle] /\ Page!Idle.on = "nothing"
      BY <1>7, <2>2 DEF Page!Fail, Page!Await, Page!Idle
    <3>2. UNCHANGED Page!controller
      BY <1>7, <2>2 DEF Page!Fail, Page!Disconnected, Page!controller
    <3> QED BY <1>2, <3>1, <3>2
  <2> QED BY <2>1, <2>2
<1>8. ASSUME NEW t \in Page!Session, Page!Retry(t) PROVE Inert
  <2>1. CASE t = target
    <3>1. \E c : call' = [call EXCEPT ![t] = c]
      BY <1>8 DEF Page!Retry, Page!Await, Page!Request
    <3> QED BY <1>2, <2>1, <3>1
  <2>2. CASE t # target
    <3>1. call' = [call EXCEPT ![t] = Page!Idle] /\ Page!Idle.on = "nothing" /\ UNCHANGED Page!controller
      BY <1>8, <2>2 DEF Page!Retry, Page!Await, Page!Idle
    <3> QED BY <1>2, <3>1
  <2> QED BY <2>1, <2>2
<1>9. ASSUME NEW t \in Page!Session, Page!Serve(t) PROVE Inert
  <2> DEFINE answer == IF counted[t] = "resolved" THEN "refused" ELSE "ok"
             c == [call[t] EXCEPT !.reply = answer]
  <2>1. call' = [call EXCEPT ![t].reply = answer] /\ UNCHANGED Page!controller /\ call[t] \in Call
    BY <1>9 DEF Page!Serve, Chained
  <2>2. call' = [call EXCEPT ![t] = c] /\ c.on = call[t].on
    BY <2>1 DEF Chained, Call
  <2> HIDE DEF c
  <2> QED BY <1>2, <2>1, <2>2
<1> QED BY <1>3, <1>4, <1>5, <1>6, <1>7, <1>8, <1>9 DEF Page!Next

(* In a behaviour of the whole either the clients exchange inputs or the     *)
(* page moves; the other stays as it began.                                  *)
MatchInv == IInv /\ ProtocolHolds /\ PageInv

(* So a step of either keeps what holds of both.                             *)
LEMMA MatchInvStep ==
    ASSUME MaxPrediction + MaxBatch <= MaxOutbound, MatchInv, [Exchanges(Next) \/ Turns(Page!Next)]_all
    PROVE  MatchInv'
<1> USE DEF MatchInv
<1>1. CASE Exchanges(Next)
  <2>1. Next /\ UNCHANGED page
    BY <1>1 DEF Exchanges
  <2>2. UNCHANGED Page!vars
    BY <2>1 DEF page, Page!vars, Page!controller
  <2>3. PageInv'
    BY <2>2, PageStep
  <2> QED BY <2>1, <2>3, InvStep, ProtocolStep
<1>2. CASE Turns(Page!Next)
  <2>1. Page!Next /\ UNCHANGED vars
    BY <1>2 DEF Turns
  <2>2. PageInv'
    BY <2>1, PageStep
  <2> QED BY <2>1, <2>2, InvStep, ProtocolStep
<1>3. CASE UNCHANGED all
  <2>1. UNCHANGED vars /\ UNCHANGED page
    BY <1>3 DEF all
  <2>2. UNCHANGED Page!vars
    BY <2>1 DEF page, Page!vars, Page!controller
  <2>3. PageInv'
    BY <2>2, PageStep
  <2> QED BY <2>1, <2>3, InvStep, ProtocolStep
<1> QED BY <1>1, <1>2, <1>3

(* Through replaced channels no input is lost or confirmed too early; and    *)
(* however a page is hidden and shown while requests are under way, lost or  *)
(* late, it is silent while it is hidden and settles on what was asked last. *)
(* A client that has committed is not needed any more by its peer.           *)
THEOREM MatchInvariantHolds ==
    ASSUME MaxPrediction + MaxBatch <= MaxOutbound
    PROVE  MatchSpec => [](MatchInvariant /\ PeerCanCommit)
<1>1. MatchInit => MatchInv
  <2>1. Init => ProtocolHolds
    BY DEF Init, ProtocolHolds
  <2> QED BY <2>1, InvInit, PageBegins DEF MatchInit, MatchInv
<1>2. MatchInv /\ [Exchanges(Next) \/ Turns(Page!Next)]_all => MatchInv'
  BY MatchInvStep
<1>3. ASSUME MatchInv PROVE MatchInvariant
  <2>1. ExchangeInvariant
    BY <1>3, InvIsExchange DEF MatchInv
  <2>2. Page!TypeOK /\ Page!HiddenIsSilent /\ Page!SettlesAsAsked
    BY <1>3, PageTyped DEF MatchInv, PageInv
  <2> QED BY <2>1, <2>2 DEF MatchInvariant
<1>4. MatchInv => MatchInvariant /\ PeerCanCommit
  BY <1>3, PeerIsFree DEF MatchInv
<1> QED BY <1>1, <1>2, <1>4, PTL DEF MatchSpec

(* A transition of a session that was left asks nothing more of the server,  *)
(* and what it still learns does not reach the controller: every await is    *)
(* followed by isCurrent.                                                    *)
THEOREM LeftIsInertHolds ==
    ASSUME MaxPrediction + MaxBatch <= MaxOutbound
    PROVE  MatchSpec => LeftIsInert
<1>1. MatchInit => MatchInv
  <2>1. Init => ProtocolHolds
    BY DEF Init, ProtocolHolds
  <2> QED BY <2>1, InvInit, PageBegins DEF MatchInit, MatchInv
<1>2. MatchInv /\ [Exchanges(Next) \/ Turns(Page!Next)]_all => MatchInv'
  BY MatchInvStep
<1>3. MatchInv /\ [Exchanges(Next) \/ Turns(Page!Next)]_all =>
        [\A s \in Page!Session : s # target /\ call'[s] # call[s] =>
            /\ call'[s].on \in {call[s].on, "nothing"}
            /\ UNCHANGED Page!controller]_(Page!vars)
  <2> SUFFICES ASSUME MatchInv, [Exchanges(Next) \/ Turns(Page!Next)]_all, ~UNCHANGED Page!vars
               PROVE  Inert
    BY DEF Inert
  <2>1. UNCHANGED page => UNCHANGED Page!vars
    BY DEF page, Page!vars, Page!controller
  <2>2. Page!Next
    BY <2>1 DEF Exchanges, Turns, all
  <2> QED BY <2>2, InertStep DEF MatchInv, PageInv
<1> QED BY <1>1, <1>2, <1>3, PTL DEF MatchSpec, LeftIsInert, Page!LeftIsInert
=============================================================================
