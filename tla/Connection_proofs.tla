-------------------------- MODULE Connection_proofs --------------------------
(* How two clients come to play over a channel, for all bounds.  The mailbox
   and the negotiation (Signalling): no signal of a player's attempt is skipped,
   a description is set once, and what is published for the current attempt is
   not cleared.  The exchange of checkpoints (RecoveryHandshake): a client resumes
   only together with its peer and in the same state.  MCConnection runs one or
   the other, and each has an inductive invariant of its own. *)
EXTENDS MCConnection, TLAPS

-----------------------------------------------------------------------------
(* Signalling: the negotiation of a connection over the mailbox.           *)

Signal == [kind : {"offer", "answer", "candidate"}, conn : Nat, msg : Nat]
Row == [id : Nat, attempt : Nat, from : Player, signal : Signal]
Request ==
    [from : Player, attempt : Nat, signal : Signal, try : Nat, stage : {"sent", "valid", "begun"},
     full : BOOLEAN, exists : BOOLEAN, id : {None}]

WireTypes ==
    /\ current \in Nat /\ nextId \in Nat \ {0} /\ fresh \in [conn : Nat, msg : Nat]
    /\ rows \in SUBSET Row /\ requests \in SUBSET Request
    /\ clearing \in [Player -> Nat] /\ attempt \in [Player -> Nat]
    /\ conn \in [Player -> Nat] /\ remote \in [Player -> Nat] /\ described \in [Player -> Nat]
    /\ tries \in [Player -> Nat] /\ waits \in [Player -> Nat] /\ cursor \in [Player -> Nat]
    /\ out \in [Player -> Seq(Signal)]
    /\ held \in [Player -> SUBSET Row] /\ batch \in [Player -> SUBSET Row] /\ got \in [Player -> SUBSET Nat]
    /\ answer \in [Player -> {"none", "awaited", "ok", "error"}]
    /\ phase \in [Player -> {"connecting", "open", "recovering", "failed"}]
    /\ gathered \in [Player -> BOOLEAN] /\ heard \in [Player -> BOOLEAN]

(* What a player has read and not yet handled; all that carries a signal;  *)
(* and the offers among the signals of either.                             *)
Unread(p) == held[p] \cup batch[p]
Envelopes == rows \cup requests \cup Unread(P1) \cup Unread(P2)
Elements(s) == {s[i] : i \in 1..Len(s)}
Offers ==
    {s \in Signal : /\ s.kind = "offer"
                    /\ (\E e \in Envelopes : e.signal = s) \/ (\E p \in Player : s \in Elements(out[p]))}

(* Ids grow, and a message is in the mailbox once.                         *)
Numbered ==
    /\ \A row \in rows : 0 < row.id /\ row.id < nextId /\ row.attempt <= current
    /\ \A row \in rows, other \in rows :
          row.id = other.id \/ (row.from = other.from /\ row.signal.msg = other.signal.msg) => row = other
    /\ \A r \in requests : r.attempt <= current

(* The attempts the players use, and which of them is being cleared: a     *)
(* player who is open or recovering has a peer that is no further behind.  *)
Attempts ==
    \A p \in Player :
        /\ attempt[p] <= current
        /\ phase[p] \in {"open", "recovering"} => attempt[p] <= attempt[Peer(p)]
        /\ clearing[p] # None =>
              /\ clearing[p] = current
              /\ phase[p] \in {"recovering", "failed"}
              /\ phase[Peer(p)] \in {"open", "recovering"} => attempt[Peer(p)] < current

(* The publish chain of a player.                                          *)
Publishing ==
    \A p \in Player :
        /\ answer[p] # "none" => out[p] # <<>>
        /\ waits[p] <= Len(out[p])
        /\ tries[p] <= PublishAttempts
        /\ out[p] # <<>> \/ phase[p] = "connecting" => tries[p] < PublishAttempts

(* Every connection has one offer, of the initiator and of one attempt.    *)
Offering ==
    /\ \A s \in Offers : 0 < s.conn /\ s.conn < fresh.conn
    /\ \A s \in Offers, t \in Offers : s.conn = t.conn => s.msg = t.msg
    /\ \A e \in Envelopes : IsOffer(e) /\ e.signal.conn = conn[P1] => e.attempt = attempt[P1]
    /\ \A s \in Elements(out[P2]) : s.kind # "offer"
    /\ conn[P1] # None /\ conn[P1] < fresh.conn /\ conn[P2] < fresh.conn
    /\ conn[P2] = conn[P1] => attempt[P2] = attempt[P1]

(* What a player has read is of its attempt and of its peer, and stays in  *)
(* the mailbox while the attempt is the current one; it skips nothing.     *)
Reading ==
    \A p \in Player :
        /\ \A row \in Unread(p) : row.attempt = attempt[p] /\ row.from = Peer(p) /\ row.id < nextId
        /\ attempt[p] = current => Unread(p) \subseteq rows
        /\ \A row \in held[p] : row.id <= cursor[p]
        /\ cursor[p] < nextId
        /\ \A row \in rows : row.attempt = attempt[p] /\ row.from = Peer(p) =>
              /\ row.id <= cursor[p] => row.id \in got[p]
              /\ row.id > cursor[p] => \A b \in batch[p] : row.id <= b.id => row \in batch[p]

(* A description is set once: the answerer's with the one offer of its     *)
(* connection, which it has read and will not read again.                  *)
Initiated ==
    /\ remote[P1] \in {None, conn[P1]} /\ described[P1] = (IF remote[P1] = None THEN 0 ELSE 1)

Taken ==
    attempt[P2] = current =>
        \E row \in rows : /\ IsOffer(row) /\ row.from = P1 /\ row.attempt = attempt[P2]
                          /\ row.signal.conn = conn[P2] /\ row.id <= cursor[P2]

Describing ==
    /\ remote[P2] = conn[P2] /\ described[P2] = (IF conn[P2] = None THEN 0 ELSE 1)
    /\ conn[P2] = None => \A row \in batch[P2] : IsFirst(row, batch[P2]) => IsOffer(row)
    /\ conn[P2] # None =>
          /\ \A row \in batch[P2] : ~(IsOffer(row) /\ row.signal.conn = conn[P2])
          /\ Taken
    /\ \A row \in batch[P2], other \in batch[P2] :
          IsOffer(row) /\ IsOffer(other) /\ row.signal.conn = other.signal.conn => row = other

Negotiating ==
    WireTypes /\ Numbered /\ Attempts /\ Publishing /\ Offering /\ Reading /\ Initiated /\ Describing

-----------------------------------------------------------------------------
(* There are two players, and each is the other's peer.                    *)
LEMMA Sides ==
    /\ P1 # P2 /\ P1 \in Player /\ P2 \in Player /\ Peer(P1) = P2 /\ Peer(P2) = P1
    /\ \A p \in Player : p = P1 \/ p = P2
    /\ \A p \in Player : Peer(p) \in Player /\ Peer(p) # p /\ Peer(Peer(p)) = p
BY SignallingAssumption DEF Player, Peer

(* The bounds on the publishing of a signal.                               *)
LEMMA SomeAttempts == PublishAttempts \in Nat /\ PublishAttempts > 0 /\ None = 0
BY SignallingAssumption DEF None

(* The signals of a chain whose first is done, or which has one more.      *)
LEMMA ChainElements ==
    ASSUME NEW S, NEW s \in Seq(S)
    PROVE  /\ s # <<>> => /\ Head(s) \in Elements(s) /\ Elements(Tail(s)) \subseteq Elements(s)
                          /\ Tail(s) \in Seq(S) /\ Len(Tail(s)) = Len(s) - 1 /\ Len(s) > 0
           /\ \A x \in S : /\ Append(s, x) \in Seq(S) /\ Len(Append(s, x)) = Len(s) + 1
                           /\ Append(s, x) # <<>>
                           /\ Elements(Append(s, x)) \subseteq Elements(s) \cup {x}
           /\ Len(s) \in Nat
           /\ Elements(s) \subseteq S
<1>1. ASSUME s # <<>> PROVE /\ Head(s) \in Elements(s) /\ Elements(Tail(s)) \subseteq Elements(s)
                            /\ Tail(s) \in Seq(S) /\ Len(Tail(s)) = Len(s) - 1 /\ Len(s) > 0
  <2>1. Len(s) \in Nat /\ Len(s) > 0 /\ Tail(s) \in Seq(S) /\ Len(Tail(s)) = Len(s) - 1
    BY <1>1
  <2>2. Head(s) = s[1] /\ 1 \in 1..Len(s)
    BY <1>1, <2>1
  <2>3. ASSUME NEW i \in 1..Len(Tail(s)) PROVE Tail(s)[i] \in Elements(s)
    <3>1. Tail(s)[i] = s[i + 1] /\ i + 1 \in 1..Len(s)
      BY <1>1, <2>1
    <3> QED BY <3>1 DEF Elements
  <2> QED BY <2>1, <2>2, <2>3 DEF Elements
<1>2. ASSUME NEW x \in S
      PROVE  /\ Append(s, x) \in Seq(S) /\ Len(Append(s, x)) = Len(s) + 1
             /\ Append(s, x) # <<>>
             /\ Elements(Append(s, x)) \subseteq Elements(s) \cup {x}
  <2>1. Append(s, x) \in Seq(S) /\ Len(Append(s, x)) = Len(s) + 1 /\ Append(s, x) # <<>> /\ Len(s) \in Nat
    OBVIOUS
  <2>2. ASSUME NEW i \in 1..Len(Append(s, x)) PROVE Append(s, x)[i] \in Elements(s) \cup {x}
    <3>1. CASE i \in 1..Len(s)
      <4>1. Append(s, x)[i] = s[i]
        BY <3>1
      <4> QED BY <3>1, <4>1 DEF Elements
    <3>2. CASE i = Len(s) + 1
      <4>1. Append(s, x)[i] = x
        BY <3>2
      <4> QED BY <4>1
    <3> QED BY <2>1, <3>1, <3>2
  <2> QED BY <2>1, <2>2 DEF Elements
<1>3. Len(s) \in Nat /\ Elements(s) \subseteq S
  BY DEF Elements
<1> QED BY <1>1, <1>2, <1>3

(* The next message id.                                                    *)
LEMMA FreshTypes ==
    ASSUME WireTypes, fresh' = [fresh EXCEPT !.msg = fresh.msg + 1]
    PROVE  fresh' \in [conn : Nat, msg : Nat] /\ fresh'.conn = fresh.conn /\ fresh'.msg = fresh.msg + 1
<1>1. fresh \in [conn : Nat, msg : Nat]
  BY DEF WireTypes
<1>2. fresh.msg + 1 \in Nat /\ fresh.conn \in Nat
  BY <1>1
<1> QED BY <1>1, <1>2

(* A request that is counted again, with another stage.                    *)
LEMMA RequestTypes ==
    ASSUME NEW r \in Request, NEW b \in BOOLEAN, NEW c \in BOOLEAN
    PROVE  /\ [r EXCEPT !.stage = "valid"] \in Request
           /\ [r EXCEPT !.stage = "begun", !.full = b, !.exists = c] \in Request
           /\ \A s \in {[r EXCEPT !.stage = "valid"], [r EXCEPT !.stage = "begun", !.full = b, !.exists = c]} :
                 s.attempt = r.attempt /\ s.signal = r.signal /\ s.from = r.from /\ s.id = r.id
BY DEF Request

(* The publishing of a signal keeps the types.                             *)
LEMMA PublishTypes ==
    ASSUME WireTypes, NEW p \in Player, Send(p) \/ Receive(p) \/ LoseAnswer(p)
    PROVE  WireTypes'
<1>1. CASE Send(p)
  <2>1. Head(out[p]) \in Signal
    <3>1. out[p] \in Seq(Signal) /\ out[p] # <<>>
      BY <1>1 DEF Send, WireTypes
    <3>2. Head(out[p]) \in Elements(out[p]) /\ Elements(out[p]) \subseteq Signal
      BY <3>1, ChainElements
    <3> QED BY <3>2
  <2>2. [from |-> p, attempt |-> attempt[p], signal |-> Head(out[p]), try |-> tries[p], stage |-> "sent",
         full |-> FALSE, exists |-> FALSE, id |-> None] \in Request
    BY <2>1 DEF WireTypes, Request
  <2> QED BY <1>1, <2>2 DEF Send, WireTypes, receiver, link
<1>2. CASE Receive(p)
  <2>1. out[p] \in Seq(Signal) /\ tries[p] \in Nat /\ waits[p] \in Nat
    BY DEF WireTypes
  <2>2. CASE answer[p] = "ok"
    <3>1. out' = [out EXCEPT ![p] = Tail(out[p])] /\ tries' = [tries EXCEPT ![p] = 0]
          /\ waits' = [waits EXCEPT ![p] = IF waits[p] > 0 THEN waits[p] - 1 ELSE 0] /\ phase' = phase
          /\ answer' = [answer EXCEPT ![p] = "none"]
      BY <1>2, <2>2 DEF Receive
    <3>2. out' \in [Player -> Seq(Signal)]
      <4>1. CASE out[p] = <<>>
        <5>1. Tail(<<>>) \in Seq(Signal)
          OBVIOUS
        <5> QED BY <3>1, <4>1, <5>1 DEF WireTypes
      <4>2. CASE out[p] # <<>>
        BY <2>1, <3>1, <4>2, ChainElements DEF WireTypes
      <4> QED BY <4>1, <4>2
    <3>3. tries' \in [Player -> Nat] /\ waits' \in [Player -> Nat]
      BY <2>1, <3>1 DEF WireTypes
    <3> QED BY <1>2, <3>1, <3>2, <3>3 DEF Receive, WireTypes, mailbox, receiver
  <2>3. CASE answer[p] # "ok"
    <3>1. /\ out' = [out EXCEPT ![p] = IF tries[p] + 1 < PublishAttempts THEN out[p] ELSE <<>>]
          /\ tries' = [tries EXCEPT ![p] = tries[p] + 1]
          /\ waits' = [waits EXCEPT ![p] = IF tries[p] + 1 < PublishAttempts THEN waits[p] ELSE 0]
          /\ phase' = [phase EXCEPT ![p] =
                 IF tries[p] + 1 < PublishAttempts \/ phase[p] # "connecting" THEN phase[p] ELSE "failed"]
          /\ answer' = [answer EXCEPT ![p] = "none"]
      BY <1>2, <2>3 DEF Receive
    <3>2. <<>> \in Seq(Signal)
      OBVIOUS
    <3>3. out' \in [Player -> Seq(Signal)] /\ tries' \in [Player -> Nat] /\ waits' \in [Player -> Nat]
          /\ phase' \in [Player -> {"connecting", "open", "recovering", "failed"}]
          /\ answer' \in [Player -> {"none", "awaited", "ok", "error"}]
      BY <2>1, <3>1, <3>2 DEF WireTypes
    <3> QED BY <1>2, <3>1, <3>3 DEF Receive, WireTypes, mailbox, receiver
  <2> QED BY <2>2, <2>3
<1>3. CASE LoseAnswer(p)
  BY <1>3 DEF LoseAnswer, Spend, WireTypes, receiver, link
<1> QED BY <1>1, <1>2, <1>3

(* So does the serving of a publish request.                               *)
LEMMA ServeTypes ==
    ASSUME WireTypes, NEW r \in requests, Validate(r) \/ Begin(r) \/ Insert(r)
    PROVE  WireTypes'
<1>1. r \in Request /\ requests \subseteq Request
  BY DEF WireTypes
<1>2. \A result \in {"ok", "error"} : Answered(r, result) => answer' \in [Player -> {"none", "awaited", "ok", "error"}]
  <2> SUFFICES ASSUME NEW result \in {"ok", "error"}, Answered(r, result)
               PROVE  answer' \in [Player -> {"none", "awaited", "ok", "error"}]
    OBVIOUS
  <2> DEFINE v == IF Awaited(r) THEN result ELSE answer[r.from]
  <2>1. r.from \in Player /\ answer' = [answer EXCEPT ![r.from] = v]
    BY <1>1 DEF Answered, Request
  <2>2. v \in {"none", "awaited", "ok", "error"}
    BY <2>1 DEF WireTypes
  <2> HIDE DEF v
  <2> QED BY <2>1, <2>2 DEF WireTypes
<1>3. CASE Validate(r)
  <2>1. [r EXCEPT !.stage = "valid"] \in Request
    BY <1>1, RequestTypes
  <2>2. requests' \in SUBSET Request
    BY <1>1, <1>3, <2>1 DEF Validate, Moved
  <2>3. answer' \in [Player -> {"none", "awaited", "ok", "error"}]
    BY <1>2, <1>3 DEF Validate, WireTypes
  <2> QED BY <1>3, <2>2, <2>3 DEF Validate, WireTypes, receiver, link
<1>4. CASE Begin(r)
  <2> DEFINE full == Cardinality(rows) >= MaxMessages
             exists == SameMessage(r) # {}
  <2>1. requests' = Moved(r, [r EXCEPT !.stage = "begun", !.full = full, !.exists = exists])
    BY <1>4 DEF Begin
  <2>2. full \in BOOLEAN /\ exists \in BOOLEAN
    OBVIOUS
  <2> HIDE DEF full, exists
  <2>3. requests' \in SUBSET Request
    <3>1. [r EXCEPT !.stage = "begun", !.full = full, !.exists = exists] \in Request
      BY <1>1, <2>2, RequestTypes
    <3> QED BY <1>1, <2>1, <3>1 DEF Moved
  <2> QED BY <1>4, <2>3 DEF Begin, WireTypes, sender, receiver, link
<1>5. CASE Insert(r)
  <2>1. requests' \in SUBSET Request /\ UNCHANGED <<current, clearing, out, tries, waits, gathered, receiver, link, fresh>>
    BY <1>1, <1>5 DEF Insert
  <2>2. answer' \in [Player -> {"none", "awaited", "ok", "error"}]
    BY <1>2, <1>5 DEF Insert
  <2>3. r.id = None /\ nextId \in Nat \ {0}
    BY <1>1 DEF Request, WireTypes
  <2>4. /\ nextId' = nextId \/ nextId' = nextId + 1
        /\ \/ rows' = rows
           \/ rows' = rows \cup {[id |-> nextId, attempt |-> r.attempt, from |-> r.from, signal |-> r.signal]}
    BY <1>5, <2>3 DEF Insert
  <2>5. [id |-> nextId, attempt |-> r.attempt, from |-> r.from, signal |-> r.signal] \in Row
    BY <1>1, <2>3 DEF Request, Row
  <2>6. nextId' \in Nat \ {0} /\ rows' \in SUBSET Row
    BY <2>3, <2>4, <2>5 DEF WireTypes
  <2> QED BY <2>1, <2>2, <2>6 DEF WireTypes, receiver, link
<1> QED BY <1>3, <1>4, <1>5

(* So does the reading of the mailbox.                                     *)
LEMMA ReadTypes ==
    ASSUME WireTypes, NEW p \in Player, Poll(p) \/ Hold(p) \/ SettleOffer(p) \/ PollRefused(p)
    PROVE  WireTypes'
<1>1. Mail(p) \in SUBSET Row /\ Ids(Mail(p)) \subseteq Nat /\ held[p] \in SUBSET Row /\ got[p] \in SUBSET Nat
  BY DEF Mail, WireTypes, Ids, Row
<1>2. \A row \in Row : row.id \in Nat
  BY DEF Row
<1>3. CASE Poll(p)
  BY <1>1, <1>3 DEF Poll, WireTypes, mailbox, sender, link
<1>4. CASE Hold(p)
  <2>1. PICK last \in Mail(p) : cursor' = [cursor EXCEPT ![p] = last.id]
    BY <1>4 DEF Hold
  <2>2. cursor' \in [Player -> Nat]
    BY <1>1, <1>2, <2>1 DEF WireTypes
  <2> QED BY <1>1, <1>4, <2>2 DEF Hold, WireTypes, mailbox, sender, link
<1>5. CASE SettleOffer(p)
  <2>1. PICK last \in held[p] \cup Mail(p) : cursor' = [cursor EXCEPT ![p] = last.id]
    BY <1>5 DEF SettleOffer
  <2>2. cursor' \in [Player -> Nat]
    BY <1>1, <1>2, <2>1 DEF WireTypes
  <2>3. PICK latest \in held[p] \cup Mail(p) :
            batch' = [batch EXCEPT ![p] = {row \in held[p] \cup Mail(p) : row.id >= latest.id}]
    BY <1>5 DEF SettleOffer
  <2>4. batch' \in [Player -> SUBSET Row]
    <3>1. {row \in held[p] \cup Mail(p) : row.id >= latest.id} \in SUBSET Row
      BY <1>1
    <3> QED BY <2>3, <3>1 DEF WireTypes
  <2>5. held' \in [Player -> SUBSET Row] /\ got' \in [Player -> SUBSET Nat]
    BY <1>1, <1>5 DEF SettleOffer, WireTypes
  <2> QED BY <1>5, <2>2, <2>4, <2>5 DEF SettleOffer, WireTypes, mailbox, sender, link
<1>6. CASE PollRefused(p)
  BY <1>6 DEF PollRefused, WireTypes, mailbox, sender, receiver
<1> QED BY <1>3, <1>4, <1>5, <1>6

(* So does the handling of a signal.                                       *)
LEMMA HandleTypes == ASSUME WireTypes, NEW p \in Player, Handle(p) PROVE WireTypes'
<1>1. PICK row \in batch[p] :
          /\ cursor' = [cursor EXCEPT ![p] = IF row.id > cursor[p] THEN row.id ELSE cursor[p]]
          /\ got' = [got EXCEPT ![p] = got[p] \cup {row.id}]
          /\ batch' = [batch EXCEPT ![p] = batch[p] \ {row}]
          /\ CASE row.attempt # attempt[p] -> Refuse(p)
               [] IsOffer(row) -> HandleOffer(p, row.signal.conn)
               [] row.signal.kind = "answer" -> HandleAnswer(p, row.signal.conn)
               [] OTHER -> HandleCandidate(p, row.signal.conn)
  BY DEF Handle
<1>2. UNCHANGED <<mailbox, held, tries, gathered, answer, attempt, recovered>>
  BY DEF Handle
<1>3. row \in Row /\ row.id \in Nat /\ row.signal.conn \in Nat /\ cursor[p] \in Nat
  <2>1. batch[p] \in SUBSET Row /\ cursor[p] \in Nat
    BY DEF WireTypes
  <2>2. row \in Row
    BY <2>1
  <2>3. row.id \in Nat /\ row.signal \in Signal
    BY <2>2 DEF Row
  <2> QED BY <2>1, <2>2, <2>3 DEF Signal
<1>4. cursor' \in [Player -> Nat] /\ got' \in [Player -> SUBSET Nat] /\ batch' \in [Player -> SUBSET Row]
  BY <1>1, <1>3 DEF WireTypes
<1> DEFINE k == row.signal.conn
<1>5. \/ Refuse(p) \/ HandleOffer(p, k) \/ HandleAnswer(p, k) \/ HandleCandidate(p, k)
  BY <1>1
<1>6. k \in Nat
  BY <1>3
<1> HIDE DEF k
<1> DEFINE Rest ==
        /\ fresh' \in [conn : Nat, msg : Nat] /\ out' \in [Player -> Seq(Signal)] /\ waits' \in [Player -> Nat]
        /\ phase' \in [Player -> {"connecting", "open", "recovering", "failed"}]
        /\ conn' \in [Player -> Nat] /\ remote' \in [Player -> Nat] /\ described' \in [Player -> Nat]
        /\ heard' \in [Player -> BOOLEAN]
<1>7. ASSUME Refuse(p) PROVE Rest
  BY <1>7 DEF Refuse, WireTypes
<1>8. ASSUME HandleOffer(p, k) PROVE Rest
  <2>1. CASE p = P1 \/ conn[p] \notin {None, k}
    BY <1>7, <1>8, <2>1 DEF HandleOffer
  <2>2. CASE ~(p = P1 \/ conn[p] \notin {None, k})
    <3>1. /\ conn' = [conn EXCEPT ![p] = k] /\ remote' = [remote EXCEPT ![p] = k]
          /\ described' = [described EXCEPT ![p] = described[p] + 1]
          /\ out' = [out EXCEPT ![p] = Append(out[p], [kind |-> "answer", conn |-> k, msg |-> fresh.msg])]
          /\ waits' = [waits EXCEPT ![p] = Len(out[p]) + 1]
          /\ fresh' = [fresh EXCEPT !.msg = fresh.msg + 1]
          /\ UNCHANGED <<phase, heard>>
      BY <1>8, <2>2 DEF HandleOffer
    <3>2. fresh.msg \in Nat /\ out[p] \in Seq(Signal) /\ described[p] \in Nat
      BY DEF WireTypes
    <3>3. [kind |-> "answer", conn |-> k, msg |-> fresh.msg] \in Signal
      BY <1>6, <3>2 DEF Signal
    <3>4. Append(out[p], [kind |-> "answer", conn |-> k, msg |-> fresh.msg]) \in Seq(Signal) /\ Len(out[p]) + 1 \in Nat
      BY <3>2, <3>3, ChainElements
    <3>5. out' \in [Player -> Seq(Signal)] /\ waits' \in [Player -> Nat]
      BY <3>1, <3>4 DEF WireTypes
    <3>6. fresh' \in [conn : Nat, msg : Nat]
      BY <3>1, FreshTypes
    <3>7. conn' \in [Player -> Nat] /\ remote' \in [Player -> Nat]
      BY <1>6, <3>1 DEF WireTypes
    <3>8. described' \in [Player -> Nat]
      <4>1. described[p] + 1 \in Nat
        BY <3>2
      <4> QED BY <3>1, <4>1 DEF WireTypes
    <3> QED BY <3>1, <3>5, <3>6, <3>7, <3>8 DEF WireTypes
  <2> QED BY <2>1, <2>2
<1>9. ASSUME HandleAnswer(p, k) PROVE Rest
  <2>1. ASSUME Describe(p, k) PROVE Rest
    <3>1. described[p] + 1 \in Nat
      BY DEF WireTypes
    <3> QED BY <1>6, <2>1, <3>1 DEF Describe, WireTypes
  <2>2. ASSUME Ignore PROVE Rest
    BY <2>2 DEF Ignore, WireTypes
  <2> QED BY <1>7, <1>9, <2>1, <2>2 DEF HandleAnswer
<1>10. ASSUME HandleCandidate(p, k) PROVE Rest
  <2>1. conn' = [conn EXCEPT ![p] = IF conn[p] = None THEN k ELSE conn[p]]
        /\ heard' = [heard EXCEPT ![p] = (heard[p] \/ k = conn'[p])]
        /\ UNCHANGED <<phase, remote, described, out, waits, fresh>>
    BY <1>10 DEF HandleCandidate
  <2>2. conn' \in [Player -> Nat]
    BY <1>6, <2>1 DEF WireTypes
  <2>3. heard' \in [Player -> BOOLEAN]
    <3>1. (heard[p] \/ k = conn'[p]) \in BOOLEAN
      OBVIOUS
    <3> QED BY <2>1, <3>1 DEF WireTypes
  <2> QED BY <2>1, <2>2, <2>3 DEF WireTypes
<1>11. Rest
  BY <1>5, <1>7, <1>8, <1>9, <1>10
<1> QED BY <1>2, <1>4, <1>11 DEF WireTypes, mailbox

(* So does a new negotiation.                                              *)
LEMMA ConnectTypes ==
    ASSUME WireTypes, NEW p \in Player, NEW g \in Nat, Connect(p, g), UNCHANGED <<current, nextId, requests>>,
           rows' \in SUBSET Row, clearing' \in [Player -> Nat]
    PROVE  WireTypes'
<1>1. fresh.conn \in Nat /\ fresh.msg \in Nat
  BY DEF WireTypes
<1>2. [kind |-> "offer", conn |-> fresh.conn, msg |-> fresh.msg] \in Signal
  BY <1>1 DEF Signal
<1>3. out' \in [Player -> Seq(Signal)]
  <2>1. <<>> \in Seq(Signal) /\ <<[kind |-> "offer", conn |-> fresh.conn, msg |-> fresh.msg]>> \in Seq(Signal)
    BY <1>2
  <2> QED BY <2>1 DEF Connect, WireTypes
<1>4. fresh' \in [conn : Nat, msg : Nat]
  BY <1>1 DEF Connect, WireTypes
<1>5. /\ attempt' \in [Player -> Nat] /\ conn' \in [Player -> Nat] /\ remote' \in [Player -> Nat]
      /\ described' \in [Player -> Nat] /\ tries' \in [Player -> Nat] /\ cursor' \in [Player -> Nat]
      /\ waits' \in [Player -> Nat]
  BY <1>1 DEF Connect, WireTypes, None
<1>6. held' \in [Player -> SUBSET Row] /\ batch' \in [Player -> SUBSET Row] /\ got' \in [Player -> SUBSET Nat]
  BY DEF Connect, WireTypes
<1>7. /\ phase' \in [Player -> {"connecting", "open", "recovering", "failed"}]
      /\ answer' \in [Player -> {"none", "awaited", "ok", "error"}]
      /\ heard' \in [Player -> BOOLEAN] /\ gathered' \in [Player -> BOOLEAN]
  BY DEF Connect, WireTypes
<1> QED BY <1>3, <1>4, <1>5, <1>6, <1>7 DEF WireTypes

(* So does the rest.                                                       *)
LEMMA LinkTypes ==
    ASSUME WireTypes, NEW p \in Player,
           Gather(p) \/ Open(p) \/ GiveUp(p) \/ LoseChannel(p) \/ PeerGone(p) \/ Advance(p) \/ Clear(p) \/ Restart(p)
    PROVE  WireTypes'
<1>1. CASE Gather(p)
  <2>1. fresh.msg \in Nat /\ conn[p] \in Nat /\ out[p] \in Seq(Signal) /\ waits[p] \in Nat
    BY DEF WireTypes
  <2>2. [kind |-> "candidate", conn |-> conn[p], msg |-> fresh.msg] \in Signal
    BY <2>1 DEF Signal
  <2>3. Append(out[p], [kind |-> "candidate", conn |-> conn[p], msg |-> fresh.msg]) \in Seq(Signal)
    BY <2>1, <2>2, ChainElements
  <2>4. out' \in [Player -> Seq(Signal)]
    BY <1>1, <2>3 DEF Gather, WireTypes
  <2>5. fresh' \in [conn : Nat, msg : Nat]
    BY <1>1, FreshTypes DEF Gather
  <2>6. waits' \in [Player -> Nat]
    <3>1. (IF waits[p] > 0 THEN waits[p] + 1 ELSE 0) \in Nat
      BY <2>1
    <3>2. waits' = [waits EXCEPT ![p] = IF waits[p] > 0 THEN waits[p] + 1 ELSE 0]
      BY <1>1 DEF Gather
    <3> QED BY <3>1, <3>2 DEF WireTypes
  <2>7. gathered' \in [Player -> BOOLEAN]
    BY <1>1 DEF Gather, WireTypes
  <2> QED BY <1>1, <2>4, <2>5, <2>6, <2>7 DEF Gather, WireTypes, mailbox, receiver, link
<1>2. CASE Open(p)
  <2>1. batch' \in [Player -> SUBSET Row] /\ phase' \in [Player -> {"connecting", "open", "recovering", "failed"}]
    BY <1>2 DEF Open, WireTypes
  <2> QED BY <1>2, <2>1 DEF Open, WireTypes, mailbox, sender
<1>3. CASE GiveUp(p)
  <2>1. phase' \in [Player -> {"connecting", "open", "recovering", "failed"}]
    BY <1>3 DEF GiveUp, WireTypes
  <2> QED BY <1>3, <2>1 DEF GiveUp, WireTypes, mailbox, sender, receiver
<1>4. CASE LoseChannel(p) \/ PeerGone(p)
  <2>1. Recover(p)
    BY <1>4 DEF LoseChannel, PeerGone
  <2>2. phase' \in [Player -> {"connecting", "open", "recovering", "failed"}]
    BY <2>1 DEF Recover, WireTypes
  <2> QED BY <2>1, <2>2 DEF Recover, WireTypes, mailbox, sender, receiver
<1>5. CASE Advance(p)
  <2>1. current' \in Nat
    BY <1>5 DEF Advance, WireTypes
  <2>2. clearing' \in [Player -> Nat]
    BY <1>5, <2>1 DEF Advance, WireTypes
  <2> QED BY <1>5, <2>1, <2>2 DEF Advance, WireTypes, sender, receiver, link
<1>6. CASE Clear(p)
  <2>1. rows' \in SUBSET Row /\ clearing' \in [Player -> Nat] /\ UNCHANGED <<current, nextId, requests>> /\ clearing[p] \in Nat
    BY <1>6 DEF Clear, WireTypes, None
  <2>2. CASE phase[p] = "recovering"
    <3>1. Connect(p, clearing[p])
      BY <1>6, <2>2 DEF Clear
    <3> QED BY <2>1, <3>1, ConnectTypes
  <2>3. CASE phase[p] # "recovering"
    <3>1. UNCHANGED <<sender, receiver, phase, attempt, conn, remote, described, heard, fresh>>
      BY <1>6, <2>3 DEF Clear
    <3> QED BY <2>1, <3>1 DEF WireTypes, sender, receiver
  <2> QED BY <2>2, <2>3
<1>7. CASE Restart(p)
  <2>1. Connect(p, attempt[p]) /\ UNCHANGED mailbox /\ attempt[p] \in Nat
    BY <1>7 DEF Restart, WireTypes
  <2>2. rows' \in SUBSET Row /\ clearing' \in [Player -> Nat] /\ UNCHANGED <<current, nextId, requests>>
    BY <2>1 DEF mailbox, WireTypes
  <2> QED BY <2>1, <2>2, ConnectTypes
<1> QED BY <1>1, <1>2, <1>3, <1>4, <1>5, <1>6, <1>7

-----------------------------------------------------------------------------
(* What depends on variables that stay as they are stays true.             *)
LEMMA FramesKeep ==
    ASSUME Negotiating
    PROVE  /\ UNCHANGED <<rows, nextId, current, requests>> => Numbered'
           /\ UNCHANGED <<attempt, current, phase, clearing>> => Attempts'
           /\ UNCHANGED <<answer, out, waits, tries, phase>> => Publishing'
           /\ UNCHANGED <<held, batch, attempt, rows, nextId, cursor, got, current>> => Reading'
           /\ UNCHANGED <<remote, conn, described>> => Initiated'
           /\ UNCHANGED <<remote, conn, described, batch, attempt, current, rows, cursor>> => Describing'
<1>1. UNCHANGED <<rows, nextId, current, requests>> => Numbered'
  BY DEF Negotiating, Numbered
<1>2. UNCHANGED <<attempt, current, phase, clearing>> => Attempts'
  BY DEF Negotiating, Attempts
<1>3. UNCHANGED <<answer, out, waits, tries, phase>> => Publishing'
  BY DEF Negotiating, Publishing
<1>4. UNCHANGED <<held, batch, attempt, rows, nextId, cursor, got, current>> => Reading'
  BY DEF Negotiating, Reading, Unread
<1>5. UNCHANGED <<remote, conn, described>> => Initiated'
  BY DEF Negotiating, Initiated
<1>6. UNCHANGED <<remote, conn, described, batch, attempt, current, rows, cursor>> => Describing'
  BY DEF Negotiating, Describing, Taken, IsFirst, IsOffer
<1> QED BY <1>1, <1>2, <1>3, <1>4, <1>5, <1>6

(* A signal that is carried is an offer, or none.                          *)
LEMMA CarriedOffers ==
    ASSUME WireTypes
    PROVE  /\ \A e \in Envelopes : e.signal \in Signal /\ (IsOffer(e) => e.signal \in Offers)
           /\ \A p \in Player : \A s \in Elements(out[p]) : s \in Signal /\ (s.kind = "offer" => s \in Offers)
<1>1. ASSUME NEW e \in Envelopes PROVE e.signal \in Signal /\ (IsOffer(e) => e.signal \in Offers)
  <2>1. e \in Row \cup Request
    BY Sides DEF WireTypes, Envelopes, Unread
  <2>2. e.signal \in Signal
    BY <2>1 DEF Row, Request
  <2> QED BY <2>2 DEF Offers, IsOffer
<1>2. ASSUME NEW p \in Player, NEW s \in Elements(out[p]) PROVE s \in Signal /\ (s.kind = "offer" => s \in Offers)
  <2>1. out[p] \in Seq(Signal)
    BY DEF WireTypes
  <2>2. s \in Signal
    BY <2>1, ChainElements
  <2> QED BY <2>2 DEF Offers
<1> QED BY <1>1, <1>2

(* Signals that are handed on, dropped or read are of the offers made.     *)
LEMMA OfferingKept ==
    ASSUME Negotiating,
           \A e \in Envelopes' : \E f \in Envelopes : f.signal = e.signal /\ f.attempt = e.attempt,
           \A p \in Player : \A s \in Elements(out'[p]) : s \in Elements(out[p]) \/ s.kind # "offer",
           attempt' = attempt, fresh'.conn = fresh.conn, conn'[P1] = conn[P1],
           conn'[P2] < fresh.conn, conn'[P2] = conn[P1] => attempt[P2] = attempt[P1]
    PROVE  Offering'
<1>1. Offers' \subseteq Offers
  <2> SUFFICES ASSUME NEW s \in Offers' PROVE s \in Offers
    OBVIOUS
  <2>1. s \in Signal /\ s.kind = "offer"
        /\ ((\E e \in Envelopes' : e.signal = s) \/ (\E p \in Player : s \in Elements(out'[p])))
    BY DEF Offers, Elements
  <2> QED BY <2>1 DEF Offers
<1>2. ASSUME NEW e \in Envelopes', IsOffer(e), e.signal.conn = conn'[P1] PROVE e.attempt = attempt'[P1]
  <2>1. PICK f \in Envelopes : f.signal = e.signal /\ f.attempt = e.attempt
    OBVIOUS
  <2>2. IsOffer(f) /\ f.signal.conn = conn[P1]
    BY <1>2, <2>1 DEF IsOffer
  <2> QED BY <2>1, <2>2 DEF Negotiating, Offering
<1>3. \A s \in Elements(out'[P2]) : s.kind # "offer"
  BY Sides DEF Negotiating, Offering
<1>4. Offering
  BY DEF Negotiating
<1>5. \A s \in Offers' : 0 < s.conn /\ s.conn < fresh'.conn
  BY <1>1, <1>4 DEF Offering
<1>6. \A s \in Offers', t \in Offers' : s.conn = t.conn => s.msg = t.msg
  BY <1>1, <1>4 DEF Offering
<1>7. /\ conn'[P1] # None /\ conn'[P1] < fresh'.conn /\ conn'[P2] < fresh'.conn
      /\ conn'[P2] = conn'[P1] => attempt'[P2] = attempt'[P1]
  BY <1>4 DEF Offering
<1>8. \A e \in Envelopes' : IsOffer(e) /\ e.signal.conn = conn'[P1] => e.attempt = attempt'[P1]
  BY <1>2
<1>9. \A s \in Elements(out[P2])' : s.kind # "offer"
  BY <1>3 DEF Elements
<1> QED BY <1>5, <1>6, <1>7, <1>9, <1>8 DEF Offering

(* Two offers of one connection in the mailbox are one.                    *)
LEMMA OneOffer ==
    ASSUME Negotiating, NEW row \in rows, NEW other \in rows, IsOffer(row), IsOffer(other),
           row.from = other.from, row.signal.conn = other.signal.conn
    PROVE  row = other
<1>1. row.signal \in Offers /\ other.signal \in Offers
  BY CarriedOffers DEF Negotiating, Envelopes
<1>2. row.signal.msg = other.signal.msg
  BY <1>1 DEF Negotiating, Offering
<1> QED BY <1>2 DEF Negotiating, Numbered

(* A player publishes what it has, and an answer comes back or is lost.    *)
LEMMA PublishKeeps ==
    ASSUME Negotiating, NEW p \in Player, Send(p) \/ Receive(p) \/ LoseAnswer(p)
    PROVE  Negotiating'
<1>0. WireTypes /\ Publishing /\ Numbered /\ Attempts /\ Offering
  BY DEF Negotiating
<1>1. WireTypes'
  BY <1>0, PublishTypes
<1>2. /\ UNCHANGED <<current, clearing, rows, nextId, attempt, conn, remote, described, cursor, held, batch, got, fresh>>
      /\ out[p] \in Seq(Signal)
  BY DEF Negotiating, WireTypes, Send, Receive, LoseAnswer, mailbox, receiver, link
<1>3. Reading' /\ Initiated' /\ Describing'
  BY <1>2, FramesKeep
<1>4. CASE Send(p)
  <2> DEFINE r == [from |-> p, attempt |-> attempt[p], signal |-> Head(out[p]), try |-> tries[p], stage |-> "sent",
                   full |-> FALSE, exists |-> FALSE, id |-> None]
  <2>1. /\ requests' = requests \cup {r} /\ answer' = [answer EXCEPT ![p] = "awaited"] /\ out[p] # <<>>
        /\ UNCHANGED <<out, tries, waits, phase, link>>
    BY <1>4 DEF Send, link
  <2>2. r.attempt = attempt[p] /\ r.signal = Head(out[p]) /\ r.signal \in Elements(out[p])
    BY <1>2, <2>1, ChainElements
  <2> HIDE DEF r
  <2>3. Attempts'
    BY <1>2, <2>1, FramesKeep DEF link
  <2>4. Numbered'
    <3>1. r.attempt <= current
      BY <1>0, <2>2 DEF Attempts
    <3> QED BY <1>0, <1>2, <2>1, <3>1 DEF Numbered
  <2>5. Publishing'
    BY <1>0, <2>1 DEF Publishing, WireTypes
  <2>6. Offering'
    <3>1. Envelopes' \subseteq Envelopes \cup {r}
      BY <1>2, <2>1 DEF Envelopes, Unread
    <3>2. Offers' \subseteq Offers
      <4> SUFFICES ASSUME NEW s \in Offers' PROVE s \in Offers
        OBVIOUS
      <4>1. s \in Signal /\ s.kind = "offer"
            /\ ((\E e \in Envelopes' : e.signal = s) \/ (\E q \in Player : s \in Elements(out[q])))
        BY <2>1 DEF Offers, Elements
      <4> QED BY <2>2, <3>1, <4>1 DEF Offers
    <3>3. ASSUME NEW e \in Envelopes', IsOffer(e), e.signal.conn = conn[P1] PROVE e.attempt = attempt[P1]
      <4>1. CASE e \in Envelopes
        BY <1>0, <3>3, <4>1 DEF Offering
      <4>2. CASE e = r
        <5>1. p = P1 \/ p = P2
          BY Sides
        <5>2. p # P2
          BY <1>0, <2>2, <3>3, <4>2 DEF Offering, IsOffer
        <5> QED BY <2>2, <4>2, <5>1, <5>2
      <4> QED BY <3>1, <4>1, <4>2
    <3>4. \A e \in Envelopes' : IsOffer(e) /\ e.signal.conn = conn'[P1] => e.attempt = attempt'[P1]
      BY <1>2, <3>3
    <3>5. \A s \in Elements(out[P2])' : s.kind # "offer"
      BY <1>0, <2>1 DEF Offering, Elements
    <3>6. \A s \in Offers' : 0 < s.conn /\ s.conn < fresh'.conn
      BY <1>0, <1>2, <3>2 DEF Offering
    <3>7. \A s \in Offers', t \in Offers' : s.conn = t.conn => s.msg = t.msg
      BY <1>0, <3>2 DEF Offering
    <3>8. /\ conn'[P1] # None /\ conn'[P1] < fresh'.conn /\ conn'[P2] < fresh'.conn
          /\ conn'[P2] = conn'[P1] => attempt'[P2] = attempt'[P1]
      BY <1>0, <1>2 DEF Offering
    <3> QED BY <3>4, <3>5, <3>6, <3>7, <3>8 DEF Offering
  <2> QED BY <1>1, <1>3, <2>3, <2>4, <2>5, <2>6 DEF Negotiating
<1>5. CASE Receive(p)
  <2>1. requests' = requests
    BY <1>5 DEF Receive, mailbox
  <2>2. Numbered'
    BY <1>2, <2>1, FramesKeep
  <2>3. answer[p] \in {"ok", "error"} /\ answer[p] # "none" /\ answer' = [answer EXCEPT ![p] = "none"]
    BY <1>5 DEF Receive
  <2>4. out[p] # <<>> /\ tries[p] < PublishAttempts /\ tries[p] \in Nat /\ waits[p] \in Nat /\ waits[p] <= Len(out[p])
    BY <1>0, <2>3 DEF Publishing, WireTypes
  <2>5. CASE answer[p] = "ok"
    <3>1. out' = [out EXCEPT ![p] = Tail(out[p])] /\ tries' = [tries EXCEPT ![p] = 0]
          /\ waits' = [waits EXCEPT ![p] = IF waits[p] > 0 THEN waits[p] - 1 ELSE 0] /\ phase' = phase
      BY <1>5, <2>5 DEF Receive
    <3>2. Len(Tail(out[p])) = Len(out[p]) - 1 /\ Elements(Tail(out[p])) \subseteq Elements(out[p]) /\ Len(out[p]) \in Nat
      BY <1>2, <2>4, ChainElements
    <3>3. Attempts'
      BY <1>2, <3>1, FramesKeep
    <3>4. Publishing'
      <4> SUFFICES ASSUME NEW q \in Player
                   PROVE  /\ answer'[q] # "none" => out'[q] # <<>>
                          /\ waits'[q] <= Len(out'[q])
                          /\ tries'[q] <= PublishAttempts
                          /\ out'[q] # <<>> \/ phase'[q] = "connecting" => tries'[q] < PublishAttempts
        BY DEF Publishing
      <4>1. CASE q = p
        <5>1. answer'[p] = "none" /\ out'[p] = Tail(out[p]) /\ tries'[p] = 0
              /\ waits'[p] = (IF waits[p] > 0 THEN waits[p] - 1 ELSE 0)
          BY <2>3, <3>1 DEF Negotiating, WireTypes
        <5>2. waits'[p] <= Len(out'[p])
          BY <2>4, <3>2, <5>1
        <5> QED BY <4>1, <5>1, <5>2, SomeAttempts
      <4>2. CASE q # p
        BY <1>0, <2>3, <3>1, <4>2 DEF Publishing, WireTypes
      <4> QED BY <4>1, <4>2
    <3>5. Offering'
      <4>1. \A e \in Envelopes' : \E f \in Envelopes : f.signal = e.signal /\ f.attempt = e.attempt
        BY <1>2, <2>1 DEF Envelopes, Unread
      <4>2. \A q \in Player : \A s \in Elements(out'[q]) : s \in Elements(out[q]) \/ s.kind # "offer"
        BY <1>0, <3>1, <3>2 DEF WireTypes
      <4> QED BY <1>0, <1>2, <4>1, <4>2, OfferingKept DEF Offering
    <3> QED BY <1>1, <1>3, <2>2, <3>3, <3>4, <3>5 DEF Negotiating
  <2>6. CASE answer[p] # "ok"
    <3>1. /\ out' = [out EXCEPT ![p] = IF tries[p] + 1 < PublishAttempts THEN out[p] ELSE <<>>]
          /\ tries' = [tries EXCEPT ![p] = tries[p] + 1]
          /\ waits' = [waits EXCEPT ![p] = IF tries[p] + 1 < PublishAttempts THEN waits[p] ELSE 0]
          /\ phase' = [phase EXCEPT ![p] =
                 IF tries[p] + 1 < PublishAttempts \/ phase[p] # "connecting" THEN phase[p] ELSE "failed"]
      BY <1>5, <2>6 DEF Receive
    <3>2. Attempts'
      <4>1. \A q \in Player : phase'[q] = phase[q] \/ (phase[q] = "connecting" /\ phase'[q] = "failed")
        BY <1>0, <3>1 DEF WireTypes
      <4> QED BY <1>0, <1>2, <4>1, Sides DEF Attempts
    <3>3. Publishing'
      <4> SUFFICES ASSUME NEW q \in Player
                   PROVE  /\ answer'[q] # "none" => out'[q] # <<>>
                          /\ waits'[q] <= Len(out'[q])
                          /\ tries'[q] <= PublishAttempts
                          /\ out'[q] # <<>> \/ phase'[q] = "connecting" => tries'[q] < PublishAttempts
        BY DEF Publishing
      <4>1. CASE q = p
        <5>1. /\ answer'[p] = "none" /\ tries'[p] = tries[p] + 1
              /\ out'[p] = (IF tries[p] + 1 < PublishAttempts THEN out[p] ELSE <<>>)
              /\ waits'[p] = (IF tries[p] + 1 < PublishAttempts THEN waits[p] ELSE 0)
              /\ phase'[p] = (IF tries[p] + 1 < PublishAttempts \/ phase[p] # "connecting" THEN phase[p] ELSE "failed")
          BY <2>3, <3>1 DEF Negotiating, WireTypes
        <5>2. Len(<<>>) = 0
          OBVIOUS
        <5>3. waits'[p] <= Len(out'[p])
          BY <2>4, <5>1, <5>2
        <5> QED BY <2>4, <4>1, <5>1, <5>3, SomeAttempts
      <4>2. CASE q # p
        BY <1>0, <2>3, <3>1, <4>2 DEF Publishing, WireTypes
      <4> QED BY <4>1, <4>2
    <3>4. Offering'
      <4>1. \A e \in Envelopes' : \E f \in Envelopes : f.signal = e.signal /\ f.attempt = e.attempt
        BY <1>2, <2>1 DEF Envelopes, Unread
      <4>2. Elements(<<>>) = {}
        BY DEF Elements
      <4>3. \A q \in Player : \A s \in Elements(out'[q]) : s \in Elements(out[q]) \/ s.kind # "offer"
        BY <1>0, <3>1, <4>2 DEF WireTypes
      <4> QED BY <1>0, <1>2, <4>1, <4>3, OfferingKept DEF Offering
    <3> QED BY <1>1, <1>3, <2>2, <3>2, <3>3, <3>4 DEF Negotiating
  <2> QED BY <2>5, <2>6
<1>6. CASE LoseAnswer(p)
  <2>1. /\ requests' \subseteq requests /\ answer[p] # "none" /\ answer' = [answer EXCEPT ![p] = "error"]
        /\ UNCHANGED <<out, tries, waits, phase>>
    BY <1>6 DEF LoseAnswer, link
  <2>2. Numbered'
    BY <1>0, <1>2, <2>1 DEF Numbered
  <2>3. Attempts'
    BY <1>2, <2>1, FramesKeep
  <2>4. Publishing'
    BY <1>0, <2>1 DEF Publishing, WireTypes
  <2>5. Offering'
    <3>1. \A e \in Envelopes' : \E f \in Envelopes : f.signal = e.signal /\ f.attempt = e.attempt
      BY <1>2, <2>1 DEF Envelopes, Unread
    <3>2. \A q \in Player : \A s \in Elements(out'[q]) : s \in Elements(out[q]) \/ s.kind # "offer"
      BY <2>1
    <3> QED BY <1>0, <1>2, <3>1, <3>2, OfferingKept DEF Offering
  <2> QED BY <1>1, <1>3, <2>2, <2>3, <2>4, <2>5 DEF Negotiating
<1> QED BY <1>4, <1>5, <1>6

(* An answer reaches only who waits for it.                                *)
LEMMA AnsweredKeeps ==
    ASSUME Negotiating, NEW r \in requests, NEW result \in {"ok", "error"}, Answered(r, result),
           UNCHANGED <<out, waits, tries, phase>>
    PROVE  Publishing'
<1>1. r.from \in Player
  BY DEF Negotiating, WireTypes, Request
<1>2. ASSUME NEW q \in Player PROVE answer'[q] # "none" => out'[q] # <<>>
  <2>1. answer' = [answer EXCEPT ![r.from] = IF Awaited(r) THEN result ELSE answer[r.from]]
    BY DEF Answered
  <2>2. CASE q = r.from /\ Awaited(r)
    BY <2>2 DEF Awaited
  <2>3. CASE ~(q = r.from /\ Awaited(r))
    <3>1. answer'[q] = answer[q]
      BY <1>1, <2>1, <2>3 DEF Negotiating, WireTypes
    <3> QED BY <3>1 DEF Negotiating, Publishing
  <2> QED BY <2>2, <2>3
<1> QED BY <1>2 DEF Negotiating, Publishing

(* A request that goes on is the one it was.                               *)
LEMMA MovedKeeps ==
    ASSUME Negotiating, NEW r \in requests, NEW s, s.attempt = r.attempt, s.signal = r.signal,
           requests' \subseteq (requests \ {r}) \cup {s},
           UNCHANGED <<rows, nextId, current, held, batch, out, attempt, fresh, conn>>
    PROVE  Numbered' /\ Offering'
<1>1. Numbered'
  BY DEF Negotiating, Numbered
<1>2. \A e \in Envelopes' : \E f \in Envelopes : f.signal = e.signal /\ f.attempt = e.attempt
  BY DEF Envelopes, Unread
<1>3. \A q \in Player : \A t \in Elements(out'[q]) : t \in Elements(out[q]) \/ t.kind # "offer"
  OBVIOUS
<1>4. fresh'.conn = fresh.conn /\ conn'[P2] < fresh.conn /\ (conn'[P2] = conn[P1] => attempt[P2] = attempt[P1])
  BY DEF Negotiating, Offering
<1> QED BY <1>1, <1>2, <1>3, <1>4, OfferingKept

(* The API serves a publish request.                                       *)
LEMMA ServeKeeps ==
    ASSUME Negotiating, NEW r \in requests, Validate(r) \/ Begin(r) \/ Insert(r)
    PROVE  Negotiating'
<1>0. WireTypes /\ Numbered /\ Reading /\ Describing /\ Offering
  BY DEF Negotiating
<1>1. WireTypes'
  BY <1>0, ServeTypes
<1>2. r \in Request /\ r.id = None /\ nextId \in Nat /\ r.signal \in Signal /\ None = 0
  BY <1>0, SomeAttempts DEF WireTypes, Request
<1>3. UNCHANGED <<current, clearing, out, tries, waits, phase, attempt, conn, remote, described, cursor, held, batch, got, fresh>>
  BY DEF Validate, Begin, Insert, sender, receiver, link
<1>4. Attempts' /\ Initiated'
  BY <1>3, FramesKeep
<1>5. CASE Validate(r)
  <2>1. UNCHANGED <<rows, nextId>>
    BY <1>5 DEF Validate
  <2>2. Reading' /\ Describing'
    BY <1>3, <2>1, FramesKeep
  <2>3. CASE r.attempt = current
    <3> DEFINE s == [r EXCEPT !.stage = "valid"]
    <3>1. requests' = (requests \ {r}) \cup {s} /\ UNCHANGED answer
      BY <1>5, <2>3 DEF Validate, Moved
    <3>2. s.attempt = r.attempt /\ s.signal = r.signal
      BY <1>2, RequestTypes
    <3> HIDE DEF s
    <3>3. Numbered' /\ Offering'
      BY <1>3, <2>1, <3>1, <3>2, MovedKeeps
    <3>4. Publishing'
      BY <1>3, <3>1, FramesKeep
    <3> QED BY <1>1, <1>4, <2>2, <3>3, <3>4 DEF Negotiating
  <2>4. CASE r.attempt # current
    <3>1. requests' = requests \ {r} /\ Answered(r, "error")
      BY <1>5, <2>4 DEF Validate
    <3>2. requests' \subseteq (requests \ {r}) \cup {r}
      BY <3>1
    <3>3. Numbered' /\ Offering'
      BY <1>3, <2>1, <3>2, MovedKeeps
    <3>4. Publishing'
      BY <1>3, <3>1, AnsweredKeeps
    <3> QED BY <1>1, <1>4, <2>2, <3>3, <3>4 DEF Negotiating
  <2> QED BY <2>3, <2>4
<1>6. CASE Begin(r)
  <2> DEFINE full == Cardinality(rows) >= MaxMessages
             exists == SameMessage(r) # {}
             s == [r EXCEPT !.stage = "begun", !.full = full, !.exists = exists]
  <2>1. requests' = Moved(r, s) /\ UNCHANGED <<rows, nextId, answer>>
    BY <1>6 DEF Begin, sender
  <2>2. full \in BOOLEAN /\ exists \in BOOLEAN
    OBVIOUS
  <2> HIDE DEF full, exists
  <2>3. s.attempt = r.attempt /\ s.signal = r.signal
    BY <1>2 DEF Request
  <2> HIDE DEF s
  <2>4. requests' \subseteq (requests \ {r}) \cup {s}
    BY <2>1 DEF Moved
  <2>5. Numbered' /\ Offering'
    BY <1>3, <2>1, <2>3, <2>4, MovedKeeps
  <2>6. Publishing' /\ Reading' /\ Describing'
    BY <1>3, <2>1, FramesKeep
  <2> QED BY <1>1, <1>4, <2>5, <2>6 DEF Negotiating
<1>7. CASE Insert(r)
  <2> DEFINE new == [id |-> nextId, attempt |-> r.attempt, from |-> r.from, signal |-> r.signal]
  <2>1. requests' = requests \ {r}
    BY <1>7 DEF Insert
  <2>2. Publishing'
    BY <1>3, <1>7, AnsweredKeeps DEF Insert
  <2>3. CASE UNCHANGED <<rows, nextId>>
    <3>1. requests' \subseteq (requests \ {r}) \cup {r}
      BY <2>1
    <3>2. Numbered' /\ Offering'
      BY <1>3, <2>3, <3>1, MovedKeeps
    <3>3. Reading' /\ Describing'
      BY <1>3, <2>3, FramesKeep
    <3> QED BY <1>1, <1>4, <2>2, <3>2, <3>3 DEF Negotiating
  <2>4. CASE ~UNCHANGED <<rows, nextId>>
    <3>1. rows' = rows \cup {new} /\ nextId' = nextId + 1 /\ SameMessage(r) = {}
      BY <1>2, <1>7, <2>4 DEF Insert
    <3>2. new.id = nextId /\ new.attempt = r.attempt /\ new.from = r.from /\ new.signal = r.signal
      OBVIOUS
    <3> HIDE DEF new
    <3>3. \A row \in rows : row.id < nextId /\ row.id \in Nat
      BY <1>0 DEF Numbered, WireTypes, Row
    <3>4. Numbered'
      <4>1. r.attempt <= current /\ nextId > 0
        BY <1>0 DEF Numbered, WireTypes
      <4>2. \A row \in rows : ~(row.from = new.from /\ row.signal.msg = new.signal.msg) /\ row.id # new.id
        BY <1>2, <3>1, <3>2, <3>3 DEF SameMessage
      <4>3. \A row \in rows' : 0 < row.id /\ row.id < nextId' /\ row.attempt <= current'
        BY <1>0, <1>2, <1>3, <3>1, <3>2, <3>3, <4>1 DEF Numbered
      <4>4. \A row \in rows', other \in rows' :
               row.id = other.id \/ (row.from = other.from /\ row.signal.msg = other.signal.msg) => row = other
        BY <1>0, <3>1, <4>2 DEF Numbered
      <4>5. \A q \in requests' : q.attempt <= current'
        BY <1>0, <1>3, <2>1 DEF Numbered
      <4> QED BY <4>3, <4>4, <4>5 DEF Numbered
    <3>5. Offering'
      <4>1. \A e \in Envelopes' : \E f \in Envelopes : f.signal = e.signal /\ f.attempt = e.attempt
        <5> SUFFICES ASSUME NEW e \in Envelopes' PROVE \E f \in Envelopes : f.signal = e.signal /\ f.attempt = e.attempt
          OBVIOUS
        <5>1. e \in Envelopes \cup {new} /\ r \in Envelopes
          BY <1>3, <2>1, <3>1 DEF Envelopes, Unread
        <5> QED BY <3>2, <5>1
      <4>2. \A q \in Player : \A t \in Elements(out'[q]) : t \in Elements(out[q]) \/ t.kind # "offer"
        BY <1>3
      <4> QED BY <1>0, <1>3, <4>1, <4>2, OfferingKept DEF Offering
    <3>6. Reading'
      <4> SUFFICES ASSUME NEW q \in Player
                   PROVE  /\ \A row \in Unread(q) : row.attempt = attempt[q] /\ row.from = Peer(q) /\ row.id < nextId'
                          /\ attempt[q] = current => Unread(q) \subseteq rows'
                          /\ \A row \in held[q] : row.id <= cursor[q]
                          /\ cursor[q] < nextId'
                          /\ \A row \in rows' : row.attempt = attempt[q] /\ row.from = Peer(q) =>
                                /\ row.id <= cursor[q] => row.id \in got[q]
                                /\ row.id > cursor[q] => \A b \in batch[q] : row.id <= b.id => row \in batch[q]
        BY <1>3 DEF Reading, Unread
      <4>1. cursor[q] \in Nat /\ held[q] \in SUBSET Row /\ batch[q] \in SUBSET Row
        BY <1>0 DEF WireTypes
      <4>2. \A row \in Unread(q) : row.id \in Nat
        BY <4>1 DEF Unread, Row
      <4>3. \A row \in Unread(q) : row.attempt = attempt[q] /\ row.from = Peer(q) /\ row.id < nextId
        BY <1>0 DEF Reading
      <4>4. \A row \in Unread(q) : row.attempt = attempt[q] /\ row.from = Peer(q) /\ row.id < nextId'
        BY <1>2, <3>1, <4>2, <4>3
      <4>5. cursor[q] < nextId
        BY <1>0 DEF Reading
      <4>6. ~(new.id <= cursor[q]) /\ \A b \in batch[q] : ~(new.id <= b.id)
        BY <1>2, <3>2, <4>1, <4>2, <4>3, <4>5 DEF Unread
      <4>7. cursor[q] < nextId'
        BY <1>2, <3>1, <4>1, <4>5
      <4>8. \A row \in rows' : row.attempt = attempt[q] /\ row.from = Peer(q) =>
               /\ row.id <= cursor[q] => row.id \in got[q]
               /\ row.id > cursor[q] => \A b \in batch[q] : row.id <= b.id => row \in batch[q]
        BY <1>0, <3>1, <4>6 DEF Reading
      <4>9. (attempt[q] = current => Unread(q) \subseteq rows') /\ \A row \in held[q] : row.id <= cursor[q]
        BY <1>0, <3>1 DEF Reading
      <4> QED BY <4>4, <4>7, <4>8, <4>9
    <3>7. Describing'
      <4>1. Taken => Taken'
        BY <1>3, <3>1 DEF Taken, IsOffer
      <4> QED BY <1>0, <1>3, <4>1 DEF Describing, IsFirst, IsOffer
    <3> QED BY <1>1, <1>4, <2>2, <3>4, <3>5, <3>6, <3>7 DEF Negotiating
  <2> QED BY <2>3, <2>4
<1> QED BY <1>5, <1>6, <1>7

(* A player polls, keeps what came, or takes the latest offer.             *)
LEMMA ReadKeeps ==
    ASSUME Negotiating, NEW p \in Player, Poll(p) \/ Hold(p) \/ SettleOffer(p)
    PROVE  Negotiating'
<1>0. WireTypes /\ Numbered /\ Reading /\ Describing /\ Offering
  BY DEF Negotiating
<1>1. WireTypes'
  BY <1>0, ReadTypes
<1>2. /\ UNCHANGED <<mailbox, sender, link, fresh>>
      /\ phase[p] = "connecting" /\ batch[p] = {} /\ attempt[p] = current
  BY DEF Poll, Hold, SettleOffer, Polling
<1>3. UNCHANGED <<rows, nextId, current, requests, attempt, phase, clearing, answer, out, waits, tries, remote, conn, described>>
  BY <1>2 DEF mailbox, sender, link
<1>4. Numbered' /\ Attempts' /\ Publishing' /\ Initiated'
  BY <1>3, FramesKeep
<1> DEFINE mail == Mail(p)
<1>5. /\ mail \subseteq rows /\ held[p] \subseteq rows /\ cursor[p] \in Nat /\ nextId \in Nat
      /\ \A row \in rows : row \in mail <=> row.attempt = attempt[p] /\ row.from = Peer(p) /\ row.id > cursor[p]
      /\ \A row \in rows : row.id \in Nat /\ row.id < nextId
  BY <1>0, <1>2 DEF Mail, Reading, Unread, Numbered, WireTypes, Row
<1>6. /\ Unread(p)' \subseteq held[p] \cup mail
      /\ \A q \in Player \ {p} : held'[q] = held[q] /\ batch'[q] = batch[q] /\ cursor'[q] = cursor[q] /\ got'[q] = got[q]
  <2>1. CASE Poll(p)
    BY <1>0, <2>1 DEF Poll, Unread, WireTypes
  <2>2. CASE Hold(p)
    BY <1>0, <1>2, <2>2 DEF Hold, Unread, WireTypes
  <2>3. CASE SettleOffer(p)
    <3>1. PICK latest \in held[p] \cup Mail(p) :
              batch' = [batch EXCEPT ![p] = {row \in held[p] \cup Mail(p) : row.id >= latest.id}]
      BY <2>3 DEF SettleOffer
    <3>2. PICK last \in held[p] \cup Mail(p) : cursor' = [cursor EXCEPT ![p] = last.id]
      BY <2>3 DEF SettleOffer
    <3>3. held' = [held EXCEPT ![p] = {}] /\ got' = [got EXCEPT ![p] = got[p] \cup Ids(Mail(p))]
      BY <2>3 DEF SettleOffer
    <3>4. held'[p] = {} /\ batch'[p] = {row \in held[p] \cup Mail(p) : row.id >= latest.id}
      BY <1>0, <3>1, <3>3 DEF WireTypes
    <3> QED BY <1>0, <3>1, <3>2, <3>3, <3>4 DEF Unread, WireTypes
  <2> QED BY <2>1, <2>2, <2>3
<1> HIDE DEF mail
<1>7. Offering'
  <2>1. \A e \in Envelopes' : \E f \in Envelopes : f.signal = e.signal /\ f.attempt = e.attempt
    <3>1. \A q \in Player : Unread(q)' \subseteq Unread(q) \cup rows
      BY <1>5, <1>6 DEF Unread
    <3>2. Envelopes' \subseteq Envelopes
      BY <1>3, <3>1, Sides DEF Envelopes
    <3> QED BY <3>2
  <2>2. \A q \in Player : \A s \in Elements(out'[q]) : s \in Elements(out[q]) \/ s.kind # "offer"
    BY <1>3
  <2> QED BY <1>0, <1>2, <1>3, <2>1, <2>2, OfferingKept DEF Offering
<1>8. Reading'
  <2> DEFINE Keeps(q) ==
        /\ \A row \in Unread(q) : row.attempt = attempt[q] /\ row.from = Peer(q) /\ row.id < nextId
        /\ attempt[q] = current => Unread(q) \subseteq rows
        /\ \A row \in held[q] : row.id <= cursor[q]
        /\ cursor[q] < nextId
        /\ \A row \in rows : row.attempt = attempt[q] /\ row.from = Peer(q) =>
              /\ row.id <= cursor[q] => row.id \in got[q]
              /\ row.id > cursor[q] => \A b \in batch[q] : row.id <= b.id => row \in batch[q]
  <2>1. \A q \in Player \ {p} : Keeps(q)'
    BY <1>0, <1>3, <1>6 DEF Reading, Unread
  <2>2. \A row \in held[p] : row.attempt = attempt[p] /\ row.from = Peer(p) /\ row.id <= cursor[p]
    BY <1>0 DEF Reading, Unread
  <2>3. \A row \in Unread(p)' : row \in rows /\ row.attempt = attempt[p] /\ row.from = Peer(p) /\ row.id < nextId
    BY <1>5, <1>6, <2>2
  <2>4. cursor[p] < nextId /\ \A row \in rows : row.attempt = attempt[p] /\ row.from = Peer(p) /\ row.id <= cursor[p] => row.id \in got[p]
    BY <1>0 DEF Reading
  <2>5. Ids(mail) = {row.id : row \in mail}
    BY DEF Ids
  <2>6. /\ \A row \in held'[p] : row.id <= cursor'[p]
        /\ cursor'[p] < nextId
        /\ \A row \in rows : row.attempt = attempt[p] /\ row.from = Peer(p) =>
              /\ row.id <= cursor'[p] => row.id \in got'[p]
              /\ row.id > cursor'[p] => \A b \in batch'[p] : row.id <= b.id => row \in batch'[p]
    <3>1. CASE Poll(p)
      <4>1. held'[p] = held[p] /\ cursor'[p] = cursor[p] /\ got'[p] = got[p] /\ batch'[p] = mail
        BY <1>0, <3>1 DEF Poll, WireTypes, mail
      <4> QED BY <1>5, <2>2, <2>4, <4>1
    <3>2. CASE Hold(p)
      <4>1. PICK last \in mail : IsLast(last, mail) /\ cursor' = [cursor EXCEPT ![p] = last.id]
        BY <3>2 DEF Hold, mail
      <4>2. /\ held'[p] = held[p] \cup mail /\ cursor'[p] = last.id /\ got'[p] = got[p] \cup Ids(mail) /\ batch'[p] = {}
        BY <1>0, <1>2, <3>2, <4>1 DEF Hold, WireTypes, mail
      <4>3. \A row \in mail : row.id <= last.id
        BY <4>1 DEF IsLast
      <4>4. last.id \in Nat /\ last.id < nextId /\ last.id > cursor[p]
        BY <1>5, <4>1
      <4>5. \A row \in held'[p] : row.id <= cursor'[p]
        BY <1>5, <2>2, <4>2, <4>3, <4>4
      <4>6. \A row \in rows : row.attempt = attempt[p] /\ row.from = Peer(p) => row.id \in got'[p] \/ row.id > cursor'[p]
        BY <1>5, <2>4, <2>5, <4>2, <4>3, <4>4
      <4> QED BY <1>5, <4>2, <4>4, <4>5, <4>6
    <3>3. CASE SettleOffer(p)
      <4>1. PICK latest \in held[p] \cup mail :
                batch' = [batch EXCEPT ![p] = {row \in held[p] \cup mail : row.id >= latest.id}]
        BY <3>3 DEF SettleOffer, mail
      <4>2. PICK last \in held[p] \cup mail : IsLast(last, held[p] \cup mail) /\ cursor' = [cursor EXCEPT ![p] = last.id]
        BY <3>3 DEF SettleOffer, mail
      <4>3. held' = [held EXCEPT ![p] = {}] /\ got' = [got EXCEPT ![p] = got[p] \cup Ids(mail)]
        BY <3>3 DEF SettleOffer, mail
      <4>4. held'[p] = {} /\ cursor'[p] = last.id /\ got'[p] = got[p] \cup Ids(mail)
            /\ batch'[p] \subseteq held[p] \cup mail
        BY <1>0, <4>1, <4>2, <4>3 DEF WireTypes
      <4>5. \A row \in held[p] \cup mail : row.id <= last.id
        BY <4>2 DEF IsLast
      <4>6. last.id \in Nat /\ last.id < nextId
        BY <1>5, <4>2
      <4>7. \A row \in rows : row.attempt = attempt[p] /\ row.from = Peer(p) => row.id \in got'[p] \/ row.id > cursor[p]
        BY <1>5, <2>4, <4>4
      <4>8. \A row \in rows : row.attempt = attempt[p] /\ row.from = Peer(p) => row.id \in got'[p]
        BY <1>5, <2>5, <4>4, <4>7
      <4>9. \A row \in rows : row.id > cursor'[p] => \A b \in batch'[p] : ~(row.id <= b.id)
        BY <1>5, <4>4, <4>5, <4>6
      <4> QED BY <4>4, <4>6, <4>8, <4>9
    <3> QED BY <3>1, <3>2, <3>3
  <2>7. Keeps(p)'
    BY <1>3, <2>3, <2>6 DEF Unread
  <2>8. \A q \in Player : Keeps(q)'
    BY <2>1, <2>7
  <2> QED BY <2>8 DEF Reading
<1>9. Describing'
  <2>1. CASE p = P1
    <3>1. batch'[P2] = batch[P2] /\ cursor'[P2] = cursor[P2]
      BY <1>6, <2>1, Sides
    <3>2. Taken => Taken'
      BY <1>3, <3>1 DEF Taken, IsOffer
    <3> QED BY <1>0, <1>3, <3>1, <3>2 DEF Describing, IsFirst, IsOffer
  <2>2. CASE p = P2
    <3>1. batch'[P2] \subseteq rows /\ \A row \in batch'[P2] : row.from = P1 /\ row.attempt = attempt[P2]
      <4>1. \A row \in held[p] : row.from = Peer(p) /\ row.attempt = attempt[p]
        BY <1>0 DEF Reading, Unread
      <4> QED BY <1>5, <1>6, <2>2, <4>1, Sides DEF Unread
    <3>2. \A row \in batch'[P2], other \in batch'[P2] :
              IsOffer(row) /\ IsOffer(other) /\ row.signal.conn = other.signal.conn => row = other
      BY <3>1, OneOffer
    <3>3. CASE Poll(p)
      <4>1. conn[P2] # None /\ batch'[P2] = mail /\ cursor'[P2] = cursor[P2]
        BY <1>0, <2>2, <3>3, Sides DEF Poll, WireTypes, mail
      <4>2. PICK taken \in rows : /\ IsOffer(taken) /\ taken.from = P1 /\ taken.attempt = attempt[P2]
                                  /\ taken.signal.conn = conn[P2] /\ taken.id <= cursor[P2]
        BY <1>0, <1>2, <2>2, <4>1 DEF Describing, Taken
      <4>3. ASSUME NEW row \in batch'[P2], IsOffer(row), row.signal.conn = conn[P2] PROVE FALSE
        <5>1. row = taken
          BY <3>1, <4>2, <4>3, OneOffer
        <5>2. row.id > cursor[P2] /\ row.id \in Nat
          BY <1>5, <2>2, <3>1, <4>1, <4>3
        <5> QED BY <1>5, <2>2, <4>2, <5>1, <5>2
      <4>4. Taken'
        BY <1>3, <4>1, <4>2 DEF Taken, IsOffer
      <4> QED BY <1>0, <1>3, <3>2, <4>1, <4>3, <4>4 DEF Describing, IsOffer
    <3>4. CASE Hold(p)
      <4>1. conn[P2] = None /\ batch'[P2] = {}
        BY <1>2, <2>2, <3>4 DEF Hold
      <4> QED BY <1>0, <1>3, <3>2, <4>1 DEF Describing
    <3>5. CASE SettleOffer(p)
      <4>1. conn[P2] = None
        BY <2>2, <3>5 DEF SettleOffer
      <4>2. PICK latest \in held[p] \cup mail :
                /\ IsLast(latest, {row \in held[p] \cup mail : IsOffer(row)})
                /\ batch' = [batch EXCEPT ![p] = {row \in held[p] \cup mail : row.id >= latest.id}]
        BY <3>5 DEF SettleOffer, mail
      <4>3. IsOffer(latest) /\ batch'[P2] = {row \in held[p] \cup mail : row.id >= latest.id}
        BY <1>0, <2>2, <4>2 DEF IsLast, WireTypes
      <4>4. latest \in rows /\ latest.id \in Nat /\ \A row \in batch'[P2] : row \in rows /\ row.id \in Nat /\ row.id >= latest.id
        BY <1>5, <4>2, <4>3
      <4>5. ASSUME NEW row \in batch'[P2], \A other \in batch'[P2] : row.id <= other.id PROVE IsOffer(row)
        <5>1. latest \in batch'[P2]
          BY <4>2, <4>3, <4>4
        <5>2. row.id = latest.id
          BY <4>4, <4>5, <5>1
        <5>3. row = latest
          BY <1>0, <4>4, <5>2 DEF Numbered
        <5> QED BY <4>3, <5>3
      <4> QED BY <1>0, <1>3, <3>2, <4>1, <4>5 DEF Describing, IsFirst, IsOffer
    <3> QED BY <3>3, <3>4, <3>5
  <2> QED BY <2>1, <2>2, Sides
<1> QED BY <1>1, <1>4, <1>7, <1>8, <1>9 DEF Negotiating

(* A player handles the first signal it has read.                          *)
LEMMA HandleKeeps ==
    ASSUME Negotiating, NEW p \in Player, Handle(p)
    PROVE  Negotiating'
<1>0. WireTypes /\ Numbered /\ Attempts /\ Publishing /\ Offering /\ Reading /\ Initiated /\ Describing
  BY DEF Negotiating
<1>1. WireTypes'
  BY <1>0, HandleTypes
<1>2. PICK row \in batch[p] :
          /\ IsFirst(row, batch[p])
          /\ cursor' = [cursor EXCEPT ![p] = IF row.id > cursor[p] THEN row.id ELSE cursor[p]]
          /\ got' = [got EXCEPT ![p] = got[p] \cup {row.id}]
          /\ batch' = [batch EXCEPT ![p] = batch[p] \ {row}]
          /\ CASE row.attempt # attempt[p] -> Refuse(p)
               [] IsOffer(row) -> HandleOffer(p, row.signal.conn)
               [] row.signal.kind = "answer" -> HandleAnswer(p, row.signal.conn)
               [] OTHER -> HandleCandidate(p, row.signal.conn)
  BY DEF Handle
<1>3. /\ UNCHANGED <<current, clearing, rows, nextId, requests, held, tries, gathered, answer, attempt, recovered>>
      /\ phase[p] = "connecting" /\ waits[p] = 0
  BY DEF Handle, mailbox
<1>4. /\ row \in Row /\ row.id \in Nat /\ row.signal \in Signal /\ row.signal.conn \in Nat
      /\ cursor[p] \in Nat /\ nextId \in Nat /\ \A b \in batch[p] : b.id \in Nat /\ row.id <= b.id
  <2>1. batch[p] \in SUBSET Row /\ cursor[p] \in Nat /\ nextId \in Nat
    BY <1>0 DEF WireTypes
  <2>2. \A b \in batch[p] : b \in Row /\ b.id \in Nat /\ b.signal \in Signal
    BY <2>1 DEF Row
  <2> QED BY <1>2, <2>1, <2>2 DEF IsFirst, Signal
<1>5. /\ row.attempt = attempt[p] /\ row.from = Peer(p) /\ row.id < nextId
      /\ attempt[p] = current => row \in rows
  BY <1>0 DEF Reading, Unread
<1>6. /\ cursor'[p] = (IF row.id > cursor[p] THEN row.id ELSE cursor[p]) /\ got'[p] = got[p] \cup {row.id}
      /\ batch'[p] = batch[p] \ {row} /\ held' = held
      /\ \A q \in Player \ {p} : batch'[q] = batch[q] /\ cursor'[q] = cursor[q] /\ got'[q] = got[q]
  BY <1>0, <1>2, <1>3 DEF WireTypes
<1>7. Numbered'
  BY <1>0, <1>3 DEF Numbered
<1>8. Reading'
  <2> DEFINE Keeps(q) ==
        /\ \A r \in Unread(q) : r.attempt = attempt[q] /\ r.from = Peer(q) /\ r.id < nextId
        /\ attempt[q] = current => Unread(q) \subseteq rows
        /\ \A r \in held[q] : r.id <= cursor[q]
        /\ cursor[q] < nextId
        /\ \A r \in rows : r.attempt = attempt[q] /\ r.from = Peer(q) =>
              /\ r.id <= cursor[q] => r.id \in got[q]
              /\ r.id > cursor[q] => \A b \in batch[q] : r.id <= b.id => r \in batch[q]
  <2>1. \A q \in Player \ {p} : Keeps(q)'
    BY <1>0, <1>3, <1>6 DEF Reading, Unread
  <2>2. Unread(p)' \subseteq Unread(p)
    BY <1>6 DEF Unread
  <2>3. \A r \in held'[p] : r.id <= cursor'[p]
    <3>1. \A r \in held[p] : r.id \in Nat /\ r.id <= cursor[p]
      BY <1>0 DEF Reading, WireTypes, Row
    <3> QED BY <1>4, <1>6, <3>1
  <2>4. cursor'[p] < nextId
    BY <1>0, <1>4, <1>5, <1>6 DEF Reading
  <2>5. ASSUME NEW r \in rows, r.attempt = attempt[p], r.from = Peer(p)
        PROVE  /\ r.id <= cursor'[p] => r.id \in got'[p]
               /\ r.id > cursor'[p] => \A b \in batch'[p] : r.id <= b.id => r \in batch'[p]
    <3>1. r.id \in Nat
      BY <1>0 DEF WireTypes, Row
    <3>2. /\ r.id <= cursor[p] => r.id \in got[p]
          /\ r.id > cursor[p] => \A b \in batch[p] : r.id <= b.id => r \in batch[p]
      BY <1>0, <2>5 DEF Reading
    <3>3. ASSUME r.id <= cursor'[p] PROVE r.id \in got'[p]
      <4>1. CASE r.id <= cursor[p]
        BY <1>6, <3>2, <4>1
      <4>2. CASE r.id > cursor[p]
        <5>1. r.id <= row.id /\ r \in batch[p]
          BY <1>4, <1>6, <3>1, <3>2, <3>3, <4>2
        <5>2. r.id = row.id
          BY <1>4, <3>1, <5>1
        <5> QED BY <1>6, <5>2
      <4> QED BY <1>4, <3>1, <4>1, <4>2
    <3>4. ASSUME r.id > cursor'[p], NEW b \in batch'[p], r.id <= b.id PROVE r \in batch'[p]
      <4>1. r.id > cursor[p] /\ r.id > row.id
        BY <1>4, <1>6, <3>1, <3>4
      <4>2. b \in batch[p] /\ r \in batch[p] /\ r # row
        BY <1>4, <1>6, <3>1, <3>2, <3>4, <4>1
      <4> QED BY <1>6, <4>2
    <3> QED BY <3>3, <3>4
  <2>6. Keeps(p)'
    <3>1. \A r \in Unread(p)' : r.attempt = attempt[p] /\ r.from = Peer(p) /\ r.id < nextId
      BY <1>0, <2>2 DEF Reading
    <3>2. attempt[p] = current => Unread(p)' \subseteq rows
      BY <1>0, <2>2 DEF Reading
    <3> QED BY <1>3, <2>3, <2>4, <2>5, <3>1, <3>2 DEF Unread
  <2>7. \A q \in Player : Keeps(q)'
    BY <2>1, <2>6
  <2> QED BY <2>7 DEF Reading
<1> DEFINE k == row.signal.conn
<1>9. p = P2 /\ conn[P2] = None => IsOffer(row)
  BY <1>0, <1>2 DEF Describing
<1>10. p = P2 /\ conn[P2] # None => ~(IsOffer(row) /\ k = conn[P2])
  BY <1>0 DEF Describing
<1>11. k \in Nat /\ row.signal.conn = k /\ (IsOffer(row) => 0 < k /\ k < fresh.conn)
       /\ (IsOffer(row) /\ k = conn[P1] => attempt[p] = attempt[P1])
  <2>1. row \in Envelopes
    BY Sides DEF Envelopes, Unread
  <2>2. IsOffer(row) => row.signal \in Offers
    BY <1>0, <2>1, CarriedOffers
  <2> QED BY <1>0, <1>4, <1>5, <2>1, <2>2 DEF Offering
<1> HIDE DEF k
(* What a step does to the connection and the chain, by the kinds.         *)
<1> DEFINE Plain == UNCHANGED <<conn, remote, described, out, waits, fresh>> /\ phase' \in {phase, [phase EXCEPT ![p] = "failed"]}
           Answers == /\ p = P2 /\ conn[P2] = None /\ IsOffer(row)
                      /\ conn' = [conn EXCEPT ![P2] = k] /\ remote' = [remote EXCEPT ![P2] = k]
                      /\ described' = [described EXCEPT ![P2] = described[P2] + 1]
                      /\ out' = [out EXCEPT ![P2] = Append(out[P2], [kind |-> "answer", conn |-> k, msg |-> fresh.msg])]
                      /\ waits' = [waits EXCEPT ![P2] = Len(out[P2]) + 1]
                      /\ fresh' = [fresh EXCEPT !.msg = fresh.msg + 1] /\ phase' = phase
           Describes == /\ p = P1 /\ remote[P1] = None /\ k = conn[P1]
                        /\ remote' = [remote EXCEPT ![P1] = k] /\ described' = [described EXCEPT ![P1] = described[P1] + 1]
                        /\ UNCHANGED <<conn, out, waits, fresh, phase>>
<1>12. /\ Plain \/ Answers \/ Describes
       /\ p = P2 /\ conn[P2] = None => Answers
  <2>0. p = P1 \/ p = P2
    BY Sides
  <2>1. ~(row.attempt # attempt[p])
    BY <1>5
  <2>2. CASE IsOffer(row)
    <3>1. HandleOffer(p, k)
      BY <1>2, <1>11, <2>1, <2>2 DEF IsOffer
    <3>2. CASE p = P1 \/ conn[p] \notin {None, k}
      BY <3>1, <3>2, Sides DEF HandleOffer, Refuse
    <3>3. CASE ~(p = P1 \/ conn[p] \notin {None, k})
      <4>1. p = P2 /\ conn[P2] = None
        BY <1>10, <2>0, <2>2, <3>3
      <4> QED BY <2>2, <3>1, <3>3, <4>1 DEF HandleOffer
    <3> QED BY <3>2, <3>3
  <2>3. CASE ~IsOffer(row)
    <3>1. ~(p = P2 /\ conn[P2] = None)
      BY <1>9, <2>3
    <3>2. CASE row.signal.kind = "answer"
      <4>1. HandleAnswer(p, k)
        BY <1>2, <1>11, <2>1, <2>3, <3>2
      <4>2. CASE Refuse(p)
        BY <3>1, <4>2 DEF Refuse
      <4>3. CASE Ignore
        BY <3>1, <4>3 DEF Ignore
      <4>4. CASE p = P1 /\ k = conn[P1] /\ remote[P1] = None /\ Describe(p, k)
        BY <3>1, <4>4 DEF Describe
      <4> QED BY <2>0, <4>1, <4>2, <4>3, <4>4 DEF HandleAnswer
    <3>3. CASE row.signal.kind # "answer"
      <4>1. HandleCandidate(p, k)
        BY <1>2, <1>11, <2>1, <2>3, <3>3
      <4>2. conn[p] # None
        BY <1>0, <2>0, <3>1 DEF Offering
      <4>3. conn' = conn
        BY <1>0, <4>1, <4>2 DEF HandleCandidate, WireTypes
      <4> QED BY <3>1, <4>1, <4>3 DEF HandleCandidate
    <3> QED BY <3>2, <3>3
  <2> QED BY <2>2, <2>3
<1>13. fresh.conn \in Nat /\ fresh.msg \in Nat /\ out[P2] \in Seq(Signal) /\ fresh'.conn = fresh.conn
  <2>1. fresh \in [conn : Nat, msg : Nat] /\ out[P2] \in Seq(Signal)
    BY <1>0, Sides DEF WireTypes
  <2>2. fresh' = fresh \/ fresh' = [fresh EXCEPT !.msg = fresh.msg + 1]
    BY <1>12
  <2> QED BY <2>1, <2>2
<1> DEFINE a == [kind |-> "answer", conn |-> k, msg |-> fresh.msg]
<1>14. a \in Signal /\ a.kind # "offer"
  BY <1>11, <1>13 DEF Signal
<1>15. /\ Append(out[P2], a) # <<>> /\ Len(Append(out[P2], a)) = Len(out[P2]) + 1 /\ Len(out[P2]) \in Nat
       /\ Elements(Append(out[P2], a)) \subseteq Elements(out[P2]) \cup {a}
  BY <1>13, <1>14, ChainElements
<1>16. /\ conn[P1] # None /\ conn'[P1] = conn[P1] /\ conn'[P2] < fresh.conn /\ conn'[P2] \in Nat
       /\ conn'[P2] = conn[P1] => attempt[P2] = attempt[P1]
  <2>1. CASE Answers
    <3>1. conn'[P2] = k /\ conn'[P1] = conn[P1]
      BY <1>0, <2>1, Sides DEF WireTypes
    <3> QED BY <1>0, <1>11, <2>1, <3>1 DEF Offering
  <2>2. CASE conn' = conn
    BY <1>0, <2>2, Sides DEF Offering, WireTypes
  <2> QED BY <1>12, <2>1, <2>2
<1>17. Attempts'
  <2>1. phase' = phase \/ phase' = [phase EXCEPT ![p] = "failed"]
    BY <1>12
  <2>2. \A q \in Player : phase'[q] = phase[q] \/ (q = p /\ phase[q] = "connecting" /\ phase'[q] = "failed")
    BY <1>0, <1>3, <2>1 DEF WireTypes
  <2> QED BY <1>0, <1>3, <2>2, Sides DEF Attempts
<1>18. Publishing'
  <2>1. CASE Plain \/ Describes
    <3>1. UNCHANGED <<out, waits, tries, answer>> /\ (phase' = phase \/ phase' = [phase EXCEPT ![p] = "failed"])
      BY <1>3, <2>1
    <3>2. \A q \in Player : phase'[q] = "connecting" => phase[q] = "connecting"
      BY <1>0, <1>3, <3>1 DEF WireTypes
    <3> QED BY <1>0, <3>1, <3>2 DEF Publishing
  <2>2. CASE Answers
    <3>1. out'[P2] = Append(out[P2], a) /\ waits'[P2] = Len(out[P2]) + 1 /\ phase[P2] = "connecting" /\ tries[P2] < PublishAttempts
      BY <1>0, <1>3, <2>2, Sides DEF WireTypes, Publishing
    <3>2. out'[P1] = out[P1] /\ waits'[P1] = waits[P1]
      BY <1>0, <2>2, Sides DEF WireTypes
    <3>3. out'[P2] # <<>> /\ waits'[P2] <= Len(out'[P2])
      BY <1>15, <3>1
    <3>4. phase' = phase /\ tries' = tries /\ answer' = answer
      BY <1>3, <2>2
    <3> QED BY <1>0, <3>1, <3>2, <3>3, <3>4, Sides DEF Publishing
  <2> QED BY <1>12, <2>1, <2>2
<1>19. Offering'
  <2>1. \A e \in Envelopes' : \E f \in Envelopes : f.signal = e.signal /\ f.attempt = e.attempt
    <3>1. \A q \in Player : Unread(q)' \subseteq Unread(q)
      BY <1>6 DEF Unread
    <3>2. Envelopes' \subseteq Envelopes
      BY <1>3, <3>1, Sides DEF Envelopes
    <3> QED BY <3>2
  <2>2. \A q \in Player : \A s \in Elements(out'[q]) : s \in Elements(out[q]) \/ s.kind # "offer"
    <3>1. CASE out' = out
      BY <3>1
    <3>2. CASE Answers
      <4>1. out' = [out EXCEPT ![P2] = Append(out[P2], a)]
        BY <3>2
      <4>2. \A q \in Player \ {P2} : out'[q] = out[q]
        BY <1>0, <4>1 DEF WireTypes
      <4>3. out'[P2] = Append(out[P2], a)
        BY <1>0, <4>1, Sides DEF WireTypes
      <4> HIDE DEF a
      <4> QED BY <1>14, <1>15, <4>2, <4>3
    <3> QED BY <1>12, <3>1, <3>2
  <2> QED BY <1>3, <1>13, <1>16, <2>1, <2>2, OfferingKept
<1>20. Initiated'
  <2>1. CASE Plain \/ Answers
    <3>1. conn'[P1] = conn[P1] /\ remote'[P1] = remote[P1] /\ described'[P1] = described[P1]
      BY <1>0, <2>1, Sides DEF WireTypes
    <3> QED BY <1>0, <3>1 DEF Initiated
  <2>2. CASE Describes
    <3>1. conn'[P1] = conn[P1] /\ remote'[P1] = conn[P1] /\ described'[P1] = described[P1] + 1
      BY <1>0, <2>2, Sides DEF WireTypes
    <3> QED BY <1>0, <1>16, <2>2, <3>1, SomeAttempts DEF Initiated
  <2> QED BY <1>12, <2>1, <2>2
<1>21. Describing'
  <2>1. batch'[P2] \subseteq batch[P2]
    BY <1>6, Sides
  <2>2. cursor[P2] \in Nat /\ cursor'[P2] \in Nat /\ cursor[P2] <= cursor'[P2]
    <3>1. cursor[P2] \in Nat /\ cursor'[P2] \in Nat
      BY <1>0, <1>1, Sides DEF WireTypes
    <3>2. cursor'[P2] = cursor[P2] \/ (p = P2 /\ cursor'[P2] = IF row.id > cursor[P2] THEN row.id ELSE cursor[P2])
      BY <1>6, Sides
    <3> QED BY <1>4, <3>1, <3>2
  <2>3. \A r \in batch'[P2], other \in batch'[P2] :
            IsOffer(r) /\ IsOffer(other) /\ r.signal.conn = other.signal.conn => r = other
    BY <1>0, <2>1 DEF Describing
  <2>4. CASE Answers
    <3>1. conn'[P2] = k /\ remote'[P2] = k /\ described'[P2] = 1 /\ k # None
      BY <1>0, <1>11, <2>4, Sides, SomeAttempts DEF WireTypes, Describing
    <3>2. \A r \in batch'[P2] : ~(IsOffer(r) /\ r.signal.conn = k)
      BY <1>0, <1>6, <1>11, <2>4 DEF Describing
    <3>3. Taken'
      <4>1. row.id <= cursor'[P2]
        BY <1>4, <1>6, <2>4
      <4>2. row.from = P1 /\ row.attempt = attempt[P2] /\ (attempt[P2] = current => row \in rows)
        BY <1>5, <2>4, Sides
      <4> QED BY <1>3, <1>11, <2>4, <3>1, <4>1, <4>2 DEF Taken, IsOffer
    <3> QED BY <2>3, <3>1, <3>2, <3>3 DEF Describing, IsOffer
  <2>5. CASE ~Answers
    <3>1. conn'[P2] = conn[P2] /\ remote'[P2] = remote[P2] /\ described'[P2] = described[P2]
      BY <1>0, <1>12, <2>5, Sides DEF WireTypes
    <3>2. Taken => Taken'
      <4>1. \A r \in rows : r.id \in Nat
        BY <1>0 DEF WireTypes, Row
      <4> QED BY <1>3, <2>2, <3>1, <4>1 DEF Taken, IsOffer
    <3>3. CASE conn[P2] # None
      BY <1>0, <2>1, <2>3, <3>1, <3>2, <3>3 DEF Describing, IsOffer
    <3>4. CASE conn[P2] = None
      <4>1. p = P1 /\ batch'[P2] = batch[P2]
        BY <1>6, <1>12, <2>5, <3>4, Sides
      <4> QED BY <1>0, <2>3, <3>1, <3>4, <4>1 DEF Describing, IsOffer, IsFirst
    <3> QED BY <3>3, <3>4
  <2> QED BY <2>4, <2>5
<1> QED BY <1>1, <1>7, <1>8, <1>17, <1>18, <1>19, <1>20, <1>21 DEF Negotiating

(* A change of the phases keeps the rest, whatever is no longer handled.   *)
LEMMA PhaseKeeps ==
    ASSUME Negotiating, WireTypes', Attempts',
           UNCHANGED <<mailbox, sender, cursor, held, got, attempt, conn, remote, described, fresh>>,
           \A q \in Player : batch'[q] \in {batch[q], {}},
           \A q \in Player : phase'[q] = "connecting" => phase[q] = "connecting"
    PROVE  Negotiating'
<1>0. /\ WireTypes /\ Numbered /\ Publishing /\ Offering /\ Reading /\ Describing
      /\ UNCHANGED <<rows, nextId, current, requests, clearing, out, tries, waits, answer>>
  BY DEF Negotiating, mailbox, sender
<1>1. Numbered' /\ Initiated'
  BY <1>0, FramesKeep
<1>2. Publishing'
  BY <1>0 DEF Publishing
<1>3. Offering'
  <2>1. \A e \in Envelopes' : \E f \in Envelopes : f.signal = e.signal /\ f.attempt = e.attempt
    <3>1. \A q \in Player : Unread(q)' \subseteq Unread(q)
      BY DEF Unread
    <3>2. Envelopes' \subseteq Envelopes
      BY <1>0, <3>1, Sides DEF Envelopes
    <3> QED BY <3>2
  <2>2. \A q \in Player : \A s \in Elements(out'[q]) : s \in Elements(out[q]) \/ s.kind # "offer"
    BY <1>0
  <2> QED BY <1>0, <2>1, <2>2, OfferingKept DEF Offering
<1>4. Reading'
  <2>1. \A q \in Player : batch'[q] \subseteq batch[q]
    OBVIOUS
  <2>2. ASSUME NEW q \in Player
        PROVE  \A row \in rows : row.attempt = attempt[q] /\ row.from = Peer(q) =>
                  /\ row.id <= cursor[q] => row.id \in got[q]
                  /\ row.id > cursor[q] => \A b \in batch'[q] : row.id <= b.id => row \in batch'[q]
    <3>1. CASE batch'[q] = batch[q]
      BY <1>0, <3>1 DEF Reading
    <3>2. CASE batch'[q] = {}
      BY <1>0, <3>2 DEF Reading
    <3> QED BY <3>1, <3>2
  <2>3. \A q \in Player :
          /\ \A row \in Unread(q)' : row.attempt = attempt[q] /\ row.from = Peer(q) /\ row.id < nextId
          /\ attempt[q] = current => Unread(q)' \subseteq rows
          /\ \A row \in held[q] : row.id <= cursor[q]
          /\ cursor[q] < nextId
    BY <1>0, <2>1 DEF Reading, Unread
  <2> QED BY <1>0, <2>2, <2>3 DEF Reading, Unread
<1>5. Describing'
  <2>1. CASE batch'[P2] = batch[P2]
    BY <1>0, <2>1 DEF Describing, Taken, IsFirst, IsOffer
  <2>2. CASE batch'[P2] = {}
    BY <1>0, <2>2 DEF Describing, Taken, IsFirst, IsOffer
  <2> QED BY <2>1, <2>2, Sides
<1> QED BY <1>1, <1>2, <1>3, <1>4, <1>5 DEF Negotiating

(* A channel opens, is given up or lost, or a poll is refused for good.    *)
LEMMA PhasesKeep ==
    ASSUME Negotiating, NEW p \in Player,
           Open(p) \/ GiveUp(p) \/ PollRefused(p) \/ LoseChannel(p) \/ PeerGone(p)
    PROVE  Negotiating'
<1>0. WireTypes /\ Attempts /\ Offering
  BY DEF Negotiating
<1>1. WireTypes'
  BY <1>0, ReadTypes, LinkTypes
<1>2. CASE Open(p)
  <2>1. /\ UNCHANGED <<mailbox, sender, cursor, held, got, attempt, conn, remote, described, fresh>>
        /\ phase[p] = "connecting" /\ phase' = [phase EXCEPT ![p] = "open"] /\ batch' = [batch EXCEPT ![p] = {}]
        /\ phase[Peer(p)] \in {"connecting", "open"} /\ conn[Peer(p)] = conn[p]
    BY <1>2 DEF Open, Described
  <2>2. UNCHANGED <<current, clearing>>
    BY <2>1 DEF mailbox
  <2>3. attempt[p] = attempt[Peer(p)]
    BY <1>0, <2>1, Sides DEF Offering
  <2>4. \A q \in Player : phase'[q] = phase[q] \/ q = p
    BY <1>0, <2>1 DEF WireTypes
  <2>5. clearing[p] = None /\ clearing[Peer(p)] = None
    BY <1>0, <2>1, Sides DEF Attempts
  <2>6. Attempts'
    <3>1. ASSUME NEW q \in Player
          PROVE  /\ attempt[q] <= current
                 /\ phase'[q] \in {"open", "recovering"} => attempt[q] <= attempt[Peer(q)]
                 /\ clearing[q] = None
      <4>1. q = p \/ q = Peer(p)
        BY Sides
      <4>2. attempt[p] \in Nat
        BY <1>0 DEF WireTypes
      <4> QED BY <1>0, <2>3, <2>4, <2>5, <4>1, <4>2, Sides DEF Attempts
    <3> QED BY <2>1, <2>2, <3>1 DEF Attempts
  <2>7. \A q \in Player : batch'[q] \in {batch[q], {}}
    BY <1>0, <2>1 DEF WireTypes
  <2>8. \A q \in Player : phase'[q] = "connecting" => phase[q] = "connecting"
    BY <2>1, <2>4
  <2> QED BY <1>1, <2>1, <2>6, <2>7, <2>8, PhaseKeeps
<1>3. CASE GiveUp(p) \/ PollRefused(p) \/ LoseChannel(p) \/ PeerGone(p)
  <2>1. /\ UNCHANGED <<mailbox, sender, receiver, attempt, conn, remote, described, fresh>>
        /\ \/ phase[p] \in {"connecting", "recovering"} /\ phase' = [phase EXCEPT ![p] = "failed"]
           \/ phase[p] = "open" /\ phase' \in {[phase EXCEPT ![p] = "recovering"], [phase EXCEPT ![p] = "failed"]}
    <3>1. CASE GiveUp(p) \/ PollRefused(p)
      BY <3>1 DEF GiveUp, PollRefused
    <3>2. CASE LoseChannel(p) \/ PeerGone(p)
      BY <3>2 DEF LoseChannel, PeerGone, Recover
    <3> QED BY <1>3, <3>1, <3>2
  <2>2. UNCHANGED <<current, clearing, cursor, held, batch, got>>
    BY <2>1 DEF mailbox, receiver
  <2>3. \A q \in Player : \/ phase'[q] = phase[q]
                          \/ phase[q] \in {"connecting", "recovering"} /\ phase'[q] = "failed"
                          \/ phase[q] = "open" /\ phase'[q] \in {"recovering", "failed"}
    BY <1>0, <2>1 DEF WireTypes
  <2>4. Attempts'
    BY <1>0, <2>1, <2>2, <2>3, Sides DEF Attempts
  <2>5. \A q \in Player : phase'[q] = "connecting" => phase[q] = "connecting"
    BY <2>3
  <2> QED BY <1>1, <2>1, <2>2, <2>4, <2>5, PhaseKeeps
<1> QED BY <1>2, <1>3

(* A candidate is queued.                                                  *)
LEMMA GatherKeeps == ASSUME Negotiating, NEW p \in Player, Gather(p) PROVE Negotiating'
<1>0. WireTypes /\ Publishing /\ Offering
  BY DEF Negotiating
<1>1. WireTypes'
  BY <1>0, LinkTypes
<1> DEFINE a == [kind |-> "candidate", conn |-> conn[p], msg |-> fresh.msg]
<1>2. /\ UNCHANGED <<current, clearing, rows, nextId, requests, tries, answer, cursor, held, batch, got, phase,
                     attempt, conn, remote, described>>
      /\ phase[p] = "connecting" /\ out' = [out EXCEPT ![p] = Append(out[p], a)]
      /\ waits' = [waits EXCEPT ![p] = IF waits[p] > 0 THEN waits[p] + 1 ELSE 0]
      /\ fresh' = [fresh EXCEPT !.msg = fresh.msg + 1]
  BY DEF Gather, mailbox, receiver, link
<1>3. Numbered' /\ Attempts' /\ Reading' /\ Initiated' /\ Describing'
  BY <1>2, FramesKeep
<1>4. /\ fresh \in [conn : Nat, msg : Nat] /\ conn[p] \in Nat /\ out[p] \in Seq(Signal) /\ waits[p] \in Nat
      /\ waits[p] <= Len(out[p]) /\ tries[p] < PublishAttempts
  BY <1>0, <1>2 DEF WireTypes, Publishing
<1>5. a \in Signal /\ a.kind # "offer" /\ fresh'.conn = fresh.conn
  BY <1>2, <1>4 DEF Signal
<1>6. /\ Append(out[p], a) # <<>> /\ Len(Append(out[p], a)) = Len(out[p]) + 1 /\ Len(out[p]) \in Nat
      /\ Elements(Append(out[p], a)) \subseteq Elements(out[p]) \cup {a}
  BY <1>4, <1>5, ChainElements
<1> HIDE DEF a
<1>7. /\ out'[p] = Append(out[p], a) /\ waits'[p] = (IF waits[p] > 0 THEN waits[p] + 1 ELSE 0)
      /\ \A q \in Player \ {p} : out'[q] = out[q] /\ waits'[q] = waits[q]
  BY <1>0, <1>2 DEF WireTypes
<1>8. Publishing'
  <2>1. out'[p] # <<>> /\ waits'[p] <= Len(out'[p])
    BY <1>4, <1>6, <1>7
  <2> QED BY <1>0, <1>2, <1>4, <1>7, <2>1 DEF Publishing
<1>9. Offering'
  <2>1. \A e \in Envelopes' : \E f \in Envelopes : f.signal = e.signal /\ f.attempt = e.attempt
    BY <1>2 DEF Envelopes, Unread
  <2>2. \A q \in Player : \A s \in Elements(out'[q]) : s \in Elements(out[q]) \/ s.kind # "offer"
    BY <1>5, <1>6, <1>7
  <2> QED BY <1>0, <1>2, <1>5, <2>1, <2>2, OfferingKept DEF Offering
<1> QED BY <1>1, <1>3, <1>8, <1>9 DEF Negotiating

(* The attempt is advanced, or found to have been.                         *)
LEMMA AdvanceKeeps == ASSUME Negotiating, NEW p \in Player, Advance(p) PROVE Negotiating' /\ current <= current'
<1>0. WireTypes /\ Numbered /\ Attempts /\ Offering /\ Reading /\ Describing
  BY DEF Negotiating
<1>1. WireTypes'
  BY <1>0, LinkTypes
<1>2. /\ UNCHANGED <<rows, nextId, requests, sender, receiver, link, fresh>>
      /\ phase[p] = "recovering" /\ clearing[p] = None
      /\ current' = (IF attempt[p] = current THEN current + 1 ELSE current)
      /\ clearing' = [clearing EXCEPT ![p] = current']
  BY DEF Advance
<1>3. UNCHANGED <<out, tries, waits, answer, cursor, held, batch, got, phase, attempt, conn, remote, described>>
  BY <1>2 DEF sender, receiver, link
<1>4. /\ current \in Nat /\ current' \in Nat /\ current <= current' /\ (current' # current => current < current')
      /\ \A q \in Player : attempt[q] \in Nat /\ attempt[q] <= current
  BY <1>0, <1>2 DEF WireTypes, Attempts
<1>5. \A q \in Player : attempt[q] = current' => attempt[q] = current
  BY <1>4
<1>6. Publishing' /\ Initiated'
  BY <1>3, FramesKeep
<1>7. Numbered'
  <2>1. /\ \A row \in rows : row.attempt \in Nat /\ row.attempt <= current'
        /\ \A r \in requests : r.attempt \in Nat /\ r.attempt <= current'
    <3>1. ASSUME NEW row \in rows PROVE row.attempt \in Nat /\ row.attempt <= current'
      <4>1. row.attempt \in Nat /\ row.attempt <= current
        BY <1>0 DEF WireTypes, Row, Numbered
      <4> QED BY <1>4, <4>1
    <3>2. ASSUME NEW r \in requests PROVE r.attempt \in Nat /\ r.attempt <= current'
      <4>1. r.attempt \in Nat /\ r.attempt <= current
        BY <1>0 DEF WireTypes, Request, Numbered
      <4> QED BY <1>4, <4>1
    <3> QED BY <3>1, <3>2
  <2> QED BY <1>0, <1>2, <2>1 DEF Numbered
<1>8. Reading'
  BY <1>0, <1>2, <1>3, <1>5 DEF Reading, Unread
<1>9. Describing'
  <2>1. Taken => Taken'
    BY <1>2, <1>3, <1>5, Sides DEF Taken, IsOffer
  <2> QED BY <1>0, <1>3, <2>1 DEF Describing, IsFirst, IsOffer
<1>10. Offering'
  BY <1>0, <1>2, <1>3 DEF Offering, Offers, Envelopes, Unread, Elements, IsOffer
<1>11. Attempts'
  <2>1. /\ clearing'[p] = current' /\ clearing'[Peer(p)] = clearing[Peer(p)]
    BY <1>0, <1>2, Sides DEF WireTypes
  <2>2. phase[Peer(p)] \in {"open", "recovering"} => attempt[Peer(p)] < current'
    <3>1. CASE attempt[p] = current
      BY <1>2, <1>4, <3>1, Sides
    <3>2. CASE attempt[p] # current
      <4>1. ASSUME phase[Peer(p)] \in {"open", "recovering"} PROVE attempt[Peer(p)] <= attempt[p]
        BY <1>0, <4>1, Sides DEF Attempts
      <4> QED BY <1>2, <1>4, <3>2, <4>1, Sides
    <3> QED BY <3>1, <3>2
  <2>3. clearing[Peer(p)] # None => current' = current
    <3>1. clearing[Peer(p)] # None => attempt[p] < current
      BY <1>0, <1>2, Sides DEF Attempts
    <3> QED BY <1>2, <1>4, <3>1
  <2>4. ASSUME NEW q \in Player
        PROVE  /\ attempt[q] <= current'
               /\ phase[q] \in {"open", "recovering"} => attempt[q] <= attempt[Peer(q)]
               /\ clearing'[q] # None =>
                     /\ clearing'[q] = current'
                     /\ phase[q] \in {"recovering", "failed"}
                     /\ phase[Peer(q)] \in {"open", "recovering"} => attempt[Peer(q)] < current'
    <3>1. attempt[q] <= current' /\ (phase[q] \in {"open", "recovering"} => attempt[q] <= attempt[Peer(q)])
      BY <1>0, <1>4 DEF Attempts
    <3>2. CASE q = p
      BY <1>2, <2>1, <2>2, <3>1, <3>2
    <3>3. CASE q # p
      <4>1. q = Peer(p)
        BY <3>3, Sides
      <4> QED BY <1>0, <2>1, <2>3, <3>1, <4>1 DEF Attempts
    <3> QED BY <3>2, <3>3
  <2> QED BY <1>3, <2>4 DEF Attempts
<1> QED BY <1>1, <1>4, <1>6, <1>7, <1>8, <1>9, <1>10, <1>11 DEF Negotiating

(* What has been read of an attempt that is kept is kept.                  *)
LEMMA KeptMail ==
    ASSUME Negotiating, NEW q \in Player, UNCHANGED <<current, nextId>>, rows' \subseteq rows,
           \A row \in rows : row.attempt = current => row \in rows',
           UNCHANGED <<held[q], batch[q], cursor[q], got[q], attempt[q]>>
    PROVE  /\ \A row \in Unread(q)' : row.attempt = attempt[q] /\ row.from = Peer(q) /\ row.id < nextId
           /\ attempt[q] = current => Unread(q)' \subseteq rows'
           /\ \A row \in held'[q] : row.id <= cursor'[q]
           /\ cursor'[q] < nextId
           /\ \A row \in rows' : row.attempt = attempt[q] /\ row.from = Peer(q) =>
                 /\ row.id <= cursor'[q] => row.id \in got'[q]
                 /\ row.id > cursor'[q] => \A b \in batch'[q] : row.id <= b.id => row \in batch'[q]
<1>1. Reading /\ Unread(q)' = Unread(q)
  BY DEF Negotiating, Unread
<1>2. attempt[q] = current => Unread(q) \subseteq rows'
  BY <1>1 DEF Reading
<1> QED BY <1>1, <1>2 DEF Reading

(* Nothing of the current attempt leaves the mailbox.                      *)
LEMMA ShrinkKeeps ==
    ASSUME Negotiating, NEW p \in Player, rows' \subseteq rows, \A row \in rows : row.attempt = current => row \in rows',
           clearing' = [clearing EXCEPT ![p] = None],
           UNCHANGED <<current, nextId, requests, sender, receiver, link, fresh>>
    PROVE  Negotiating'
<1>0. /\ WireTypes /\ Numbered /\ Attempts /\ Offering /\ Reading /\ Describing
      /\ UNCHANGED <<out, tries, waits, gathered, answer, cursor, held, batch, got, phase, attempt, conn, remote,
                     described, heard, recovered>>
  BY DEF Negotiating, sender, receiver, link
<1>1. WireTypes'
  BY <1>0 DEF WireTypes, None
<1>2. Publishing' /\ Initiated'
  BY <1>0, FramesKeep
<1>3. Numbered'
  BY <1>0 DEF Numbered
<1>4. Attempts'
  <2>1. \A q \in Player : clearing'[q] \in {clearing[q], None}
    BY <1>0 DEF WireTypes
  <2> QED BY <1>0, <2>1 DEF Attempts
<1>5. Offering'
  <2>1. \A e \in Envelopes' : \E f \in Envelopes : f.signal = e.signal /\ f.attempt = e.attempt
    BY <1>0 DEF Envelopes, Unread
  <2>2. \A q \in Player : \A s \in Elements(out'[q]) : s \in Elements(out[q]) \/ s.kind # "offer"
    BY <1>0
  <2> QED BY <1>0, <2>1, <2>2, OfferingKept DEF Offering
<1>6. Reading'
  BY <1>0, KeptMail DEF Reading
<1>7. Describing'
  <2>1. Taken => Taken'
    BY <1>0 DEF Taken, IsOffer
  <2> QED BY <1>0, <2>1 DEF Describing, IsFirst, IsOffer
<1> QED BY <1>1, <1>2, <1>3, <1>4, <1>5, <1>6, <1>7 DEF Negotiating

(* A negotiation begins, on the attempt the player used or a later one.    *)
LEMMA ConnectKeeps ==
    ASSUME Negotiating, NEW p \in Player, NEW g \in Nat, attempt[p] <= g, g <= current, Connect(p, g),
           rows' \subseteq rows, \A row \in rows : row.attempt = current => row \in rows',
           clearing'[p] = None, \A q \in Player \ {p} : clearing'[q] = clearing[q], clearing' \in [Player -> Nat],
           UNCHANGED <<current, nextId, requests>>
    PROVE  Negotiating'
<1>0. WireTypes /\ Numbered /\ Attempts /\ Publishing /\ Offering /\ Reading /\ Initiated /\ Describing
  BY DEF Negotiating
<1>1. WireTypes'
  <2>1. rows' \in SUBSET Row
    BY <1>0 DEF WireTypes
  <2> QED BY <1>0, <2>1, ConnectTypes
<1> DEFINE o == [kind |-> "offer", conn |-> fresh.conn, msg |-> fresh.msg]
<1>2. /\ attempt'[p] = g /\ phase'[p] = "connecting" /\ conn'[p] = (IF p = P1 THEN fresh.conn ELSE None)
      /\ remote'[p] = None /\ described'[p] = 0 /\ out'[p] = (IF p = P1 THEN <<o>> ELSE <<>>)
      /\ waits'[p] = (IF p = P1 THEN 1 ELSE 0) /\ tries'[p] = 0 /\ answer'[p] = "none"
      /\ cursor'[p] = 0 /\ held'[p] = {} /\ batch'[p] = {} /\ got'[p] = {}
  BY <1>0 DEF Connect, WireTypes
<1>3. ASSUME NEW q \in Player \ {p}
      PROVE  UNCHANGED <<attempt[q], phase[q], conn[q], remote[q], described[q], out[q], waits[q], tries[q],
                         answer[q], cursor[q], held[q], batch[q], got[q]>>
  BY <1>0 DEF Connect, WireTypes
<1>4. /\ fresh.conn \in Nat /\ fresh.msg \in Nat /\ conn[P1] \in Nat /\ conn[P2] \in Nat
      /\ fresh' = (IF p = P1 THEN [conn |-> fresh.conn + 1, msg |-> fresh.msg + 1] ELSE fresh)
      /\ current \in Nat /\ \A q \in Player : attempt[q] \in Nat
  BY <1>0, Sides DEF Connect, WireTypes
<1>5. Numbered'
  BY <1>0 DEF Numbered
<1>6. Attempts'
  <2>1. ASSUME NEW q \in Player
        PROVE  /\ attempt'[q] <= current
               /\ phase'[q] \in {"open", "recovering"} => attempt'[q] <= attempt'[Peer(q)]
               /\ clearing'[q] # None =>
                     /\ clearing'[q] = current
                     /\ phase'[q] \in {"recovering", "failed"}
                     /\ phase'[Peer(q)] \in {"open", "recovering"} => attempt'[Peer(q)] < current
    <3>1. CASE q = p
      BY <1>2, <3>1
    <3>2. CASE q # p
      <4>1. Peer(q) = p /\ UNCHANGED <<attempt[q], phase[q], clearing[q]>>
        BY <1>3, <3>2, Sides
      <4>2. phase[q] \in {"open", "recovering"} => attempt[q] <= g
        BY <1>0, <1>4, <4>1 DEF Attempts
      <4> QED BY <1>0, <1>2, <4>1, <4>2 DEF Attempts
    <3> QED BY <3>1, <3>2
  <2> QED BY <2>1 DEF Attempts
<1>7. Publishing'
  <2>1. o \in Signal
    BY <1>4 DEF Signal
  <2>2. Len(<<o>>) = 1 /\ <<o>> # <<>> /\ Len(<<>>) = 0
    OBVIOUS
  <2>3. waits'[p] <= Len(out'[p]) /\ tries'[p] < PublishAttempts /\ tries'[p] <= PublishAttempts
    BY <1>2, <2>2, SomeAttempts
  <2>4. ASSUME NEW q \in Player
        PROVE  /\ answer'[q] # "none" => out'[q] # <<>>
               /\ waits'[q] <= Len(out'[q])
               /\ tries'[q] <= PublishAttempts
               /\ out'[q] # <<>> \/ phase'[q] = "connecting" => tries'[q] < PublishAttempts
    <3>1. CASE q = p
      BY <1>2, <2>3, <3>1
    <3>2. CASE q # p
      BY <1>0, <1>3, <3>2 DEF Publishing
    <3> QED BY <3>1, <3>2
  <2> QED BY <2>4 DEF Publishing
<1>8. \A q \in Player : Unread(q)' \subseteq Unread(q)
  <2>1. Unread(p)' = {}
    BY <1>2 DEF Unread
  <2>2. \A q \in Player \ {p} : Unread(q)' = Unread(q)
    BY <1>3 DEF Unread
  <2> QED BY <2>1, <2>2
<1>9. Envelopes' \subseteq Envelopes
  BY <1>8, Sides DEF Envelopes
<1>10. Offering'
  <2>1. CASE p = P1
    <3>1. /\ out'[P1] = <<o>> /\ UNCHANGED <<out[P2], conn[P2], attempt[P2]>> /\ conn'[P1] = fresh.conn
          /\ fresh'.conn = fresh.conn + 1
      BY <1>2, <1>3, <1>4, <2>1, Sides
    <3>2. Elements(<<o>>) = {o} /\ o.kind = "offer" /\ o.conn = fresh.conn
      BY DEF Elements
    <3>3. Offers' \subseteq Offers \cup {o}
      <4> SUFFICES ASSUME NEW s \in Offers', s # o PROVE s \in Offers
        OBVIOUS
      <4>1. s \in Signal /\ s.kind = "offer"
            /\ ((\E e \in Envelopes' : e.signal = s) \/ (\E q \in Player : s \in Elements(out'[q])))
        BY DEF Offers, Elements
      <4>2. ASSUME NEW q \in Player, s \in Elements(out'[q]) PROVE s \in Elements(out[q])
        <5> HIDE DEF o
        <5>1. q # P1
          BY <3>1, <3>2, <4>2
        <5> QED BY <3>1, <4>2, <5>1, Sides
      <4> QED BY <1>9, <4>1, <4>2 DEF Offers
    <3>4. \A s \in Offers : s.conn \in Nat /\ 0 < s.conn /\ s.conn < fresh.conn
      BY <1>0 DEF Offering, Offers, Signal
    <3> HIDE DEF o
    <3>5. 0 < fresh.conn /\ conn[P2] < fresh.conn
      BY <1>0, <1>4, SomeAttempts DEF Offering
    <3>6. \A s \in Offers' : 0 < s.conn /\ s.conn < fresh'.conn
      BY <1>4, <3>1, <3>2, <3>3, <3>4, <3>5
    <3>7. \A s \in Offers', t \in Offers' : s.conn = t.conn => s.msg = t.msg
      <4>1. \A s \in Offers, t \in Offers : s.conn = t.conn => s.msg = t.msg
        BY <1>0 DEF Offering
      <4>2. \A s \in Offers : s.conn # o.conn
        BY <1>4, <3>2, <3>4
      <4> QED BY <3>3, <4>1, <4>2
    <3>8. \A e \in Envelopes' : IsOffer(e) => e.signal.conn # conn'[P1]
      <4>1. \A e \in Envelopes' : IsOffer(e) => e.signal \in Offers
        BY <1>0, <1>9, CarriedOffers
      <4> QED BY <1>4, <3>1, <3>4, <4>1
    <3>9. \A s \in Elements(out[P2])' : s.kind # "offer"
      <4>1. Elements(out[P2])' = Elements(out[P2])
        BY <3>1 DEF Elements
      <4> QED BY <1>0, <4>1 DEF Offering
    <3>10. /\ conn'[P1] # None /\ conn'[P1] < fresh'.conn /\ conn'[P2] < fresh'.conn
           /\ conn'[P2] = conn'[P1] => attempt'[P2] = attempt'[P1]
      BY <1>4, <3>1, <3>5, SomeAttempts
    <3> QED BY <3>6, <3>7, <3>8, <3>9, <3>10 DEF Offering
  <2>2. CASE p = P2
    <3>1. /\ out'[P2] = <<>> /\ UNCHANGED <<out[P1], conn[P1], attempt[P1], fresh>> /\ conn'[P2] = None
      BY <1>2, <1>3, <1>4, <2>2, Sides
    <3>2. Elements(<<>>) = {}
      BY DEF Elements
    <3>3. Offers' \subseteq Offers
      <4> SUFFICES ASSUME NEW s \in Offers' PROVE s \in Offers
        OBVIOUS
      <4>1. s \in Signal /\ s.kind = "offer"
            /\ ((\E e \in Envelopes' : e.signal = s) \/ (\E q \in Player : s \in Elements(out'[q])))
        BY DEF Offers, Elements
      <4>2. ASSUME NEW q \in Player, s \in Elements(out'[q]) PROVE s \in Elements(out[q])
        BY <3>1, <3>2, <4>2, Sides
      <4> QED BY <1>9, <4>1, <4>2 DEF Offers
    <3>4. Elements(out[P2])' = {}
      BY <3>1 DEF Elements
    <3>5. 0 < fresh.conn /\ conn[P1] # None
      BY <1>0, <1>4, SomeAttempts DEF Offering
    <3>6. /\ conn'[P1] # None /\ conn'[P1] < fresh'.conn /\ conn'[P2] < fresh'.conn
          /\ conn'[P2] = conn'[P1] => attempt'[P2] = attempt'[P1]
      BY <1>0, <3>1, <3>5, SomeAttempts DEF Offering
    <3>7. \A e \in Envelopes' : IsOffer(e) /\ e.signal.conn = conn'[P1] => e.attempt = attempt'[P1]
      BY <1>0, <1>9, <3>1 DEF Offering
    <3>8. \A s \in Offers' : 0 < s.conn /\ s.conn < fresh'.conn
      BY <1>0, <3>1, <3>3 DEF Offering
    <3>9. \A s \in Offers', t \in Offers' : s.conn = t.conn => s.msg = t.msg
      BY <1>0, <3>3 DEF Offering
    <3> QED BY <3>4, <3>6, <3>7, <3>8, <3>9 DEF Offering
  <2> QED BY <2>1, <2>2, Sides
<1>11. Reading'
  <2>1. nextId \in Nat /\ nextId > 0 /\ \A row \in rows' : row.id \in Nat /\ 0 < row.id
    BY <1>0 DEF WireTypes, Numbered, Row
  <2>2. ASSUME NEW q \in Player
        PROVE  /\ \A row \in Unread(q)' : row.attempt = attempt'[q] /\ row.from = Peer(q) /\ row.id < nextId
               /\ attempt'[q] = current => Unread(q)' \subseteq rows'
               /\ \A row \in held'[q] : row.id <= cursor'[q]
               /\ cursor'[q] < nextId
               /\ \A row \in rows' : row.attempt = attempt'[q] /\ row.from = Peer(q) =>
                     /\ row.id <= cursor'[q] => row.id \in got'[q]
                     /\ row.id > cursor'[q] => \A b \in batch'[q] : row.id <= b.id => row \in batch'[q]
    <3>1. CASE q = p
      <4>1. Unread(p)' = {}
        BY <1>2 DEF Unread
      <4>2. \A row \in rows' : ~(row.id <= cursor'[p])
        BY <1>2, <2>1
      <4>3. cursor'[p] < nextId
        BY <1>2, <2>1
      <4> QED BY <1>2, <3>1, <4>1, <4>2, <4>3
    <3>2. CASE q # p
      <4>1. UNCHANGED <<held[q], batch[q], cursor[q], got[q], attempt[q]>>
        BY <1>3, <3>2
      <4> QED BY <4>1, KeptMail
    <3> QED BY <3>1, <3>2
  <2> QED BY <2>2 DEF Reading
<1>12. Initiated'
  <2>1. CASE p = P1
    BY <1>2, <2>1 DEF Initiated
  <2>2. CASE p # P1
    BY <1>0, <1>3, <2>2, Sides DEF Initiated
  <2> QED BY <2>1, <2>2
<1>13. Describing'
  <2>1. CASE p = P2
    BY <1>2, <2>1, Sides DEF Describing
  <2>2. CASE p # P2
    <3>1. UNCHANGED <<attempt[P2], conn[P2], remote[P2], described[P2], cursor[P2], batch[P2]>>
      BY <1>3, <2>2, Sides
    <3>2. Taken => Taken'
      BY <3>1 DEF Taken, IsOffer
    <3> QED BY <1>0, <3>1, <3>2 DEF Describing, IsFirst, IsOffer
  <2> QED BY <2>1, <2>2
<1> QED BY <1>1, <1>5, <1>6, <1>7, <1>10, <1>11, <1>12, <1>13 DEF Negotiating

(* What a player clears leaves the current attempt alone.                  *)
LEMMA ClearSpares ==
    ASSUME Negotiating, NEW p \in Player, Clear(p)
    PROVE  rows' \subseteq rows /\ clearing[p] = current /\ \A row \in rows : row.attempt = current => row \in rows'
BY DEF Negotiating, Attempts, Clear, Superseded

(* A player clears the mailbox, or negotiates its attempt afresh.          *)
LEMMA RenewKeeps == ASSUME Negotiating, NEW p \in Player, Clear(p) \/ Restart(p) PROVE Negotiating'
<1>0. WireTypes /\ Attempts
  BY DEF Negotiating
<1>1. current \in Nat /\ attempt[p] \in Nat /\ attempt[p] <= current
  BY <1>0 DEF WireTypes, Attempts
<1>2. CASE Clear(p)
  <2>1. /\ UNCHANGED <<current, nextId, requests, recovered>> /\ clearing' = [clearing EXCEPT ![p] = None]
        /\ IF phase[p] = "recovering" THEN Connect(p, current)
           ELSE UNCHANGED <<sender, receiver, phase, attempt, conn, remote, described, heard, fresh>>
    BY <1>2, ClearSpares DEF Clear
  <2>2. rows' \subseteq rows /\ \A row \in rows : row.attempt = current => row \in rows'
    BY <1>2, ClearSpares
  <2>3. CASE phase[p] = "recovering"
    <3>1. clearing'[p] = None /\ clearing' \in [Player -> Nat] /\ \A q \in Player \ {p} : clearing'[q] = clearing[q]
      BY <1>0, <2>1 DEF WireTypes, None
    <3>2. Connect(p, current)
      BY <2>1, <2>3
    <3>3. current <= current
      BY <1>1
    <3> QED BY <1>1, <2>1, <2>2, <3>1, <3>2, <3>3, ConnectKeeps
  <2>4. CASE phase[p] # "recovering"
    <3>1. UNCHANGED <<sender, receiver, link, fresh>>
      BY <2>1, <2>4 DEF link
    <3> QED BY <2>1, <2>2, <3>1, ShrinkKeeps
  <2> QED BY <2>3, <2>4
<1>3. CASE Restart(p)
  <2>1. UNCHANGED <<current, clearing, rows, nextId, requests>> /\ Connect(p, attempt[p]) /\ phase[p] = "connecting"
    BY <1>3 DEF Restart, mailbox
  <2>2. clearing[p] = None /\ clearing' \in [Player -> Nat]
    BY <1>0, <2>1 DEF Attempts, WireTypes
  <2>3. attempt[p] <= attempt[p]
    BY <1>1
  <2> QED BY <1>1, <2>1, <2>2, <2>3, ConnectKeeps
<1> QED BY <1>2, <1>3

-----------------------------------------------------------------------------
(* The first negotiation.                                                  *)
LEMMA NegotiatingStart == Start => Negotiating
<1> SUFFICES ASSUME Start PROVE Negotiating
  OBVIOUS
<1> DEFINE o == [kind |-> "offer", conn |-> 1, msg |-> 1]
<1>1. o \in Signal
  BY DEF Signal
<1>2. /\ rows = {} /\ requests = {} /\ current = 1 /\ nextId = 1 /\ fresh = [conn |-> 2, msg |-> 2]
      /\ out[P1] = <<o>> /\ out[P2] = <<>> /\ conn[P1] = 1 /\ conn[P2] = 0 /\ waits[P1] = 1 /\ waits[P2] = 0
      /\ \A p \in Player : /\ attempt[p] = 1 /\ clearing[p] = None /\ answer[p] = "none" /\ phase[p] = "connecting"
                           /\ remote[p] = None /\ described[p] = 0 /\ tries[p] = 0 /\ cursor[p] = 0
                           /\ held[p] = {} /\ batch[p] = {} /\ got[p] = {}
  BY Sides, SomeAttempts DEF Start
<1>3. WireTypes
  <2>1. out \in [Player -> Seq(Signal)]
    <3>1. <<o>> \in Seq(Signal) /\ <<>> \in Seq(Signal)
      BY <1>1
    <3> QED BY <3>1 DEF Start
  <2>2. fresh \in [conn : Nat, msg : Nat]
    BY <1>2
  <2> QED BY <1>2, <2>1, <2>2, SomeAttempts DEF WireTypes, Start
<1>4. Len(<<o>>) = 1 /\ <<o>> # <<>> /\ Len(<<>>) = 0 /\ Elements(<<o>>) = {o} /\ Elements(<<>>) = {}
  BY DEF Elements
<1> HIDE DEF o
<1>5. Envelopes = {} /\ \A p \in Player : Unread(p) = {}
  BY <1>2, Sides DEF Envelopes, Unread
<1>6. Publishing
  BY <1>2, <1>4, Sides, SomeAttempts DEF Publishing
<1>7. Offering
  <2>1. Offers \subseteq {o}
    BY <1>2, <1>4, <1>5, Sides DEF Offers
  <2>2. o.conn = 1 /\ fresh.conn = 2
    BY <1>2 DEF o
  <2>3. \A s \in Elements(out[P2]) : s.kind # "offer"
    BY <1>2, <1>4
  <2> QED BY <1>2, <1>5, <2>1, <2>2, <2>3, SomeAttempts DEF Offering
<1>8. Numbered /\ Attempts /\ Initiated
  BY <1>2, Sides DEF Numbered, Attempts, Initiated
<1>9. Reading
  BY <1>2, <1>5 DEF Reading
<1>10. Describing
  BY <1>2, Sides, SomeAttempts DEF Describing
<1> QED BY <1>3, <1>6, <1>7, <1>8, <1>9, <1>10 DEF Negotiating

(* Every step of the negotiation keeps the invariant.                      *)
LEMMA NegotiatingNext == ASSUME Negotiating, Next PROVE Negotiating'
<1>1. ASSUME NEW p \in Player, Send(p) \/ Receive(p) \/ LoseAnswer(p) PROVE Negotiating'
  BY <1>1, PublishKeeps
<1>2. ASSUME NEW p \in Player, Poll(p) \/ Hold(p) \/ SettleOffer(p) PROVE Negotiating'
  BY <1>2, ReadKeeps
<1>3. ASSUME NEW p \in Player, Handle(p) PROVE Negotiating'
  BY <1>3, HandleKeeps
<1>4. ASSUME NEW p \in Player, Gather(p) PROVE Negotiating'
  BY <1>4, GatherKeeps
<1>5. ASSUME NEW p \in Player, Open(p) \/ GiveUp(p) \/ PollRefused(p) \/ LoseChannel(p) \/ PeerGone(p) PROVE Negotiating'
  BY <1>5, PhasesKeep
<1>6. ASSUME NEW p \in Player, Advance(p) PROVE Negotiating'
  BY <1>6, AdvanceKeeps
<1>7. ASSUME NEW p \in Player, Clear(p) \/ Restart(p) PROVE Negotiating'
  BY <1>7, RenewKeeps
<1>8. ASSUME NEW r \in requests, Validate(r) \/ Begin(r) \/ Insert(r) PROVE Negotiating'
  BY <1>8, ServeKeeps
<1> QED BY <1>1, <1>2, <1>3, <1>4, <1>5, <1>6, <1>7, <1>8 DEF Next

(* It is stronger than what the runs check.                                *)
LEMMA NegotiatingImplies == Negotiating => TypeOK /\ SignalsSettle
<1> SUFFICES ASSUME Negotiating PROVE TypeOK /\ SignalsSettle
  OBVIOUS
<1>0. WireTypes /\ Numbered /\ Attempts /\ Publishing /\ Reading /\ Initiated /\ Describing
  BY DEF Negotiating
<1>1. \A r \in requests : r.stage \in {"sent", "valid", "begun"}
  BY <1>0 DEF WireTypes, Request
<1>2. TypeOK
  BY <1>0, <1>1 DEF TypeOK, WireTypes, Numbered, Attempts, Publishing
<1>3. NoSignalSkipped
  BY <1>0 DEF NoSignalSkipped, Reading
<1>4. DescribedOnce
  BY <1>0, Sides DEF DescribedOnce, Initiated, Describing, None
<1> QED BY <1>2, <1>3, <1>4 DEF SignalsSettle

(* No step takes from the mailbox what is published for the current attempt. *)
LEMMA MailboxStep ==
    ASSUME Negotiating, Next \/ UNCHANGED rows
    PROVE  \A row \in rows : row.attempt = current => row \in rows'
<1>1. ASSUME NEW p \in Player, Clear(p) PROVE \A row \in rows : row.attempt = current => row \in rows'
  BY <1>1, ClearSpares
<1>2. ASSUME NEW p \in Player, Send(p) \/ Receive(p) \/ LoseAnswer(p) \/ Poll(p) \/ Hold(p) \/ SettleOffer(p)
                               \/ PollRefused(p) \/ Handle(p) \/ Gather(p)
      PROVE  rows' = rows
  BY <1>2 DEF Send, Receive, LoseAnswer, Poll, Hold, SettleOffer, PollRefused, Handle, Gather, mailbox
<1>3. ASSUME NEW p \in Player, Open(p) \/ GiveUp(p) \/ LoseChannel(p) \/ PeerGone(p) \/ Advance(p) \/ Restart(p)
      PROVE  rows' = rows
  BY <1>3 DEF Open, GiveUp, LoseChannel, PeerGone, Recover, Advance, Restart, mailbox
<1>4. ASSUME NEW r \in requests, Validate(r) \/ Begin(r) \/ Insert(r) PROVE rows \subseteq rows'
  BY <1>4 DEF Validate, Begin, Insert
<1> QED BY <1>1, <1>2, <1>3, <1>4 DEF Next

(* What a client agrees to, if it agrees: nothing it depends on changes.   *)
Agreed(c) == Handshake!Agreement(c, Handshake!Proposal(Handshake!Peer(c)))

(* The messages a client may have in transit from its peer.                *)
Genuine(c) ==
    {Handshake!Proposed(Handshake!Proposal(Handshake!Peer(c)))}
    \cup (IF readiness[Handshake!Peer(c)] = "done" THEN {Handshake!Ready(agreement[Handshake!Peer(c)])} ELSE {})

Types ==
    /\ agreement = [c \in Client |-> agreement[c]]
    /\ proposal = [c \in Client |-> proposal[c]]
    /\ remoteReady = [c \in Client |-> remoteReady[c]]
    /\ readiness \in [Client -> {"unstarted", "running", "done"}]
    /\ quiet \in [Client -> BOOLEAN]
    /\ outcome \in [Client -> {"open", "agreed", "refused", "failed"}]
    /\ channel = [c \in Client |-> channel[c]]
    /\ position \in [Client -> Handshake!Cursor]

(* A client that has begun to be ready has agreed, to what it will stand   *)
(* by; what it was told of the peer's readiness is what the peer agreed to *)
(* once the server had taken it back; and the quiet period needs both.     *)
Agreeing(c) ==
    /\ agreement[c] # Handshake!NoCheckpoint => agreement[c] = Agreed(c) /\ Handshake!Matches(c, Handshake!Proposal(Handshake!Peer(c)))
    /\ readiness[c] # "unstarted" => agreement[c] # Handshake!NoCheckpoint
    /\ proposal[c] # Handshake!NoCheckpoint => proposal[c] = Handshake!Proposal(Handshake!Peer(c))

Told(c) ==
    /\ channel[c] \in Seq(Genuine(c))
    /\ remoteReady[c] # Handshake!NoCheckpoint =>
          readiness[Handshake!Peer(c)] = "done" /\ remoteReady[c] = agreement[Handshake!Peer(c)]

Together(c) ==
    /\ quiet[c] => /\ readiness[c] = "done" /\ readiness[Handshake!Peer(c)] = "done"
                   /\ agreement[c] = agreement[Handshake!Peer(c)]
    /\ outcome[c] = "agreed" => quiet[c]

Resuming == Types /\ \A c \in Client : Agreeing(c) /\ Told(c) /\ Together(c)

(* What a client refuses is refused for good: the two can never agree.     *)
Spurned(c) ==
    outcome[c] = "refused" =>
        \/ ~Handshake!Matches(c, Handshake!Proposal(Handshake!Peer(c)))
        \/ Agreed(c) # Agreed(Handshake!Peer(c))

(* An open client knows of the readiness of its peer or is about to be     *)
(* told, and once both are ready its quiet period has begun.               *)
Announced(c) == \E i \in DOMAIN channel[c] : channel[c][i] = Handshake!Ready(agreement[Handshake!Peer(c)])

Hearing(c) ==
    outcome[c] = "open" =>
        /\ readiness[Handshake!Peer(c)] = "done" => remoteReady[c] # Handshake!NoCheckpoint \/ Announced(c)
        /\ readiness[c] = "done" /\ remoteReady[c] # Handshake!NoCheckpoint => quiet[c]

Answering == \A c \in Client : Spurned(c) /\ Hearing(c)

-----------------------------------------------------------------------------
(* What is assumed of the clients and the bounds.                          *)
LEMMA Constants ==
    ASSUME Handshake!HandshakeAssumption
    PROVE  /\ \E a, b \in Client : a # b /\ Client = {a, b}
           /\ MaxCursor \in Nat
BY DEF Handshake!HandshakeAssumption

(* There are two clients, and each is the other's peer.                    *)
LEMMA Peers ==
    ASSUME Handshake!HandshakeAssumption, NEW c \in Client
    PROVE  /\ Handshake!Peer(c) \in Client /\ Handshake!Peer(c) # c /\ Handshake!Peer(Handshake!Peer(c)) = c
           /\ \A d \in Client : d = c \/ d = Handshake!Peer(c)
<1>1. PICK a \in Client, b \in Client : a # b /\ Client = {a, b}
  BY Constants
<1>2. \A d \in Client : Handshake!Peer(d) \in Client /\ Handshake!Peer(d) # d
  <2> SUFFICES ASSUME NEW d \in Client PROVE Handshake!Peer(d) \in Client /\ Handshake!Peer(d) # d
    OBVIOUS
  <2>1. \E p \in Client : p # d
    BY <1>1
  <2> QED BY <2>1 DEF Handshake!Peer
<1> QED BY <1>1, <1>2

(* A proposal and an agreement are checkpoints, no absent ones.            *)
LEMMA CheckpointsArePresent ==
    ASSUME Handshake!HandshakeAssumption, position \in [Client -> Handshake!Cursor], NEW c \in Client
    PROVE  Handshake!Proposal(c) # Handshake!NoCheckpoint /\ Agreed(c) # Handshake!NoCheckpoint
<1>1. Handshake!Peer(c) \in Client
  BY Peers
<1>2. MaxCursor \in Nat
  BY Constants
<1>3. position[c] \in Int /\ position[c] # -2 /\ position[Handshake!Peer(c)] \in Int /\ position[Handshake!Peer(c)] # -2
  BY <1>1, <1>2 DEF Handshake!Cursor
<1>4. Handshake!Proposal(c).cursor = position[c] /\ Handshake!Proposal(Handshake!Peer(c)).cursor = position[Handshake!Peer(c)]
  BY DEF Handshake!Proposal
<1>5. Agreed(c).cursor = Handshake!Smaller(position[c], position[Handshake!Peer(c)])
  BY <1>4 DEF Agreed, Handshake!Agreement
<1>6. Handshake!NoCheckpoint.cursor = -2
  BY DEF Handshake!NoCheckpoint
<1> QED BY <1>3, <1>4, <1>5, <1>6 DEF Handshake!Smaller

(* At the start each client has only proposed.                             *)
LEMMA ResumingInit == ASSUME Handshake!HandshakeAssumption, Handshake!Init PROVE Resuming
<1>1. Types
  BY DEF Handshake!Init, Types
<1>2. ASSUME NEW c \in Client PROVE Agreeing(c) /\ Told(c) /\ Together(c)
  <2>1. Handshake!Peer(c) \in Client
    BY Peers
  <2>2. channel[c] \in Seq(Genuine(c))
    <3>1. channel[c] = <<Handshake!Proposed(Handshake!Proposal(Handshake!Peer(c)))>>
      BY DEF Handshake!Init
    <3> QED BY <3>1 DEF Genuine
  <2> QED BY <2>1, <2>2 DEF Handshake!Init, Agreeing, Told, Together
<1> QED BY <1>1, <1>2 DEF Resuming

(* The quiet period and the failure of evaluateReady.                      *)
LEMMA Evaluation ==
    ASSUME Types, NEW c \in Client, NEW agreed, NEW ready, NEW done \in BOOLEAN,
           Handshake!EvaluateReady(c, agreed, ready, done)
    PROVE  /\ quiet' \in [Client -> BOOLEAN] /\ outcome' \in [Client -> {"open", "agreed", "refused", "failed"}]
           /\ \A d \in Client \ {c} : quiet'[d] = quiet[d] /\ outcome'[d] = outcome[d]
           /\ quiet'[c] => quiet[c] \/ (done /\ agreed # Handshake!NoCheckpoint /\ ready = agreed)
           /\ outcome'[c] = "agreed" => outcome[c] = "agreed" /\ (quiet[c] => quiet'[c])
<1>1. CASE agreed # Handshake!NoCheckpoint /\ ready # Handshake!NoCheckpoint /\ ready # agreed
  BY <1>1 DEF Handshake!EvaluateReady, Handshake!Refuse, Types
<1>2. CASE ~(agreed # Handshake!NoCheckpoint /\ ready # Handshake!NoCheckpoint /\ ready # agreed)
  <2>1. /\ quiet' = [quiet EXCEPT ![c] = quiet[c] \/ (agreed # Handshake!NoCheckpoint /\ ready # Handshake!NoCheckpoint /\ done)]
        /\ outcome' = outcome
    BY <1>2 DEF Handshake!EvaluateReady
  <2>2. quiet'[c] = (quiet[c] \/ (agreed # Handshake!NoCheckpoint /\ ready # Handshake!NoCheckpoint /\ done))
    BY <2>1 DEF Types
  <2>3. quiet' \in [Client -> BOOLEAN] /\ \A d \in Client \ {c} : quiet'[d] = quiet[d]
    BY <2>1 DEF Types
  <2> QED BY <1>2, <2>1, <2>2, <2>3 DEF Types
<1> QED BY <1>1, <1>2

(* What is in transit stays genuine: agreements stand once a client is     *)
(* ready, and readiness lasts.                                             *)
LEMMA GenuineGrows ==
    ASSUME NEW c \in Client, UNCHANGED Handshake!frozen,
           readiness[Handshake!Peer(c)] = "done" =>
              readiness'[Handshake!Peer(c)] = "done" /\ agreement'[Handshake!Peer(c)] = agreement[Handshake!Peer(c)]
    PROVE  /\ Genuine(c) \subseteq Genuine(c)'
           /\ \A s \in Seq(Genuine(c)) : s \in Seq(Genuine(c)')
<1>1. Genuine(c) \subseteq Genuine(c)'
  BY DEF Genuine, Handshake!frozen, Handshake!Proposal
<1>2. ASSUME NEW S, NEW T, S \subseteq T, NEW s \in Seq(S) PROVE s \in Seq(T)
  BY <1>2
<1> QED BY <1>1, <1>2

(* What a client sends is genuine.                                         *)
LEMMA SentIsGenuine ==
    ASSUME Handshake!HandshakeAssumption, Types, NEW c \in Client, NEW messages \in Seq(Genuine(Handshake!Peer(c))'),
           \A d \in Client : channel[d] \in Seq(Genuine(d)'),
           channel' = Handshake!Sent(c, messages)
    PROVE  /\ channel' = [d \in Client |-> channel'[d]]
           /\ \A d \in Client : channel'[d] \in Seq(Genuine(d)')
<1>1. Handshake!Peer(c) \in Client
  BY Peers
<1>2. CASE outcome[Handshake!Peer(c)] = "open"
  <2>1. channel' = [channel EXCEPT ![Handshake!Peer(c)] = channel[Handshake!Peer(c)] \o messages]
    BY <1>2 DEF Handshake!Sent
  <2>2. channel[Handshake!Peer(c)] \o messages \in Seq(Genuine(Handshake!Peer(c))')
    BY <1>1
  <2> QED BY <1>1, <2>1, <2>2 DEF Types
<1>3. CASE outcome[Handshake!Peer(c)] # "open"
  BY <1>3 DEF Handshake!Sent, Types
<1> QED BY <1>2, <1>3

(* A proposal that is received is the peer's, so that the agreement is     *)
(* what it was or becomes what it will stay.                               *)
LEMMA ReceiveKeeps ==
    ASSUME Handshake!HandshakeAssumption, Resuming, NEW c \in Client, outcome[c] = "open",
           Handshake!ReceiveProposal(c, Handshake!Proposal(Handshake!Peer(c))), UNCHANGED <<Handshake!frozen, remoteReady>>,
           channel' = [d \in Client |-> channel'[d]],
           \A d \in Client : channel'[d] \in Seq(Genuine(d))
    PROVE  Resuming'
<1> DEFINE offered == Handshake!Proposal(Handshake!Peer(c))
<1>0. Types /\ Agreeing(c) /\ Told(c) /\ Together(c)
  BY DEF Resuming
<1>1. Handshake!Peer(c) \in Client /\ Handshake!Peer(c) # c /\ Handshake!Peer(Handshake!Peer(c)) = c /\ \A d \in Client : d = c \/ d = Handshake!Peer(c)
  BY Peers
<1>2. \A d \in Client : Agreed(d)' = Agreed(d) /\ Handshake!Proposal(d)' = Handshake!Proposal(d) /\ Handshake!Matches(d, Handshake!Proposal(Handshake!Peer(d)))' = Handshake!Matches(d, Handshake!Proposal(Handshake!Peer(d)))
  BY DEF Handshake!frozen, Agreed, Handshake!Agreement, Handshake!Proposal, Handshake!Held, Handshake!Matches
<1>3. CASE (proposal[c] # Handshake!NoCheckpoint /\ proposal[c] # offered) \/ ~Handshake!Matches(c, offered)
  <2>1. /\ outcome' = [outcome EXCEPT ![c] = "refused"]
        /\ UNCHANGED <<agreement, proposal, readiness, quiet>>
    BY <1>3 DEF Handshake!ReceiveProposal, Handshake!Refuse
  <2>2. Types'
    BY <1>0, <2>1 DEF Types, Handshake!frozen
  <2>3. ASSUME NEW d \in Client PROVE Agreeing(d)' /\ Told(d)' /\ Together(d)'
    <3>1. Agreeing(d) /\ Told(d) /\ Together(d) /\ Handshake!Peer(d) \in Client
      BY Peers DEF Resuming
    <3>2. Agreeing(d)'
      BY <1>2, <2>1, <3>1 DEF Agreeing
    <3>3. Told(d)'
      BY <2>1, <3>1, GenuineGrows DEF Told
    <3>4. Together(d)'
      BY <1>0, <2>1, <3>1 DEF Together, Types
    <3> QED BY <3>2, <3>3, <3>4
  <2> QED BY <2>2, <2>3 DEF Resuming
<1>4. CASE ~((proposal[c] # Handshake!NoCheckpoint /\ proposal[c] # offered) \/ ~Handshake!Matches(c, offered))
  <2>1. /\ proposal' = [proposal EXCEPT ![c] = offered]
        /\ agreement' = [agreement EXCEPT ![c] = Agreed(c)]
        /\ readiness' = [readiness EXCEPT ![c] = IF readiness[c] = "unstarted" THEN "running" ELSE readiness[c]]
        /\ Handshake!EvaluateReady(c, Agreed(c), remoteReady[c], readiness[c] = "done")
    BY <1>4 DEF Handshake!ReceiveProposal, Agreed
  <2>2. /\ quiet' \in [Client -> BOOLEAN] /\ outcome' \in [Client -> {"open", "agreed", "refused", "failed"}]
        /\ \A d \in Client \ {c} : quiet'[d] = quiet[d] /\ outcome'[d] = outcome[d]
        /\ quiet'[c] => quiet[c] \/ (readiness[c] = "done" /\ remoteReady[c] = Agreed(c) /\ Agreed(c) # Handshake!NoCheckpoint)
        /\ outcome'[c] = "agreed" => outcome[c] = "agreed"
    <3> DEFINE done == readiness[c] = "done"
    <3>1. Types /\ done \in BOOLEAN /\ Handshake!EvaluateReady(c, Agreed(c), remoteReady[c], done)
      BY <1>0, <2>1
    <3> HIDE DEF done
    <3>2. /\ quiet' \in [Client -> BOOLEAN] /\ outcome' \in [Client -> {"open", "agreed", "refused", "failed"}]
          /\ \A d \in Client \ {c} : quiet'[d] = quiet[d] /\ outcome'[d] = outcome[d]
          /\ quiet'[c] => quiet[c] \/ (done /\ Agreed(c) # Handshake!NoCheckpoint /\ remoteReady[c] = Agreed(c))
          /\ outcome'[c] = "agreed" => outcome[c] = "agreed"
      BY <3>1, Evaluation
    <3> QED BY <3>2 DEF done
  <2>3. /\ proposal'[c] = offered /\ agreement'[c] = Agreed(c)
        /\ \A d \in Client \ {c} : proposal'[d] = proposal[d] /\ agreement'[d] = agreement[d] /\ readiness'[d] = readiness[d]
        /\ readiness'[c] = "done" <=> readiness[c] = "done"
        /\ readiness[c] = "done" => agreement[c] = Agreed(c)
    BY <1>0, <2>1 DEF Types, Agreeing
  <2>4. Agreed(c) # Handshake!NoCheckpoint /\ offered # Handshake!NoCheckpoint
    BY <1>0, <1>1, CheckpointsArePresent DEF Types
  <2>5. Types'
    BY <1>0, <2>1, <2>2 DEF Types, Handshake!frozen
  <2>6. ASSUME NEW d \in Client PROVE Agreeing(d)' /\ Told(d)' /\ Together(d)'
    <3>1. Agreeing(d) /\ Told(d) /\ Together(d) /\ Handshake!Peer(d) \in Client
      BY Peers DEF Resuming
    <3>2. Agreeing(d)'
      <4>1. CASE d = c
        <5>1. proposal'[c] = offered /\ agreement'[c] = Agreed(c) /\ Handshake!Matches(c, offered)
          BY <1>4, <2>3
        <5>2. Agreed(c)' = Agreed(c) /\ Handshake!Proposal(Handshake!Peer(c))' = offered /\ Handshake!Matches(c, Handshake!Proposal(Handshake!Peer(c)))' = Handshake!Matches(c, offered)
          BY <1>1, <1>2
        <5>3. Agreeing(c)'
          BY <2>4, <5>1, <5>2 DEF Agreeing
        <5> QED BY <4>1, <5>3
      <4>2. CASE d # c
        <5>1. d \in Client \ {c}
          BY <4>2
        <5>2. proposal'[d] = proposal[d] /\ agreement'[d] = agreement[d] /\ readiness'[d] = readiness[d]
          BY <2>3, <5>1
        <5> QED BY <1>2, <3>1, <5>2 DEF Agreeing
      <4> QED BY <4>1, <4>2
    <3>3. \A e \in Client : readiness[e] = "done" => readiness'[e] = "done" /\ agreement'[e] = agreement[e]
      BY <2>3
    <3>4. Told(d)'
      BY <3>1, <3>3, GenuineGrows DEF Told
    <3>5. Together(d)'
      <4>1. CASE d = c
        <5>1. quiet'[c] => readiness[c] = "done" /\ readiness[Handshake!Peer(c)] = "done" /\ agreement[c] = agreement[Handshake!Peer(c)]
          BY <1>0, <2>2, <2>3, <2>4 DEF Told, Together
        <5> QED BY <1>0, <1>1, <2>2, <3>3, <4>1, <5>1 DEF Together
      <4>2. CASE d # c
        BY <2>2, <3>1, <3>3, <4>2 DEF Together
      <4> QED BY <4>1, <4>2
    <3> QED BY <3>2, <3>4, <3>5
  <2> QED BY <2>5, <2>6 DEF Resuming
<1> QED BY <1>3, <1>4

(* A step that changes no agreement and no proposal, and lets readiness    *)
(* only grow, keeps all but the quiet period.                              *)
LEMMA OthersKeep ==
    ASSUME Handshake!HandshakeAssumption, Resuming, NEW d \in Client, UNCHANGED <<Handshake!frozen, agreement, proposal>>,
           readiness' = [c \in Client |-> readiness'[c]],
           \A c \in Client : readiness'[c] = readiness[c] \/ (readiness'[c] = "done" /\ readiness[c] = "running"),
           channel'[d] \in Seq(Genuine(d)'),
           \/ remoteReady'[d] = remoteReady[d]
           \/ readiness[Handshake!Peer(d)] = "done" /\ remoteReady'[d] = agreement[Handshake!Peer(d)]
    PROVE  Agreeing(d)' /\ Told(d)' /\ (readiness[Handshake!Peer(d)] = "done" => readiness'[Handshake!Peer(d)] = "done")
<1>1. Agreeing(d) /\ Told(d) /\ Handshake!Peer(d) \in Client
  BY Peers DEF Resuming
<1>2. Agreed(d)' = Agreed(d) /\ Handshake!Proposal(Handshake!Peer(d))' = Handshake!Proposal(Handshake!Peer(d)) /\ Handshake!Matches(d, Handshake!Proposal(Handshake!Peer(d)))' = Handshake!Matches(d, Handshake!Proposal(Handshake!Peer(d)))
  BY DEF Handshake!frozen, Agreed, Handshake!Agreement, Handshake!Proposal, Handshake!Held, Handshake!Matches
<1>3. Agreeing(d)'
  BY <1>1, <1>2 DEF Agreeing
<1>4. Told(d)'
  BY <1>1 DEF Told
<1> QED BY <1>1, <1>3, <1>4

(* Every message in transit is still genuine after a step that lets        *)
(* readiness grow and changes no agreement.                                *)
LEMMA ChannelKeeps ==
    ASSUME Handshake!HandshakeAssumption, Resuming, UNCHANGED <<Handshake!frozen, agreement>>,
           \A c \in Client : readiness[c] = "done" => readiness'[c] = "done"
    PROVE  \A d \in Client : channel[d] \in Seq(Genuine(d)')
<1> SUFFICES ASSUME NEW d \in Client PROVE channel[d] \in Seq(Genuine(d)')
  OBVIOUS
<1>1. channel[d] \in Seq(Genuine(d)) /\ Handshake!Peer(d) \in Client
  BY Peers DEF Resuming, Told
<1> QED BY <1>1, GenuineGrows

(* What a client sends again is what it stands by.                         *)
LEMMA ResendKeeps == ASSUME Handshake!HandshakeAssumption, Resuming, NEW c \in Client, Handshake!Resend(c) PROVE Resuming'
<1>1. channel' = Handshake!Sent(c, Handshake!CurrentState(c)) /\ UNCHANGED <<Handshake!frozen, Handshake!exchange>>
  BY DEF Handshake!Resend
<1>2. Handshake!Peer(c) \in Client /\ Handshake!Peer(Handshake!Peer(c)) = c
  BY Peers
<1>3. Handshake!CurrentState(c) \in Seq(Genuine(Handshake!Peer(c))')
  <2>1. Handshake!Proposed(Handshake!Proposal(c)) \in Genuine(Handshake!Peer(c))'
    BY <1>1, <1>2 DEF Genuine, Handshake!frozen, Handshake!Proposal
  <2>2. readiness[c] = "done" => Handshake!Ready(agreement[c]) \in Genuine(Handshake!Peer(c))'
    BY <1>1, <1>2 DEF Genuine, Handshake!exchange
  <2> QED BY <2>1, <2>2 DEF Handshake!CurrentState
<1>4. \A d \in Client : channel[d] \in Seq(Genuine(d)')
  BY <1>1, ChannelKeeps DEF Handshake!exchange
<1>5. channel' = [d \in Client |-> channel'[d]] /\ \A d \in Client : channel'[d] \in Seq(Genuine(d)')
  BY <1>1, <1>3, <1>4, SentIsGenuine DEF Resuming
<1>6. Types'
  BY <1>1, <1>5 DEF Resuming, Types, Handshake!exchange, Handshake!frozen
<1>7. ASSUME NEW d \in Client PROVE Agreeing(d)' /\ Told(d)' /\ Together(d)'
  <2>1. readiness' = [e \in Client |-> readiness'[e]]
    BY <1>6 DEF Types
  <2>2. Agreeing(d)' /\ Told(d)'
    BY <1>1, <1>5, <2>1, OthersKeep DEF Handshake!exchange
  <2>3. Together(d)'
    BY <1>1 DEF Resuming, Together, Handshake!exchange
  <2> QED BY <2>2, <2>3
<1> QED BY <1>6, <1>7 DEF Resuming

(* What is delivered is what the peer stands by.                           *)
LEMMA DeliverKeeps == ASSUME Handshake!HandshakeAssumption, Resuming, NEW c \in Client, Handshake!Deliver(c) PROVE Resuming'
<1> DEFINE message == Head(channel[c])
<1>1. /\ outcome[c] = "open" /\ channel[c] # <<>>
      /\ channel' = [channel EXCEPT ![c] = Tail(channel[c])] /\ UNCHANGED Handshake!frozen
      /\ \/ /\ message.type = "recovery-checkpoint"
            /\ Handshake!ReceiveProposal(c, message.checkpoint)
            /\ UNCHANGED remoteReady
         \/ /\ message.type = "recovery-ready"
            /\ remoteReady' = [remoteReady EXCEPT ![c] = message.checkpoint]
            /\ Handshake!EvaluateReady(c, agreement[c], message.checkpoint, readiness[c] = "done")
            /\ UNCHANGED <<agreement, proposal, readiness>>
  BY DEF Handshake!Deliver
<1>2. Handshake!Peer(c) \in Client /\ Types /\ Agreeing(c) /\ Told(c) /\ Together(c)
  BY Peers DEF Resuming
<1>3. message \in Genuine(c) /\ Tail(channel[c]) \in Seq(Genuine(c))
  BY <1>1, <1>2 DEF Told
<1>4. /\ channel' = [d \in Client |-> channel'[d]]
      /\ \A d \in Client : channel'[d] \in Seq(Genuine(d))
  BY <1>1, <1>2, <1>3 DEF Types, Resuming, Told
<1>5. CASE message.type = "recovery-checkpoint"
  <2>1. message.checkpoint = Handshake!Proposal(Handshake!Peer(c))
    BY <1>3, <1>5 DEF Genuine, Handshake!Proposed, Handshake!Ready
  <2>2. Handshake!ReceiveProposal(c, Handshake!Proposal(Handshake!Peer(c))) /\ UNCHANGED remoteReady
    BY <1>1, <1>5, <2>1
  <2> QED BY <1>1, <1>4, <2>2, ReceiveKeeps
<1>6. CASE message.type = "recovery-ready"
  <2>1. message.checkpoint = agreement[Handshake!Peer(c)] /\ readiness[Handshake!Peer(c)] = "done"
    BY <1>3, <1>6 DEF Genuine, Handshake!Proposed, Handshake!Ready
  <2>2. /\ remoteReady' = [remoteReady EXCEPT ![c] = agreement[Handshake!Peer(c)]]
        /\ Handshake!EvaluateReady(c, agreement[c], agreement[Handshake!Peer(c)], readiness[c] = "done")
        /\ UNCHANGED <<agreement, proposal, readiness>>
    BY <1>1, <1>6, <2>1
  <2>3. /\ quiet' \in [Client -> BOOLEAN] /\ outcome' \in [Client -> {"open", "agreed", "refused", "failed"}]
        /\ \A d \in Client \ {c} : quiet'[d] = quiet[d] /\ outcome'[d] = outcome[d]
        /\ quiet'[c] => quiet[c] \/ (readiness[c] = "done" /\ agreement[c] = agreement[Handshake!Peer(c)])
        /\ outcome'[c] = "agreed" => outcome[c] = "agreed"
    <3> DEFINE done == readiness[c] = "done"
    <3>1. Types /\ done \in BOOLEAN /\ Handshake!EvaluateReady(c, agreement[c], agreement[Handshake!Peer(c)], done)
      BY <1>2, <2>2
    <3> HIDE DEF done
    <3>2. /\ quiet' \in [Client -> BOOLEAN] /\ outcome' \in [Client -> {"open", "agreed", "refused", "failed"}]
          /\ \A d \in Client \ {c} : quiet'[d] = quiet[d] /\ outcome'[d] = outcome[d]
          /\ quiet'[c] => quiet[c] \/ (done /\ agreement[c] # Handshake!NoCheckpoint /\ agreement[Handshake!Peer(c)] = agreement[c])
          /\ outcome'[c] = "agreed" => outcome[c] = "agreed"
      BY <3>1, Evaluation
    <3> QED BY <3>2 DEF done
  <2>4. /\ remoteReady' = [d \in Client |-> remoteReady'[d]] /\ remoteReady'[c] = agreement[Handshake!Peer(c)]
        /\ \A d \in Client \ {c} : remoteReady'[d] = remoteReady[d]
    BY <1>2, <2>2 DEF Types
  <2>5. Types'
    BY <1>1, <1>2, <1>4, <2>2, <2>3, <2>4 DEF Types, Handshake!frozen
  <2>6. ASSUME NEW d \in Client PROVE Agreeing(d)' /\ Told(d)' /\ Together(d)'
    <3>1. Genuine(d)' = Genuine(d)
      BY <1>1, <2>2 DEF Genuine, Handshake!frozen, Handshake!Proposal
    <3>2. remoteReady'[d] = remoteReady[d] \/ (readiness[Handshake!Peer(d)] = "done" /\ remoteReady'[d] = agreement[Handshake!Peer(d)])
      BY <2>1, <2>4
    <3>3. Agreeing(d)' /\ Told(d)'
      <4>1. readiness' = [e \in Client |-> readiness'[e]] /\ channel'[d] \in Seq(Genuine(d)')
        BY <1>4, <2>5, <3>1 DEF Types
      <4> QED BY <1>1, <2>2, <3>2, <4>1, OthersKeep
    <3>4. Together(d)'
      <4>1. CASE d = c
        BY <1>1, <1>2, <2>1, <2>2, <2>3, <4>1 DEF Together
      <4>2. CASE d # c
        BY <2>2, <2>3, <4>2 DEF Together, Resuming
      <4> QED BY <4>1, <4>2
    <3> QED BY <3>3, <3>4
  <2> QED BY <2>5, <2>6 DEF Resuming
<1> QED BY <1>1, <1>5, <1>6

(* A client that becomes ready has agreed, and says so.                    *)
LEMMA BecomeReadyKeeps == ASSUME Handshake!HandshakeAssumption, Resuming, NEW c \in Client, Handshake!BecomeReady(c) PROVE Resuming'
<1>1. /\ outcome[c] = "open" /\ readiness[c] = "running"
      /\ readiness' = [readiness EXCEPT ![c] = "done"]
      /\ channel' = Handshake!Sent(c, <<Handshake!Proposed(Handshake!Proposal(c)), Handshake!Ready(agreement[c])>>)
      /\ Handshake!EvaluateReady(c, agreement[c], remoteReady[c], TRUE)
      /\ UNCHANGED <<Handshake!frozen, agreement, proposal, remoteReady>>
  BY DEF Handshake!BecomeReady
<1>2. Handshake!Peer(c) \in Client /\ Handshake!Peer(Handshake!Peer(c)) = c /\ Types /\ Agreeing(c) /\ Told(c) /\ Together(c)
  BY Peers DEF Resuming
<1>3. /\ readiness' \in [Client -> {"unstarted", "running", "done"}] /\ readiness'[c] = "done"
      /\ \A d \in Client \ {c} : readiness'[d] = readiness[d]
  BY <1>1, <1>2 DEF Types
<1>4. <<Handshake!Proposed(Handshake!Proposal(c)), Handshake!Ready(agreement[c])>> \in Seq(Genuine(Handshake!Peer(c))')
  <2>1. Handshake!Proposed(Handshake!Proposal(c)) \in Genuine(Handshake!Peer(c))'
    BY <1>1, <1>2 DEF Genuine, Handshake!frozen, Handshake!Proposal
  <2>2. Handshake!Ready(agreement[c]) \in Genuine(Handshake!Peer(c))'
    BY <1>1, <1>2, <1>3 DEF Genuine
  <2> QED BY <2>1, <2>2
<1>5. channel' = [d \in Client |-> channel'[d]] /\ \A d \in Client : channel'[d] \in Seq(Genuine(d)')
  <2>1. \A d \in Client : readiness[d] = "done" => readiness'[d] = "done"
    BY <1>3
  <2>2. \A d \in Client : channel[d] \in Seq(Genuine(d)')
    BY <1>1, <2>1, ChannelKeeps
  <2> QED BY <1>1, <1>2, <1>4, <2>2, SentIsGenuine
<1>6. /\ quiet' \in [Client -> BOOLEAN] /\ outcome' \in [Client -> {"open", "agreed", "refused", "failed"}]
      /\ \A d \in Client \ {c} : quiet'[d] = quiet[d] /\ outcome'[d] = outcome[d]
      /\ quiet'[c] => quiet[c] \/ (agreement[c] # Handshake!NoCheckpoint /\ remoteReady[c] = agreement[c])
      /\ outcome'[c] = "agreed" => outcome[c] = "agreed"
  BY <1>1, <1>2, Evaluation
<1>7. Types'
  BY <1>1, <1>2, <1>3, <1>5, <1>6 DEF Types, Handshake!frozen
<1>8. ASSUME NEW d \in Client PROVE Agreeing(d)' /\ Told(d)' /\ Together(d)'
  <2>1. /\ readiness' = [e \in Client |-> readiness'[e]]
        /\ \A e \in Client : readiness'[e] = readiness[e] \/ (readiness'[e] = "done" /\ readiness[e] = "running")
    BY <1>1, <1>3
  <2>2. Agreeing(d)' /\ Told(d)' /\ (readiness[Handshake!Peer(d)] = "done" => readiness'[Handshake!Peer(d)] = "done")
    BY <1>1, <1>5, <2>1, OthersKeep
  <2>3. Together(d)'
    <3>1. CASE d = c
      <4>1. quiet'[c] => readiness[Handshake!Peer(c)] = "done" /\ agreement[c] = agreement[Handshake!Peer(c)]
        BY <1>2, <1>6 DEF Told, Together
      <4> QED BY <1>1, <1>3, <1>6, <2>2, <3>1, <4>1 DEF Together
    <3>2. CASE d # c
      BY <1>1, <1>3, <1>6, <2>2, <3>2 DEF Together, Resuming
    <3> QED BY <3>1, <3>2
  <2> QED BY <2>2, <2>3
<1> QED BY <1>7, <1>8 DEF Resuming

(* A client that ends no longer listens.                                   *)
LEMMA EndKeeps ==
    ASSUME Handshake!HandshakeAssumption, Resuming, NEW c \in Client, Handshake!Finish(c) \/ Handshake!GiveUp(c)
    PROVE  Resuming'
<1>1. /\ \/ outcome' = [outcome EXCEPT ![c] = "agreed"] /\ quiet[c]
         \/ outcome' = [outcome EXCEPT ![c] = "failed"]
      /\ channel' = [channel EXCEPT ![c] = <<>>]
      /\ UNCHANGED <<Handshake!frozen, agreement, proposal, remoteReady, readiness, quiet>>
  BY DEF Handshake!Finish, Handshake!GiveUp
<1>2. Types
  BY DEF Resuming
<1>3. Types'
  BY <1>1, <1>2 DEF Types, Handshake!frozen
<1>4. ASSUME NEW d \in Client PROVE Agreeing(d)' /\ Told(d)' /\ Together(d)'
  <2>1. \A e \in Client : channel[e] \in Seq(Genuine(e)')
    BY <1>1, ChannelKeeps
  <2>2. channel'[d] \in Seq(Genuine(d)')
    BY <1>1, <1>2, <2>1 DEF Types
  <2>3. readiness' = [e \in Client |-> readiness'[e]]
    BY <1>3 DEF Types
  <2>4. Agreeing(d)' /\ Told(d)'
    BY <1>1, <2>2, <2>3, OthersKeep
  <2>5. Together(d)'
    BY <1>1, <1>2 DEF Together, Resuming, Types
  <2> QED BY <2>4, <2>5
<1> QED BY <1>3, <1>4 DEF Resuming

(* Nothing is refused at the start, and nobody is ready.                   *)
LEMMA AnsweringInit == ASSUME Handshake!HandshakeAssumption, Handshake!Init PROVE Answering
BY Peers DEF Handshake!Init, Answering, Spurned, Hearing

(* evaluateReady refuses only a readiness for another checkpoint, and      *)
(* begins the quiet period as soon as both are ready.                      *)
LEMMA EvaluationAnswers ==
    ASSUME Types, NEW c \in Client, NEW agreed, NEW ready, NEW done \in BOOLEAN,
           Handshake!EvaluateReady(c, agreed, ready, done)
    PROVE  /\ \A d \in Client \ {c} : outcome'[d] = outcome[d] /\ quiet'[d] = quiet[d]
           /\ outcome'[c] = "refused" => outcome[c] = "refused" \/
                 (agreed # Handshake!NoCheckpoint /\ ready # Handshake!NoCheckpoint /\ ready # agreed)
           /\ /\ outcome'[c] = "open"
              /\ quiet[c] \/ (agreed # Handshake!NoCheckpoint /\ ready # Handshake!NoCheckpoint /\ done)
              => quiet'[c]
<1>1. CASE agreed # Handshake!NoCheckpoint /\ ready # Handshake!NoCheckpoint /\ ready # agreed
  BY <1>1 DEF Handshake!EvaluateReady, Handshake!Refuse, Types
<1>2. CASE ~(agreed # Handshake!NoCheckpoint /\ ready # Handshake!NoCheckpoint /\ ready # agreed)
  <2>1. /\ quiet' = [quiet EXCEPT ![c] = quiet[c] \/ (agreed # Handshake!NoCheckpoint /\ ready # Handshake!NoCheckpoint /\ done)]
        /\ outcome' = outcome
    BY <1>2 DEF Handshake!EvaluateReady
  <2>2. quiet'[c] = (quiet[c] \/ (agreed # Handshake!NoCheckpoint /\ ready # Handshake!NoCheckpoint /\ done))
    BY <2>1 DEF Types
  <2>3. \A d \in Client \ {c} : quiet'[d] = quiet[d]
    BY <2>1 DEF Types
  <2> QED BY <1>2, <2>1, <2>2, <2>3
<1> QED BY <1>1, <1>2

(* A client that knows of the other's readiness and finds its own          *)
(* agreement another one refuses for good.                                 *)
LEMMA RefusalStands ==
    ASSUME Handshake!HandshakeAssumption, Resuming, NEW c \in Client, UNCHANGED Handshake!frozen,
           \/ outcome'[c] = outcome[c] /\ Spurned(c)
           \/ outcome'[c] # "refused"
           \/ ~Handshake!Matches(c, Handshake!Proposal(Handshake!Peer(c)))
           \/ agreement[Handshake!Peer(c)] # Handshake!NoCheckpoint /\ agreement[Handshake!Peer(c)] # Agreed(c)
    PROVE  Spurned(c)'
<1>1. Handshake!Peer(c) \in Client
  BY Peers
<1>2. \A d \in Client : Agreed(d)' = Agreed(d) /\ Handshake!Matches(d, Handshake!Proposal(Handshake!Peer(d)))' = Handshake!Matches(d, Handshake!Proposal(Handshake!Peer(d)))
  BY DEF Handshake!frozen, Agreed, Handshake!Agreement, Handshake!Proposal, Handshake!Held, Handshake!Matches
<1>3. agreement[Handshake!Peer(c)] # Handshake!NoCheckpoint => agreement[Handshake!Peer(c)] = Agreed(Handshake!Peer(c))
  BY <1>1 DEF Resuming, Agreeing
<1> QED BY <1>1, <1>2, <1>3 DEF Spurned

(* A client whose own exchange does not move hears what it heard, when     *)
(* what is in transit to it stays there.                                   *)
LEMMA OthersHear ==
    ASSUME Handshake!HandshakeAssumption, Resuming, NEW d \in Client, Hearing(d),
           outcome'[d] = outcome[d], readiness'[d] = readiness[d], remoteReady'[d] = remoteReady[d], quiet'[d] = quiet[d],
           \A i \in DOMAIN channel[d] : i \in DOMAIN channel'[d] /\ channel'[d][i] = channel[d][i],
           readiness'[Handshake!Peer(d)] = "done" =>
              readiness[Handshake!Peer(d)] = "done" /\ agreement'[Handshake!Peer(d)] = agreement[Handshake!Peer(d)]
    PROVE  Hearing(d)'
<1>1. Announced(d) /\ agreement'[Handshake!Peer(d)] = agreement[Handshake!Peer(d)] => Announced(d)'
  BY DEF Announced, Handshake!Ready
<1> QED BY <1>1 DEF Hearing

(* What is sent comes after what is in transit already.                    *)
LEMMA SentComesLast ==
    ASSUME Handshake!HandshakeAssumption, Types, NEW c \in Client, NEW S, NEW messages \in Seq(S),
           \A d \in Client : channel[d] \in Seq(S), channel' = Handshake!Sent(c, messages)
    PROVE  /\ \A d \in Client : \A i \in DOMAIN channel[d] : i \in DOMAIN channel'[d] /\ channel'[d][i] = channel[d][i]
           /\ outcome[Handshake!Peer(c)] = "open" =>
                 \A i \in DOMAIN messages : \E j \in DOMAIN channel'[Handshake!Peer(c)] : channel'[Handshake!Peer(c)][j] = messages[i]
<1> DEFINE p == Handshake!Peer(c)
<1>1. p \in Client
  BY Peers
<1>2. CASE outcome[p] = "open"
  <2>1. channel'[p] = channel[p] \o messages /\ \A d \in Client \ {p} : channel'[d] = channel[d]
    BY <1>1, <1>2 DEF Handshake!Sent, Types
  <2>2. channel[p] \in Seq(S)
    BY <1>1
  <2> HIDE DEF p
  <2>3. \A i \in DOMAIN channel[p] : i \in DOMAIN channel'[p] /\ channel'[p][i] = channel[p][i]
    BY <2>1, <2>2
  <2>4. ASSUME NEW i \in DOMAIN messages PROVE \E j \in DOMAIN channel'[p] : channel'[p][j] = messages[i]
    <3> DEFINE j == Len(channel[p]) + i
    <3>1. j \in DOMAIN channel'[p] /\ channel'[p][j] = messages[i]
      BY <2>1, <2>2, <2>4
    <3> QED BY <3>1
  <2> QED BY <2>1, <2>3, <2>4 DEF p
<1>3. CASE outcome[p] # "open"
  BY <1>3 DEF Handshake!Sent
<1> QED BY <1>2, <1>3

(* Every step keeps who has refused and who has been told.                 *)
LEMMA ResendAnswers == ASSUME Handshake!HandshakeAssumption, Resuming, Answering, NEW c \in Client, Handshake!Resend(c) PROVE Answering'
<1> DEFINE S == Genuine(c) \cup Genuine(Handshake!Peer(c))
<1>1. channel' = Handshake!Sent(c, Handshake!CurrentState(c)) /\ UNCHANGED <<Handshake!frozen, Handshake!exchange>>
  BY DEF Handshake!Resend
<1>2. Handshake!Peer(c) \in Client /\ Handshake!Peer(Handshake!Peer(c)) = c /\ \A d \in Client : d = c \/ d = Handshake!Peer(c)
  BY Peers
<1>3. Handshake!Proposed(Handshake!Proposal(c)) \in S /\ (readiness[c] = "done" => Handshake!Ready(agreement[c]) \in S)
  BY <1>2 DEF Genuine
<1>4. channel[c] \in Seq(Genuine(c)) /\ channel[Handshake!Peer(c)] \in Seq(Genuine(Handshake!Peer(c)))
  BY <1>2 DEF Resuming, Told
<1>5. Genuine(c) \subseteq S /\ Genuine(Handshake!Peer(c)) \subseteq S
  OBVIOUS
<1> HIDE DEF S
<1>6. ASSUME NEW A, A \subseteq S, NEW s \in Seq(A) PROVE s \in Seq(S)
  BY <1>6
<1>7. \A d \in Client : channel[d] \in Seq(S)
  BY <1>2, <1>4, <1>5, <1>6
<1>8. Handshake!CurrentState(c) \in Seq(S)
  BY <1>3 DEF Handshake!CurrentState
<1>9. ASSUME NEW d \in Client PROVE Spurned(d)' /\ Hearing(d)'
  <2>1. Spurned(d)'
    BY <1>1, RefusalStands DEF Answering, Handshake!exchange
  <2>2. \A i \in DOMAIN channel[d] : i \in DOMAIN channel'[d] /\ channel'[d][i] = channel[d][i]
    BY <1>1, <1>7, <1>8, SentComesLast DEF Resuming
  <2>3. Hearing(d)'
    BY <1>1, <2>2, OthersHear DEF Answering, Handshake!exchange
  <2> QED BY <2>1, <2>3
<1> QED BY <1>9 DEF Answering

(* What is delivered is taken note of, and refused only for good.          *)
LEMMA DeliverAnswers == ASSUME Handshake!HandshakeAssumption, Resuming, Answering, NEW c \in Client, Handshake!Deliver(c) PROVE Answering'
<1> DEFINE message == Head(channel[c])
           p == Handshake!Peer(c)
           offered == Handshake!Proposal(p)
<1>1. /\ outcome[c] = "open" /\ channel[c] # <<>>
      /\ channel' = [channel EXCEPT ![c] = Tail(channel[c])] /\ UNCHANGED Handshake!frozen
      /\ \/ /\ message.type = "recovery-checkpoint"
            /\ Handshake!ReceiveProposal(c, message.checkpoint)
            /\ UNCHANGED remoteReady
         \/ /\ message.type = "recovery-ready"
            /\ remoteReady' = [remoteReady EXCEPT ![c] = message.checkpoint]
            /\ Handshake!EvaluateReady(c, agreement[c], message.checkpoint, readiness[c] = "done")
            /\ UNCHANGED <<agreement, proposal, readiness>>
  BY DEF Handshake!Deliver
<1>2. /\ p \in Client /\ p # c /\ Handshake!Peer(p) = c /\ \A d \in Client : d = c \/ d = p
      /\ Types /\ Agreeing(c) /\ Agreeing(p) /\ Told(c) /\ Spurned(c) /\ Hearing(c) /\ Spurned(p) /\ Hearing(p)
  BY Peers DEF Resuming, Answering
<1>3. message \in Genuine(c) /\ channel[c] \in Seq(Genuine(c))
  BY <1>1, <1>2 DEF Told
<1>4. channel'[p] = channel[p] /\ channel'[c] = Tail(channel[c])
  BY <1>1, <1>2 DEF Types
<1>5. remoteReady[c] # Handshake!NoCheckpoint => remoteReady[c] = agreement[p] /\ readiness[p] = "done"
  BY <1>2 DEF Told
<1> HIDE DEF p
<1>6. CASE message.type = "recovery-checkpoint"
  <2>1. message.checkpoint = offered /\ message # Handshake!Ready(agreement[p])
    BY <1>3, <1>6 DEF Genuine, Handshake!Proposed, Handshake!Ready, p
  <2>2. Handshake!ReceiveProposal(c, offered) /\ UNCHANGED remoteReady
    BY <1>1, <1>6, <2>1
  <2>3. /\ outcome'[p] = outcome[p] /\ quiet'[p] = quiet[p] /\ readiness'[p] = readiness[p] /\ agreement'[p] = agreement[p]
        /\ readiness'[c] = "done" => readiness[c] = "done" /\ agreement'[c] = agreement[c]
        /\ outcome'[c] = "refused" => \/ ~Handshake!Matches(c, offered)
                                      \/ remoteReady[c] # Handshake!NoCheckpoint /\ remoteReady[c] # Agreed(c)
        /\ outcome'[c] = "open" /\ quiet[c] => quiet'[c]
    <3>1. CASE (proposal[c] # Handshake!NoCheckpoint /\ proposal[c] # offered) \/ ~Handshake!Matches(c, offered)
      <4>1. /\ outcome' = [outcome EXCEPT ![c] = "refused"]
            /\ UNCHANGED <<agreement, proposal, readiness, quiet>>
        BY <2>2, <3>1 DEF Handshake!ReceiveProposal, Handshake!Refuse
      <4>2. ~Handshake!Matches(c, offered)
        BY <1>2, <3>1 DEF Agreeing, p
      <4> QED BY <1>2, <4>1, <4>2 DEF Types
    <3>2. CASE ~((proposal[c] # Handshake!NoCheckpoint /\ proposal[c] # offered) \/ ~Handshake!Matches(c, offered))
      <4> DEFINE done == readiness[c] = "done"
      <4>1. /\ agreement' = [agreement EXCEPT ![c] = Agreed(c)]
            /\ readiness' = [readiness EXCEPT ![c] = IF readiness[c] = "unstarted" THEN "running" ELSE readiness[c]]
            /\ Handshake!EvaluateReady(c, Agreed(c), remoteReady[c], done)
        BY <2>2, <3>2 DEF Handshake!ReceiveProposal, Agreed, p
      <4>2. done \in BOOLEAN
        OBVIOUS
      <4> HIDE DEF done
      <4>3. /\ outcome'[p] = outcome[p] /\ quiet'[p] = quiet[p]
            /\ outcome'[c] = "refused" => outcome[c] = "refused" \/ (remoteReady[c] # Handshake!NoCheckpoint /\ remoteReady[c] # Agreed(c))
            /\ outcome'[c] = "open" /\ quiet[c] => quiet'[c]
        BY <1>2, <4>1, <4>2, EvaluationAnswers
      <4>4. /\ readiness'[p] = readiness[p] /\ agreement'[p] = agreement[p] /\ agreement'[c] = Agreed(c)
            /\ readiness'[c] = "done" => readiness[c] = "done"
        BY <1>2, <4>1 DEF Types
      <4>5. readiness[c] = "done" => agreement[c] = Agreed(c)
        BY <1>2 DEF Agreeing
      <4> QED BY <1>1, <4>3, <4>4, <4>5
    <3> QED BY <3>1, <3>2
  <2>4. Spurned(c)'
    BY <1>1, <1>2, <1>5, <2>3, RefusalStands DEF p
  <2>5. Spurned(p)'
    BY <1>1, <1>2, <2>3, RefusalStands
  <2>6. Hearing(p)'
    BY <1>2, <1>4, <2>2, <2>3, OthersHear
  <2>7. Hearing(c)'
    <3>1. Announced(c) => Announced(c)'
      <4> SUFFICES ASSUME Announced(c) PROVE Announced(c)'
        OBVIOUS
      <4>1. PICK i \in DOMAIN channel[c] : channel[c][i] = Handshake!Ready(agreement[p])
        BY DEF Announced, p
      <4>2. i # 1
        BY <1>1, <1>3, <2>1, <4>1
      <4>3. i - 1 \in DOMAIN channel'[c] /\ channel'[c][i - 1] = channel[c][i]
        <5> DEFINE S == Genuine(c)
                   q == channel[c]
        <5>1. q \in Seq(S) /\ q # <<>> /\ i \in DOMAIN q /\ i # 1 /\ channel'[c] = Tail(q)
          BY <1>1, <1>3, <1>4, <4>2
        <5> HIDE DEF S, q
        <5>2. i \in 1..Len(q) /\ Len(q) \in Nat
          BY <5>1
        <5>3. i - 1 \in DOMAIN Tail(q) /\ Tail(q)[i - 1] = q[i]
          BY <5>1, <5>2
        <5> QED BY <5>1, <5>3 DEF q
      <4> QED BY <2>3, <4>1, <4>3 DEF Announced, Handshake!Ready, p
    <3> QED BY <1>1, <1>2, <2>2, <2>3, <3>1 DEF Hearing, p
  <2> QED BY <1>2, <2>4, <2>5, <2>6, <2>7 DEF Answering
<1>7. CASE message.type = "recovery-ready"
  <2> DEFINE done == readiness[c] = "done"
  <2>1. message.checkpoint = agreement[p] /\ readiness[p] = "done"
    BY <1>3, <1>7 DEF Genuine, Handshake!Proposed, Handshake!Ready, p
  <2>2. /\ remoteReady' = [remoteReady EXCEPT ![c] = agreement[p]]
        /\ Handshake!EvaluateReady(c, agreement[c], agreement[p], done)
        /\ UNCHANGED <<agreement, proposal, readiness>>
    BY <1>1, <1>7, <2>1
  <2>3. done \in BOOLEAN /\ agreement[p] # Handshake!NoCheckpoint /\ (done => agreement[c] # Handshake!NoCheckpoint)
    BY <1>2, <2>1 DEF Agreeing
  <2>4. agreement[c] # Handshake!NoCheckpoint => agreement[c] = Agreed(c)
    BY <1>2 DEF Agreeing
  <2>5. remoteReady'[c] = agreement[p] /\ remoteReady'[p] = remoteReady[p]
    BY <1>2, <2>2 DEF Types
  <2> HIDE DEF done
  <2>6. /\ outcome'[p] = outcome[p] /\ quiet'[p] = quiet[p]
        /\ outcome'[c] = "refused" => outcome[c] = "refused" \/ (agreement[c] # Handshake!NoCheckpoint /\ agreement[p] # agreement[c])
        /\ outcome'[c] = "open" => (done /\ agreement[c] # Handshake!NoCheckpoint /\ agreement[p] # Handshake!NoCheckpoint => quiet'[c])
    BY <1>2, <2>2, <2>3, EvaluationAnswers
  <2>7. Spurned(c)'
    BY <1>1, <1>2, <2>3, <2>4, <2>6, RefusalStands DEF p
  <2>8. Spurned(p)'
    BY <1>1, <1>2, <2>6, RefusalStands
  <2>9. Hearing(p)'
    BY <1>2, <1>4, <2>2, <2>5, <2>6, OthersHear
  <2>10. Hearing(c)'
    BY <2>2, <2>3, <2>5, <2>6 DEF Hearing, done
  <2> QED BY <1>2, <2>7, <2>8, <2>9, <2>10 DEF Answering
<1> QED BY <1>1, <1>6, <1>7

(* The readiness of a client is on its way as soon as it is ready.         *)
LEMMA BecomeReadyAnswers == ASSUME Handshake!HandshakeAssumption, Resuming, Answering, NEW c \in Client, Handshake!BecomeReady(c) PROVE Answering'
<1> DEFINE p == Handshake!Peer(c)
           two == <<Handshake!Proposed(Handshake!Proposal(c)), Handshake!Ready(agreement[c])>>
           S == Genuine(c) \cup Genuine(p) \cup {Handshake!Proposed(Handshake!Proposal(c)), Handshake!Ready(agreement[c])}
<1>1. /\ outcome[c] = "open" /\ readiness[c] = "running"
      /\ readiness' = [readiness EXCEPT ![c] = "done"]
      /\ channel' = Handshake!Sent(c, two)
      /\ Handshake!EvaluateReady(c, agreement[c], remoteReady[c], TRUE)
      /\ UNCHANGED <<Handshake!frozen, agreement, proposal, remoteReady>>
  BY DEF Handshake!BecomeReady
<1>2. /\ p \in Client /\ p # c /\ Handshake!Peer(p) = c /\ \A d \in Client : d = c \/ d = p
      /\ Types /\ Agreeing(c) /\ Told(c) /\ Told(p) /\ Spurned(c) /\ Hearing(c) /\ Spurned(p) /\ Hearing(p)
  BY Peers DEF Resuming, Answering
<1>3. readiness'[c] = "done" /\ readiness'[p] = readiness[p]
  BY <1>1, <1>2 DEF Types
<1>4. /\ outcome'[p] = outcome[p] /\ quiet'[p] = quiet[p]
      /\ outcome'[c] = "refused" => remoteReady[c] # Handshake!NoCheckpoint /\ remoteReady[c] # agreement[c] /\ agreement[c] # Handshake!NoCheckpoint
      /\ outcome'[c] = "open" /\ agreement[c] # Handshake!NoCheckpoint /\ remoteReady[c] # Handshake!NoCheckpoint => quiet'[c]
  BY <1>1, <1>2, EvaluationAnswers
<1>5. agreement[c] # Handshake!NoCheckpoint /\ agreement[c] = Agreed(c)
  BY <1>1, <1>2 DEF Agreeing
<1>6. /\ \A d \in Client : \A i \in DOMAIN channel[d] : i \in DOMAIN channel'[d] /\ channel'[d][i] = channel[d][i]
      /\ outcome[p] = "open" => \E j \in DOMAIN channel'[p] : channel'[p][j] = Handshake!Ready(agreement[c])
  <2>1. channel[c] \in Seq(Genuine(c)) /\ channel[p] \in Seq(Genuine(p)) /\ Genuine(c) \subseteq S /\ Genuine(p) \subseteq S
    BY <1>2 DEF Told
  <2>2. two \in Seq(S) /\ 2 \in DOMAIN two /\ two[2] = Handshake!Ready(agreement[c])
    <3> DEFINE m == Handshake!Proposed(Handshake!Proposal(c))
               n == Handshake!Ready(agreement[c])
    <3>1. m \in S /\ n \in S /\ two = <<m, n>>
      OBVIOUS
    <3> HIDE DEF m, n, S, two
    <3>2. <<m, n>> \in Seq(S) /\ 2 \in DOMAIN <<m, n>> /\ <<m, n>>[2] = n
      BY <3>1
    <3> QED BY <3>1, <3>2 DEF n
  <2> HIDE DEF S, two
  <2>3. ASSUME NEW A, A \subseteq S, NEW s \in Seq(A) PROVE s \in Seq(S)
    BY <2>3
  <2>4. \A d \in Client : channel[d] \in Seq(S)
    BY <1>2, <2>1, <2>3
  <2>5. /\ \A d \in Client : \A i \in DOMAIN channel[d] : i \in DOMAIN channel'[d] /\ channel'[d][i] = channel[d][i]
        /\ outcome[p] = "open" => \A i \in DOMAIN two : \E j \in DOMAIN channel'[p] : channel'[p][j] = two[i]
    BY <1>1, <1>2, <2>2, <2>4, SentComesLast
  <2> QED BY <2>2, <2>5
<1> HIDE DEF p
<1>7. Spurned(c)' /\ Spurned(p)'
  <2>1. remoteReady[c] # Handshake!NoCheckpoint => remoteReady[c] = agreement[p]
    BY <1>2 DEF Told, p
  <2>2. Spurned(c)'
    BY <1>1, <1>2, <1>4, <1>5, <2>1, RefusalStands DEF p
  <2>3. Spurned(p)'
    BY <1>1, <1>2, <1>4, RefusalStands
  <2> QED BY <2>2, <2>3
<1>8. Hearing(c)'
  <2>1. Announced(c) => Announced(c)'
    BY <1>1, <1>2, <1>6 DEF Announced, Handshake!Ready, p
  <2> QED BY <1>1, <1>2, <1>3, <1>4, <1>5, <2>1 DEF Hearing, p
<1>9. Hearing(p)'
  <2>1. outcome[p] = "open" => Announced(p)'
    BY <1>1, <1>2, <1>6 DEF Announced, Handshake!Ready
  <2>2. readiness'[p] = readiness[p] /\ outcome'[p] = outcome[p] /\ quiet'[p] = quiet[p] /\ remoteReady'[p] = remoteReady[p]
    BY <1>1, <1>3, <1>4
  <2> QED BY <1>2, <2>1, <2>2 DEF Hearing
<1> QED BY <1>2, <1>7, <1>8, <1>9 DEF Answering

(* Who ends has not refused, and takes nothing from the other.             *)
LEMMA EndAnswers ==
    ASSUME Handshake!HandshakeAssumption, Resuming, Answering, NEW c \in Client, Handshake!Finish(c) \/ Handshake!GiveUp(c)
    PROVE  Answering'
<1>1. /\ outcome' = [outcome EXCEPT ![c] = "agreed"] \/ outcome' = [outcome EXCEPT ![c] = "failed"]
      /\ channel' = [channel EXCEPT ![c] = <<>>]
      /\ UNCHANGED <<Handshake!frozen, agreement, proposal, remoteReady, readiness, quiet>>
  BY DEF Handshake!Finish, Handshake!GiveUp
<1>2. Types
  BY DEF Resuming
<1>3. ASSUME NEW d \in Client PROVE Spurned(d)' /\ Hearing(d)'
  <2>1. Spurned(d) /\ Hearing(d)
    BY DEF Answering
  <2>2. CASE d = c
    <3>1. outcome'[d] \in {"agreed", "failed"}
      BY <1>1, <1>2, <2>2 DEF Types
    <3> QED BY <3>1 DEF Spurned, Hearing
  <2>3. CASE d # c
    <3>1. outcome'[d] = outcome[d] /\ channel'[d] = channel[d]
      BY <1>1, <1>2, <2>3 DEF Types
    <3> QED BY <1>1, <2>1, <3>1, RefusalStands, OthersHear
  <2> QED BY <2>2, <2>3
<1> QED BY <1>3 DEF Answering

(* Every step of the exchange keeps the invariant.                          *)
LEMMA ResumingNext == ASSUME Handshake!HandshakeAssumption, Resuming, Handshake!Next PROVE Resuming'
<1>1. PICK c \in Client :
          Handshake!Resend(c) \/ Handshake!Deliver(c) \/ Handshake!BecomeReady(c) \/ Handshake!Finish(c) \/ Handshake!GiveUp(c)
  BY DEF Handshake!Next
<1> QED BY <1>1, ResendKeeps, DeliverKeeps, BecomeReadyKeeps, EndKeeps

(* And so it does what has been refused and told.                          *)
LEMMA AnsweringNext == ASSUME Handshake!HandshakeAssumption, Resuming, Answering, Handshake!Next PROVE Answering'
<1>1. PICK c \in Client :
          Handshake!Resend(c) \/ Handshake!Deliver(c) \/ Handshake!BecomeReady(c) \/ Handshake!Finish(c) \/ Handshake!GiveUp(c)
  BY DEF Handshake!Next
<1> QED BY <1>1, ResendAnswers, DeliverAnswers, BecomeReadyAnswers, EndAnswers

(* A client resumes only when its peer has agreed to the same checkpoint   *)
(* and was taken back by the server, never refuses and has been told or is *)
(* about to be; and the states the two hold for the frame they resume from *)
(* are the same (exchangeWebRtcRecoveryCheckpoint).                        *)
LEMMA ResumesSafely == ASSUME Handshake!HandshakeAssumption, Resuming, Answering PROVE Handshake!SafeResume
<1> SUFFICES ASSUME NEW c \in Client, outcome[c] = "agreed"
             PROVE  /\ agreement[Handshake!Peer(c)] = agreement[c] /\ readiness[Handshake!Peer(c)] = "done"
                    /\ outcome[Handshake!Peer(c)] # "refused"
                    /\ outcome[Handshake!Peer(c)] = "open" =>
                          \/ quiet[Handshake!Peer(c)]
                          \/ \E i \in DOMAIN channel[Handshake!Peer(c)] : channel[Handshake!Peer(c)][i] = Handshake!Ready(agreement[c])
                    /\ LET f == Handshake!Smaller(position[c], position[Handshake!Peer(c)])
                       IN  /\ timeline[c] = timeline[Handshake!Peer(c)]
                           /\ agreement[c].cursor = f
                           /\ f \in DOMAIN history[c] \cap DOMAIN history[Handshake!Peer(c)]
                           /\ history[c][f] = history[Handshake!Peer(c)][f]
  BY DEF Handshake!SafeResume, Handshake!ResumeTogether, Handshake!ResumeSameState
<1> DEFINE f == Handshake!Smaller(position[c], position[Handshake!Peer(c)])
<1>1. Handshake!Peer(c) \in Client /\ Handshake!Peer(Handshake!Peer(c)) = c /\ MaxCursor \in Nat
  BY Peers, Constants
<1>2. /\ readiness[c] = "done" /\ readiness[Handshake!Peer(c)] = "done" /\ agreement[c] = agreement[Handshake!Peer(c)]
  BY DEF Resuming, Together
<1>3. /\ agreement[c] = Agreed(c) /\ Handshake!Matches(c, Handshake!Proposal(Handshake!Peer(c)))
      /\ agreement[Handshake!Peer(c)] = Agreed(Handshake!Peer(c)) /\ Handshake!Matches(Handshake!Peer(c), Handshake!Proposal(c))
  BY <1>1, <1>2 DEF Resuming, Agreeing
<1>4. position[c] \in Int /\ position[Handshake!Peer(c)] \in Int
  BY <1>1 DEF Resuming, Types, Handshake!Cursor
<1>5. f = Handshake!Smaller(position[Handshake!Peer(c)], position[c])
  BY <1>4 DEF Handshake!Smaller
<1>6. \A d \in Client : Handshake!Proposal(d).cursor = position[d] /\ Handshake!Proposal(d).timeline = timeline[d] /\ Handshake!Proposal(d).checksum = history[d][position[d]]
  BY DEF Handshake!Proposal
<1> HIDE DEF f
<1>7. f \in DOMAIN history[c] /\ f \in DOMAIN history[Handshake!Peer(c)] /\ timeline[c] = timeline[Handshake!Peer(c)]
  BY <1>1, <1>3, <1>5, <1>6 DEF Handshake!Matches, f
<1>8. Agreed(c).cursor = f /\ Agreed(c).checksum = Handshake!Held(c, f) /\ Agreed(Handshake!Peer(c)).checksum = Handshake!Held(Handshake!Peer(c), f)
  BY <1>1, <1>5, <1>6 DEF Agreed, Handshake!Agreement, f
<1>9. Handshake!Held(c, f) = history[c][f] /\ Handshake!Held(Handshake!Peer(c), f) = history[Handshake!Peer(c)][f]
  BY <1>1, <1>6 DEF Handshake!Held
<1>10. outcome[Handshake!Peer(c)] # "refused"
  BY <1>1, <1>2, <1>3 DEF Answering, Spurned
<1>11. outcome[Handshake!Peer(c)] = "open" =>
          \/ quiet[Handshake!Peer(c)]
          \/ \E i \in DOMAIN channel[Handshake!Peer(c)] : channel[Handshake!Peer(c)][i] = Handshake!Ready(agreement[c])
  BY <1>1, <1>2 DEF Answering, Hearing, Announced
<1> QED BY <1>2, <1>3, <1>7, <1>8, <1>9, <1>10, <1>11 DEF f

(* The game is frozen: what the exchange compares does not change.         *)
Fixed ==
    /\ timeline \in [Client -> Timeline] /\ position \in [Client -> Handshake!Cursor]
    /\ \A c \in Client : /\ position[c] \in DOMAIN history[c]
                         /\ \A f \in DOMAIN history[c] : history[c][f] \in Checksum

(* What is in transit: a resend fits, and readiness is announced once more. *)
Room ==
    \A c \in Client : Len(channel[c]) <= MaxSent + (IF readiness[Handshake!Peer(c)] = "done" THEN 2 ELSE 0)

Exchanging == Fixed /\ Resuming /\ Answering /\ Room

(* The exchange begins with one proposal under way to each.                *)
LEMMA ExchangingInit == ASSUME Handshake!HandshakeAssumption, Handshake!Init PROVE Exchanging
<1>0. MaxSent \in Nat /\ MaxSent > 0 /\ MaxCursor \in Nat
  BY DEF Handshake!HandshakeAssumption
<1>1. Fixed
  <2>1. PICK retained \in [Client -> Handshake!Cursor] :
            /\ \A c \in Client : retained[c] <= position[c]
            /\ history \in [Client -> UNION {[f..MaxCursor -> Checksum] : f \in Handshake!Cursor}]
            /\ \A c \in Client : DOMAIN history[c] = retained[c]..MaxCursor
    BY DEF Handshake!Init
  <2>2. timeline \in [Client -> Timeline] /\ position \in [Client -> Handshake!Cursor]
    BY DEF Handshake!Init
  <2>3. ASSUME NEW c \in Client
        PROVE  position[c] \in DOMAIN history[c] /\ \A f \in DOMAIN history[c] : history[c][f] \in Checksum
    <3>1. retained[c] \in Int /\ position[c] \in Int /\ retained[c] <= position[c] /\ position[c] <= MaxCursor
      BY <1>0, <2>1, <2>2 DEF Handshake!Cursor
    <3>2. position[c] \in DOMAIN history[c]
      BY <1>0, <2>1, <3>1
    <3>3. PICK g \in Handshake!Cursor : history[c] \in [g..MaxCursor -> Checksum]
      BY <2>1
    <3> QED BY <3>2, <3>3
  <2> QED BY <2>2, <2>3 DEF Fixed
<1>2. Room
  <2>1. ASSUME NEW c \in Client PROVE Len(channel[c]) = 1
    <3>1. channel[c] = <<Handshake!Proposed(Handshake!Proposal(Handshake!Peer(c)))>>
      BY DEF Handshake!Init
    <3> QED BY <3>1
  <2>2. ASSUME NEW c \in Client PROVE Len(channel[c]) <= MaxSent + (IF readiness[Handshake!Peer(c)] = "done" THEN 2 ELSE 0)
    <3>1. Len(channel[c]) = 1
      BY <2>1
    <3>2. 1 <= MaxSent + 2 /\ 1 <= MaxSent + 0
      BY <1>0
    <3> QED BY <3>1, <3>2
  <2> QED BY <2>2 DEF Room
<1> QED BY <1>1, <1>2, ResumingInit, AnsweringInit DEF Exchanging

(* The messages in transit stay as few.                                    *)
LEMMA RoomNext ==
    ASSUME Handshake!HandshakeAssumption, Resuming, Room, NEW c \in Client,
           Handshake!Resend(c) \/ Handshake!Deliver(c) \/ Handshake!BecomeReady(c) \/ Handshake!Finish(c) \/ Handshake!GiveUp(c)
    PROVE  Room'
<1> DEFINE d == Handshake!Peer(c)
<1>0. /\ d \in Client /\ d # c /\ Handshake!Peer(d) = c /\ \A e \in Client : e = c \/ e = d
      /\ MaxSent \in Nat /\ MaxSent > 0
  BY Peers DEF Handshake!HandshakeAssumption
<1>1. /\ channel = [e \in Client |-> channel[e]] /\ readiness \in [Client -> {"unstarted", "running", "done"}]
      /\ channel[c] \in Seq(Genuine(c)) /\ channel[d] \in Seq(Genuine(d))
  BY <1>0 DEF Resuming, Types, Told
<1>2. /\ Len(channel[c]) \in Nat /\ Len(channel[d]) \in Nat
      /\ Len(channel[c]) <= MaxSent + (IF readiness[d] = "done" THEN 2 ELSE 0)
      /\ Len(channel[d]) <= MaxSent + (IF readiness[c] = "done" THEN 2 ELSE 0)
  BY <1>0, <1>1 DEF Room
<1> SUFFICES /\ Len(channel'[c]) <= MaxSent + (IF readiness'[d] = "done" THEN 2 ELSE 0)
             /\ Len(channel'[d]) <= MaxSent + (IF readiness'[c] = "done" THEN 2 ELSE 0)
  <2>1. ASSUME NEW e \in Client
        PROVE  Len(channel'[e]) <= MaxSent + (IF readiness'[Handshake!Peer(e)] = "done" THEN 2 ELSE 0)
    <3>1. CASE e = c
      BY <3>1
    <3>2. CASE e = d
      BY <1>0, <3>2
    <3> QED BY <1>0, <3>1, <3>2
  <2> QED BY <2>1 DEF Room
<1> HIDE DEF d
<1>3. ASSUME NEW messages, messages \in Seq(Genuine(d)) PROVE Len(channel[d] \o messages) = Len(channel[d]) + Len(messages)
  BY <1>1, <1>3
<1>4. ASSUME NEW messages, channel' = Handshake!Sent(c, messages)
      PROVE  channel'[c] = channel[c] /\ channel'[d] \in {channel[d], channel[d] \o messages}
  BY <1>0, <1>1, <1>4 DEF Handshake!Sent, d
<1>5. CASE Handshake!Resend(c)
  <2>1. /\ Len(channel[d]) + Len(Handshake!CurrentState(c)) <= MaxSent /\ readiness' = readiness
        /\ channel' = Handshake!Sent(c, Handshake!CurrentState(c))
    BY <1>5 DEF Handshake!Resend, Handshake!exchange, d
  <2>2. Handshake!CurrentState(c) \in Seq(Genuine(d))
    <3> DEFINE m == Handshake!Proposed(Handshake!Proposal(c))
               n == Handshake!Ready(agreement[c])
    <3>1. m \in Genuine(d) /\ (readiness[c] = "done" => n \in Genuine(d))
      BY <1>0 DEF Genuine
    <3>2. Handshake!CurrentState(c) = <<m>> \o (IF readiness[c] = "done" THEN <<n>> ELSE <<>>)
      BY DEF Handshake!CurrentState
    <3> HIDE DEF m, n
    <3> DEFINE S == Genuine(d)
    <3>3. m \in S /\ (readiness[c] = "done" => n \in S)
      BY <3>1
    <3> HIDE DEF S
    <3>4. <<m>> \o (IF readiness[c] = "done" THEN <<n>> ELSE <<>>) \in Seq(S)
      BY <3>3
    <3> QED BY <3>2, <3>4 DEF S
  <2>3. Len(channel[d] \o Handshake!CurrentState(c)) = Len(channel[d]) + Len(Handshake!CurrentState(c))
    BY <1>3, <2>2
  <2>4. channel'[c] = channel[c] /\ channel'[d] \in {channel[d], channel[d] \o Handshake!CurrentState(c)}
    BY <1>4, <2>1
  <2> QED BY <1>0, <1>2, <2>1, <2>3, <2>4
<1>6. CASE Handshake!Deliver(c)
  <2>1. channel[c] # <<>> /\ channel' = [channel EXCEPT ![c] = Tail(channel[c])]
    BY <1>6 DEF Handshake!Deliver
  <2>2. channel'[c] = Tail(channel[c]) /\ channel'[d] = channel[d]
    BY <1>0, <1>1, <2>1
  <2>3. Len(channel'[c]) = Len(channel[c]) - 1
    BY <1>1, <2>1, <2>2
  <2>4. \A e \in Client : readiness'[e] = "done" <=> readiness[e] = "done"
    <3>1. readiness' = readiness \/ readiness' = [readiness EXCEPT ![c] = IF readiness[c] = "unstarted" THEN "running" ELSE readiness[c]]
      BY <1>6 DEF Handshake!Deliver, Handshake!ReceiveProposal
    <3> QED BY <1>1, <3>1
  <2> QED BY <1>0, <1>2, <2>2, <2>3, <2>4
<1>7. CASE Handshake!BecomeReady(c)
  <2> DEFINE two == <<Handshake!Proposed(Handshake!Proposal(c)), Handshake!Ready(agreement[c])>>
  <2>1. readiness[c] = "running" /\ readiness' = [readiness EXCEPT ![c] = "done"] /\ channel' = Handshake!Sent(c, two)
    BY <1>7 DEF Handshake!BecomeReady
  <2>2. Len(channel[d] \o two) = Len(channel[d]) + 2
    <3> DEFINE m == Handshake!Proposed(Handshake!Proposal(c))
               n == Handshake!Ready(agreement[c])
               S == Genuine(d)
               T == S \cup {m, n}
    <3>1. two = <<m, n>> /\ channel[d] \in Seq(S)
      BY <1>1
    <3> HIDE DEF two, m, n, S
    <3>2. channel[d] \in Seq(T)
      <4>1. S \subseteq T
        OBVIOUS
      <4> HIDE DEF T
      <4> QED BY <3>1, <4>1
    <3>3. <<m, n>> \in Seq(T) /\ Len(<<m, n>>) = 2
      OBVIOUS
    <3> HIDE DEF T
    <3> QED BY <3>1, <3>2, <3>3
  <2> HIDE DEF two
  <2>3. channel'[c] = channel[c] /\ channel'[d] \in {channel[d], channel[d] \o two}
    BY <1>4, <2>1
  <2>4. readiness'[c] = "done" /\ readiness'[d] = readiness[d]
    BY <1>0, <1>1, <2>1
  <2> QED BY <1>0, <1>2, <2>1, <2>2, <2>3, <2>4
<1>8. CASE Handshake!Finish(c) \/ Handshake!GiveUp(c)
  <2>1. channel' = [channel EXCEPT ![c] = <<>>] /\ readiness' = readiness
    BY <1>8 DEF Handshake!Finish, Handshake!GiveUp
  <2>2. channel'[c] = <<>> /\ channel'[d] = channel[d] /\ Len(<<>>) = 0
    BY <1>0, <1>1, <2>1
  <2> QED BY <1>0, <1>2, <2>1, <2>2
<1> QED BY <1>5, <1>6, <1>7, <1>8

(* Every step of the exchange keeps it all.                                *)
LEMMA ExchangingNext == ASSUME Handshake!HandshakeAssumption, Exchanging, Handshake!Next PROVE Exchanging'
<1>1. PICK c \in Client :
          Handshake!Resend(c) \/ Handshake!Deliver(c) \/ Handshake!BecomeReady(c) \/ Handshake!Finish(c) \/ Handshake!GiveUp(c)
  BY DEF Handshake!Next
<1>2. UNCHANGED <<timeline, position, history>>
  BY <1>1 DEF Handshake!Resend, Handshake!Deliver, Handshake!BecomeReady, Handshake!Finish, Handshake!GiveUp, Handshake!frozen
<1>3. Fixed'
  BY <1>2 DEF Exchanging, Fixed, Handshake!Cursor
<1>4. Room'
  BY <1>1, RoomNext DEF Exchanging
<1> QED BY <1>3, <1>4, ResumingNext, AnsweringNext DEF Exchanging

(* What is exchanged are checkpoints, and a bounded number of messages.    *)
LEMMA ExchangingImplies == ASSUME Handshake!HandshakeAssumption, Exchanging PROVE Handshake!TypeOK /\ Handshake!SafeResume
<1>0. Fixed /\ Resuming /\ Answering /\ Room /\ Types /\ MaxSent \in Nat /\ MaxCursor \in Nat
  BY DEF Exchanging, Resuming, Handshake!HandshakeAssumption
<1>1. ASSUME NEW c \in Client
      PROVE  /\ Handshake!Proposal(c) \in Handshake!Checkpoint
             /\ agreement[c] \in Handshake!Checkpoint \cup {Handshake!NoCheckpoint}
  <2>1. Handshake!Peer(c) \in Client
    BY Peers
  <2>2. \A d \in Client : /\ timeline[d] \in Timeline /\ position[d] \in Handshake!Cursor
                          /\ history[d][position[d]] \in Checksum
    BY <1>0 DEF Fixed
  <2>3. \A d \in Client : Handshake!Proposal(d) \in Handshake!Checkpoint
    BY <2>2 DEF Handshake!Proposal, Handshake!Checkpoint
  <2>4. CASE agreement[c] # Handshake!NoCheckpoint
    <3> DEFINE f == Handshake!Smaller(position[c], Handshake!Proposal(Handshake!Peer(c)).cursor)
    <3>1. agreement[c] = Agreed(c) /\ Handshake!Matches(c, Handshake!Proposal(Handshake!Peer(c)))
      BY <1>0, <2>4 DEF Resuming, Agreeing
    <3>2. f \in DOMAIN history[c]
      BY <3>1 DEF Handshake!Matches
    <3>3. Handshake!Held(c, f) \in Checksum
      BY <1>0, <2>2, <3>2 DEF Handshake!Held, Handshake!Proposal, Fixed
    <3>4. f \in Handshake!Cursor
      BY <2>1, <2>2 DEF Handshake!Proposal, Handshake!Smaller
    <3>5. Agreed(c) = [timeline |-> timeline[c], cursor |-> f, checksum |-> Handshake!Held(c, f)]
      BY DEF Agreed, Handshake!Agreement
    <3> HIDE DEF f
    <3> QED BY <2>2, <2>3, <3>1, <3>3, <3>4, <3>5 DEF Handshake!Checkpoint
  <2> QED BY <2>3, <2>4
<1>2. agreement \in [Client -> Handshake!Checkpoint \cup {Handshake!NoCheckpoint}]
  BY <1>0, <1>1 DEF Types
<1>3. proposal \in [Client -> Handshake!Checkpoint \cup {Handshake!NoCheckpoint}]
  <2>1. ASSUME NEW c \in Client PROVE proposal[c] \in Handshake!Checkpoint \cup {Handshake!NoCheckpoint}
    BY <1>0, <1>1, Peers DEF Resuming, Agreeing
  <2> QED BY <1>0, <2>1 DEF Types
<1>4. remoteReady \in [Client -> Handshake!Checkpoint \cup {Handshake!NoCheckpoint}]
  <2>1. ASSUME NEW c \in Client PROVE remoteReady[c] \in Handshake!Checkpoint \cup {Handshake!NoCheckpoint}
    BY <1>0, <1>1, Peers DEF Resuming, Told
  <2> QED BY <1>0, <2>1 DEF Types
<1>5. \A c \in Client : Len(channel[c]) <= MaxSent + 2
  <2>1. ASSUME NEW c \in Client PROVE Len(channel[c]) <= MaxSent + 2
    <3>1. Len(channel[c]) \in Nat
      BY <1>0 DEF Resuming, Told
    <3> QED BY <1>0, <3>1 DEF Room
  <2> QED BY <2>1
<1>6. Handshake!TypeOK
  BY <1>0, <1>2, <1>3, <1>4, <1>5 DEF Handshake!TypeOK, Fixed, Types
<1> QED BY <1>0, <1>6, ResumesSafely

-----------------------------------------------------------------------------
(* The two parts of the model: one of them runs, and the other rests.      *)
ConnectionInv == IF part = "handshake" THEN Exchanging ELSE Negotiating

(* The composed invariant is inductive.                                    *)
LEMMA ConnectionInvInit == ConnectionInit => ConnectionInv
BY ConnectionAssumption, NegotiatingStart, ExchangingInit DEF ConnectionInit, ConnectionInv

LEMMA ConnectionInvNext == ASSUME ConnectionInv, [Negotiates \/ Exchanges]_all PROVE ConnectionInv'
<1>1. CASE Negotiates
  <2>1. part # "handshake" /\ part' = part /\ Next
    BY <1>1 DEF Negotiates
  <2> QED BY <2>1, NegotiatingNext DEF ConnectionInv
<1>2. CASE Exchanges
  <2>1. part = "handshake" /\ part' = part /\ Handshake!Next
    BY <1>2 DEF Exchanges
  <2> QED BY <2>1, ConnectionAssumption, ExchangingNext DEF ConnectionInv
<1>3. CASE UNCHANGED all
  <2>1. UNCHANGED part /\ UNCHANGED vars /\ UNCHANGED handshake
    BY <1>3 DEF all
  <2>2. CASE part = "handshake"
    <3>1. UNCHANGED <<timeline, position, history, agreement, proposal, remoteReady, readiness, quiet, outcome, channel>>
      BY <2>1 DEF handshake
    <3>2. Fixed' /\ Room'
      BY <2>2, <3>1 DEF ConnectionInv, Exchanging, Fixed, Room
    <3>3. Resuming
      BY <2>2 DEF ConnectionInv, Exchanging
    <3>4. Types'
      BY <3>1, <3>3 DEF Resuming, Types, Handshake!Cursor
    <3>5. ASSUME NEW c \in Client PROVE Agreeing(c)' /\ Told(c)' /\ Together(c)'
      <4>1. Agreeing(c)'
        BY <3>1, <3>3 DEF Resuming, Agreeing, Agreed, Handshake!Agreement, Handshake!Proposal, Handshake!Held,
                          Handshake!Matches, Handshake!Peer
      <4>2. Told(c)'
        <5>1. Genuine(c)' = Genuine(c)
          BY <3>1 DEF Genuine, Handshake!Proposal, Handshake!Peer
        <5> QED BY <3>1, <3>3, <5>1 DEF Resuming, Told, Handshake!Peer
      <4>3. Together(c)'
        BY <3>1, <3>3 DEF Resuming, Together, Handshake!Peer
      <4> QED BY <4>1, <4>2, <4>3
    <3>6. Resuming'
      BY <3>4, <3>5 DEF Resuming
    <3>7. ASSUME NEW c \in Client PROVE Spurned(c)' /\ Hearing(c)'
      <4>1. Spurned(c) /\ Hearing(c)
        BY <2>2 DEF ConnectionInv, Exchanging, Answering
      <4>2. Spurned(c)'
        BY <3>1, <4>1 DEF Spurned, Agreed, Handshake!Agreement, Handshake!Proposal, Handshake!Held, Handshake!Matches,
                          Handshake!Peer
      <4>3. Hearing(c)'
        <5>1. Announced(c)' = Announced(c)
          BY <3>1 DEF Announced, Handshake!Ready, Handshake!Peer
        <5> QED BY <3>1, <4>1, <5>1 DEF Hearing, Handshake!Peer
      <4> QED BY <4>2, <4>3
    <3>8. Answering'
      BY <3>7 DEF Answering
    <3> QED BY <2>1, <2>2, <3>2, <3>6, <3>8 DEF ConnectionInv, Exchanging
  <2>3. CASE part # "handshake"
    <3>1. UNCHANGED <<current, clearing, rows, nextId, requests, answer, phase, attempt, conn, remote, described,
                      heard, out, tries, waits, gathered, cursor, held, batch, got, recovered, fresh>>
      BY <2>1 DEF vars, mailbox, sender, receiver, link
    <3>2. Negotiating /\ WireTypes
      BY <2>3 DEF ConnectionInv, Negotiating
    <3>3. WireTypes'
      BY <3>1, <3>2 DEF WireTypes
    <3>4. Numbered' /\ Attempts' /\ Publishing' /\ Reading' /\ Initiated' /\ Describing'
      BY <3>1, <3>2, FramesKeep
    <3>5. Offering'
      BY <3>1, <3>2 DEF Negotiating, Offering, Offers, Envelopes, Unread, Elements, IsOffer
    <3> QED BY <2>1, <2>3, <3>3, <3>4, <3>5 DEF ConnectionInv, Negotiating
  <2> QED BY <2>2, <2>3
<1> QED BY <1>1, <1>2, <1>3

(* Whatever is resent, lost, delayed or left in the mailbox by an earlier  *)
(* negotiation, no signal of a player's attempt is skipped and a           *)
(* description is set once (webRtcSession.ts, sessionSignalStore.ts); and a *)
(* client resumes over a replacement channel only when its peer has agreed *)
(* and is back at the server, never refuses the checkpoint, and has what it *)
(* needs to resume as well, in the same state.  The peer may still run out *)
(* of time (webRtcRecoveryCheckpoint.ts).                                  *)
THEOREM ConnectionInvariantHolds == ConnectionSpec => []ConnectionInvariant
<1>1. ConnectionInv => ConnectionInvariant
  BY ConnectionAssumption, NegotiatingImplies, ExchangingImplies DEF ConnectionInv, ConnectionInvariant
<1> QED BY <1>1, ConnectionInvInit, ConnectionInvNext, PTL DEF ConnectionSpec

(* Clearing a superseded attempt, however late, takes nothing of the       *)
(* mailbox of its successor (queueService.ts, sessionSignalStore.ts).      *)
THEOREM CurrentMailboxKeptHolds == ConnectionSpec => CurrentMailboxKept
<1>1. ASSUME ConnectionInv, [Negotiates \/ Exchanges]_all
      PROVE  [\A row \in rows : row.attempt = current => row \in rows']_vars
  <2>1. CASE Negotiates
    <3>1. part # "handshake" /\ Next
      BY <2>1 DEF Negotiates
    <3> QED BY <1>1, <3>1, MailboxStep DEF ConnectionInv
  <2>2. CASE Exchanges \/ UNCHANGED all
    BY <2>2 DEF Exchanges, all
  <2> QED BY <1>1, <2>1, <2>2
<1> QED BY <1>1, ConnectionInvInit, ConnectionInvNext, PTL DEF ConnectionSpec, CurrentMailboxKept
=============================================================================
