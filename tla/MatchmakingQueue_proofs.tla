----------------------- MODULE MatchmakingQueue_proofs -----------------------
(***************************************************************************)
(* Proofs about the matchmaking queue, for every number of accounts,       *)
(* tickets and sessions, every band and every timing: the two indexes      *)
(* follow the tickets, matched tickets stay in pairs, and a poll does not  *)
(* depend on who asks.  And about one match session alone (MatchSession),  *)
(* for every choice of the timing constants.                               *)
(*                                                                         *)
(* Every handler is an operator from queue records to queue records, so    *)
(* the argument is one about such operators: each takes a whole record to  *)
(* a whole one.  The buckets are sequences filtered by Keep, a recursive   *)
(* function; what it computes follows from the least length at which it    *)
(* would not (LeastNumber).                                                *)
(***************************************************************************)
EXTENDS MatchmakingQueue, MCMatchSession, SessionRules_proofs, NaturalsInduction,
        WellFoundedInduction

\* The queued tickets that asked for a region of a queue.
Waiting(q, qt, r) == {t \in Asking(q, qt, r) : q.tickets[t].status = "queued"}

Ascending(seq) == \A i, j \in DOMAIN seq : i < j => seq[i] < seq[j]

\* Ids are handed out in order.
InOrder(q) ==
    \A t, u \in TicketId :
        t < u /\ q.tickets[u].status # "unborn" => q.tickets[t].status # "unborn"

\* The active ticket of an account in a queue is its live ticket there.
Indexed(q) ==
    /\ \A t \in TicketId : Live(q, t) =>
         /\ q.tickets[t].account \in Account
         /\ q.active[q.tickets[t].account][q.tickets[t].queueType] = t
    /\ \A a \in Account, qt \in QueueType : q.active[a][qt] # None =>
         /\ Live(q, q.active[a][qt])
         /\ q.tickets[q.active[a][qt]].account = a
         /\ q.tickets[q.active[a][qt]].queueType = qt

\* A bucket holds the waiting tickets of its region, in the order they came.
Bucketed(q) ==
    \A qt \in QueueType, r \in Region :
        Ascending(q.buckets[qt][r]) /\ Elements(q.buckets[qt][r]) = Waiting(q, qt, r)

Base(q) == q \in QueueRecord /\ InOrder(q) /\ Indexed(q) /\ Bucketed(q)

-----------------------------------------------------------------------------
(* Sequences kept by filters.                                              *)

\* A set of numbers that is not empty has a least one.
LEMMA LeastNumber ==
    ASSUME NEW T \in SUBSET Nat, T # {}
    PROVE  \E m \in T : \A n \in T : m <= n
<1>1. IsWellFoundedOn(OpToRel(<, Nat), Nat)
  BY NatLessThanWellFounded
<1>2. PICK m \in T : \A n \in T : ~ (<<n, m>> \in OpToRel(<, Nat))
  BY <1>1, WFMin
<1>3. \A n \in T : n < m => <<n, m>> \in OpToRel(<, Nat)
  BY DEF OpToRel
<1>4. \A n \in T : ~ (n < m)
  BY <1>2, <1>3, Zenon
<1> QED BY <1>4

\* One step of Keep, from what is kept of the first n - 1.
KeepStep(seq, S, f, n) ==
    IF n = 0 THEN <<>>
    ELSE IF seq[n] \in S THEN Append(f[n - 1], seq[n]) ELSE f[n - 1]

\* The recursive function of Keep exists: a least length for which it does
\* not is impossible.
LEMMA KeepExists ==
    ASSUME NEW s \in Seq(Nat), NEW S
    PROVE  \E f : f = [n \in 0..Len(s) |-> KeepStep(s, S, f, n)]
<1> DEFINE R(f, k) == f = [n \in 0..k |-> KeepStep(s, S, f, n)]
           U == {k \in Nat : ~ \E f : R(f, k)}
<1>1. ASSUME U # {} PROVE FALSE
  <2>1. PICK k \in U : \A n \in U : k <= n
    BY <1>1, LeastNumber
  <2>2. CASE k = 0
    <3>1. R([n \in 0..0 |-> <<>>], 0)
      BY DEF KeepStep
    <3>2. QED
      BY <2>2, <3>1
  <2>3. CASE k # 0
    <3>1. k - 1 \in Nat /\ ~(k - 1 \in U)
      BY <2>1, <2>3
    <3>2. PICK f : R(f, k - 1)
      BY <3>1
    <3> DEFINE g == [n \in 0..k |-> IF n < k THEN f[n] ELSE KeepStep(s, S, f, k)]
    <3>3. \A n \in 0..k : g[n] = KeepStep(s, S, g, n)
      <4> SUFFICES ASSUME NEW n \in 0..k PROVE g[n] = KeepStep(s, S, g, n)
        OBVIOUS
      <4>1. n # 0 => n - 1 \in 0..k /\ g[n - 1] = f[n - 1]
        OBVIOUS
      <4>2. ASSUME n < k PROVE f[n] = KeepStep(s, S, f, n)
        <5>1. n \in 0..(k - 1)
          BY <3>1, <4>2
        <5>2. QED
          BY <3>2, <5>1
      <4>3. KeepStep(s, S, g, n) = KeepStep(s, S, f, n)
        BY <4>1 DEF KeepStep
      <4>4. QED
        BY <4>2, <4>3
    <3>4. R(g, k)
      BY <3>3
    <3>5. QED
      BY <3>4, <2>1
  <2>4. QED
    BY <2>2, <2>3
<1>2. Len(s) \in Nat
  OBVIOUS
<1>3. QED
  BY <1>1, <1>2

\* Keep is the last value of that function.
LEMMA KeepIs ==
    ASSUME NEW s \in Seq(Nat), NEW S
    PROVE  \E f : /\ f = [n \in 0..Len(s) |-> KeepStep(s, S, f, n)]
                  /\ Keep(s, S) = f[Len(s)]
<1> DEFINE f == CHOOSE f : f = [n \in 0..Len(s) |-> IF n = 0 THEN <<>>
            ELSE IF s[n] \in S THEN Append(f[n - 1], s[n]) ELSE f[n - 1]]
<1>1. f = [n \in 0..Len(s) |-> IF n = 0 THEN <<>>
            ELSE IF s[n] \in S THEN Append(f[n - 1], s[n]) ELSE f[n - 1]]
  BY KeepExists, ZenonT(40) DEF KeepStep
<1>2. Keep(s, S) = f[Len(s)]
  BY DEF Keep
<1>3. QED
  BY <1>1, <1>2 DEF KeepStep

\* Keep of an ascending sequence: what of it is in S, ascending.
LEMMA KeepFacts ==
    ASSUME NEW s \in Seq(Nat), Ascending(s), NEW S
    PROVE  /\ Keep(s, S) \in Seq(Nat)
           /\ Ascending(Keep(s, S))
           /\ Elements(Keep(s, S)) = Elements(s) \cap S
<1>1. PICK f : /\ f = [n \in 0..Len(s) |-> KeepStep(s, S, f, n)]
               /\ Keep(s, S) = f[Len(s)]
  BY KeepIs
<1> DEFINE Kept(n) == {i \in 1..n : s[i] \in S}
           Right(n) == /\ f[n] \in Seq(Nat)
                       /\ Ascending(f[n])
                       /\ Elements(f[n]) = {s[i] : i \in Kept(n)}
           U == {n \in Nat : n <= Len(s) /\ ~Right(n)}
<1>2. ASSUME U # {} PROVE FALSE
  <2>1. PICK n \in U : \A m \in U : n <= m
    BY <1>2, LeastNumber
  <2>2. n \in 0..Len(s) /\ ~Right(n)
    BY <2>1
  <2>3. f[n] = KeepStep(s, S, f, n)
    BY <1>1, <2>2
  <2>4. CASE n = 0
    <3>1. f[n] = <<>>
      BY <2>3, <2>4 DEF KeepStep
    <3>2. Kept(0) = {}
      OBVIOUS
    <3>3. Right(n)
      BY <3>1, <3>2, <2>4 DEF Ascending, Elements
    <3>4. QED
      BY <3>3, <2>2
  <2>5. CASE n # 0
    <3>1. n - 1 \in 0..Len(s) /\ n \in 1..Len(s) /\ s[n] \in Nat
      BY <2>2, <2>5
    <3>2. Right(n - 1)
      <4>1. n - 1 \in Nat /\ n - 1 <= Len(s) /\ ~(n <= n - 1)
        BY <2>2, <3>1
      <4>2. n - 1 \notin U
        BY <2>1, <4>1
      <4> HIDE DEF Right
      <4>3. QED
        BY <4>1, <4>2
    <3>3. CASE s[n] \notin S
      <4>1. f[n] = f[n - 1]
        BY <2>3, <2>5, <3>3 DEF KeepStep
      <4>2. Kept(n) = Kept(n - 1)
        BY <3>1, <3>3
      <4>3. Right(n)
        BY <3>2, <4>1, <4>2
      <4>4. QED
        BY <4>3, <2>2
    <3>4. CASE s[n] \in S
      <4> DEFINE g == f[n - 1]
      <4>1. f[n] = Append(g, s[n])
        BY <2>3, <2>5, <3>4 DEF KeepStep
      <4>2. Kept(n) = Kept(n - 1) \cup {n}
        BY <3>1, <3>4
      <4>3. g \in Seq(Nat) /\ Ascending(g) /\ Elements(g) = {s[i] : i \in Kept(n - 1)}
        BY <3>2
      <4> HIDE DEF g
      <4>4. \A j \in DOMAIN g : g[j] < s[n]
        <5> SUFFICES ASSUME NEW j \in DOMAIN g PROVE g[j] < s[n]
          OBVIOUS
        <5>1. PICK i \in Kept(n - 1) : g[j] = s[i]
          BY <4>3 DEF Elements
        <5>2. i \in DOMAIN s /\ n \in DOMAIN s /\ i < n
          BY <3>1, <5>1
        <5>3. QED
          BY <5>1, <5>2 DEF Ascending
      <4>5. /\ f[n] \in Seq(Nat) /\ DOMAIN f[n] = 1..(Len(g) + 1)
            /\ f[n][Len(g) + 1] = s[n]
            /\ \A j \in DOMAIN g : j \in DOMAIN f[n] /\ f[n][j] = g[j]
            /\ DOMAIN g = 1..Len(g) /\ Len(g) \in Nat
        BY <4>1, <4>3, <3>1, SMTT(30)
      <4>6. Ascending(f[n])
        <5> SUFFICES ASSUME NEW i \in DOMAIN f[n], NEW j \in DOMAIN f[n], i < j
                     PROVE  f[n][i] < f[n][j]
          BY DEF Ascending
        <5>1. i \in DOMAIN g /\ (j \in DOMAIN g \/ j = Len(g) + 1)
          BY <4>5
        <5>2. CASE j \in DOMAIN g
          BY <4>3, <4>5, <5>1, <5>2 DEF Ascending
        <5>3. CASE j = Len(g) + 1
          BY <4>4, <4>5, <5>1, <5>3
        <5>4. QED
          BY <5>1, <5>2, <5>3
      <4>7. Elements(f[n]) = Elements(g) \cup {s[n]}
        <5>1. DOMAIN f[n] = DOMAIN g \cup {Len(g) + 1}
          BY <4>5
        <5>2. QED
          <6>1. \A j \in DOMAIN f[n] : f[n][j] \in Elements(g) \cup {s[n]}
            BY <4>5, <5>1 DEF Elements
          <6>2. Elements(g) \subseteq Elements(f[n]) /\ s[n] \in Elements(f[n])
            BY <4>5, <5>1 DEF Elements
          <6>3. Elements(f[n]) \subseteq Elements(g) \cup {s[n]}
            BY <6>1 DEF Elements
          <6>4. QED
            BY <6>2, <6>3
      <4>8. Elements(f[n]) = {s[i] : i \in Kept(n)}
        BY <4>2, <4>3, <4>7
      <4>9. QED
        BY <4>5, <4>6, <4>8, <2>2
    <3>5. QED
      BY <3>3, <3>4
  <2>6. QED
    BY <2>4, <2>5
<1>3. Right(Len(s))
  <2>1. Len(s) \in Nat /\ Len(s) <= Len(s) /\ Len(s) \notin U
    <3>1. Len(s) \in Nat
      OBVIOUS
    <3> HIDE DEF U
    <3>2. QED
      BY <1>2, <3>1
  <2> HIDE DEF Right
  <2>2. QED
    BY <2>1
<1>4. {s[i] : i \in Kept(Len(s))} = Elements(s) \cap S
  BY DEF Elements
<1>5. QED
  BY <1>1, <1>3, <1>4

\* Two ascending sequences of the same numbers are equal.
LEMMA SameElements ==
    ASSUME NEW s \in Seq(Nat), NEW u \in Seq(Nat), Ascending(s), Ascending(u),
           Elements(s) = Elements(u)
    PROVE  s = u
<1> DEFINE U == {k \in Nat : k \in DOMAIN s /\ k \in DOMAIN u /\ s[k] # u[k]}
<1> DEFINE n == Len(s)  m == Len(u)
<1>n. n \in Nat /\ m \in Nat
  OBVIOUS
<1>0. n \in Nat /\ m \in Nat /\ DOMAIN s = 1..n /\ DOMAIN u = 1..m
  OBVIOUS
<1> HIDE DEF n, m
<1>1. ASSUME U # {} PROVE FALSE
  <2>1. PICK k \in U : \A j \in U : k <= j
    BY <1>1, LeastNumber
  <2>2. /\ k \in DOMAIN s /\ k \in DOMAIN u /\ s[k] # u[k]
        /\ s[k] \in Nat /\ u[k] \in Nat
        /\ \A j \in Nat : j < k /\ j \in DOMAIN s /\ j \in DOMAIN u => s[j] = u[j]
    BY <2>1
  <2>3. CASE s[k] < u[k]
    <3>1. PICK j \in DOMAIN u : u[j] = s[k]
      BY <2>2 DEF Elements
    <3>2. CASE j < k
      <4>1. j \in DOMAIN s /\ s[j] = u[j]
        BY <1>0, <2>2, <3>1, <3>2
      <4>2. s[j] < s[k]
        BY <2>2, <3>2, <4>1 DEF Ascending
      <4>3. QED
        BY <2>2, <3>1, <4>1, <4>2
    <3>3. CASE j = k
      BY <2>2, <3>1, <3>3
    <3>4. CASE j > k
      BY <1>0, <2>2, <2>3, <3>1, <3>4 DEF Ascending
    <3>5. QED
      BY <1>0, <2>2, <3>2, <3>3, <3>4
  <2>4. CASE u[k] < s[k]
    <3>1. PICK j \in DOMAIN s : s[j] = u[k]
      BY <2>2 DEF Elements
    <3>2. CASE j < k
      <4>1. j \in DOMAIN u /\ s[j] = u[j]
        BY <1>0, <2>2, <3>1, <3>2
      <4>2. u[j] < u[k]
        BY <2>2, <3>2, <4>1 DEF Ascending
      <4>3. QED
        BY <2>2, <3>1, <4>1, <4>2
    <3>3. CASE j = k
      BY <2>2, <3>1, <3>3
    <3>4. CASE j > k
      BY <1>0, <2>2, <2>4, <3>1, <3>4 DEF Ascending
    <3>5. QED
      BY <1>0, <2>2, <3>2, <3>3, <3>4
  <2>5. QED
    BY <2>2, <2>3, <2>4
<1>2. ASSUME n < m PROVE FALSE
  <2>a. m \in DOMAIN u
    BY <1>0, <1>2
  <2>b. u[m] \in Elements(u)
    BY <2>a DEF Elements
  <2>0. m \in DOMAIN u /\ u[m] \in Elements(s)
    BY <2>a, <2>b
  <2>1. PICK j \in DOMAIN s : s[j] = u[m]
    BY <2>0 DEF Elements
  <2>2. j \in Nat /\ j \in DOMAIN u /\ j < m
    BY <1>0, <1>2
  <2>3. s[j] = u[j]
    BY <1>1, <2>2
  <2>4. u[j] < u[m]
    BY <2>0, <2>2 DEF Ascending
  <2>5. QED
    BY <2>0, <2>1, <2>2, <2>3, <2>4
<1>3. ASSUME m < n PROVE FALSE
  <2>a. n \in DOMAIN s
    BY <1>0, <1>3
  <2>b. s[n] \in Elements(s)
    BY <2>a DEF Elements
  <2>0. n \in DOMAIN s /\ s[n] \in Elements(u)
    BY <2>a, <2>b
  <2>1. PICK j \in DOMAIN u : u[j] = s[n]
    BY <2>0 DEF Elements
  <2>2. j \in Nat /\ j \in DOMAIN s /\ j < n
    BY <1>0, <1>3
  <2>3. s[j] = u[j]
    BY <1>1, <2>2
  <2>4. s[j] < s[n]
    BY <2>0, <2>2 DEF Ascending
  <2>5. QED
    BY <2>0, <2>1, <2>2, <2>3, <2>4
<1>4. n = m
  <2>1. ~(n < m) /\ ~(m < n)
    BY <1>2, <1>3
  <2>2. QED
    BY <1>n, <2>1
<1>5. \A j \in DOMAIN s : s[j] = u[j]
  BY <1>0, <1>1, <1>4
<1>6. QED
  BY <1>0, <1>4, <1>5, SMTT(30)

\* A sequence is one over any set that has its elements.
LEMMA SeqOf ==
    ASSUME NEW s \in Seq(Nat), NEW T, Elements(s) \subseteq T
    PROVE  s \in Seq(T)
<1>1. \A i \in DOMAIN s : s[i] \in T
  BY DEF Elements
<1>2. QED
  BY <1>1

\* ... and over any larger set.
LEMMA Widen ==
    ASSUME NEW S, NEW T, S \subseteq T, NEW s \in Seq(S)
    PROVE  s \in Seq(T)
OBVIOUS

\* KeepFacts for sequences of ticket ids.
LEMMA KeepIn ==
    ASSUME NEW s \in Seq(TicketId), Ascending(s), NEW S
    PROVE  /\ Keep(s, S) \in Seq(TicketId)
           /\ Ascending(Keep(s, S))
           /\ Elements(Keep(s, S)) = Elements(s) \cap S
<1>1. TicketId \subseteq Nat
  BY DEF TicketId
<1>2. s \in Seq(Nat)
  BY <1>1, Widen
<1>3. Elements(s) \subseteq TicketId
  BY DEF Elements
<1>4. QED
  BY <1>2, <1>3, KeepFacts, SeqOf

-----------------------------------------------------------------------------
(* closeTicket.                                                            *)

\* What closeTicket is asked to close: tickets that have come, each with the
\* key of its account pointing at it or at nothing.
Closable(q, why) ==
    /\ DOMAIN why \subseteq TicketId
    /\ \A t \in DOMAIN why :
        /\ q.tickets[t].status \in {"queued", "matched", "closed"}
        /\ q.tickets[t].account \in Account
        /\ q.active[q.tickets[t].account][q.tickets[t].queueType] \in {t, None}
        /\ why[t].reason \in ClosedReason \cup {"none"}
        /\ why[t].at \in Nat \cup {NoTime}

Owned(q, ids, a, qt) ==
    \E t \in ids : q.tickets[t].account = a /\ q.tickets[t].queueType = qt

\* What closeTicket changes: the closed tickets, their keys, their places.
LEMMA CloseFields ==
    ASSUME NEW q, q \in QueueRecord, NEW why, Closable(q, why),
           NEW n, n = CloseTickets(q, why)
    PROVE  /\ n.sessions = q.sessions /\ n.draining = q.draining
           /\ \A t \in TicketId : t \notin DOMAIN why => n.tickets[t] = q.tickets[t]
           /\ \A t \in DOMAIN why :
                /\ n.tickets[t] \in Ticket
                /\ n.tickets[t].status = "closed"
                /\ n.tickets[t].account = q.tickets[t].account
                /\ n.tickets[t].queueType = q.tickets[t].queueType
                /\ n.tickets[t].profile = q.tickets[t].profile
                /\ n.tickets[t].queuedAt = q.tickets[t].queuedAt
           /\ \A a \in Account, qt \in QueueType :
                n.active[a][qt] = IF Owned(q, DOMAIN why, a, qt) THEN None ELSE q.active[a][qt]
           /\ \A qt \in QueueType, r \in Region :
                n.buckets[qt][r] =
                  Keep(q.buckets[qt][r], TicketId \ (DOMAIN why \cap Asking(q, qt, r)))
           /\ DOMAIN n.tickets = TicketId
<1>1. /\ n.sessions = q.sessions /\ n.draining = q.draining /\ DOMAIN n.tickets = TicketId
      /\ \A t \in TicketId : t \notin DOMAIN why => n.tickets[t] = q.tickets[t]
  BY DEF CloseTickets, QueueRecord
<1>2. \A a \in Account, qt \in QueueType :
        n.active[a][qt] = IF Owned(q, DOMAIN why, a, qt) THEN None ELSE q.active[a][qt]
  BY DEF CloseTickets, QueueRecord, Owned
<1>3. \A qt \in QueueType, r \in Region :
        n.buckets[qt][r] =
          Keep(q.buckets[qt][r], TicketId \ (DOMAIN why \cap Asking(q, qt, r)))
  BY DEF CloseTickets, QueueRecord
<1>4. ASSUME NEW t \in DOMAIN why
      PROVE  /\ n.tickets[t] \in Ticket
             /\ n.tickets[t].status = "closed"
             /\ n.tickets[t].account = q.tickets[t].account
             /\ n.tickets[t].queueType = q.tickets[t].queueType
             /\ n.tickets[t].profile = q.tickets[t].profile
             /\ n.tickets[t].queuedAt = q.tickets[t].queuedAt
  <2>1. /\ t \in TicketId /\ q.tickets[t] \in Ticket
        /\ why[t].reason \in ClosedReason \cup {"none"}
        /\ why[t].at \in Nat \cup {NoTime}
    BY DEF Closable, QueueRecord
  <2> DEFINE tk == q.tickets[t]  reason == why[t].reason  at == why[t].at
  <2>2. n.tickets[t] = [tk EXCEPT !.status = "closed", !.session = None,
                           !.reason = reason, !.closedAt = at]
    BY <2>1 DEF CloseTickets, QueueRecord
  <2>3. tk \in Ticket /\ reason \in ClosedReason \cup {"none"} /\ at \in Nat \cup {NoTime}
    BY <2>1
  <2> HIDE DEF tk, reason, at
  <2>4. /\ n.tickets[t] \in Ticket
        /\ n.tickets[t].status = "closed" /\ n.tickets[t].account = tk.account
        /\ n.tickets[t].queueType = tk.queueType /\ n.tickets[t].profile = tk.profile
        /\ n.tickets[t].queuedAt = tk.queuedAt
    BY <2>2, <2>3 DEF Ticket
  <2>5. QED
    BY <2>4 DEF tk
<1>5. QED
  BY <1>1, <1>2, <1>3, <1>4

\* closeTicket leaves a queue record.
LEMMA CloseTypes ==
    ASSUME NEW q, q \in QueueRecord, Bucketed(q), NEW why, Closable(q, why)
    PROVE  CloseTickets(q, why) \in QueueRecord
<1> DEFINE n == CloseTickets(q, why)
           tickets == [t \in TicketId |->
              IF t \in DOMAIN why
              THEN [q.tickets[t] EXCEPT !.status = "closed", !.session = None,
                        !.reason = why[t].reason, !.closedAt = why[t].at]
              ELSE q.tickets[t]]
           active == [a \in Account |-> [qt \in QueueType |->
              IF \E t \in DOMAIN why : /\ q.tickets[t].account = a
                                       /\ q.tickets[t].queueType = qt
              THEN None ELSE q.active[a][qt]]]
           buckets == [qt \in QueueType |-> [r \in Region |->
              Keep(q.buckets[qt][r], TicketId \ (DOMAIN why \cap Asking(q, qt, r)))]]
<1>1. n = [q EXCEPT !.tickets = tickets, !.active = active, !.buckets = buckets]
  BY DEF CloseTickets
<1>2. tickets \in [TicketId -> Ticket]
  <2>1. \A t \in TicketId : q.tickets[t] \in Ticket
    BY DEF QueueRecord
  <2>2. ASSUME NEW t \in DOMAIN why PROVE tickets[t] \in Ticket
    <3>1. t \in TicketId /\ q.tickets[t] \in Ticket
      BY <2>1 DEF Closable
    <3> DEFINE tk == q.tickets[t]  reason == why[t].reason  at == why[t].at
    <3>2. tickets[t] = [tk EXCEPT !.status = "closed", !.session = None,
                           !.reason = reason, !.closedAt = at]
      BY <3>1
    <3>3. tk \in Ticket /\ reason \in ClosedReason \cup {"none"} /\ at \in Nat \cup {NoTime}
      BY <3>1 DEF Closable
    <3> HIDE DEF tickets, tk, reason, at
    <3>4. QED
      BY <3>2, <3>3 DEF Ticket
  <2>3. \A t \in TicketId : t \notin DOMAIN why => tickets[t] \in Ticket
    BY <2>1
  <2>4. \A t \in TicketId : tickets[t] \in Ticket
    BY <2>2, <2>3
  <2>5. QED
    BY <2>4
<1>3. active \in [Account -> [QueueType -> TicketId \cup {None}]]
  BY DEF QueueRecord
<1>4. buckets \in [QueueType -> [Region -> Seq(TicketId)]]
  <2>1. \A qt \in QueueType, r \in Region : q.buckets[qt][r] \in Seq(TicketId)
    BY DEF QueueRecord
  <2>2. \A qt \in QueueType, r \in Region : buckets[qt][r] \in Seq(TicketId)
    BY <2>1, KeepIn DEF Bucketed
  <2>3. QED
    BY <2>2
<1> HIDE DEF tickets, active, buckets
<1>5. QED
  BY <1>1, <1>2, <1>3, <1>4 DEF QueueRecord

\* closeTicket keeps both indexes in step with the tickets.
LEMMA CloseBase ==
    ASSUME NEW q, Base(q), NEW why, Closable(q, why),
           NEW n, n = CloseTickets(q, why)
    PROVE  Base(n)
<1>0. q \in QueueRecord /\ InOrder(q) /\ Indexed(q) /\ Bucketed(q) /\ DOMAIN why \subseteq TicketId
  BY DEF Base, Closable
<1>1. n \in QueueRecord
  BY <1>0, CloseTypes
<1>2. /\ \A t \in TicketId : t \notin DOMAIN why => n.tickets[t] = q.tickets[t]
      /\ \A t \in DOMAIN why : n.tickets[t].status = "closed"
      /\ \A t \in TicketId : /\ n.tickets[t].account = q.tickets[t].account
                             /\ n.tickets[t].queueType = q.tickets[t].queueType
                             /\ n.tickets[t].profile = q.tickets[t].profile
  BY <1>0, CloseFields
<1>3. /\ \A a \in Account, qt \in QueueType :
                n.active[a][qt] = IF Owned(q, DOMAIN why, a, qt) THEN None ELSE q.active[a][qt]
  BY <1>0, CloseFields
<1>3b. /\ \A qt \in QueueType, r \in Region :
                n.buckets[qt][r] =
                  Keep(q.buckets[qt][r], TicketId \ (DOMAIN why \cap Asking(q, qt, r)))
  BY <1>0, CloseFields
<1>4. InOrder(n)
  <2>1. \A t \in DOMAIN why : q.tickets[t].status # "unborn" /\ n.tickets[t].status # "unborn"
    BY <1>2 DEF Closable
  <2>2. \A t \in TicketId : n.tickets[t].status = "unborn" <=> q.tickets[t].status = "unborn"
    BY <1>2, <2>1
  <2>3. QED
    BY <1>0, <2>2 DEF InOrder
<1>5. Indexed(n)
  <2>1. ASSUME NEW x \in TicketId, Live(n, x)
        PROVE  /\ n.tickets[x].account \in Account
               /\ n.active[n.tickets[x].account][n.tickets[x].queueType] = x
    <3>1. x \notin DOMAIN why
      BY <1>2, <2>1 DEF Live
    <3>2. Live(q, x)
      BY <1>2, <2>1, <3>1 DEF Live
    <3>3. /\ q.tickets[x].account \in Account
          /\ q.active[q.tickets[x].account][q.tickets[x].queueType] = x
          /\ q.tickets[x].queueType \in QueueType
      BY <1>0, <3>2 DEF Indexed, QueueRecord, Ticket
    <3>4. ~Owned(q, DOMAIN why, q.tickets[x].account, q.tickets[x].queueType)
      <4> SUFFICES ASSUME NEW t \in DOMAIN why,
                          q.tickets[t].account = q.tickets[x].account,
                          q.tickets[t].queueType = q.tickets[x].queueType
                   PROVE  FALSE
        BY DEF Owned
      <4>1. x \in {t, None}
        BY <3>3 DEF Closable
      <4>2. x # None
        BY DEF TicketId, None
      <4>3. QED
        BY <3>1, <4>1, <4>2
    <3>5. QED
      BY <1>2, <1>3, <3>3, <3>4
  <2>2. ASSUME NEW a \in Account, NEW qt \in QueueType, n.active[a][qt] # None
        PROVE  /\ Live(n, n.active[a][qt])
               /\ n.tickets[n.active[a][qt]].account = a
               /\ n.tickets[n.active[a][qt]].queueType = qt
    <3>1. ~Owned(q, DOMAIN why, a, qt) /\ n.active[a][qt] = q.active[a][qt]
      BY <1>3, <2>2
    <3> DEFINE x == q.active[a][qt]
    <3>2. Live(q, x) /\ q.tickets[x].account = a /\ q.tickets[x].queueType = qt
      BY <1>0, <2>2, <3>1 DEF Indexed
    <3>3. x \in TicketId
      BY <1>0, <2>2, <3>1 DEF QueueRecord
    <3>4. x \notin DOMAIN why
      BY <3>1, <3>2 DEF Owned
    <3>5. n.tickets[x] = q.tickets[x]
      BY <1>2, <3>3, <3>4
    <3>6. QED
      BY <3>1, <3>2, <3>5 DEF Live
  <2>3. QED
    BY <2>1, <2>2 DEF Indexed
<1>6. Bucketed(n)
  <2> SUFFICES ASSUME NEW qt \in QueueType, NEW r \in Region
               PROVE  /\ Ascending(n.buckets[qt][r])
                      /\ Elements(n.buckets[qt][r]) = Waiting(n, qt, r)
    BY DEF Bucketed
  <2> DEFINE b == q.buckets[qt][r]
  <2>1. b \in Seq(TicketId) /\ Ascending(b) /\ Elements(b) = Waiting(q, qt, r)
    BY <1>0 DEF QueueRecord, Bucketed
  <2> HIDE DEF b
  <2>2. n.buckets[qt][r] = Keep(b, TicketId \ (DOMAIN why \cap Asking(q, qt, r)))
    BY <1>3b DEF b
  <2>3. /\ Ascending(n.buckets[qt][r])
        /\ Elements(n.buckets[qt][r]) =
              Waiting(q, qt, r) \cap (TicketId \ (DOMAIN why \cap Asking(q, qt, r)))
    BY <2>1, <2>2, KeepIn
  <2>4. Asking(n, qt, r) = Asking(q, qt, r)
    BY <1>2 DEF Asking
  <2>5. \A t \in TicketId : t \in Waiting(n, qt, r) <=> t \in Waiting(q, qt, r) /\ t \notin DOMAIN why
    BY <1>2, <2>4 DEF Waiting
  <2>6. Asking(q, qt, r) \subseteq TicketId /\ Asking(n, qt, r) \subseteq TicketId
    BY DEF Asking
  <2>7. Waiting(n, qt, r) = Waiting(q, qt, r) \cap (TicketId \ (DOMAIN why \cap Asking(q, qt, r)))
    BY <2>5, <2>6 DEF Waiting
  <2>8. QED
    BY <2>3, <2>7
<1>7. QED
  BY <1>1, <1>4, <1>5, <1>6 DEF Base

-----------------------------------------------------------------------------
(* findBestCandidate finds one.                                            *)

\* A measure by numbers has a least value.
LEMMA Minimal ==
    ASSUME NEW S, S # {}, NEW f \in [S -> Nat]
    PROVE  \E x \in S : \A y \in S : f[x] <= f[y]
<1> DEFINE T == {f[x] : x \in S}
<1>1. T \in SUBSET Nat /\ T # {}
  OBVIOUS
<1>2. PICK m \in T : \A n \in T : m <= n
  BY <1>1, LeastNumber
<1>3. QED
  BY <1>2

\* A set with two measures has an element that is least by the first and,
\* among those, by the second.
LEMMA LexMinimal ==
    ASSUME NEW S, S # {}, NEW f \in [S -> Nat], NEW g \in [S -> Nat]
    PROVE  \E x \in S : \A y \in S : f[x] < f[y] \/ (f[x] = f[y] /\ g[x] <= g[y])
<1> DEFINE T == {x \in S : \A y \in S : f[x] <= f[y]}
           h == [x \in T |-> g[x]]
<1>1. T # {} /\ h \in [T -> Nat]
  BY Minimal
<1>2. PICK x \in T : \A y \in T : h[x] <= h[y]
  <2> HIDE DEF T, h
  <2>1. QED
    BY <1>1, Minimal
<1>3. ASSUME NEW y \in S PROVE f[x] < f[y] \/ (f[x] = f[y] /\ g[x] <= g[y])
  <2>1. x \in S /\ f[x] \in Nat /\ f[y] \in Nat /\ f[x] <= f[y]
    OBVIOUS
  <2>2. CASE f[x] = f[y]
    <3>1. y \in T
      BY <2>2
    <3>2. QED
      BY <1>2, <2>2, <3>1
  <2>3. QED
    BY <2>1, <2>2
<1>4. QED
  BY <1>3

\* Where an element of a sequence stands.
LEMMA IndexIs ==
    ASSUME NEW X, NEW seq \in Seq(X), NEW x \in Elements(seq)
    PROVE  /\ Index(seq, x) \in DOMAIN seq /\ seq[Index(seq, x)] = x
           /\ Index(seq, x) \in Nat \ {0}
<1>1. \E i \in DOMAIN seq : seq[i] = x
  BY DEF Elements
<1>2. Index(seq, x) \in DOMAIN seq /\ seq[Index(seq, x)] = x
  BY <1>1 DEF Index
<1>3. DOMAIN seq \subseteq Nat \ {0}
  OBVIOUS
<1>4. QED
  BY <1>2, <1>3

\* What the join requests ask for.
LEMMA ProfileType ==
    ASSUME NEW tk \in Ticket
    PROVE  /\ tk.profile \in Profile
           /\ Regions(tk) \in Seq(Region) /\ Regions(tk) # <<>>
           /\ tk.profile.rating \in Int /\ tk.profile.mr \in Int
           /\ tk.queuedAt \in Nat /\ tk.queueType \in QueueType
           /\ Elements(Regions(tk)) \subseteq Region
<1>1. tk.profile \in Profile /\ tk.queuedAt \in Nat /\ tk.queueType \in QueueType
  BY DEF Ticket
<1>2. /\ Regions(tk) \in Seq(Region) /\ Regions(tk) # <<>>
      /\ tk.profile.rating \in Int /\ tk.profile.mr \in Int
  BY <1>1, QueueAssumption DEF Regions
<1>3. Elements(Regions(tk)) \subseteq Region
  BY <1>2 DEF Elements
<1>4. QED
  BY <1>1, <1>2, <1>3

\* The score of a shared region is a number of places.
LEMMA RegionScoreType ==
    ASSUME NEW tk \in Ticket, NEW other \in Ticket, NEW r \in SharedRegions(tk, other)
    PROVE  /\ RegionScore(tk, other, r) \in Nat
           /\ Index(Regions(tk), r) \in Nat \ {0} /\ Index(Regions(other), r) \in Nat \ {0}
           /\ Regions(tk)[Index(Regions(tk), r)] = r
           /\ Regions(other)[Index(Regions(other), r)] = r
<1>1. r \in Elements(Regions(tk)) /\ r \in Elements(Regions(other))
  BY DEF SharedRegions
<1>2. /\ Index(Regions(tk), r) \in Nat \ {0} /\ Index(Regions(other), r) \in Nat \ {0}
      /\ Regions(tk)[Index(Regions(tk), r)] = r
      /\ Regions(other)[Index(Regions(other), r)] = r
  BY <1>1, ProfileType, IndexIs
<1>3. RegionScore(tk, other, r) \in Nat
  BY <1>2 DEF RegionScore
<1>4. QED
  BY <1>2, <1>3

\* resolveSharedRegion finds the best shared region, if there is any.
LEMMA SharedRegionFound ==
    ASSUME NEW tk \in Ticket, NEW other \in Ticket, SharedRegions(tk, other) # {}
    PROVE  LET r == ResolveSharedRegion(tk, other) IN
           /\ r \in SharedRegions(tk, other) /\ r \in Region
           /\ \A x \in SharedRegions(tk, other) :
                RegionScore(tk, other, r) <= RegionScore(tk, other, x)
<1> DEFINE S == SharedRegions(tk, other)
           score == [x \in S |-> RegionScore(tk, other, x)]
           rank == [x \in S |-> Index(Regions(tk), x)]
           Wins(x) == \A y \in S :
              \/ RegionScore(tk, other, x) < RegionScore(tk, other, y)
              \/ /\ RegionScore(tk, other, x) = RegionScore(tk, other, y)
                 /\ Index(Regions(tk), x) <= Index(Regions(tk), y)
<1>1. score \in [S -> Nat] /\ rank \in [S -> Nat]
  BY RegionScoreType
<1>2. PICK r \in S : \A y \in S : \/ score[r] < score[y]
                                  \/ (score[r] = score[y] /\ rank[r] <= rank[y])
  <2> HIDE DEF S, score, rank
  <2>1. QED
    BY <1>1, LexMinimal DEF S
<1>5. r \in S /\ Wins(r)
  BY <1>2
<1>6. ResolveSharedRegion(tk, other) \in S /\ Wins(ResolveSharedRegion(tk, other))
  BY <1>5, Zenon DEF ResolveSharedRegion
<1>7. \A x \in S : RegionScore(tk, other, x) \in Nat
  BY RegionScoreType
<1>8. S \subseteq Region
  BY ProfileType DEF SharedRegions
<1> HIDE DEF S
<1>9. QED
  BY <1>6, <1>7, <1>8 DEF S

\* The measures by which candidates are compared are numbers.
LEMMA ScoreType ==
    ASSUME NEW tk \in Ticket, NEW other \in Ticket, SharedRegions(tk, other) # {}
    PROVE  Score(tk, other) \in Nat
<1>1. RegionScore(tk, other, ResolveSharedRegion(tk, other)) \in Nat
  BY SharedRegionFound, RegionScoreType
<1>2. \A x, y \in Int : Distance(x, y) \in Nat
  BY DEF Distance
<1>3. SkillGap(tk, other) \in Nat
  BY <1>2, ProfileType DEF SkillGap
<1>4. QED
  BY <1>1, <1>3 DEF Score

\* The scan meets a ticket it can meet in a first bucket.
LEMMA FirstMeetingIs ==
    ASSUME NEW q \in QueueRecord, NEW tk \in Ticket, NEW c, Meets(q, tk, c) # {}
    PROVE  LET i == FirstMeeting(q, tk, c) IN
           /\ i \in Nat /\ Bucket(q, tk, i) \in Seq(TicketId)
           /\ c \in Elements(Bucket(q, tk, i))
<1> DEFINE M == Meets(q, tk, c)
<1>1. M \subseteq DOMAIN Regions(tk) /\ DOMAIN Regions(tk) \subseteq Nat
  BY ProfileType DEF Meets
<1>2. \E i \in M : \A j \in M : i <= j
  <2> HIDE DEF M
  <2>1. QED
    BY <1>1, LeastNumber DEF M
<1>3. FirstMeeting(q, tk, c) \in M
  BY <1>2 DEF FirstMeeting
<1>4. \A i \in DOMAIN Regions(tk) : Regions(tk)[i] \in Region
  BY ProfileType
<1>5. \A i \in DOMAIN Regions(tk) : Bucket(q, tk, i) \in Seq(TicketId)
  BY <1>4, ProfileType DEF Bucket, QueueRecord
<1>6. QED
  BY <1>1, <1>3, <1>5 DEF Meets

\* findBestCandidate returns a candidate whenever there is one.
LEMMA BestCandidateFound ==
    ASSUME NEW q \in QueueRecord, NEW t \in TicketId, NEW at \in Nat,
           Candidates(q, t, at) # {}
    PROVE  BestCandidate(q, t, at) \in Candidates(q, t, at)
<1> DEFINE tk == q.tickets[t]
           S == Candidates(q, t, at)
           score == [c \in S |-> Score(tk, q.tickets[c])]
           waited == [c \in S |-> q.tickets[c].queuedAt]
           T == {c \in S : \A d \in S : \/ score[c] < score[d]
                                        \/ (score[c] = score[d] /\ waited[c] <= waited[d])}
           meeting == [c \in T |-> FirstMeeting(q, tk, c)]
           place == [c \in T |-> Index(Bucket(q, tk, FirstMeeting(q, tk, c)), c)]
<1>1. tk \in Ticket /\ \A c \in S : q.tickets[c] \in Ticket
  BY DEF QueueRecord, Candidates
<1>2. \A c \in S : Score(tk, q.tickets[c]) \in Nat
  BY <1>1, ScoreType DEF Candidates, Compatible
<1>3. score \in [S -> Nat] /\ waited \in [S -> Nat]
  BY <1>1, <1>2, ProfileType
<1>4. T # {}
  <2>1. \E c \in S : \A d \in S : \/ score[c] < score[d]
                                  \/ (score[c] = score[d] /\ waited[c] <= waited[d])
    <3> HIDE DEF S, score, waited
    <3>1. QED
      BY <1>3, LexMinimal DEF S
  <2>2. QED
    BY <2>1
<1>5. \A c \in S : /\ FirstMeeting(q, tk, c) \in Nat
                   /\ Bucket(q, tk, FirstMeeting(q, tk, c)) \in Seq(TicketId)
                   /\ c \in Elements(Bucket(q, tk, FirstMeeting(q, tk, c)))
  BY <1>1, FirstMeetingIs DEF Candidates
<1>6. \A c \in S : LET b == Bucket(q, tk, FirstMeeting(q, tk, c)) IN
                   Index(b, c) \in Nat /\ b[Index(b, c)] = c
  BY <1>5, IndexIs
<1>7. meeting \in [T -> Nat] /\ place \in [T -> Nat]
  BY <1>5, <1>6
<1>8. PICK c \in T : \A d \in T : \/ meeting[c] < meeting[d]
                                  \/ (meeting[c] = meeting[d] /\ place[c] <= place[d])
  <2> HIDE DEF T, meeting, place
  <2>1. QED
    BY <1>4, <1>7, LexMinimal
<1>9. ASSUME NEW d \in S \ {c} PROVE Better(q, t, c, d)
  <2>1. c \in S /\ \/ score[c] < score[d]
                   \/ (score[c] = score[d] /\ waited[c] <= waited[d])
    OBVIOUS
  <2>2. CASE score[c] < score[d] \/ (score[c] = score[d] /\ waited[c] < waited[d])
    BY <2>1, <2>2 DEF Better
  <2>3. CASE score[c] = score[d] /\ waited[c] = waited[d]
    <3>1. d \in T
      BY <2>3
    <3>2. \/ meeting[c] < meeting[d]
          \/ (meeting[c] = meeting[d] /\ place[c] <= place[d])
      BY <1>8, <3>1
    <3>3. meeting[c] = meeting[d] => place[c] # place[d]
      BY <1>6, <2>1, <3>1
    <3>4. place[c] \in Nat /\ place[d] \in Nat
      BY <1>7, <3>1
    <3>5. ScannedBefore(q, tk, c, d)
      <4>1. /\ meeting[c] = FirstMeeting(q, tk, c) /\ meeting[d] = FirstMeeting(q, tk, d)
            /\ place[c] = Index(Bucket(q, tk, FirstMeeting(q, tk, c)), c)
            /\ place[d] = Index(Bucket(q, tk, FirstMeeting(q, tk, d)), d)
        BY <3>1
      <4> HIDE DEF meeting, place
      <4>2. CASE meeting[c] < meeting[d]
        BY <4>1, <4>2 DEF ScannedBefore
      <4>3. CASE meeting[c] = meeting[d] /\ place[c] < place[d]
        BY <4>1, <4>3 DEF ScannedBefore
      <4>4. QED
        BY <3>2, <3>3, <3>4, <4>2, <4>3
    <3>6. QED
      BY <2>1, <2>3, <3>5 DEF Better
  <2>4. waited[c] \in Nat /\ waited[d] \in Nat
    BY <1>3, <2>1
  <2>5. QED
    BY <2>1, <2>2, <2>3, <2>4
<1>10. \E x \in S : \A d \in S \ {x} : Better(q, t, x, d)
  BY <1>9
<1>11. QED
  BY <1>10 DEF BestCandidate

-----------------------------------------------------------------------------
(* createMatch and tryMatchFromTicket.                                     *)

\* The next id is the least one left.
LEMMA NextIdIs ==
    ASSUME NEW ids \in SUBSET Nat, ids # {}
    PROVE  NextId(ids) \in ids /\ \A j \in ids : NextId(ids) <= j
<1>1. \E i \in ids : \A j \in ids : i <= j
  BY LeastNumber
<1>2. QED
  BY <1>1 DEF NextId

\* createMatch makes a session record.
LEMMA NewSessionType == ASSUME NEW at \in Nat PROVE NewSession(at) \in Session
<1>1. at + SessionTtl \in Nat /\ at + TokenTtl \in Nat
  BY TimingAssumption
<1>2. NewParticipant(at) \in Participant
  BY DEF NewParticipant, Participant
<1>3. [p \in Side |-> NewParticipant(at)] \in [Side -> Participant]
  BY <1>2
<1>4. QED
  BY <1>1, <1>3 DEF NewSession, Session

\* PairsHold, for one ticket and for one session of any queue record.
TicketPaired(q, t) ==
    q.tickets[t].status = "matched" =>
        LET s == q.tickets[t].session IN
        /\ s \in Here(q)
        /\ q.sessions[s].record.status = "active"
        /\ t \in TicketsOf(q, s)

SessionPaired(q, s) ==
    q.sessions[s].record.status = "active" =>
        LET one == q.sessions[s].ticket["P1"]
            two == q.sessions[s].ticket["P2"]
        IN  /\ one \in TicketId /\ two \in TicketId
            /\ q.tickets[one].status = "matched"
            /\ q.tickets[two].status = "matched"
            /\ q.tickets[one].session = s /\ q.tickets[two].session = s
            /\ q.tickets[one].account # q.tickets[two].account
            /\ q.tickets[one].queueType = q.tickets[two].queueType
            /\ q.sessions[s].region
                 \in SharedRegions(q.tickets[one], q.tickets[two])

Pairs(q) ==
    /\ \A t \in TicketId : TicketPaired(q, t)
    /\ \A s \in Here(q) : SessionPaired(q, s)

\* What createMatch makes of the pair and their session, what it leaves
\* alone, and that it did so for some session id.
MadeMatch(q, n, t, c, s, one, two) ==
    /\ one \in {t, c} /\ two \in {t, c} /\ one # two
    /\ \A x \in {t, c} :
         /\ n.tickets[x] \in Ticket
         /\ n.tickets[x].status = "matched" /\ n.tickets[x].session = s
         /\ n.tickets[x].account = q.tickets[x].account
         /\ n.tickets[x].queueType = q.tickets[x].queueType
         /\ n.tickets[x].profile = q.tickets[x].profile
    /\ \A z \in SessionId \ {s} : n.sessions[z] = q.sessions[z]
    /\ n.sessions[s].status = "here"
    /\ n.sessions[s].record.status = "active"
    /\ n.sessions[s].region = ResolveSharedRegion(q.tickets[t], q.tickets[c])
    /\ n.sessions[s].ticket["P1"] = one
    /\ n.sessions[s].ticket["P2"] = two
    /\ n.sessions \in [SessionId -> Match]

MadeRest(q, n, t, c) ==
    /\ n.active = q.active /\ n.draining = q.draining
    /\ \A x \in TicketId \ {t, c} : n.tickets[x] = q.tickets[x]
    /\ n.tickets \in [TicketId -> Ticket]
    /\ \A qt \in QueueType, r \in Region :
         n.buckets[qt][r] =
           Keep(q.buckets[qt][r], TicketId \ ({t, c} \cap Asking(q, qt, r)))

Made(q, n, t, c) ==
    \E s \in FreshSession(q), one \in TicketId, two \in TicketId :
        MadeMatch(q, n, t, c, s, one, two)

\* What createMatch leaves of the tickets and their places.
LEMMA CreateFields ==
    ASSUME NEW q \in QueueRecord, NEW t \in TicketId, NEW at \in Nat,
           NEW c \in TicketId \ {t}, NEW first \in {t, c},
           SharedRegions(q.tickets[t], q.tickets[c]) # {},
           FreshSession(q) # {},
           NEW n, n = CreateMatch(q, t, c, first, at)
    PROVE  MadeRest(q, n, t, c) /\ Made(q, n, t, c)
<1> DEFINE s == NextId(FreshSession(q))
           one == SideOne(q, t, c, first)
           two == CHOOSE x \in {t, c} : x # one
           region == ResolveSharedRegion(q.tickets[t], q.tickets[c])
           match == [ status |-> "here", record |-> NewSession(at),
              queueType |-> q.tickets[t].queueType, region |-> region,
              ticket |-> [p \in Side |-> IF p = "P1" THEN one ELSE two] ]
<1>1. s \in FreshSession(q) /\ s \in SessionId
  <2>1. FreshSession(q) \subseteq SessionId /\ SessionId \subseteq Nat
    BY DEF FreshSession, SessionId
  <2>2. QED
    BY <2>1, NextIdIs
<1>2. one \in {t, c}
  BY DEF SideOne
<1>3. two \in {t, c} /\ two # one
  <2>1. \E x \in {t, c} : x # one
    BY <1>2
  <2> HIDE DEF one
  <2>2. QED
    BY <2>1
<1>4. \A x \in TicketId : q.tickets[x] \in Ticket
  BY DEF QueueRecord
<1>5. region \in Region
  BY <1>4, SharedRegionFound
<1>6. match \in Match
  <2>1. q.tickets[t].queueType \in QueueType
    BY <1>4, ProfileType
  <2>2. [p \in Side |-> IF p = "P1" THEN one ELSE two]
          \in [Side -> TicketId \cup {None}]
    BY <1>2, <1>3
  <2> HIDE DEF one, two, region
  <2>3. QED
    BY <1>5, <2>1, <2>2, NewSessionType DEF Match
<1>7. match.status = "here" /\ match.record.status = "active" /\ match.region = region
      /\ match.ticket["P1"] = one /\ match.ticket["P2"] = two
  BY DEF NewSession, Side
<1>8. /\ n.active = q.active /\ n.draining = q.draining
      /\ n.sessions = [q.sessions EXCEPT ![s] = match]
      /\ n.tickets = [x \in TicketId |->
              IF x \in {t, c}
              THEN [q.tickets[x] EXCEPT !.status = "matched", !.session = s]
              ELSE q.tickets[x]]
      /\ n.buckets = [qt \in QueueType |-> [r \in Region |->
              Keep(q.buckets[qt][r], TicketId \ ({t, c} \cap Asking(q, qt, r)))]]
  BY DEF CreateMatch, QueueRecord
<1> HIDE DEF s, one, two, region, match
<1>9. ASSUME NEW x \in {t, c}
      PROVE  /\ n.tickets[x] \in Ticket
             /\ n.tickets[x].status = "matched" /\ n.tickets[x].session = s
             /\ n.tickets[x].account = q.tickets[x].account
             /\ n.tickets[x].queueType = q.tickets[x].queueType
             /\ n.tickets[x].profile = q.tickets[x].profile
  <2> DEFINE tk == q.tickets[x]
  <2>1. tk \in Ticket /\ n.tickets[x] = [tk EXCEPT !.status = "matched", !.session = s]
    BY <1>4, <1>8
  <2> HIDE DEF tk
  <2>2. /\ n.tickets[x] \in Ticket
        /\ n.tickets[x].status = "matched" /\ n.tickets[x].session = s
        /\ n.tickets[x].account = tk.account /\ n.tickets[x].queueType = tk.queueType
        /\ n.tickets[x].profile = tk.profile
    BY <1>1, <2>1 DEF Ticket
  <2>3. QED
    BY <2>2 DEF tk
<1>10. \A x \in TicketId \ {t, c} : n.tickets[x] = q.tickets[x]
  BY <1>8
<1>11. n.tickets \in [TicketId -> Ticket]
  <2>1. \A x \in TicketId : n.tickets[x] \in Ticket
    BY <1>4, <1>9, <1>10
  <2>2. DOMAIN n.tickets = TicketId /\ n.tickets = [x \in TicketId |-> n.tickets[x]]
    BY <1>8
  <2>3. QED
    BY <2>1, <2>2
<1>12. /\ n.sessions \in [SessionId -> Match] /\ n.sessions[s] = match
       /\ \A z \in SessionId \ {s} : n.sessions[z] = q.sessions[z]
  <2>1. q.sessions \in [SessionId -> Match]
    BY DEF QueueRecord
  <2>2. s \in SessionId /\ n.sessions = [q.sessions EXCEPT ![s] = match]
    BY <1>1, <1>8
  <2>3. QED
    BY ONLY <1>6, <2>1, <2>2
<1>13. \A qt \in QueueType, r \in Region :
                n.buckets[qt][r] =
                  Keep(q.buckets[qt][r], TicketId \ ({t, c} \cap Asking(q, qt, r)))
  BY DEF CreateMatch, QueueRecord
<1>14. MadeMatch(q, n, t, c, s, one, two)
  BY <1>1, <1>2, <1>3, <1>7, <1>9, <1>12 DEF region, MadeMatch
<1>15. Made(q, n, t, c)
  BY <1>1, <1>2, <1>3, <1>14 DEF Made
<1>16. MadeRest(q, n, t, c)
  BY <1>8, <1>10, <1>11, <1>13 DEF MadeRest
<1>17. QED
  BY <1>15, <1>16

\* Compatible tickets share the region they would meet in.
LEMMA CandidateIs ==
    ASSUME NEW q \in QueueRecord, NEW t \in TicketId, NEW at \in Nat,
           NEW c \in Candidates(q, t, at)
    PROVE  /\ c \in TicketId \ {t} /\ q.tickets[c].status = "queued"
           /\ q.tickets[t].queueType = q.tickets[c].queueType
           /\ SharedRegions(q.tickets[t], q.tickets[c]) # {}
BY DEF Candidates, Compatible

\* What stays the same about a ticket that is matched.
LEMMA CreateBase ==
    ASSUME NEW q, Base(q), NEW t \in TicketId, NEW at \in Nat,
           q.tickets[t].status = "queued",
           NEW c \in Candidates(q, t, at), NEW first \in {t, c},
           FreshSession(q) # {},
           NEW n, n = CreateMatch(q, t, c, first, at)
    PROVE  Base(n)
<1>0. /\ q \in QueueRecord /\ InOrder(q) /\ Indexed(q) /\ Bucketed(q)
      /\ c \in TicketId \ {t} /\ q.tickets[c].status = "queued"
      /\ SharedRegions(q.tickets[t], q.tickets[c]) # {}
  BY CandidateIs DEF Base
<1>1a. MadeRest(q, n, t, c)
  BY <1>0, CreateFields
<1>1. /\ n.active = q.active /\ n.draining = q.draining
      /\ \A x \in TicketId \ {t, c} : n.tickets[x] = q.tickets[x]
      /\ n.tickets \in [TicketId -> Ticket]
  BY <1>1a DEF MadeRest
<1>1b. \A qt \in QueueType, r \in Region :
                n.buckets[qt][r] =
                  Keep(q.buckets[qt][r], TicketId \ ({t, c} \cap Asking(q, qt, r)))
  BY <1>1a DEF MadeRest
<1>2. PICK s \in FreshSession(q), one \in TicketId, two \in TicketId :
                MadeMatch(q, n, t, c, s, one, two)
  <2>1. Made(q, n, t, c)
    BY <1>0, CreateFields
  <2>2. QED
    BY <2>1 DEF Made
<1>2b. /\ \A x \in {t, c} :
             /\ n.tickets[x].status = "matched" /\ n.tickets[x].session = s
             /\ n.tickets[x].account = q.tickets[x].account
             /\ n.tickets[x].queueType = q.tickets[x].queueType
             /\ n.tickets[x].profile = q.tickets[x].profile
       /\ n.sessions \in [SessionId -> Match]
  BY <1>2 DEF MadeMatch
<1>3. \A x \in TicketId : /\ n.tickets[x].account = q.tickets[x].account
                          /\ n.tickets[x].queueType = q.tickets[x].queueType
                          /\ n.tickets[x].profile = q.tickets[x].profile
  BY <1>1, <1>2b
<1>4. /\ \A x \in {t, c} : q.tickets[x].status = "queued" /\ n.tickets[x].status = "matched"
      /\ \A x \in TicketId \ {t, c} : n.tickets[x].status = q.tickets[x].status
  BY <1>0, <1>1, <1>2b
<1>5. \A qt \in QueueType, r \in Region :
        /\ q.buckets[qt][r] \in Seq(TicketId) /\ Ascending(q.buckets[qt][r])
        /\ Elements(q.buckets[qt][r]) = Waiting(q, qt, r)
  BY <1>0 DEF QueueRecord, Bucketed
<1>6. \A qt \in QueueType, r \in Region :
        /\ n.buckets[qt][r] \in Seq(TicketId)
        /\ Ascending(n.buckets[qt][r])
        /\ Elements(n.buckets[qt][r]) =
             Waiting(q, qt, r) \cap (TicketId \ ({t, c} \cap Asking(q, qt, r)))
  <2> SUFFICES ASSUME NEW qt \in QueueType, NEW r \in Region
               PROVE  /\ n.buckets[qt][r] \in Seq(TicketId)
                      /\ Ascending(n.buckets[qt][r])
                      /\ Elements(n.buckets[qt][r]) =
                           Waiting(q, qt, r) \cap (TicketId \ ({t, c} \cap Asking(q, qt, r)))
    OBVIOUS
  <2> DEFINE b == q.buckets[qt][r]  S == TicketId \ ({t, c} \cap Asking(q, qt, r))
  <2>1. b \in Seq(TicketId) /\ Ascending(b) /\ Elements(b) = Waiting(q, qt, r)
    BY <1>5
  <2>2. n.buckets[qt][r] = Keep(b, S)
    BY <1>1b
  <2> HIDE DEF b, S
  <2>3. /\ n.buckets[qt][r] \in Seq(TicketId) /\ Ascending(n.buckets[qt][r])
        /\ Elements(n.buckets[qt][r]) = Waiting(q, qt, r) \cap S
    BY <2>1, <2>2, KeepIn
  <2>4. QED
    BY <2>3 DEF S
<1>7. n \in QueueRecord
  <2>1. DOMAIN n = DOMAIN q /\ n = [q EXCEPT !.sessions = n.sessions, !.tickets = n.tickets,
                              !.buckets = n.buckets]
    BY <1>0 DEF CreateMatch, QueueRecord
  <2>2. n.buckets \in [QueueType -> [Region -> Seq(TicketId)]]
    <3>1. /\ DOMAIN n.buckets = QueueType /\ n.buckets = [qt \in QueueType |-> n.buckets[qt]]
          /\ \A qt \in QueueType : /\ DOMAIN n.buckets[qt] = Region
                                   /\ n.buckets[qt] = [r \in Region |-> n.buckets[qt][r]]
      BY <1>0 DEF CreateMatch, QueueRecord
    <3>2. \A qt \in QueueType : n.buckets[qt] \in [Region -> Seq(TicketId)]
      BY <1>6, <3>1
    <3>3. QED
      BY <3>1, <3>2
  <2>3. QED
    BY <1>0, <1>1, <1>2b, <2>1, <2>2 DEF QueueRecord
<1>8. InOrder(n)
  BY <1>0, <1>4 DEF InOrder
<1>9. Indexed(n)
  <2>1. \A x \in TicketId : Live(n, x) <=> Live(q, x)
    BY <1>4 DEF Live
  <2>2. \A a \in Account, qt \in QueueType : q.active[a][qt] # None => q.active[a][qt] \in TicketId
    BY <1>0 DEF QueueRecord
  <2>3. QED
    BY <1>0, <1>1, <1>3, <2>1, <2>2 DEF Indexed
<1>10. Bucketed(n)
  <2> SUFFICES ASSUME NEW qt \in QueueType, NEW r \in Region
               PROVE  Elements(n.buckets[qt][r]) = Waiting(n, qt, r)
    BY <1>6 DEF Bucketed
  <2>1. Asking(n, qt, r) = Asking(q, qt, r)
    BY <1>3 DEF Asking
  <2>2. Asking(q, qt, r) \subseteq TicketId
    BY DEF Asking
  <2>3. Waiting(n, qt, r) = Waiting(q, qt, r) \cap (TicketId \ ({t, c} \cap Asking(q, qt, r)))
    BY <1>4, <2>1, <2>2 DEF Waiting
  <2>4. QED
    BY <1>6, <2>3
<1>11. QED
  BY <1>7, <1>8, <1>9, <1>10 DEF Base

\* What two tickets share depends on their requests alone.
LEMMA SharedAlike ==
    ASSUME NEW x, NEW y, NEW u, NEW v, x.profile = u.profile, y.profile = v.profile
    PROVE  /\ SharedRegions(x, y) = SharedRegions(u, v)
           /\ SharedRegions(x, y) = SharedRegions(y, x)
BY DEF SharedRegions, Regions

\* createMatch adds one pair and leaves every other.
LEMMA CreatePairs ==
    ASSUME NEW q, Base(q), Pairs(q), NEW t \in TicketId, NEW at \in Nat,
           q.tickets[t].status = "queued",
           NEW c \in Candidates(q, t, at), NEW first \in {t, c},
           FreshSession(q) # {},
           NEW n, n = CreateMatch(q, t, c, first, at)
    PROVE  Pairs(n)
<1>0. /\ q \in QueueRecord /\ Indexed(q)
      /\ c \in TicketId \ {t} /\ q.tickets[c].status = "queued"
      /\ q.tickets[t].queueType = q.tickets[c].queueType
      /\ SharedRegions(q.tickets[t], q.tickets[c]) # {}
  BY CandidateIs DEF Base
<1>1. \A x \in TicketId \ {t, c} : n.tickets[x] = q.tickets[x]
  <2>1. MadeRest(q, n, t, c)
    BY <1>0, CreateFields
  <2>2. QED
    BY <2>1 DEF MadeRest
<1>2a. PICK s \in FreshSession(q), one \in TicketId, two \in TicketId :
                MadeMatch(q, n, t, c, s, one, two)
  <2>1. Made(q, n, t, c)
    BY <1>0, CreateFields
  <2>2. QED
    BY <2>1 DEF Made
<1>2. /\ one \in {t, c} /\ two \in {t, c}
      /\ one # two
      /\ \A x \in {t, c} :
           /\ n.tickets[x] \in Ticket
           /\ n.tickets[x].status = "matched" /\ n.tickets[x].session = s
           /\ n.tickets[x].account = q.tickets[x].account
           /\ n.tickets[x].queueType = q.tickets[x].queueType
           /\ n.tickets[x].profile = q.tickets[x].profile
      /\ \A z \in SessionId \ {s} : n.sessions[z] = q.sessions[z]
      /\ n.sessions[s].status = "here"
      /\ n.sessions[s].record.status = "active"
      /\ n.sessions[s].region = ResolveSharedRegion(q.tickets[t], q.tickets[c])
      /\ n.sessions[s].ticket["P1"] = one
      /\ n.sessions[s].ticket["P2"] = two
      /\ n.sessions \in [SessionId -> Match]
  BY <1>2a DEF MadeMatch
<1>3. s \in SessionId /\ s \notin Here(q)
  BY DEF FreshSession, Here
<1>4. Here(n) = Here(q) \cup {s}
  BY <1>2, <1>3 DEF Here
<1>5. TicketsOf(n, s) = {t, c}
  <2>1. TicketsOf(n, s) = {n.sessions[s].ticket["P1"], n.sessions[s].ticket["P2"]}
    BY DEF TicketsOf, Side
  <2>2. QED
    BY <1>2, <2>1
<1>6. ASSUME NEW x \in TicketId PROVE TicketPaired(n, x)
  <2>1. CASE x \in {t, c}
    BY <1>2, <1>4, <1>5, <2>1 DEF TicketPaired
  <2>2. CASE x \notin {t, c} /\ n.tickets[x].status = "matched"
    <3>1. n.tickets[x] = q.tickets[x] /\ TicketPaired(q, x)
      BY <1>1, <2>2 DEF Pairs
    <3> DEFINE z == q.tickets[x].session
    <3>2. z \in Here(q) /\ q.sessions[z].record.status = "active" /\ x \in TicketsOf(q, z)
      BY <2>2, <3>1 DEF TicketPaired
    <3>3. z \in SessionId \ {s}
      BY <1>3, <3>2 DEF Here
    <3>4. n.sessions[z] = q.sessions[z]
      BY <1>2, <3>3
    <3>5. TicketsOf(n, z) = TicketsOf(q, z)
      BY <3>4 DEF TicketsOf
    <3>6. QED
      BY <1>4, <3>1, <3>2, <3>4, <3>5 DEF TicketPaired
  <2>3. QED
    BY <2>1, <2>2 DEF TicketPaired
<1>7. SessionPaired(n, s)
  <2>1. q.tickets[one].account # q.tickets[two].account
    <3>1. Live(q, one) /\ Live(q, two) /\ q.tickets[one].queueType = q.tickets[two].queueType
      BY <1>0, <1>2 DEF Live
    <3>2. QED
      BY <1>0, <1>2, <3>1 DEF Indexed
  <2>2. n.sessions[s].region \in SharedRegions(q.tickets[t], q.tickets[c])
    <3>1. q.tickets[t] \in Ticket /\ q.tickets[c] \in Ticket
      BY <1>0 DEF QueueRecord
    <3>2. QED
      BY <1>0, <1>2, <3>1, SharedRegionFound
  <2>3. SharedRegions(n.tickets[one], n.tickets[two]) = SharedRegions(q.tickets[t], q.tickets[c])
    <3>1. CASE one = t /\ two = c
      BY <1>2, <3>1, SharedAlike
    <3>2. CASE one = c /\ two = t
      <4>1. SharedRegions(n.tickets[one], n.tickets[two]) = SharedRegions(q.tickets[c], q.tickets[t])
        BY <1>2, <3>2, SharedAlike
      <4>2. QED
        BY <4>1, SharedAlike
    <3>3. QED
      BY <1>2, <3>1, <3>2
  <2>4. one \in TicketId /\ two \in TicketId
    BY <1>0
  <2>5. q.tickets[one].queueType = q.tickets[two].queueType
    BY <1>0, <1>2
  <2>6. QED
    BY <1>2, <2>1, <2>2, <2>3, <2>4, <2>5 DEF SessionPaired
<1>8. ASSUME NEW z \in Here(q) PROVE SessionPaired(n, z)
  <2>1. n.sessions[z] = q.sessions[z]
    BY <1>2, <1>3 DEF Here
  <2>2. CASE q.sessions[z].record.status = "active"
    <3> DEFINE a == q.sessions[z].ticket["P1"]  b == q.sessions[z].ticket["P2"]
    <3>1. /\ a \in TicketId /\ b \in TicketId
          /\ q.tickets[a].status = "matched" /\ q.tickets[b].status = "matched"
          /\ q.tickets[a].session = z /\ q.tickets[b].session = z
          /\ q.tickets[a].account # q.tickets[b].account
          /\ q.tickets[a].queueType = q.tickets[b].queueType
          /\ q.sessions[z].region \in SharedRegions(q.tickets[a], q.tickets[b])
      BY <2>2 DEF Pairs, SessionPaired
    <3>2. n.tickets[a] = q.tickets[a] /\ n.tickets[b] = q.tickets[b]
      BY <1>0, <1>1, <3>1
    <3>3. QED
      BY <2>1, <3>1, <3>2 DEF SessionPaired
  <2>3. QED
    BY <2>1, <2>2 DEF SessionPaired
<1>9. QED
  BY <1>4, <1>6, <1>7, <1>8 DEF Pairs

\* All that holds of the queue between two calls.
Whole(q) == Base(q) /\ Pairs(q)

\* What tryMatchFromTicket may lead to: nothing new, or a match of the
\* ticket with the candidate the scan prefers.
LEMMA TryMatchIs ==
    ASSUME NEW q \in QueueRecord, NEW t \in TicketId, NEW at \in Nat,
           NEW n \in TryMatch(q, t, at)
    PROVE  \/ n = q
           \/ /\ q.tickets[t].status = "queued" /\ FreshSession(q) # {}
              /\ \E c \in Candidates(q, t, at), first \in TicketId :
                    first \in {t, c} /\ n = CreateMatch(q, t, c, first, at)
<1>1. CASE q.tickets[t].status # "queued" \/ Candidates(q, t, at) = {}
  BY <1>1 DEF TryMatch
<1>2. CASE /\ q.tickets[t].status = "queued" /\ Candidates(q, t, at) # {}
           /\ FreshSession(q) # {}
  <2> DEFINE c == BestCandidate(q, t, at)
  <2>1. c \in Candidates(q, t, at)
    BY <1>2, BestCandidateFound
  <2>2. c \in TicketId
    BY <2>1 DEF Candidates
  <2>3. PICK first \in {t, c} : n = CreateMatch(q, t, c, first, at)
    BY <1>2 DEF TryMatch
  <2>4. QED
    BY <1>2, <2>1, <2>2, <2>3
<1>3. QED
  BY <1>1, <1>2 DEF TryMatch

\* tryMatchFromTicket leaves the queue whole.
LEMMA TryMatchWhole ==
    ASSUME NEW q, Whole(q), NEW t \in TicketId, NEW at \in Nat,
           NEW n \in TryMatch(q, t, at)
    PROVE  Whole(n)
<1>1. Base(q) /\ Pairs(q) /\ q \in QueueRecord
  BY DEF Whole, Base
<1>2. CASE n = q
  BY <1>2
<1>3. ASSUME q.tickets[t].status = "queued", FreshSession(q) # {},
             NEW c \in Candidates(q, t, at), NEW first \in {t, c},
             n = CreateMatch(q, t, c, first, at)
      PROVE  Whole(n)
  BY <1>1, <1>3, CreateBase, CreatePairs DEF Whole
<1>4. QED
  BY <1>1, <1>2, <1>3, TryMatchIs

-----------------------------------------------------------------------------
\* A step that ends some sessions with both their tickets, and touches no
\* other, keeps the rest in pairs.
LEMMA StepPairs ==
    ASSUME NEW q, Pairs(q), NEW n, NEW C \in SUBSET TicketId,
           \A t \in TicketId : n.tickets[t].status = "matched"
               => t \notin C /\ n.tickets[t] = q.tickets[t],
           \A t \in TicketId \ C : q.tickets[t].status = "matched"
               => n.tickets[t] = q.tickets[t],
           \A s \in Here(q) : q.sessions[s].record.status = "active" =>
               \/ TicketsOf(q, s) \subseteq C
               \/ s \in Here(n) /\ n.sessions[s].record.status = "active",
           \A s \in Here(n) : n.sessions[s].record.status = "active" =>
               /\ s \in Here(q) /\ q.sessions[s].record.status = "active"
               /\ TicketsOf(q, s) \cap C = {}
               /\ n.sessions[s].ticket = q.sessions[s].ticket
               /\ n.sessions[s].region = q.sessions[s].region
    PROVE  Pairs(n)
<1>1. ASSUME NEW t \in TicketId, n.tickets[t].status = "matched" PROVE TicketPaired(n, t)
  <2>1. t \notin C /\ n.tickets[t] = q.tickets[t] /\ TicketPaired(q, t)
    BY <1>1 DEF Pairs
  <2> DEFINE s == q.tickets[t].session
  <2>2. s \in Here(q) /\ q.sessions[s].record.status = "active" /\ t \in TicketsOf(q, s)
    BY <1>1, <2>1 DEF TicketPaired
  <2>3. s \in Here(n) /\ n.sessions[s].record.status = "active"
    BY <2>1, <2>2
  <2>4. TicketsOf(n, s) = TicketsOf(q, s)
    BY <2>3 DEF TicketsOf
  <2>5. QED
    BY <2>1, <2>2, <2>3, <2>4 DEF TicketPaired
<1>2. ASSUME NEW s \in Here(n), n.sessions[s].record.status = "active"
      PROVE  SessionPaired(n, s)
  <2>1. /\ s \in Here(q) /\ q.sessions[s].record.status = "active"
        /\ TicketsOf(q, s) \cap C = {}
        /\ n.sessions[s].ticket = q.sessions[s].ticket
        /\ n.sessions[s].region = q.sessions[s].region
    BY <1>2
  <2> DEFINE one == q.sessions[s].ticket["P1"]  two == q.sessions[s].ticket["P2"]
  <2>2. /\ one \in TicketId /\ two \in TicketId
        /\ q.tickets[one].status = "matched" /\ q.tickets[two].status = "matched"
        /\ q.tickets[one].session = s /\ q.tickets[two].session = s
        /\ q.tickets[one].account # q.tickets[two].account
        /\ q.tickets[one].queueType = q.tickets[two].queueType
        /\ q.sessions[s].region \in SharedRegions(q.tickets[one], q.tickets[two])
    BY <2>1 DEF Pairs, SessionPaired
  <2>3. one \in TicketsOf(q, s) /\ two \in TicketsOf(q, s)
    BY DEF TicketsOf, Side
  <2>4. n.tickets[one] = q.tickets[one] /\ n.tickets[two] = q.tickets[two]
    BY <2>1, <2>2, <2>3
  <2>5. QED
    BY <2>1, <2>2, <2>4 DEF SessionPaired
<1>3. \A t \in TicketId : TicketPaired(n, t)
  BY <1>1 DEF TicketPaired
<1>4. \A s \in Here(n) : SessionPaired(n, s)
  BY <1>2 DEF SessionPaired
<1>5. QED
  BY <1>3, <1>4 DEF Pairs

\* Closing tickets that are in no pair leaves every pair alone.
LEMMA CloseWhole ==
    ASSUME NEW q, Whole(q), NEW why, Closable(q, why),
           \A t \in DOMAIN why : q.tickets[t].status # "matched",
           NEW n, n = CloseTickets(q, why)
    PROVE  Whole(n)
<1>0. Base(q) /\ Pairs(q) /\ q \in QueueRecord /\ DOMAIN why \in SUBSET TicketId
  BY DEF Whole, Base, Closable
<1>1. Base(n)
  BY <1>0, CloseBase
<1>2. /\ n.sessions = q.sessions
      /\ \A t \in TicketId : t \notin DOMAIN why => n.tickets[t] = q.tickets[t]
      /\ \A t \in DOMAIN why : n.tickets[t].status = "closed"
  BY <1>0, CloseFields
<1>3. Here(n) = Here(q)
  BY <1>2 DEF Here
<1> DEFINE C == DOMAIN why
<1>4. \A s \in Here(q) : q.sessions[s].record.status = "active" => TicketsOf(q, s) \cap C = {}
  <2> SUFFICES ASSUME NEW s \in Here(q), q.sessions[s].record.status = "active", NEW p \in Side
               PROVE  q.sessions[s].ticket[p] \notin C
    BY DEF TicketsOf
  <2>1. SessionPaired(q, s)
    BY <1>0 DEF Pairs
  <2>2. q.tickets[q.sessions[s].ticket[p]].status = "matched"
    BY <2>1 DEF SessionPaired, Side
  <2>3. QED
    BY <2>2
<1>5. C \in SUBSET TicketId
  BY <1>0
<1>6. \A t \in TicketId : n.tickets[t].status = "matched" => t \notin C /\ n.tickets[t] = q.tickets[t]
  BY <1>2
<1>7. \A t \in TicketId \ C : n.tickets[t] = q.tickets[t]
  BY <1>2
<1> HIDE DEF C
<1>8. Pairs(n)
  BY <1>0, <1>2, <1>3, <1>4, <1>5, <1>6, <1>7, StepPairs
<1>9. QED
  BY <1>1, <1>8 DEF Whole

\* A ticket that leaves the queue, or all of them.
LEMMA QueuedClosable ==
    ASSUME NEW q, Whole(q), NEW why, DOMAIN why \subseteq TicketId,
           \A t \in DOMAIN why :
               /\ q.tickets[t].status = "queued"
               /\ why[t].reason \in ClosedReason /\ why[t].at \in Nat
    PROVE  Closable(q, why)
<1>1. Indexed(q)
  BY DEF Whole, Base
<1>2. \A t \in DOMAIN why :
        /\ q.tickets[t].account \in Account
        /\ q.active[q.tickets[t].account][q.tickets[t].queueType] = t
  BY <1>1 DEF Indexed, Live
<1>3. QED
  BY <1>2 DEF Closable

\* Draining closes the waiting tickets and no pair.
LEMMA DrainWhole ==
    ASSUME NEW q, Whole(q), NEW at \in Nat PROVE Whole(DrainQueued(q, at))
<1> DEFINE S == {x \in TicketId : q.tickets[x].status = "queued"}
           why == [t \in S |-> [reason |-> "service_draining", at |-> at]]
<1>1. /\ DOMAIN why = S /\ S \subseteq TicketId
      /\ \A t \in S : /\ q.tickets[t].status = "queued"
                      /\ why[t].reason = "service_draining" /\ why[t].at = at
  OBVIOUS
<1>2. DrainQueued(q, at) = CloseTickets(q, why)
  BY DEF DrainQueued
<1> HIDE DEF S, why
<1>3. Closable(q, why)
  BY <1>1, QueuedClosable DEF ClosedReason
<1>4. QED
  BY <1>1, <1>2, <1>3, CloseWhole

\* So does leaving while waiting.
LEMMA LeaveQueuedWhole ==
    ASSUME NEW q, Whole(q), NEW at \in Nat, NEW t \in TicketId,
           q.tickets[t].status = "queued",
           NEW n, n = CloseTickets(q, [x \in {t} |-> [reason |-> "left_queue", at |-> at]])
    PROVE  Whole(n)
<1> DEFINE why == [x \in {t} |-> [reason |-> "left_queue", at |-> at]]
<1>1. /\ DOMAIN why = {t}
      /\ why[t].reason = "left_queue" /\ why[t].at = at
  OBVIOUS
<1>2. n = CloseTickets(q, why)
  OBVIOUS
<1> HIDE DEF why
<1>3. Closable(q, why)
  BY <1>1, QueuedClosable DEF ClosedReason
<1>4. QED
  BY <1>1, <1>2, <1>3, CloseWhole

-----------------------------------------------------------------------------
(* join.                                                                   *)

\* A number larger than all keeps a sequence ascending.
LEMMA AppendKeeps ==
    ASSUME NEW b \in Seq(TicketId), Ascending(b), NEW t \in TicketId,
           \A j \in DOMAIN b : b[j] < t
    PROVE  /\ Append(b, t) \in Seq(TicketId) /\ Ascending(Append(b, t))
           /\ Elements(Append(b, t)) = Elements(b) \cup {t}
<1> DEFINE c == Append(b, t)
<1>1. /\ c \in Seq(TicketId) /\ DOMAIN c = 1..(Len(b) + 1)
      /\ c[Len(b) + 1] = t
      /\ \A j \in DOMAIN b : j \in DOMAIN c /\ c[j] = b[j]
      /\ DOMAIN b = 1..Len(b) /\ Len(b) \in Nat
  OBVIOUS
<1> HIDE DEF c
<1>2. Ascending(c)
  <2> SUFFICES ASSUME NEW i \in DOMAIN c, NEW j \in DOMAIN c, i < j
               PROVE  c[i] < c[j]
    BY DEF Ascending
  <2>1. i \in DOMAIN b /\ (j \in DOMAIN b \/ j = Len(b) + 1)
    BY <1>1
  <2>2. CASE j \in DOMAIN b
    BY <1>1, <2>1, <2>2 DEF Ascending
  <2>3. CASE j = Len(b) + 1
    BY <1>1, <2>1, <2>3
  <2>4. QED
    BY <2>1, <2>2, <2>3
<1>3. DOMAIN c = DOMAIN b \cup {Len(b) + 1}
  BY <1>1
<1>4. \A j \in DOMAIN c : c[j] \in Elements(b) \cup {t}
  BY <1>1, <1>3 DEF Elements
<1>5. Elements(b) \subseteq Elements(c) /\ t \in Elements(c)
  BY <1>1, <1>3 DEF Elements
<1>6. Elements(c) \subseteq Elements(b) \cup {t}
  BY <1>4 DEF Elements
<1>7. QED
  BY <1>1, <1>2, <1>5, <1>6 DEF c

\* Pairs depend on the sessions and the matched tickets alone.
LEMMA QuietPairs ==
    ASSUME NEW q, Pairs(q), NEW n, n.sessions = q.sessions,
           \A t \in TicketId :
               n.tickets[t].status = "matched" \/ q.tickets[t].status = "matched"
                 => n.tickets[t] = q.tickets[t]
    PROVE  Pairs(n)
<1>1. Here(n) = Here(q) /\ \A s : TicketsOf(n, s) = TicketsOf(q, s)
  BY DEF Here, TicketsOf
<1>2. ASSUME NEW t \in TicketId PROVE TicketPaired(n, t)
  BY <1>1 DEF TicketPaired, Pairs
<1>3. ASSUME NEW s \in Here(n) PROVE SessionPaired(n, s)
  <2>1. SessionPaired(q, s)
    BY <1>1 DEF Pairs
  <2>2. QED
    BY <2>1 DEF SessionPaired
<1>4. QED
  BY <1>2, <1>3 DEF Pairs

\* A request that joins the queue: its ticket has the next id.
LEMMA AddWhole ==
    ASSUME NEW q, Whole(q), NEW a \in Account, NEW qt \in QueueType,
           NEW prof \in Profile, NEW at \in Nat,
           ~HasLiveTicket(q, a, qt), FreshTicket(q) # {},
           NEW t, t = NextId(FreshTicket(q)),
           NEW n, n = AddTicket(q, t, a, qt, prof, at)
    PROVE  Whole(n) /\ t \in TicketId
<1>0. q \in QueueRecord /\ InOrder(q) /\ Indexed(q) /\ Bucketed(q) /\ Pairs(q)
  BY DEF Whole, Base
<1>1. /\ t \in TicketId /\ t \in Nat \ {0} /\ q.tickets[t].status = "unborn"
      /\ \A u \in TicketId : q.tickets[u].status = "unborn" => t <= u
  <2>1. FreshTicket(q) \subseteq TicketId /\ TicketId \subseteq Nat \ {0}
    BY DEF FreshTicket, TicketId
  <2>2. t \in FreshTicket(q) /\ \A j \in FreshTicket(q) : t <= j
    BY <2>1, NextIdIs
  <2>3. QED
    BY <2>1, <2>2 DEF FreshTicket
<1> DEFINE ticket == [ status |-> "queued", account |-> a, queueType |-> qt,
          profile |-> prof, queuedAt |-> at, closedAt |-> NoTime,
          reason |-> "none", session |-> None ]
<1>2. ticket \in Ticket /\ ticket.status = "queued" /\ ticket.account = a
      /\ ticket.queueType = qt /\ ticket.profile = prof
  BY DEF Ticket, NoTime, None
<1> HIDE DEF ticket
<1>3. n = [q EXCEPT !.tickets[t] = ticket, !.active[a][qt] = t,
      !.buckets = [x \in QueueType |-> [r \in Region |->
          IF x = qt /\ r \in Elements(prof.regions)
          THEN Append(q.buckets[x][r], t) ELSE q.buckets[x][r]]]]
  BY DEF AddTicket, ticket
<1>4. /\ n.sessions = q.sessions /\ n.draining = q.draining
      /\ n.tickets = [q.tickets EXCEPT ![t] = ticket]
      /\ n.active = [q.active EXCEPT ![a] = [q.active[a] EXCEPT ![qt] = t]]
  BY <1>0, <1>3 DEF QueueRecord
<1>5. \A x \in QueueType, r \in Region :
        n.buckets[x][r] = IF x = qt /\ r \in Elements(prof.regions)
                          THEN Append(q.buckets[x][r], t) ELSE q.buckets[x][r]
  BY <1>0, <1>3 DEF QueueRecord
<1>6. /\ n.tickets \in [TicketId -> Ticket] /\ n.tickets[t] = ticket
      /\ \A u \in TicketId \ {t} : n.tickets[u] = q.tickets[u]
  BY <1>0, <1>1, <1>2, <1>4 DEF QueueRecord
<1>7. /\ n.active \in [Account -> [QueueType -> TicketId \cup {None}]]
      /\ n.active[a][qt] = t
      /\ \A b \in Account, x \in QueueType : b # a \/ x # qt => n.active[b][x] = q.active[b][x]
  BY <1>0, <1>1, <1>4 DEF QueueRecord
<1>8. ASSUME NEW u \in TicketId, q.tickets[u].status # "unborn" PROVE u < t
  <2>1. u # t /\ u \in Nat
    BY <1>1, <1>8 DEF TicketId
  <2>2. ~(t < u)
    BY <1>0, <1>1, <1>8 DEF InOrder
  <2>3. QED
    BY <1>1, <2>1, <2>2
<1>9. InOrder(n)
  <2> SUFFICES ASSUME NEW v \in TicketId, NEW u \in TicketId, v < u,
                      n.tickets[u].status # "unborn"
               PROVE  n.tickets[v].status # "unborn"
    BY DEF InOrder
  <2>0. v \in Nat /\ u \in Nat
    BY DEF TicketId
  <2>1. CASE u = t
    <3>1. v # t /\ ~(t <= v)
      BY <1>1, <2>0, <2>1
    <3>2. QED
      BY <1>1, <1>6, <3>1
  <2>2. CASE u # t
    <3>1. q.tickets[u].status # "unborn" /\ q.tickets[v].status # "unborn"
      BY <1>0, <1>6, <2>2 DEF InOrder
    <3>2. QED
      BY <1>2, <1>6, <3>1
  <2>3. QED
    BY <2>1, <2>2
<1>10. Indexed(n)
  <2>1. q.active[a][qt] = None
    BY <1>0 DEF Indexed, HasLiveTicket
  <2>2. None \notin TicketId /\ ~Live(q, t)
    BY <1>1 DEF None, TicketId, Live
  <2>3. \A u \in TicketId \ {t} : Live(n, u) <=> Live(q, u)
    BY <1>6 DEF Live
  <2>4. Live(n, t)
    BY <1>2, <1>6 DEF Live
  <2>5. ASSUME NEW u \in TicketId, Live(n, u)
        PROVE  /\ n.tickets[u].account \in Account
               /\ n.active[n.tickets[u].account][n.tickets[u].queueType] = u
    <3>1. CASE u = t
      BY <1>2, <1>6, <1>7, <3>1
    <3>2. CASE u # t
      <4>1. /\ q.tickets[u].account \in Account /\ q.tickets[u].queueType \in QueueType
            /\ q.active[q.tickets[u].account][q.tickets[u].queueType] = u
        BY <1>0, <2>3, <2>5, <3>2, ProfileType DEF Indexed, QueueRecord
      <4>2. q.tickets[u].account # a \/ q.tickets[u].queueType # qt
        BY <2>1, <2>2, <4>1
      <4>3. QED
        BY <1>6, <1>7, <3>2, <4>1, <4>2
    <3>3. QED
      BY <3>1, <3>2
  <2>6. ASSUME NEW b \in Account, NEW x \in QueueType, n.active[b][x] # None
        PROVE  /\ Live(n, n.active[b][x])
               /\ n.tickets[n.active[b][x]].account = b
               /\ n.tickets[n.active[b][x]].queueType = x
    <3>1. CASE b = a /\ x = qt
      BY <1>2, <1>6, <1>7, <2>4, <3>1
    <3>2. CASE b # a \/ x # qt
      <4>1. n.active[b][x] = q.active[b][x] /\ q.active[b][x] \in TicketId
        BY <1>0, <1>7, <2>6, <3>2 DEF QueueRecord
      <4>2. /\ Live(q, q.active[b][x])
            /\ q.tickets[q.active[b][x]].account = b
            /\ q.tickets[q.active[b][x]].queueType = x
        BY <1>0, <2>6, <4>1 DEF Indexed
      <4>3. q.active[b][x] # t
        BY <2>2, <4>2
      <4>4. QED
        BY <1>6, <2>3, <4>1, <4>2, <4>3
    <3>3. QED
      BY <3>1, <3>2
  <2>7. QED
    BY <2>5, <2>6 DEF Indexed
<1>11. ASSUME NEW x \in QueueType, NEW r \in Region
       PROVE  /\ n.buckets[x][r] \in Seq(TicketId)
              /\ Ascending(n.buckets[x][r])
              /\ Elements(n.buckets[x][r]) = Waiting(n, x, r)
  <2> DEFINE b == q.buckets[x][r]
  <2>1. b \in Seq(TicketId) /\ Ascending(b) /\ Elements(b) = Waiting(q, x, r)
    BY <1>0 DEF QueueRecord, Bucketed
  <2>2. /\ \A u \in TicketId \ {t} : u \in Waiting(n, x, r) <=> u \in Waiting(q, x, r)
        /\ t \notin Waiting(q, x, r)
        /\ t \in Waiting(n, x, r) <=> x = qt /\ r \in Elements(prof.regions)
        /\ Waiting(n, x, r) \subseteq TicketId /\ Waiting(q, x, r) \subseteq TicketId
    BY <1>1, <1>2, <1>6 DEF Waiting, Asking
  <2>3. CASE ~(x = qt /\ r \in Elements(prof.regions))
    <3>1. n.buckets[x][r] = b
      BY <1>5, <2>3
    <3>2. Waiting(n, x, r) = Waiting(q, x, r)
      BY <2>2, <2>3
    <3>3. QED
      BY <2>1, <3>1, <3>2
  <2>4. CASE x = qt /\ r \in Elements(prof.regions)
    <3>1. n.buckets[x][r] = Append(b, t)
      BY <1>5, <2>4
    <3>2. Waiting(n, x, r) = Waiting(q, x, r) \cup {t}
      BY <2>2, <2>4
    <3>3. \A j \in DOMAIN b : b[j] < t
      <4>1. \A u \in Waiting(q, x, r) : u < t
        BY <1>8, <2>2 DEF Waiting
      <4>2. QED
        BY <2>1, <4>1 DEF Elements
    <3> HIDE DEF b
    <3>4. /\ Append(b, t) \in Seq(TicketId) /\ Ascending(Append(b, t))
          /\ Elements(Append(b, t)) = Elements(b) \cup {t}
      BY <1>1, <2>1, <3>3, AppendKeeps
    <3>5. QED
      BY <2>1, <3>1, <3>2, <3>4
  <2>5. QED
    BY <2>3, <2>4
<1>12. n \in QueueRecord
  <2>1. n.buckets \in [QueueType -> [Region -> Seq(TicketId)]]
    <3>1. /\ DOMAIN n.buckets = QueueType /\ n.buckets = [x \in QueueType |-> n.buckets[x]]
          /\ \A x \in QueueType : /\ DOMAIN n.buckets[x] = Region
                                  /\ n.buckets[x] = [r \in Region |-> n.buckets[x][r]]
      BY <1>0, <1>3 DEF QueueRecord
    <3>2. \A x \in QueueType : n.buckets[x] \in [Region -> Seq(TicketId)]
      BY <1>11, <3>1
    <3>3. QED
      BY <3>1, <3>2
  <2>2. n = [q EXCEPT !.tickets = n.tickets, !.active = n.active, !.buckets = n.buckets]
    BY <1>0, <1>3 DEF QueueRecord
  <2>3. QED
    BY <1>0, <1>6, <1>7, <2>1, <2>2 DEF QueueRecord
<1>13. Base(n)
  BY <1>9, <1>10, <1>11, <1>12 DEF Base, Bucketed
<1>14. Pairs(n)
  <2>1. \A u \in TicketId :
          n.tickets[u].status = "matched" \/ q.tickets[u].status = "matched"
            => n.tickets[u] = q.tickets[u]
    BY <1>1, <1>2, <1>6
  <2>2. Pairs(q)
    BY <1>0
  <2>3. n.sessions = q.sessions
    BY <1>4
  <2>4. QED
    BY ONLY <2>1, <2>2, <2>3, QuietPairs
<1>15. QED
  BY <1>1, <1>13, <1>14 DEF Whole

-----------------------------------------------------------------------------
(* resolveSession and cleanup.                                             *)

\* The sessions that end when the records become rec.
Resolving(q, rec) ==
    {s \in DOMAIN rec : /\ q.sessions[s].record.status = "active"
                        /\ rec[s].status = "resolved"}

\* The two tickets of an active session are matched, and to it.
LEMMA SidesMatched ==
    ASSUME NEW q, Pairs(q), NEW s \in Here(q), q.sessions[s].record.status = "active",
           NEW t \in TicketsOf(q, s)
    PROVE  t \in TicketId /\ q.tickets[t].status = "matched" /\ q.tickets[t].session = s
<1>1. SessionPaired(q, s)
  BY DEF Pairs
<1>2. t = q.sessions[s].ticket["P1"] \/ t = q.sessions[s].ticket["P2"]
  BY DEF TicketsOf, Side
<1>3. QED
  BY <1>1, <1>2 DEF SessionPaired

\* A live ticket is the one its account's key finds.
LEMMA LiveOwned ==
    ASSUME NEW q, Whole(q), NEW t \in TicketId, Live(q, t)
    PROVE  /\ q.tickets[t].account \in Account
           /\ q.active[q.tickets[t].account][q.tickets[t].queueType] = t
BY DEF Whole, Base, Indexed

\* Resolving sessions closes both tickets of each.
LEMMA ResolutionIs ==
    ASSUME NEW q, Whole(q), NEW S \in SUBSET Here(q), NEW rec \in [S -> Session],
           NEW why, why = ResolutionCloses(q, rec)
    PROVE  /\ \A s \in Resolving(q, rec) : TicketsOf(q, s) \subseteq DOMAIN why
           /\ \A t \in DOMAIN why :
                /\ t \in TicketId /\ q.tickets[t].status = "matched"
                /\ q.tickets[t].session \in Resolving(q, rec)
                /\ why[t].reason \in ClosedReason \cup {"none"}
                /\ why[t].at \in Nat \cup {NoTime}
<1> DEFINE R == Resolving(q, rec)
           sessionOf(t) == CHOOSE s \in R : t \in TicketsOf(q, s)
           T == {x \in UNION {TicketsOf(q, s) : s \in R} : Live(q, x)}
<1>0. Pairs(q)
  BY DEF Whole
<1>1. why = [t \in T |-> [reason |-> CloseReason(rec[sessionOf(t)].reason),
                          at     |-> rec[sessionOf(t)].resolvedAt]]
  BY DEF ResolutionCloses, Resolving
<1>2. \A s \in R : s \in S /\ s \in Here(q) /\ q.sessions[s].record.status = "active"
  BY DEF Resolving
<1>3. ASSUME NEW s \in R, NEW t \in TicketsOf(q, s)
      PROVE  t \in TicketId /\ q.tickets[t].status = "matched" /\ q.tickets[t].session = s
  BY <1>0, <1>2, SidesMatched
<1>4. \A s \in R : TicketsOf(q, s) \subseteq T
  BY <1>3 DEF Live
<1>5. ASSUME NEW t \in T
      PROVE  /\ t \in TicketId /\ q.tickets[t].status = "matched"
             /\ q.tickets[t].session \in R
             /\ sessionOf(t) \in R
  <2>1. PICK s \in R : t \in TicketsOf(q, s)
    OBVIOUS
  <2> HIDE DEF R, T
  <2>2. sessionOf(t) \in R
    BY <2>1
  <2>3. QED
    BY <1>3, <2>1, <2>2
<1>6. DOMAIN why = T
  BY <1>1
<1>7. ASSUME NEW t \in T
      PROVE  /\ why[t].reason \in ClosedReason \cup {"none"}
             /\ why[t].at \in Nat \cup {NoTime}
  <2> DEFINE r == rec[sessionOf(t)]
  <2>1. r \in Session
    BY <1>2, <1>5
  <2>2. why[t] = [reason |-> CloseReason(r.reason), at |-> r.resolvedAt]
    BY <1>1
  <2> HIDE DEF r
  <2>3. r.reason \in Reason \cup {"none"} /\ r.resolvedAt \in Nat \cup {NoTime}
    BY <2>1 DEF Session
  <2>4. CloseReason(r.reason) \in ClosedReason \cup {"none"}
    BY <2>3 DEF CloseReason, ClosedReason, Reason
  <2>5. QED
    BY <2>2, <2>3, <2>4
<1> HIDE DEF T, R, sessionOf
<1>8. QED
  BY <1>4, <1>5, <1>6, <1>7 DEF R

\* Sessions whose ends are resolved and dropped together with tickets.
LEMMA DropBase ==
    ASSUME NEW c, Base(c), NEW n, n \in QueueRecord,
           n.active = c.active, n.buckets = c.buckets,
           \A t \in TicketId : \/ n.tickets[t] = c.tickets[t]
                               \/ /\ c.tickets[t].status = "closed"
                                  /\ n.tickets[t].status = "removed"
    PROVE  Base(n)
<1>0. c \in QueueRecord /\ InOrder(c) /\ Indexed(c) /\ Bucketed(c)
  BY DEF Base
<1>1. InOrder(n)
  <2>1. \A t \in TicketId : n.tickets[t].status = "unborn" <=> c.tickets[t].status = "unborn"
    OBVIOUS
  <2>2. QED
    BY <1>0, <2>1 DEF InOrder
<1>2. Indexed(n)
  <2>1. \A t \in TicketId : /\ Live(n, t) => n.tickets[t] = c.tickets[t]
                            /\ Live(n, t) <=> Live(c, t)
    BY DEF Live
  <2>2. \A a \in Account, qt \in QueueType : c.active[a][qt] # None => c.active[a][qt] \in TicketId
    BY <1>0 DEF QueueRecord
  <2>3. QED
    BY <1>0, <2>1, <2>2 DEF Indexed
<1>3. \A qt \in QueueType, r \in Region : Waiting(n, qt, r) = Waiting(c, qt, r)
  BY DEF Waiting, Asking
<1>4. Bucketed(n)
  BY <1>0, <1>3 DEF Bucketed
<1>5. QED
  BY <1>1, <1>2, <1>4 DEF Base

\* cleanup's outcome of a record is a record; a resolved one stays.
LEMMA SweptRecord ==
    ASSUME NEW s \in Session, NEW at \in Nat
    PROVE  /\ CleanupSession(s, at) \in Session
           /\ s.status = "resolved" => CleanupSession(s, at) = s
           /\ s.status \in {"active", "resolved"}
BY CleanupType DEF CleanupSession, Session

\* What cleanup closes, and why.
LEMMA CleanupClosesIs ==
    ASSUME NEW q, Whole(q), NEW at \in Nat,
           NEW rec, rec = [s \in Here(q) |-> CleanupSession(q.sessions[s].record, at)],
           NEW why, why = CleanupCloses(q, at)
    PROVE  /\ Closable(q, why)
           /\ \A s \in Resolving(q, rec) : TicketsOf(q, s) \subseteq DOMAIN why
           /\ \A t \in DOMAIN why :
                \/ q.tickets[t].status = "queued"
                \/ /\ q.tickets[t].status = "matched"
                   /\ q.tickets[t].session \in Resolving(q, rec)
<1> DEFINE closes == ResolutionCloses(q, rec)
           expired == ExpiredTickets(q, at)
<1>0. q \in QueueRecord
  BY DEF Whole, Base
<1>1. rec \in [Here(q) -> Session]
  <2>1. \A s \in Here(q) : q.sessions[s].record \in Session
    BY <1>0 DEF QueueRecord, Match, Here
  <2>2. \A s \in Here(q) : CleanupSession(q.sessions[s].record, at) \in Session
    BY <2>1, SweptRecord
  <2>3. QED
    BY <2>2
<1>2. /\ \A s \in Resolving(q, rec) : TicketsOf(q, s) \subseteq DOMAIN closes
      /\ \A t \in DOMAIN closes :
           /\ t \in TicketId /\ q.tickets[t].status = "matched"
           /\ q.tickets[t].session \in Resolving(q, rec)
           /\ closes[t].reason \in ClosedReason \cup {"none"}
           /\ closes[t].at \in Nat \cup {NoTime}
  BY <1>1, ResolutionIs
<1>3. why = [t \in expired \cup DOMAIN closes |->
               IF t \in expired THEN [reason |-> "expired", at |-> at] ELSE closes[t]]
  BY DEF CleanupCloses
<1>4. \A t \in expired : t \in TicketId /\ q.tickets[t].status = "queued"
  BY DEF ExpiredTickets
<1> HIDE DEF closes, expired
<1>5. /\ DOMAIN why = expired \cup DOMAIN closes
      /\ \A t \in expired : why[t].reason = "expired" /\ why[t].at = at
      /\ \A t \in DOMAIN closes \ expired : why[t] = closes[t]
  BY <1>3
<1>6. ASSUME NEW t \in DOMAIN why
      PROVE  /\ t \in TicketId /\ q.tickets[t].status \in {"queued", "matched"}
             /\ why[t].reason \in ClosedReason \cup {"none"}
             /\ why[t].at \in Nat \cup {NoTime}
  <2>1. CASE t \in expired
    BY <1>4, <1>5, <2>1 DEF ClosedReason
  <2>2. CASE t \in DOMAIN closes \ expired
    BY <1>2, <1>5, <2>2
  <2>3. QED
    BY <1>5, <2>1, <2>2
<1>7. Closable(q, why)
  <2>1. ASSUME NEW t \in DOMAIN why
        PROVE  /\ q.tickets[t].account \in Account
               /\ q.active[q.tickets[t].account][q.tickets[t].queueType] = t
    BY <1>6, LiveOwned DEF Live
  <2>2. QED
    BY <1>6, <2>1 DEF Closable
<1>8. QED
  BY <1>2, <1>4, <1>5, <1>7

\* What is left of a ticket or a session that was dropped is a record.
LEMMA DroppedTypes ==
    /\ NoTicket("removed") \in Ticket /\ NoTicket("removed").status = "removed"
    /\ NoMatch("removed") \in Match /\ NoMatch("removed").status = "removed"
    /\ NoTicket("unborn") \in Ticket /\ NoTicket("unborn").status = "unborn"
    /\ NoMatch("unborn") \in Match /\ NoMatch("unborn").status = "unborn"
<1>1. /\ (CHOOSE q \in QueueType : TRUE) \in QueueType
      /\ (CHOOSE p \in Profile : TRUE) \in Profile
      /\ (CHOOSE r \in Region : TRUE) \in Region
  BY QueueAssumption
<1>2. NewSession(0) \in Session
  BY NewSessionType
<1>3. QED
  BY <1>1, <1>2 DEF NoTicket, NoMatch, Ticket, Match, NoTime, None

\* A session's record may be replaced by another.
LEMMA ReplaceRecord ==
    ASSUME NEW m \in Match, NEW r \in Session, NEW k, k = [m EXCEPT !.record = r]
    PROVE  /\ k \in Match /\ k.status = m.status /\ k.record = r
           /\ k.ticket = m.ticket /\ k.region = m.region
BY DEF Match

\* cleanup at any time leaves the queue whole.
LEMMA CleanupWhole ==
    ASSUME NEW q, Whole(q), NEW at \in Nat PROVE Whole(Cleanup(q, at))
<1> DEFINE rec == [s \in Here(q) |-> CleanupSession(q.sessions[s].record, at)]
           why == CleanupCloses(q, at)
           c == CloseTickets(q, why)
           n == Cleanup(q, at)
           D == DroppedTickets(q, at)
           E == DroppedSessions(q, at)
<1>0. Base(q) /\ Pairs(q) /\ q \in QueueRecord
  BY DEF Whole, Base
<1>1. /\ Closable(q, why)
      /\ \A s \in Resolving(q, rec) : TicketsOf(q, s) \subseteq DOMAIN why
      /\ \A t \in DOMAIN why :
            \/ q.tickets[t].status = "queued"
            \/ /\ q.tickets[t].status = "matched"
               /\ q.tickets[t].session \in Resolving(q, rec)
  <2> HIDE DEF why, rec
  <2>1. QED
    BY CleanupClosesIs DEF why, rec
<1>2. /\ n = [c EXCEPT
          !.tickets = [t \in TicketId |->
              IF t \in D THEN NoTicket("removed") ELSE c.tickets[t]],
          !.sessions = [s \in SessionId |->
              IF s \in E THEN NoMatch("removed")
              ELSE IF s \in Here(q)
              THEN [q.sessions[s] EXCEPT
                      !.record = CleanupSession(q.sessions[s].record, at)]
              ELSE q.sessions[s]]]
  BY DEF Cleanup
<1> HIDE DEF why, n, D, E
<1>3. Base(c) /\ c \in QueueRecord
  BY <1>0, <1>1, CloseBase DEF Base
<1>4. /\ \A t \in TicketId : t \notin DOMAIN why => c.tickets[t] = q.tickets[t]
      /\ \A t \in DOMAIN why : c.tickets[t].status = "closed"
  BY <1>0, <1>1, CloseFields
<1> HIDE DEF c
<1>5. /\ n.active = c.active /\ n.buckets = c.buckets /\ n.draining = c.draining
      /\ n.tickets = [t \in TicketId |->
              IF t \in D THEN NoTicket("removed") ELSE c.tickets[t]]
      /\ n.sessions = [s \in SessionId |->
              IF s \in E THEN NoMatch("removed")
              ELSE IF s \in Here(q)
              THEN [q.sessions[s] EXCEPT
                      !.record = CleanupSession(q.sessions[s].record, at)]
              ELSE q.sessions[s]]
  BY <1>2, <1>3 DEF QueueRecord
<1>6. \A t \in D : t \in TicketId /\ q.tickets[t].status = "closed" /\ t \notin DOMAIN why
  BY <1>1 DEF D, DroppedTickets
<1>7. \A s \in E : s \in Here(q) /\ q.sessions[s].record.status = "resolved"
  BY DEF E, DroppedSessions, Removable
<1>8. /\ \A t \in D : n.tickets[t] = NoTicket("removed")
      /\ \A t \in TicketId \ D : n.tickets[t] = c.tickets[t]
  BY <1>5, <1>6
<1>9. ASSUME NEW s \in Here(q)
      PROVE  /\ q.sessions[s] \in Match /\ q.sessions[s].record \in Session
             /\ rec[s] \in Session
             /\ q.sessions[s].record.status = "resolved" => rec[s] = q.sessions[s].record
             /\ q.sessions[s].record.status \in {"active", "resolved"}
             /\ rec[s].status \in {"active", "resolved"}
  <2>1. q.sessions[s] \in Match /\ q.sessions[s].record \in Session
    BY <1>0 DEF QueueRecord, Match, Here
  <2>2. rec[s] = CleanupSession(q.sessions[s].record, at)
    OBVIOUS
  <2> HIDE DEF rec
  <2>3. rec[s] \in Session
    BY <2>1, <2>2, SweptRecord
  <2>4. QED
    BY <2>1, <2>2, <2>3, SweptRecord
<1>10. ASSUME NEW s \in Here(q) \ E
       PROVE  /\ n.sessions[s] \in Match /\ n.sessions[s].status = "here"
              /\ n.sessions[s].record = rec[s]
              /\ n.sessions[s].ticket = q.sessions[s].ticket
              /\ n.sessions[s].region = q.sessions[s].region
  <2>1. s \in SessionId /\ q.sessions[s].status = "here"
    BY DEF Here
  <2>2. n.sessions[s] = [q.sessions[s] EXCEPT !.record = rec[s]]
    BY <1>5, <2>1
  <2> HIDE DEF rec
  <2>3. QED
    BY <1>9, <2>1, <2>2, ReplaceRecord
<1>11. /\ \A s \in E : n.sessions[s] = NoMatch("removed")
       /\ \A s \in SessionId \ Here(q) : n.sessions[s] = q.sessions[s]
  BY <1>5, <1>7 DEF Here
<1> HIDE DEF rec
<1>12. n \in QueueRecord
  <2>1. \A t \in TicketId : n.tickets[t] \in Ticket
    BY <1>3, <1>8, DroppedTypes DEF QueueRecord
  <2>2. n.tickets \in [TicketId -> Ticket]
    BY <1>5, <2>1
  <2>3. \A s \in SessionId : n.sessions[s] \in Match
    BY <1>0, <1>7, <1>10, <1>11, DroppedTypes DEF QueueRecord
  <2>4. n.sessions \in [SessionId -> Match]
    BY <1>5, <2>3
  <2>5. n = [c EXCEPT !.tickets = n.tickets, !.sessions = n.sessions]
    BY <1>2, <1>3 DEF QueueRecord
  <2>6. QED
    BY <1>3, <2>2, <2>4, <2>5 DEF QueueRecord
<1>13. Base(n)
  <2>1. \A t \in TicketId : \/ n.tickets[t] = c.tickets[t]
                            \/ /\ c.tickets[t].status = "closed"
                               /\ n.tickets[t].status = "removed"
    BY <1>4, <1>6, <1>8, DroppedTypes
  <2>2. QED
    BY <1>3, <1>5, <1>12, <2>1, DropBase
<1> DEFINE C == DOMAIN why
<1>14. C \in SUBSET TicketId
  BY <1>1 DEF Closable
<1>15. \A t \in TicketId : n.tickets[t].status = "matched" => t \notin C /\ n.tickets[t] = q.tickets[t]
  BY <1>4, <1>8, DroppedTypes
<1>16. \A t \in TicketId \ C : q.tickets[t].status = "matched" => n.tickets[t] = q.tickets[t]
  BY <1>4, <1>6, <1>8
<1>17. \A s \in Here(q) : q.sessions[s].record.status = "active" =>
               \/ TicketsOf(q, s) \subseteq C
               \/ s \in Here(n) /\ n.sessions[s].record.status = "active"
  <2> SUFFICES ASSUME NEW s \in Here(q), q.sessions[s].record.status = "active",
                      ~(TicketsOf(q, s) \subseteq C)
               PROVE  s \in Here(n) /\ n.sessions[s].record.status = "active"
    OBVIOUS
  <2>1. s \notin Resolving(q, rec)
    BY <1>1
  <2>2. DOMAIN rec = Here(q)
    BY DEF rec
  <2>3. rec[s].status = "active" /\ s \notin E
    BY <1>7, <1>9, <2>1, <2>2 DEF Resolving
  <2>4. QED
    BY <1>10, <2>3 DEF Here
<1>18. ASSUME NEW s \in Here(n), n.sessions[s].record.status = "active"
       PROVE  /\ s \in Here(q) /\ q.sessions[s].record.status = "active"
              /\ TicketsOf(q, s) \cap C = {}
              /\ n.sessions[s].ticket = q.sessions[s].ticket
              /\ n.sessions[s].region = q.sessions[s].region
  <2>1. s \in Here(q) /\ s \notin E
    BY <1>11, DroppedTypes DEF Here
  <2>2. rec[s].status = "active" /\ q.sessions[s].record.status = "active"
    BY <1>9, <1>10, <1>18, <2>1
  <2>3. ASSUME NEW t \in TicketsOf(q, s), t \in C PROVE FALSE
    <3>1. q.tickets[t].status = "matched" /\ q.tickets[t].session = s
      BY <1>0, <2>1, <2>2, SidesMatched
    <3>2. s \in Resolving(q, rec)
      BY <1>1, <2>3, <3>1
    <3>3. QED
      BY <2>2, <3>2 DEF Resolving
  <2>4. QED
    BY <1>10, <2>1, <2>2, <2>3
<1> HIDE DEF C
<1>19. Pairs(n)
  <2>1. Pairs(q)
    BY <1>0
  <2>2. QED
    BY ONLY <1>14, <1>15, <1>16, <1>17, <1>18, <2>1, StepPairs
<1>20. QED
  BY <1>13, <1>19 DEF Whole, n

\* Tickets of resolving sessions may be closed.
LEMMA ResolutionClosable ==
    ASSUME NEW q, Whole(q), NEW S \in SUBSET Here(q), NEW rec \in [S -> Session],
           NEW why, why = ResolutionCloses(q, rec)
    PROVE  Closable(q, why)
<1>1. \A t \in DOMAIN why :
        /\ t \in TicketId /\ q.tickets[t].status = "matched"
        /\ why[t].reason \in ClosedReason \cup {"none"}
        /\ why[t].at \in Nat \cup {NoTime}
  BY ResolutionIs
<1>2. \A t \in DOMAIN why :
        /\ q.tickets[t].account \in Account
        /\ q.active[q.tickets[t].account][q.tickets[t].queueType] = t
  BY <1>1, LiveOwned DEF Live
<1>3. QED
  BY <1>1, <1>2 DEF Closable

\* A handler that stores a session's new record leaves the queue whole, and
\* both tickets of a session it resolved closed.
LEMMA StoreWhole ==
    ASSUME NEW q, Whole(q), NEW s \in Here(q), q.sessions[s].record.status = "active",
           NEW record \in Session,
           NEW n, n = StoreSession(q, s, record)
    PROVE  /\ Whole(n)
           /\ record.status = "resolved" => \A t \in TicketsOf(q, s) :
                /\ t \in TicketId /\ n.tickets[t].status = "closed"
                /\ n.tickets[t].account \in Account
                /\ n.active[n.tickets[t].account][n.tickets[t].queueType] = None
<1> DEFINE rec == [x \in {s} |-> record]
           why == ResolutionCloses(q, rec)
           c == CloseTickets(q, why)
           C == DOMAIN why
<1>0. Base(q) /\ Pairs(q) /\ q \in QueueRecord
  BY DEF Whole, Base
<1>1. rec \in [{s} -> Session] /\ rec[s] = record /\ {s} \in SUBSET Here(q) /\ DOMAIN rec = {s}
  OBVIOUS
<1>2. n = [c EXCEPT !.sessions[s].record = record]
  BY DEF StoreSession
<1> HIDE DEF rec
<1>3. /\ Closable(q, why)
      /\ \A x \in Resolving(q, rec) : TicketsOf(q, x) \subseteq C
      /\ \A t \in C : /\ t \in TicketId /\ q.tickets[t].status = "matched"
                      /\ q.tickets[t].session \in Resolving(q, rec)
  BY <1>1, ResolutionIs, ResolutionClosable
<1> HIDE DEF why
<1>4. Base(c) /\ c \in QueueRecord
  BY <1>0, <1>3, CloseBase DEF Base
<1>5. /\ c.sessions = q.sessions
      /\ \A t \in TicketId : t \notin C => c.tickets[t] = q.tickets[t]
      /\ \A t \in C : c.tickets[t].status = "closed"
  BY <1>0, <1>3, CloseFields
<1>6. \A t \in C : /\ c.tickets[t].account = q.tickets[t].account
                   /\ c.tickets[t].queueType = q.tickets[t].queueType
  BY <1>0, <1>3, CloseFields
<1>7. \A a \in Account, qt \in QueueType : Owned(q, C, a, qt) => c.active[a][qt] = None
  BY <1>0, <1>3, CloseFields
<1> HIDE DEF c
<1>8. q.sessions[s] \in Match /\ s \in SessionId /\ q.sessions[s].status = "here"
  BY <1>0 DEF QueueRecord, Here
<1>9. /\ n.active = c.active /\ n.buckets = c.buckets /\ n.draining = c.draining
      /\ n.tickets = c.tickets
      /\ n.sessions = [c.sessions EXCEPT ![s] = [c.sessions[s] EXCEPT !.record = record]]
  BY <1>2, <1>4 DEF QueueRecord
<1>10. /\ n.sessions[s] \in Match /\ n.sessions[s].status = "here"
       /\ n.sessions[s].record = record
       /\ n.sessions[s].ticket = q.sessions[s].ticket
       /\ n.sessions[s].region = q.sessions[s].region
  <2>1. n.sessions[s] = [q.sessions[s] EXCEPT !.record = record]
    BY <1>0, <1>5, <1>8, <1>9 DEF QueueRecord
  <2>2. QED
    BY <1>8, <2>1, ReplaceRecord
<1>11. /\ \A x \in SessionId \ {s} : n.sessions[x] = q.sessions[x]
       /\ n.sessions \in [SessionId -> Match]
  <2>1. DOMAIN n.sessions = SessionId /\ n.sessions = [x \in SessionId |-> n.sessions[x]]
        /\ \A x \in SessionId \ {s} : n.sessions[x] = q.sessions[x]
    BY <1>0, <1>5, <1>9 DEF QueueRecord
  <2>2. \A x \in SessionId : n.sessions[x] \in Match
    BY <1>0, <1>10, <2>1 DEF QueueRecord
  <2>3. QED
    BY <2>1, <2>2
<1>12. n \in QueueRecord
  <2>1. n = [c EXCEPT !.sessions = n.sessions]
    BY <1>2, <1>4 DEF QueueRecord
  <2>2. QED
    BY <1>4, <1>11, <2>1 DEF QueueRecord
<1>13. Base(n)
  BY <1>4, <1>9, <1>12, DropBase
<1> HIDE DEF C
<1>14. C \in SUBSET TicketId
  BY <1>3
<1>15. \A t \in TicketId : n.tickets[t].status = "matched" => t \notin C /\ n.tickets[t] = q.tickets[t]
  BY <1>5, <1>9
<1>16. \A t \in TicketId \ C : q.tickets[t].status = "matched" => n.tickets[t] = q.tickets[t]
  BY <1>5, <1>9
<1>17. Here(n) = Here(q)
  <2>1. \A x \in SessionId : n.sessions[x].status = q.sessions[x].status
    BY <1>8, <1>10, <1>11
  <2>2. QED
    BY <2>1 DEF Here
<1>18. /\ record.status \in {"active", "resolved"}
       /\ record.status = "resolved" => Resolving(q, rec) = {s}
       /\ record.status = "active" => Resolving(q, rec) = {}
  <2>1. record.status \in {"active", "resolved"}
    BY DEF Session
  <2>2. QED
    BY <1>1, <2>1 DEF Resolving
<1>19. \A x \in Here(q) : q.sessions[x].record.status = "active" =>
               \/ TicketsOf(q, x) \subseteq C
               \/ x \in Here(n) /\ n.sessions[x].record.status = "active"
  <2> SUFFICES ASSUME NEW x \in Here(q), q.sessions[x].record.status = "active",
                      ~(TicketsOf(q, x) \subseteq C)
               PROVE  n.sessions[x].record.status = "active"
    BY <1>17
  <2>1. CASE x = s
    BY <1>3, <1>10, <1>18, <2>1
  <2>2. CASE x # s
    BY <1>11, <2>2 DEF Here
  <2>3. QED
    BY <2>1, <2>2
<1>20. ASSUME NEW x \in Here(n), n.sessions[x].record.status = "active"
       PROVE  /\ x \in Here(q) /\ q.sessions[x].record.status = "active"
              /\ TicketsOf(q, x) \cap C = {}
              /\ n.sessions[x].ticket = q.sessions[x].ticket
              /\ n.sessions[x].region = q.sessions[x].region
  <2>1. /\ x \in Here(q) /\ q.sessions[x].record.status = "active"
        /\ n.sessions[x].ticket = q.sessions[x].ticket
        /\ n.sessions[x].region = q.sessions[x].region
    BY <1>10, <1>11, <1>17, <1>20 DEF Here
  <2>2. x \notin Resolving(q, rec)
    BY <1>10, <1>18, <1>20
  <2>3. \A t \in TicketsOf(q, x) : q.tickets[t].session = x
    BY <1>0, <2>1, SidesMatched
  <2>4. QED
    BY <1>3, <2>1, <2>2, <2>3
<1>21. Pairs(n)
  <2>1. Pairs(q)
    BY <1>0
  <2>2. QED
    BY ONLY <1>14, <1>15, <1>16, <1>19, <1>20, <2>1, StepPairs
<1>22. ASSUME record.status = "resolved", NEW t \in TicketsOf(q, s)
       PROVE  /\ t \in TicketId /\ n.tickets[t].status = "closed"
              /\ n.tickets[t].account \in Account
              /\ n.active[n.tickets[t].account][n.tickets[t].queueType] = None
  <2>1. t \in C
    BY <1>3, <1>18, <1>22
  <2>2. /\ n.tickets[t].status = "closed"
        /\ n.tickets[t].account = q.tickets[t].account
        /\ n.tickets[t].queueType = q.tickets[t].queueType
    BY <1>5, <1>6, <1>9, <2>1
  <2>3. q.tickets[t].account \in Account /\ t \in TicketId /\ q.tickets[t].queueType \in QueueType
    <3>1. t \in TicketId /\ Live(q, t)
      BY <1>3, <2>1 DEF Live
    <3>2. QED
      BY <1>0, <3>1, LiveOwned, ProfileType DEF QueueRecord
  <2>4. Owned(q, C, q.tickets[t].account, q.tickets[t].queueType)
    BY <2>1 DEF Owned
  <2>5. QED
    BY <1>7, <1>9, <2>2, <2>3, <2>4
<1>23. QED
  BY <1>13, <1>21, <1>22 DEF Whole

\* A player who leaves a match takes the session and both tickets along.
LEMMA LeaveMatchedWhole ==
    ASSUME NEW q, Whole(q), NEW at \in Nat, NEW t \in TicketId,
           q.tickets[t].status = "matched"
    PROVE  Whole(LeaveMatched(q, t, at))
<1> DEFINE s == q.tickets[t].session
           p == CHOOSE x \in Side : q.sessions[s].ticket[x] = t
           record == LeaveSession(q.sessions[s].record, p, at)
           r == StoreSession(q, s, record)
           why == [x \in {t} |-> [reason |-> "left_queue", at |-> at]]
<1>1. s \in Here(q) /\ q.sessions[s].record.status = "active" /\ t \in TicketsOf(q, s)
  BY DEF Whole, Pairs, TicketPaired
<1>2. p \in Side
  BY <1>1 DEF TicketsOf
<1>3. q.sessions[s].record \in Session
  BY <1>1 DEF Whole, Base, QueueRecord, Match, Here
<1>4. LeaveMatched(q, t, at) = CloseTickets(r, why)
  BY DEF LeaveMatched
<1>5. /\ DOMAIN why = {t} /\ why[t].reason = "left_queue" /\ why[t].at = at
  OBVIOUS
<1> HIDE DEF s, p, why
<1>6. record \in Session
  BY <1>2, <1>3, LeaveType
<1>7. record.status = "resolved"
  BY <1>1, <1>2, <1>3, ResolveOutcome DEF LeaveSession, Reason
<1> HIDE DEF record
<1>8. /\ Whole(r) /\ r.tickets[t].status = "closed"
      /\ r.tickets[t].account \in Account
      /\ r.active[r.tickets[t].account][r.tickets[t].queueType] = None
  BY <1>1, <1>6, <1>7, StoreWhole
<1> HIDE DEF r
<1>9. Closable(r, why)
  BY <1>5, <1>8 DEF Closable, ClosedReason
<1>10. \A x \in DOMAIN why : r.tickets[x].status # "matched"
  BY <1>5, <1>8
<1>11. QED
  BY <1>4, <1>8, <1>9, <1>10, CloseWhole

-----------------------------------------------------------------------------
(* restoreSnapshot.                                                        *)

\* Both indexes of a whole queue are the ones a fresh process rebuilds.
LEMMA RebuildSame == ASSUME NEW q, Base(q) PROVE Rebuild(q) = q
<1> DEFINE owners(a, qt) == {t \in TicketId : /\ Live(q, t)
                                              /\ q.tickets[t].account = a
                                              /\ q.tickets[t].queueType = qt}
           last(ids) == CHOOSE i \in ids : \A j \in ids : i >= j
           ids == [i \in TicketId |-> i]
           active == [a \in Account |-> [qt \in QueueType |->
              IF owners(a, qt) = {} THEN None ELSE last(owners(a, qt))]]
           buckets == [qt \in QueueType |-> [r \in Region |->
              Keep(ids, Waiting(q, qt, r))]]
<1>0. q \in QueueRecord /\ Indexed(q) /\ Bucketed(q)
  BY DEF Base
<1>1. Rebuild(q) = [q EXCEPT !.active = active, !.buckets = buckets]
  BY DEF Rebuild, Waiting
<1>2. active = q.active
  <2>1. ASSUME NEW a \in Account, NEW qt \in QueueType
        PROVE  (IF owners(a, qt) = {} THEN None ELSE last(owners(a, qt))) = q.active[a][qt]
    <3>1. q.active[a][qt] \in TicketId \cup {None}
      BY <1>0 DEF QueueRecord
    <3>2. ASSUME NEW t \in owners(a, qt) PROVE t = q.active[a][qt] /\ t \in TicketId
      BY <1>0 DEF Indexed
    <3>3. q.active[a][qt] # None => q.active[a][qt] \in owners(a, qt)
      BY <1>0, <3>1 DEF Indexed
    <3>4. None \notin TicketId /\ TicketId \subseteq Nat
      BY DEF None, TicketId
    <3> DEFINE O == owners(a, qt)
    <3>5. CASE O = {}
      BY <3>3, <3>5
    <3>6. CASE O # {}
      <4>1. O = {q.active[a][qt]} /\ q.active[a][qt] \in Nat
        BY <3>2, <3>4, <3>6
      <4>2. \E i \in O : \A j \in O : i >= j
        <5> HIDE DEF O
        <5>1. QED
          BY <4>1
      <4>3. last(O) \in O
        <5> HIDE DEF O
        <5>1. QED
          BY <4>2
      <4>4. QED
        BY <3>6, <4>1, <4>3
    <3>7. QED
      BY <3>5, <3>6
  <2> HIDE DEF owners, last
  <2>2. q.active \in [Account -> [QueueType -> TicketId \cup {None}]]
    BY <1>0 DEF QueueRecord
  <2>3. \A a \in Account : active[a] = q.active[a]
    BY <2>1, <2>2
  <2>4. QED
    BY <2>2, <2>3
<1>3. buckets = q.buckets
  <2>1. ids \in Seq(TicketId) /\ Ascending(ids) /\ Elements(ids) = TicketId
    <3>1. ids \in Seq(TicketId) /\ DOMAIN ids = TicketId /\ \A i \in TicketId : ids[i] = i
      <4>1. TicketId = 1..MaxTickets /\ MaxTickets \in Nat
        BY QueueAssumption DEF TicketId
      <4>2. QED
        BY <4>1
    <3> HIDE DEF ids
    <3>2. QED
      BY <3>1 DEF Ascending, Elements
  <2> HIDE DEF ids
  <2>2. q.buckets \in [QueueType -> [Region -> Seq(TicketId)]]
    BY <1>0 DEF QueueRecord
  <2>3. ASSUME NEW qt \in QueueType, NEW r \in Region
        PROVE  Keep(ids, Waiting(q, qt, r)) = q.buckets[qt][r]
    <3> DEFINE k == Keep(ids, Waiting(q, qt, r))  b == q.buckets[qt][r]
    <3>1. /\ k \in Seq(TicketId) /\ Ascending(k)
          /\ Elements(k) = TicketId \cap Waiting(q, qt, r)
      BY <2>1, KeepIn
    <3>2. Waiting(q, qt, r) \subseteq TicketId
      BY DEF Waiting, Asking
    <3>3. b \in Seq(TicketId) /\ Ascending(b) /\ Elements(b) = Waiting(q, qt, r)
      BY <1>0, <2>2 DEF Bucketed
    <3> HIDE DEF k, b
    <3>4. TicketId \subseteq Nat
      BY DEF TicketId
    <3>5. k \in Seq(Nat) /\ b \in Seq(Nat)
      BY <3>1, <3>3, <3>4, Widen
    <3>6. Elements(k) = Elements(b)
      BY <3>1, <3>2, <3>3
    <3>7. k = b
      BY <3>1, <3>3, <3>5, <3>6, SameElements
    <3>8. QED
      BY <3>7 DEF k, b
  <2>4. \A qt \in QueueType : buckets[qt] = q.buckets[qt]
    BY <2>2, <2>3
  <2>5. QED
    BY <2>2, <2>4
<1> HIDE DEF active, buckets
<1>4. QED
  BY <1>0, <1>1, <1>2, <1>3 DEF QueueRecord

-----------------------------------------------------------------------------

\* The inductive invariant of the queue.
QueueInv == now \in Nat /\ Whole(queue)

\* An empty queue is whole.
LEMMA InitWhole == Init => QueueInv
<1> SUFFICES ASSUME Init PROVE QueueInv
  OBVIOUS
<1> DEFINE q == EmptyQueue
<1>1. /\ q.tickets = [t \in TicketId |-> NoTicket("unborn")]
      /\ q.sessions = [s \in SessionId |-> NoMatch("unborn")]
      /\ q.active = [a \in Account |-> [qt \in QueueType |-> None]]
      /\ q.buckets = [qt \in QueueType |-> [r \in Region |-> <<>>]]
      /\ q \in QueueRecord
  BY DroppedTypes DEF EmptyQueue, QueueRecord
<1> HIDE DEF q
<1>2. /\ \A t \in TicketId : q.tickets[t].status = "unborn"
      /\ \A s \in SessionId : q.sessions[s].status = "unborn"
  BY <1>1, DroppedTypes
<1>3. InOrder(q)
  BY <1>2 DEF InOrder
<1>4. Indexed(q)
  BY <1>1, <1>2 DEF Indexed, Live
<1>5. Bucketed(q)
  <2> SUFFICES ASSUME NEW qt \in QueueType, NEW r \in Region
               PROVE  /\ Ascending(q.buckets[qt][r])
                      /\ Elements(q.buckets[qt][r]) = Waiting(q, qt, r)
    BY DEF Bucketed
  <2>1. q.buckets[qt][r] = <<>>
    BY <1>1
  <2>2. Ascending(<<>>) /\ Elements(<<>>) = {}
    BY DEF Ascending, Elements
  <2>3. Waiting(q, qt, r) = {}
    BY <1>2 DEF Waiting, Asking
  <2>4. QED
    BY <2>1, <2>2, <2>3
<1>6. Pairs(q)
  BY <1>2 DEF Pairs, TicketPaired, Here
<1>7. QED
  BY <1>1, <1>3, <1>4, <1>5, <1>6 DEF QueueInv, Whole, Base, Init, q

\* The drain switch is in none of the indexes.
LEMMA SwitchWhole ==
    ASSUME NEW q, Whole(q), NEW on \in BOOLEAN, NEW n, n = [q EXCEPT !.draining = on]
    PROVE  Whole(n)
<1>0. Base(q) /\ Pairs(q) /\ q \in QueueRecord
  BY DEF Whole, Base
<1>1. /\ n.tickets = q.tickets /\ n.sessions = q.sessions /\ n.active = q.active
      /\ n.buckets = q.buckets /\ n \in QueueRecord
  BY <1>0 DEF QueueRecord
<1>2. Base(n)
  BY <1>0, <1>1, DropBase
<1>3. Pairs(n)
  BY <1>0, <1>1, QuietPairs
<1>4. QED
  BY <1>2, <1>3 DEF Whole

-----------------------------------------------------------------------------
(* The steps.                                                              *)

\* Every sweep leaves the queue whole.
LEMMA SweptWhole ==
    ASSUME QueueInv
    PROVE  now \in Nat /\ Whole(Swept) /\ Swept \in QueueRecord
<1>1. now \in Nat /\ Whole(Swept)
  BY CleanupWhole DEF QueueInv, Swept
<1>2. QED
  BY <1>1 DEF Whole, Base

\* A session handler stores a record for a session that is still active.
LEMMA UpdateWhole ==
    ASSUME QueueInv, NEW s \in Here(Swept), Swept.sessions[s].record.status = "active",
           NEW record \in Session, Update(s, record)
    PROVE  QueueInv'
<1>1. now' = now /\ now \in Nat /\ Whole(Swept)
  BY SweptWhole DEF Update
<1>2. queue' = StoreSession(Swept, s, record)
  BY DEF Update
<1>3. Whole(queue')
  BY <1>1, <1>2, StoreWhole
<1>4. QED
  BY <1>1, <1>3 DEF QueueInv

\* join, for a new ticket and for one that is there already.
LEMMA JoinWhole ==
    ASSUME QueueInv, NEW a \in Account, NEW qt \in QueueType, NEW prof \in Profile,
           Join(a, qt, prof)
    PROVE  QueueInv'
<1>1. now' = now /\ now \in Nat /\ Whole(Swept) /\ Swept \in QueueRecord
  BY SweptWhole DEF Join
<1>2. CASE /\ HasLiveTicket(Swept, a, qt)
           /\ queue' \in TryMatch(Swept, Swept.active[a][qt], now)
  <2>1. Swept.active[a][qt] \in TicketId
    BY <1>1, <1>2 DEF HasLiveTicket, QueueRecord
  <2>2. Whole(queue')
    BY <1>1, <1>2, <2>1, TryMatchWhole
  <2>3. QED
    BY <1>1, <2>2 DEF QueueInv
<1>3. CASE /\ ~HasLiveTicket(Swept, a, qt)
           /\ FreshTicket(Swept) # {}
           /\ queue' \in TryMatch(AddTicket(Swept, NextId(FreshTicket(Swept)), a, qt, prof, now),
                                  NextId(FreshTicket(Swept)), now)
  <2> DEFINE t == NextId(FreshTicket(Swept))
             n == AddTicket(Swept, t, a, qt, prof, now)
  <2>1. Whole(n) /\ t \in TicketId
    BY <1>1, <1>3, AddWhole
  <2>2. queue' \in TryMatch(n, t, now)
    BY <1>3
  <2> HIDE DEF n, t
  <2>3. Whole(queue')
    BY <1>1, <2>1, <2>2, TryMatchWhole
  <2>4. QED
    BY <1>1, <2>3 DEF QueueInv
<1>4. QED
  BY <1>2, <1>3 DEF Join

\* A poll.
LEMMA GetTicketWhole ==
    ASSUME QueueInv, NEW t \in TicketId, GetTicket(t) PROVE QueueInv'
<1>1. now' = now /\ now \in Nat /\ Whole(Swept) /\ queue' \in TryMatch(Swept, t, now)
  BY SweptWhole DEF GetTicket
<1>2. Whole(queue')
  BY <1>1, TryMatchWhole
<1>3. QED
  BY <1>1, <1>2 DEF QueueInv

\* leaveTicket, waiting and matched.
LEMMA LeaveTicketWhole ==
    ASSUME QueueInv, NEW t \in TicketId, LeaveTicket(t) PROVE QueueInv'
<1>1. now' = now /\ now \in Nat /\ Whole(Swept)
  BY SweptWhole DEF LeaveTicket
<1>2. CASE /\ Swept.tickets[t].status = "queued"
           /\ queue' = CloseTickets(Swept,
                [x \in {t} |-> [reason |-> "left_queue", at |-> now]])
  <2>1. Whole(queue')
    BY <1>1, <1>2, LeaveQueuedWhole
  <2>2. QED
    BY <1>1, <2>1 DEF QueueInv
<1>3. CASE /\ Swept.tickets[t].status = "matched"
           /\ queue' = LeaveMatched(Swept, t, now)
  <2>1. Whole(queue')
    BY <1>1, <1>3, LeaveMatchedWhole
  <2>2. QED
    BY <1>1, <2>1 DEF QueueInv
<1>4. QED
  BY <1>2, <1>3 DEF LeaveTicket

\* The drain switch, on and off.
LEMMA DrainingWhole ==
    ASSUME QueueInv, NEW on \in BOOLEAN, SetDraining(on) PROVE QueueInv'
<1>1. now' = now /\ now \in Nat /\ Whole(Swept) /\ Whole(queue)
  BY SweptWhole DEF SetDraining, QueueInv
<1>2. CASE on = TRUE
  <2> DEFINE d == DrainQueued(Swept, now)
  <2>1. Whole(d)
    BY <1>1, DrainWhole
  <2>2. queue' = [d EXCEPT !.draining = TRUE]
    BY <1>2 DEF SetDraining
  <2> HIDE DEF d
  <2>3. Whole(queue')
    BY <2>1, <2>2, SwitchWhole
  <2>4. QED
    BY <1>1, <2>3 DEF QueueInv
<1>3. CASE on = FALSE
  <2>1. queue' = [queue EXCEPT !.draining = FALSE]
    BY <1>3 DEF SetDraining
  <2>2. Whole(queue')
    BY <1>1, <2>1, SwitchWhole
  <2>3. QED
    BY <1>1, <2>2 DEF QueueInv
<1>4. QED
  BY <1>2, <1>3

\* A replacement process restores the very indexes it lost.
LEMMA RestartWhole == ASSUME QueueInv, Restart PROVE QueueInv'
<1>1. now' = now /\ now \in Nat /\ Whole(queue) /\ queue' = Cleanup(Rebuild(queue), now)
  BY DEF Restart, QueueInv
<1>2. Rebuild(queue) = queue
  BY <1>1, RebuildSame DEF Whole
<1>3. Whole(queue')
  BY <1>1, <1>2, CleanupWhole
<1>4. QED
  BY <1>1, <1>3 DEF QueueInv

\* The handlers of a session.
LEMMA HandlersWhole ==
    ASSUME QueueInv, NEW s \in SessionId, NEW p \in Side,
           \/ Disconnect(s, p) \/ Heartbeat(s, p) \/ Complete(s, p)
           \/ \E attempt \in AttemptId : Reconnect(s, p, attempt)
           \/ \E expected \in 1..MaxGeneration : AdvanceTransport(s, expected)
    PROVE  QueueInv'
<1> DEFINE r == Swept.sessions[s].record
<1>0. now \in Nat /\ Swept \in QueueRecord
  BY SweptWhole
<1>1. s \in Here(Swept)
  BY DEF Disconnect, Heartbeat, Complete, Reconnect, AdvanceTransport
<1>2. r \in Session
  BY <1>0 DEF QueueRecord, Match
<1>3. CASE Disconnect(s, p)
  <2>1. r.status = "active" /\ Update(s, MarkDisconnected(r, p, now))
    BY <1>3 DEF Disconnect, CanMarkDisconnected
  <2>2. MarkDisconnected(r, p, now) \in Session
    BY <1>0, <1>2, MarkDisconnectedType
  <2>3. QED
    BY <1>1, <2>1, <2>2, UpdateWhole
<1>4. CASE Heartbeat(s, p)
  <2>1. r.status = "active" /\ Update(s, HeartbeatSession(r, p, now))
    BY <1>4 DEF Heartbeat, CanHeartbeat
  <2>2. HeartbeatSession(r, p, now) \in Session
    BY <1>0, <1>2, HeartbeatType
  <2>3. QED
    BY <1>1, <2>1, <2>2, UpdateWhole
<1>5. CASE Complete(s, p)
  <2>1. r.status = "active" /\ Update(s, CompleteSession(r, p, now))
    BY <1>5 DEF Complete, CanComplete
  <2>2. CompleteSession(r, p, now) \in Session
    BY <1>0, <1>2, CompleteType
  <2>3. QED
    BY <1>1, <2>1, <2>2, UpdateWhole
<1>6. ASSUME NEW attempt \in AttemptId, Reconnect(s, p, attempt) PROVE QueueInv'
  <2>1. r.status = "active" /\ Update(s, ReconnectSession(r, p, attempt, now))
    BY <1>6 DEF Reconnect, CanReconnect
  <2>2. ReconnectSession(r, p, attempt, now) \in Session
    BY <1>0, <1>2, ReconnectType
  <2>3. QED
    BY <1>1, <2>1, <2>2, UpdateWhole
<1>7. ASSUME NEW expected \in 1..MaxGeneration, AdvanceTransport(s, expected) PROVE QueueInv'
  <2>1. r.status = "active" /\ Update(s, AdvanceTransportAttempt(r))
    BY <1>7 DEF AdvanceTransport, CanAdvanceTransport
  <2>2. AdvanceTransportAttempt(r) \in Session
    BY <1>2, AdvanceTransportType
  <2>3. QED
    BY <1>1, <2>1, <2>2, UpdateWhole
<1>8. QED
  BY <1>3, <1>4, <1>5, <1>6, <1>7

\* Every step leaves the queue whole.
LEMMA NextWhole == QueueInv /\ [Next]_vars => QueueInv'
<1> SUFFICES ASSUME QueueInv, [Next]_vars PROVE QueueInv'
  OBVIOUS
<1>1. CASE Tick
  BY <1>1 DEF Tick, QueueInv
<1>2. CASE Sweep
  BY <1>2, SweptWhole DEF Sweep, QueueInv
<1>3. CASE Restart
  BY <1>3, RestartWhole
<1>4. ASSUME NEW a \in Account, NEW qt \in QueueType, NEW prof \in Profile, Join(a, qt, prof)
      PROVE  QueueInv'
  BY <1>4, JoinWhole
<1>5. ASSUME NEW t \in TicketId, GetTicket(t) \/ LeaveTicket(t) PROVE QueueInv'
  BY <1>5, GetTicketWhole, LeaveTicketWhole
<1>6. ASSUME NEW on \in BOOLEAN, SetDraining(on) PROVE QueueInv'
  BY <1>6, DrainingWhole
<1>7. ASSUME NEW s \in SessionId, NEW p \in Side,
             \/ Disconnect(s, p) \/ Heartbeat(s, p) \/ Complete(s, p)
             \/ \E attempt \in AttemptId : Reconnect(s, p, attempt)
      PROVE  QueueInv'
  BY <1>7, HandlersWhole
<1>8. ASSUME NEW s \in SessionId, NEW expected \in 1..MaxGeneration,
             AdvanceTransport(s, expected)
      PROVE  QueueInv'
  BY <1>8, HandlersWhole DEF Side
<1>9. CASE UNCHANGED vars
  BY <1>9 DEF vars, QueueInv
<1>10. QED
  BY <1>1, <1>2, <1>3, <1>4, <1>5, <1>6, <1>7, <1>8, <1>9 DEF Next

\* Whatever the calls, sweeps, drains and restarts, the queue is whole.
THEOREM QueueInvariant == Spec => []QueueInv
BY InitWhole, NextWhole, PTL DEF Spec

\* The clock and the queue keep their types.
THEOREM QueueTypeCorrect == Spec => []TypeOK
<1>1. QueueInv => TypeOK
  BY DEF QueueInv, Whole, Base, TypeOK
<1>2. QED
  BY <1>1, QueueInvariant, PTL

\* Both indexes are always those a fresh process would rebuild, and no
\* account has two live tickets in a queue.
THEOREM TicketsIndexedHolds == Spec => []TicketsIndexed
<1>1. QueueInv => TicketsIndexed
  <2> SUFFICES ASSUME QueueInv PROVE TicketsIndexed
    OBVIOUS
  <2>1. Base(queue) /\ Indexed(queue)
    BY DEF QueueInv, Whole, Base
  <2>2. IndexesMatchSnapshot
    BY <2>1, RebuildSame DEF IndexesMatchSnapshot
  <2>3. OneLiveTicketPerQueue
    BY <2>1 DEF OneLiveTicketPerQueue, Indexed
  <2>4. QED
    BY <2>2, <2>3 DEF TicketsIndexed
<1>2. QED
  BY <1>1, QueueInvariant, PTL

\* Matched tickets come in pairs that share one active session.
THEOREM PairsHoldAlways == Spec => []PairsHold
<1>1. QueueInv => PairsHold
  BY DEF QueueInv, Whole, Pairs, PairsHold, TicketPaired, SessionPaired
<1>2. QED
  BY <1>1, QueueInvariant, PTL

-----------------------------------------------------------------------------
(* A poll does not depend on who asks.                                     *)

\* A region asked for twice in the same place is the same region, and every
\* region has one place in a request.
LEMMA PlaceIs ==
    ASSUME NEW tk \in Ticket, NEW i \in DOMAIN Regions(tk)
    PROVE  Index(Regions(tk), Regions(tk)[i]) = i /\ Regions(tk)[i] \in Elements(Regions(tk))
<1> DEFINE seq == Regions(tk)
<1>1. seq \in Seq(Region) /\ \A k, j \in DOMAIN seq : seq[k] = seq[j] => k = j
  BY ProfileType, QueueAssumption DEF Regions
<1> HIDE DEF seq
<1>2. i \in DOMAIN seq /\ seq[i] \in Elements(seq)
  BY DEF Elements, seq
<1>3. Index(seq, seq[i]) \in DOMAIN seq /\ seq[Index(seq, seq[i])] = seq[i]
  BY <1>1, <1>2, IndexIs
<1>4. Index(seq, seq[i]) = i
  BY <1>1, <1>2, <1>3
<1>5. QED
  BY <1>2, <1>4 DEF seq

\* If the best shared region of two tickets is the first choice of both, it
\* is so from either side.
LEMMA FirstChoiceAlike ==
    ASSUME NEW x \in Ticket, NEW y \in Ticket, SharedRegions(x, y) # {},
           ResolveSharedRegion(y, x) = Regions(x)[1],
           ResolveSharedRegion(y, x) = Regions(y)[1]
    PROVE  /\ ResolveSharedRegion(x, y) = Regions(x)[1]
           /\ ResolveSharedRegion(x, y) = Regions(y)[1]
<1> DEFINE r == ResolveSharedRegion(x, y)  f == Regions(x)[1]
<1>1. 1 \in DOMAIN Regions(x) /\ 1 \in DOMAIN Regions(y)
  BY ProfileType
<1>2. Index(Regions(x), f) = 1 /\ Index(Regions(y), f) = 1
  BY <1>1, PlaceIs
<1>3. f \in SharedRegions(x, y)
  BY <1>1, PlaceIs DEF SharedRegions
<1>4. RegionScore(x, y, f) = 0
  BY <1>2 DEF RegionScore
<1>5. r \in SharedRegions(x, y) /\ RegionScore(x, y, r) <= RegionScore(x, y, f)
  BY <1>3, SharedRegionFound
<1> HIDE DEF r
<1>6. /\ RegionScore(x, y, r) \in Nat
      /\ Index(Regions(x), r) \in Nat \ {0} /\ Index(Regions(y), r) \in Nat \ {0}
      /\ Regions(x)[Index(Regions(x), r)] = r
  BY <1>5, RegionScoreType
<1>7. Index(Regions(x), r) = 1
  BY <1>4, <1>5, <1>6 DEF RegionScore
<1>8. r = f
  BY <1>6, <1>7
<1>9. QED
  BY <1>8 DEF r

\* Whether two tickets may meet does not depend on who asks.
LEMMA CompatibleAlike ==
    ASSUME NEW x \in Ticket, NEW y \in Ticket, NEW at \in Nat, Compatible(y, x, at)
    PROVE  Compatible(x, y, at)
<1>1. /\ x.queueType = y.queueType /\ x.profile.client = y.profile.client
      /\ SharedRegions(y, x) # {}
      /\ y.queueType = "ranked" => InRankedBand(y, x, ResolveSharedRegion(y, x), at)
  BY DEF Compatible
<1>2. SharedRegions(x, y) = SharedRegions(y, x)
  BY DEF SharedRegions
<1>3. ASSUME InRankedBand(y, x, ResolveSharedRegion(y, x), at)
      PROVE  InRankedBand(x, y, ResolveSharedRegion(x, y), at)
  <2>1. OnMaster(x) = OnMaster(y)
    BY <1>3 DEF InRankedBand
  <2>2. /\ x.queuedAt \in Nat /\ y.queuedAt \in Nat
        /\ x.profile.rating \in Int /\ x.profile.mr \in Int
        /\ y.profile.rating \in Int /\ y.profile.mr \in Int
    BY ProfileType
  <2>3. WaitSeconds(x, y, at) = WaitSeconds(y, x, at)
    BY <2>2 DEF WaitSeconds, Most
  <2>4. AllowedGap(x, y, at) = AllowedGap(y, x, at)
    BY <2>1, <2>3 DEF AllowedGap
  <2>5. \A i, j \in Int : Distance(i, j) = Distance(j, i)
    BY DEF Distance
  <2>6. SkillGap(x, y) = SkillGap(y, x)
    BY <2>1, <2>2, <2>5 DEF SkillGap
  <2>7. SkillGap(x, y) <= AllowedGap(x, y, at)
    BY <1>3, <2>4, <2>6 DEF InRankedBand
  <2>8. ASSUME OnMaster(x) /\ WaitSeconds(x, y, at) < MasterStrictRegion
        PROVE  /\ ResolveSharedRegion(x, y) = Regions(x)[1]
               /\ ResolveSharedRegion(x, y) = Regions(y)[1]
    <3>1. /\ ResolveSharedRegion(y, x) = Regions(y)[1]
          /\ ResolveSharedRegion(y, x) = Regions(x)[1]
      BY <1>3, <2>1, <2>3, <2>8 DEF InRankedBand
    <3>2. QED
      BY <1>1, <1>2, <3>1, FirstChoiceAlike
  <2>9. QED
    BY <2>1, <2>7, <2>8 DEF InRankedBand
<1>4. QED
  BY <1>1, <1>2, <1>3 DEF Compatible

\* A waiting compatible ticket stands in a bucket the scan goes through.
LEMMA ScanMeets ==
    ASSUME NEW q, Base(q), NEW t \in TicketId, NEW u \in TicketId \ {t}, NEW at \in Nat,
           q.tickets[u].status = "queued", Compatible(q.tickets[t], q.tickets[u], at)
    PROVE  u \in Candidates(q, t, at)
<1> DEFINE tk == q.tickets[t]  other == q.tickets[u]
<1>0. tk \in Ticket /\ other \in Ticket /\ Bucketed(q)
  BY DEF Base, QueueRecord
<1>1. PICK r : r \in SharedRegions(tk, other)
  BY DEF Compatible
<1>2. tk.queueType = other.queueType
  BY DEF Compatible
<1> HIDE DEF tk, other
<1>3. PICK i \in DOMAIN Regions(tk) : Regions(tk)[i] = r
  BY <1>1 DEF SharedRegions, Elements
<1>4. r \in Region /\ tk.queueType \in QueueType
  BY <1>0, <1>3, ProfileType
<1>5. u \in Waiting(q, tk.queueType, r)
  BY <1>1, <1>2 DEF Waiting, Asking, other, SharedRegions, Regions
<1>6. u \in Elements(Bucket(q, tk, i))
  BY <1>0, <1>3, <1>4, <1>5 DEF Bucketed, Bucket
<1>7. Meets(q, tk, u) # {}
  BY <1>3, <1>6 DEF Meets
<1>8. QED
  BY <1>7 DEF Candidates, tk, other

\* A poll of either side of a compatible pair makes a match: compatibility
\* is symmetric, and the scan meets every ticket it could accept.
THEOREM PollMatchesHolds == Spec => []PollMatches
<1>1. QueueInv => PollMatches
  <2> SUFFICES ASSUME QueueInv,
                      NEW t \in TicketId, NEW u \in TicketId, t # u,
                      Swept.tickets[t].status = "queued",
                      Swept.tickets[u].status = "queued",
                      Compatible(Swept.tickets[u], Swept.tickets[t], now),
                      NEW n \in TryMatch(Swept, t, now)
               PROVE  n.tickets[t].status = "matched"
    BY DEF PollMatches
  <2>1. now \in Nat /\ Swept \in QueueRecord /\ Base(Swept)
    BY SweptWhole DEF Whole
  <2>2. Swept.tickets[t] \in Ticket /\ Swept.tickets[u] \in Ticket
    BY <2>1 DEF QueueRecord
  <2>3. Compatible(Swept.tickets[t], Swept.tickets[u], now)
    BY <2>1, <2>2, CompatibleAlike
  <2>4. u \in Candidates(Swept, t, now)
    BY <2>1, <2>3, ScanMeets
  <2> DEFINE c == BestCandidate(Swept, t, now)
  <2>5. c \in Candidates(Swept, t, now) /\ FreshSession(Swept) # {}
    BY <2>1, <2>4, BestCandidateFound DEF TryMatch
  <2>6. PICK first \in {t, c} : n = CreateMatch(Swept, t, c, first, now)
    BY <2>4, <2>5 DEF TryMatch
  <2> HIDE DEF c
  <2>7. /\ c \in TicketId \ {t}
        /\ SharedRegions(Swept.tickets[t], Swept.tickets[c]) # {}
    BY <2>1, <2>5, CandidateIs
  <2>8. Made(Swept, n, t, c)
    BY <2>1, <2>5, <2>6, <2>7, CreateFields
  <2>9. QED
    BY <2>8 DEF Made, MadeMatch
<1>2. QED
  BY <1>1, QueueInvariant, PTL

-----------------------------------------------------------------------------
(* One session alone: its rules are those of the sessions in the queue.    *)

\* MatchSession takes its rules from the same module: the same records,
LEMMA SameSets ==
    /\ Alone!Side = Side /\ Alone!NoTime = NoTime /\ Alone!Reason = Reason
    /\ Alone!Participant = Participant /\ Alone!Session = Session
<1>1. Alone!Side = Side /\ Alone!NoTime = NoTime /\ Alone!Reason = Reason
  BY DEF Alone!Side, Side, Alone!NoTime, NoTime, Alone!Reason, Reason
<1>2. Alone!Participant = Participant
  BY <1>1 DEF Alone!Participant, Participant
<1>3. QED
  BY <1>1, <1>2 DEF Alone!Session, Session

\* the same sweep,
LEMMA SameSweep ==
    /\ \A n : Alone!NewSession(n) = NewSession(n)
    /\ \A s, at, r, f : Alone!Resolve(s, at, r, f) = Resolve(s, at, r, f)
    /\ \A s, n : Alone!CleanupSession(s, n) = CleanupSession(s, n)
    /\ \A s, n : Alone!Removable(s, n) = Removable(s, n)
    /\ \A s : Alone!Outcome(s) = Outcome(s)
<1> USE SameSets
<1>1. \A q, n : Alone!ExpireHeartbeat(q, n) = ExpireHeartbeat(q, n)
  BY DEF Alone!ExpireHeartbeat, ExpireHeartbeat
<1>2. \A s, n : Alone!ExpireHeartbeats(s, n) = ExpireHeartbeats(s, n)
  BY <1>1 DEF Alone!ExpireHeartbeats, ExpireHeartbeats
<1>3. \A s, n : /\ Alone!EarliestTimedOut(s, n) = EarliestTimedOut(s, n)
                /\ Alone!TimedOut(s, n) = TimedOut(s, n)
  BY DEF Alone!EarliestTimedOut, EarliestTimedOut, Alone!TimedOut, TimedOut
<1>4. \A s, n : /\ Alone!TimeoutForfeiter(s, n) = TimeoutForfeiter(s, n)
                /\ Alone!TimeoutAt(s, n) = TimeoutAt(s, n)
  BY <1>3 DEF Alone!TimeoutForfeiter, TimeoutForfeiter, Alone!TimeoutAt, TimeoutAt
<1>5. \A s, at, r, f : Alone!Resolve(s, at, r, f) = Resolve(s, at, r, f)
  BY DEF Alone!Resolve, Resolve
<1>6. \A s, n : Alone!Judge(s, n) = Judge(s, n)
  BY <1>3, <1>4, <1>5 DEF Alone!Judge, Judge, Alone!ReconnectTimeoutWins,
     ReconnectTimeoutWins, Alone!SessionExpired, SessionExpired
<1>7. \A s, n : Alone!CleanupSession(s, n) = CleanupSession(s, n)
  BY <1>2, <1>6 DEF Alone!CleanupSession, CleanupSession
<1>8. \A n : Alone!NewSession(n) = NewSession(n)
  BY DEF Alone!NewSession, NewSession, Alone!NewParticipant, NewParticipant
<1>9. /\ \A s, n : Alone!Removable(s, n) = Removable(s, n)
      /\ \A s : Alone!Outcome(s) = Outcome(s)
  BY DEF Alone!Removable, Removable, Alone!Outcome, Outcome
<1>10. QED
  BY <1>5, <1>7, <1>8, <1>9

\* the same handlers,
LEMMA SameHandlers ==
    /\ \A s, p : Alone!CanMarkDisconnected(s, p) <=> CanMarkDisconnected(s, p)
    /\ \A s, p, n : Alone!MarkDisconnected(s, p, n) = MarkDisconnected(s, p, n)
    /\ \A s, p, n : Alone!CanHeartbeat(s, p, n) <=> CanHeartbeat(s, p, n)
    /\ \A s, p, n : Alone!HeartbeatSession(s, p, n) = HeartbeatSession(s, p, n)
    /\ \A s, p, a, n : Alone!CanReconnect(s, p, a, n) <=> CanReconnect(s, p, a, n)
    /\ \A s, p, a, n : Alone!ReconnectSession(s, p, a, n) = ReconnectSession(s, p, a, n)
    /\ \A s, n : Alone!CanComplete(s, n) <=> CanComplete(s, n)
    /\ \A s, p, n : Alone!CompleteSession(s, p, n) = CompleteSession(s, p, n)
    /\ \A s, g, n : Alone!CanAdvanceTransport(s, g, n) <=> CanAdvanceTransport(s, g, n)
    /\ \A s : Alone!AdvanceTransportAttempt(s) = AdvanceTransportAttempt(s)
    /\ \A s, p, n : Alone!LeaveSession(s, p, n) = LeaveSession(s, p, n)
<1> USE SameSets, SameSweep
<1>1. \A s, n : Alone!TokenAccepted(s, n) <=> TokenAccepted(s, n)
  BY DEF Alone!TokenAccepted, TokenAccepted
<1>2. /\ \A s, p : Alone!CanMarkDisconnected(s, p) <=> CanMarkDisconnected(s, p)
      /\ \A s, p, n : Alone!MarkDisconnected(s, p, n) = MarkDisconnected(s, p, n)
  BY DEF Alone!CanMarkDisconnected, CanMarkDisconnected, Alone!MarkDisconnected, MarkDisconnected
<1>3. /\ \A s, p, n : Alone!CanHeartbeat(s, p, n) <=> CanHeartbeat(s, p, n)
      /\ \A s, p, n : Alone!HeartbeatSession(s, p, n) = HeartbeatSession(s, p, n)
  BY <1>1 DEF Alone!CanHeartbeat, CanHeartbeat, Alone!HeartbeatSession, HeartbeatSession
<1>4. /\ \A s, p, a, n : Alone!CanReconnect(s, p, a, n) <=> CanReconnect(s, p, a, n)
      /\ \A s, p, a, n : Alone!ReconnectSession(s, p, a, n) = ReconnectSession(s, p, a, n)
  BY <1>1 DEF Alone!CanReconnect, CanReconnect, Alone!ReconnectSession, ReconnectSession
<1>5. /\ \A s, n : Alone!CanComplete(s, n) <=> CanComplete(s, n)
      /\ \A s, p, n : Alone!CompleteSession(s, p, n) = CompleteSession(s, p, n)
  BY <1>1 DEF Alone!CanComplete, CanComplete, Alone!CompleteSession, CompleteSession
<1>6. /\ \A s, g, n : Alone!CanAdvanceTransport(s, g, n) <=> CanAdvanceTransport(s, g, n)
      /\ \A s : Alone!AdvanceTransportAttempt(s) = AdvanceTransportAttempt(s)
  BY <1>1 DEF Alone!CanAdvanceTransport, CanAdvanceTransport,
     Alone!AdvanceTransportAttempt, AdvanceTransportAttempt
<1>7. \A s, p, n : Alone!LeaveSession(s, p, n) = LeaveSession(s, p, n)
  BY DEF Alone!LeaveSession, LeaveSession
<1>8. QED
  BY <1>2, <1>3, <1>4, <1>5, <1>6, <1>7

\* and the same judgement of a record.
LEMMA SameJudgement ==
    /\ \A q : Alone!DeadlineInBounds(q) <=> DeadlineInBounds(q)
    /\ \A s : Alone!Justified(s) <=> Justified(s)
    /\ \A s, n : Alone!InLifetime(s, n) <=> InLifetime(s, n)
<1> USE SameSets
<1>1. \A q : Alone!DeadlineInBounds(q) <=> DeadlineInBounds(q)
  BY DEF Alone!DeadlineInBounds, DeadlineInBounds
<1>2. \A s : /\ Alone!TimeoutJustified(s) <=> TimeoutJustified(s)
             /\ Alone!ExpiryJustified(s) <=> ExpiryJustified(s)
  BY DEF Alone!TimeoutJustified, TimeoutJustified, Alone!ExpiryJustified, ExpiryJustified,
         Alone!Peer, Peer
<1>3. \A s : Alone!Justified(s) <=> Justified(s)
  BY <1>2 DEF Alone!Justified, Justified
<1>4. \A s, n : Alone!InLifetime(s, n) <=> InLifetime(s, n)
  BY DEF Alone!InLifetime, InLifetime
<1>5. QED
  BY <1>1, <1>3, <1>4

\* The clock, the session record and its presence keep their types.
THEOREM TypeCorrect == SessionSpec => []Alone!TypeOK
<1>1. Alone!Init => Alone!TypeOK
  <2>1. 0 + SessionTtl \in Nat /\ 0 + TokenTtl \in Nat
    BY TimingAssumption
  <2>2. NewParticipant(0) \in Participant
    BY DEF NewParticipant, Participant, NoTime
  <2>3. [p \in Side |-> NewParticipant(0)] \in [Side -> Participant]
    BY <2>2
  <2>4. NewSession(0) \in Session
    BY <2>1, <2>3 DEF NewSession, Session, NoTime
  <2>5. QED
    BY <2>4, SameSets, SameSweep DEF Alone!Init, Alone!TypeOK
<1>2. Alone!TypeOK /\ [Alone!Next]_Alone!vars => Alone!TypeOK'
  <2> SUFFICES ASSUME Alone!TypeOK, [Alone!Next]_Alone!vars PROVE Alone!TypeOK'
    OBVIOUS
  <2>1. Alone!Swept \in Session
    BY CleanupType, SameSets, SameSweep DEF Alone!TypeOK, Alone!Swept
  <2>2. CASE Alone!Tick
    BY <2>2 DEF Alone!Tick, Alone!TypeOK
  <2>3. CASE Alone!Sweep
    <3>1. present' \in BOOLEAN
      <4>1. Alone!Removable(session, clock) \in BOOLEAN
        BY DEF Alone!Removable
      <4>2. QED
        BY <2>3, <4>1, Zenon DEF Alone!Sweep
    <3>2. clock' \in Nat /\ session' \in Alone!Session
      BY <2>3, <2>1, SameSets DEF Alone!Sweep, Alone!TypeOK
    <3>3. QED
      BY <3>1, <3>2 DEF Alone!TypeOK
  <2>4. ASSUME NEW p \in Side, Alone!Disconnect(p) PROVE Alone!TypeOK'
    BY <2>4, <2>1, MarkDisconnectedType, SameSets, SameHandlers
       DEF Alone!Disconnect, Alone!Accepted, Alone!TypeOK
  <2>5. ASSUME NEW p \in Side, Alone!Heartbeat(p) PROVE Alone!TypeOK'
    BY <2>5, <2>1, HeartbeatType, SameSets, SameHandlers
       DEF Alone!Heartbeat, Alone!Accepted, Alone!TypeOK
  <2>6. ASSUME NEW p \in Side, Alone!Complete(p) PROVE Alone!TypeOK'
    BY <2>6, <2>1, CompleteType, SameSets, SameHandlers
       DEF Alone!Complete, Alone!Accepted, Alone!TypeOK
  <2>7. ASSUME NEW p \in Side, Alone!Leave(p) PROVE Alone!TypeOK'
    BY <2>7, <2>1, LeaveType, SameSets, SameHandlers
       DEF Alone!Leave, Alone!Accepted, Alone!TypeOK
  <2>8. ASSUME NEW p \in Side, NEW a \in AttemptId, Alone!Reconnect(p, a)
        PROVE  Alone!TypeOK'
    BY <2>8, <2>1, ReconnectType, SameSets, SameHandlers
       DEF Alone!Reconnect, Alone!Accepted, Alone!TypeOK
  <2>9. ASSUME NEW g \in 1..Generations, Alone!AdvanceTransport(g)
        PROVE  Alone!TypeOK'
    BY <2>9, <2>1, AdvanceTransportType, SameSets, SameHandlers
       DEF Alone!AdvanceTransport, Alone!Accepted, Alone!TypeOK
  <2>10. CASE UNCHANGED Alone!vars
    BY <2>10 DEF Alone!vars, Alone!TypeOK
  <2>11. QED
    BY <2>2, <2>3, <2>4, <2>5, <2>6, <2>7, <2>8, <2>9, <2>10, SameSets
       DEF Alone!Next
<1>3. QED
  BY <1>1, <1>2, PTL DEF SessionSpec, Alone!Spec

-----------------------------------------------------------------------------
(* Once an outcome is due it stands.                                       *)

\* No call that arrives after the outcome of the session is due, swept or
\* not, changes it: every handler looks at what cleanup left and refuses.
THEOREM LateCallCannotRescueHolds == SessionSpec => LateCallCannotRescue
<1> DEFINE Stands == Alone!Swept.status = "resolved" =>
                       \/ session' = session
                       \/ Alone!Outcome(session') = Alone!Outcome(Alone!Swept)
<1>1. [Alone!Next]_Alone!vars => [Stands]_Alone!vars
  <2> SUFFICES ASSUME Alone!Next, Alone!Swept.status = "resolved"
               PROVE  \/ session' = session
                      \/ Alone!Outcome(session') = Alone!Outcome(Alone!Swept)
    BY DEF Alone!vars
  <2>1. "active" # "resolved"
    OBVIOUS
  <2>2. CASE Alone!Tick
    BY <2>2 DEF Alone!Tick
  <2>3. CASE Alone!Sweep
    BY <2>3 DEF Alone!Sweep
  <2>4. ASSUME NEW p \in Side,
               \/ Alone!Disconnect(p) \/ Alone!Heartbeat(p)
               \/ Alone!Complete(p) \/ Alone!Leave(p)
        PROVE  FALSE
    BY <2>4, <2>1, SameHandlers
       DEF Alone!Disconnect, Alone!Heartbeat, Alone!Complete, Alone!Leave,
           CanMarkDisconnected, CanHeartbeat, CanComplete
  <2>5. ASSUME NEW p \in Side, NEW a \in AttemptId, Alone!Reconnect(p, a)
        PROVE  FALSE
    BY <2>5, <2>1, SameHandlers DEF Alone!Reconnect, CanReconnect
  <2>6. ASSUME NEW g \in 1..Generations, Alone!AdvanceTransport(g) PROVE FALSE
    BY <2>6, <2>1, SameHandlers DEF Alone!AdvanceTransport, CanAdvanceTransport
  <2>7. QED
    BY <2>2, <2>3, <2>4, <2>5, <2>6, SameSets DEF Alone!Next
<1>2. QED
  BY <1>1, PTL DEF SessionSpec, Alone!Spec, LateCallCannotRescue,
     Alone!LateCallCannotRescue

-----------------------------------------------------------------------------
(* The inductive invariant: the record is a session, and a sound one.      *)

IInv == Alone!TypeOK /\ Sound(session, clock)

\* A new session is sound.
LEMMA InitSound == Alone!Init => Sound(session, clock)
<1> SUFFICES ASSUME Alone!Init PROVE Sound(session, clock)
  OBVIOUS
<1>1. /\ session.status = "active" /\ session.createdAt = 0 /\ clock = 0
      /\ session.expiresAt = 0 + SessionTtl
      /\ \A p \in Side : session.part[p] = NewParticipant(0)
  BY SameSweep DEF Alone!Init, NewSession
<1>2. SoundPlayer(NewParticipant(0), 0, 0)
  BY DEF NewParticipant, SoundPlayer, DeadlineInBounds
<1>3. QED
  BY <1>1, <1>2, TimingAssumption DEF Sound

\* Every step keeps the session sound, whatever its players do and however
\* late it is swept.
LEMMA NextSound == IInv /\ [Alone!Next]_Alone!vars => Sound(session, clock)'
<1> SUFFICES ASSUME IInv, [Alone!Next]_Alone!vars PROVE Sound(session', clock')
  OBVIOUS
<1>1. session \in Session /\ clock \in Nat /\ Sound(session, clock)
  BY SameSets DEF IInv, Alone!TypeOK
<1>2. /\ Alone!Swept \in Session /\ Sound(Alone!Swept, clock)
      /\ Alone!Swept.status = "active" =>
           /\ clock <= Alone!Swept.expiresAt
           /\ \A p \in Side : Alone!Swept.part[p].conn = "connected"
                => clock <= Alone!Swept.part[p].heartbeat + HeartbeatTimeout
  BY <1>1, CleanupSound, SameSweep DEF Alone!Swept
<1>3. CASE Alone!Tick
  BY <1>1, <1>3, LaterSound DEF Alone!Tick
<1>4. CASE Alone!Sweep
  BY <1>2, <1>4 DEF Alone!Sweep
<1>5. ASSUME NEW p \in Side, Alone!Disconnect(p) PROVE Sound(session', clock')
  BY <1>1, <1>2, <1>5, MarkDisconnectedSound, SameHandlers
     DEF Alone!Disconnect, Alone!Accepted, CanMarkDisconnected
<1>6. ASSUME NEW p \in Side, Alone!Heartbeat(p) PROVE Sound(session', clock')
  BY <1>1, <1>2, <1>6, HeartbeatSound, SameHandlers
     DEF Alone!Heartbeat, Alone!Accepted
<1>7. ASSUME NEW p \in Side, Alone!Complete(p) PROVE Sound(session', clock')
  BY <1>1, <1>2, <1>7, CompleteSound, SameHandlers
     DEF Alone!Complete, Alone!Accepted, CanComplete
<1>8. ASSUME NEW p \in Side, Alone!Leave(p) PROVE Sound(session', clock')
  BY <1>1, <1>2, <1>8, LeaveSound, SameHandlers DEF Alone!Leave, Alone!Accepted
<1>9. ASSUME NEW p \in Side, NEW a \in AttemptId, Alone!Reconnect(p, a)
      PROVE  Sound(session', clock')
  BY <1>1, <1>2, <1>9, ReconnectSound, SameHandlers
     DEF Alone!Reconnect, Alone!Accepted
<1>10. ASSUME NEW g \in 1..Generations, Alone!AdvanceTransport(g)
       PROVE  Sound(session', clock')
  BY <1>1, <1>2, <1>10, AdvanceTransportSound, SameHandlers
     DEF Alone!AdvanceTransport, Alone!Accepted, CanAdvanceTransport
<1>11. CASE UNCHANGED Alone!vars
  BY <1>1, <1>11 DEF Alone!vars
<1>12. QED
  BY <1>3, <1>4, <1>5, <1>6, <1>7, <1>8, <1>9, <1>10, <1>11, SameSets DEF Alone!Next

\* The inductive invariant holds: what every later theorem rests on.
THEOREM IInvHolds == SessionSpec => []IInv
<1>1. Alone!Init => Sound(session, clock)
  BY InitSound
<1>2. Alone!TypeOK /\ Sound(session, clock) /\ [Alone!Next]_Alone!vars
        => Sound(session, clock)'
  BY NextSound DEF IInv
<1>3. QED
  BY <1>1, <1>2, TypeCorrect, PTL DEF SessionSpec, Alone!Spec, IInv

\* Deadlines, for every timing configuration: a full grace period after the
\* last contact, and never beyond the heartbeat timeout plus the grace.
THEOREM DeadlineBoundsHolds == SessionSpec => []Alone!DeadlineBounds
<1>1. IInv => Alone!DeadlineBounds
  BY SameSets, SameJudgement DEF IInv, Sound, SoundPlayer, Alone!DeadlineBounds
<1>2. QED
  BY <1>1, IInvHolds, PTL

\* Every outcome is justified by the record, for every timing configuration.
THEOREM OutcomeJustifiedHolds == SessionSpec => []OutcomeJustified
<1>1. IInv => OutcomeJustified
  BY SameJudgement DEF IInv, Sound, OutcomeJustified, Alone!OutcomeJustified
<1>2. QED
  BY <1>1, IInvHolds, PTL

\* Sessions are resolved within their lifetime, however late the sweep.
THEOREM ResolvedInLifetimeHolds == SessionSpec => []Alone!ResolvedInLifetime
<1>1. IInv => Alone!ResolvedInLifetime
  BY SameJudgement DEF IInv, Sound, Alone!ResolvedInLifetime
<1>2. QED
  BY <1>1, IInvHolds, PTL

-----------------------------------------------------------------------------
(* When cleanup runs does not matter.                                      *)

\* cleanup may run at any moments: the outcome is that of one late sweep,
\* for every timing configuration.
THEOREM SweepScheduleIrrelevantHolds == SessionSpec => []SweepScheduleIrrelevant
<1>1. IInv => SweepScheduleIrrelevant
  <2> SUFFICES ASSUME IInv,
                      NEW t1 \in clock..(EndTime + 1), NEW t2 \in t1..(EndTime + 1)
               PROVE  Outcome(CleanupSession(CleanupSession(session, t1), t2))
                        = Outcome(CleanupSession(session, t2))
    BY SameSweep DEF SweepScheduleIrrelevant, Alone!SweepScheduleIrrelevant
  <2>1. /\ session \in Session
        /\ \A p \in Side : DeadlineInBounds(session.part[p])
    BY SameSets DEF IInv, Alone!TypeOK, Sound, SoundPlayer
  <2>2. t1 \in Nat /\ t2 \in Nat /\ t1 <= t2
    BY AloneAssumption DEF Alone!BoundAssumption, IInv, Alone!TypeOK
  <2>3. QED
    BY <2>1, <2>2, CleanupTwice
<1>2. QED
  BY <1>1, IInvHolds, PTL

=============================================================================
