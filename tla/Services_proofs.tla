--------------------------- MODULE Services_proofs ---------------------------
(***************************************************************************)
(* What holds of the services of the API for every value of their          *)
(* constants.  The lease (RequestLease): one request at a time owns it and *)
(* the memory changes under it alone; every connection is given back;      *)
(* without hang-ups nothing stored is lost, and what was answered is       *)
(* stored.  The scheduler (WorkScheduler): no due decision is overlooked.  *)
(* A private room (RoomLobby): its record stays one that the calls of its  *)
(* participants explain, with one outcome for every session.               *)
(***************************************************************************)
EXTENDS MCServices, FiniteSetTheorems, TLAPS

(* The types the steps rest on. *)
Types ==
    /\ waiting \in [Process -> Seq(Request)]
    /\ lock \in Coordinated \cup {NoRequest}
    /\ stage \in [Request -> Stage]
    /\ final \in [Request -> Final]
    /\ answer \in [Request -> {"none", "ok", "busy", "failed"}]
    /\ captured \in [Request -> Snapshot]
    /\ memory \in [Process -> Snapshot]
    /\ persisted \in [Process -> Snapshot]
    /\ stored \in Snapshot

Asking == {"connect", "account", "auditing"}

(* Who waits in a pool's line waits there once, for a connection. *)
Lines ==
    \A p \in Process :
        /\ \A i \in 1..Len(waiting[p]) :
              ServedBy[waiting[p][i]] = p /\ stage[waiting[p][i]] \in Asking
        /\ \A i, j \in 1..Len(waiting[p]) : waiting[p][i] = waiting[p][j] => i = j

Leased == {"loading", "account", "checking", "handling", "sending"}

Holds(r) == stage[r] \in Leased /\ final[r] # "over"

(* A lease is taken by a coordinated request, and finalized after that. *)
Finalizing ==
    \A r \in Request :
        /\ final[r] \in {"capture", "save", "release"} => stage[r] \in Leased
        /\ final[r] = "over" => stage[r] \in {"account", "checking", "handling", "sending", "ended"}
        /\ stage[r] \in {"trying"} \cup Leased => r \in Coordinated

(* The lock is the one of the request that is between taking its lease and *)
(* having it released.                                                     *)
Owned == \A r \in Request : Holds(r) <=> lock = r

LeaseInv == Types /\ Lines /\ Finalizing /\ Owned

-----------------------------------------------------------------------------
(* What the steps use of the constants. *)
LEMMA Constants ==
    /\ Coordinated \subseteq Request /\ NoRequest \notin Request
    /\ Coordinated \cap SignIn = {}
    /\ Sweep \notin Coordinated
    /\ ServedBy \in [Request -> Process]
BY LeaseAssumption DEF LeaseAssumption, Request

(* A request that has just asked is last in its line. *)
LEMMA AskKeepsLines ==
    ASSUME Types, Lines, NEW r \in Request, stage[r] \notin Asking,
           Ask(r), NEW s \in Asking, To(r, s)
    PROVE  Lines' /\ waiting' \in [Process -> Seq(Request)]
<1> USE Constants
<1> DEFINE p == ServedBy[r]
<1>1. p \in Process /\ waiting' = [waiting EXCEPT ![p] = Append(@, r)]
  BY DEF Ask
<1>2. waiting' \in [Process -> Seq(Request)]
  BY <1>1 DEF Types
<1>3. ASSUME NEW q \in Process PROVE
        /\ \A i \in 1..Len(waiting'[q]) :
              ServedBy[waiting'[q][i]] = q /\ stage'[waiting'[q][i]] \in Asking
        /\ \A i, j \in 1..Len(waiting'[q]) : waiting'[q][i] = waiting'[q][j] => i = j
  <2>1. CASE q # p
    <3>1. waiting'[q] = waiting[q]
      BY <1>1, <2>1 DEF Types
    <3>2. \A i \in 1..Len(waiting[q]) : waiting[q][i] \in Request /\ waiting[q][i] # r
      BY <2>1, <1>3 DEF Types, Lines
    <3> QED BY <3>1, <3>2, <1>3 DEF Types, Lines, To
  <2>2. CASE q = p
    <3>1. waiting'[p] = Append(waiting[p], r) /\ waiting[p] \in Seq(Request)
      BY <1>1 DEF Types
    <3>2. \A i \in 1..Len(waiting[p]) : waiting[p][i] \in Request /\ waiting[p][i] # r
      BY <1>1, <3>1 DEF Lines
    <3>3. \A i \in 1..Len(waiting'[p]) : \/ i \in 1..Len(waiting[p]) /\ waiting'[p][i] = waiting[p][i]
                                         \/ i = Len(waiting[p]) + 1 /\ waiting'[p][i] = r
      BY <3>1
    <3>4. stage'[r] = s /\ \A x \in Request : x # r => stage'[x] = stage[x]
      BY DEF To, Types
    <3>5. ServedBy[r] = p
      OBVIOUS
    <3> HIDE DEF p
    <3>6. \A i \in 1..Len(waiting[p]) : ServedBy[waiting[p][i]] = p /\ stage[waiting[p][i]] \in Asking
      BY <1>1 DEF Lines
    <3>7. \A i, j \in 1..Len(waiting[p]) : waiting[p][i] = waiting[p][j] => i = j
      BY <1>1 DEF Lines
    <3> QED BY <2>2, <3>2, <3>3, <3>4, <3>5, <3>6, <3>7
  <2> QED BY <2>1, <2>2
<1> QED BY <1>2, <1>3 DEF Lines

(* A step that leaves the lines alone and moves no request that stands in  *)
(* one keeps them.                                                         *)
LEMMA OthersKeepLines ==
    ASSUME Types, Lines, NEW r \in Request, stage[r] \notin Asking,
           UNCHANGED waiting, NEW s \in Stage, To(r, s)
    PROVE  Lines'
<1>1. \A x \in Request : x # r => stage'[x] = stage[x]
  BY DEF To, Types
<1>2. \A p \in Process : \A i \in 1..Len(waiting[p]) : waiting[p][i] \in Request /\ waiting[p][i] # r
  BY DEF Types, Lines
<1> QED BY <1>1, <1>2 DEF Lines

(* The head of a line asks for a connection. *)
LEMMA HeadAsks ==
    ASSUME Types, Lines, NEW p \in Process, waiting[p] # <<>>
    PROVE  LET r == Head(waiting[p])
           IN  r \in Request /\ stage[r] \in Asking /\ ServedBy[r] = p
<1>1. waiting[p] \in Seq(Request) /\ Len(waiting[p]) >= 1
  BY DEF Types
<1>2. Head(waiting[p]) = waiting[p][1]
  BY <1>1
<1> QED BY <1>1, <1>2 DEF Lines

(* The line that is served loses its head alone. *)
LEMMA ServeKeepsLines ==
    ASSUME Types, Lines, NEW p \in Process, waiting[p] # <<>>,
           waiting' = [waiting EXCEPT ![p] = Tail(@)],
           NEW s \in Stage, To(Head(waiting[p]), s)
    PROVE  Lines' /\ waiting' \in [Process -> Seq(Request)]
<1> DEFINE r == Head(waiting[p])
<1>1. waiting[p] \in Seq(Request) /\ Len(waiting[p]) >= 1
  BY DEF Types
<1>2. r = waiting[p][1] /\ r \in Request /\ ServedBy[r] = p
  BY <1>1, HeadAsks
<1>3. /\ waiting'[p] \in Seq(Request) /\ Len(waiting'[p]) = Len(waiting[p]) - 1
      /\ \A i \in 1..Len(waiting'[p]) : waiting'[p][i] = waiting[p][i + 1]
  BY <1>1 DEF Types
<1>4. \A q \in Process : q # p => waiting'[q] = waiting[q]
  BY DEF Types
<1>5. \A x \in Request : x # r => stage'[x] = stage[x]
  BY <1>2 DEF To, Types
<1>6. waiting' \in [Process -> Seq(Request)]
  BY <1>3, <1>4 DEF Types
<1> HIDE DEF r
<1>7. ASSUME NEW q \in Process PROVE
        /\ \A i \in 1..Len(waiting'[q]) :
              ServedBy[waiting'[q][i]] = q /\ stage'[waiting'[q][i]] \in Asking
        /\ \A i, j \in 1..Len(waiting'[q]) : waiting'[q][i] = waiting'[q][j] => i = j
  <2>1. CASE q # p
    <3>1. \A i \in 1..Len(waiting[q]) : waiting[q][i] \in Request /\ waiting[q][i] # r
      BY <2>1, <1>2, <1>7 DEF Types, Lines
    <3> QED BY <2>1, <3>1, <1>4, <1>5, <1>7 DEF Lines
  <2>2. CASE q = p
    <3>1. \A i \in 1..Len(waiting'[p]) : i + 1 \in 1..Len(waiting[p]) /\ i + 1 # 1
      BY <1>1, <1>3
    <3>2. \A i \in 1..Len(waiting'[p]) : waiting'[p][i] \in Request /\ waiting'[p][i] # r
      BY <1>1, <1>2, <1>3, <3>1 DEF Lines
    <3>3. ASSUME NEW i \in 1..Len(waiting'[p])
          PROVE  ServedBy[waiting'[p][i]] = p /\ stage'[waiting'[p][i]] \in Asking
      <4>1. ServedBy[waiting[p][i + 1]] = p /\ stage[waiting[p][i + 1]] \in Asking
        BY <3>1, <3>3 DEF Lines
      <4> QED BY <4>1, <1>3, <1>5, <3>2, <3>3
    <3>4. \A i, j \in 1..Len(waiting'[p]) : waiting'[p][i] = waiting'[p][j] => i + 1 = j + 1
      BY <1>3, <3>1 DEF Lines
    <3>5. \A i, j \in 1..Len(waiting'[p]) : i + 1 = j + 1 => i = j
      BY <1>3
    <3>6. /\ \A i \in 1..Len(waiting'[p]) :
                ServedBy[waiting'[p][i]] = p /\ stage'[waiting'[p][i]] \in Asking
          /\ \A i, j \in 1..Len(waiting'[p]) : waiting'[p][i] = waiting'[p][j] => i = j
      <4>1. \A i \in 1..Len(waiting'[p]) :
               ServedBy[waiting'[p][i]] = p /\ stage'[waiting'[p][i]] \in Asking
        BY <3>3
      <4>2. \A i, j \in 1..Len(waiting'[p]) : waiting'[p][i] = waiting'[p][j] => i = j
        <5> SUFFICES ASSUME NEW i \in 1..Len(waiting'[p]), NEW j \in 1..Len(waiting'[p]),
                            waiting'[p][i] = waiting'[p][j]
                     PROVE  i = j
          OBVIOUS
        <5> QED BY <3>4, <3>5
      <4> QED BY <4>1, <4>2
    <3> QED BY <2>2, <3>6
  <2> QED BY <2>1, <2>2
<1> QED BY <1>6, <1>7 DEF Lines

-----------------------------------------------------------------------------
(* With no request, nobody holds a connection, waits or owns the lease.     *)
LEMMA LeaseInvInit == Init => LeaseInv
<1> USE Constants
<1> SUFFICES ASSUME Init PROVE LeaseInv
  OBVIOUS
<1>2. Types
  BY DEF Init, Types, Stage, Final, Snapshot
<1>3. Lines
  BY DEF Init, Lines
<1>4. Finalizing /\ Owned
  BY DEF Init, Finalizing, Owned, Holds, Leased
<1> QED BY <1>2, <1>3, <1>4 DEF LeaseInv

(* Every step keeps who owns the lease. *)
LEMMA LeaseInvNext == LeaseInv /\ [Next]_vars => LeaseInv'
<1> USE Constants
<1> SUFFICES ASSUME LeaseInv, [Next]_vars PROVE LeaseInv'
  OBVIOUS
<1> USE DEF LeaseInv
<1>1. ASSUME NEW p \in Process, Serve(p) PROVE LeaseInv'
  <2> DEFINE r == Head(waiting[p])
  <2>1. r \in Request /\ stage[r] \in Asking
    BY <1>1, HeadAsks DEF Serve
  <2>2. PICK s \in {"trying", "checking", "audited", "signing"} :
           /\ To(r, s)
           /\ s = "checking" => stage[r] = "account"
           /\ stage[r] = "account" => s = "checking"
           /\ s = "trying" => r \in Coordinated
    BY <1>1, <2>1 DEF Serve, Granted, Asking, Request
  <2>3. waiting[p] # <<>> /\ waiting' = [waiting EXCEPT ![p] = Tail(@)]
    BY <1>1 DEF Serve
  <2>4. Lines' /\ waiting' \in [Process -> Seq(Request)]
    BY <2>2, <2>3, ServeKeepsLines DEF Stage
  <2> HIDE DEF r
  <2>5. Types'
    BY <1>1, <2>1, <2>2, <2>4 DEF Serve, Types, To, state, Stage
  <2>6. Finalizing' /\ Owned'
    BY <1>1, <2>1, <2>2 DEF Serve, Finalizing, Owned, Holds, Leased, To, Types, Asking, Stage
  <2> QED BY <2>4, <2>5, <2>6
<1>2. ASSUME NEW r \in Request, Connect(r) PROVE LeaseInv'
  <2>1. Lines' /\ waiting' \in [Process -> Seq(Request)]
    BY <1>2, AskKeepsLines DEF Connect, Asking
  <2>2. Types'
    BY <1>2, <2>1 DEF Connect, Types, To, state, Stage
  <2>3. Finalizing' /\ Owned'
    BY <1>2 DEF Connect, Finalizing, Owned, Holds, Leased, To, Types
  <2> QED BY <2>1, <2>2, <2>3
<1>3. ASSUME NEW r \in Request, TryLock(r) PROVE LeaseInv'
  <2>1. Lines'
    BY <1>3, OthersKeepLines DEF TryLock, pool, Stage, Asking
  <2>2. r \in Coordinated
    BY <1>3 DEF TryLock, Finalizing
  <2>3. Types'
    BY <1>3, <2>2 DEF TryLock, Types, To, state, Stage, pool
  <2>4. Finalizing' /\ Owned'
    BY <1>3, <2>2 DEF TryLock, Finalizing, Owned, Holds, Leased, To, Types
  <2> QED BY <2>1, <2>3, <2>4
<1>4. ASSUME NEW r \in Request, Contend(r) PROVE LeaseInv'
  <2>1. Lines'
    BY <1>4, OthersKeepLines DEF Contend, pool, Stage, Asking
  <2>2. Types'
    <3>0. PICK goal \in {"sleeping", "ended"} : stage' = [stage EXCEPT ![r] = goal]
      BY <1>4 DEF Contend, To
    <3>1. stage' \in [Request -> Stage]
      <4>1. goal \in Stage
        BY DEF Stage
      <4>2. stage \in [Request -> Stage]
        BY DEF Types
      <4> QED BY <3>0, <4>1, <4>2
    <3>2. answer' \in [Request -> {"none", "ok", "busy", "failed"}]
      BY <1>4 DEF Contend, Types
    <3> QED BY <1>4, <3>1, <3>2 DEF Contend, Types, state
  <2>3. Finalizing' /\ Owned'
    BY <1>4 DEF Contend, Finalizing, Owned, Holds, Leased, To, Types
  <2> QED BY <2>1, <2>2, <2>3
<1>5. ASSUME NEW r \in Request, Load(r) PROVE LeaseInv'
  <2>1. Lines' /\ waiting' \in [Process -> Seq(Request)]
    BY <1>5, AskKeepsLines, OthersKeepLines DEF Load, Stage, Asking, Types
  <2>2. Types'
    BY <1>5, <2>1 DEF Load, Types, To, state, Stage
  <2>3. Finalizing' /\ Owned'
    BY <1>5 DEF Load, Finalizing, Owned, Holds, Leased, To, Types
  <2> QED BY <2>1, <2>2, <2>3
<1>6. ASSUME NEW r \in Request, LoadFails(r) PROVE LeaseInv'
  <2>1. Lines'
    BY <1>6, OthersKeepLines DEF LoadFails, pool, Stage, Asking
  <2>2. Types'
    BY <1>6 DEF LoadFails, Types, To, state, Stage, pool, Final
  <2>3. Finalizing' /\ Owned'
    BY <1>6 DEF LoadFails, Finalizing, Owned, Holds, Leased, To, Types
  <2> QED BY <2>1, <2>2, <2>3
<1>7. ASSUME NEW r \in Request, Checked(r) PROVE LeaseInv'
  <2>1. Lines'
    BY <1>7, OthersKeepLines DEF Checked, pool, Stage, Asking
  <2>2. Types'
    <3>1. stage' \in [Request -> Stage] /\ answer' \in [Request -> {"none", "ok", "busy", "failed"}]
      BY <1>7 DEF Checked, Types, To, Stage
    <3> QED BY <1>7, <3>1 DEF Checked, Types, state
  <2>3. Finalizing' /\ Owned'
    <3>1. PICK s \in {"handling", "sending"} : stage' = [stage EXCEPT ![r] = s]
      BY <1>7 DEF Checked, To
    <3>2. \A q \in Request : stage'[q] = IF q = r THEN s ELSE stage[q]
      BY <3>1 DEF Types
    <3>3. stage[r] = "checking" /\ final' = final /\ lock' = lock
      BY <1>7 DEF Checked
    <3>4. Finalizing'
      BY <3>2, <3>3 DEF Finalizing, Leased
    <3>5. Owned'
      BY <3>2, <3>3 DEF Owned, Holds, Leased
    <3> QED BY <3>4, <3>5
  <2> QED BY <2>1, <2>2, <2>3
<1>8. ASSUME NEW r \in Request, Handle(r) PROVE LeaseInv'
  <2>1. Lines'
    BY <1>8, OthersKeepLines DEF Handle, pool, Stage, Asking
  <2>2. Types'
    <3>1. r \in Coordinated
      BY <1>8 DEF Handle, Finalizing, Leased
    <3>2. memory' \in [Process -> Snapshot] /\ answer' \in [Request -> {"none", "ok", "busy", "failed"}]
      <4>1. ServedBy[r] \in Process /\ memory[ServedBy[r]] \cup {r} \in Snapshot
        BY <3>1 DEF Types, Snapshot
      <4>2. memory' = memory \/ memory' = [memory EXCEPT ![ServedBy[r]] = memory[ServedBy[r]] \cup {r}]
        BY <1>8 DEF Handle
      <4>3. answer' \in [Request -> {"none", "ok", "busy", "failed"}]
        BY <1>8 DEF Handle, Types
      <4>4. memory \in [Process -> Snapshot]
        BY DEF Types
      <4>5. memory' \in [Process -> Snapshot]
        BY <4>1, <4>2, <4>4
      <4> QED BY <4>3, <4>5
    <3> QED BY <1>8, <3>2 DEF Handle, Types, To, Stage, pool
  <2>3. Finalizing' /\ Owned'
    BY <1>8 DEF Handle, Finalizing, Owned, Holds, Leased, To, Types
  <2> QED BY <2>1, <2>2, <2>3
<1>9. ASSUME NEW r \in Request, Abort(r) PROVE LeaseInv'
  <2>1. Lines'
    BY <1>9 DEF Abort, pool, Lines
  <2>2. Types'
    BY <1>9 DEF Abort, Types, state, pool, Final, Snapshot
  <2>3. Finalizing' /\ Owned'
    BY <1>9 DEF Abort, Finalizing, Owned, Holds, Leased, Types
  <2> QED BY <2>1, <2>2, <2>3
<1>10. ASSUME NEW r \in Request, Send(r) PROVE LeaseInv'
  <2>1. Lines'
    BY <1>10 DEF Send, pool, Lines
  <2>2. Types'
    BY <1>10 DEF Send, Types, state, pool, Final, Snapshot
  <2>3. Finalizing' /\ Owned'
    BY <1>10 DEF Send, Finalizing, Owned, Holds, Leased, Types
  <2> QED BY <2>1, <2>2, <2>3
<1>11. ASSUME NEW r \in Request, Capture(r) PROVE LeaseInv'
  <2>1. Lines'
    BY <1>11 DEF Capture, pool, Lines
  <2>2. Types'
    BY <1>11 DEF Capture, Types, state, pool, Final, Snapshot
  <2>3. Finalizing' /\ Owned'
    BY <1>11 DEF Capture, Finalizing, Owned, Holds, Leased, Types
  <2> QED BY <2>1, <2>2, <2>3
<1>12. ASSUME NEW r \in Request, Save(r) PROVE LeaseInv'
  <2>1. Lines'
    BY <1>12 DEF Save, pool, Lines
  <2>2. Types'
    BY <1>12 DEF Save, Types, state, pool, Final, Snapshot
  <2>3. Finalizing' /\ Owned'
    BY <1>12 DEF Save, Finalizing, Owned, Holds, Leased, Types
  <2> QED BY <2>1, <2>2, <2>3
<1>13. ASSUME NEW r \in Request, SaveFails(r) PROVE LeaseInv'
  <2>1. Lines'
    BY <1>13 DEF SaveFails, pool, Lines
  <2>2. Types'
    BY <1>13 DEF SaveFails, Types, state, pool, Final, Snapshot
  <2>3. Finalizing' /\ Owned'
    BY <1>13 DEF SaveFails, Finalizing, Owned, Holds, Leased, Types
  <2> QED BY <2>1, <2>2, <2>3
<1>14. ASSUME NEW r \in Request, Release(r) PROVE LeaseInv'
  <2>1. Lines'
    BY <1>14 DEF Release, pool, Lines
  <2>2. Types'
    BY <1>14 DEF Release, Types, state, pool, Final, Snapshot
  <2>3. Finalizing' /\ Owned'
    BY <1>14 DEF Release, Finalizing, Owned, Holds, Leased, Types
  <2> QED BY <2>1, <2>2, <2>3
<1>15. ASSUME NEW r \in Request, Answer(r) PROVE LeaseInv'
  <2>1. Lines'
    BY <1>15, OthersKeepLines DEF Answer, pool, Stage, Asking
  <2>2. Types'
    BY <1>15 DEF Answer, Types, To, state, Stage, pool, Final
  <2>3. Finalizing' /\ Owned'
    BY <1>15 DEF Answer, Finalizing, Owned, Holds, Leased, To, Types
  <2> QED BY <2>1, <2>2, <2>3
<1>16. ASSUME NEW r \in Request, Audit(r) PROVE LeaseInv'
  <2>1. Lines' /\ waiting' \in [Process -> Seq(Request)]
    BY <1>16, AskKeepsLines, OthersKeepLines DEF Audit, Stage, Asking, Types
  <2>2. Types'
    BY <1>16, <2>1 DEF Audit, Types, To, state, Stage
  <2>3. Finalizing' /\ Owned'
    BY <1>16 DEF Audit, Finalizing, Owned, Holds, Leased, To, Types
  <2> QED BY <2>1, <2>2, <2>3
<1>17. ASSUME NEW r \in Request, SignedIn(r) PROVE LeaseInv'
  <2>1. Lines'
    BY <1>17, OthersKeepLines DEF SignedIn, pool, Stage, Asking
  <2>2. Types'
    BY <1>17 DEF SignedIn, Types, To, state, Stage, pool, Final
  <2>3. Finalizing' /\ Owned'
    BY <1>17 DEF SignedIn, Finalizing, Owned, Holds, Leased, To, Types
  <2> QED BY <2>1, <2>2, <2>3
<1>18. CASE UNCHANGED vars
  <2>1. Types' /\ Lines'
    BY <1>18 DEF vars, pool, state, Types, Lines
  <2>2. Finalizing' /\ Owned'
    BY <1>18 DEF vars, Finalizing, Owned, Holds
  <2> QED BY <2>1, <2>2
<1> QED
  BY <1>1, <1>2, <1>3, <1>4, <1>5, <1>6, <1>7, <1>8, <1>9, <1>10, <1>11, <1>12, <1>13, <1>14,
     <1>15, <1>16, <1>17, <1>18 DEF Next, Advance

(* One request at a time owns the lease, from the moment it takes the lock *)
(* to its release; whoever waits for a connection waits once.              *)
THEOREM LeaseHolds == Spec => []LeaseInv
<1>1. Init => LeaseInv
  BY LeaseInvInit
<1>2. LeaseInv /\ [Next]_vars => LeaseInv'
  BY LeaseInvNext
<1> QED BY <1>1, <1>2, PTL DEF Spec

-----------------------------------------------------------------------------
(* A step that adds a request's mutation to a memory is taken under that   *)
(* request's lease.                                                        *)
LEMMA MutationsAreLeasedStep ==
    ASSUME LeaseInv, [Next]_vars,
           NEW r \in Coordinated, NEW p \in Process, r \in memory'[p] \ (memory[p] \cup stored)
    PROVE  lock = r
<1> USE Constants DEF LeaseInv
<1>1. ASSUME NEW x \in Request, Load(x) PROVE lock = r
  BY <1>1 DEF Load, Types
<1>2. ASSUME NEW x \in Request, Handle(x) PROVE lock = r
  <2>1. x = r /\ final[x] = "none" /\ stage[x] = "handling"
    <3>1. final[x] = "none" /\ stage[x] = "handling"
      BY <1>2 DEF Handle
    <3>2. CASE memory' = memory
      BY <3>2
    <3>3. CASE memory' = [memory EXCEPT ![ServedBy[x]] = @ \cup {x}]
      <4>1. p # ServedBy[x] => memory'[p] = memory[p]
        BY <3>3 DEF Types
      <4>2. p = ServedBy[x] => memory'[p] = memory[p] \cup {x}
        BY <3>3 DEF Types
      <4> QED BY <4>1, <4>2, <3>1
    <3> QED BY <1>2, <3>1, <3>2, <3>3 DEF Handle
  <2> QED BY <2>1 DEF Owned, Holds, Leased
<1>3. ASSUME NEW x \in Request, Capture(x) PROVE lock = r
  BY <1>3 DEF Capture, Types
<1>4. CASE UNCHANGED memory
  BY <1>4
<1>5. ASSUME NEW x \in Request,
             \/ Connect(x) \/ TryLock(x) \/ Contend(x) \/ Checked(x) \/ Send(x) \/ Save(x)
             \/ Release(x) \/ Answer(x) \/ Audit(x) \/ SignedIn(x) \/ Abort(x) \/ LoadFails(x) \/ SaveFails(x)
      PROVE  UNCHANGED memory
  BY <1>5 DEF Connect, TryLock, Contend, Checked, Send, Save, Release, Answer, Audit, SignedIn,
              Abort, LoadFails, SaveFails, state
<1>6. ASSUME NEW q \in Process, Serve(q) PROVE UNCHANGED memory
  BY <1>6 DEF Serve, state
<1>7. UNCHANGED vars => UNCHANGED memory
  BY DEF vars, state
<1> QED BY <1>1, <1>2, <1>3, <1>4, <1>5, <1>6, <1>7 DEF Next, Advance

(* Every change of a memory is made under the lease, for any number of     *)
(* processes, requests, hang-ups and faults: MutationsAreLeased.           *)
THEOREM MutationsAreLeasedHolds == Spec => MutationsAreLeased
<1>1. LeaseInv /\ [Next]_vars =>
        [\A r \in Coordinated, p \in Process :
            r \in memory'[p] \ (memory[p] \cup stored) => lock = r]_vars
  BY MutationsAreLeasedStep
<1> QED BY <1>1, LeaseHolds, PTL DEF Spec, MutationsAreLeased

-----------------------------------------------------------------------------
(* When no client hangs up, the snapshot a lease is to write holds         *)
(* everything stored: its process's memory was refreshed under the lease,  *)
(* nobody else wrote since, and its own mutation only added to it.         *)
Fresh ==
    /\ aborts = 0
    /\ \A r \in Request :
        LET p == ServedBy[r]
        IN  /\ final[r] \in {"capture", "save", "release", "over"} => stage[r] \in {"sending", "ended"}
            /\ lock = r /\ stage[r] # "loading" /\ final[r] \in {"none", "capture", "save"} =>
                  persisted[p] = stored
            /\ lock = r /\ stage[r] # "loading" /\ final[r] \in {"none", "capture"} =>
                  stored \subseteq memory[p]
            /\ final[r] = "save" => stored \subseteq captured[r]

(* Where the mutation of a request that is to be told of its success is. *)
Kept ==
    \A r \in Coordinated :
        /\ stage[r] \notin {"signing", "auditing", "audited"}
        /\ answer[r] = "ok" => stage[r] \in {"sending", "ended"}
        /\ answer[r] = "ok" /\ final[r] \in {"none", "capture"} => r \in memory[ServedBy[r]]
        /\ answer[r] = "ok" /\ final[r] = "save" => r \in captured[r]
        /\ answer[r] = "ok" /\ final[r] \in {"release", "over"} => r \in stored
        /\ stage[r] = "ended" /\ answer[r] = "ok" => final[r] = "over"

LossInv == LeaseInv /\ Fresh /\ Kept

(* With nothing stored there is nothing to lose.                            *)
LEMMA LossInvInit == Init => LossInv
<1> USE Constants
<1> SUFFICES ASSUME Init PROVE LossInv
  OBVIOUS
<1>1. Fresh
  BY DEF Init, Fresh
<1>2. Kept
  BY DEF Init, Kept
<1> QED BY <1>1, <1>2, LeaseInvInit DEF LossInv

(* Only the owner of the lease writes the stored snapshot, and it writes   *)
(* one that holds it.                                                      *)
LEMMA SaveKeeps ==
    ASSUME LossInv, NEW x \in Request, Save(x)
    PROVE  lock = x /\ stage[x] = "sending" /\ stored \subseteq captured[x] /\ stored' = captured[x]
<1>1. lock = x
  BY DEF Save, LossInv, LeaseInv, Finalizing, Owned, Holds
<1>2. stage[x] = "sending"
  BY DEF Save, LossInv, LeaseInv, Finalizing, Fresh, Leased
<1> QED BY <1>1, <1>2 DEF Save, LossInv, Fresh

(* A step in which nobody hangs up loses nothing stored or answered.       *)
LEMMA LossInvNext == ASSUME LossInv, [Next]_vars, aborts' = 0 PROVE LossInv'
<1> USE Constants
<1> SUFFICES Fresh' /\ Kept'
  BY LeaseInvNext DEF LossInv
<1>0. Types /\ Finalizing /\ Owned /\ Fresh /\ Kept
  BY DEF LossInv, LeaseInv
<1>1. ASSUME NEW p \in Process, Serve(p) PROVE Fresh' /\ Kept'
  <2> DEFINE r == Head(waiting[p])
  <2>1. r \in Request /\ stage[r] \in Asking
    BY <1>1, HeadAsks DEF Serve, LossInv, LeaseInv
  <2>2. PICK s \in {"trying", "checking", "audited", "signing"} :
           /\ To(r, s)
           /\ s = "checking" => stage[r] = "account"
           /\ s = "audited" => stage[r] = "auditing"
           /\ s = "signing" => r \in SignIn
    BY <1>1, <2>1 DEF Serve, Granted, Asking
  <2> HIDE DEF r
  <2>3. Fresh'
    BY <1>0, <1>1, <2>1, <2>2 DEF Serve, Fresh, Types, To, Asking, state
  <2>4. Kept'
    BY <1>0, <1>1, <2>1, <2>2 DEF Serve, Kept, Types, To, Asking, state
  <2> QED BY <2>3, <2>4
<1>2. ASSUME NEW r \in Request, Connect(r) PROVE Fresh' /\ Kept'
  <2>1. Fresh'
    BY <1>0, <1>2 DEF Connect, Fresh, Types, Finalizing, Owned, Holds, Leased, To, state
  <2>2. Kept'
    BY <1>0, <1>2 DEF Connect, Kept, Fresh, Types, Finalizing, Leased, To, state
  <2> QED BY <2>1, <2>2
<1>3. ASSUME NEW r \in Request, TryLock(r) PROVE Fresh' /\ Kept'
  <2>1. Fresh'
    BY <1>0, <1>3 DEF TryLock, Fresh, Types, Finalizing, Owned, Holds, Leased, To, state
  <2>2. Kept'
    BY <1>0, <1>3 DEF TryLock, Kept, Fresh, Types, Finalizing, Leased, To, state
  <2> QED BY <2>1, <2>2
<1>4. ASSUME NEW r \in Request, Contend(r) PROVE Fresh' /\ Kept'
  <2>1. Fresh'
    BY <1>0, <1>4 DEF Contend, Fresh, Types, Finalizing, Owned, Holds, Leased, To, state
  <2>2. Kept'
    BY <1>0, <1>4 DEF Contend, Kept, Fresh, Types, Finalizing, Leased, To, state
  <2> QED BY <2>1, <2>2
<1>5. ASSUME NEW r \in Request, Checked(r) PROVE Fresh' /\ Kept'
  <2>1. Fresh'
    <3>1. PICK s \in {"handling", "sending"} : stage' = [stage EXCEPT ![r] = s]
      BY <1>5 DEF Checked, To
    <3>2. \A q \in Request : stage'[q] = IF q = r THEN s ELSE stage[q]
      BY <1>0, <3>1 DEF Types
    <3>3. stage[r] = "checking" /\ UNCHANGED <<final, lock, captured, aborts, memory, persisted, stored>>
      BY <1>5 DEF Checked, state
    <3> QED BY <1>0, <3>2, <3>3 DEF Fresh
  <2>2. Kept'
    BY <1>0, <1>5 DEF Checked, Kept, Fresh, Types, Finalizing, Leased, To, state
  <2> QED BY <2>1, <2>2
<1>6. ASSUME NEW r \in Request, Send(r) PROVE Fresh' /\ Kept'
  <2>1. Fresh'
    BY <1>0, <1>6 DEF Send, Fresh, Types, Finalizing, Owned, Holds, Leased, To, state
  <2>2. Kept'
    BY <1>0, <1>6 DEF Send, Kept, Fresh, Types, Finalizing, Leased, To, state
  <2> QED BY <2>1, <2>2
<1>7. ASSUME NEW r \in Request, Release(r) PROVE Fresh' /\ Kept'
  <2>1. Fresh'
    BY <1>0, <1>7 DEF Release, Fresh, Types, Finalizing, Owned, Holds, Leased, To, state
  <2>2. Kept'
    BY <1>0, <1>7 DEF Release, Kept, Fresh, Types, Finalizing, Leased, To, state
  <2> QED BY <2>1, <2>2
<1>8. ASSUME NEW r \in Request, Answer(r) PROVE Fresh' /\ Kept'
  <2>1. Fresh'
    BY <1>0, <1>8 DEF Answer, Fresh, Types, Finalizing, Owned, Holds, Leased, To, state
  <2>2. Kept'
    BY <1>0, <1>8 DEF Answer, Kept, Fresh, Types, Finalizing, Leased, To, state
  <2> QED BY <2>1, <2>2
<1>9. ASSUME NEW r \in Request, Audit(r) PROVE Fresh' /\ Kept'
  <2>1. Fresh'
    BY <1>0, <1>9 DEF Audit, Fresh, Types, Finalizing, Owned, Holds, Leased, To, state
  <2>2. Kept'
    BY <1>0, <1>9 DEF Audit, Kept, Fresh, Types, Finalizing, Leased, To, state
  <2> QED BY <2>1, <2>2
<1>10. ASSUME NEW r \in Request, SignedIn(r) PROVE Fresh' /\ Kept'
  <2>1. Fresh'
    BY <1>0, <1>10 DEF SignedIn, Fresh, Types, Finalizing, Owned, Holds, Leased, To, state
  <2>2. Kept'
    BY <1>0, <1>10 DEF SignedIn, Kept, Fresh, Types, Finalizing, Leased, To, state
  <2> QED BY <2>1, <2>2
<1>11. ASSUME NEW r \in Request, LoadFails(r) PROVE Fresh' /\ Kept'
  <2>1. Fresh'
    BY <1>0, <1>11 DEF LoadFails, Fresh, Types, Finalizing, Owned, Holds, Leased, To, state
  <2>2. Kept'
    BY <1>0, <1>11 DEF LoadFails, Kept, Fresh, Types, Finalizing, Leased, To, state
  <2> QED BY <2>1, <2>2
<1>12. ASSUME NEW r \in Request, SaveFails(r) PROVE Fresh' /\ Kept'
  <2>1. Fresh'
    BY <1>0, <1>12 DEF SaveFails, Fresh, Types, Finalizing, Owned, Holds, Leased, To, state
  <2>2. Kept'
    BY <1>0, <1>12 DEF SaveFails, Kept, Fresh, Types, Finalizing, Leased, To, state
  <2> QED BY <2>1, <2>2
<1>13. ASSUME NEW r \in Request, Load(r) PROVE Fresh' /\ Kept'
  <2>1. Fresh'
    BY <1>0, <1>13, SaveKeeps DEF Load, Fresh, Types, Finalizing, Owned, Holds, Leased, To
  <2>2. Kept'
    BY <1>0, <1>13, SaveKeeps DEF Load, Kept, Fresh, Types, Finalizing, Owned, Holds, Leased, To
  <2> QED BY <2>1, <2>2
<1>14. ASSUME NEW r \in Request, Handle(r) PROVE Fresh' /\ Kept'
  <2>1. Fresh'
    BY <1>0, <1>14, SaveKeeps DEF Handle, Fresh, Types, Finalizing, Owned, Holds, Leased, To
  <2>2. Kept'
    BY <1>0, <1>14, SaveKeeps DEF Handle, Kept, Fresh, Types, Finalizing, Owned, Holds, Leased, To
  <2> QED BY <2>1, <2>2
<1>15. ASSUME NEW r \in Request, Capture(r) PROVE Fresh' /\ Kept'
  <2>1. Fresh'
    BY <1>0, <1>15, SaveKeeps DEF Capture, Fresh, Types, Finalizing, Owned, Holds, Leased, To
  <2>2. Kept'
    BY <1>0, <1>15, SaveKeeps DEF Capture, Kept, Fresh, Types, Finalizing, Owned, Holds, Leased, To
  <2> QED BY <2>1, <2>2
<1>16. ASSUME NEW r \in Request, Save(r) PROVE Fresh' /\ Kept'
  <2>1. Fresh'
    BY <1>0, <1>16, SaveKeeps DEF Save, Fresh, Types, Finalizing, Owned, Holds, Leased, To
  <2>2. Kept'
    BY <1>0, <1>16, SaveKeeps DEF Save, Kept, Fresh, Types, Finalizing, Owned, Holds, Leased, To
  <2> QED BY <2>1, <2>2
<1>17. ASSUME NEW r \in Request, Abort(r) PROVE Fresh' /\ Kept'
  <2>1. aborts' # 0
    BY <1>0, <1>17 DEF Abort, Fresh
  <2> QED BY <2>1
<1>18. CASE UNCHANGED vars
  BY <1>0, <1>18 DEF vars, pool, state, Fresh, Kept
<1> QED
  BY <1>1, <1>2, <1>3, <1>4, <1>5, <1>6, <1>7, <1>8, <1>9, <1>10, <1>11, <1>12, <1>13, <1>14, <1>15, <1>16, <1>17, <1>18 DEF Next, Advance

(* ... and with no hang-ups what is stored only grows.                     *)
LEMMA StoredGrows ==
    ASSUME LossInv, [Next]_vars
    PROVE  stored \subseteq stored'
<1>1. ASSUME NEW r \in Request, Save(r) PROVE stored \subseteq stored'
  BY <1>1, SaveKeeps
<1>2. ASSUME NEW p \in Process, Serve(p) PROVE stored \subseteq stored'
  BY <1>2 DEF Serve, state
<1>3. ASSUME NEW r \in Request,
             \/ Connect(r) \/ TryLock(r) \/ Contend(r) \/ Load(r) \/ Checked(r) \/ Handle(r) \/ Send(r)
             \/ Capture(r) \/ Release(r) \/ Answer(r) \/ Audit(r) \/ SignedIn(r) \/ Abort(r)
             \/ LoadFails(r) \/ SaveFails(r)
      PROVE  stored \subseteq stored'
  BY <1>3 DEF Connect, TryLock, Contend, Load, Checked, Handle, Send, Capture, Release, Answer,
              Audit, SignedIn, Abort, LoadFails, SaveFails, state
<1>4. CASE UNCHANGED vars
  BY <1>4 DEF vars, state
<1> QED BY <1>1, <1>2, <1>3, <1>4 DEF Next, Advance

(* Nobody hangs up when there are to be no hang-ups.                       *)
LEMMA NoHangUps == ASSUME MaxAborts = 0, Fresh, [Next]_vars PROVE aborts' = 0
BY DEF Fresh, Next, vars, Serve, Connect, Advance, TryLock, Contend, Load, Checked, Handle, Send,
       Capture, Save, Release, Answer, Audit, SignedIn, Abort, LoadFails, SaveFails

(* Without hang-ups, and with any faults, nothing that is stored is ever   *)
(* written over, and what a client was told has succeeded is stored.       *)
THEOREM NothingIsLostWithoutHangUps ==
    ASSUME MaxAborts = 0 PROVE Spec => NoLostUpdate /\ []AnsweredIsStored
<1>1. Init => LossInv
  BY LossInvInit
<1>2. LossInv /\ [Next]_vars => LossInv'
  BY LossInvNext, NoHangUps DEF LossInv
<1>3. LossInv => AnsweredIsStored
  BY DEF LossInv, Kept, AnsweredIsStored
<1>4. LossInv /\ [Next]_vars => [stored \subseteq stored']_vars
  BY StoredGrows
<1> QED BY <1>1, <1>2, <1>3, <1>4, PTL DEF Spec, NoLostUpdate

-----------------------------------------------------------------------------
(* The connections of a pool: a request holds its first one while it tries  *)
(* the lock, owns the lease or signs in, and a second one while its account *)
(* is checked or its sign-in audited.                                       *)
HoldsFirst(r) == stage[r] \in {"trying", "signing", "auditing", "audited"} \/ Holds(r)
HoldsSecond(r) == stage[r] \in {"checking", "audited"}

First(p) == {r \in Request : ServedBy[r] = p /\ HoldsFirst(r)}
Second(p) == {r \in Request : ServedBy[r] = p /\ HoldsSecond(r)}

Counted ==
    /\ used \in [Process -> Nat]
    /\ \A p \in Process : IsFiniteSet(First(p)) /\ IsFiniteSet(Second(p))
    /\ \A p \in Process : used[p] = Cardinality(First(p)) + Cardinality(Second(p)) /\ used[p] <= PoolSize

(* A request that has not ended has attempts left.                          *)
Trying ==
    /\ tries \in [Request -> Nat]
    /\ \A r \in Request : tries[r] <= MaxTries /\ (stage[r] # "ended" => tries[r] < MaxTries)
    /\ aborts \in 0..MaxAborts /\ faults \in 0..MaxFaults

(* Sizes and limits.                                                        *)
LEMMA Sizes == PoolSize \in Nat \ {0} /\ MaxTries \in Nat \ {0} /\ MaxAborts \in Nat /\ MaxFaults \in Nat
BY LeaseAssumption DEF LeaseAssumption

One(b) == IF b THEN 1 ELSE 0

(* A set that gains or loses one element at most.                           *)
LEMMA OneMoves ==
    ASSUME NEW S, NEW T, IsFiniteSet(S), NEW r, \A x : x # r => (x \in T <=> x \in S)
    PROVE  /\ IsFiniteSet(T) /\ Cardinality(S) \in Nat /\ Cardinality(T) \in Nat
           /\ Cardinality(T) = Cardinality(S) + One(r \in T) - One(r \in S)
<1>1. Cardinality(S) \in Nat
  BY FS_CardinalityType
<1>2. CASE r \in T <=> r \in S
  <2>1. T = S
    BY <1>2
  <2> QED BY <1>1, <2>1 DEF One
<1>3. CASE r \in T /\ r \notin S
  <2>1. T = S \cup {r}
    BY <1>3
  <2>2. IsFiniteSet(T) /\ Cardinality(T) = Cardinality(S) + 1
    BY <1>3, <2>1, FS_AddElement
  <2> QED BY <1>1, <1>3, <2>2 DEF One
<1>4. CASE r \notin T /\ r \in S
  <2>1. T = S \ {r}
    BY <1>4
  <2>2. IsFiniteSet(T) /\ Cardinality(T) = Cardinality(S) - 1
    BY <1>4, <2>1, FS_RemoveElement
  <2>3. Cardinality(T) \in Nat
    BY <2>2, FS_CardinalityType
  <2> QED BY <1>1, <1>4, <2>2, <2>3 DEF One
<1> QED BY <1>2, <1>3, <1>4

(* The pool's count follows what one request takes or gives back.           *)
LEMMA CountFollows ==
    ASSUME Counted, NEW r \in Request,
           \A x \in Request : x # r => (HoldsFirst(x)' <=> HoldsFirst(x)) /\ (HoldsSecond(x)' <=> HoldsSecond(x)),
           NEW d \in Int, used' = [used EXCEPT ![ServedBy[r]] = @ + d],
           d = One(HoldsFirst(r)') - One(HoldsFirst(r)) + One(HoldsSecond(r)') - One(HoldsSecond(r)),
           used[ServedBy[r]] + d <= PoolSize
    PROVE  Counted'
<1> USE Constants, Sizes
<1>1. \A p \in Process : IsFiniteSet(First(p)) /\ IsFiniteSet(Second(p))
  BY DEF Counted
<1>2. ASSUME NEW p \in Process, ServedBy[r] # p
      PROVE  First(p)' = First(p) /\ Second(p)' = Second(p) /\ used'[p] = used[p]
  <2>1. First(p)' = First(p)
    BY <1>2 DEF First
  <2>2. Second(p)' = Second(p)
    BY <1>2 DEF Second
  <2> QED BY <1>2, <2>1, <2>2 DEF Counted
<1>3. ASSUME NEW p \in Process, ServedBy[r] = p
      PROVE  /\ used'[p] = Cardinality(First(p)') + Cardinality(Second(p)')
             /\ used'[p] \in Nat /\ used'[p] <= PoolSize
             /\ IsFiniteSet(First(p)') /\ IsFiniteSet(Second(p)')
  <2>1. /\ \A x : x # r => (x \in First(p)' <=> x \in First(p))
        /\ r \in First(p)' <=> HoldsFirst(r)'
        /\ r \in First(p) <=> HoldsFirst(r)
    BY <1>3 DEF First
  <2>2. /\ \A x : x # r => (x \in Second(p)' <=> x \in Second(p))
        /\ r \in Second(p)' <=> HoldsSecond(r)'
        /\ r \in Second(p) <=> HoldsSecond(r)
    BY <1>3 DEF Second
  <2> DEFINE f == Cardinality(First(p))
             g == Cardinality(Second(p))
             F == Cardinality(First(p)')
             G == Cardinality(Second(p)')
  <2>3. /\ f \in Nat /\ F \in Nat /\ F = f + One(HoldsFirst(r)') - One(HoldsFirst(r))
        /\ IsFiniteSet(First(p)')
    <3> DEFINE S == First(p)
               T == First(p)'
    <3>1. IsFiniteSet(S) /\ \A x : x # r => (x \in T <=> x \in S)
      BY <1>1, <2>1
    <3> HIDE DEF S, T
    <3>2. /\ IsFiniteSet(T) /\ Cardinality(S) \in Nat /\ Cardinality(T) \in Nat
          /\ Cardinality(T) = Cardinality(S) + One(r \in T) - One(r \in S)
      BY <3>1, OneMoves
    <3>3. One(r \in T) = One(HoldsFirst(r)') /\ One(r \in S) = One(HoldsFirst(r))
      BY <2>1 DEF One, S, T
    <3> QED BY <3>2, <3>3 DEF S, T
  <2>4. /\ g \in Nat /\ G \in Nat /\ G = g + One(HoldsSecond(r)') - One(HoldsSecond(r))
        /\ IsFiniteSet(Second(p)')
    <3> DEFINE S == Second(p)
               T == Second(p)'
    <3>1. IsFiniteSet(S) /\ \A x : x # r => (x \in T <=> x \in S)
      BY <1>1, <2>2
    <3> HIDE DEF S, T
    <3>2. /\ IsFiniteSet(T) /\ Cardinality(S) \in Nat /\ Cardinality(T) \in Nat
          /\ Cardinality(T) = Cardinality(S) + One(r \in T) - One(r \in S)
      BY <3>1, OneMoves
    <3>3. One(r \in T) = One(HoldsSecond(r)') /\ One(r \in S) = One(HoldsSecond(r))
      BY <2>2 DEF One, S, T
    <3> QED BY <3>2, <3>3 DEF S, T
  <2>5. used[p] = f + g /\ used'[p] = used[p] + d /\ used'[p] <= PoolSize
    BY <1>3 DEF Counted
  <2> HIDE DEF f, g, F, G
  <2>6. One(HoldsFirst(r)') \in Int /\ One(HoldsFirst(r)) \in Int /\ One(HoldsSecond(r)') \in Int /\ One(HoldsSecond(r)) \in Int
    BY DEF One
  <2>7. used'[p] = F + G
    BY <2>3, <2>4, <2>5, <2>6
  <2> QED BY <2>3, <2>4, <2>5, <2>7 DEF F, G
<1>4. \A p \in Process : used'[p] \in Nat
  BY <1>2, <1>3 DEF Counted
<1>5. used' \in [Process -> Nat]
  <2>1. DOMAIN used' = Process /\ used' = [p \in Process |-> used'[p]]
    BY DEF Counted
  <2> QED BY <1>4, <2>1
<1> QED BY <1>2, <1>3, <1>5 DEF Counted

(* Who takes a connection, and who gives one back.                          *)
LEMMA CountedStep ==
    ASSUME LeaseInv, Counted, [Next]_vars
    PROVE  Counted'
<1> USE Constants, Sizes DEF LeaseInv
<1>1. ASSUME NEW p \in Process, Serve(p) PROVE Counted'
  <2>1. PICK r \in Request : r = Head(waiting[p]) /\ ServedBy[r] = p /\ stage[r] \in Asking
    BY <1>1, HeadAsks DEF Serve
  <2>2. /\ used[p] < PoolSize /\ used' = [used EXCEPT ![p] = @ + 1] /\ final' = final
        /\ stage' = [stage EXCEPT ![r] = IF r \in SignIn /\ stage[r] = "connect" THEN "signing" ELSE Granted(stage[r])]
    BY <1>1, <2>1 DEF Serve, To
  <2>3. /\ stage'[r] \in Stage /\ \A x \in Request : x # r => stage'[x] = stage[x]
        /\ stage[r] = "connect" => stage'[r] \in {"trying", "signing"}
        /\ stage[r] = "account" => stage'[r] = "checking"
        /\ stage[r] = "auditing" => stage'[r] = "audited"
    BY <2>1, <2>2 DEF Types, Granted, Stage, Asking
  <2>4. \A x \in Request : x # r => (HoldsFirst(x)' <=> HoldsFirst(x)) /\ (HoldsSecond(x)' <=> HoldsSecond(x))
    BY <2>2, <2>3 DEF HoldsFirst, HoldsSecond, Holds
  <2>5. 1 = One(HoldsFirst(r)') - One(HoldsFirst(r)) + One(HoldsSecond(r)') - One(HoldsSecond(r))
    BY <2>1, <2>2, <2>3 DEF HoldsFirst, HoldsSecond, Holds, Leased, One, Asking
  <2>6. used[p] + 1 <= PoolSize
    BY <2>2 DEF Counted
  <2>7. used' = [used EXCEPT ![ServedBy[r]] = @ + 1] /\ used[ServedBy[r]] + 1 <= PoolSize /\ 1 \in Int
    BY <2>1, <2>2, <2>6
  <2> QED BY <2>4, <2>5, <2>7, CountFollows
<1>2. ASSUME NEW r \in Request, used' = used,
             \A x \in Request : (HoldsFirst(x)' <=> HoldsFirst(x)) /\ (HoldsSecond(x)' <=> HoldsSecond(x))
      PROVE  Counted'
  <2>1. ASSUME NEW p \in Process PROVE First(p)' = First(p) /\ Second(p)' = Second(p)
    BY <1>2 DEF First, Second
  <2> QED BY <1>2, <2>1 DEF Counted
<1>3. ASSUME NEW r \in Request, NEW n \in {1, 2}, GiveBack(r, n),
             \A x \in Request : x # r => (HoldsFirst(x)' <=> HoldsFirst(x)) /\ (HoldsSecond(x)' <=> HoldsSecond(x)),
             - n = One(HoldsFirst(r)') - One(HoldsFirst(r)) + One(HoldsSecond(r)') - One(HoldsSecond(r))
      PROVE  Counted'
  <2>1. ServedBy[r] \in Process /\ used[ServedBy[r]] \in Nat
    BY DEF Counted
  <2>2. used' = [used EXCEPT ![ServedBy[r]] = @ + (- n)]
    BY <1>3, <2>1 DEF GiveBack, Counted
  <2>3. used[ServedBy[r]] + (- n) <= PoolSize /\ - n \in Int
    BY <2>1 DEF Counted
  <2> QED BY <1>3, <2>2, <2>3, CountFollows
<1>4. ASSUME NEW r \in Request,
             \/ Connect(r) \/ TryLock(r) \/ Load(r) \/ LoadFails(r) \/ Handle(r) \/ Abort(r) \/ Send(r)
             \/ Capture(r) \/ Save(r) \/ SaveFails(r) \/ Answer(r) \/ Audit(r)
      PROVE  Counted'
  <2>1. used' = used
    BY <1>4 DEF Connect, TryLock, Load, LoadFails, Handle, Abort, Send, Capture, Save, SaveFails, Answer, Audit, pool
  <2>2. \A x \in Request : x # r => stage'[x] = stage[x] /\ final'[x] = final[x]
    BY <1>4 DEF Connect, TryLock, Load, LoadFails, Handle, Abort, Send, Capture, Save, SaveFails, Answer, Audit, To, Types
  <2>3. (HoldsFirst(r)' <=> HoldsFirst(r)) /\ (HoldsSecond(r)' <=> HoldsSecond(r))
    <3>1. CASE Connect(r) \/ TryLock(r) \/ Load(r) \/ Handle(r) \/ Answer(r) \/ Audit(r)
      BY <3>1 DEF Connect, TryLock, Load, Handle, Answer, Audit, To, Types, HoldsFirst, HoldsSecond, Holds, Leased,
           Finalizing, Stage
    <3>2. CASE LoadFails(r) \/ Abort(r) \/ Send(r) \/ Capture(r) \/ Save(r) \/ SaveFails(r)
      BY <3>2 DEF LoadFails, Abort, Send, Capture, Save, SaveFails, To, Types, HoldsFirst, HoldsSecond, Holds, Leased,
           Finalizing, Final, Stage
    <3> QED BY <1>4, <3>1, <3>2
  <2>4. \A x \in Request : (HoldsFirst(x)' <=> HoldsFirst(x)) /\ (HoldsSecond(x)' <=> HoldsSecond(x))
    BY <2>2, <2>3 DEF HoldsFirst, HoldsSecond, Holds
  <2> QED BY <1>2, <2>1, <2>4
<1>5. ASSUME NEW r \in Request, Contend(r) \/ Checked(r) \/ Release(r) PROVE Counted'
  <2>1. GiveBack(r, 1) /\ \A x \in Request : x # r => stage'[x] = stage[x] /\ final'[x] = final[x]
    BY <1>5 DEF Contend, Checked, Release, To, Types
  <2>2. -1 = One(HoldsFirst(r)') - One(HoldsFirst(r)) + One(HoldsSecond(r)') - One(HoldsSecond(r))
    <3>1. CASE Contend(r)
      BY <3>1 DEF Contend, To, Types, HoldsFirst, HoldsSecond, Holds, Leased, One, Stage
    <3>2. CASE Checked(r)
      BY <3>2 DEF Checked, To, Types, HoldsFirst, HoldsSecond, Holds, Leased, One, Stage
    <3>3. CASE Release(r)
      BY <3>3 DEF Release, Types, HoldsFirst, HoldsSecond, Holds, Leased, One, Finalizing, Final
    <3> QED BY <1>5, <3>1, <3>2, <3>3
  <2>3. \A x \in Request : x # r => (HoldsFirst(x)' <=> HoldsFirst(x)) /\ (HoldsSecond(x)' <=> HoldsSecond(x))
    BY <2>1 DEF HoldsFirst, HoldsSecond, Holds
  <2> QED BY <1>3, <2>1, <2>2, <2>3
<1>6. ASSUME NEW r \in Request, SignedIn(r) PROVE Counted'
  <2>1. GiveBack(r, 2) /\ \A x \in Request : x # r => stage'[x] = stage[x] /\ final'[x] = final[x]
    BY <1>6 DEF SignedIn, To, Types
  <2>2. -2 = One(HoldsFirst(r)') - One(HoldsFirst(r)) + One(HoldsSecond(r)') - One(HoldsSecond(r))
    BY <1>6 DEF SignedIn, To, Types, HoldsFirst, HoldsSecond, Holds, Leased, One
  <2>3. \A x \in Request : x # r => (HoldsFirst(x)' <=> HoldsFirst(x)) /\ (HoldsSecond(x)' <=> HoldsSecond(x))
    BY <2>1 DEF HoldsFirst, HoldsSecond, Holds
  <2> QED BY <1>3, <2>1, <2>2, <2>3
<1>7. CASE UNCHANGED vars
  BY <1>7 DEF vars, pool, Counted, First, Second, HoldsFirst, HoldsSecond, Holds
<1> QED BY <1>1, <1>4, <1>5, <1>6, <1>7 DEF Next, Advance

(* Attempts, hang-ups and faults stay within their bounds.                  *)
LEMMA TryingStep ==
    ASSUME LeaseInv, Trying, [Next]_vars
    PROVE  Trying'
<1> USE Constants, Sizes DEF LeaseInv
<1>1. ASSUME NEW r \in Request, Contend(r) PROVE Trying'
  <2>1. /\ stage[r] = "trying" /\ tries' = [tries EXCEPT ![r] = @ + 1] /\ aborts' = aborts /\ faults' = faults
        /\ \/ tries'[r] < MaxTries
           \/ To(r, "ended")
        /\ \E s \in Stage : To(r, s)
    BY <1>1 DEF Contend, Stage
  <2>2. tries[r] \in Nat /\ tries[r] < MaxTries /\ tries' \in [Request -> Nat] /\ tries'[r] = tries[r] + 1
    BY <2>1 DEF Trying
  <2>3. \A x \in Request : x # r => tries'[x] = tries[x] /\ stage'[x] = stage[x]
    BY <2>1 DEF Trying, To, Types
  <2>4. tries'[r] <= MaxTries /\ (stage'[r] # "ended" => tries'[r] < MaxTries)
    BY <2>1, <2>2 DEF To, Types
  <2> QED BY <2>1, <2>2, <2>3, <2>4 DEF Trying
<1>2. ASSUME NEW r \in Request, tries' = tries, stage[r] # "ended", \E s \in Stage : To(r, s),
             aborts' \in 0..MaxAborts, faults' \in 0..MaxFaults
      PROVE  Trying'
  <2>1. \A x \in Request : x # r => stage'[x] = stage[x]
    BY <1>2 DEF To, Types
  <2> QED BY <1>2, <2>1 DEF Trying
<1>3. ASSUME NEW p \in Process, Serve(p) PROVE Trying'
  <2> DEFINE r == Head(waiting[p])
  <2>1. r \in Request /\ stage[r] \in Asking
    BY <1>3, HeadAsks DEF Serve
  <2>2. \E s \in Stage : To(r, s)
    BY <1>3, <2>1 DEF Serve, Granted, Asking, Stage
  <2> HIDE DEF r
  <2>3. tries' = tries /\ aborts' = aborts /\ faults' = faults
    BY <1>3 DEF Serve
  <2> QED BY <1>2, <2>1, <2>2, <2>3 DEF Asking, Trying
<1>4. ASSUME NEW r \in Request, Connect(r) \/ TryLock(r) \/ Load(r) \/ Checked(r) \/ Handle(r) \/ Answer(r)
                                 \/ Audit(r) \/ SignedIn(r) \/ LoadFails(r)
      PROVE  Trying'
  <2>1. tries' = tries /\ stage[r] # "ended" /\ \E s \in Stage : To(r, s)
    BY <1>4 DEF Connect, TryLock, Load, Checked, Handle, Answer, Audit, SignedIn, LoadFails, Stage
  <2>2. aborts' = aborts /\ (faults' = faults \/ (faults < MaxFaults /\ faults' = faults + 1))
    BY <1>4 DEF Connect, TryLock, Load, Checked, Handle, Answer, Audit, SignedIn, LoadFails
  <2> QED BY <1>2, <2>1, <2>2 DEF Trying
<1>5. ASSUME NEW r \in Request, Abort(r) \/ Send(r) \/ Capture(r) \/ Save(r) \/ SaveFails(r) \/ Release(r)
      PROVE  Trying'
  <2>1. tries' = tries /\ stage' = stage
    BY <1>5 DEF Abort, Send, Capture, Save, SaveFails, Release
  <2>2. /\ aborts' = aborts \/ (aborts < MaxAborts /\ aborts' = aborts + 1)
        /\ faults' = faults \/ (faults < MaxFaults /\ faults' = faults + 1)
    BY <1>5 DEF Abort, Send, Capture, Save, SaveFails, Release
  <2> QED BY <2>1, <2>2 DEF Trying
<1>6. CASE UNCHANGED vars
  BY <1>6 DEF vars, Trying
<1> QED BY <1>1, <1>3, <1>4, <1>5, <1>6 DEF Next, Advance

PoolInv == LeaseInv /\ Counted /\ Trying

(* At first nothing is handed out.                                          *)
LEMMA PoolInvInit == ASSUME Init PROVE PoolInv
<1>1. \A p \in Process : First(p) = {} /\ Second(p) = {}
  BY DEF Init, First, Second, HoldsFirst, HoldsSecond, Holds, Leased
<1>2. Cardinality({}) = 0 /\ IsFiniteSet({})
  BY FS_EmptySet
<1>3. used = [p \in Process |-> 0] /\ \A p \in Process : used[p] = 0
  BY DEF Init
<1>4. Counted
  <2>1. ASSUME NEW p \in Process
        PROVE  /\ IsFiniteSet(First(p)) /\ IsFiniteSet(Second(p))
               /\ Cardinality(First(p)) = 0 /\ Cardinality(Second(p)) = 0
    BY <1>1, <1>2
  <2>2. used \in [Process -> Nat]
    BY <1>3
  <2>3. \A p \in Process : used[p] = Cardinality(First(p)) + Cardinality(Second(p)) /\ used[p] <= PoolSize
    BY <1>3, <2>1, Sizes
  <2> QED BY <2>1, <2>2, <2>3 DEF Counted
<1>5. tries = [r \in Request |-> 0] /\ aborts = 0 /\ faults = 0
  BY DEF Init
<1>6. Trying
  BY <1>5, Sizes DEF Trying
<1> QED BY <1>4, <1>6, LeaseInvInit DEF PoolInv

(* Every step keeps the lease, the count and the attempts.                  *)
LEMMA PoolInvNext == PoolInv /\ [Next]_vars => PoolInv'
BY LeaseInvNext, CountedStep, TryingStep DEF PoolInv

(* ... which are the types of the module.                                   *)
LEMMA PoolTypes == ASSUME PoolInv PROVE TypeOK
<1>1. used \in [Process -> 0..PoolSize]
  BY Sizes DEF PoolInv, Counted
<1>2. tries \in [Request -> 0..MaxTries]
  BY Sizes DEF PoolInv, Trying
<1> QED BY <1>1, <1>2 DEF PoolInv, LeaseInv, Types, Trying, TypeOK

(* Every connection of a pool is given back exactly once: what a pool has   *)
(* handed out is what its requests hold, two at most each, and never more   *)
(* than it has, with clients hanging up and loads and saves failing.        *)
THEOREM ConnectionsReturnHolds == Spec => [](TypeOK /\ Counted)
<1>1. Init => PoolInv
  BY PoolInvInit
<1>2. PoolInv => TypeOK /\ Counted
  BY PoolTypes DEF PoolInv
<1> QED BY <1>1, <1>2, PoolInvNext, PTL DEF Spec

-----------------------------------------------------------------------------
(* A drain runs without a schedule: runNow clears it first, and a new one  *)
(* is only set when the drain ends.                                        *)
Drains ==
    /\ pc # "idle" => scheduledFor = Scheduling!Never
    /\ pc \in {"idle", "claiming", "working", "reading", "scheduling"}
    /\ timer = Scheduling!Never <=> stopped \/ scheduledFor = Scheduling!Never

(* What is left of a delay.                                                *)
Delays ==
    /\ left \in [Item -> Nat]
    /\ next \in Nat \cup {Scheduling!Never} /\ scheduledFor \in Nat \cup {Scheduling!Never} /\ timer \in Nat \cup {Scheduling!Never}

WakeInv == Drains /\ Delays /\ Scheduling!NothingOverlooked

(* What is assumed of the delays.                                          *)
LEMMA Delayed ==
    ASSUME Scheduling!SchedulerAssumption
    PROVE  MaxDue \in Nat /\ Lease \in Nat /\ RetryDelay \in Nat /\ MaxTimerDelay \in Nat \ {0}
BY DEF Scheduling!SchedulerAssumption

(* A wake-up that covers a decision is a time.                             *)
LEMMA CoversIsTime ==
    ASSUME NEW time, NEW i, Scheduling!Covers(time, i)
    PROVE  time # Scheduling!Never /\ time <= Scheduling!Later(left[i], RetryDelay)
BY DEF Scheduling!Covers

(* With nothing recorded there is nothing to overlook.                     *)
LEMMA WakeInvInit == Scheduling!Init => WakeInv
BY DEF Scheduling!Init, WakeInv, Drains, Delays, Scheduling!NothingOverlooked, Scheduling!Open, Scheduling!Never

(* runNow leads to a further look at every decision.                       *)
LEMMA RunNowKeeps ==
    ASSUME WakeInv, Scheduling!RunNow, UNCHANGED <<Scheduling!store, next, stopped>>
    PROVE  WakeInv'
<1>1. CASE stopped
  BY <1>1 DEF WakeInv, Drains, Delays, Scheduling!NothingOverlooked, Scheduling!RunNow, Scheduling!store
<1>2. CASE ~stopped
  <2>1. /\ scheduledFor' = Scheduling!Never /\ timer' = Scheduling!Never
        /\ \/ pc = "idle" /\ pc' = "claiming"
           \/ pc # "idle" /\ rerunRequested' = TRUE /\ pc' = pc
    BY <1>2 DEF Scheduling!RunNow, Scheduling!NoTimer
  <2>2. Drains' /\ Delays'
    BY <1>2, <2>1 DEF WakeInv, Drains, Delays, Scheduling!store
  <2>3. Scheduling!NothingOverlooked'
    BY <2>1 DEF Scheduling!NothingOverlooked
  <2> QED BY <2>2, <2>3 DEF WakeInv
<1> QED BY <1>1, <1>2

(* A step that sets no timer and ends no drain keeps the schedule.         *)
LEMMA ScheduleKeeps ==
    ASSUME WakeInv, UNCHANGED <<scheduledFor, timer, stopped>>,
           pc' \in {"idle", "claiming", "working", "reading", "scheduling"}, pc = "idle" <=> pc' = "idle",
           left' \in [Item -> Nat], next' \in Nat \cup {Scheduling!Never}
    PROVE  Drains' /\ Delays'
BY DEF WakeInv, Drains, Delays

(* The end of a run sets the wake-up it was told, or runs again.           *)
LEMMA RunEnds ==
    ASSUME Scheduling!SchedulerAssumption, WakeInv, pc \in {"claiming", "reading", "scheduling"}, Scheduling!Loop(rerunRequested),
           NEW time \in Nat \cup {Scheduling!Never}, UNCHANGED <<Scheduling!store, committed, stopped>>,
           \A i \in Scheduling!Open : ~stopped => i \in committed \/ rerunRequested \/ Scheduling!Covers(time, i),
           \/ ~rerunRequested /\ time # Scheduling!Never /\ Scheduling!ScheduleAt(time)
           \/ UNCHANGED <<scheduledFor, timer>> /\ (rerunRequested \/ stopped \/ time = Scheduling!Never),
           next' \in Nat \cup {Scheduling!Never}
    PROVE  WakeInv'
<1> USE Delayed
<1>1. scheduledFor = Scheduling!Never /\ timer = Scheduling!Never
  BY DEF WakeInv, Drains
<1>2. CASE rerunRequested /\ ~stopped
  <2>1. pc' = "claiming" /\ scheduledFor' = Scheduling!Never /\ timer' = Scheduling!Never
    BY <1>1, <1>2 DEF Scheduling!Loop
  <2> QED BY <2>1 DEF WakeInv, Drains, Delays, Scheduling!NothingOverlooked, Scheduling!store
<1>3. CASE ~rerunRequested \/ stopped
  <2>1. pc' = "idle" /\ rerunRequested' = rerunRequested
    BY <1>3 DEF Scheduling!Loop
  <2>2. CASE ~rerunRequested /\ time # Scheduling!Never /\ Scheduling!ScheduleAt(time)
    <3>1. scheduledFor' = time /\ timer' = IF stopped THEN Scheduling!Never ELSE Scheduling!Least(time, MaxTimerDelay)
      BY <2>2 DEF Scheduling!ScheduleAt
    <3>2. Drains' /\ Delays'
      BY <2>1, <2>2, <3>1 DEF WakeInv, Drains, Delays, Scheduling!Least, Scheduling!Never, Scheduling!store
    <3>3. Scheduling!NothingOverlooked'
      BY <2>2, <3>1 DEF Scheduling!NothingOverlooked, Scheduling!Open, Scheduling!Covers, Scheduling!store
    <3> QED BY <3>2, <3>3 DEF WakeInv
  <2>3. CASE UNCHANGED <<scheduledFor, timer>> /\ (rerunRequested \/ stopped \/ time = Scheduling!Never)
    <3>1. Drains' /\ Delays'
      BY <1>1, <2>1, <2>3 DEF WakeInv, Drains, Delays, Scheduling!store
    <3>2. stopped \/ \A i \in Scheduling!Open : i \in committed
      BY <1>3, <2>3 DEF Scheduling!Covers
    <3>3. Scheduling!NothingOverlooked'
      BY <3>2 DEF Scheduling!NothingOverlooked, Scheduling!Open, Scheduling!store
    <3> QED BY <3>1, <3>3 DEF WakeInv
  <2> QED BY <2>2, <2>3
<1> QED BY <1>2, <1>3

(* Time brings a wake-up nearer, and what it covers with it.               *)
LEMMA TickKeeps == ASSUME Scheduling!SchedulerAssumption, WakeInv, Scheduling!Tick PROVE WakeInv'
<1> USE Delayed
<1>1. /\ left' = [i \in Item |-> Scheduling!Minus(left[i])]
      /\ next' = Scheduling!Minus(next) /\ scheduledFor' = Scheduling!Minus(scheduledFor) /\ timer' = Scheduling!Minus(timer)
      /\ UNCHANGED <<status, peer, committed, claimed, pc, rerunRequested, stopped, failures>>
  BY DEF Scheduling!Tick
<1>2. ASSUME NEW n \in Nat \cup {Scheduling!Never}
      PROVE  Scheduling!Minus(n) \in Nat \cup {Scheduling!Never} /\ (Scheduling!Minus(n) = Scheduling!Never <=> n = Scheduling!Never) /\ (n \in Nat => Scheduling!Minus(n) \in Nat)
  BY <1>2 DEF Scheduling!Minus, Scheduling!Never
<1>3. Drains' /\ Delays'
  BY <1>1, <1>2 DEF WakeInv, Drains, Delays
<1>4. ASSUME NEW time \in Nat \cup {Scheduling!Never}, NEW i \in Item, Scheduling!Covers(time, i)
      PROVE  Scheduling!Minus(time) # Scheduling!Never /\ Scheduling!Minus(time) <= Scheduling!Later(left'[i], RetryDelay)
  <2>1. left[i] \in Nat /\ left'[i] = Scheduling!Minus(left[i])
    BY <1>1 DEF WakeInv, Delays
  <2> QED BY <1>4, <2>1 DEF Scheduling!Covers, Scheduling!Later, Scheduling!Minus, Scheduling!Never
<1>5. Scheduling!NothingOverlooked'
  <2> SUFFICES ASSUME ~stopped, NEW i \in Scheduling!Open
               PROVE  \/ i \in committed
                      \/ pc \in {"claiming", "working", "reading"}
                      \/ rerunRequested
                      \/ pc = "scheduling" /\ Scheduling!Covers(next, i)'
                      \/ Scheduling!Covers(scheduledFor, i)'
    BY <1>1 DEF Scheduling!NothingOverlooked, Scheduling!Open
  <2>1. i \in Item /\ next \in Nat \cup {Scheduling!Never} /\ scheduledFor \in Nat \cup {Scheduling!Never}
    BY DEF Scheduling!Open, WakeInv, Delays
  <2>2. CASE Scheduling!Covers(next, i)
    BY <1>1, <1>4, <2>1, <2>2 DEF Scheduling!Covers, WakeInv, Scheduling!NothingOverlooked
  <2>3. CASE ~Scheduling!Covers(next, i)
    BY <1>1, <1>4, <2>1, <2>3 DEF Scheduling!Covers, WakeInv, Scheduling!NothingOverlooked
  <2> QED BY <2>2, <2>3
<1> QED BY <1>3, <1>5 DEF WakeInv

(* The invariant is inductive.                                             *)
LEMMA WakeInvNext == Scheduling!SchedulerAssumption /\ WakeInv /\ [Scheduling!Next]_(Scheduling!vars) => WakeInv'
<1> SUFFICES ASSUME Scheduling!SchedulerAssumption, WakeInv, [Scheduling!Next]_(Scheduling!vars) PROVE WakeInv'
  OBVIOUS
<1> USE Delayed
<1>1. CASE Scheduling!Committed
  <2>1. Scheduling!RunNow /\ UNCHANGED <<Scheduling!store, next, stopped>>
    BY <1>1 DEF Scheduling!Committed
  <2> QED BY <2>1, RunNowKeeps
<1>2. CASE Scheduling!Claim
  <2>1. /\ pc = "claiming" /\ pc' = "working"
        /\ \E batch : left' = [i \in Item |-> IF i \in batch THEN Lease ELSE left[i]]
        /\ UNCHANGED <<committed, next, rerunRequested, scheduledFor, timer, stopped, failures>>
    BY <1>2 DEF Scheduling!Claim
  <2>2. Drains' /\ Delays'
    <3>1. left' \in [Item -> Nat] /\ next' \in Nat \cup {Scheduling!Never}
      BY <2>1 DEF WakeInv, Delays
    <3> QED BY <2>1, <3>1, ScheduleKeeps
  <2> QED BY <2>1, <2>2 DEF WakeInv, Scheduling!NothingOverlooked
<1>3. CASE Scheduling!WorkDone
  <2>1. /\ pc' = "reading" /\ pc = "working"
        /\ UNCHANGED <<Scheduling!store, committed, claimed, next, rerunRequested, scheduledFor, timer, stopped, failures>>
    BY <1>3 DEF Scheduling!WorkDone
  <2> QED BY <2>1 DEF WakeInv, Scheduling!NothingOverlooked, Drains, Delays, Scheduling!store
<1>4. CASE Scheduling!ReadNext
  <2>1. /\ pc = "reading" /\ pc' = "scheduling"
        /\ UNCHANGED <<Scheduling!store, committed, claimed, rerunRequested, scheduledFor, timer, stopped, failures>>
        /\ \/ Scheduling!Open = {} /\ next' = Scheduling!Never
           \/ \E i \in Scheduling!Open : next' = left[i] /\ \A j \in Scheduling!Open : left[i] <= left[j]
    BY <1>4 DEF Scheduling!ReadNext
  <2>2. left \in [Item -> Nat]
    BY DEF WakeInv, Delays
  <2>3. next' \in Nat \cup {Scheduling!Never} /\ \A j \in Scheduling!Open : next' \in Nat /\ next' <= left[j]
    BY <2>1, <2>2 DEF Scheduling!Open
  <2>4. Drains' /\ Delays'
    BY <2>1, <2>2, <2>3, ScheduleKeeps DEF Scheduling!store
  <2>5. \A j \in Scheduling!Open : next' # Scheduling!Never /\ next' <= Scheduling!Later(left[j], RetryDelay)
    BY <2>2, <2>3 DEF Scheduling!Never, Scheduling!Later, Scheduling!Open
  <2>6. Scheduling!NothingOverlooked'
    BY <2>1, <2>5 DEF Scheduling!NothingOverlooked, Scheduling!Open, Scheduling!Covers, Scheduling!store
  <2> QED BY <2>4, <2>6 DEF WakeInv
<1>5. CASE Scheduling!RunReturns
  <2>1. /\ pc = "scheduling" /\ Scheduling!Loop(rerunRequested) /\ next' = Scheduling!Never
        /\ IF ~rerunRequested /\ next # Scheduling!Never THEN Scheduling!ScheduleAt(next) ELSE UNCHANGED <<scheduledFor, timer>>
        /\ UNCHANGED <<Scheduling!store, committed, claimed, stopped, failures>>
    BY <1>5 DEF Scheduling!RunReturns
  <2>2. next \in Nat \cup {Scheduling!Never}
    BY DEF WakeInv, Delays
  <2>3. \A i \in Scheduling!Open : ~stopped => i \in committed \/ rerunRequested \/ Scheduling!Covers(next, i)
    BY <2>1 DEF WakeInv, Scheduling!NothingOverlooked, Drains, Scheduling!Covers
  <2> QED BY <2>1, <2>2, <2>3, RunEnds
<1>6. CASE Scheduling!RunThrows
  <2>1. /\ pc \in {"claiming", "reading"} /\ Scheduling!Loop(rerunRequested) /\ next' = next
        /\ IF ~rerunRequested /\ ~stopped THEN Scheduling!ScheduleAt(RetryDelay) ELSE UNCHANGED <<scheduledFor, timer>>
        /\ UNCHANGED <<Scheduling!store, committed, claimed, stopped>>
    BY <1>6 DEF Scheduling!RunThrows
  <2>2. RetryDelay \in Nat \cup {Scheduling!Never} /\ RetryDelay # Scheduling!Never /\ next' \in Nat \cup {Scheduling!Never}
    BY <2>1 DEF WakeInv, Delays, Scheduling!Never
  <2>3. \A i \in Scheduling!Open : Scheduling!Covers(RetryDelay, i)
    BY <2>2 DEF WakeInv, Delays, Scheduling!Covers, Scheduling!Later, Scheduling!Open
  <2> QED BY <2>1, <2>2, <2>3, RunEnds
<1>7. CASE Scheduling!TimerFires
  <2>1. UNCHANGED <<Scheduling!store, committed, claimed, next, stopped, failures>> /\ timer = 0
    BY <1>7 DEF Scheduling!TimerFires
  <2>2. CASE scheduledFor > 0
    <3>1. timer' = Scheduling!Least(scheduledFor, MaxTimerDelay) /\ UNCHANGED <<pc, rerunRequested, scheduledFor>>
      BY <1>7, <2>2 DEF Scheduling!TimerFires
    <3>2. scheduledFor \in Nat /\ scheduledFor # Scheduling!Never /\ ~stopped
      BY <2>1, <2>2 DEF WakeInv, Drains, Delays, Scheduling!Never
    <3>3. timer' \in Nat /\ timer' # Scheduling!Never
      BY <3>1, <3>2 DEF Scheduling!Least, Scheduling!Never
    <3>4. Drains' /\ Delays'
      BY <2>1, <3>1, <3>2, <3>3 DEF WakeInv, Drains, Delays, Scheduling!store
    <3>5. Scheduling!NothingOverlooked'
      BY <2>1, <3>1 DEF WakeInv, Scheduling!NothingOverlooked, Scheduling!Open, Scheduling!Covers, Scheduling!store
    <3> QED BY <3>4, <3>5 DEF WakeInv
  <2>3. CASE ~(scheduledFor > 0)
    <3>1. Scheduling!RunNow
      BY <1>7, <2>3 DEF Scheduling!TimerFires
    <3> QED BY <2>1, <3>1, RunNowKeeps
  <2> QED BY <2>2, <2>3
<1>8. CASE Scheduling!Stop
  <2>1. /\ stopped' /\ scheduledFor' = Scheduling!Never /\ timer' = Scheduling!Never /\ UNCHANGED <<Scheduling!store, pc, next>>
    BY <1>8 DEF Scheduling!Stop, Scheduling!NoTimer
  <2> QED BY <2>1 DEF WakeInv, Scheduling!NothingOverlooked, Drains, Delays, Scheduling!store
<1>9. CASE Scheduling!Tick
  BY <1>9, TickKeeps
<1>10. ASSUME NEW i \in Item, Scheduling!Enqueue(i) PROVE WakeInv'
  <2>1. /\ status' = [status EXCEPT ![i] = "pending"] /\ committed' = committed \cup {i}
        /\ \E due \in 0..MaxDue : left' = [left EXCEPT ![i] = due]
        /\ UNCHANGED <<peer, claimed, Scheduling!scheduler, failures>>
    BY <1>10 DEF Scheduling!Enqueue
  <2>2. left' \in [Item -> Nat] /\ \A j \in Item \ {i} : left'[j] = left[j]
    BY <2>1 DEF WakeInv, Delays
  <2>3. Drains' /\ Delays'
    BY <2>1, <2>2, ScheduleKeeps DEF Scheduling!scheduler, WakeInv, Drains, Delays
  <2>4. \A j \in Scheduling!Open' : j = i \/ (j \in Scheduling!Open /\ j \in Item \ {i})
    BY <2>1 DEF Scheduling!Open
  <2>5. Scheduling!NothingOverlooked'
    BY <2>1, <2>2, <2>4 DEF WakeInv, Scheduling!NothingOverlooked, Scheduling!Covers, Scheduling!scheduler
  <2> QED BY <2>3, <2>5 DEF WakeInv
<1>11. ASSUME NEW i \in Item, Scheduling!Settle(i) PROVE WakeInv'
  <2>1. /\ pc = "working" /\ UNCHANGED <<peer, committed, Scheduling!scheduler>>
        /\ left' = left \/ left' = [left EXCEPT ![i] = RetryDelay]
    BY <1>11 DEF Scheduling!Settle, Scheduling!Fault
  <2>2. left' \in [Item -> Nat]
    BY <2>1 DEF WakeInv, Delays
  <2>3. Drains' /\ Delays'
    BY <2>1, <2>2, ScheduleKeeps DEF Scheduling!scheduler, WakeInv, Drains, Delays
  <2> QED BY <2>1, <2>3 DEF WakeInv, Scheduling!NothingOverlooked, Scheduling!scheduler
<1>12. ASSUME NEW i \in Item, Scheduling!PeerClaims(i) PROVE WakeInv'
  <2>1. /\ i \in Scheduling!Open /\ left[i] = 0
        /\ status' = [status EXCEPT ![i] = "processing"] /\ left' = [left EXCEPT ![i] = Lease]
        /\ UNCHANGED <<committed, claimed, Scheduling!scheduler>>
    BY <1>12 DEF Scheduling!PeerClaims, Scheduling!Claimable
  <2>2. /\ left \in [Item -> Nat] /\ left' \in [Item -> Nat]
        /\ \A j \in Item : left[j] <= left'[j]
        /\ next \in Nat \cup {Scheduling!Never} /\ scheduledFor \in Nat \cup {Scheduling!Never}
    BY <2>1 DEF WakeInv, Delays
  <2>3. Drains' /\ Delays'
    BY <2>1, <2>2, ScheduleKeeps DEF Scheduling!scheduler, WakeInv, Drains, Delays
  <2>4. \A j \in Scheduling!Open' : j \in Scheduling!Open /\ j \in Item
    BY <2>1 DEF Scheduling!Open
  <2>5. ASSUME NEW j \in Item, NEW time \in Nat \cup {Scheduling!Never}, Scheduling!Covers(time, j)
        PROVE  time # Scheduling!Never /\ time <= Scheduling!Later(left'[j], RetryDelay)
    BY <2>2, <2>5 DEF Scheduling!Covers, Scheduling!Later, Scheduling!Never
  <2>6. Scheduling!NothingOverlooked'
    <3> SUFFICES ASSUME ~stopped, NEW j \in Scheduling!Open'
                 PROVE  \/ j \in committed
                        \/ pc \in {"claiming", "working", "reading"}
                        \/ rerunRequested
                        \/ pc = "scheduling" /\ Scheduling!Covers(next, j)'
                        \/ Scheduling!Covers(scheduledFor, j)'
      BY <2>1 DEF Scheduling!NothingOverlooked, Scheduling!scheduler
    <3>1. \/ j \in committed
          \/ pc \in {"claiming", "working", "reading"}
          \/ rerunRequested
          \/ pc = "scheduling" /\ Scheduling!Covers(next, j)
          \/ Scheduling!Covers(scheduledFor, j)
      BY <2>4 DEF WakeInv, Scheduling!NothingOverlooked
    <3>2. (Scheduling!Covers(next, j) => Scheduling!Covers(next, j)') /\ (Scheduling!Covers(scheduledFor, j) => Scheduling!Covers(scheduledFor, j)')
      BY <2>1, <2>2, <2>4, <2>5 DEF Scheduling!Covers, Scheduling!scheduler
    <3> QED BY <3>1, <3>2
  <2> QED BY <2>3, <2>6 DEF WakeInv
<1>13. ASSUME NEW i \in Item, Scheduling!PeerSettles(i) PROVE WakeInv'
  <2>1. status' = [status EXCEPT ![i] = "done"] /\ UNCHANGED <<left, committed, claimed, Scheduling!scheduler, failures>>
    BY <1>13 DEF Scheduling!PeerSettles
  <2>2. \A j \in Scheduling!Open' : j \in Scheduling!Open
    BY <2>1 DEF Scheduling!Open
  <2>3. Drains' /\ Delays'
    BY <2>1 DEF WakeInv, Drains, Delays, Scheduling!scheduler
  <2>4. Scheduling!NothingOverlooked'
    BY <2>1, <2>2 DEF WakeInv, Scheduling!NothingOverlooked, Scheduling!Covers, Scheduling!scheduler
  <2> QED BY <2>3, <2>4 DEF WakeInv
<1>14. CASE UNCHANGED Scheduling!vars
  BY <1>14 DEF Scheduling!vars, Scheduling!store, Scheduling!scheduler, WakeInv, Drains, Delays, Scheduling!NothingOverlooked, Scheduling!Open, Scheduling!Covers
<1> QED BY <1>1, <1>2, <1>3, <1>4, <1>5, <1>6, <1>7, <1>8, <1>9, <1>10, <1>11, <1>12, <1>13, <1>14 DEF Scheduling!Next

(* The kinds of the scheduler's records, and its timer: a further round is  *)
(* asked for during a run only, and no timer is set beyond its schedule.     *)
Kinds ==
    /\ status \in [Item -> {"absent", "pending", "processing", "done"}]
    /\ committed \subseteq Item /\ claimed \subseteq Item /\ peer \subseteq Item
    /\ rerunRequested => pc # "idle" /\ ~stopped
    /\ timer <= scheduledFor

(* The head of the loop and the end of a run keep them.                      *)
LEMMA LoopKeeps ==
    ASSUME Scheduling!SchedulerAssumption, WakeInv, Kinds, Scheduling!Loop(rerunRequested),
           UNCHANGED <<Scheduling!store, committed, claimed, stopped>>,
           \/ \E time \in Nat : Scheduling!ScheduleAt(time)
           \/ UNCHANGED <<scheduledFor, timer>>
    PROVE  Kinds'
<1> USE Delayed
<1>1. rerunRequested' => pc' # "idle" /\ ~stopped'
  BY DEF Scheduling!Loop, Kinds
<1>2. timer' <= scheduledFor'
  BY DEF Scheduling!ScheduleAt, Scheduling!Least, Scheduling!Never, Kinds
<1> QED BY <1>1, <1>2 DEF Kinds, Scheduling!store

(* So does runNow, which clears the schedule.                                *)
LEMMA RunNowKeepsKinds ==
    ASSUME Kinds, Scheduling!RunNow, UNCHANGED <<Scheduling!store, stopped>>,
           committed' \subseteq Item, claimed' = claimed
    PROVE  Kinds'
BY DEF Kinds, Scheduling!RunNow, Scheduling!NoTimer, Scheduling!store, Scheduling!Never

(* ... and every step.                                                       *)
LEMMA KindsNext ==
    ASSUME Scheduling!SchedulerAssumption, WakeInv, Kinds, [Scheduling!Next]_(Scheduling!vars)
    PROVE  Kinds'
<1> USE Delayed
<1>1. CASE Scheduling!Committed
  BY <1>1, RunNowKeepsKinds DEF Scheduling!Committed
<1>2. CASE Scheduling!Claim
  <2>1. PICK batch \in SUBSET Scheduling!Claimable :
           /\ claimed' = batch /\ peer' = peer \ batch
           /\ status' = [i \in Item |-> IF i \in batch THEN "processing" ELSE status[i]]
    BY <1>2 DEF Scheduling!Claim
  <2>2. batch \subseteq Item
    BY DEF Scheduling!Claimable, Scheduling!Open
  <2>3. /\ pc' = "working"
        /\ UNCHANGED <<committed, rerunRequested, scheduledFor, timer, stopped>>
    BY <1>2 DEF Scheduling!Claim
  <2> QED BY <2>1, <2>2, <2>3 DEF Kinds
<1>3. CASE Scheduling!WorkDone
  BY <1>3 DEF Scheduling!WorkDone, Kinds, Scheduling!store
<1>4. CASE Scheduling!ReadNext
  BY <1>4 DEF Scheduling!ReadNext, Kinds, Scheduling!store
<1>5. CASE Scheduling!RunReturns
  <2>1. next \in Nat \cup {Scheduling!Never}
    BY DEF WakeInv, Delays
  <2>2. \/ \E time \in Nat : Scheduling!ScheduleAt(time)
        \/ UNCHANGED <<scheduledFor, timer>>
    BY <1>5, <2>1 DEF Scheduling!RunReturns
  <2> QED BY <1>5, <2>2, LoopKeeps DEF Scheduling!RunReturns
<1>6. CASE Scheduling!RunThrows
  <2>1. \/ \E time \in Nat : Scheduling!ScheduleAt(time)
        \/ UNCHANGED <<scheduledFor, timer>>
    BY <1>6 DEF Scheduling!RunThrows
  <2> QED BY <1>6, <2>1, LoopKeeps DEF Scheduling!RunThrows
<1>7. CASE Scheduling!TimerFires
  <2>1. UNCHANGED <<Scheduling!store, committed, claimed, stopped>>
    BY <1>7 DEF Scheduling!TimerFires
  <2>2. CASE scheduledFor > 0
    <3>1. timer' = Scheduling!Least(scheduledFor, MaxTimerDelay) /\ UNCHANGED <<pc, rerunRequested, scheduledFor>>
      BY <1>7, <2>2 DEF Scheduling!TimerFires
    <3>2. timer' <= scheduledFor
      BY <3>1 DEF Scheduling!Least, WakeInv, Delays, Scheduling!Never
    <3> QED BY <2>1, <3>1, <3>2 DEF Kinds, Scheduling!store
  <2>3. CASE ~(scheduledFor > 0)
    BY <1>7, <2>1, <2>3, RunNowKeepsKinds DEF Scheduling!TimerFires, Kinds
  <2> QED BY <2>2, <2>3
<1>8. CASE Scheduling!Stop
  BY <1>8 DEF Scheduling!Stop, Scheduling!NoTimer, Kinds, Scheduling!store, Scheduling!Never
<1>9. CASE Scheduling!Tick
  <2>1. scheduledFor \in Nat \cup {Scheduling!Never} /\ timer \in Nat \cup {Scheduling!Never}
    BY DEF WakeInv, Delays
  <2>2. /\ scheduledFor' = Scheduling!Minus(scheduledFor) /\ timer' = Scheduling!Minus(timer)
        /\ UNCHANGED <<status, peer, committed, claimed, pc, rerunRequested, stopped>>
    BY <1>9 DEF Scheduling!Tick
  <2>3. timer' <= scheduledFor'
    BY <2>1, <2>2 DEF Scheduling!Minus, Scheduling!Never, Kinds
  <2> QED BY <2>2, <2>3 DEF Kinds
<1>10. ASSUME NEW i \in Item, Scheduling!Enqueue(i) PROVE Kinds'
  BY <1>10 DEF Scheduling!Enqueue, Kinds, Scheduling!scheduler
<1>11. ASSUME NEW i \in Item, Scheduling!Settle(i) PROVE Kinds'
  <2>1. status' = status \/ status' = [status EXCEPT ![i] = "done"] \/ status' = [status EXCEPT ![i] = "pending"]
    BY <1>11 DEF Scheduling!Settle
  <2>2. claimed' = claimed \ {i} /\ UNCHANGED <<peer, committed, Scheduling!scheduler>>
    BY <1>11 DEF Scheduling!Settle
  <2> QED BY <2>1, <2>2 DEF Kinds, Scheduling!scheduler
<1>12. ASSUME NEW i \in Item, Scheduling!PeerClaims(i) PROVE Kinds'
  BY <1>12 DEF Scheduling!PeerClaims, Kinds, Scheduling!scheduler
<1>13. ASSUME NEW i \in Item, Scheduling!PeerSettles(i) PROVE Kinds'
  BY <1>13 DEF Scheduling!PeerSettles, Kinds, Scheduling!scheduler
<1>14. CASE UNCHANGED Scheduling!vars
  BY <1>14 DEF Scheduling!vars, Scheduling!store, Scheduling!scheduler, Kinds
<1> QED BY <1>1, <1>2, <1>3, <1>4, <1>5, <1>6, <1>7, <1>8, <1>9, <1>10, <1>11, <1>12, <1>13, <1>14 DEF Scheduling!Next

(* They are the types of the module.                                         *)
LEMMA SchedulingTypes == ASSUME WakeInv, Kinds PROVE Scheduling!TypeOK
BY DEF WakeInv, Drains, Delays, Kinds, Scheduling!TypeOK, Scheduling!Never

(* A decision that is not settled is looked at again no later than it can  *)
(* be claimed, or than the retry delay after a failing run, whatever the   *)
(* order of commits, runs, failures and timers (createDueWorkScheduler).   *)
THEOREM NothingOverlookedHolds ==
    ASSUME Scheduling!SchedulerAssumption
    PROVE  Scheduling!Spec => []Scheduling!NothingOverlooked
<1>1. WakeInv => Scheduling!NothingOverlooked
  BY DEF WakeInv
<1>2. WakeInv /\ [Scheduling!Next]_(Scheduling!vars) => WakeInv'
  BY WakeInvNext
<1> QED BY WakeInvInit, <1>1, <1>2, PTL DEF Scheduling!Spec

(* After stop no further run begins.                                       *)
THEOREM StopIsFinalHolds == Scheduling!Spec => Scheduling!StopIsFinal
<1>1. [Scheduling!Next]_(Scheduling!vars) => [stopped /\ pc' = "claiming" => pc = "claiming"]_(Scheduling!vars)
  <2> SUFFICES ASSUME [Scheduling!Next]_(Scheduling!vars), stopped, pc' = "claiming", ~UNCHANGED Scheduling!vars PROVE pc = "claiming"
    OBVIOUS
  <2> QED BY DEF Scheduling!Next, Scheduling!vars, Scheduling!scheduler, Scheduling!Committed, Scheduling!Claim, Scheduling!WorkDone, Scheduling!ReadNext, Scheduling!RunReturns, Scheduling!RunThrows, Scheduling!TimerFires,
                 Scheduling!Stop, Scheduling!Tick, Scheduling!Enqueue, Scheduling!Settle, Scheduling!PeerClaims, Scheduling!PeerSettles, Scheduling!RunNow, Scheduling!Loop
<1> QED BY <1>1, PTL DEF Scheduling!Spec, Scheduling!StopIsFinal

-----------------------------------------------------------------------------
(* RoomLobby.  The records of a session and of a room.                      *)
SessionRecord ==
    [index : Nat \ {0}, phase : Lobby!Phase, players : SUBSET Account,
     character : UNION {[players -> Character \cup {Lobby!NoCharacter}] : players \in SUBSET Account},
     ready : SUBSET Account]

RoomRecord ==
    [status : {"open", "active", "closed"}, reason : {"none", "idle_timeout", "host_closed"},
     host : Account, locked : BOOLEAN, spectators : BOOLEAN,
     role : [Account -> {"none", "player", "spectator"}],
     session : SessionRecord \cup {Lobby!NoSession}, history : Seq(Nat)]

(* The fields of a session.                                                 *)
LEMMA SessionFields ==
    ASSUME NEW s \in SessionRecord
    PROVE  s = [index |-> s.index, phase |-> s.phase, players |-> s.players, character |-> s.character, ready |-> s.ready]
BY DEF SessionRecord

(* A session whose character, readiness and phase are set.                  *)
LEMMA Reselected ==
    ASSUME NEW s \in SessionRecord, NEW phase, NEW character, NEW ready
    PROVE  [s EXCEPT !.character = character, !.ready = ready, !.phase = phase]
           = [index |-> s.index, phase |-> phase, players |-> s.players, character |-> character, ready |-> ready]
<1> DEFINE i == s.index
           players == s.players
           R0 == [index |-> i, phase |-> s.phase, players |-> players, character |-> s.character, ready |-> s.ready]
           R1 == [index |-> i, phase |-> s.phase, players |-> players, character |-> character, ready |-> s.ready]
           R2 == [index |-> i, phase |-> s.phase, players |-> players, character |-> character, ready |-> ready]
           R3 == [index |-> i, phase |-> phase, players |-> players, character |-> character, ready |-> ready]
<1>0. s = R0
  BY SessionFields
<1> HIDE DEF i, players
<1>1. [R0 EXCEPT !.character = character] = R1
  OBVIOUS
<1>2. [R1 EXCEPT !.ready = ready] = R2
  OBVIOUS
<1>3. [R2 EXCEPT !.phase = phase] = R3
  OBVIOUS
<1>4. [s EXCEPT !.character = character, !.ready = ready, !.phase = phase]
      = [[[s EXCEPT !.character = character] EXCEPT !.ready = ready] EXCEPT !.phase = phase]
  OBVIOUS
<1> HIDE DEF R0, R1, R2, R3
<1>5. [s EXCEPT !.character = character] = R1
  BY <1>0, <1>1
<1>6. [s EXCEPT !.character = character, !.ready = ready, !.phase = phase] = R3
  BY <1>2, <1>3, <1>4, <1>5
<1> QED BY <1>6 DEF R3, i, players

(* A session whose readiness and phase are set.                             *)
LEMMA Readied ==
    ASSUME NEW s \in SessionRecord, NEW phase, NEW ready
    PROVE  [s EXCEPT !.ready = ready, !.phase = phase]
           = [index |-> s.index, phase |-> phase, players |-> s.players, character |-> s.character, ready |-> ready]
<1> DEFINE i == s.index
           players == s.players
           character == s.character
           R0 == [index |-> i, phase |-> s.phase, players |-> players, character |-> character, ready |-> s.ready]
           R1 == [index |-> i, phase |-> s.phase, players |-> players, character |-> character, ready |-> ready]
           R2 == [index |-> i, phase |-> phase, players |-> players, character |-> character, ready |-> ready]
<1>0. s = R0
  BY SessionFields
<1> HIDE DEF i, players, character
<1>1. [R0 EXCEPT !.ready = ready] = R1
  OBVIOUS
<1>2. [R1 EXCEPT !.phase = phase] = R2
  OBVIOUS
<1>3. [s EXCEPT !.ready = ready, !.phase = phase] = [[s EXCEPT !.ready = ready] EXCEPT !.phase = phase]
  OBVIOUS
<1> HIDE DEF R0, R1, R2
<1>4. [s EXCEPT !.ready = ready] = R1
  BY <1>0, <1>1
<1>5. [s EXCEPT !.ready = ready, !.phase = phase] = R2
  BY <1>2, <1>3, <1>4
<1> QED BY <1>5 DEF R2, i, players, character

(* The phase of a session says how far its players are.                     *)
SessionStands(s) ==
    /\ s.character \in [s.players -> Character \cup {Lobby!NoCharacter}]
    /\ s.ready \subseteq s.players
    /\ s.phase = "character_select" <=> \E p \in s.players : s.character[p] = Lobby!NoCharacter
    /\ s.phase \in {"in_match", "completed"} => s.ready = s.players

(* The history of a room ends with the outcome of the session, or of the    *)
(* one before as long as the session is not completed.                      *)
HistoryStands(s, history) ==
    /\ Len(history) <= MaxHistory
    /\ s = Lobby!NoSession => history = <<>>
    /\ \A i, j \in DOMAIN history : i < j => history[i] < history[j]
    /\ \A i \in DOMAIN history : history[i] <= s.index
    /\ history # <<>> =>
          history[Len(history)] = IF s.phase = "completed" THEN s.index ELSE s.index - 1

RoomStands(r) ==
    /\ r \in RoomRecord
    /\ r.role[r.host] # "none"
    /\ r.session # Lobby!NoSession => SessionStands(r.session)
    /\ HistoryStands(r.session, r.history)

RoomInv == age \in Nat /\ (room = Lobby!NoRoom \/ RoomStands(room))

(* What is assumed of the limits of a room.                                 *)
LEMMA Limits ==
    ASSUME Lobby!RoomAssumption
    PROVE  MaxParticipants \in Nat /\ MaxSpectators \in Nat /\ MaxHistory \in Nat /\ MaxSessions \in Nat
BY DEF Lobby!RoomAssumption

(* A room that stands is a room, and a session of it a session.             *)
LEMMA Rooms ==
    /\ \A r \in RoomRecord : r # Lobby!NoRoom
    /\ \A s \in SessionRecord : s # Lobby!NoSession
<1>1. ASSUME NEW r \in RoomRecord PROVE r # Lobby!NoRoom
  <2>1. r.status # "none"
    BY <1>1 DEF RoomRecord
  <2> QED BY <2>1 DEF Lobby!NoRoom
<1>2. ASSUME NEW s \in SessionRecord PROVE s # Lobby!NoSession
  <2>1. s.index # 0
    BY <1>2 DEF SessionRecord
  <2> QED BY <2>1 DEF Lobby!NoSession
<1> QED BY <1>1, <1>2

(* The sweep that every call begins with leaves a room that stands, with    *)
(* its members, its session and its history, or none.                       *)
LEMMA SweptStands ==
    ASSUME RoomInv
    PROVE  \/ Lobby!Swept = Lobby!NoRoom
           \/ /\ room # Lobby!NoRoom /\ RoomStands(Lobby!Swept)
              /\ Lobby!Swept.session = room.session /\ Lobby!Swept.history = room.history
              /\ room.status = "closed" => Lobby!Swept = room
<1> DEFINE idle == [room EXCEPT !.status = "closed", !.reason = "idle_timeout"]
<1>1. CASE room = Lobby!NoRoom
  BY <1>1 DEF Lobby!Swept
<1>2. CASE room # Lobby!NoRoom
  <2>1. RoomStands(room) /\ room \in RoomRecord
    BY <1>2 DEF RoomInv, RoomStands
  <2>2. /\ idle \in RoomRecord /\ idle.session = room.session /\ idle.history = room.history
        /\ idle.role = room.role /\ idle.host = room.host
    BY <2>1 DEF RoomRecord
  <2>3. RoomStands(idle)
    BY <2>1, <2>2 DEF RoomStands
  <2> HIDE DEF idle
  <2>4. Lobby!Swept = Lobby!NoRoom \/ Lobby!Swept = room \/ (room.status # "closed" /\ Lobby!Swept = idle)
    BY <1>2 DEF Lobby!Swept, idle
  <2> QED BY <1>2, <2>1, <2>2, <2>3, <2>4
<1> QED BY <1>1, <1>2

(* An operation that leaves the session, the history and the host alone.    *)
LEMMA KeepsSession ==
    ASSUME NEW r, RoomStands(r), NEW n \in RoomRecord, n.session = r.session, n.history = r.history,
           n.role[n.host] # "none"
    PROVE  RoomStands(n)
BY DEF RoomStands

(* A host that creates a room is its only member.                           *)
LEMMA CreatedStands ==
    ASSUME Lobby!RoomAssumption, NEW a \in Account, Lobby!CreateRoom(a)
    PROVE  RoomStands(room') /\ age' = 0
<1>1. PICK spectators \in BOOLEAN :
         Lobby!Update([status |-> "open", reason |-> "none", host |-> a,
                       locked |-> FALSE, spectators |-> spectators,
                       role |-> [b \in Account |-> IF b = a THEN "player" ELSE "none"],
                       session |-> Lobby!NoSession, history |-> <<>>])
  BY DEF Lobby!CreateRoom
<1>2. /\ room'.session = Lobby!NoSession /\ room'.history = <<>>
      /\ room'.host = a /\ room'.role[a] = "player" /\ age' = 0
  BY <1>1 DEF Lobby!Update
<1>3. room' \in RoomRecord
  BY <1>1 DEF Lobby!Update, RoomRecord
<1>4. HistoryStands(room'.session, room'.history)
  <2>1. Len(<<>>) = 0 /\ DOMAIN <<>> = {}
    OBVIOUS
  <2> QED BY <1>2, <2>1, Limits DEF HistoryStands
<1> QED BY <1>2, <1>3, <1>4 DEF RoomStands

(* The settings, the membership, the end of a room and its invite.          *)
LEMMA MembersStand ==
    ASSUME RoomStands(Lobby!Swept), NEW a \in Account,
           \/ \E locked, spectators \in BOOLEAN : Lobby!UpdateSettings(a, locked, spectators)
           \/ \E role \in {"player", "spectator"} : Lobby!Join(a, role)
           \/ Lobby!CloseRoom(a) \/ Lobby!GetInvite(a)
    PROVE  /\ RoomStands(room') /\ age' = 0
           /\ room'.session = Lobby!Swept.session /\ room'.history = Lobby!Swept.history
<1> DEFINE r == Lobby!Swept
<1>1. r \in RoomRecord /\ r.role[r.host] # "none"
  BY DEF RoomStands
<1>2. ASSUME NEW n \in RoomRecord, Lobby!Update(n), n.session = r.session, n.history = r.history,
             n.role[n.host] # "none"
      PROVE  /\ RoomStands(room') /\ age' = 0
             /\ room'.session = r.session /\ room'.history = r.history
  BY <1>2, KeepsSession DEF Lobby!Update
<1> HIDE DEF r
<1>3. ASSUME NEW locked \in BOOLEAN, NEW spectators \in BOOLEAN, Lobby!UpdateSettings(a, locked, spectators)
      PROVE  /\ RoomStands(room') /\ age' = 0 /\ room'.session = r.session /\ room'.history = r.history
  <2> DEFINE n == [r EXCEPT !.locked = locked, !.spectators = spectators]
  <2>1. n \in RoomRecord /\ n.session = r.session /\ n.history = r.history /\ n.role = r.role /\ n.host = r.host
    BY <1>1 DEF RoomRecord
  <2>2. Lobby!Update(n)
    BY <1>3 DEF Lobby!UpdateSettings, r
  <2> HIDE DEF n
  <2> QED BY <1>1, <1>2, <2>1, <2>2
<1>4. ASSUME NEW role \in {"player", "spectator"}, Lobby!Join(a, role)
      PROVE  /\ RoomStands(room') /\ age' = 0 /\ room'.session = r.session /\ room'.history = r.history
  <2> DEFINE n == [r EXCEPT !.role[a] = role]
  <2>1. /\ n \in RoomRecord /\ n.session = r.session /\ n.history = r.history
        /\ n.role = [r.role EXCEPT ![a] = role] /\ n.host = r.host
    BY <1>1 DEF RoomRecord
  <2>2. Lobby!Update(n)
    BY <1>4 DEF Lobby!Join, r
  <2>3. n.role[n.host] # "none"
    BY <1>1, <2>1 DEF RoomRecord
  <2> HIDE DEF n
  <2> QED BY <1>2, <2>1, <2>2, <2>3
<1>5. ASSUME Lobby!CloseRoom(a)
      PROVE  /\ RoomStands(room') /\ age' = 0 /\ room'.session = r.session /\ room'.history = r.history
  <2> DEFINE n == [r EXCEPT !.status = "closed", !.reason = "host_closed"]
  <2>1. n \in RoomRecord /\ n.session = r.session /\ n.history = r.history /\ n.role = r.role /\ n.host = r.host
    BY <1>1 DEF RoomRecord
  <2>2. Lobby!Update(n)
    BY <1>5 DEF Lobby!CloseRoom, r
  <2> HIDE DEF n
  <2> QED BY <1>1, <1>2, <2>1, <2>2
<1>6. ASSUME Lobby!GetInvite(a)
      PROVE  /\ RoomStands(room') /\ age' = 0 /\ room'.session = r.session /\ room'.history = r.history
  BY <1>1, <1>2, <1>6 DEF Lobby!GetInvite, r
<1> QED BY <1>3, <1>4, <1>5, <1>6 DEF r

(* The instance of the module counts as its original does.                  *)
LEMMA Counting == \A S : Lobby!Cardinality(S) = Cardinality(S)
BY DEF Lobby!Cardinality, Cardinality

(* A new session starts from a completed one.                               *)
LEMMA BegunStands ==
    ASSUME Lobby!RoomAssumption, RoomStands(Lobby!Swept), NEW a \in Account, Lobby!Begin(a)
    PROVE  /\ RoomStands(room') /\ age' = 0
           /\ room'.session.index # Lobby!Swept.session.index
<1> DEFINE r == Lobby!Swept
           P == Lobby!Players(r)
           s == [index |-> r.session.index + 1, phase |-> "character_select", players |-> P,
                 character |-> [p \in P |-> Lobby!NoCharacter], ready |-> {}]
           n == [r EXCEPT !.status = "active", !.session = s]
<1>1. r \in RoomRecord /\ r.role[r.host] # "none" /\ HistoryStands(r.session, r.history)
  BY DEF RoomStands
<1>2. P \in SUBSET Account /\ Cardinality(P) >= 2 /\ Lobby!Update(n)
      /\ (r.session # Lobby!NoSession => r.session.phase = "completed")
  <2>1. P \in SUBSET Account
    BY DEF Lobby!Players
  <2>2. /\ Cardinality(Lobby!Players(Lobby!Swept)) >= 2
        /\ r.session # Lobby!NoSession => r.session.phase = "completed"
    BY Counting DEF Lobby!Begin
  <2>3. Lobby!Update(n)
    BY DEF Lobby!Begin
  <2> QED BY <2>1, <2>2, <2>3
<1> HIDE DEF r, P
<1>3. P # {}
  <2>1. Cardinality({}) = 0
    BY FS_EmptySet
  <2> QED BY <1>2, <2>1
<1>4. r.session.index \in Nat
  BY <1>1 DEF RoomRecord, SessionRecord, Lobby!NoSession
<1>5. s \in SessionRecord /\ SessionStands(s)
  <2>1. [p \in P |-> Lobby!NoCharacter] \in [P -> Character \cup {Lobby!NoCharacter}]
    OBVIOUS
  <2>2. s \in SessionRecord
    BY <1>2, <1>4, <2>1 DEF SessionRecord, Lobby!Phase
  <2> QED BY <1>2, <1>3, <2>1, <2>2 DEF SessionStands
<1>6. s.index = r.session.index + 1 /\ s.phase = "character_select"
  OBVIOUS
<1> HIDE DEF s
<1>7. n \in RoomRecord /\ n.session = s /\ n.history = r.history /\ n.role = r.role /\ n.host = r.host
  BY <1>1, <1>5 DEF RoomRecord
<1>8. HistoryStands(s, r.history)
  <2>1. r.history \in Seq(Nat)
    BY <1>1 DEF RoomRecord
  <2>2. r.session = Lobby!NoSession => r.history = <<>>
    BY <1>1 DEF HistoryStands
  <2>3. r.history # <<>> => r.history[Len(r.history)] = s.index - 1
    BY <1>1, <1>2, <1>4, <1>6, <2>2 DEF HistoryStands
  <2>4. \A i \in DOMAIN r.history : r.history[i] <= s.index
    BY <1>1, <1>4, <1>6, <2>1 DEF HistoryStands
  <2>5. s # Lobby!NoSession
    BY <1>5, Rooms
  <2> QED BY <1>1, <1>6, <2>3, <2>4, <2>5 DEF HistoryStands
<1> HIDE DEF n
<1>9. RoomStands(n)
  BY <1>1, <1>5, <1>7, <1>8 DEF RoomStands
<1> QED BY <1>2, <1>4, <1>6, <1>7, <1>9 DEF Lobby!Update, r

(* The phase of a session after a choice.                                   *)
LEMMA SelectedStands ==
    ASSUME RoomStands(Lobby!Swept), NEW a \in Account, NEW c \in Character, Lobby!SelectCharacter(a, c)
    PROVE  /\ RoomStands(room') /\ age' = 0
           /\ room'.session.index = Lobby!Swept.session.index /\ room'.history = Lobby!Swept.history
           /\ Lobby!Swept.session # Lobby!NoSession
           /\ \A p \in Lobby!Swept.session.players :
                 room'.session.character[p] # Lobby!Swept.session.character[p] => p \notin room'.session.ready
<1> DEFINE r == Lobby!Swept
           s == r.session
           chosen == [s.character EXCEPT ![a] = c]
           phase == IF \A p \in s.players : chosen[p] # Lobby!NoCharacter THEN "ready_check" ELSE "character_select"
           t == [s EXCEPT !.character = chosen, !.ready = @ \ {a}, !.phase = phase]
           n == [r EXCEPT !.session = t]
<1>1. r \in RoomRecord /\ r.role[r.host] # "none" /\ HistoryStands(s, r.history)
      /\ (s # Lobby!NoSession => SessionStands(s))
  BY DEF RoomStands
<1>2. /\ s # Lobby!NoSession /\ a \in s.players /\ s.phase \in {"character_select", "ready_check"}
      /\ Lobby!Update(n)
  BY DEF Lobby!SelectCharacter, Lobby!InSession, Lobby!Session
<1> HIDE DEF r
<1>3. s \in SessionRecord
  BY <1>1, <1>2 DEF RoomRecord
<1> HIDE DEF s
<1>4. /\ s.index \in Nat \ {0} /\ s.players \in SUBSET Account /\ s.ready \in SUBSET Account
      /\ s.phase \in Lobby!Phase
      /\ s.character \in [s.players -> Character \cup {Lobby!NoCharacter}] /\ s.ready \subseteq s.players
  BY <1>1, <1>2, <1>3 DEF SessionRecord, SessionStands
<1>5. /\ chosen \in [s.players -> Character \cup {Lobby!NoCharacter}]
      /\ \A p \in s.players : p # a => chosen[p] = s.character[p]
  BY <1>4
<1>6. phase \in {"character_select", "ready_check"}
      /\ (phase = "character_select" <=> \E p \in s.players : chosen[p] = Lobby!NoCharacter)
  OBVIOUS
<1> HIDE DEF chosen, phase
<1>7. /\ t.index = s.index /\ t.players = s.players /\ t.character = chosen /\ t.ready = s.ready \ {a}
      /\ t.phase = phase /\ t \in SessionRecord
  <2>1. t = [index |-> s.index, phase |-> phase, players |-> s.players, character |-> chosen, ready |-> s.ready \ {a}]
    <3> DEFINE ready == s.ready \ {a}
    <3>1. t = [s EXCEPT !.character = chosen, !.ready = ready, !.phase = phase]
      OBVIOUS
    <3> HIDE DEF ready, t
    <3>2. t = [index |-> s.index, phase |-> phase, players |-> s.players, character |-> chosen, ready |-> ready]
      BY <1>3, <3>1, Reselected, Zenon
    <3> QED BY <3>2 DEF ready
  <2> HIDE DEF t
  <2> QED BY <1>4, <1>5, <1>6, <2>1 DEF SessionRecord, Lobby!Phase
<1> HIDE DEF t
<1>8. SessionStands(t)
  BY <1>4, <1>5, <1>6, <1>7 DEF SessionStands
<1>9. n \in RoomRecord /\ n.session = t /\ n.history = r.history /\ n.role = r.role /\ n.host = r.host
  BY <1>1, <1>7 DEF RoomRecord
<1>10. HistoryStands(t, r.history)
  <2>1. t # Lobby!NoSession
    BY <1>7, Rooms
  <2>2. s.phase # "completed" /\ t.phase # "completed"
    BY <1>2, <1>6, <1>7
  <2> QED BY <1>1, <1>7, <2>1, <2>2 DEF HistoryStands
<1> HIDE DEF n
<1>11. RoomStands(n)
  BY <1>1, <1>8, <1>9, <1>10 DEF RoomStands
<1>12. room' = n /\ age' = 0
  BY <1>2 DEF Lobby!Update
<1>13. \A p \in s.players : t.character[p] # s.character[p] => p \notin t.ready
  BY <1>5, <1>7
<1> QED BY <1>2, <1>7, <1>9, <1>11, <1>12, <1>13 DEF r, s

(* The last player to be ready starts the match.                            *)
LEMMA ReadiedStands ==
    ASSUME RoomStands(Lobby!Swept), NEW a \in Account, NEW ready \in BOOLEAN, Lobby!SetReady(a, ready)
    PROVE  /\ RoomStands(room') /\ age' = 0
           /\ room'.session.index = Lobby!Swept.session.index /\ room'.history = Lobby!Swept.history
           /\ Lobby!Swept.session # Lobby!NoSession
           /\ room'.session.character = Lobby!Swept.session.character
<1> DEFINE r == Lobby!Swept
           s == r.session
           ok == IF ready THEN s.ready \cup {a} ELSE s.ready \ {a}
           phase == IF ok = s.players THEN "in_match" ELSE s.phase
           t == [s EXCEPT !.ready = ok, !.phase = phase]
           n == [r EXCEPT !.session = t]
<1>1. r \in RoomRecord /\ r.role[r.host] # "none" /\ HistoryStands(s, r.history)
      /\ (s # Lobby!NoSession => SessionStands(s))
  BY DEF RoomStands
<1>2. /\ s # Lobby!NoSession /\ a \in s.players /\ s.phase = "ready_check"
      /\ Lobby!Update(n)
  BY DEF Lobby!SetReady, Lobby!InSession, Lobby!Session
<1> HIDE DEF r
<1>3. s \in SessionRecord
  BY <1>1, <1>2 DEF RoomRecord
<1> HIDE DEF s
<1>4. /\ s.index \in Nat \ {0} /\ s.players \in SUBSET Account /\ s.ready \in SUBSET Account
      /\ s.phase \in Lobby!Phase
      /\ s.character \in [s.players -> Character \cup {Lobby!NoCharacter}] /\ s.ready \subseteq s.players
      /\ ~(\E p \in s.players : s.character[p] = Lobby!NoCharacter)
  BY <1>1, <1>2, <1>3 DEF SessionRecord, SessionStands
<1>5. ok \subseteq s.players
  BY <1>2, <1>4
<1>6. phase \in {"in_match", "ready_check"} /\ (phase = "in_match" => ok = s.players)
  BY <1>2
<1> HIDE DEF ok, phase
<1>7. /\ t.index = s.index /\ t.players = s.players /\ t.character = s.character /\ t.ready = ok
      /\ t.phase = phase /\ t \in SessionRecord
  <2>1. t = [index |-> s.index, phase |-> phase, players |-> s.players, character |-> s.character, ready |-> ok]
    <3>1. t = [s EXCEPT !.ready = ok, !.phase = phase]
      OBVIOUS
    <3> HIDE DEF t
    <3> QED BY <1>3, <3>1, Readied, Zenon
  <2> HIDE DEF t
  <2> QED BY <1>4, <1>5, <1>6, <2>1 DEF SessionRecord, Lobby!Phase
<1> HIDE DEF t
<1>8. SessionStands(t)
  BY <1>4, <1>5, <1>6, <1>7 DEF SessionStands
<1>9. n \in RoomRecord /\ n.session = t /\ n.history = r.history /\ n.role = r.role /\ n.host = r.host
  BY <1>1, <1>7 DEF RoomRecord
<1>10. HistoryStands(t, r.history)
  <2>1. t # Lobby!NoSession
    BY <1>7, Rooms
  <2>2. s.phase # "completed" /\ t.phase # "completed"
    BY <1>2, <1>6, <1>7
  <2> QED BY <1>1, <1>7, <2>1, <2>2 DEF HistoryStands
<1> HIDE DEF n
<1>11. RoomStands(n)
  BY <1>1, <1>8, <1>9, <1>10 DEF RoomStands
<1>12. room' = n /\ age' = 0
  BY <1>2 DEF Lobby!Update
<1> QED BY <1>2, <1>7, <1>9, <1>11, <1>12 DEF r, s

(* The history after an outcome: it still goes up, and ends with it.        *)
LEMMA RecordedStands ==
    ASSUME Lobby!RoomAssumption, NEW history \in Seq(Nat), NEW index \in Nat,
           Len(history) <= MaxHistory,
           \A i, j \in DOMAIN history : i < j => history[i] < history[j],
           \A i \in DOMAIN history : history[i] <= index - 1
    PROVE  LET h == Lobby!Recorded(history, index)
           IN  /\ h \in Seq(Nat) /\ Len(h) <= MaxHistory
               /\ \A i, j \in DOMAIN h : i < j => h[i] < h[j]
               /\ \A i \in DOMAIN h : h[i] <= index
               /\ h # <<>> => h[Len(h)] = index
<1> DEFINE longer == Append(history, index)
<1>1. MaxHistory \in Nat
  BY Limits
<1>2. /\ longer \in Seq(Nat) /\ Len(longer) = Len(history) + 1 /\ longer # <<>>
      /\ \A i \in DOMAIN longer : \/ i = Len(history) + 1 /\ longer[i] = index
                                  \/ i \in DOMAIN history /\ longer[i] = history[i]
      /\ longer[Len(history) + 1] = index
  <2>1. longer \in Seq(Nat) /\ Len(longer) = Len(history) + 1 /\ Len(history) \in Nat
        /\ DOMAIN history = 1..Len(history) /\ DOMAIN longer = 1..(Len(history) + 1)
    OBVIOUS
  <2>2. \A i \in 1..Len(history) : longer[i] = history[i]
    OBVIOUS
  <2>3. longer[Len(history) + 1] = index
    OBVIOUS
  <2> HIDE DEF longer
  <2>4. longer # <<>>
    BY <2>1
  <2>5. \A i \in 1..(Len(history) + 1) : i = Len(history) + 1 \/ i \in 1..Len(history)
    BY <2>1
  <2> QED BY <2>1, <2>2, <2>3, <2>4, <2>5
<1>3. Len(history) \in Nat /\ DOMAIN history = 1..Len(history) /\ DOMAIN longer = 1..(Len(history) + 1)
  BY <1>2
<1>4. \A i \in DOMAIN history : history[i] \in Nat
  OBVIOUS
<1> HIDE DEF longer
<1>5. /\ \A i, j \in DOMAIN longer : i < j => longer[i] < longer[j]
      /\ \A i \in DOMAIN longer : longer[i] <= index
  <2>1. ASSUME NEW i \in DOMAIN longer, NEW j \in DOMAIN longer, i < j
        PROVE  longer[i] < longer[j]
    <3>1. i \in DOMAIN history /\ longer[i] = history[i]
      BY <1>2, <1>3, <2>1
    <3>2. CASE longer[j] = index
      BY <1>4, <3>1, <3>2
    <3>3. CASE j \in DOMAIN history /\ longer[j] = history[j]
      BY <2>1, <3>1, <3>3
    <3> QED BY <1>2, <3>2, <3>3
  <2>2. ASSUME NEW i \in DOMAIN longer PROVE longer[i] <= index
    BY <1>2, <1>4
  <2> QED BY <2>1, <2>2
<1>6. CASE Len(longer) > MaxHistory
  <2> DEFINE h == Tail(longer)
  <2>1. Lobby!Recorded(history, index) = h
    BY <1>6 DEF Lobby!Recorded, longer
  <2>2. /\ h \in Seq(Nat) /\ Len(h) = Len(history) /\ DOMAIN h = 1..Len(history)
        /\ \A i \in DOMAIN h : h[i] = longer[i + 1] /\ i + 1 \in DOMAIN longer
    BY <1>2, <1>3
  <2> HIDE DEF h
  <2>3. \A i, j \in DOMAIN h : i < j => h[i] < h[j]
    BY <1>3, <1>5, <2>2
  <2>4. \A i \in DOMAIN h : h[i] <= index
    BY <1>5, <2>2
  <2>5. h # <<>> => h[Len(h)] = index
    <3>1. h # <<>> => Len(h) \in DOMAIN h
      BY <2>2
    <3> QED BY <1>2, <2>2, <3>1
  <2> QED BY <2>1, <2>2, <2>3, <2>4, <2>5
<1>7. CASE ~(Len(longer) > MaxHistory)
  <2>1. Lobby!Recorded(history, index) = longer
    BY <1>7 DEF Lobby!Recorded, longer
  <2>2. Len(longer) <= MaxHistory
    BY <1>1, <1>2, <1>3, <1>7
  <2> QED BY <1>2, <1>5, <2>1, <2>2
<1> QED BY <1>6, <1>7

(* The match of a session is recorded once, and the session completed.      *)
LEMMA OutcomeStands ==
    ASSUME Lobby!RoomAssumption, RoomStands(Lobby!Swept), NEW a \in Account, Lobby!RecordOutcome(a)
    PROVE  /\ RoomStands(room') /\ age' = 0
           /\ room'.session.index = Lobby!Swept.session.index
           /\ room'.session.phase = "completed" /\ Lobby!Swept.session # Lobby!NoSession
           /\ Lobby!Swept.session.ready = Lobby!Swept.session.players
           /\ room'.session.character = Lobby!Swept.session.character
<1> DEFINE r == Lobby!Swept
           s == r.session
           t == [s EXCEPT !.phase = "completed"]
           h == Lobby!Recorded(r.history, s.index)
           n == [r EXCEPT !.session = t, !.history = h]
<1>1. r \in RoomRecord /\ r.role[r.host] # "none" /\ HistoryStands(s, r.history)
      /\ (s # Lobby!NoSession => SessionStands(s))
  BY DEF RoomStands
<1>2. s # Lobby!NoSession /\ s.phase = "in_match" /\ room' = n /\ age' = 0
  <2>1. Lobby!Update([Lobby!Swept EXCEPT !.session.phase = "completed",
                                          !.history = Lobby!Recorded(Lobby!Swept.history, Lobby!Swept.session.index)])
    BY DEF Lobby!RecordOutcome, Lobby!Session
  <2>2. [Lobby!Swept EXCEPT !.session.phase = "completed",
                            !.history = Lobby!Recorded(Lobby!Swept.history, Lobby!Swept.session.index)] = n
    BY <1>1 DEF RoomRecord
  <2>3. s # Lobby!NoSession /\ s.phase = "in_match"
    BY DEF Lobby!RecordOutcome, Lobby!Session
  <2> HIDE DEF n
  <2> QED BY <2>1, <2>2, <2>3 DEF Lobby!Update
<1> HIDE DEF r
<1>3. s \in SessionRecord /\ r.history \in Seq(Nat)
  BY <1>1, <1>2 DEF RoomRecord
<1> HIDE DEF s
<1>4. s.index \in Nat \ {0} /\ SessionStands(s)
  BY <1>1, <1>2, <1>3 DEF SessionRecord
<1>5. /\ t.index = s.index /\ t.players = s.players /\ t.character = s.character /\ t.ready = s.ready
      /\ t.phase = "completed" /\ t \in SessionRecord
  BY <1>3 DEF SessionRecord, Lobby!Phase
<1> HIDE DEF t
<1>6. SessionStands(t)
  BY <1>2, <1>4, <1>5 DEF SessionStands
<1>7. \A i \in DOMAIN r.history : r.history[i] <= s.index - 1
  <2>1. \A i \in DOMAIN r.history : r.history[i] <= r.history[Len(r.history)]
    <3> SUFFICES ASSUME NEW i \in DOMAIN r.history
                 PROVE  r.history[i] <= r.history[Len(r.history)]
      OBVIOUS
    <3>1. i \in Nat /\ Len(r.history) \in DOMAIN r.history /\ i <= Len(r.history)
          /\ r.history[i] \in Nat /\ r.history[Len(r.history)] \in Nat
      BY <1>3
    <3>2. i < Len(r.history) => r.history[i] < r.history[Len(r.history)]
      BY <1>1, <3>1 DEF HistoryStands
    <3> QED BY <3>1, <3>2
  <2>2. r.history # <<>> => r.history[Len(r.history)] = s.index - 1
    BY <1>1, <1>2 DEF HistoryStands
  <2>3. \A i \in DOMAIN r.history : r.history # <<>>
    OBVIOUS
  <2> QED BY <2>1, <2>2, <2>3
<1>8. /\ h \in Seq(Nat) /\ Len(h) <= MaxHistory
      /\ \A i, j \in DOMAIN h : i < j => h[i] < h[j]
      /\ \A i \in DOMAIN h : h[i] <= s.index
      /\ h # <<>> => h[Len(h)] = s.index
  <2>1. Len(r.history) <= MaxHistory /\ \A i, j \in DOMAIN r.history : i < j => r.history[i] < r.history[j]
    BY <1>1 DEF HistoryStands
  <2> QED BY <1>3, <1>4, <1>7, <2>1, RecordedStands
<1> HIDE DEF h
<1>9. n \in RoomRecord /\ n.session = t /\ n.history = h /\ n.role = r.role /\ n.host = r.host
  BY <1>1, <1>5, <1>8 DEF RoomRecord
<1>10. HistoryStands(t, h)
  <2>1. t # Lobby!NoSession
    BY <1>5, Rooms
  <2> QED BY <1>5, <1>8, <2>1 DEF HistoryStands
<1>11. s.ready = s.players
  BY <1>2, <1>4 DEF SessionStands
<1> HIDE DEF n
<1>12. RoomStands(n)
  BY <1>1, <1>6, <1>9, <1>10 DEF RoomStands
<1> QED BY <1>2, <1>5, <1>9, <1>11, <1>12 DEF r, s

-----------------------------------------------------------------------------
(* What a call does to a room: it is swept away, begun anew, or stands.     *)
LEMMA LobbyInit == Lobby!Init => RoomInv
BY DEF Lobby!Init, RoomInv

(* A call on a room that is gone creates it; any other needs it open.       *)
Hosting(a) ==
    \/ \E locked, spectators \in BOOLEAN : Lobby!UpdateSettings(a, locked, spectators)
    \/ \E role \in {"player", "spectator"} : Lobby!Join(a, role)
    \/ Lobby!CloseRoom(a) \/ Lobby!GetInvite(a)
    \/ Lobby!Begin(a)
    \/ \E c \in Character : Lobby!SelectCharacter(a, c)
    \/ \E ready \in BOOLEAN : Lobby!SetReady(a, ready)
    \/ Lobby!RecordOutcome(a)

(* A call that changes a room finds it open, or creates it.                 *)
LEMMA HostingIsOpen ==
    ASSUME RoomInv, NEW a \in Account, Hosting(a)
    PROVE  /\ RoomStands(Lobby!Swept) /\ room # Lobby!NoRoom /\ room.status # "closed"
           /\ Lobby!Swept.session = room.session /\ Lobby!Swept.history = room.history
<1>1. Lobby!Open
  BY DEF Hosting, Lobby!UpdateSettings, Lobby!Join, Lobby!CloseRoom, Lobby!GetInvite, Lobby!Begin,
     Lobby!SelectCharacter, Lobby!SetReady, Lobby!RecordOutcome, Lobby!OpenTo, Lobby!InSession
<1>2. Lobby!Swept # Lobby!NoRoom /\ Lobby!Swept.status # "closed"
  BY <1>1 DEF Lobby!Open
<1> QED BY <1>2, SweptStands

(* What hosting does to the session: nothing to the readiness of anybody    *)
(* whose character changes, and nothing to a history but with all ready.    *)
LEMMA HostingStands ==
    ASSUME Lobby!RoomAssumption, RoomInv, NEW a \in Account, Hosting(a)
    PROVE  /\ RoomStands(room') /\ age' = 0
           /\ \/ room'.session = room.session /\ room'.history = room.history
              \/ room'.session.index # room.session.index
              \/ /\ room.session # Lobby!NoSession /\ room'.session.index = room.session.index
                 /\ \A p \in room.session.players :
                       room'.session.character[p] # room.session.character[p] => p \notin room'.session.ready
                 /\ room'.history = room.history \/ room.session.ready = room.session.players
<1>1. /\ RoomStands(Lobby!Swept) /\ Lobby!Swept.session = room.session /\ Lobby!Swept.history = room.history
  BY HostingIsOpen
<1>2. CASE \/ \E locked, spectators \in BOOLEAN : Lobby!UpdateSettings(a, locked, spectators)
           \/ \E role \in {"player", "spectator"} : Lobby!Join(a, role)
           \/ Lobby!CloseRoom(a) \/ Lobby!GetInvite(a)
  <2>1. RoomStands(room') /\ age' = 0 /\ room'.session = room.session /\ room'.history = room.history
    BY <1>1, <1>2, MembersStand
  <2> QED BY <2>1
<1>3. CASE Lobby!Begin(a)
  BY <1>1, <1>3, BegunStands
<1>4. CASE \E c \in Character : Lobby!SelectCharacter(a, c)
  <2>1. PICK c \in Character : Lobby!SelectCharacter(a, c)
    BY <1>4
  <2> QED BY <1>1, <2>1, SelectedStands
<1>5. CASE \E ready \in BOOLEAN : Lobby!SetReady(a, ready)
  <2>1. PICK ready \in BOOLEAN : Lobby!SetReady(a, ready)
    BY <1>5
  <2> QED BY <1>1, <2>1, ReadiedStands
<1>6. CASE Lobby!RecordOutcome(a)
  BY <1>1, <1>6, OutcomeStands
<1> QED BY <1>2, <1>3, <1>4, <1>5, <1>6 DEF Hosting

(* Every step of the room is a call, the sweep, the creation or time.       *)
LEMMA RoomSteps ==
    ASSUME [Lobby!Next]_(Lobby!vars)
    PROVE  \/ UNCHANGED <<room, age>> \/ Lobby!Sweep \/ Lobby!Tick
           \/ \E a \in Account : Lobby!CreateRoom(a) \/ Hosting(a)
BY DEF Lobby!Next, Lobby!vars, Hosting

(* ... so every call, and every sweep, keeps a room as it must be.           *)
LEMMA RoomInvStep ==
    ASSUME Lobby!RoomAssumption, RoomInv, [Lobby!Next]_(Lobby!vars)
    PROVE  RoomInv'
<1>1. CASE UNCHANGED <<room, age>>
  BY <1>1 DEF RoomInv
<1>2. CASE Lobby!Sweep
  BY <1>2, SweptStands DEF Lobby!Sweep, RoomInv
<1>3. CASE Lobby!Tick
  BY <1>3 DEF Lobby!Tick, RoomInv
<1>4. ASSUME NEW a \in Account, Lobby!CreateRoom(a) PROVE RoomInv'
  BY <1>4, CreatedStands DEF RoomInv
<1>5. ASSUME NEW a \in Account, Hosting(a) PROVE RoomInv'
  BY <1>5, HostingStands DEF RoomInv
<1> QED BY <1>1, <1>2, <1>3, <1>4, <1>5, RoomSteps

(* What was played stays recorded and who plays was ready.                  *)
LEMMA RoomChanges ==
    ASSUME Lobby!RoomAssumption, RoomInv, RoomInv', [Lobby!Next]_(Lobby!vars)
    PROVE  Lobby!MatchIsReadied /\ Lobby!ClosedForGood
<1>1. CASE UNCHANGED room \/ room' = Lobby!NoRoom
  <2>1. Lobby!ClosedForGood
    BY <1>1 DEF Lobby!ClosedForGood
  <2>2. room # Lobby!NoRoom /\ room' # Lobby!NoRoom /\ room.session # Lobby!NoSession =>
           room' = room /\ SessionStands(room.session)
    BY <1>1 DEF RoomInv, RoomStands
  <2>3. Lobby!MatchIsReadied
    BY <2>2 DEF Lobby!MatchIsReadied, SessionStands
  <2> QED BY <2>1, <2>3
<1>2. CASE Lobby!Sweep /\ room' # Lobby!NoRoom
  <2>1. room' = Lobby!Swept
    BY <1>2 DEF Lobby!Sweep
  <2>2. /\ room # Lobby!NoRoom /\ RoomStands(room') /\ room'.session = room.session
        /\ room'.history = room.history /\ (room.status = "closed" => room' = room)
    BY <1>2, <2>1, SweptStands
  <2>3. room'.session # Lobby!NoSession => SessionStands(room'.session)
    BY <2>2 DEF RoomStands
  <2> QED BY <2>2, <2>3 DEF Lobby!MatchIsReadied, Lobby!ClosedForGood, SessionStands
<1>3. ASSUME NEW a \in Account, Lobby!CreateRoom(a)
      PROVE  Lobby!MatchIsReadied /\ Lobby!ClosedForGood
  BY <1>3 DEF Lobby!CreateRoom, Lobby!MatchIsReadied, Lobby!ClosedForGood
<1>4. ASSUME NEW a \in Account, Hosting(a)
      PROVE  Lobby!MatchIsReadied /\ Lobby!ClosedForGood
  <2>1. room # Lobby!NoRoom /\ room.status # "closed" /\ RoomStands(room')
    BY <1>4, HostingIsOpen, HostingStands
  <2>2. ASSUME room.session # Lobby!NoSession, room'.session.index = room.session.index
        PROVE  /\ \A p \in room.session.players :
                     room'.session.character[p] # room.session.character[p] => p \notin room'.session.ready
               /\ room'.session.phase = "in_match" => room'.session.ready = room'.session.players
               /\ room'.history # room.history => room.session.ready = room.session.players
    <3>1. SessionStands(room'.session)
      <4>1. room.session \in SessionRecord
        BY <2>1, <2>2 DEF RoomInv, RoomStands, RoomRecord
      <4>2. room.session.index # 0
        BY <4>1 DEF SessionRecord
      <4>3. room'.session # Lobby!NoSession
        BY <2>2, <4>2 DEF Lobby!NoSession
      <4> QED BY <2>1, <4>3 DEF RoomStands
    <3>2. room'.session.phase = "in_match" => room'.session.ready = room'.session.players
      BY <3>1 DEF SessionStands
    <3> QED BY <1>4, <2>2, <3>2, HostingStands
  <2> QED BY <2>1, <2>2 DEF Lobby!MatchIsReadied, Lobby!ClosedForGood
<1> QED BY <1>1, <1>2, <1>3, <1>4, RoomSteps DEF Lobby!Tick

(* A room that stands is one the properties describe.                       *)
LEMMA RoomIsTyped == ASSUME RoomInv PROVE Lobby!TypeOK /\ Lobby!OneOutcomeEach
<1>1. Lobby!TypeOK
  BY DEF RoomInv, Lobby!TypeOK, RoomStands, RoomRecord, SessionStands, HistoryStands, SessionRecord
<1>2. Lobby!OneOutcomeEach
  <2> SUFFICES ASSUME room # Lobby!NoRoom
               PROVE  /\ \A i, j \in DOMAIN room.history : i < j => room.history[i] < room.history[j]
                      /\ \A i \in DOMAIN room.history :
                            room.history[i] = room.session.index => room.session.phase = "completed"
                      /\ room.session # Lobby!NoSession /\ room.session.phase # "completed" /\ room.history # <<>> =>
                            Lobby!Last(room.history) = room.session.index - 1
    BY DEF Lobby!OneOutcomeEach
  <2>1. HistoryStands(room.session, room.history) /\ room.history \in Seq(Nat)
        /\ (room.session = Lobby!NoSession \/ room.session.index \in Nat)
    BY DEF RoomInv, RoomStands, RoomRecord, SessionRecord
  <2>2. ASSUME NEW i \in DOMAIN room.history, room.history[i] = room.session.index,
               room.session.phase # "completed"
        PROVE  FALSE
    <3>1. room.history # <<>> /\ Len(room.history) \in DOMAIN room.history /\ i \in Nat
          /\ i <= Len(room.history) /\ room.history[i] \in Nat /\ room.history[Len(room.history)] \in Nat
      BY <2>1, <2>2
    <3>2. room.history[Len(room.history)] = room.session.index - 1
      BY <2>1, <2>2, <3>1 DEF HistoryStands
    <3>3. i < Len(room.history) => room.history[i] < room.history[Len(room.history)]
      BY <2>1, <2>2, <3>1 DEF HistoryStands
    <3> QED BY <2>2, <3>1, <3>2, <3>3
  <2>3. room.session.phase # "completed" /\ room.history # <<>> =>
            Lobby!Last(room.history) = room.session.index - 1
    BY <2>1 DEF HistoryStands, Lobby!Last
  <2>4. \A i, j \in DOMAIN room.history : i < j => room.history[i] < room.history[j]
    BY <2>1 DEF HistoryStands
  <2> QED BY <2>2, <2>3, <2>4
<1> QED BY <1>1, <1>2

(* Every session of a room has at most one outcome, in the order they were  *)
(* played, and its phase says how far its players are.                      *)
THEOREM OneOutcomeEachHolds ==
    ASSUME Lobby!RoomAssumption
    PROVE  Lobby!Spec => [](Lobby!TypeOK /\ Lobby!OneOutcomeEach)
<1>1. RoomInv => Lobby!TypeOK /\ Lobby!OneOutcomeEach
  BY RoomIsTyped
<1>2. RoomInv /\ [Lobby!Next]_(Lobby!vars) => RoomInv'
  BY RoomInvStep
<1> QED BY <1>1, <1>2, LobbyInit, PTL DEF Lobby!Spec

-----------------------------------------------------------------------------
(* One part of the services moves in a behaviour, by its own steps, and the  *)
(* others stay where they began.                                             *)
ServicesNext == Leases(Next) \/ Aborts \/ Hosts \/ Schedules(Scheduling!Next)

ServicesInv ==
    /\ part \in {"lease", "aborts", "room", "scheduler"}
    /\ PoolInv /\ RoomInv /\ WakeInv /\ Kinds
    /\ part = "lease" => LossInv

(* A step of the services is a step of every part, or leaves it alone.       *)
LEMMA PartsMove ==
    ASSUME [ServicesNext]_all
    PROVE  /\ part' = part
           /\ [Next]_vars /\ [Lobby!Next]_(Lobby!vars) /\ [Scheduling!Next]_(Scheduling!vars)
           /\ part = "lease" => aborts' = aborts
<1>1. CASE Leases(Next)
  BY <1>1 DEF Leases, lobby, scheduling, Lobby!vars, Scheduling!vars, Scheduling!store, Scheduling!scheduler
<1>2. CASE Aborts
  BY <1>2 DEF Aborts, lobby, scheduling, Lobby!vars, Scheduling!vars, Scheduling!store, Scheduling!scheduler
<1>3. CASE Hosts
  BY <1>3 DEF Hosts, vars, scheduling, Scheduling!vars, Scheduling!store, Scheduling!scheduler
<1>4. CASE Schedules(Scheduling!Next)
  BY <1>4 DEF Schedules, vars, lobby, Lobby!vars
<1>5. CASE UNCHANGED all
  BY <1>5 DEF all, vars, lobby, scheduling, Lobby!vars, Scheduling!vars, Scheduling!store, Scheduling!scheduler
<1> QED BY <1>1, <1>2, <1>3, <1>4, <1>5 DEF ServicesNext

(* The services begin as they are to be.                                     *)
LEMMA ServicesInvInit == ServicesInit => ServicesInv
<1> SUFFICES ASSUME ServicesInit PROVE ServicesInv
  OBVIOUS
<1>1. Init /\ Lobby!Init /\ Scheduling!Init /\ part \in {"lease", "aborts", "room", "scheduler"}
  BY DEF ServicesInit
<1>2. Kinds
  BY <1>1 DEF Scheduling!Init, Kinds, Scheduling!Never
<1> QED BY <1>1, <1>2, PoolInvInit, LossInvInit, LobbyInit, WakeInvInit DEF ServicesInv

(* Every part keeps its invariant; the lease, as long as nobody hangs up,    *)
(* what is stored.                                                           *)
LEMMA ServicesInvNext == ServicesInv /\ [ServicesNext]_all => ServicesInv'
<1> SUFFICES ASSUME ServicesInv, [ServicesNext]_all PROVE ServicesInv'
  OBVIOUS
<1> USE ServicesAssumption DEF ServicesInv
<1>1. PoolInv'
  BY PartsMove, PoolInvNext
<1>2. RoomInv'
  BY PartsMove, RoomInvStep
<1>3. WakeInv' /\ Kinds'
  BY PartsMove, WakeInvNext, KindsNext
<1>4. ASSUME part = "lease" PROVE LossInv'
  <2>1. aborts' = 0
    BY <1>4, PartsMove DEF LossInv, Fresh
  <2> QED BY <1>4, <2>1, PartsMove, LossInvNext
<1> QED BY <1>1, <1>2, <1>3, <1>4, PartsMove

(* The services of the API keep their records in order: the pool's count,    *)
(* the lease and the memories have their types with clients hanging up and   *)
(* queries failing; a client that is told of its success finds it stored     *)
(* when none hangs up; a room has one outcome for every session; no due      *)
(* decision is overlooked.                                                   *)
THEOREM ServicesInvariantHolds == ServicesSpec => []ServicesInvariant
<1>1. ServicesInv => ServicesInvariant
  <2> SUFFICES ASSUME ServicesInv PROVE ServicesInvariant
    OBVIOUS
  <2>1. TypeOK /\ Lobby!TypeOK /\ Lobby!OneOutcomeEach /\ Scheduling!TypeOK /\ Scheduling!NothingOverlooked
    BY PoolTypes, RoomIsTyped, SchedulingTypes DEF ServicesInv, WakeInv
  <2>2. part = "lease" => AnsweredIsStored
    BY DEF ServicesInv, LossInv, Kept, AnsweredIsStored
  <2> QED BY <2>1, <2>2 DEF ServicesInv, ServicesInvariant
<1> QED BY <1>1, ServicesInvInit, ServicesInvNext, PTL DEF ServicesSpec, ServicesNext

(* What the services record survives them: as long as no client hangs up,   *)
(* what one request stored is never written over with a snapshot that lacks *)
(* it, by requests of any number of processes; a room's match is played by  *)
(* those who are ready, with the character they play, and a closed room     *)
(* stays as it is until it is forgotten.                                    *)
THEOREM RecordsSurviveHolds == ServicesSpec => RecordsSurvive
<1>1. ServicesInv /\ ServicesInv' /\ [ServicesNext]_all
         => [ /\ part = "lease" => stored \subseteq stored'
              /\ part = "room" => Lobby!MatchIsReadied /\ Lobby!ClosedForGood ]_all
  <2> SUFFICES ASSUME ServicesInv, ServicesInv', [ServicesNext]_all
               PROVE  /\ part = "lease" => stored \subseteq stored'
                      /\ part = "room" => Lobby!MatchIsReadied /\ Lobby!ClosedForGood
    OBVIOUS
  <2>1. part = "lease" => stored \subseteq stored'
    BY PartsMove, StoredGrows DEF ServicesInv
  <2>2. RoomInv /\ RoomInv'
    BY DEF ServicesInv
  <2>3. Lobby!MatchIsReadied /\ Lobby!ClosedForGood
    BY <2>2, PartsMove, ServicesAssumption, RoomChanges
  <2> QED BY <2>1, <2>3
<1> QED BY <1>1, ServicesInvInit, ServicesInvNext, PTL DEF ServicesSpec, ServicesNext, RecordsSurvive
=============================================================================
