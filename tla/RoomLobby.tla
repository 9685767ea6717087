------------------------------ MODULE RoomLobby ------------------------------
(* A private room of the API, rooms/roomService.ts: its membership and settings,
   the sessions its host starts one after another, their character selection,
   ready check and outcome, and its end.  Rooms share nothing but the sweep every
   call begins with, so this is one room; a call to another room, a read or a
   refused call is its sweep alone. *)
EXTENDS Integers, Sequences, FiniteSets, SequencesExt

CONSTANTS
    Account, Character,
    Compatible,         \* accounts whose region and build the room asks for
    MaxParticipants,    \* ROOM_MAX_PARTICIPANTS, 2 in the code
    MaxSpectators,      \* ROOM_MAX_SPECTATORS, 4
    MaxHistory,         \* ROOM_MAX_HISTORY_ENTRIES, 20
    IdleTimeout,        \* ROOM_IDLE_TIMEOUT_SECONDS
    Retention,          \* ROOM_CLOSED_RETENTION_SECONDS
    MaxSessions         \* bound on the sessions of a room

RoomAssumption ==
    /\ Compatible \subseteq Account /\ IsFiniteSet(Account)
    /\ {MaxParticipants, MaxSpectators, MaxHistory, IdleTimeout, Retention, MaxSessions} \subseteq Nat

NoRoom == [status |-> "none"]
NoSession == [index |-> 0]
NoCharacter == "none"

VARIABLES
    room,       \* the room's record, or NoRoom
    age         \* time since it was updated, or closed

vars == <<room, age>>

Init == room = NoRoom /\ age = 0

Players(r) == {a \in Account : r.role[a] = "player"}
Spectators(r) == {a \in Account : r.role[a] = "spectator"}

(* cleanup: an idle room is closed, a closed one is forgotten. *)
Swept ==
    IF room = NoRoom THEN room
    ELSE IF room.status # "closed" /\ age > IdleTimeout
         THEN [room EXCEPT !.status = "closed", !.reason = "idle_timeout"]
    ELSE IF room.status = "closed" /\ age > Retention THEN NoRoom
    ELSE room

Sweep ==
    /\ room' = Swept
    /\ age' = IF room' = room THEN age ELSE 0

Update(r) == room' = r /\ age' = 0

(* What every operation on an open room begins with. *)
Open == Swept # NoRoom /\ Swept.status # "closed"
OpenTo(host) == Open /\ Swept.host = host

CreateRoom(a) ==
    /\ room = NoRoom
    /\ \E spectators \in BOOLEAN :
          Update([status |-> "open", reason |-> "none", host |-> a,
                  locked |-> FALSE, spectators |-> spectators,
                  role |-> [b \in Account |-> IF b = a THEN "player" ELSE "none"],
                  session |-> NoSession, history |-> <<>>])

UpdateSettings(a, locked, spectators) ==
    /\ OpenTo(a)
    /\ Update([Swept EXCEPT !.locked = locked, !.spectators = spectators])

(* joinRoom: a participant may change its role; a newcomer needs an unlocked room
   with a free place. *)
Join(a, role) ==
    /\ Open /\ a \in Compatible
    /\ role = "spectator" => Swept.spectators
    /\ \/ Swept.role[a] # "none"
       \/ /\ Swept.role[a] = "none" /\ ~Swept.locked
          /\ role = "spectator" => Cardinality(Spectators(Swept)) < MaxSpectators
          /\ role = "player" => Cardinality(Players(Swept)) < MaxParticipants
    /\ Update([Swept EXCEPT !.role[a] = role])

(* beginNewSession, for startRoomSession and startRematch: the players of the
   moment, with nothing chosen. *)
Begin(a) ==
    /\ OpenTo(a)
    /\ Swept.session # NoSession => Swept.session.phase = "completed"
    /\ Cardinality(Players(Swept)) >= 2
    /\ Swept.session.index < MaxSessions
    /\ Update([Swept EXCEPT
                 !.status = "active",
                 !.session = [index |-> @.index + 1, phase |-> "character_select",
                              players |-> Players(Swept),
                              character |-> [p \in Players(Swept) |-> NoCharacter],
                              ready |-> {}]])

Session == Swept.session
InSession(a) == Open /\ Session # NoSession /\ a \in Session.players

SelectCharacter_KeepReady(a, c) ==
    /\ InSession(a)
    /\ Session.phase \in {"character_select", "ready_check"}
    /\ LET chosen == [Session.character EXCEPT ![a] = c]
       IN  Update([Swept EXCEPT
                     !.session = [Session EXCEPT !.character = chosen,
                                  !.phase = IF \A p \in Session.players : chosen[p] # NoCharacter
                                            THEN "ready_check" ELSE "character_select"]])

(* setCharacterSelection: withdraws the player's readiness. *)
SelectCharacter(a, c) ==
    /\ InSession(a)
    /\ Session.phase \in {"character_select", "ready_check"}
    /\ LET chosen == [Session.character EXCEPT ![a] = c]
       IN  Update([Swept EXCEPT
                     !.session = [Session EXCEPT !.character = chosen, !.ready = @ \ {a},
                                  !.phase = IF \A p \in Session.players : chosen[p] # NoCharacter
                                            THEN "ready_check" ELSE "character_select"]])

(* setReadyState: the last player to be ready starts the match. *)
SetReady(a, ready) ==
    /\ InSession(a)
    /\ Session.phase = "ready_check"
    /\ LET all == IF ready THEN Session.ready \cup {a} ELSE Session.ready \ {a}
       IN  Update([Swept EXCEPT
                     !.session = [Session EXCEPT !.ready = all,
                                  !.phase = IF all = Session.players THEN "in_match" ELSE @]])

(* recordMatchOutcome: the oldest entry leaves a full history.  An entry
   stands for the match it records; of the outcome nothing else depends. *)
Recorded(history, entry) ==
    LET longer == Append(history, entry)
    IN  IF Len(longer) > MaxHistory THEN Tail(longer) ELSE longer

RecordOutcome_KeepPhase(a) ==
    /\ OpenTo(a) /\ Session # NoSession
    /\ Session.phase = "in_match"
    /\ Update([Swept EXCEPT
                 !.history = Recorded(@, Session.index)])

RecordOutcome(a) ==
    /\ OpenTo(a) /\ Session # NoSession
    /\ Session.phase = "in_match"
    /\ Update([Swept EXCEPT
                 !.session.phase = "completed",
                 !.history = Recorded(@, Session.index)])

CloseRoom(a) ==
    /\ OpenTo(a)
    /\ Update([Swept EXCEPT !.status = "closed", !.reason = "host_closed"])

(* getInvite keeps the room alive; a read does not. *)
GetInvite(a) ==
    /\ Open /\ Swept.role[a] # "none"
    /\ Update(Swept)

Tick ==
    /\ room # NoRoom
    /\ age <= IdleTimeout \/ age <= Retention
    /\ age' = age + 1
    /\ UNCHANGED room

Next ==
    \/ Sweep \/ Tick
    \/ \E a \in Account :
          \/ CreateRoom(a)
          \/ \E locked, spectators \in BOOLEAN : UpdateSettings(a, locked, spectators)
          \/ \E role \in {"player", "spectator"} : Join(a, role)
          \/ Begin(a)
          \/ \E c \in Character : SelectCharacter(a, c)
          \/ \E ready \in BOOLEAN : SetReady(a, ready)
          \/ RecordOutcome(a)
          \/ CloseRoom(a) \/ GetInvite(a)

Spec == Init /\ [][Next]_vars

-----------------------------------------------------------------------------
Phase == {"character_select", "ready_check", "in_match", "completed"}

(* Types; the phase says how far the players of the session are. *)
TypeOK ==
    /\ age \in Nat
    /\ room # NoRoom =>
          /\ room.status \in {"open", "active", "closed"}
          /\ room.role \in [Account -> {"none", "player", "spectator"}]
          /\ room.role[room.host] # "none"
          /\ Len(room.history) <= MaxHistory
          /\ room.session # NoSession =>
                /\ room.session.phase \in Phase
                /\ room.session.ready \subseteq room.session.players
                /\ room.session.phase = "character_select"
                     <=> \E p \in room.session.players : room.session.character[p] = NoCharacter

(* A match is played by the players its session began with, each of whom has
   declared itself ready with the character it plays; whoever joins, leaves for
   the spectators or changes its mind in between. *)
MatchIsReadied ==
    room # NoRoom /\ room' # NoRoom /\ room.session # NoSession
        /\ room'.session.index = room.session.index =>
      /\ \A p \in room.session.players :
            room'.session.character[p] # room.session.character[p] => p \notin room'.session.ready
      /\ room'.session.phase = "in_match" => room'.session.ready = room'.session.players
      /\ room'.history # room.history => room.session.ready = room.session.players

(* Every session has at most one outcome, in the order they were played, and the
   next session starts only from the one the last entry records. *)
OneOutcomeEach ==
    room # NoRoom =>
        /\ \A i, j \in DOMAIN room.history : i < j => room.history[i] < room.history[j]
        /\ \A i \in DOMAIN room.history :
              room.history[i] = room.session.index => room.session.phase = "completed"
        /\ room.session # NoSession /\ room.session.phase # "completed" /\ room.history # <<>> =>
              Last(room.history) = room.session.index - 1

(* A room that was closed never opens or changes again. *)
ClosedForGood == room # NoRoom /\ room.status = "closed" => room' \in {room, NoRoom}

(* A room has no more players than ROOM_MAX_PARTICIPANTS: the capacity the
   documentation of the API names.  No run checks it: a spectator that joins again
   as a player breaks it. *)
PlayersWithinCapacity == room # NoRoom => Cardinality(Players(room)) <= MaxParticipants
=============================================================================
