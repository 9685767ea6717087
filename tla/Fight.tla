------------------------------- MODULE Fight --------------------------------
(***************************************************************************)
(* One frame of the deterministic simulation both clients of a match run   *)
(* and the server replays (sim/sim.ts, `step'): who is in control, which   *)
(* attack each fighter is committed to, and how the two fighters' attacks  *)
(* meet when they fall in the same frame.                                  *)
(*                                                                         *)
(* Timers count frames.  Where the fighters are is not modelled: each      *)
(* frame chooses whether they are within range of each other's attacks     *)
(* (`Geometry'), and a clash, a parry or a launch break pushes them out of *)
(* every range for the rest of the frame.  A launched fighter flies for at *)
(* least MinFlight frames before it is slow enough to regain control.      *)
(* Fuel comes in a few units.  Both fighters play the same character.      *)
(* Ordinary boost, chains (they scale a launch's power), facing, flashes   *)
(* and every experiment whose knob defaults to zero are left out, but the  *)
(* well's capture, which Well turns on.                                    *)
(***************************************************************************)
EXTENDS Integers

CONSTANTS
    LaunchStartup, LaunchActive, LaunchHitRecovery, LaunchWhiffRecovery,
    DunkStartup, DunkActive, DunkHitRecovery, DunkWhiffRecovery,
    SpecialStartup, SpecialActive, SpecialRecovery, SpecialCooldown, SpecialKinds,
    ParryStartup, ParryActive, ParryRecovery, CounterStun, GuardFrames,
    BreakRecovery, Breaks, Helpless, MinFlight, DunkRecovery, ShotStun, GrabStun,
    MaxFuel, SpecialCost, DashCost, DashDebt, NonCommitPenalty, RecoveryCost,
    MaxShots,       \* bound on a fighter's projectiles in flight
    AllowDunkWin, Well,
    Buttons         \* the sets of buttons a player may hold in one frame

P1 == "P1"
P2 == "P2"
Player == {P1, P2}
Other(p) == IF p = P1 THEN P2 ELSE P1
Nobody == "nobody"

FightAssumption ==
    /\ {LaunchStartup, LaunchHitRecovery, LaunchWhiffRecovery, DunkStartup, DunkHitRecovery,
        DunkWhiffRecovery, SpecialStartup, SpecialRecovery, SpecialCooldown, ParryStartup,
        ParryRecovery, CounterStun, GuardFrames, Helpless, ShotStun, MaxFuel, SpecialCost,
        DashCost, DashDebt, NonCommitPenalty, RecoveryCost, MaxShots, Breaks} \subseteq Nat
    /\ {LaunchActive, DunkActive, SpecialActive, ParryActive, BreakRecovery, DunkRecovery, GrabStun}
          \subseteq Nat \ {0}
    /\ SpecialKinds \subseteq {"projectile", "grab", "guard", "dash"}
    /\ AllowDunkWin \in BOOLEAN /\ Well \in BOOLEAN
    /\ MinFlight \in 2..Helpless
    /\ \A startup \in {LaunchStartup, DunkStartup, SpecialStartup} : MinFlight > startup

VARIABLES
    kind,      \* the special attack of the character both fighters play
    fighter,   \* the two fighters
    winner,    \* who has won the round
    shots,     \* how many projectiles of each fighter are in flight
    stale      \* has an attack connected whose fighter lost control since it began?

vars == <<kind, fighter, winner, shots, stale>>

AtLeast(a, b) == IF a < b THEN b ELSE a
Minus(a, b) == IF a < b THEN 0 ELSE a - b

(* A fighter.  `launched': its lastLaunchedBy is the opponent; `tainted':   *)
(* it lost control since it began the attack it is committed to.           *)
Fresh == [
    fuel |-> MaxFuel, breaks |-> Breaks, stunned |-> 0, helpless |-> 0, recovering |-> 0,
    parry |-> 0, parryStartup |-> 0, endLag |-> 0, launchStartup |-> 0, launchActive |-> 0,
    dunkStartup |-> 0, dunkActive |-> 0, specialStartup |-> 0, specialActive |-> 0,
    specialDidResolve |-> FALSE, superBoost |-> FALSE, didCommit |-> FALSE, launched |-> FALSE,
    coolSpecial |-> 0, coolLaunch |-> 0, coolDunk |-> 0, tainted |-> FALSE]

(* Type invariant. *)
Frames == Nat
Fuel == 0..MaxFuel
Fighter == [
    fuel : Fuel, breaks : 0..Breaks, stunned : Frames, helpless : Frames, recovering : Frames,
    parry : Frames, parryStartup : Frames, endLag : Frames, launchStartup : Frames, launchActive : Frames,
    dunkStartup : Frames, dunkActive : Frames, specialStartup : Frames, specialActive : Frames,
    specialDidResolve : BOOLEAN, superBoost : BOOLEAN, didCommit : BOOLEAN, launched : BOOLEAN,
    coolSpecial : Frames, coolLaunch : Frames, coolDunk : Frames, tainted : BOOLEAN]

TypeOK ==
    /\ kind \in SpecialKinds
    /\ fighter \in [Player -> Fighter]
    /\ winner \in Player \cup {Nobody}
    /\ shots \in [Player -> 0..MaxShots]
    /\ stale \in BOOLEAN

Init ==
    /\ kind \in SpecialKinds
    /\ fighter = [p \in Player |-> Fresh]
    /\ winner = Nobody
    /\ shots = [p \in Player |-> 0]
    /\ stale = FALSE

-----------------------------------------------------------------------------
(* One fighter. *)
WithoutControl(x) == x.stunned > 0 \/ x.helpless > 0 \/ x.recovering > 0

Launching(x) == x.launchStartup > 0 \/ x.launchActive > 0
Dunking(x) == x.dunkStartup > 0 \/ x.dunkActive > 0
Casting(x) == x.specialStartup > 0 \/ x.specialActive > 0
Attacking(x) == Launching(x) \/ Dunking(x) \/ Casting(x)
hasAttackCommitment(x) == x.parryStartup > 0 \/ Attacking(x)

clearLaunchAttempt(x) == [x EXCEPT !.launchStartup = 0, !.launchActive = 0]
clearDunkAttempt(x) == [x EXCEPT !.dunkStartup = 0, !.dunkActive = 0]
clearSpecialAttempt(x) ==
    [x EXCEPT !.specialStartup = 0, !.specialActive = 0, !.specialDidResolve = FALSE]
ClearAttempts(x) == clearLaunchAttempt(clearDunkAttempt(clearSpecialAttempt(x)))

Spend(x, units) == [x EXCEPT !.fuel = Minus(@, units)]

(* A Super Boost ends and its cost is settled, once. *)
finishSuperBoost(x) ==
    IF ~x.superBoost THEN x
    ELSE Spend([x EXCEPT !.superBoost = FALSE],
               DashDebt + (IF x.didCommit THEN 0 ELSE NonCommitPenalty))

setStunned_KeepAttack(x, frames) ==
    clearLaunchAttempt(clearSpecialAttempt([finishSuperBoost(x) EXCEPT !.stunned = frames, !.parryStartup = 0]))

setStunned(x, frames) ==
    ClearAttempts([finishSuperBoost(x) EXCEPT !.stunned = frames, !.parryStartup = 0])

activateParry(x) ==
    [x EXCEPT !.parry = ParryActive, !.endLag = AtLeast(@, ParryRecovery)]

-----------------------------------------------------------------------------
(* A frame runs on s: the fighters f, the winner w, the shots, whether a   *)
(* reset moved the fighters apart in this frame, and whose attack          *)
(* connected in it.                                                        *)
Set(s, p, x) == [s EXCEPT !.f[p] = x]

advanceParryStartup(s, p) ==
    LET x == s.f[p]
    IN  IF x.parryStartup = 0 THEN s
        ELSE IF WithoutControl(x) THEN Set(s, p, [x EXCEPT !.parryStartup = 0])
        ELSE LET y == [x EXCEPT !.parryStartup = @ - 1]
             IN  Set(s, p, IF y.parryStartup = 0 THEN activateParry(y) ELSE y)

startParryAttempt(s, p, held) ==
    LET x == s.f[p]
        y == [x EXCEPT !.parryStartup = ParryStartup]
    IN  IF /\ s.w = Nobody /\ "parry" \in held
           /\ x.parry = 0 /\ x.endLag = 0 /\ ~WithoutControl(x) /\ ~hasAttackCommitment(x)
        THEN Set(s, p, IF ParryStartup = 0 THEN activateParry(y) ELSE y)
        ELSE s

BreaksLaunch(s, p, held) ==
    /\ s.w = Nobody /\ "break" \in held
    /\ s.f[p].helpless > 0 /\ s.f[p].breaks > 0

tryLaunchBreak_KeepLauncher(s, p, held) ==
    IF ~BreaksLaunch(s, p, held) THEN s
    ELSE [Set(s, p, setStunned([s.f[p] EXCEPT !.breaks = @ - 1, !.helpless = 0], BreakRecovery))
          EXCEPT !.apart = @ \/ s.f[p].launched]

tryLaunchBreak(s, p, held) ==
    IF ~BreaksLaunch(s, p, held) THEN s
    ELSE [Set(s, p, setStunned([s.f[p] EXCEPT !.breaks = @ - 1, !.helpless = 0, !.launched = FALSE],
                               BreakRecovery))
          EXCEPT !.apart = @ \/ s.f[p].launched]

-----------------------------------------------------------------------------
(* The special attack.  grasp: is the other fighter within p's grab when it *)
(* takes effect?  A grab asks neither for a parry nor for control.         *)
executeSpecial(s, p, grasp) ==
    CASE kind = "projectile" -> [s EXCEPT !.shots[p] = @ + 1]
      [] kind = "grab" /\ grasp ->
            [Set(s, Other(p), setStunned(s.f[Other(p)], GrabStun)) EXCEPT !.connected = @ \cup {p}]
      [] kind = "guard" -> Set(s, p, [s.f[p] EXCEPT !.parry = AtLeast(@, GuardFrames)])
      [] OTHER -> s

ResolveSpecial(s, p, grasp) ==
    IF s.f[p].specialDidResolve THEN s
    ELSE LET t == executeSpecial(s, p, grasp)
         IN  Set(t, p, [t.f[p] EXCEPT !.specialDidResolve = TRUE])

advanceSpecialAttempt(s, p, grasp) ==
    LET x == s.f[p]
    IN  IF x.specialStartup > 0
        THEN Set(s, p, [x EXCEPT !.specialStartup = @ - 1,
                                 !.specialActive = IF x.specialStartup = 1 THEN SpecialActive ELSE @])
        ELSE IF x.specialActive = 0 THEN s
        ELSE IF WithoutControl(x) \/ s.w # Nobody THEN Set(s, p, clearSpecialAttempt(x))
        ELSE LET t == ResolveSpecial(s, p, grasp)
                 y == [t.f[p] EXCEPT !.specialActive = @ - 1]
             IN  Set(t, p,
                     IF y.specialActive > 0 THEN y
                     ELSE clearSpecialAttempt(
                            [y EXCEPT !.endLag = AtLeast(@, SpecialRecovery),
                                      !.coolSpecial = AtLeast(@, SpecialRecovery + SpecialCooldown)]))

startSpecialAttempt(s, p, grasp) ==
    LET x == s.f[p]
        t == Set(s, p, [Spend(x, SpecialCost) EXCEPT
                          !.specialStartup = SpecialStartup,
                          !.specialActive = IF SpecialStartup > 0 THEN 0 ELSE SpecialActive,
                          !.specialDidResolve = FALSE,
                          !.didCommit = @ \/ x.superBoost,
                          !.coolSpecial = AtLeast(@, SpecialStartup + SpecialActive + SpecialCooldown)])
    IN  IF x.coolSpecial > 0 \/ x.endLag > 0 \/ hasAttackCommitment(x) \/ x.fuel < SpecialCost THEN s
        ELSE IF SpecialStartup > 0 THEN t
        ELSE ResolveSpecial(t, p, grasp)

-----------------------------------------------------------------------------
(* The launch. *)

EndLaunch(x, frames) ==
    clearLaunchAttempt([x EXCEPT !.endLag = AtLeast(@, frames), !.coolLaunch = AtLeast(@, frames)])

(* Both launches were active when the frame began: the fighters bounce off *)
(* each other.                                                             *)
resolveLaunchClash(s, p) ==
    [Set(Set(s, p, EndLaunch(s.f[p], LaunchWhiffRecovery)),
         Other(p), EndLaunch(s.f[Other(p)], LaunchWhiffRecovery)) EXCEPT !.apart = TRUE]

(* A parry stuns the attacker; otherwise the target is launched. *)
resolveLaunchConnection(s, p) ==
    LET target == s.f[Other(p)]
        attacker == s.f[p]
        stopped == Set(s, p, setStunned(attacker, CounterStun))
        spent == Set(s, p, EndLaunch(attacker, LaunchHitRecovery))
    IN  IF target.parry > 0
        THEN [Set(stopped, Other(p), [target EXCEPT !.parry = 0]) EXCEPT !.apart = TRUE]
        ELSE [Set(spent, Other(p),
                  [finishSuperBoost(target) EXCEPT !.helpless = Helpless, !.stunned = 0,
                                                   !.parryStartup = 0, !.launched = TRUE])
              EXCEPT !.connected = @ \cup {p}]

advanceLaunchAttempt_NowActive(s, p, targetWasActive, near) ==
    LET x == s.f[p]
        y == [x EXCEPT !.launchActive = @ - 1]
    IN  IF x.launchStartup > 0
        THEN Set(s, p, [x EXCEPT !.launchStartup = @ - 1,
                                 !.launchActive = IF x.launchStartup = 1 THEN LaunchActive ELSE @])
        ELSE IF x.launchActive = 0 THEN s
        ELSE IF WithoutControl(x) \/ s.w # Nobody THEN Set(s, p, clearLaunchAttempt(x))
        ELSE IF near /\ ~s.apart
             THEN IF s.f[Other(p)].launchActive > 0 THEN resolveLaunchClash(s, p) ELSE resolveLaunchConnection(s, p)
        ELSE Set(s, p,
                 IF y.launchActive > 0 THEN y ELSE EndLaunch(y, LaunchWhiffRecovery))

advanceLaunchAttempt_Regardless(s, p, targetWasActive, near) ==
    LET x == s.f[p]
        y == [x EXCEPT !.launchActive = @ - 1]
    IN  IF x.launchStartup > 0
        THEN Set(s, p, [x EXCEPT !.launchStartup = @ - 1,
                                 !.launchActive = IF x.launchStartup = 1 THEN LaunchActive ELSE @])
        ELSE IF x.launchActive = 0 THEN s
        ELSE IF near /\ ~s.apart
             THEN IF targetWasActive THEN resolveLaunchClash(s, p) ELSE resolveLaunchConnection(s, p)
        ELSE Set(s, p, IF y.launchActive > 0 THEN y ELSE clearLaunchAttempt(y))

advanceLaunchAttempt(s, p, targetWasActive, near) ==
    LET x == s.f[p]
        y == [x EXCEPT !.launchActive = @ - 1]
    IN  IF x.launchStartup > 0
        THEN Set(s, p, [x EXCEPT !.launchStartup = @ - 1,
                                 !.launchActive = IF x.launchStartup = 1 THEN LaunchActive ELSE @])
        ELSE IF x.launchActive = 0 THEN s
        ELSE IF WithoutControl(x) \/ s.w # Nobody THEN Set(s, p, clearLaunchAttempt(x))
        ELSE IF near /\ ~s.apart
             THEN IF targetWasActive THEN resolveLaunchClash(s, p) ELSE resolveLaunchConnection(s, p)
        ELSE Set(s, p,
                 IF y.launchActive > 0 THEN y ELSE EndLaunch(y, LaunchWhiffRecovery))

startLaunchAttempt(x) ==
    IF x.coolLaunch > 0 \/ x.endLag > 0 \/ hasAttackCommitment(x) THEN x
    ELSE [x EXCEPT !.launchStartup = LaunchStartup,
                   !.launchActive = IF LaunchStartup > 0 THEN 0 ELSE LaunchActive,
                   !.didCommit = @ \/ x.superBoost,
                   !.coolLaunch = AtLeast(@, LaunchStartup + LaunchActive)]

-----------------------------------------------------------------------------
(* The dunk. *)
EndDunk(x, frames) ==
    clearDunkAttempt([x EXCEPT !.endLag = AtLeast(@, frames), !.coolDunk = AtLeast(@, frames)])

(* p's dunk, or the well p's launch sent the opponent into, finishes an    *)
(* opponent without fuel; another one is thrown into recovery at a price.  *)
startDunkRecovery(s, p) ==
    LET t == finishSuperBoost(s.f[Other(p)])
        fuel == IF t.fuel = 0 THEN MaxFuel ELSE t.fuel
        thrown == ClearAttempts([t EXCEPT !.fuel = Minus(fuel, RecoveryCost),
                                          !.recovering = DunkRecovery, !.helpless = 0, !.stunned = 0,
                                          !.parry = 0, !.parryStartup = 0, !.endLag = 0,
                                          !.launched = FALSE, !.coolLaunch = 0, !.coolDunk = 0,
                                          !.coolSpecial = 0])
    IN  IF t.fuel = 0 /\ AllowDunkWin
        THEN [Set(s, Other(p), t) EXCEPT !.w = p]
        ELSE Set(Set(s, Other(p), thrown), p, ClearAttempts(s.f[p]))

advanceDunkAttempt(s, p, close) ==
    LET x == s.f[p]
        y == [x EXCEPT !.dunkActive = @ - 1]
    IN  IF x.dunkStartup > 0
        THEN Set(s, p, [x EXCEPT !.dunkStartup = @ - 1,
                                 !.dunkActive = IF x.dunkStartup = 1 THEN DunkActive ELSE @])
        ELSE IF x.dunkActive = 0 THEN s
        ELSE IF WithoutControl(x) \/ s.w # Nobody THEN Set(s, p, clearDunkAttempt(x))
        ELSE IF close /\ ~s.apart
        THEN LET t == startDunkRecovery(s, p)
             IN  [Set(t, p, EndDunk(t.f[p], DunkHitRecovery)) EXCEPT !.connected = @ \cup {p}]
        ELSE Set(s, p, IF y.dunkActive > 0 THEN y ELSE EndDunk(y, DunkWhiffRecovery))

startDunkAttempt(x) ==
    IF x.coolDunk > 0 \/ x.endLag > 0 \/ hasAttackCommitment(x) THEN x
    ELSE [x EXCEPT !.dunkStartup = DunkStartup,
                   !.dunkActive = IF DunkStartup > 0 THEN 0 ELSE DunkActive,
                   !.didCommit = @ \/ x.superBoost,
                   !.coolDunk = AtLeast(@, DunkStartup + DunkActive)]

-----------------------------------------------------------------------------
(* Locomotion, where attacks begin too. *)
startSuperBoost(x) ==
    IF x.endLag > 0 \/ x.parryStartup > 0 \/ x.fuel < DashCost THEN x
    ELSE [Spend(x, DashCost) EXCEPT !.superBoost = TRUE, !.didCommit = FALSE]

movement(s, p, held, grasp) ==
    LET cast == IF "special" \in held THEN startSpecialAttempt(s, p, grasp) ELSE s
        a == cast.f[p]
        b == IF "launch" \in held THEN startLaunchAttempt(a) ELSE a
        c == IF "dunk" \in held THEN startDunkAttempt(b) ELSE b
        d == CASE "superBoost" \in held /\ ~c.superBoost -> startSuperBoost(c)
               [] "superBoost" \notin held /\ c.superBoost -> finishSuperBoost(c)
               [] OTHER -> c
    IN  IF WithoutControl(s.f[p]) \/ s.w # Nobody
        THEN Set(s, p, finishSuperBoost(s.f[p]))
        ELSE Set(cast, p, IF "move" \in held THEN Spend(d, 1) ELSE d)

-----------------------------------------------------------------------------
(* The end of the frame. *)

(* Timers run down; a launched fighter that has become slow regains        *)
(* control; one over the well is captured by its launcher.                 *)
updatePlayer(s, p, slow, core) ==
    LET x == s.f[p]
        y == [x EXCEPT !.stunned = Minus(@, 1), !.helpless = Minus(@, 1), !.parry = Minus(@, 1),
                       !.endLag = Minus(@, 1), !.recovering = Minus(@, 1),
                       !.coolSpecial = Minus(@, 1), !.coolLaunch = Minus(@, 1), !.coolDunk = Minus(@, 1)]
        z == IF slow /\ y.helpless <= Helpless - MinFlight THEN [y EXCEPT !.helpless = 0] ELSE y
        t == Set(s, p, z)
        u == IF /\ Well /\ core /\ t.w = Nobody
                /\ z.helpless > 0 /\ z.recovering = 0 /\ z.launched
             THEN startDunkRecovery(t, Other(p))
             ELSE t
    IN  IF x.helpless > 0 /\ u.f[p].helpless = 0
        THEN [u EXCEPT !.returned = IF u.f[p].launched THEN @ \cup {p} ELSE @]
        ELSE u

resolveNaturalControlReturns(s) ==
    [s EXCEPT !.f = [p \in Player |-> [s.f[p] EXCEPT !.launched = @ /\ p \notin s.returned]]]

(* What becomes of one of p's projectiles: it flies on, hits or is gone. *)
updateProjectiles(s, p, outcome) ==
    LET target == s.f[Other(p)]
        hit == setStunned(target, ShotStun)
    IN  CASE s.shots[p] = 0 \/ outcome = "flies" -> s
          [] s.shots[p] > 0 /\ outcome = "hits" /\ target.parry = 0 ->
                [Set(s, Other(p), IF hit.helpless = 0 THEN Spend(hit, 1) ELSE hit)
                   EXCEPT !.shots[p] = @ - 1]
          [] s.shots[p] > 0 /\ outcome = "hits" /\ target.parry > 0 -> s
          [] s.shots[p] > 0 /\ outcome = "gone" -> [s EXCEPT !.shots[p] = @ - 1]

settle(s) ==
    IF s.w = Nobody THEN s
    ELSE [s EXCEPT !.f = [p \in Player |-> finishSuperBoost(s.f[p])]]

-----------------------------------------------------------------------------
(* A frame.  held[p] is what p's player holds down, g the geometry.        *)
Range == {"far", "close", "near"}    \* near: launch range, which lies inside dunk range
Geometry == [range : Range, slow : [Player -> BOOLEAN], core : [Player -> BOOLEAN],
             grasp : [Player -> BOOLEAN], shot : [Player -> {"flies", "hits", "gone"}]]

Running(f, w, sh) ==
    [f |-> f, w |-> w, shots |-> sh, apart |-> FALSE, connected |-> {}, returned |-> {}]

(* A phase of the frame: P1's turn, then P2's.  (The sets have one element *)
(* each: what a turn leaves is computed once.)                             *)
InTurn(phase(_, _), s) ==
    CHOOSE last \in {phase(first, P2) : first \in {phase(s, P1)}} : TRUE

Fought(s, held, g) ==
    LET startParry(t, p) == startParryAttempt(t, p, held[p])
        parried == InTurn(startParry, InTurn(advanceParryStartup, s))
        wasActive == [p \in Player |-> parried.f[p].launchActive > 0]
        broke == {p \in Player : BreaksLaunch(parried, p, held[p])}
        breakLaunch(t, p) == tryLaunchBreak(t, p, held[p])
        special(t, p) == IF p \in broke THEN t ELSE advanceSpecialAttempt(t, p, g.grasp[p])
        launch(t, p) == IF p \in broke THEN t
                        ELSE advanceLaunchAttempt(t, p, wasActive[Other(p)], g.range = "near")
        dunk(t, p) == IF p \in broke THEN t ELSE advanceDunkAttempt(t, p, g.range # "far")
        move(t, p) == IF p \in broke THEN t ELSE movement(t, p, held[p], g.grasp[p])
    IN  InTurn(move, InTurn(dunk, InTurn(launch, InTurn(special, InTurn(breakLaunch, parried)))))

step(s, held, g) ==
    LET update(t, p) == updatePlayer(t, p, g.slow[p], g.core[p])
        fly(t, p) == updateProjectiles(t, p, g.shot[p])
        fought == IF s.w = Nobody THEN Fought(s, held, g) ELSE s
    IN  settle(InTurn(fly, resolveNaturalControlReturns(InTurn(update, fought))))

(* The attack a fighter is committed to is tainted once its fighter lost   *)
(* control in it.                                                          *)
Marked(before, after) ==
    [p \in Player |->
        [after[p] EXCEPT !.tainted = /\ Attacking(after[p])
                                     /\ WithoutControl(after[p]) \/ (before[p].tainted /\ Attacking(before[p]))]]

(* The ranges at which x's attack under way could connect. *)
Reaches(x, r) == \/ r = "near" /\ Launching(x)
                 \/ r = "close" /\ Dunking(x)

(* The buttons x's player could make a difference with in this frame: a    *)
(* launch break in flight; in control, what no cooldown, lag or lack of    *)
(* fuel rules out already, since none of these ends within a frame that    *)
(* leaves x in control; nothing once the round is won.                     *)
Heard(x, button) ==
    /\ winner = Nobody
    /\ \/ button = "break" /\ x.helpless > 0 /\ x.breaks > 0
       \/ /\ ~WithoutControl(x)
          /\ \/ button = "parry" /\ x.endLag = 0 /\ x.parry = 0 /\ ~hasAttackCommitment(x)
             \/ button = "launch" /\ x.endLag = 0 /\ x.coolLaunch = 0
             \/ button = "dunk" /\ x.endLag = 0 /\ x.coolDunk = 0
             \/ button = "special" /\ x.endLag = 0 /\ x.coolSpecial = 0 /\ x.fuel >= SpecialCost
             \/ button = "superBoost" /\ (x.superBoost \/ (x.endLag = 0 /\ x.fuel >= DashCost))
             \/ button = "move"

(* Can p's special take effect in this frame?  Can p be launched in it?     *)
Resolves(p) ==
    \/ fighter[p].specialStartup = 0 /\ fighter[p].specialActive > 0 /\ ~fighter[p].specialDidResolve
    \/ SpecialStartup = 0 /\ Heard(fighter[p], "special")
Threatened(p) == fighter[Other(p)].launchStartup = 0 /\ fighter[Other(p)].launchActive > 0

(* The choices that make a difference in this state.  Nobody moves between  *)
(* two grabs that take effect in one pass, unless they do as they begin.   *)
Choices ==
    [range : {r \in Range : r = "far" \/ \E p \in Player : Reaches(fighter[p], r)},
     slow : {m \in [Player -> BOOLEAN] : \A p \in Player : m[p] => fighter[p].helpless > 1},
     core : {m \in [Player -> BOOLEAN] :
                \A p \in Player : m[p] => Well /\ (fighter[p].helpless > 1 \/ Threatened(p))},
     grasp : {m \in [Player -> BOOLEAN] :
                /\ \A p \in Player : m[p] => kind = "grab" /\ Resolves(p)
                /\ SpecialStartup > 0 /\ Resolves(P1) /\ Resolves(P2) => m[P1] = m[P2]},
     shot : {m \in [Player -> {"flies", "hits", "gone"}] :
                \A p \in Player : m[p] # "flies" => shots[p] > 0 \/ (kind = "projectile" /\ Resolves(p))}]

Answered(p) == {b \in UNION Buttons : Heard(fighter[p], b)}

Held(p) == {b \cap Answered(p) : b \in Buttons}

(* (What the frame leaves is in a set of one: it is computed once.)        *)
Next ==
    \E g \in Choices, h1 \in Held(P1), h2 \in Held(P2) :
        LET held == [p \in Player |-> IF p = P1 THEN h1 ELSE h2]
        IN  \E s \in {step(Running(fighter, winner, shots), held, g)} :
                /\ \A p \in Player : s.shots[p] <= MaxShots
                /\ fighter' = Marked(fighter, s.f)
                /\ winner' = s.w
                /\ shots' = s.shots
                /\ stale' = (stale \/ \E p \in s.connected : fighter[p].tainted)
                /\ kind' = kind

Spec == Init /\ [][Next]_vars

-----------------------------------------------------------------------------
(* A fighter is committed to one thing at a time: each start excludes      *)
(* every other attack and the wind-up of a parry, and each ending clears   *)
(* all that is left of its own.                                            *)
Commitments(x) ==
    {c \in {"parry", "launch", "dunk", "special"} :
        \/ c = "parry" /\ x.parryStartup > 0
        \/ c = "launch" /\ Launching(x)
        \/ c = "dunk" /\ Dunking(x)
        \/ c = "special" /\ Casting(x)}
OneCommitment == \A p \in Player : \A c, d \in Commitments(fighter[p]) : c = d

(* The two fighters are never both in flight: whoever was launched cannot  *)
(* launch back with an attack already under way, and launches that meet    *)
(* clash.  (The code that resets both at once is never needed.)            *)
NeverBothHelpless == ~ (fighter[P1].helpless > 0 /\ fighter[P2].helpless > 0)

(* A fighter in flight, and no other, has a launcher: the one a capture by *)
(* the well is credited to and a launch break is pushed away from.         *)
HelplessHasLauncher == \A p \in Player : fighter[p].launched <=> fighter[p].helpless > 0

(* An attack whose fighter was launched, stunned or dunked after it began  *)
(* never connects, even if control returns before its wind-up is over.     *)
NoStaleHit == ~stale

(* A Super Boost never outlives its fighter's control or the round: its    *)
(* cost is settled in the frame that ends it.                              *)
DashEndsWithControl ==
    \A p \in Player :
        fighter[p].superBoost =>
            /\ winner = Nobody
            /\ fighter[p].stunned = 0 /\ fighter[p].helpless = 0 /\ fighter[p].recovering = 0

(* What a fighter's record is at the end of every frame.                   *)
FightInvariant == TypeOK /\ OneCommitment /\ HelplessHasLauncher /\ DashEndsWithControl

(* Seats.  A frame of the mirrored round, seats and inputs exchanged, is   *)
(* the mirrored frame (docs/BALANCE_TELEMETRY.md: the phases prevent a     *)
(* seat from gaining on the other).                                        *)
Swapped(m) == [p \in Player |-> m[Other(p)]]
SeatOf(w) == IF w \in Player THEN Other(w) ELSE w

Mirrors(held, g) ==
    \E a \in {step(Running(fighter, winner, shots), held, g)},
       b \in {step(Running(Swapped(fighter), SeatOf(winner), Swapped(shots)), Swapped(held),
                   [g EXCEPT !.slow = Swapped(@), !.core = Swapped(@),
                             !.grasp = Swapped(@), !.shot = Swapped(@)])} :
        b.f = Swapped(a.f) /\ b.w = SeatOf(a.w) /\ b.shots = Swapped(a.shots)

DunksMeet == \A p \in Player : fighter[p].dunkStartup = 0 /\ fighter[p].dunkActive > 0

(* Both fighters' grabs are under way, or one takes effect as it is begun. *)
GrabsMeet(held) ==
    /\ kind = "grab"
    /\ \/ \A p \in Player : fighter[p].specialStartup = 0 /\ fighter[p].specialActive > 0
       \/ SpecialStartup = 0 /\ \E p \in Player : "special" \in held[p]

Players == {[p \in Player |-> IF p = P1 THEN h1 ELSE h2] : h1 \in Held(P1), h2 \in Held(P2)}

SeatsAreEqual(held) == \A g \in Choices : Mirrors(held, g)

SeatsAreEqualButForMeetings ==
    DunksMeet \/ \A held \in Players : GrabsMeet(held) \/ SeatsAreEqual(held)
=============================================================================
