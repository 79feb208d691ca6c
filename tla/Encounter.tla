----------------------------- MODULE Encounter -----------------------------
(***************************************************************************)
(* One D&D encounter (server/src/repo/encounter): its lifecycle, the turn  *)
(* order, and what blows, death saves, powers, consumables and opportunity *)
(* attacks do to the hit points and the status of a combatant and to the   *)
(* health of the actor behind it.                                          *)
(*                                                                         *)
(* Every command is one immediate transaction that names the revision it   *)
(* was planned on, so an action is a whole command.  Five command families *)
(* write the same rows, each with its own copy of the turn rule and of the *)
(* rule of dying: that they agree is what is checked.  Dice are a choice.  *)
(* Rounds are not counted: `turns' and `reacted' are the rows of the       *)
(* present round.                                                          *)
(***************************************************************************)
EXTENDS Integers, Sequences, FiniteSets, Functions

CONSTANTS
  Actors,     \* campaign actors, whose health outlives the encounter
  Templates,  \* enemies made from a catalog template
  Assignments,\* the sides a request may put the combatants on: team[c] for each
  Damages,    \* hit points a blow may cost, 0 for a miss
  Heals,      \* hit points a healing effect may restore
  MaxHp, None,
  MaxLevels   \* bound of the model: actors that gain a level in the combat

Combatants == Actors \cup Templates

Sides == {"allies", "enemies"}

ASSUME AssignmentsAssumption == Assignments \subseteq [Combatants -> Sides]
ASSUME LevelsAssumption == MaxLevels \in Nat
ASSUME CombatantsAssumption ==
  IsFiniteSet(Combatants) /\ None \notin Combatants /\ Actors \cap Templates = {}
ASSUME HitPointsAssumption ==
  MaxHp \in Nat \ {0} /\ Damages \subseteq Nat /\ Heals \subseteq Nat

VARIABLES
  status,    \* of the encounter
  fighters,  \* the combatants it was created with
  team,      \* team[c]: the side c was put on
  order,     \* every combatant by falling initiative
  current,   \* current_turn_combatant_id
  body,      \* body[c]: hp, status and death saves
  economy,   \* the open row of combat_turn_economy_v60
  turns,     \* turns[c]: economy rows of c in this round
  reacted,   \* who has spent its reaction in this round
  health,    \* health[a]: the resource of the actor outside the encounter
  raised     \* history: actors that gained a level while they fought

vars == <<status, fighters, team, order, current, body, economy, turns, reacted,
          health, raised>>

Living == {"active", "unconscious", "stable"}
Able == {"active", "unconscious"}

Whole(hp) == [hp |-> hp, state |-> "active", saved |-> 0, failed |-> 0]
Turn(c) == [who |-> c, acted |-> FALSE, quick |-> FALSE, disengaged |-> FALSE]
Closed == Turn(None)

Init ==
  /\ status = "none" /\ fighters = {} /\ order = <<>> /\ current = None
  /\ team = [c \in Combatants |-> "allies"]
  /\ body = [c \in Combatants |-> Whole(MaxHp)]
  /\ economy = Closed
  /\ turns = [c \in Combatants |-> 0] /\ reacted = {}
  /\ health \in [Actors -> 1..MaxHp] /\ raised = {}

AtLeastZero(n) == IF n < 0 THEN 0 ELSE n
Lesser(m, n) == IF m < n THEN m ELSE n
UpTo3(n) == Lesser(n, 3)

(***************************************************************************)
(* The turn order.                                                         *)
(***************************************************************************)
Place(c) == CHOOSE i \in DOMAIN order : order[i] = c
In(b, S) == {c \in fighters : b[c].state \in S}
TeamsOf(S) == {team[c] : c \in S}

Terminal(b) == Cardinality(TeamsOf(In(b, Living))) < 2

\* How far d comes after the current combatant; the current one comes last.
Distance(d) == (Place(d) - Place(current) - 1) % Len(order)

\* Mutation: a fallen combatant is passed over.
NextTurnOfActive(b) ==
  IF Terminal(b) \/ In(b, {"active"}) = {} THEN None
  ELSE CHOOSE d \in In(b, {"active"}) :
         \A e \in In(b, {"active"}) : Distance(d) <= Distance(e)

\* planTurnAdvance: the next combatant that is able, None when there is none
\* or one side is left.
NextTurn(b) ==
  IF Terminal(b) \/ In(b, Able) = {} THEN None
  ELSE CHOOSE d \in In(b, Able) : \A e \in In(b, Able) : Distance(d) <= Distance(e)

\* Mutation: the only one able goes on in the same round.
WrapsLate(d) == Place(d) < Place(current)

Wraps(d) == Place(d) <= Place(current)

\* persistTurnAdvance: the row of the old turn is closed, one is opened for
\* the next combatant, in the next round when the order wraps.
Pass(n) ==
  /\ current' = n
  /\ IF n = None
     THEN economy' = Closed /\ UNCHANGED <<turns, reacted>>
     ELSE /\ economy' = Turn(n)
          /\ turns' = IF Wraps(n) THEN [c \in Combatants |-> IF c = n THEN 1 ELSE 0]
                                  ELSE [turns EXCEPT ![n] = @ + 1]
          /\ reacted' = IF Wraps(n) THEN {} ELSE reacted

Advance(b) == body' = b /\ Pass(NextTurn(b))

\* A command that keeps the turn unless it ends the combat.
Keep(b, spent) ==
  /\ body' = b
  /\ IF NextTurn(b) = None THEN Pass(None)
     ELSE economy' = spent /\ UNCHANGED <<current, turns, reacted>>

(***************************************************************************)
(* The health of the actor behind a combatant.                             *)
(***************************************************************************)
Changed(b) == {a \in Actors \cap fighters : b[a].hp # body[a].hp}

\* buildCombatCompositionPlan and its execution: a command that changes hit
\* points is refused unless the health still equals them, and mirrors them.
Mirrors(b) ==
  /\ \A a \in Changed(b) : health[a] = body[a].hp
  /\ health' = [a \in Actors |-> IF a \in Changed(b) THEN b[a].hp ELSE health[a]]

InSync(c) == c \in Actors => health[c] = body[c].hp

(***************************************************************************)
(* What damage and healing do to one combatant.                            *)
(***************************************************************************)
Dead == [Whole(0) EXCEPT !.state = "dead", !.failed = 3]
Down == [Whole(0) EXCEPT !.state = "unconscious"]

\* Mutation: a blow leaves a stable combatant stable.
DyingBlowOnStable(f, failures) ==
  [f EXCEPT !.failed = UpTo3(f.failed + failures),
            !.state = IF f.failed + failures >= 3 THEN "dead" ELSE f.state]

\* Damage at 0: death saves that fail, the third of which kills.
DyingBlow(f, failures) ==
  [f EXCEPT !.failed = UpTo3(f.failed + failures),
            !.state = IF f.failed + failures >= 3 THEN "dead" ELSE "unconscious"]

\* dndDamageStatus: d hit points of damage, `grave' for a critical hit from
\* within five feet.
Hurt(c, f, d, grave) ==
  LET hp == AtLeastZero(f.hp - d) IN
  CASE c \in Templates -> [f EXCEPT !.hp = hp, !.state = IF hp = 0 THEN "defeated" ELSE "active"]
    [] c \in Actors /\ f.hp > 0 /\ hp = 0 -> IF d - f.hp >= MaxHp THEN Dead ELSE Down
    [] c \in Actors /\ f.hp = 0 /\ d > 0 -> DyingBlow(f, IF grave THEN 2 ELSE 1)
    [] OTHER -> [f EXCEPT !.hp = hp]

\* What an enemy's turn makes of its target: one or two blows (the closed table
\* of monster attacks has no longer sequence), which end with one that kills.
Struck(c, f) == {Hurt(c, f, d, FALSE) : d \in Damages}
HurtAll(c, f) ==
  LET standing == {g \in Struck(c, f) : g.state \notin {"dead", "defeated"}}
  IN  Struck(c, f) \cup UNION {Struck(c, g) : g \in standing}

\* Damage of a power: what exceeds the hit points is cut before the rule of
\* dying sees it, so at 0 it counts as no damage at all.
HurtByPower(c, f, d) ==
  IF c \in Actors /\ f.hp = 0 THEN f ELSE Hurt(c, f, Lesser(d, f.hp), FALSE)

\* Mutation: healing is not cut at the maximum.
HealedOver(f, h) == IF f.hp = 0 THEN Whole(h) ELSE [f EXCEPT !.hp = @ + h]

\* Healing from 0 ends dying and deletes the death saves.
Healed(f, h) ==
  LET hp == Lesser(MaxHp, f.hp + h) IN
  IF f.hp = 0 /\ hp > 0 THEN Whole(hp) ELSE [f EXCEPT !.hp = hp]

\* The reactions to one move cost d in all: opportunity attacks fell, and know
\* neither massive damage nor death saves.
Grazed(f, d) ==
  LET hp == AtLeastZero(f.hp - d) IN
  IF f.hp > 0 THEN [f EXCEPT !.hp = hp, !.state = IF hp = 0 THEN "unconscious" ELSE @]
              ELSE f

\* Mutation: the third failure does not kill.
DeathSaveOnly(f, roll) ==
  CASE roll = "twenty"  -> Whole(1)
    [] roll = "success" -> [f EXCEPT !.saved = UpTo3(f.saved + 1),
                              !.state = IF f.saved >= 2 THEN "stable" ELSE "unconscious"]
    [] OTHER            -> [f EXCEPT !.failed = UpTo3(f.failed + 1)]

\* planDnd5eDeathSave; the successes stay when they make the actor stable.
DeathSave(f, roll) ==
  LET failed == UpTo3(f.failed + (CASE roll = "one" -> 2 [] roll = "failure" -> 1 [] OTHER -> 0))
      saved == UpTo3(f.saved + (IF roll = "success" THEN 1 ELSE 0)) IN
  IF roll = "twenty" THEN Whole(1)
  ELSE [f EXCEPT !.failed = failed, !.saved = saved,
                 !.state = IF failed = 3 THEN "dead"
                           ELSE IF saved = 3 THEN "stable" ELSE "unconscious"]

(***************************************************************************)
(* The lifecycle.                                                          *)
(***************************************************************************)
\* Combatants are prepared from the health of their actors; initiative is rolled.
Create ==
  /\ status = "none"
  /\ status' = "preparing"
  /\ \E F \in (SUBSET Combatants) \ {{}} : fighters' = F
  /\ team' \in Assignments
  /\ order' \in Bijection(1..Cardinality(Combatants), Combatants)
  /\ body' = [c \in Combatants |-> IF c \in Actors THEN Whole(health[c]) ELSE Whole(MaxHp)]
  /\ UNCHANGED <<current, economy, turns, reacted, health, raised>>

Fit == \A a \in Actors \cap fighters : health[a] > 0 /\ health[a] = body[a].hp

Start ==
  /\ status = "preparing" /\ Fit
  /\ status' = "active"
  /\ \E c \in In(body, {"active"}) :
       /\ \A d \in In(body, {"active"}) : Place(c) <= Place(d)
       /\ current' = c /\ economy' = Turn(c)
       /\ turns' = [turns EXCEPT ![c] = 1]
  /\ UNCHANGED <<fighters, team, order, body, reacted, health, raised>>

Cancel ==
  /\ status = "preparing"
  /\ status' = "cancelled"
  /\ UNCHANGED <<fighters, team, order, current, body, economy, turns, reacted, health, raised>>

EndCombat ==
  /\ status = "active" /\ current = None /\ Terminal(body)
  /\ status' = "completed"
  /\ economy' = Closed
  /\ UNCHANGED <<fighters, team, order, current, body, turns, reacted, health, raised>>

(***************************************************************************)
(* The commands of the current combatant.                                  *)
(***************************************************************************)
Commands == UNCHANGED <<status, fighters, team, order, raised>>

\* An actor that may act: every family of commands looks at the same rows.
ActorTurn ==
  /\ status = "active" /\ current \in Actors
  /\ body[current].state = "active" /\ economy.who = current

Acted == [economy EXCEPT !.acted = TRUE]

\* Mutation: the dead are still among the targets.
ReachableDead == In(body, Living \cup {"dead"})

Reachable == In(body, Living)
Foes == {c \in fighters : team[c] # team[current]}
Friends == {c \in fighters : team[c] = team[current]}

Attack ==
  /\ ActorTurn /\ ~economy.acted
  /\ \E c \in Foes \cap Reachable, d \in Damages, grave \in BOOLEAN :
       LET b == [body EXCEPT ![c] = Hurt(c, body[c], d, grave)]
       IN  Keep(b, Acted) /\ Mirrors(b)
  /\ Commands

\* Disengage, and the actions that leave the combatants as they are.
Maneuver ==
  /\ ActorTurn /\ ~economy.acted
  /\ \E disengage \in BOOLEAN :
       Keep(body, [Acted EXCEPT !.disengaged = @ \/ disengage])
  /\ Commands /\ UNCHANGED health

Stabilize ==
  /\ ActorTurn /\ ~economy.acted
  /\ \E a \in Friends \cap Actors \cap In(body, {"unconscious"}) :
       \E b \in {body, [body EXCEPT ![a] = [Down EXCEPT !.state = "stable"]]} : Advance(b)
  /\ Commands /\ UNCHANGED health

\* Mutation: who flees keeps the turn.
FleeKeepsTurn ==
  /\ ActorTurn
  /\ body' = [body EXCEPT ![current].state = "fled"]
  /\ Commands /\ UNCHANGED <<current, economy, turns, reacted, health>>

Flee ==
  /\ ActorTurn
  /\ Advance([body EXCEPT ![current].state = "fled"])
  /\ Commands /\ UNCHANGED health

EndTurn ==
  /\ ActorTurn
  /\ Advance(body)
  /\ Commands /\ UNCHANGED health

\* The only command of an unconscious actor whose turn it is.
SaveTurn ==
  /\ status = "active" /\ current \in Actors
  /\ body[current].state = "unconscious" /\ economy.who = current
  /\ \E roll \in {"one", "failure", "success", "twenty"} :
       LET b == [body EXCEPT ![current] = DeathSave(body[current], roll)]
       IN  Advance(b) /\ Mirrors(b)
  /\ Commands

\* An enemy's turn, run for it: one or two blows on one actor of the other
\* side, or none, and the turn passes.
EnemyTurn ==
  /\ status = "active" /\ current \in Templates /\ body[current].state = "active"
  /\ \/ Advance(body) /\ UNCHANGED health
     \/ \E c \in Foes \cap Actors \cap Reachable : \E f \in HurtAll(c, body[c]) :
          LET b == [body EXCEPT ![c] = f]
          IN  Advance(b) /\ Mirrors(b)
  /\ Commands

(***************************************************************************)
(* Powers, consumables and opportunity attacks.                            *)
(***************************************************************************)
\* combatPowerRuntime: an action or a bonus action, at any living combatant.
Power ==
  /\ ActorTurn
  /\ \E cost \in {"acted", "quick"}, c \in Reachable :
       /\ ~economy[cost] /\ InSync(c)
       /\ \E f \in {HurtByPower(c, body[c], d) : d \in Damages}
                    \cup (IF c \in Friends \cap Actors
                          THEN {Healed(body[c], h) : h \in Heals} ELSE {}) :
            LET b == [body EXCEPT ![c] = f]
            IN  Keep(b, [economy EXCEPT ![cost] = TRUE]) /\ Mirrors(b)
  /\ Commands

\* useConsumableRuntime: whoever falls is defeated, an actor too.
Thrown(f, d) ==
  LET hp == AtLeastZero(f.hp - d)
  IN  [f EXCEPT !.hp = hp, !.state = IF hp = 0 THEN "defeated" ELSE @]

\* Consumables reach the active only, and have a turn rule of their own: the
\* combat is over when one side has nobody active.
Consumable ==
  /\ ActorTurn /\ ~economy.acted
  /\ \E c \in In(body, {"active"}) :
       /\ InSync(c)
       /\ \E f \in IF c \in Foes THEN {Thrown(body[c], d) : d \in Damages}
                                 ELSE {Healed(body[c], h) : h \in Heals} :
            LET b == [body EXCEPT ![c] = f]
                over == Cardinality(TeamsOf(In(b, {"active"}))) < 2
            IN  /\ body' = b /\ Mirrors(b)
                /\ current' = IF over THEN None ELSE current
                /\ economy' = IF over THEN Closed ELSE Acted
  /\ Commands /\ UNCHANGED <<turns, reacted>>

\* The current actor leaves the reach of R, each of whom strikes once a round.
\* The health follows only where it still equals the hit points.
Leave ==
  /\ ActorTurn /\ ~economy.disengaged
  /\ \E R \in (SUBSET ((Foes \cap In(body, {"active"})) \ reacted)) \ {{}} :
       \E d \in [R -> Damages] :
         LET f == Grazed(body[current], SumFunction(d))
         IN  /\ body' = [body EXCEPT ![current] = f]
             /\ health' = IF InSync(current) THEN [health EXCEPT ![current] = f.hp] ELSE health
             /\ reacted' = reacted \cup R
  /\ Commands /\ UNCHANGED <<current, economy, turns>>

(***************************************************************************)
(* Health outside the encounter's own commands.                            *)
(***************************************************************************)
\* Mutation: nobody asks whether the actor is in an active encounter.
FreeAnyway(a) == TRUE

\* actorHasActiveEncounter refuses rests, resource commands and powers.
Free(a) == ~(status = "active" /\ a \in fighters)

Elsewhere ==
  /\ status \notin {"completed", "cancelled"}   \* bound: later it concerns no encounter
  /\ \E a \in Actors, hp \in 0..MaxHp : Free(a) /\ health' = [health EXCEPT ![a] = hp]
  /\ UNCHANGED <<status, fighters, team, order, current, body, economy, turns, reacted, raised>>

\* A level raises the health of the actor wherever it is, and leaves its
\* combatant alone.  (Outside an encounter `Elsewhere' stands for it.)
LevelUp ==
  /\ status = "active"
  /\ Cardinality(raised) < MaxLevels   \* bound
  /\ \E a \in (Actors \cap fighters) \ raised :
       /\ health' = [health EXCEPT ![a] = @ + 1]
       /\ raised' = raised \cup {a}
  /\ UNCHANGED <<status, fighters, team, order, current, body, economy, turns, reacted>>

Next ==
  \/ Create \/ Start \/ Cancel \/ EndCombat
  \/ Attack \/ Maneuver \/ Stabilize \/ Flee \/ EndTurn \/ SaveTurn \/ EnemyTurn
  \/ Power \/ Consumable \/ Leave
  \/ Elsewhere \/ LevelUp

Spec == Init /\ [][Next]_vars

\* The players and the GM go on playing: the turn does not stay for ever with
\* one combatant while another is able to take it, whoever is dying in its turn
\* makes its save (it has no other command), and the GM completes what is over.
Contested == status = "active" /\ current # None /\ Cardinality(In(body, Able)) > 1
Saving == status = "active" /\ current \in Actors /\ body[current].state = "unconscious"
FairSpec ==
  /\ Spec
  /\ []<>(~Contested) \/ []<><<current' # current>>_current
  /\ []<>(~Saving) \/ []<><<body' # body>>_body
  /\ WF_vars(EndCombat)

(***************************************************************************)
(* Properties.                                                             *)
(***************************************************************************)
States == Living \cup {"dead", "defeated", "fled"}

\* Type invariant.
TypeOK ==
  /\ status \in {"none", "preparing", "active", "completed", "cancelled"}
  /\ fighters \subseteq Combatants /\ team \in [Combatants -> Sides]
  /\ order \in Seq(Combatants) /\ Len(order) \in {0, Cardinality(Combatants)}
  /\ current \in fighters \cup {None}
  /\ body \in [Combatants -> [hp : 0..MaxHp, state : States, saved : 0..3,
                              failed : 0..3]]
  /\ economy \in [who : fighters \cup {None}, acted : BOOLEAN, quick : BOOLEAN,
                  disengaged : BOOLEAN]
  /\ turns \in [Combatants -> Nat]
  /\ reacted \subseteq fighters
  /\ health \in [Actors -> 0..MaxHp + 1] /\ raised \subseteq fighters

\* Actors live on both sides, and of one side all lie there unconscious or
\* stable.
FallenDuel(b) ==
  /\ \E x, y \in Actors \cap In(b, Living) : team[x] # team[y]
  /\ Cardinality(TeamsOf(In(b, {"active"}))) < 2

\* An active encounter can go on: its current combatant can take the turn and
\* owns the open economy row, or nobody has a turn, no row is open, and the
\* combat is terminal and can be completed.  Three copies of the turn rule decide
\* who is current.  What they get wrong is confined to a duel whose one side has
\* fallen: against templates, or with both sides standing, no combat is stranded.
CombatCanGoOn ==
  status = "active" =>
    \/ current # None /\ body[current].state \in Able /\ economy.who = current
    \/ current = None /\ economy = Closed /\ (Terminal(body) \/ FallenDuel(body))

\* Nobody has two turns in one round (the UNIQUE key of
\* combat_turn_economy_v60, on which a command would fail).
OneTurnARound == \A c \in Combatants : turns[c] <= 1

\* The death saves and the status of a fighting actor agree: an unconscious one
\* has fewer than three failures, three mean death, and the active have none,
\* whichever of the five command families changed it last.
DyingIsConsistent ==
  \A a \in Actors \cap fighters :
    LET f == body[a] IN
    /\ f.state = "active" => f.saved = 0 /\ f.failed = 0
    /\ f.state = "active" /\ status \in {"active", "completed"} => f.hp > 0
    /\ f.state \in {"unconscious", "stable", "dead"} => f.hp = 0
    /\ (f.failed = 3) = (f.state = "dead")

\* A stable actor that is struck is dying again: a blow at 0 hit points, other
\* than a power's, never leaves the actor stable.
BlowsEndStability ==
  \A a \in Actors :
    /\ body[a].state = "stable" /\ body'[a].failed > body[a].failed
    => body'[a].state \in {"unconscious", "dead"}

\* While the encounter is active its hit points and the actors' health are the
\* same number, whichever command changed one of them.  A level gained meanwhile
\* puts the health above the hit points, and no command closes the gap again:
\* those that would mirror it are refused.
HealthIsMirrored ==
  status = "active" =>
    \A a \in Actors \cap fighters :
      IF a \in raised THEN health[a] > body[a].hp ELSE health[a] = body[a].hp

\* What the documents say of an active combat: without a current turn a single
\* side lives, and its completion is what is left (docs/ai-dungeon-master.md:49);
\* the encounter's hit points are the authority (docs/ROADMAP.md:57), so that no
\* actor's health differs from them.  Neither holds; a state in which both fail
\* at once refutes each of them.
NoTurnMeansOneSide == status = "active" /\ current = None => Terminal(body)
CombatHealthIsHealth ==
  status = "active" => \A a \in Actors \cap fighters : health[a] = body[a].hp
CombatAsDocumented == NoTurnMeansOneSide \/ CombatHealthIsHealth

\* The dead, the defeated and the fled take no further part: neither their
\* status nor their hit points change again.
OutStaysOut ==
  status = "active" =>
    \A c \in fighters : body[c].state \notin Living => body'[c] = body[c]

\* A fallen actor does not lie there for ever: it dies, is stable, stands again
\* or the encounter is completed, unless nobody has a turn any more though both
\* sides live (see CombatCanGoOn).
DyingIsResolved ==
  \A a \in Actors :
    (status = "active" /\ a \in fighters /\ body[a].state = "unconscious")
      ~> \/ body[a].state # "unconscious" \/ status = "completed"
         \/ current = None /\ FallenDuel(body)

\* What the command families that share one combat must agree on: whose turn it
\* is, what an actor's death saves mean, and how many hit points it has.
CombatIsConsistent ==
  /\ TypeOK
  /\ CombatCanGoOn /\ OneTurnARound
  /\ DyingIsConsistent /\ HealthIsMirrored

\* No command leaves a struck actor stable or touches one who is out.
FatesAreRespected == [][BlowsEndStability /\ OutStaysOut]_vars
=============================================================================
