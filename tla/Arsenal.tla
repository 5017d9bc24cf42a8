------------------------------ MODULE Arsenal ------------------------------
(***************************************************************************)
(* The guns of a match: where each one is (in a slot of a loadout or on    *)
(* the ground), whose hand it is in, its ammunition and its two triggers,  *)
(* from purchases, pick-ups, swaps, shots, deaths and restarts.            *)
(*                                                                         *)
(* A gun is an identity: one that is nowhere does not exist, and comes     *)
(* into being with the ammunition of its kind and its triggers at rest.    *)
(* Positions are abstracted (any gun on the ground may be within reach,    *)
(* any shot may hit anybody, and damage may or may not kill), the rate of  *)
(* fire too (a gun that could shoot may not be ready), and money: whoever  *)
(* cannot pay does not take the step.  Who is defusing or presses the key  *)
(* of the action is left to BombWorld: here anybody may be defusing, in    *)
(* any frame of a fight, and the key matters only to the gun in hand.      *)
(***************************************************************************)
EXTENDS Naturals, FiniteSets, Functions

CONSTANTS Players,
          Guns,           \* bound: the identities of guns
          Kind,           \* GunType of each gun
          MapGuns,        \* kinds lying on the map when a round begins
          InitialAmmo,    \* ammunition of a new gun, per kind
          ClipSize,       \* what a clip adds, per kind
          MaxAmmo,        \* bound: no clip is bought beyond it, per kind
          NoGun

Kinds == {"GLOCK", "AK47", "M3", "AWP"}

ASSUME ArsenalAssumption ==
    /\ Kind \in [Guns -> Kinds]
    /\ InitialAmmo \in [Kinds -> Nat]
    /\ ClipSize \in [Kinds -> Nat]
    /\ MaxAmmo \in [Kinds -> Nat]
    /\ MapGuns \subseteq Kinds
    /\ NoGun \notin Guns

VARIABLES phase,
          alive,
          primary,    \* Loadout::primary_gun, NoGun when null
          secondary,  \* Loadout::secondary_gun
          equipped,   \* Loadout::equipped
          ground,     \* guns of the DroppedGun items
          ammo,       \* Gun::ammo
          pulled,     \* guns whose trigger is: the flag their can_shoot reads
          turns       \* players GameWorld::update has still to visit

slots == <<primary, secondary, equipped>>
gunVars == <<ammo, pulled>>
vars == <<phase, alive, slots, ground, gunVars, turns>>

Fighting == phase \in {"ATTACK", "ROUND_ENDED"}

Held == {primary[p] : p \in Players} \cup {secondary[p] : p \in Players}
Existing == (Held \cup ground) \ {NoGun}
Fresh(k) == {g \in Guns \ Existing : Kind[g] = k}

\* Loadout::equipped_weapon; NoGun stands for the knife and the bomb.
InHand(p) == CASE equipped[p] = "PRIMARY" -> primary[p]
               [] equipped[p] = "SECONDARY" -> secondary[p]
               [] OTHER -> NoGun

(***************************************************************************)
(* Weapon::action sets two flags.  making_action, which Ak_47::can_shoot   *)
(* reads, lasts until stop_action; just_triggered_action, which            *)
(* Gun::can_shoot reads, lasts until the next update of the gun.           *)
(***************************************************************************)
Automatic(g) == Kind[g] = "AK47"

AfterAction(g) == IF g = NoGun THEN pulled ELSE pulled \cup {g}
AfterStop(g) == IF g # NoGun /\ Automatic(g) THEN pulled \ {g} ELSE pulled
AfterUpdate(g) == IF Automatic(g) THEN pulled ELSE pulled \ {g}

-----------------------------------------------------------------------------
(***************************************************************************)
(* Commands.  The game thread runs them between two updates, and           *)
(* with_player ignores those of the dead.                                  *)
(***************************************************************************)
Obeyed(p) == p \in alive /\ turns = {}

\* On or off the site, the key may be ignored by whoever has the bomb in hand.
Press(p) ==
    /\ Fighting /\ Obeyed(p)
    /\ pulled' = AfterAction(InHand(p))
    /\ UNCHANGED <<phase, alive, slots, ground, ammo, turns>>

Release(p) ==
    /\ Fighting /\ Obeyed(p)
    /\ pulled' = AfterStop(InHand(p))
    /\ UNCHANGED <<phase, alive, slots, ground, ammo, turns>>

\* Mutant: a missing gun is equipped.
AlwaysEquips(p, w) == TRUE

\* Carrying the bomb is not modelled: it may be equipped or not.
CanEquip(p, w) == w = "PRIMARY" => primary[p] # NoGun

\* The weapon in hand stops first, even if it stays in hand.
Equip(p, w) ==
    /\ Obeyed(p)
    /\ pulled' = AfterStop(InHand(p))
    /\ equipped' = IF CanEquip(p, w) THEN [equipped EXCEPT ![p] = w]
                   ELSE equipped
    /\ UNCHANGED <<phase, alive, primary, secondary, ground, ammo, turns>>

\* Mutant: an empty slot is dropped.
DropsNothing(old) == ground \cup {old}

\* Mutant: the gun replaced is not dropped.
ReplacedIsLost(old) == ground

\* What lies on the ground once a gun replaced was dropped.
Drop(old) == IF old = NoGun THEN ground ELSE ground \cup {old}

\* Purchases of any kind, a glock too, fill the primary slot; what was there
\* falls, with its triggers.  Bound: a glock is left for the next death.
BuyGun(p, g) ==
    /\ phase = "BUY" /\ Obeyed(p)
    /\ g \in Fresh(Kind[g]) /\ Fresh("GLOCK") \ {g} # {}
    /\ primary' = [primary EXCEPT ![p] = g]
    /\ ground' = Drop(primary[p])
    /\ UNCHANGED <<phase, alive, secondary, equipped, gunVars, turns>>

BuyClip(p, g) ==
    /\ phase = "BUY" /\ Obeyed(p)
    /\ g \in {primary[p], secondary[p]} \ {NoGun}
    /\ ammo[g] + ClipSize[Kind[g]] <= MaxAmmo[Kind[g]]
    /\ ammo' = [ammo EXCEPT ![g] = @ + ClipSize[Kind[g]]]
    /\ UNCHANGED <<phase, alive, slots, ground, pulled, turns>>

Slot(g) == IF Kind[g] = "GLOCK" THEN "SECONDARY" ELSE "PRIMARY"

\* Mutant: the item is not erased.
LeaveItem(g, old) == Drop(old)

\* The gun taken leaves the ground, the one it replaces lies in its place.
Exchange(g, old) == Drop(old) \ {g}

PickUp(p, g) ==
    /\ Fighting /\ Obeyed(p) /\ g \in ground
    /\ IF Slot(g) = "SECONDARY"
       THEN /\ secondary' = [secondary EXCEPT ![p] = g]
            /\ ground' = Exchange(g, secondary[p])
            /\ UNCHANGED primary
       ELSE /\ primary' = [primary EXCEPT ![p] = g]
            /\ ground' = Exchange(g, primary[p])
            /\ UNCHANGED secondary
    /\ UNCHANGED <<phase, alive, equipped, gunVars, turns>>

-----------------------------------------------------------------------------
(***************************************************************************)
(* GameWorld::update: first the bomb, then each player's turn.             *)
(***************************************************************************)
\* Mutant: the dead keep what they had in hand.
HandsOfTheDead(dead) == equipped

\* Loadout::reset leaves its owner with a glock in hand.
HandsAfter(dead) ==
    [q \in Players |-> IF q \in dead THEN "SECONDARY" ELSE equipped[q]]

\* One new glock for each of the dead.
Renewals(dead) == Injection(dead, Fresh("GLOCK"))

(***************************************************************************)
(* drop_weapons: the primary gun falls as it is, the secondary one is      *)
(* destroyed and replaced by a new glock.  The identity of a gun that is   *)
(* no more has the ammunition and the triggers of one that is yet to be.   *)
(***************************************************************************)
Kill(dead, spent, rest) ==
    LET destroyed == {secondary[d] : d \in dead}
    IN  /\ alive' = alive \ dead
        /\ ground' = ground \cup ({primary[d] : d \in dead} \ {NoGun})
        /\ primary' = [q \in Players |-> IF q \in dead THEN NoGun
                                         ELSE primary[q]]
        /\ \E new \in Renewals(dead) :
            secondary' = [q \in Players |-> IF q \in dead THEN new[q]
                                           ELSE secondary[q]]
        /\ equipped' = HandsAfter(dead)
        /\ ammo' = [g \in Guns |-> IF g \in destroyed THEN InitialAmmo[Kind[g]]
                                   ELSE spent[g]]
        /\ pulled' = rest \ destroyed
        /\ UNCHANGED phase

\* Each frame begins with the bomb, which may explode.
BeginFrame ==
    /\ turns = {}
    /\ \E dead \in SUBSET alive :
        /\ dead # {} => Fighting
        /\ Kill(dead, ammo, pulled)
        /\ turns' = Players

Bullets(g) == IF Automatic(g) THEN 3 ELSE 1

\* Mutant: a burst needs a single bullet.
AnyAmmo(g) == ammo[g] > 0

\* Gun::can_shoot wants a bullet, Ak_47::can_shoot those of a burst.
EnoughAmmo(g) == ammo[g] >= Bullets(g)

CanShoot(g) == EnoughAmmo(g) /\ g \in pulled

\* Ammunition has 16 bits.
Spend(g) == [ammo EXCEPT ![g] = (@ + 65536 - Bullets(g)) % 65536]

\* Only the pellets of an M3 reach several players.
Victims(p, g) == {dead \in SUBSET (alive \ {p}) :
                    Kind[g] # "M3" => Cardinality(dead) <= 1}

Shoot(p, g) ==
    /\ g # NoGun /\ CanShoot(g)
    /\ \E dead \in Victims(p, g) :
        /\ Kill(dead, Spend(g), AfterUpdate(g))
        /\ turns' = turns \ {p}

\* Not triggered, out of ammunition or not ready yet.
Idle(p, g) ==
    /\ g # NoGun
    /\ pulled' = AfterUpdate(g)
    /\ turns' = turns \ {p}
    /\ UNCHANGED <<phase, alive, slots, ground, ammo>>

\* The knife's own trigger is not kept: it may stab in any frame.
Stab(p) ==
    /\ equipped[p] = "KNIFE"
    /\ \E dead \in SUBSET (alive \ {p}) :
        /\ Cardinality(dead) <= 1
        /\ Kill(dead, ammo, pulled)
        /\ turns' = turns \ {p}

\* Planted, the bomb leaves the hand.
HandleBomb(p) ==
    /\ equipped[p] = "BOMB"
    /\ \/ UNCHANGED equipped
       \/ Fighting /\ equipped' = [equipped EXCEPT ![p] = "SECONDARY"]
    /\ turns' = turns \ {p}
    /\ UNCHANGED <<phase, alive, primary, secondary, ground, gunVars>>

\* Whoever defuses has no turn: the weapon in hand is not updated.
Defuse(p) ==
    /\ Fighting
    /\ turns' = turns \ {p}
    /\ UNCHANGED <<phase, alive, slots, ground, gunVars>>

\* Killed in an earlier frame, by the bomb or in the turn of somebody else.
SkipDead(p) ==
    /\ turns' = turns \ {p}
    /\ UNCHANGED <<phase, alive, slots, ground, gunVars>>

Turn(p) ==
    /\ p \in turns
    /\ IF p \notin alive THEN SkipDead(p)
       ELSE \/ Defuse(p)
            \/ Shoot(p, InHand(p))
            \/ Idle(p, InHand(p))
            \/ Stab(p)
            \/ HandleBomb(p)

-----------------------------------------------------------------------------
(***************************************************************************)
(* Phases and rounds.                                                      *)
(***************************************************************************)
NextPhase ==
    /\ turns = {}
    /\ \/ phase = "BUY" /\ phase' = "ATTACK"
       \/ phase = "ATTACK" /\ phase' = "ROUND_ENDED"
    /\ UNCHANGED <<alive, slots, ground, gunVars, turns>>

\* swap_teams resets the loadouts: no primary gun, a new glock.  Since every
\* gun ends there, the new ones may take the identities of the old.
ResetLoadouts(swap) ==
    primary' = IF swap THEN [p \in Players |-> NoGun] ELSE primary

\* What the players hold once the loadouts were reset, or not.
Kept == {primary'[p] : p \in Players} \cup {secondary[p] : p \in Players}

\* restart_items: whatever lay on the ground is gone and the map's guns are
\* back, one of each kind in MapGuns, none of them in a loadout.
MapItems(items) ==
    /\ items \subseteq Guns \ Kept
    /\ \A k \in MapGuns : \E g \in items : Kind[g] = k
    /\ \A g \in items : Kind[g] \in MapGuns
    /\ \A g, h \in items : Kind[g] = Kind[h] => g = h

\* stop_making_action reaches the weapon in hand, and no other.
Stopped == {g \in {InHand(p) : p \in Players} \ {NoGun} : Automatic(g)}

\* The guns that stay in a loadout as they were.
Untouched(swap) == IF swap THEN {} ELSE Held

NewRound(swap) ==
    /\ turns = {} /\ phase = "ROUND_ENDED" /\ phase' = "BUY"
    /\ ResetLoadouts(swap)
    /\ \E items \in SUBSET Guns : MapItems(items) /\ ground' = items
    /\ equipped' = [p \in Players |-> IF swap \/ equipped[p] = "BOMB"
                                      THEN "SECONDARY" ELSE equipped[p]]
    /\ ammo' = [g \in Guns |-> IF g \in Untouched(swap) THEN ammo[g]
                               ELSE InitialAmmo[Kind[g]]]
    /\ pulled' = (pulled \cap Untouched(swap)) \ Stopped
    /\ alive' = Players
    /\ UNCHANGED <<secondary, turns>>

\* The first round, just begun.
Init ==
    /\ phase = "BUY"
    /\ alive = Players
    /\ primary = [p \in Players |-> NoGun]
    /\ secondary \in [Players -> {g \in Guns : Kind[g] = "GLOCK"}]
    /\ \A p, q \in Players : secondary[p] = secondary[q] => p = q
    /\ equipped = [p \in Players |-> "SECONDARY"]
    /\ ground \in SUBSET Guns
    /\ ground \cap {secondary[p] : p \in Players} = {}
    /\ \A k \in MapGuns : \E g \in ground : Kind[g] = k
    /\ \A g \in ground : Kind[g] \in MapGuns
    /\ \A g, h \in ground : Kind[g] = Kind[h] => g = h
    /\ ammo = [g \in Guns |-> InitialAmmo[Kind[g]]]
    /\ pulled = {}
    /\ turns = {}

Weapons == {"PRIMARY", "SECONDARY", "KNIFE", "BOMB"}

Command(p) == \/ Press(p) \/ Release(p)
              \/ \E w \in Weapons : Equip(p, w)
              \/ \E g \in Guns : BuyGun(p, g) \/ BuyClip(p, g) \/ PickUp(p, g)

Next == \/ \E p \in Players : Command(p) \/ Turn(p)
        \/ BeginFrame
        \/ NextPhase
        \/ \E swap \in BOOLEAN : NewRound(swap)

Spec == Init /\ [][Next]_vars

-----------------------------------------------------------------------------
(***************************************************************************)
(* Safety.                                                                 *)
(***************************************************************************)
\* The types of the variables.
TypeOK ==
    /\ phase \in {"BUY", "ATTACK", "ROUND_ENDED"}
    /\ alive \subseteq Players
    /\ primary \in [Players -> Guns \cup {NoGun}]
    /\ secondary \in [Players -> Guns]
    /\ equipped \in [Players -> Weapons]
    /\ ground \subseteq Guns
    /\ ammo \in [Guns -> Nat]
    /\ pulled \subseteq Guns
    /\ turns \subseteq Players

\* A gun is in one place: no purchase, exchange, death or restart leaves it in
\* two slots, or in a slot and on the ground (new_primary_gun, drop_weapons,
\* pick_up_gun_for, restart_items).
OnePlaceEach ==
    /\ \A p, q \in Players :
        /\ primary[p] = primary[q] /\ primary[p] # NoGun => p = q
        /\ secondary[p] = secondary[q] => p = q
        /\ primary[p] # secondary[q]
    /\ Held \cap ground = {}

\* What is equipped names a slot that is full: with null in hand the player's
\* keys and turns would do nothing (Loadout::equipped_weapon).  The secondary
\* slot always holds a glock: get_dto and buy_clip use it without asking, and
\* say that it is one.
HandsAreFull ==
    \A p \in Players :
        /\ equipped[p] = "PRIMARY" => primary[p] # NoGun
        /\ Kind[secondary[p]] = "GLOCK"

\* The dead, whom GameWorld::update goes on visiting, own nothing that another
\* could not pick up and nothing that would fire, until the round ends.
DeadAreDisarmed ==
    \A p \in Players \ alive :
        /\ primary[p] = NoGun
        /\ equipped[p] = "SECONDARY" /\ secondary[p] \notin pulled

Destroyed == Existing \ Existing'
GlocksOfTheDead == {secondary[p] : p \in alive \ alive'}

\* Within a round a gun is destroyed by the death of who has it in the secondary
\* slot, and by nothing else.  A restart destroys what lies on the ground, and
\* what is in a loadout only when all are reset, at half time.  That the dead's
\* equipment falls (README.md:125) is so of the primary slot and the bomb only.
GunsSurvive ==
    [][\/ Destroyed \subseteq GlocksOfTheDead
       \/ /\ phase = "ROUND_ENDED" /\ phase' = "BUY"
          /\ \/ Destroyed \subseteq ground
             \/ \A p \in Players : primary'[p] = NoGun]_vars

\* During a fight the ammunition of a gun only changes by a shot of a living
\* player who has it in hand, and falls: its 16 bits never wrap, and who dies
\* before the own turn of a frame does not fire in it.
AmmoIsOnlySpent ==
    [][Fighting /\ phase' # "BUY" =>
        \A g \in Existing \cap Existing' :
            ammo'[g] # ammo[g] =>
                /\ ammo'[g] < ammo[g]
                /\ \E p \in alive \cap turns : InHand(p) = g]_vars

=============================================================================
