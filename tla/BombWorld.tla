----------------------------- MODULE BombWorld -----------------------------
(***************************************************************************)
(* The bomb during the rounds of a match: who carries it, who has it in    *)
(* hand, who presses the action key or the defuse key, and the timers that *)
(* Bomb inherits from Weapon, which plantation and defusal share.          *)
(*                                                                         *)
(* Positions are abstracted: a player that can move may be found on or off *)
(* a site after each frame, and within reach of an item or of the planted  *)
(* bomb whenever it tries.  Of the other weapons only what they do to this *)
(* state is kept: they may kill anybody at any frame.  Commands run on the *)
(* game thread between two updates, in any number and order.               *)
(***************************************************************************)
EXTENDS Naturals, FiniteSets

CONSTANTS Players,
          PlantTime,        \* plantation_time, in frames
          DefuseTime,       \* defuse_time
          DetonationTime,   \* detonation_time
          MaxLapse          \* bound: most frames one late iteration skips

ASSUME BombAssumption ==
    /\ PlantTime \in Nat \ {0}
    /\ DefuseTime \in Nat \ {0}
    /\ DetonationTime \in Nat \ {0}
    /\ MaxLapse \in Nat \ {0}

VARIABLES phase,        \* phase of the match: BUY, ATTACK or ROUND_ENDED
          team, alive,
          holders,      \* players whose Loadout::bomb is set
          inHand,       \* players whose Loadout::equipped is BOMB
          pressing,     \* Player::making_action
          defusing,     \* Player::is_defusing_bomb
          onSite,       \* Player::on_site
          dropped,      \* DroppedBomb items lying in the world
          bombStatus, justPlanted, plantedFor,
          making,       \* Weapon::making_action of the bomb
          triggered,    \* Weapon::just_triggered_action
          since         \* Weapon::time_since_last_action

playerVars == <<holders, inHand, pressing, defusing, onSite>>
timerVars == <<making, triggered, since>>
bombVars == <<bombStatus, justPlanted, plantedFor>>
vars == <<phase, team, alive, playerVars, dropped, bombVars, timerVars>>

W == INSTANCE World WITH CounterTerrorists <- 1, Terrorists <- 1

Side(t) == {p \in Players : team[p] = t}
Fighting == phase \in {"ATTACK", "ROUND_ENDED"}

(***************************************************************************)
(* The bomb's own operations.                                              *)
(***************************************************************************)
BombAction ==
    IF bombStatus = "DEFUSED" THEN UNCHANGED timerVars
    ELSE making' = TRUE /\ triggered' = TRUE /\ since' = 0

\* Mutant: stopping leaves the timer running.
BombKeepsActing == UNCHANGED timerVars

BombStopAction == making' = FALSE /\ UNCHANGED <<triggered, since>>

\* Beyond every threshold the timer's value no longer matters: it saturates.
TimerLimit == IF PlantTime > DefuseTime THEN PlantTime ELSE DefuseTime
Aged(d) == IF triggered THEN since
           ELSE IF since + d > TimerLimit THEN TimerLimit ELSE since + d

-----------------------------------------------------------------------------
(***************************************************************************)
(* Commands.  with_player ignores those of the dead.                       *)
(***************************************************************************)
IgnoredAction(p) == p \in inHand /\ p \notin onSite

Press(p) ==
    /\ Fighting /\ p \in alive /\ ~IgnoredAction(p)
    /\ pressing' = pressing \cup {p}
    /\ IF p \in inHand THEN BombAction ELSE UNCHANGED timerVars
    /\ UNCHANGED <<phase, team, alive, holders, inHand, defusing, onSite,
                   dropped, bombVars>>

Release(p) ==
    /\ Fighting /\ p \in alive /\ ~IgnoredAction(p)
    /\ pressing' = pressing \ {p}
    /\ IF p \in inHand THEN BombStopAction ELSE UNCHANGED timerVars
    /\ UNCHANGED <<phase, team, alive, holders, inHand, defusing, onSite,
                   dropped, bombVars>>

\* Equipping first stops the action of the weapon in hand, whatever it is.
Unequip(p) == IF p \in inHand THEN BombStopAction ELSE UNCHANGED timerVars

EquipBomb(p) ==
    /\ p \in alive
    /\ Unequip(p)
    /\ inHand' = IF p \in holders THEN inHand \cup {p} ELSE inHand
    /\ UNCHANGED <<phase, team, alive, holders, pressing, defusing, onSite,
                   dropped, bombVars>>

\* A primary gun that the player lacks is not equipped: the bomb stays in hand.
EquipGun(p) ==
    /\ p \in alive
    /\ Unequip(p)
    /\ inHand' \in {inHand, inHand \ {p}}
    /\ UNCHANGED <<phase, team, alive, holders, pressing, defusing, onSite,
                   dropped, bombVars>>

\* Mutant: the item is not erased.
ItemNotErased == UNCHANGED dropped

EraseItem == dropped' = dropped - 1

\* Mutant: the item need not be there any more.
ItemMayBeGone == TRUE

ItemIsThere == dropped > 0

PickUpBomb(p) ==
    /\ Fighting /\ p \in alive /\ ItemIsThere
    /\ team[p] = "TT"
    /\ holders' = holders \cup {p}
    /\ EraseItem
    /\ UNCHANGED <<phase, team, alive, inHand, pressing, defusing, onSite,
                   bombVars, timerVars>>

\* Only a planted bomb has a plantation to reach; it keeps it to the restart.
CanDefuse(p) == team[p] = "CT" /\ bombStatus # "NOT_PLANTED"

StartDefuse(p) ==
    /\ Fighting /\ p \in alive /\ CanDefuse(p)
    /\ defusing' = defusing \cup {p}
    /\ BombAction
    /\ UNCHANGED <<phase, team, alive, holders, inHand, pressing, onSite,
                   dropped, bombVars>>

StopDefuse(p) ==
    /\ Fighting /\ p \in alive /\ team[p] = "CT" /\ p \in defusing
    /\ defusing' = defusing \ {p}
    /\ BombStopAction
    /\ UNCHANGED <<phase, team, alive, holders, inHand, pressing, onSite,
                   dropped, bombVars>>

-----------------------------------------------------------------------------
(***************************************************************************)
(* GameWorld::update.  The players are updated one after the other, so     *)
(* that the one with the bomb in hand may be killed before its turn (by    *)
(* the explosion, or by a player before it), or after.                     *)
(***************************************************************************)
\* A player that plants or defuses does not move; one freed by a defusal does.
Planting(p) == p \in pressing /\ p \in onSite /\ p \in inHand
CanMove(p) == p \in alive /\ p \notin defusing' /\ ~Planting(p)

Walk == \E moved \in SUBSET {p \in Players : CanMove(p)} :
            onSite' = (onSite \ moved) \cup (moved \ onSite)

\* drop_weapons of the dead, once their carriers' turn is settled.
Kill(dead, carriers, hands) ==
    /\ alive' = alive \ dead
    /\ holders' = carriers \ dead
    /\ inHand' = hands \ dead
    /\ dropped' = dropped + Cardinality(carriers \cap dead)

\* Bomb::update of the one who has it in hand when its turn comes.
Plants(h, d) == h \in onSite' /\ making /\ Aged(d) >= PlantTime

HandTurn(d, dead) ==
    /\ bombStatus # "PLANTED"
    /\ \E h \in inHand :
        /\ plantedFor' = plantedFor
        /\ triggered' = FALSE
        /\ IF Plants(h, d)
           THEN /\ bombStatus' = "PLANTED" /\ justPlanted' = TRUE
                /\ since' = 0 /\ making' = FALSE
                /\ Kill(dead, holders \ {h}, inHand \ {h})
           ELSE /\ since' = Aged(d)
                /\ Kill(dead, holders, inHand)
                /\ UNCHANGED <<bombStatus, justPlanted, making>>

\* Nobody's turn moves the bomb: nobody has it in hand, or they died first.
NoHandTurn(dead) ==
    /\ bombStatus # "PLANTED"
    /\ inHand \subseteq dead
    /\ Kill(dead, holders, inHand)
    /\ UNCHANGED <<bombVars, timerVars>>

DefusalIsComplete(d) == making /\ Aged(d) >= DefuseTime

\* Mutant: the defusal is tested before the explosion.
DefusalFirst(d) ==
    IF DefusalIsComplete(d) THEN "DEFUSED"
    ELSE IF plantedFor + d >= DetonationTime THEN "EXPLODED" ELSE "PLANTED"

\* Bomb::update_planted: an explosion leaves nothing to defuse.
Outcome(d) ==
    IF plantedFor + d >= DetonationTime THEN "EXPLODED"
    ELSE IF DefusalIsComplete(d) THEN "DEFUSED" ELSE "PLANTED"

\* Mutant: only those alive are freed.
FreeTheLiving == defusing' = defusing \ alive

\* What GameWorld::update does to those at the bomb when it is defused.
FreeDefusers == defusing' = defusing \ Side("CT")

PlantedTurn(d, dead) ==
    /\ bombStatus = "PLANTED" /\ bombStatus' = Outcome(d)
    /\ justPlanted' = FALSE
    /\ plantedFor' = plantedFor + d
    /\ triggered' = FALSE
    /\ IF bombStatus' = "DEFUSED"
       THEN since' = 0 /\ making' = FALSE
       ELSE since' = Aged(d) /\ UNCHANGED making
    /\ Kill(dead, holders, inHand)

UpdateFrame(d) ==
    \E dead \in SUBSET alive :
        /\ UNCHANGED <<phase, team, pressing>>
        /\ IF bombStatus = "PLANTED" /\ Outcome(d) = "DEFUSED"
           THEN FreeDefusers ELSE UNCHANGED defusing
        /\ Walk
        /\ PlantedTurn(d, dead) \/ HandTurn(d, dead) \/ NoHandTurn(dead)

Frame == \E d \in 0..MaxLapse : UpdateFrame(d)

-----------------------------------------------------------------------------
(***************************************************************************)
(* Phases and rounds.                                                      *)
(***************************************************************************)
NextPhase ==
    /\ \/ phase = "BUY" /\ phase' = "ATTACK"
       \/ phase = "ATTACK" /\ phase' = "ROUND_ENDED"
    /\ UNCHANGED <<team, alive, playerVars, dropped, bombVars, timerVars>>

BombRestart ==
    /\ making' = FALSE /\ triggered' = FALSE /\ since' = 0
    /\ bombStatus' = "NOT_PLANTED" /\ plantedFor' = 0
    /\ UNCHANGED justPlanted

\* Mutant: to anybody.
HandOutToAnybody(tts) == \E p \in Players : holders' = {p}

\* The bomb is handed to a random terrorist, if there is one.
HandOut(tts) ==
    IF tts = {} THEN holders' = {} ELSE \E p \in tts : holders' = {p}

NewRound(swap) ==
    /\ phase = "ROUND_ENDED" /\ phase' = "BUY"
    /\ team' = IF swap THEN W!SwapTeams ELSE team
    /\ alive' = W!InWorld
    /\ pressing' = {} /\ defusing' = {} /\ onSite' = {} /\ inHand' = {}
    /\ BombRestart
    /\ HandOut({p \in Players : team'[p] = "TT"})
    /\ dropped' = 0

\* The first round, just handed out: the state NewRound leaves.
Init ==
    /\ phase = "BUY"
    /\ team \in [Players -> {"CT", "TT"}]
    /\ alive = Players
    /\ pressing = {} /\ defusing = {} /\ onSite = {} /\ inHand = {}
    /\ holders \in IF Side("TT") = {} THEN {{}} ELSE {{p} : p \in Side("TT")}
    /\ dropped = 0
    /\ bombStatus = "NOT_PLANTED" /\ justPlanted = FALSE /\ plantedFor = 0
    /\ making = FALSE /\ triggered = FALSE /\ since = 0

Command(p) == \/ Press(p) \/ Release(p) \/ EquipBomb(p) \/ EquipGun(p)
              \/ PickUpBomb(p) \/ StartDefuse(p) \/ StopDefuse(p)

Next == \/ \E p \in Players : Command(p)
        \/ Frame
        \/ NextPhase
        \/ \E swap \in BOOLEAN : NewRound(swap)

Spec == Init /\ [][Next]_vars

-----------------------------------------------------------------------------
(***************************************************************************)
(* Safety.                                                                 *)
(***************************************************************************)
\* The types of the variables.
TypeOK ==
    /\ phase \in {"BUY", "ATTACK", "ROUND_ENDED"}
    /\ team \in [Players -> {"CT", "TT"}]
    /\ alive \subseteq Players
    /\ holders \subseteq Players /\ inHand \subseteq Players
    /\ pressing \subseteq Players /\ defusing \subseteq Players
    /\ onSite \subseteq Players
    /\ dropped \in Nat
    /\ bombStatus \in {"NOT_PLANTED", "PLANTED", "DEFUSED", "EXPLODED"}
    /\ justPlanted \in BOOLEAN /\ plantedFor \in Nat
    /\ making \in BOOLEAN /\ triggered \in BOOLEAN
    /\ since \in 0..TimerLimit

\* There is one bomb, whatever hands it went through: carried, lying on the
\* ground or planted (receive_bomb, drop_weapons, Bomb::update, restart_players).
OneBomb ==
    Side("TT") # {} =>
        \/ bombStatus = "NOT_PLANTED" /\ dropped = 0 /\ \E p \in Players : holders = {p}
        \/ bombStatus = "NOT_PLANTED" /\ dropped = 1 /\ holders = {}
        \/ bombStatus # "NOT_PLANTED" /\ dropped = 0 /\ holders = {}

\* Whoever has the bomb in hand carries it, and carriers are terrorists alive:
\* no kill, pick-up, half time or plantation leaves a stale pointer or a stale
\* Loadout::equipped behind.
CarriersAreSound ==
    /\ inHand \subseteq holders
    /\ holders \subseteq Side("TT") \cap alive

\* The timer of a planted bomb runs towards a defusal only if some counter
\* terrorist has pressed the key and not released it (but may be dead).
DefusalHasAuthor ==
    bombStatus = "PLANTED" /\ making => defusing \cap Side("CT") # {}

\* A defusal frees everyone who was at it, whoever's press completed it: a
\* player left in is_defusing_bomb could not move nor shoot.
DefusalFreesEveryone ==
    [][bombStatus = "PLANTED" /\ bombStatus' = "DEFUSED" => defusing' = {}]_vars

\* The detailed world does what the match relies on (module World).
ImplementsWorld ==
    [][W!WorldStep(0..MaxLapse, Fighting)]_<<team, alive, bombVars>>

=============================================================================
