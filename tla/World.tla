------------------------------- MODULE World -------------------------------
(***************************************************************************)
(* What the game world promises to the match that drives it: who plays on  *)
(* which side, who is alive, and what became of the bomb.  Positions,      *)
(* weapons and money are abstracted; BombWorld models the bomb's carriers  *)
(* and timers in detail and is checked to implement this module.           *)
(*                                                                         *)
(* Time is counted in server frames: the floating point seconds of the     *)
(* code are always sums of the same frame lapses.                          *)
(***************************************************************************)
EXTENDS Naturals, FiniteSets

CONSTANTS Players,            \* user names that may join the game
          CounterTerrorists,  \* seats of the CT side
          Terrorists,         \* seats of the TT side
          DetonationTime      \* frames from plantation to explosion

ASSUME WorldAssumption ==
    /\ CounterTerrorists \in Nat \ {0}
    /\ Terrorists \in Nat \ {0}
    /\ DetonationTime \in Nat \ {0}

VARIABLES team,         \* side of each player, "NONE" before add_player
          alive,        \* players of the world with life left
          bombStatus,   \* Bomb::status
          justPlanted,  \* Bomb::just_been_planted
          plantedFor    \* Bomb::time_since_planted

worldVars == <<team, alive, bombStatus, justPlanted, plantedFor>>

Teams == {"CT", "TT"}
BombStatuses == {"NOT_PLANTED", "PLANTED", "DEFUSED", "EXPLODED"}

InWorld == {p \in Players : team[p] # "NONE"}
Side(t) == {p \in Players : team[p] = t}

TtDead == Side("TT") \cap alive = {}
CtDead == Side("CT") \cap alive = {}

(***************************************************************************)
(* A world holding only the creator of the game, who sits on the CT side.  *)
(***************************************************************************)
WorldInit(creator) ==
    /\ team = [p \in Players |-> IF p = creator THEN "CT" ELSE "NONE"]
    /\ alive = {creator}
    /\ bombStatus = "NOT_PLANTED"
    /\ justPlanted = FALSE
    /\ plantedFor = 0

\* Mutant: one side is filled before the other.
CtFirst == IF Cardinality(Side("CT")) < CounterTerrorists THEN "CT" ELSE "TT"

\* The side add_player gives to the next player.
FreeSide ==
    LET cts == Cardinality(Side("CT"))
        tts == Cardinality(Side("TT"))
    IN  IF cts < CounterTerrorists /\ (tts >= Terrorists \/ cts <= tts)
        THEN "CT" ELSE "TT"

HasRoom == \/ Cardinality(Side("CT")) < CounterTerrorists
           \/ Cardinality(Side("TT")) < Terrorists

\* The exception for a full world never leaves the code: add_player is reached
\* with fewer players than seats, hence with a free seat on some side.
AddPlayer(p) ==
    /\ team[p] = "NONE"
    /\ HasRoom
    /\ team' = [team EXCEPT ![p] = FreeSide]
    /\ alive' = alive \cup {p}
    /\ UNCHANGED <<bombStatus, justPlanted, plantedFor>>

OtherSide(t) == CASE t = "CT" -> "TT" [] t = "TT" -> "CT" [] OTHER -> "NONE"

\* Mutant: the scores are swapped but not the sides.
KeepTeams == team

\* The sides swap_teams leaves behind.
SwapTeams == [p \in Players |-> OtherSide(team[p])]

(***************************************************************************)
(* swap_teams (at half time only), restart_players, spawn_players and      *)
(* restart_items.  Bomb::restart leaves just_been_planted alone.           *)
(***************************************************************************)
Restart(swap) ==
    /\ team' = IF swap THEN SwapTeams ELSE team
    /\ alive' = InWorld
    /\ bombStatus' = "NOT_PLANTED"
    /\ plantedFor' = 0
    /\ UNCHANGED justPlanted

(***************************************************************************)
(* One GameWorld::update after d frames.  A planted bomb ages, explodes    *)
(* when its time is over and may else be defused; a bomb not planted yet   *)
(* may be planted by a terrorist who is alive, once the phase lets players *)
(* act (combat).  Anybody may be shot in the meantime.                     *)
(***************************************************************************)
BombTicks(d) ==
    /\ bombStatus = "PLANTED"
    /\ plantedFor' = plantedFor + d
    /\ justPlanted' = FALSE
    /\ bombStatus' \in IF plantedFor + d >= DetonationTime
                       THEN {"EXPLODED"} ELSE {"PLANTED", "DEFUSED"}

BombIsPlanted ==
    /\ bombStatus = "NOT_PLANTED"
    /\ ~TtDead
    /\ bombStatus' = "PLANTED"
    /\ justPlanted' = TRUE
    /\ UNCHANGED plantedFor

BombIsIdle ==
    /\ bombStatus # "PLANTED"
    /\ UNCHANGED <<bombStatus, justPlanted, plantedFor>>

Update(d, combat) ==
    /\ \/ BombTicks(d)
       \/ combat /\ BombIsPlanted
       \/ BombIsIdle
    /\ \E shot \in SUBSET alive : alive' = alive \ shot
    /\ UNCHANGED team

\* A step of the world during a match, for the modules that implement it.
WorldStep(lapses, combat) ==
    \/ \E swap \in BOOLEAN : Restart(swap)
    \/ \E d \in lapses : Update(d, combat)

WorldTypeOK ==
    /\ team \in [Players -> Teams \cup {"NONE"}]
    /\ alive \subseteq InWorld
    /\ bombStatus \in BombStatuses
    /\ justPlanted \in BOOLEAN
    /\ plantedFor \in Nat

=============================================================================
