-------------------------- MODULE BombWorldProofs --------------------------
(***************************************************************************)
(* Proofs about the bomb, for any set of players and any timers.           *)
(***************************************************************************)
EXTENDS BombWorld, FiniteSetTheorems, TLAPS

-----------------------------------------------------------------------------
(***************************************************************************)
(* One bomb.  OneBomb alone is not inductive: without sound carriers a     *)
(* pick-up could give it to a second player, and a death drop it twice.    *)
(***************************************************************************)
Carried == bombStatus = "NOT_PLANTED" /\ dropped = 0 /\ \E p \in Players : holders = {p}
OnGround == bombStatus = "NOT_PLANTED" /\ dropped = 1 /\ holders = {}
Gone == /\ dropped = 0 /\ holders = {}
        /\ bombStatus = "NOT_PLANTED" => Side("TT") = {}

Sides == /\ team \in [Players -> {"CT", "TT"}]
         /\ alive \subseteq Players
         /\ bombStatus \in {"NOT_PLANTED", "PLANTED", "DEFUSED", "EXPLODED"}

BombInv == Sides /\ CarriersAreSound /\ (Carried \/ OnGround \/ Gone)

\* The steps that leave the bomb where it is.
LEMMA BombInvKept ==
    ASSUME BombInv, UNCHANGED <<team, alive, holders, dropped, bombStatus>>,
           inHand' \subseteq holders'
    PROVE  BombInv'
  BY DEF BombInv, Sides, CarriersAreSound, Carried, OnGround, Gone, Side

\* Whoever dies with the bomb drops it, and drops it once.
LEMMA KillDropsTheBomb ==
    ASSUME NEW dead, NEW hands, NEW p, Kill(dead, {p}, hands), dropped = 0
    PROVE  \/ p \in dead /\ holders' = {} /\ dropped' = 1
           \/ p \notin dead /\ holders' = {p} /\ dropped' = 0
  <1>1. CASE p \in dead
    <2>1. {p} \cap dead = {p} /\ {p} \ dead = {}
      BY <1>1
    <2>2. holders' = {} /\ dropped' = 0 + Cardinality({p})
      BY <2>1 DEF Kill
    <2>3. Cardinality({p}) = 1
      BY FS_Singleton
    <2>4. QED
      BY <1>1, <2>2, <2>3
  <1>2. CASE p \notin dead
    <2>1. {p} \cap dead = {} /\ {p} \ dead = {p}
      BY <1>2
    <2>2. holders' = {p} /\ dropped' = 0 + Cardinality({})
      BY <2>1 DEF Kill
    <2>3. QED
      BY <1>2, <2>2, FS_EmptySet
  <1>3. QED
    BY <1>1, <1>2

\* A death of nobody who carries it leaves the items of the world alone.
LEMMA KillDropsNothing ==
    ASSUME NEW dead, NEW hands, Kill(dead, {}, hands), dropped \in Nat
    PROVE  holders' = {} /\ dropped' = dropped
  <1>1. holders' = {} /\ dropped' = dropped + Cardinality({})
    BY DEF Kill
  <1>2. QED
    BY <1>1, FS_EmptySet

LEMMA BombInvFrame ==
    ASSUME BombInv, NEW d \in 0..MaxLapse, UpdateFrame(d)
    PROVE  BombInv'
  <1>1. PICK dead \in SUBSET alive :
            /\ UNCHANGED team
            /\ PlantedTurn(d, dead) \/ HandTurn(d, dead) \/ NoHandTurn(dead)
    BY DEF UpdateFrame
  <1>2. dropped \in Nat
    BY DEF BombInv, Carried, OnGround, Gone
  <1>3. CASE PlantedTurn(d, dead)
    <2>1. bombStatus = "PLANTED" /\ bombStatus' \in {"PLANTED", "DEFUSED", "EXPLODED"}
      BY <1>3 DEF PlantedTurn, Outcome
    <2>2. Gone
      BY <2>1 DEF BombInv, Carried, OnGround
    <2>3. Kill(dead, {}, inHand) /\ dropped = 0 /\ inHand = {}
      BY <1>3, <2>2 DEF PlantedTurn, BombInv, Gone, CarriersAreSound
    <2>4. holders' = {} /\ dropped' = 0 /\ inHand' = {} /\ alive' \subseteq alive
      BY <1>2, <2>3, KillDropsNothing DEF Kill
    <2>5. QED
      BY <1>1, <2>1, <2>4 DEF BombInv, Sides, CarriersAreSound, Gone, Side
  <1>4. CASE HandTurn(d, dead)
    <2>1. PICK h \in inHand :
              /\ bombStatus # "PLANTED"
              /\ IF Plants(h, d)
                 THEN bombStatus' = "PLANTED" /\ Kill(dead, holders \ {h}, inHand \ {h})
                 ELSE UNCHANGED bombStatus /\ Kill(dead, holders, inHand)
      BY <1>4 DEF HandTurn
    <2>2. Carried /\ holders = {h} /\ inHand = {h} /\ h \in Players
      BY DEF BombInv, Carried, OnGround, Gone, CarriersAreSound
    <2>3. CASE Plants(h, d)
      <3>1. Kill(dead, {}, {}) /\ bombStatus' = "PLANTED" /\ dropped = 0
        BY <2>1, <2>2, <2>3 DEF Carried
      <3>2. holders' = {} /\ dropped' = 0 /\ inHand' = {} /\ alive' \subseteq alive
        BY <3>1, KillDropsNothing DEF Kill
      <3>3. QED
        BY <1>1, <3>1, <3>2 DEF BombInv, Sides, CarriersAreSound, Gone, Side
    <2>4. CASE ~Plants(h, d)
      <3>1. Kill(dead, {h}, {h}) /\ bombStatus' = "NOT_PLANTED" /\ dropped = 0
        BY <2>1, <2>2, <2>4 DEF Carried
      <3>2. \/ h \in dead /\ holders' = {} /\ dropped' = 1
            \/ holders' = {h} /\ dropped' = 0
        BY <3>1, KillDropsTheBomb
      <3>3. Carried' \/ OnGround'
        BY <2>2, <3>1, <3>2 DEF Carried, OnGround
      <3>4. inHand' = holders' /\ alive' = alive \ dead /\ holders' = {h} \ dead
        BY <3>1 DEF Kill
      <3>5. CarriersAreSound'
        BY <1>1, <2>2, <3>4 DEF BombInv, CarriersAreSound, Side
      <3>6. QED
        BY <1>1, <3>1, <3>3, <3>4, <3>5 DEF BombInv, Sides
    <2>5. QED
      BY <2>3, <2>4
  <1>5. CASE NoHandTurn(dead)
    <2>1. /\ bombStatus # "PLANTED" /\ bombStatus' = bombStatus
          /\ Kill(dead, holders, inHand)
      BY <1>5 DEF NoHandTurn, bombVars
    <2>2. alive' = alive \ dead /\ holders' = holders \ dead /\ inHand' = inHand \ dead
      BY <2>1 DEF Kill
    <2>3. CarriersAreSound' /\ Sides'
      BY <1>1, <2>1, <2>2 DEF BombInv, Sides, CarriersAreSound, Side
    <2>4. Carried' \/ OnGround' \/ Gone'
      <3>1. CASE Carried
        <4>1. PICK p \in Players : holders = {p} /\ dropped = 0
          BY <3>1 DEF Carried
        <4>2. \/ holders' = {} /\ dropped' = 1
              \/ holders' = {p} /\ dropped' = 0
          BY <2>1, <4>1, KillDropsTheBomb
        <4>3. QED
          BY <2>1, <3>1, <4>2 DEF Carried, OnGround
      <3>2. CASE OnGround \/ Gone
        <4>1. holders' = {} /\ dropped' = dropped
          BY <1>2, <2>1, <3>2, KillDropsNothing DEF OnGround, Gone
        <4>2. QED
          BY <1>1, <2>1, <3>2, <4>1 DEF OnGround, Gone, Side
      <3>3. QED
        BY <3>1, <3>2 DEF BombInv
    <2>5. QED
      BY <2>3, <2>4 DEF BombInv
  <1>6. QED
    BY <1>1, <1>3, <1>4, <1>5

LEMMA BombInvNewRound ==
    ASSUME BombInv, NEW swap \in BOOLEAN, NewRound(swap)
    PROVE  BombInv'
  <1>1. /\ team' \in [Players -> {"CT", "TT"}]
        /\ alive' = Players /\ inHand' = {} /\ dropped' = 0
        /\ bombStatus' = "NOT_PLANTED"
        /\ HandOut({p \in Players : team'[p] = "TT"})
    BY DEF NewRound, BombRestart, W!SwapTeams, W!OtherSide, W!InWorld, BombInv, Sides
  <1>2. \/ holders' = {} /\ Side("TT")' = {}
        \/ \E p \in Side("TT")' : holders' = {p}
    BY <1>1 DEF HandOut, Side
  <1>3. Side("TT")' \subseteq Players
    BY DEF Side
  <1>4. QED
    BY <1>1, <1>2, <1>3 DEF BombInv, Sides, CarriersAreSound, Carried, Gone

LEMMA BombInvInit == Init => BombInv
  BY DEF Init, BombInv, Sides, CarriersAreSound, Carried, Gone, Side

LEMMA BombInvNext == BombInv /\ [Next]_vars => BombInv'
  <1> SUFFICES ASSUME BombInv, [Next]_vars PROVE BombInv'
    OBVIOUS
  <1> USE DEF playerVars, bombVars
  <1>1. ASSUME NEW p \in Players, Command(p) PROVE BombInv'
    <2>1. CASE PickUpBomb(p)
      <3>1. /\ dropped = 1 /\ holders = {} /\ bombStatus = "NOT_PLANTED"
            /\ inHand = {}
        BY <2>1 DEF PickUpBomb, ItemIsThere, BombInv, Carried, OnGround, Gone,
           CarriersAreSound
      <3>2. /\ UNCHANGED <<team, alive, inHand, bombStatus>>
            /\ p \in Side("TT") \cap alive
            /\ holders' = {p} /\ dropped' = 0
        BY <2>1, <3>1 DEF PickUpBomb, EraseItem, Side
      <3>3. QED
        BY <3>1, <3>2 DEF BombInv, Sides, CarriersAreSound, Carried, Side
    <2>2. CASE EquipBomb(p) \/ EquipGun(p)
      BY <2>2, BombInvKept DEF EquipBomb, EquipGun, BombInv, CarriersAreSound
    <2>3. CASE Press(p) \/ Release(p) \/ StartDefuse(p) \/ StopDefuse(p)
      BY <2>3, BombInvKept DEF Press, Release, StartDefuse, StopDefuse, BombInv,
         CarriersAreSound
    <2>4. QED
      BY <1>1, <2>1, <2>2, <2>3 DEF Command
  <1>2. CASE Frame
    BY <1>2, BombInvFrame DEF Frame
  <1>3. CASE NextPhase \/ UNCHANGED vars
    BY <1>3, BombInvKept DEF NextPhase, vars, BombInv, CarriersAreSound
  <1>4. CASE \E swap \in BOOLEAN : NewRound(swap)
    BY <1>4, BombInvNewRound
  <1>5. QED
    BY <1>1, <1>2, <1>3, <1>4 DEF Next

\* There is one bomb, through any deaths, pick-ups, plantations and half times.
THEOREM OneBombAlways == Spec => []OneBomb
  <1>1. BombInv => OneBomb
    BY DEF BombInv, Sides, Carried, OnGround, Gone, OneBomb
  <1>2. QED
    BY <1>1, BombInvInit, BombInvNext, PTL DEF Spec

\* No step leaves the bomb with a dead player, a counter terrorist, or in the
\* hand of somebody who does not carry it.
THEOREM CarriersSound == Spec => []CarriersAreSound
  <1>1. BombInv => CarriersAreSound
    BY DEF BombInv
  <1>2. QED
    BY <1>1, BombInvInit, BombInvNext, PTL DEF Spec

-----------------------------------------------------------------------------
(***************************************************************************)
(* Types.                                                                  *)
(***************************************************************************)
LEMMA TimerLimitIsNat == TimerLimit \in Nat
  BY BombAssumption DEF TimerLimit

LEMMA AgedIsBounded ==
    ASSUME TypeOK, NEW d \in 0..MaxLapse
    PROVE  Aged(d) \in 0..TimerLimit
  BY TimerLimitIsNat, BombAssumption DEF Aged, TypeOK

\* What BombInv says of the types.
BombTypes ==
    /\ team \in [Players -> {"CT", "TT"}]
    /\ alive \subseteq Players
    /\ holders \subseteq Players /\ inHand \subseteq Players
    /\ dropped \in Nat
    /\ bombStatus \in {"NOT_PLANTED", "PLANTED", "DEFUSED", "EXPLODED"}

LEMMA BombInvTypes == (BombInv => BombTypes) /\ (BombInv' => BombTypes')
  BY DEF BombTypes, BombInv, Sides, CarriersAreSound, Carried, OnGround, Gone, Side

LEMMA TypeOKInit == Init => TypeOK
  <1>1. Init => BombTypes
    BY BombInvInit, BombInvTypes
  <1>2. Init => since \in 0..TimerLimit
    BY TimerLimitIsNat DEF Init
  <1>3. QED
    BY <1>1, <1>2 DEF Init, BombTypes, TypeOK

LEMMA TypeOKFrame ==
    ASSUME TypeOK, BombInv', NEW d \in 0..MaxLapse, UpdateFrame(d)
    PROVE  TypeOK'
  <1> USE DEF TypeOK, bombVars, timerVars
  <1>1. /\ UNCHANGED <<phase, pressing>>
        /\ defusing' \subseteq Players /\ onSite' \subseteq Players
    BY DEF UpdateFrame, FreeDefusers, Walk
  <1>2. PICK dead \in SUBSET alive :
            PlantedTurn(d, dead) \/ HandTurn(d, dead) \/ NoHandTurn(dead)
    BY DEF UpdateFrame
  <1>3. d \in Nat /\ Aged(d) \in 0..TimerLimit /\ 0 \in 0..TimerLimit
    BY AgedIsBounded, TimerLimitIsNat, BombAssumption
  <1>4. /\ justPlanted' \in BOOLEAN
        /\ plantedFor' = plantedFor \/ plantedFor' = plantedFor + d
    BY <1>2 DEF PlantedTurn, HandTurn, NoHandTurn
  <1>5. /\ making' \in BOOLEAN /\ triggered' \in BOOLEAN
        /\ since' \in 0..TimerLimit
    BY <1>2, <1>3 DEF PlantedTurn, HandTurn, NoHandTurn
  <1>6. plantedFor' \in Nat
    BY <1>3, <1>4
  <1>7. QED
    BY <1>1, <1>4, <1>5, <1>6, BombInvTypes DEF BombTypes

LEMMA TypeOKNext == TypeOK /\ BombInv /\ [Next]_vars => TypeOK'
  <1> SUFFICES ASSUME TypeOK, BombInv, [Next]_vars PROVE TypeOK'
    OBVIOUS
  <1> USE DEF TypeOK, playerVars, bombVars, timerVars
  <1>1. BombTypes' /\ 0 \in 0..TimerLimit
    BY BombInvNext, BombInvTypes, TimerLimitIsNat DEF BombTypes
  <1>2. ASSUME NEW p \in Players, Command(p) PROVE TypeOK'
    <2>1. CASE Press(p) \/ Release(p)
      BY <1>1, <2>1 DEF Press, Release, BombAction, BombStopAction
    <2>2. CASE EquipBomb(p) \/ EquipGun(p)
      BY <2>2 DEF EquipBomb, EquipGun, Unequip, BombStopAction
    <2>3. CASE PickUpBomb(p)
      BY <1>1, <2>3 DEF PickUpBomb, BombTypes
    <2>4. CASE StartDefuse(p) \/ StopDefuse(p)
      BY <1>1, <2>4 DEF StartDefuse, StopDefuse, BombAction, BombStopAction
    <2>5. QED
      BY <1>2, <2>1, <2>2, <2>3, <2>4 DEF Command
  <1>3. CASE Frame
    BY <1>3, BombInvNext, TypeOKFrame DEF Frame
  <1>4. CASE NextPhase \/ UNCHANGED vars
    BY <1>4 DEF NextPhase, vars
  <1>5. CASE \E swap \in BOOLEAN : NewRound(swap)
    BY <1>1, <1>5 DEF NewRound, BombRestart, BombTypes
  <1>6. QED
    BY <1>2, <1>3, <1>4, <1>5 DEF Next

\* Every variable of the round keeps its type.
THEOREM TypeCorrect == Spec => []TypeOK
  BY TypeOKInit, TypeOKNext, BombInvInit, BombInvNext, PTL DEF Spec

-----------------------------------------------------------------------------
(***************************************************************************)
(* Defusal.                                                                *)
(***************************************************************************)
DefuserInv == DefusalHasAuthor /\ defusing \subseteq Side("CT")

\* The steps in which no defuser lets the key go while the timer runs.
LEMMA DefuserInvKept ==
    ASSUME DefuserInv, UNCHANGED <<team, defusing>>,
           making' => making, bombStatus' = bombStatus
    PROVE  DefuserInv'
  BY DEF DefuserInv, DefusalHasAuthor, Side

LEMMA DefuserInvFrame ==
    ASSUME DefuserInv, NEW d \in 0..MaxLapse, UpdateFrame(d)
    PROVE  DefuserInv'
  <1>1. PICK dead \in SUBSET alive :
            /\ UNCHANGED team
            /\ IF bombStatus = "PLANTED" /\ Outcome(d) = "DEFUSED"
               THEN FreeDefusers ELSE UNCHANGED defusing
            /\ PlantedTurn(d, dead) \/ HandTurn(d, dead) \/ NoHandTurn(dead)
    BY DEF UpdateFrame
  <1>2. defusing' \subseteq Side("CT")'
    BY <1>1 DEF FreeDefusers, DefuserInv, Side
  <1>3. CASE PlantedTurn(d, dead)
    BY <1>1, <1>2, <1>3 DEF PlantedTurn, DefuserInv, DefusalHasAuthor, Side
  <1>4. CASE HandTurn(d, dead) \/ NoHandTurn(dead)
    BY <1>2, <1>4 DEF HandTurn, NoHandTurn, bombVars, DefuserInv, DefusalHasAuthor
  <1>5. QED
    BY <1>1, <1>3, <1>4

LEMMA DefuserInvNext == BombInv /\ DefuserInv /\ [Next]_vars => DefuserInv'
  <1> SUFFICES ASSUME BombInv, DefuserInv, [Next]_vars PROVE DefuserInv'
    OBVIOUS
  <1> USE DEF playerVars, bombVars, timerVars
  <1>1. ASSUME NEW p \in Players, Command(p) PROVE DefuserInv'
    <2>1. CASE Press(p)
      <3>1. bombStatus = "PLANTED" => inHand = {}
        BY DEF BombInv, Carried, OnGround, Gone, CarriersAreSound
      <3>2. QED
        BY <2>1, <3>1 DEF Press, DefuserInv, DefusalHasAuthor, Side
    <2>2. CASE Release(p) \/ EquipBomb(p) \/ EquipGun(p) \/ PickUpBomb(p)
      BY <2>2, DefuserInvKept DEF Release, EquipBomb, EquipGun, PickUpBomb, Unequip,
         BombStopAction
    <2>3. CASE StartDefuse(p)
      BY <2>3 DEF StartDefuse, CanDefuse, DefuserInv, DefusalHasAuthor, Side
    <2>4. CASE StopDefuse(p)
      BY <2>4 DEF StopDefuse, BombStopAction, DefuserInv, DefusalHasAuthor, Side
    <2>5. QED
      BY <1>1, <2>1, <2>2, <2>3, <2>4 DEF Command
  <1>2. CASE Frame
    BY <1>2, DefuserInvFrame DEF Frame
  <1>3. CASE NextPhase \/ UNCHANGED vars
    BY <1>3, DefuserInvKept DEF NextPhase, vars
  <1>4. CASE \E swap \in BOOLEAN : NewRound(swap)
    BY <1>4 DEF NewRound, BombRestart, DefuserInv, DefusalHasAuthor
  <1>5. QED
    BY <1>1, <1>2, <1>3, <1>4 DEF Next

LEMMA DefuserInvInit == Init => DefuserInv
  BY DEF Init, DefuserInv, DefusalHasAuthor

\* A defusal that advances was begun by a counter terrorist who still holds it.
THEOREM DefusalsHaveAuthors == Spec => []DefusalHasAuthor
  <1>1. DefuserInv => DefusalHasAuthor
    BY DEF DefuserInv
  <1>2. QED
    BY <1>1, BombInvInit, BombInvNext, DefuserInvInit, DefuserInvNext, PTL DEF Spec

DefusalFrees == bombStatus = "PLANTED" /\ bombStatus' = "DEFUSED" => defusing' = {}

\* Nobody is left at a bomb that has been defused.
THEOREM DefusalsFreeEveryone == Spec => DefusalFreesEveryone
  <1>1. DefuserInv /\ [Next]_vars => [DefusalFrees]_vars
    <2> SUFFICES ASSUME DefuserInv, Next, bombStatus = "PLANTED", bombStatus' = "DEFUSED"
                 PROVE  defusing' = {}
      BY DEF DefusalFrees
    <2>1. Frame
      BY DEF Next, Command, Press, Release, EquipBomb, EquipGun, PickUpBomb, StartDefuse,
         StopDefuse, NextPhase, NewRound, BombRestart, bombVars
    <2>2. PICK d \in 0..MaxLapse : UpdateFrame(d)
      BY <2>1 DEF Frame
    <2>3. Outcome(d) = "DEFUSED"
      BY <2>2 DEF UpdateFrame, PlantedTurn, HandTurn, NoHandTurn
    <2>4. defusing' = defusing \ Side("CT")
      BY <2>2, <2>3 DEF UpdateFrame, FreeDefusers
    <2>5. QED
      BY <2>4 DEF DefuserInv
  <1>2. Spec => [][DefusalFrees]_vars
    BY <1>1, BombInvInit, BombInvNext, DefuserInvInit, DefuserInvNext, PTL DEF Spec
  <1>3. QED
    BY <1>2 DEF DefusalFreesEveryone, DefusalFrees

-----------------------------------------------------------------------------
(***************************************************************************)
(* Refinement: every step of the bomb is a step of the world, or none.     *)
(***************************************************************************)
PlantInv == making => Fighting

LEMMA PlantInvNext == PlantInv /\ [Next]_vars => PlantInv'
  <1> USE DEF PlantInv, Fighting, timerVars
  <1>1. ASSUME PlantInv, NEW p \in Players, Command(p) PROVE PlantInv'
    BY <1>1 DEF Command, Press, Release, EquipBomb, EquipGun, PickUpBomb, StartDefuse,
       StopDefuse, Unequip, BombAction, BombStopAction
  <1>2. ASSUME PlantInv, Frame PROVE PlantInv'
    BY <1>2 DEF Frame, UpdateFrame, PlantedTurn, HandTurn, NoHandTurn
  <1>3. ASSUME PlantInv, NextPhase \/ UNCHANGED vars PROVE PlantInv'
    BY <1>3 DEF NextPhase, vars
  <1>4. ASSUME NEW swap \in BOOLEAN, NewRound(swap) PROVE PlantInv'
    BY <1>4 DEF NewRound, BombRestart
  <1>5. QED
    BY <1>1, <1>2, <1>3, <1>4 DEF Next

LEMMA FrameImplementsUpdate ==
    ASSUME BombInv, PlantInv, NEW d \in 0..MaxLapse, UpdateFrame(d)
    PROVE  W!Update(d, Fighting)
  <1>1. PICK dead \in SUBSET alive :
            /\ UNCHANGED team
            /\ PlantedTurn(d, dead) \/ HandTurn(d, dead) \/ NoHandTurn(dead)
    BY DEF UpdateFrame
  <1>2. alive' = alive \ dead
    BY <1>1 DEF PlantedTurn, HandTurn, NoHandTurn, Kill
  <1>3. CASE PlantedTurn(d, dead)
    <2>1. W!BombTicks(d)
      BY <1>3 DEF PlantedTurn, Outcome, W!BombTicks
    <2>2. QED
      BY <1>1, <1>2, <2>1 DEF W!Update
  <1>4. CASE HandTurn(d, dead)
    <2>1. PICK h \in inHand :
              /\ bombStatus # "PLANTED" /\ plantedFor' = plantedFor
              /\ \/ making /\ bombStatus' = "PLANTED" /\ justPlanted' = TRUE
                 \/ UNCHANGED <<bombStatus, justPlanted>>
      BY <1>4 DEF HandTurn, Plants
    <2>2. bombStatus = "NOT_PLANTED" /\ h \in Side("TT") \cap alive
      BY DEF BombInv, CarriersAreSound, Carried, OnGround, Gone
    <2>3. ~W!TtDead
      BY <2>2 DEF W!TtDead, W!Side, Side
    <2>4. \/ Fighting /\ W!BombIsPlanted
          \/ W!BombIsIdle
      BY <2>1, <2>2, <2>3 DEF PlantInv, W!BombIsPlanted, W!BombIsIdle
    <2>5. QED
      BY <1>1, <1>2, <2>4 DEF W!Update
  <1>5. CASE NoHandTurn(dead)
    BY <1>1, <1>2, <1>5 DEF NoHandTurn, bombVars, W!BombIsIdle, W!Update
  <1>6. QED
    BY <1>1, <1>3, <1>4, <1>5

LEMMA StepImplementsWorld ==
    ASSUME BombInv, PlantInv, [Next]_vars
    PROVE  [W!WorldStep(0..MaxLapse, Fighting)]_<<team, alive, bombVars>>
  <1>1. ASSUME Frame PROVE W!WorldStep(0..MaxLapse, Fighting)
    BY <1>1, FrameImplementsUpdate DEF Frame, W!WorldStep
  <1>2. ASSUME NEW swap \in BOOLEAN, NewRound(swap) PROVE W!WorldStep(0..MaxLapse, Fighting)
    BY <1>2 DEF NewRound, BombRestart, W!WorldStep, W!Restart
  <1>3. ASSUME NEW p \in Players, Command(p) PROVE UNCHANGED <<team, alive, bombVars>>
    BY <1>3 DEF Command, Press, Release, EquipBomb, EquipGun, PickUpBomb, StartDefuse,
       StopDefuse
  <1>4. CASE NextPhase \/ UNCHANGED vars
    BY <1>4 DEF NextPhase, vars
  <1>5. QED
    BY <1>1, <1>2, <1>3, <1>4 DEF Next

\* The bomb in detail does no more than the match relies on (module World).
THEOREM WorldIsImplemented == Spec => ImplementsWorld
  <1>1. Init => PlantInv
    BY DEF Init, PlantInv
  <1>2. QED
    BY <1>1, BombInvInit, BombInvNext, PlantInvNext, StepImplementsWorld, PTL
       DEF Spec, ImplementsWorld

=============================================================================
