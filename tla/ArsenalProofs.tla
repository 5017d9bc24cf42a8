--------------------------- MODULE ArsenalProofs ---------------------------
(***************************************************************************)
(* Theorems about Arsenal, for any number of players and guns.             *)
(*                                                                         *)
(* ArsenalInv is inductive: the types, one place for each gun, full hands  *)
(* and disarmed dead need each other (a death moves the guns of a slot to  *)
(* the ground, which needs them to be in that slot alone), and the glock   *)
(* of the dead is at rest because no gun is triggered before it exists.    *)
(***************************************************************************)
EXTENDS Arsenal, TLAPS

TriggersExist == pulled \subseteq Existing

ArsenalInv == /\ TypeOK
              /\ OnePlaceEach
              /\ HandsAreFull
              /\ DeadAreDisarmed
              /\ TriggersExist

-----------------------------------------------------------------------------
(***************************************************************************)
(* Operators.                                                              *)
(***************************************************************************)
\* Sixteen bits hold what is left after a shot there were bullets for.
LEMMA SpendSaves ==
    ASSUME NEW a \in Nat, NEW b \in Nat, 0 < b, b <= a, b <= 3
    PROVE  /\ (a + 65536 - b) % 65536 \in Nat
           /\ (a + 65536 - b) % 65536 < a
<1>1. a + 65536 - b \in Nat
  OBVIOUS
<1> QED
  BY <1>1, SMT

\* What is in hand is a gun or nothing that fires.
LEMMA HandTypes ==
    ASSUME TypeOK, NEW p \in Players
    PROVE  InHand(p) \in Guns \cup {NoGun}
BY DEF TypeOK, InHand

LEMMA TriggerTypes ==
    ASSUME TypeOK, NEW g \in Guns \cup {NoGun}
    PROVE  /\ AfterAction(g) \subseteq Guns
           /\ AfterStop(g) \subseteq Guns
           /\ AfterUpdate(g) \subseteq Guns
BY DEF TypeOK, AfterAction, AfterStop, AfterUpdate

\* A shot leaves the other guns as they are, and this one with less.
LEMMA SpendTypes ==
    ASSUME TypeOK, NEW g \in Guns, EnoughAmmo(g)
    PROVE  /\ Spend(g) \in [Guns -> Nat]
           /\ Spend(g)[g] < ammo[g]
           /\ \A h \in Guns \ {g} : Spend(g)[h] = ammo[h]
<1>1. Bullets(g) \in Nat /\ Bullets(g) <= 3 /\ 0 < Bullets(g)
  BY DEF Bullets
<1>2. ammo[g] \in Nat /\ Bullets(g) <= ammo[g]
  BY <1>1 DEF TypeOK, EnoughAmmo
<1>3. /\ (ammo[g] + 65536 - Bullets(g)) % 65536 \in Nat
      /\ (ammo[g] + 65536 - Bullets(g)) % 65536 < ammo[g]
  BY <1>1, <1>2, SpendSaves
<1> DEFINE left == (ammo[g] + 65536 - Bullets(g)) % 65536
<1>4. Spend(g) = [ammo EXCEPT ![g] = left]
  BY DEF Spend
<1> HIDE DEF left
<1>5. left \in Nat /\ left < ammo[g]
  BY <1>3 DEF left
<1> QED
  BY <1>4, <1>5 DEF TypeOK

-----------------------------------------------------------------------------
(***************************************************************************)
(* Deaths.                                                                 *)
(***************************************************************************)
\* What a death does to the slots, with the glocks made for the dead.
Rearmed(dead) ==
    /\ \A q \in Players \ dead : /\ primary'[q] = primary[q]
                                /\ secondary'[q] = secondary[q]
                                /\ equipped'[q] = equipped[q]
    /\ \A q \in dead : /\ primary'[q] = NoGun
                      /\ equipped'[q] = "SECONDARY"
                      /\ secondary'[q] \in Guns \ Existing
                      /\ Kind[secondary'[q]] = "GLOCK"
    /\ \A q, r \in dead : secondary'[q] = secondary'[r] => q = r
    /\ secondary' \in [Players -> Guns]

LEMMA KillSlots ==
    ASSUME ArsenalInv, NEW dead \in SUBSET alive, NEW spent, NEW rest,
           Kill(dead, spent, rest)
    PROVE  Rearmed(dead)
<1>1. dead \subseteq Players
  BY DEF ArsenalInv, TypeOK
<1>2. PICK new \in Renewals(dead) :
        secondary' = [q \in Players |-> IF q \in dead THEN new[q] ELSE secondary[q]]
  BY DEF Kill
<1>3. /\ new \in [dead -> Fresh("GLOCK")]
      /\ \A q, r \in dead : new[q] = new[r] => q = r
  BY <1>2 DEF Renewals, Injection, IsInjective
<1>4. \A q \in dead : new[q] \in Guns \ Existing /\ Kind[new[q]] = "GLOCK"
  BY <1>3 DEF Fresh
<1>5. \A q \in Players :
        /\ primary'[q] = IF q \in dead THEN NoGun ELSE primary[q]
        /\ equipped'[q] = IF q \in dead THEN "SECONDARY" ELSE equipped[q]
        /\ secondary'[q] = IF q \in dead THEN new[q] ELSE secondary[q]
  BY <1>2 DEF Kill, HandsAfter
<1>6. secondary' \in [Players -> Guns]
  BY <1>2, <1>4 DEF ArsenalInv, TypeOK
<1> QED
  BY <1>1, <1>3, <1>4, <1>5, <1>6 DEF Rearmed

\* Only the secondary guns of the dead are destroyed.
LEMMA KillDestroys ==
    ASSUME ArsenalInv, NEW dead \in SUBSET alive, NEW spent, NEW rest,
           Kill(dead, spent, rest)
    PROVE  /\ Existing \ {secondary[d] : d \in dead} \subseteq Existing'
           /\ \A d \in dead : secondary[d] \notin Existing'
<1>1. /\ ground' = ground \cup ({primary[d] : d \in dead} \ {NoGun})
      /\ dead \subseteq Players
      /\ Rearmed(dead)
  BY KillSlots DEF Kill, ArsenalInv, TypeOK
<1>2. ASSUME NEW q \in Players
      PROVE  {primary[q], secondary[q]} \ ({NoGun} \cup {secondary[d] : d \in dead})
                \subseteq Existing'
  BY <1>1 DEF Rearmed, Existing, Held
<1>3. ground \ {NoGun} \subseteq Existing'
  BY <1>1 DEF Existing
<1>4. ASSUME NEW d \in dead PROVE secondary[d] \notin Existing'
  <2>1. secondary[d] \in Existing /\ secondary[d] \notin ground
    BY <1>1, ArsenalAssumption DEF Existing, Held, ArsenalInv, TypeOK, OnePlaceEach
  <2>2. \A q \in Players : secondary'[q] # secondary[d]
    BY <1>1, <2>1 DEF Rearmed, ArsenalInv, OnePlaceEach
  <2>3. \A q \in Players : primary'[q] # secondary[d] \/ primary'[q] = NoGun
    BY <1>1 DEF Rearmed, ArsenalInv, OnePlaceEach
  <2>4. secondary[d] \notin ground'
    BY <1>1, <2>1 DEF ArsenalInv, OnePlaceEach
  <2> QED
    BY <2>2, <2>3, <2>4 DEF Existing, Held
<1> QED
  BY <1>2, <1>3, <1>4 DEF Existing, Held

LEMMA KillKeeps ==
    ASSUME ArsenalInv, NEW dead \in SUBSET alive, NEW spent \in [Guns -> Nat],
           NEW rest \in SUBSET pulled, Kill(dead, spent, rest),
           turns' \subseteq Players
    PROVE  ArsenalInv'
<1> USE ArsenalAssumption DEF ArsenalInv
<1>1. /\ ground' = ground \cup ({primary[d] : d \in dead} \ {NoGun})
      /\ alive' = alive \ dead
      /\ pulled' = rest \ {secondary[d] : d \in dead}
      /\ UNCHANGED phase
      /\ dead \subseteq Players
      /\ Rearmed(dead)
  BY KillSlots DEF Kill, TypeOK
<1>2. TypeOK'
  <2>1. ammo' \in [Guns -> Nat]
    BY DEF Kill, TypeOK, Kinds
  <2>2. pulled' \subseteq Guns
    BY <1>1 DEF TypeOK
  <2>3. primary' \in [Players -> Guns \cup {NoGun}]
    BY DEF Kill, TypeOK
  <2>4. ground' \subseteq Guns
    BY <1>1 DEF TypeOK
  <2>5. equipped' \in [Players -> Weapons]
    BY DEF Kill, HandsAfter, TypeOK, Weapons
  <2> QED
    BY <1>1, <2>1, <2>2, <2>3, <2>4, <2>5 DEF Rearmed, TypeOK
<1>3. OnePlaceEach'
  <2>1. ASSUME NEW p \in Players, NEW q \in Players
        PROVE  /\ primary'[p] = primary'[q] /\ primary'[p] # NoGun => p = q
               /\ secondary'[p] = secondary'[q] => p = q
               /\ primary'[p] # secondary'[q]
    <3>1. primary'[p] = primary'[q] /\ primary'[p] # NoGun => p = q
      BY <1>1 DEF Rearmed, OnePlaceEach
    <3>2. secondary[p] \in Existing /\ secondary[q] \in Existing
      BY DEF TypeOK, Existing, Held
    <3>3. secondary'[p] = secondary'[q] => p = q
      BY <1>1, <3>2 DEF Rearmed, OnePlaceEach
    <3>4. primary'[p] \in Existing \cup {NoGun}
      BY <1>1 DEF Rearmed, Existing, Held
    <3>5. primary'[p] # secondary'[q]
      BY <1>1, <3>4 DEF Rearmed, OnePlaceEach, TypeOK
    <3> QED
      BY <3>1, <3>3, <3>5
  <2>2. ASSUME NEW q \in Players
        PROVE  primary'[q] \notin ground' /\ secondary'[q] \notin ground'
    <3>1. ground' \subseteq Existing
      BY <1>1 DEF Existing, Held, TypeOK
    <3>2. primary'[q] \notin ground'
      BY <1>1 DEF Rearmed, OnePlaceEach, TypeOK, Held
    <3>3. secondary'[q] \notin ground'
      BY <1>1, <3>1 DEF Rearmed, OnePlaceEach, TypeOK, Held
    <3> QED
      BY <3>2, <3>3
  <2> QED
    BY <2>1, <2>2 DEF OnePlaceEach, Held
<1>4. HandsAreFull'
  BY <1>1 DEF Rearmed, HandsAreFull
<1>5. TriggersExist'
  BY <1>1, KillDestroys DEF TriggersExist
<1>6. DeadAreDisarmed'
  <2>1. ASSUME NEW p \in dead
        PROVE  primary'[p] = NoGun /\ equipped'[p] = "SECONDARY"
               /\ secondary'[p] \notin pulled'
    BY <1>1 DEF Rearmed, TriggersExist
  <2>2. ASSUME NEW p \in (Players \ alive) \ dead
        PROVE  primary'[p] = NoGun /\ equipped'[p] = "SECONDARY"
               /\ secondary'[p] \notin pulled'
    BY <1>1 DEF Rearmed, DeadAreDisarmed
  <2> QED
    BY <1>1, <2>1, <2>2 DEF DeadAreDisarmed
<1> QED
  BY <1>2, <1>3, <1>4, <1>5, <1>6

-----------------------------------------------------------------------------
(***************************************************************************)
(* Steps.                                                                  *)
(***************************************************************************)
\* Who lives has no gun of the dead in hand.
LEMMA HandsAreOwn ==
    ASSUME ArsenalInv, NEW p \in alive
    PROVE  /\ InHand(p) \in Existing \cup {NoGun}
           /\ \A q \in Players \ alive : secondary[q] # InHand(p)
<1> USE ArsenalAssumption DEF ArsenalInv, TypeOK
<1>1. InHand(p) \in {primary[p], secondary[p], NoGun}
  BY DEF InHand
<1>2. {primary[p], secondary[p]} \subseteq Existing \cup {NoGun}
  BY DEF Existing, Held
<1>3. \A q \in Players \ alive : secondary[q] \notin {primary[p], secondary[p], NoGun}
  BY DEF OnePlaceEach
<1> QED
  BY <1>1, <1>2, <1>3

\* Guns that are not destroyed may keep their triggers.
LEMMA TriggersKept ==
    ASSUME ArsenalInv, Existing \subseteq Existing', pulled' \subseteq pulled
    PROVE  TriggersExist'
BY DEF ArsenalInv, TriggersExist

\* The commands that leave every gun where it is.
LEMMA HandsChange ==
    ASSUME ArsenalInv, NEW p \in Players,
           Press(p) \/ Release(p) \/ \E w \in Weapons : Equip(p, w)
    PROVE  ArsenalInv'
<1> USE DEF ArsenalInv
<1>1. /\ UNCHANGED <<alive, primary, secondary, ground, ammo, phase, turns>>
      /\ p \in alive
  BY DEF Press, Release, Equip, Obeyed, slots
<1>2. pulled' \subseteq pulled \cup ({InHand(p)} \ {NoGun})
  BY DEF Press, Release, Equip, AfterAction, AfterStop
<1>3. UNCHANGED equipped \/ \E w \in Weapons :
        CanEquip(p, w) /\ equipped' = [equipped EXCEPT ![p] = w]
  BY DEF Press, Release, Equip, slots
<1>4. TypeOK'
  BY <1>1, <1>2, <1>3, HandTypes DEF TypeOK
<1>5. OnePlaceEach'
  BY <1>1 DEF OnePlaceEach, Held
<1>6. HandsAreFull'
  BY <1>1, <1>3 DEF HandsAreFull, CanEquip, TypeOK
<1>7. DeadAreDisarmed'
  BY <1>1, <1>2, <1>3, HandsAreOwn DEF DeadAreDisarmed, TypeOK
<1>8. TriggersExist'
  BY <1>1, <1>2, HandsAreOwn DEF TriggersExist, Existing, Held
<1> QED
  BY <1>4, <1>5, <1>6, <1>7, <1>8

\* What a gun replaces falls.
LEMMA PurchasesDestroyNothing ==
    ASSUME ArsenalInv, NEW p \in Players, NEW g \in Guns, BuyGun(p, g)
    PROVE  Existing \subseteq Existing'
<1>1. /\ primary' = [primary EXCEPT ![p] = g]
      /\ ground' = Drop(primary[p])
      /\ UNCHANGED secondary
  BY DEF BuyGun
<1>2. ASSUME NEW q \in Players PROVE {primary[q], secondary[q]} \ {NoGun} \subseteq Existing'
  BY <1>1 DEF Existing, Held, Drop, ArsenalInv, TypeOK
<1>3. ground \ {NoGun} \subseteq Existing'
  BY <1>1 DEF Existing, Drop
<1> QED
  BY <1>2, <1>3 DEF Existing, Held

LEMMA PickUpsDestroyNothing ==
    ASSUME ArsenalInv, NEW p \in Players, NEW g \in Guns, PickUp(p, g)
    PROVE  Existing \subseteq Existing'
<1>1. g \in ground
  BY DEF PickUp
<1>2. ASSUME NEW q \in Players PROVE {primary[q], secondary[q]} \ {NoGun} \subseteq Existing'
  BY <1>1 DEF PickUp, Existing, Held, Exchange, Drop, ArsenalInv, TypeOK
<1>3. ground \ {NoGun} \subseteq Existing'
  BY <1>1 DEF PickUp, Existing, Held, Exchange, Drop, ArsenalInv, TypeOK
<1> QED
  BY <1>2, <1>3 DEF Existing, Held

LEMMA PurchasesKeep ==
    ASSUME ArsenalInv, NEW p \in Players, NEW g \in Guns,
           BuyGun(p, g) \/ BuyClip(p, g)
    PROVE  ArsenalInv'
<1> USE ArsenalAssumption DEF ArsenalInv
<1>1. CASE BuyGun(p, g)
  <2>1. /\ primary' = [primary EXCEPT ![p] = g]
        /\ ground' = Drop(primary[p])
        /\ g \notin Existing /\ p \in alive
        /\ UNCHANGED <<phase, alive, secondary, equipped, ammo, pulled, turns>>
    BY <1>1 DEF BuyGun, gunVars, Fresh, Obeyed
  <2>2. g \notin ground /\ g \notin Held
    BY <2>1 DEF Existing, TypeOK
  <2>3. TypeOK'
    BY <2>1 DEF TypeOK, Drop
  <2>4. OnePlaceEach'
    <3>1. ASSUME NEW q \in Players, NEW r \in Players
          PROVE  /\ primary'[q] = primary'[r] /\ primary'[q] # NoGun => q = r
                 /\ secondary'[q] = secondary'[r] => q = r
                 /\ primary'[q] # secondary'[r]
      BY <2>1, <2>2 DEF OnePlaceEach, TypeOK, Held
    <3>2. ASSUME NEW q \in Players
          PROVE  primary'[q] \notin ground' /\ secondary'[q] \notin ground'
      BY <2>1, <2>2 DEF OnePlaceEach, TypeOK, Held, Drop
    <3> QED
      BY <3>1, <3>2 DEF OnePlaceEach, Held
  <2>5. HandsAreFull' /\ DeadAreDisarmed'
    BY <2>1 DEF HandsAreFull, DeadAreDisarmed, TypeOK
  <2>6. TriggersExist'
    BY <1>1, <2>1, PurchasesDestroyNothing, TriggersKept
  <2> QED
    BY <2>3, <2>4, <2>5, <2>6
<1>2. CASE BuyClip(p, g)
  <2>1. /\ ammo' = [ammo EXCEPT ![g] = @ + ClipSize[Kind[g]]]
        /\ UNCHANGED <<phase, alive, primary, secondary, equipped, ground,
                       pulled, turns>>
    BY <1>2 DEF BuyClip, slots
  <2>2. ammo' \in [Guns -> Nat]
    BY <2>1 DEF TypeOK, Kinds
  <2> QED
    BY <2>1, <2>2 DEF TypeOK, OnePlaceEach, Held, HandsAreFull, DeadAreDisarmed,
                      TriggersExist, Existing
<1> QED
  BY <1>1, <1>2

LEMMA PickUpKeeps ==
    ASSUME ArsenalInv, NEW p \in Players, NEW g \in Guns, PickUp(p, g)
    PROVE  ArsenalInv'
<1> USE ArsenalAssumption DEF ArsenalInv
<1>1. /\ g \in ground /\ g \notin Held /\ p \in alive
      /\ UNCHANGED <<phase, alive, equipped, ammo, pulled, turns>>
  BY DEF PickUp, Obeyed, gunVars, OnePlaceEach
<1>2. TriggersExist'
  BY <1>1, PickUpsDestroyNothing, TriggersKept
<1>3. CASE Kind[g] = "GLOCK"
  <2>1. /\ secondary' = [secondary EXCEPT ![p] = g]
        /\ ground' = (ground \cup {secondary[p]}) \ {g}
        /\ UNCHANGED primary
    BY <1>3 DEF PickUp, Slot, Exchange, Drop, TypeOK
  <2>2. TypeOK'
    BY <1>1, <2>1 DEF TypeOK
  <2>3. OnePlaceEach'
    <3>1. ASSUME NEW q \in Players, NEW r \in Players
          PROVE  /\ primary'[q] = primary'[r] /\ primary'[q] # NoGun => q = r
                 /\ secondary'[q] = secondary'[r] => q = r
                 /\ primary'[q] # secondary'[r]
      BY <1>1, <2>1 DEF OnePlaceEach, TypeOK, Held
    <3>2. ASSUME NEW q \in Players
          PROVE  primary'[q] \notin ground' /\ secondary'[q] \notin ground'
      BY <1>1, <2>1 DEF OnePlaceEach, TypeOK, Held
    <3> QED
      BY <3>1, <3>2 DEF OnePlaceEach, Held
  <2>4. HandsAreFull' /\ DeadAreDisarmed'
    BY <1>1, <1>3, <2>1 DEF HandsAreFull, DeadAreDisarmed, TypeOK
  <2> QED
    BY <1>2, <2>2, <2>3, <2>4
<1>4. CASE Kind[g] # "GLOCK"
  <2>1. /\ primary' = [primary EXCEPT ![p] = g]
        /\ ground' = Drop(primary[p]) \ {g}
        /\ UNCHANGED secondary
    BY <1>4 DEF PickUp, Slot, Exchange
  <2>2. TypeOK'
    BY <1>1, <2>1 DEF TypeOK, Drop
  <2>3. OnePlaceEach'
    <3>1. ASSUME NEW q \in Players, NEW r \in Players
          PROVE  /\ primary'[q] = primary'[r] /\ primary'[q] # NoGun => q = r
                 /\ secondary'[q] = secondary'[r] => q = r
                 /\ primary'[q] # secondary'[r]
      BY <1>1, <2>1 DEF OnePlaceEach, TypeOK, Held
    <3>2. ASSUME NEW q \in Players
          PROVE  primary'[q] \notin ground' /\ secondary'[q] \notin ground'
      BY <1>1, <2>1 DEF OnePlaceEach, TypeOK, Held, Drop
    <3> QED
      BY <3>1, <3>2 DEF OnePlaceEach, Held
  <2>4. HandsAreFull' /\ DeadAreDisarmed'
    BY <1>1, <1>4, <2>1 DEF HandsAreFull, DeadAreDisarmed, TypeOK
  <2> QED
    BY <1>2, <2>2, <2>3, <2>4
<1> QED
  BY <1>2, <1>3, <1>4

LEMMA FrameKeeps ==
    ASSUME ArsenalInv, BeginFrame
    PROVE  ArsenalInv'
<1>1. PICK dead \in SUBSET alive :
        Kill(dead, ammo, pulled) /\ turns' = Players
  BY DEF BeginFrame
<1>2. ammo \in [Guns -> Nat] /\ pulled \in SUBSET pulled
  BY DEF ArsenalInv, TypeOK
<1> QED
  BY <1>1, <1>2, KillKeeps

LEMMA TurnKeeps ==
    ASSUME ArsenalInv, NEW p \in Players, Turn(p)
    PROVE  ArsenalInv'
<1>1. TypeOK /\ turns \subseteq Players
  BY DEF ArsenalInv, TypeOK
<1>2. InHand(p) \in Guns \cup {NoGun}
  BY <1>1, HandTypes
<1>3. AfterUpdate(InHand(p)) \subseteq pulled
  BY DEF AfterUpdate
<1>4. CASE p \notin alive
  <2>1. UNCHANGED <<phase, alive, primary, secondary, equipped, ground, ammo, pulled>>
        /\ turns' \subseteq turns
    BY <1>4 DEF Turn, SkipDead, slots, gunVars
  <2> QED
    BY <1>1, <2>1 DEF ArsenalInv, TypeOK, OnePlaceEach, Held, HandsAreFull,
                      DeadAreDisarmed, TriggersExist, Existing
<1>5. CASE p \in alive /\ (Defuse(p) \/ Idle(p, InHand(p)) \/ HandleBomb(p))
  <2>1. UNCHANGED <<phase, alive, primary, secondary, ground, ammo>>
    BY <1>5 DEF Defuse, Idle, HandleBomb, slots, gunVars
  <2>2. pulled' \subseteq pulled /\ turns' \subseteq turns
    BY <1>3, <1>5 DEF Defuse, Idle, HandleBomb, gunVars
  <2>3. \/ UNCHANGED equipped
        \/ equipped' = [equipped EXCEPT ![p] = "SECONDARY"]
    BY <1>5 DEF Defuse, Idle, HandleBomb, slots
  <2>4. TypeOK'
    BY <1>1, <2>1, <2>2, <2>3 DEF TypeOK, Weapons
  <2>5. OnePlaceEach'
    BY <2>1 DEF ArsenalInv, OnePlaceEach, Held
  <2>6. HandsAreFull' /\ DeadAreDisarmed'
    BY <1>1, <2>1, <2>2, <2>3 DEF ArsenalInv, HandsAreFull, DeadAreDisarmed, TypeOK
  <2>7. TriggersExist'
    BY <2>1, <2>2 DEF ArsenalInv, TriggersExist, Existing, Held
  <2> QED
    BY <2>4, <2>5, <2>6, <2>7 DEF ArsenalInv
<1>6. CASE Shoot(p, InHand(p))
  <2>1. PICK dead \in SUBSET alive :
          /\ Kill(dead, Spend(InHand(p)), AfterUpdate(InHand(p)))
          /\ turns' = turns \ {p}
    BY <1>6 DEF Shoot, Victims
  <2>2. InHand(p) \in Guns /\ EnoughAmmo(InHand(p))
    BY <1>2, <1>6 DEF Shoot, CanShoot
  <2>3. Spend(InHand(p)) \in [Guns -> Nat]
    BY <1>1, <2>2, SpendTypes
  <2> QED
    BY <1>1, <1>3, <2>1, <2>3, KillKeeps
<1>7. CASE Stab(p)
  <2>1. PICK dead \in SUBSET alive :
          Kill(dead, ammo, pulled) /\ turns' = turns \ {p}
    BY <1>7 DEF Stab
  <2>2. ammo \in [Guns -> Nat]
    BY <1>1 DEF TypeOK
  <2> QED
    BY <1>1, <2>1, <2>2, KillKeeps
<1> QED
  BY <1>4, <1>5, <1>6, <1>7 DEF Turn

LEMMA RestartKeeps ==
    ASSUME ArsenalInv, NEW swap \in BOOLEAN, NewRound(swap)
    PROVE  ArsenalInv'
<1> USE ArsenalAssumption DEF ArsenalInv
<1>1. /\ primary' = IF swap THEN [p \in Players |-> NoGun] ELSE primary
      /\ ground' \subseteq Guns \ Kept
      /\ alive' = Players
      /\ turns = {}
      /\ UNCHANGED <<secondary, turns>>
  BY DEF NewRound, ResetLoadouts, MapItems
<1>2. equipped' = [p \in Players |-> IF swap \/ equipped[p] = "BOMB"
                                     THEN "SECONDARY" ELSE equipped[p]]
  BY DEF NewRound
<1>3. TypeOK'
  <2>1. ammo' \in [Guns -> Nat] /\ pulled' \subseteq Guns
    BY DEF NewRound, TypeOK, Kinds
  <2>2. equipped' \in [Players -> Weapons]
    BY <1>2 DEF TypeOK, Weapons
  <2>3. primary' \in [Players -> Guns \cup {NoGun}]
    BY <1>1 DEF TypeOK
  <2>4. phase' = "BUY"
    BY DEF NewRound
  <2> QED
    BY <1>1, <2>1, <2>2, <2>3, <2>4 DEF TypeOK
<1>4. OnePlaceEach'
  <2>1. ASSUME NEW q \in Players, NEW r \in Players
        PROVE  /\ primary'[q] = primary'[r] /\ primary'[q] # NoGun => q = r
               /\ secondary'[q] = secondary'[r] => q = r
               /\ primary'[q] # secondary'[r]
    BY <1>1 DEF OnePlaceEach, TypeOK
  <2>2. Held' = Kept
    BY <1>1 DEF Held, Kept
  <2> QED
    BY <1>1, <2>1, <2>2 DEF OnePlaceEach
<1>5. HandsAreFull' /\ DeadAreDisarmed'
  BY <1>1, <1>2 DEF HandsAreFull, DeadAreDisarmed, TypeOK
<1>6. TriggersExist'
  <2>1. pulled' \subseteq pulled \cap Untouched(swap)
    BY DEF NewRound
  <2>2. Untouched(swap) \subseteq Held'
    BY <1>1 DEF Untouched, Held
  <2> QED
    BY <2>1, <2>2 DEF TriggersExist, Existing
<1> QED
  BY <1>3, <1>4, <1>5, <1>6

LEMMA PhaseKeeps ==
    ASSUME ArsenalInv, NextPhase \/ UNCHANGED vars
    PROVE  ArsenalInv'
BY DEF ArsenalInv, NextPhase, vars, slots, gunVars, TypeOK, OnePlaceEach, Held,
       HandsAreFull, DeadAreDisarmed, TriggersExist, Existing

LEMMA InitHolds == Init => ArsenalInv
<1> USE ArsenalAssumption
<1> SUFFICES ASSUME Init PROVE ArsenalInv
  OBVIOUS
<1>1. TypeOK
  BY DEF Init, TypeOK, Weapons, Kinds
<1>2. OnePlaceEach
  BY <1>1 DEF Init, OnePlaceEach, Held, TypeOK
<1>3. HandsAreFull /\ DeadAreDisarmed /\ TriggersExist
  BY DEF Init, HandsAreFull, DeadAreDisarmed, TriggersExist
<1> QED
  BY <1>1, <1>2, <1>3 DEF ArsenalInv

LEMMA NextKeeps == ArsenalInv /\ [Next]_vars => ArsenalInv'
<1> SUFFICES ASSUME ArsenalInv, [Next]_vars PROVE ArsenalInv'
  OBVIOUS
<1>1. ASSUME NEW p \in Players, Command(p) PROVE ArsenalInv'
  BY <1>1, HandsChange, PurchasesKeep, PickUpKeeps DEF Command
<1>2. ASSUME NEW p \in Players, Turn(p) PROVE ArsenalInv'
  BY <1>2, TurnKeeps
<1>3. CASE BeginFrame
  BY <1>3, FrameKeeps
<1>4. CASE NextPhase \/ UNCHANGED vars
  BY <1>4, PhaseKeeps
<1>5. ASSUME NEW swap \in BOOLEAN, NewRound(swap) PROVE ArsenalInv'
  BY <1>5, RestartKeeps
<1> QED
  BY <1>1, <1>2, <1>3, <1>4, <1>5 DEF Next

LEMMA InvHolds == Spec => []ArsenalInv
BY InitHolds, NextKeeps, PTL DEF Spec

-----------------------------------------------------------------------------
(***************************************************************************)
(* The invariants.                                                         *)
(***************************************************************************)
\* Every variable keeps its type.
THEOREM TypeCorrect == Spec => []TypeOK
BY InvHolds, PTL DEF ArsenalInv

\* No gun is in two places.
THEOREM PlacesCorrect == Spec => []OnePlaceEach
BY InvHolds, PTL DEF ArsenalInv

\* No hand points to an empty slot.
THEOREM HandsCorrect == Spec => []HandsAreFull
BY InvHolds, PTL DEF ArsenalInv

\* The dead hold nothing.
THEOREM DeadCorrect == Spec => []DeadAreDisarmed
BY InvHolds, PTL DEF ArsenalInv

-----------------------------------------------------------------------------
(***************************************************************************)
(* What a step does to guns: all but a restart are gentle with them.       *)
(***************************************************************************)
OnlySpent(g) == ammo'[g] # ammo[g] =>
                    /\ ammo'[g] < ammo[g]
                    /\ \E p \in alive \cap turns : InHand(p) = g

Gentle ==
    /\ Destroyed \subseteq GlocksOfTheDead
    /\ Fighting => \A g \in Existing \cap Existing' : OnlySpent(g)

\* A step that destroys nothing and fires nothing.
LEMMA QuietIsGentle ==
    ASSUME Existing \subseteq Existing', UNCHANGED ammo \/ ~Fighting
    PROVE  Gentle
BY DEF Gentle, Destroyed, OnlySpent

LEMMA KillIsGentle ==
    ASSUME ArsenalInv, NEW dead \in SUBSET alive, NEW spent \in [Guns -> Nat],
           NEW rest, Kill(dead, spent, rest),
           \A g \in Guns : spent[g] # ammo[g] =>
                /\ spent[g] < ammo[g]
                /\ \E p \in alive \cap turns : InHand(p) = g
    PROVE  Gentle
<1>1. alive' = alive \ dead
  BY DEF Kill
<1>2. ammo' = [g \in Guns |-> IF g \in {secondary[d] : d \in dead}
                              THEN InitialAmmo[Kind[g]] ELSE spent[g]]
  BY DEF Kill
<1>3. Destroyed \subseteq GlocksOfTheDead
  BY <1>1, KillDestroys DEF Destroyed, GlocksOfTheDead
<1>4. ASSUME NEW g \in Existing \cap Existing' PROVE OnlySpent(g)
  <2>1. g \in Guns
    BY DEF ArsenalInv, TypeOK, Existing, Held
  <2>2. g \notin {secondary[d] : d \in dead}
    BY KillDestroys
  <2> QED
    BY <1>2, <2>1, <2>2 DEF OnlySpent
<1> QED
  BY <1>3, <1>4 DEF Gentle

LEMMA CommandIsGentle ==
    ASSUME ArsenalInv, NEW p \in Players, Command(p)
    PROVE  Gentle
<1>1. CASE Press(p) \/ Release(p) \/ \E w \in Weapons : Equip(p, w)
  <2>1. UNCHANGED <<primary, secondary, ground, ammo>>
    BY <1>1 DEF Press, Release, Equip, slots
  <2> QED
    BY <2>1, QuietIsGentle DEF Existing, Held
<1>2. ASSUME NEW g \in Guns, BuyGun(p, g) PROVE Gentle
  <2>1. UNCHANGED ammo
    BY <1>2 DEF BuyGun, gunVars
  <2> QED
    BY <1>2, <2>1, PurchasesDestroyNothing, QuietIsGentle
<1>3. ASSUME NEW g \in Guns, BuyClip(p, g) PROVE Gentle
  <2>1. UNCHANGED <<primary, secondary, ground>> /\ ~Fighting
    BY <1>3 DEF BuyClip, slots, Fighting
  <2> QED
    BY <2>1, QuietIsGentle DEF Existing, Held
<1>4. ASSUME NEW g \in Guns, PickUp(p, g) PROVE Gentle
  <2>1. UNCHANGED ammo
    BY <1>4 DEF PickUp, gunVars
  <2> QED
    BY <1>4, <2>1, PickUpsDestroyNothing, QuietIsGentle
<1> QED
  BY <1>1, <1>2, <1>3, <1>4 DEF Command

LEMMA TurnIsGentle ==
    ASSUME ArsenalInv, NEW p \in Players, Turn(p)
    PROVE  Gentle
<1>1. TypeOK /\ ammo \in [Guns -> Nat]
  BY DEF ArsenalInv, TypeOK
<1>2. InHand(p) \in Guns \cup {NoGun}
  BY <1>1, HandTypes
<1>3. CASE SkipDead(p) \/ Defuse(p) \/ Idle(p, InHand(p)) \/ HandleBomb(p)
  <2>1. UNCHANGED <<primary, secondary, ground, ammo>>
    BY <1>3 DEF SkipDead, Defuse, Idle, HandleBomb, slots, gunVars
  <2> QED
    BY <2>1, QuietIsGentle DEF Existing, Held
<1>4. CASE p \in alive /\ Shoot(p, InHand(p))
  <2>1. PICK dead \in SUBSET alive :
          Kill(dead, Spend(InHand(p)), AfterUpdate(InHand(p)))
    BY <1>4 DEF Shoot, Victims
  <2>2. InHand(p) \in Guns /\ EnoughAmmo(InHand(p))
    BY <1>2, <1>4 DEF Shoot, CanShoot
  <2>3. p \in alive \cap turns
    BY <1>4 DEF Turn
  <2>4. ASSUME NEW g \in Guns, Spend(InHand(p))[g] # ammo[g]
        PROVE  /\ Spend(InHand(p))[g] < ammo[g]
               /\ \E q \in alive \cap turns : InHand(q) = g
    BY <1>1, <2>2, <2>3, <2>4, SpendTypes
  <2>5. Spend(InHand(p)) \in [Guns -> Nat]
    BY <1>1, <2>2, SpendTypes
  <2> QED
    BY <2>1, <2>4, <2>5, KillIsGentle
<1>5. CASE Stab(p)
  <2>1. PICK dead \in SUBSET alive : Kill(dead, ammo, pulled)
    BY <1>5 DEF Stab
  <2> QED
    BY <1>1, <2>1, KillIsGentle
<1> QED
  BY <1>3, <1>4, <1>5 DEF Turn

LEMMA FrameIsGentle ==
    ASSUME ArsenalInv, BeginFrame
    PROVE  Gentle
<1>1. ammo \in [Guns -> Nat]
  BY DEF ArsenalInv, TypeOK
<1>2. PICK dead \in SUBSET alive : Kill(dead, ammo, pulled)
  BY DEF BeginFrame
<1> QED
  BY <1>1, <1>2, KillIsGentle

LEMMA StepsAreGentle ==
    ASSUME ArsenalInv, Next
    PROVE  Gentle \/ \E swap \in BOOLEAN : NewRound(swap)
<1>1. CASE NextPhase
  <2>1. UNCHANGED <<primary, secondary, ground, ammo>>
    BY <1>1 DEF NextPhase, slots, gunVars
  <2> QED
    BY <2>1, QuietIsGentle DEF Existing, Held
<1> QED
  BY <1>1, CommandIsGentle, TurnIsGentle, FrameIsGentle DEF Next

-----------------------------------------------------------------------------
\* Only the death of its owner destroys a gun within a round, and only a glock;
\* a restart those on the ground, and half time those of a loadout.
THEOREM GunsAreNotLost == Spec => GunsSurvive
<1> DEFINE Survive ==
        \/ Destroyed \subseteq GlocksOfTheDead
        \/ /\ phase = "ROUND_ENDED" /\ phase' = "BUY"
           /\ \/ Destroyed \subseteq ground
              \/ \A p \in Players : primary'[p] = NoGun
<1>1. ASSUME ArsenalInv, [Next]_vars PROVE [Survive]_vars
  <2>1. CASE Gentle
    BY <2>1 DEF Gentle
  <2>2. ASSUME NEW swap \in BOOLEAN, NewRound(swap) PROVE Survive
    <3>1. phase = "ROUND_ENDED" /\ phase' = "BUY"
      BY <2>2 DEF NewRound
    <3>2. CASE swap
      BY <2>2, <3>1, <3>2 DEF NewRound, ResetLoadouts
    <3>3. CASE ~swap
      <4>1. UNCHANGED <<primary, secondary>>
        BY <2>2, <3>3 DEF NewRound, ResetLoadouts
      <4>2. Destroyed \subseteq ground
        BY <4>1 DEF Destroyed, Existing, Held
      <4> QED
        BY <3>1, <4>2
    <3> QED
      BY <3>2, <3>3
  <2> QED
    BY <1>1, <2>1, <2>2, StepsAreGentle
<1> QED
  BY <1>1, InvHolds, PTL DEF Spec, GunsSurvive

\* Nothing but the shot of somebody alive changes the ammunition of a gun, and
\* no shot, pick-up or death gives it any.
THEOREM AmmoCorrect == Spec => AmmoIsOnlySpent
<1> DEFINE Spends ==
        Fighting /\ phase' # "BUY" =>
            \A g \in Existing \cap Existing' :
                ammo'[g] # ammo[g] =>
                    /\ ammo'[g] < ammo[g]
                    /\ \E p \in alive \cap turns : InHand(p) = g
<1>1. ASSUME ArsenalInv, [Next]_vars PROVE [Spends]_vars
  <2>1. CASE Gentle
    BY <2>1 DEF Gentle, OnlySpent
  <2>2. ASSUME NEW swap \in BOOLEAN, NewRound(swap) PROVE Spends
    BY <2>2 DEF NewRound
  <2> QED
    BY <1>1, <2>1, <2>2, StepsAreGentle
<1> QED
  BY <1>1, InvHolds, PTL DEF Spec, AmmoIsOnlySpent

=============================================================================
