---------------------------- MODULE MatchProofs ----------------------------
(***************************************************************************)
(* Proofs about one match, for any number of players, seats and rounds and *)
(* any durations.                                                          *)
(***************************************************************************)
EXTENDS Match, FiniteSetTheorems, TLAPS

-----------------------------------------------------------------------------
(***************************************************************************)
(* What the steps of the world do to its players.                          *)
(***************************************************************************)
\* SwapTeams moves players to the other side and lets nobody in or out.
LEMMA SwapKeepsPlayers ==
    ASSUME team \in [Players -> Teams \cup {"NONE"}]
    PROVE  /\ SwapTeams \in [Players -> Teams \cup {"NONE"}]
           /\ \A p \in Players : SwapTeams[p] # "NONE" <=> team[p] # "NONE"
  BY DEF SwapTeams, OtherSide, Teams

\* Restart keeps the world well typed and its players where they are.
LEMMA RestartKeepsWorld ==
    ASSUME WorldTypeOK, NEW swap \in BOOLEAN, Restart(swap)
    PROVE  WorldTypeOK' /\ InWorld' = InWorld
  <1>1. /\ team' \in [Players -> Teams \cup {"NONE"}]
        /\ \A p \in Players : team'[p] # "NONE" <=> team[p] # "NONE"
    BY SwapKeepsPlayers DEF Restart, WorldTypeOK
  <1>2. InWorld' = InWorld
    BY <1>1 DEF InWorld
  <1>3. QED
    BY <1>1, <1>2 DEF Restart, WorldTypeOK, BombStatuses

\* AddPlayer adds one player to the world.
LEMMA AddPlayerGrowsWorld ==
    ASSUME WorldTypeOK, NEW p \in Players, AddPlayer(p)
    PROVE  WorldTypeOK' /\ InWorld' = InWorld \cup {p} /\ p \notin InWorld
  <1>1. FreeSide \in Teams
    BY DEF FreeSide, Teams
  <1>2. team' = [team EXCEPT ![p] = FreeSide] /\ team[p] = "NONE"
    BY DEF AddPlayer
  <1>3. InWorld' = InWorld \cup {p} /\ p \notin InWorld
    BY <1>1, <1>2 DEF InWorld, WorldTypeOK, Teams
  <1>4. QED
    BY <1>1, <1>2, <1>3 DEF AddPlayer, WorldTypeOK, BombStatuses

\* An update of the world changes no side and brings nobody back to life.
LEMMA UpdateKeepsWorld ==
    ASSUME WorldTypeOK, NEW d \in Nat, NEW combat \in BOOLEAN, Update(d, combat)
    PROVE  WorldTypeOK' /\ InWorld' = InWorld
  <1>1. team' = team /\ alive' \subseteq alive
    BY DEF Update
  <1>2. /\ bombStatus' \in BombStatuses
        /\ justPlanted' \in BOOLEAN
        /\ plantedFor' \in Nat
    <2>1. CASE BombTicks(d)
      <3>1. bombStatus' \in {"EXPLODED"} \/ bombStatus' \in {"PLANTED", "DEFUSED"}
        BY <2>1 DEF BombTicks
      <3>2. justPlanted' = FALSE /\ plantedFor' = plantedFor + d /\ plantedFor \in Nat
        BY <2>1 DEF BombTicks, WorldTypeOK
      <3>3. bombStatus' \in BombStatuses
        BY <3>1 DEF BombStatuses
      <3>4. justPlanted' \in BOOLEAN
        BY <3>2
      <3>5. plantedFor' \in Nat
        BY <3>2
      <3>6. QED
        BY <3>3, <3>4, <3>5
    <2>2. CASE BombIsPlanted
      BY <2>2 DEF BombIsPlanted, WorldTypeOK, BombStatuses
    <2>3. CASE BombIsIdle
      BY <2>3 DEF BombIsIdle, WorldTypeOK
    <2>4. QED
      BY <2>1, <2>2, <2>3 DEF Update
  <1>3. QED
    BY <1>1, <1>2 DEF WorldTypeOK, InWorld

-----------------------------------------------------------------------------
(***************************************************************************)
(* The variables keep their types.                                         *)
(***************************************************************************)
LEMMA DurationsAreNat == ASSUME NEW ph \in Phases PROVE PhaseDuration(ph) \in Nat
  BY MatchAssumption DEF Phases, PhaseDuration

LEMMA TypeOKInit == Init => TypeOK
  <1> SUFFICES ASSUME Init PROVE TypeOK
    OBVIOUS
  <1>1. creator \in Players /\ WorldInit(creator)
    BY DEF Init
  <1>2. InWorld = {creator}
    BY <1>1 DEF WorldInit, InWorld
  <1>3. WorldTypeOK
    BY <1>1, <1>2 DEF WorldInit, WorldTypeOK, Teams, BombStatuses
  <1>4. QED
    BY <1>1, <1>2, <1>3, MatchAssumption DEF Init, TypeOK, Phases, Teams

LEMMA TypeOKNext == TypeOK /\ [Next]_vars => TypeOK'
  <1> SUFFICES ASSUME TypeOK, [Next]_vars PROVE TypeOK'
    OBVIOUS
  <1>k. ASSUME UNCHANGED worldVars PROVE WorldTypeOK' /\ InWorld' = InWorld
    BY <1>k DEF worldVars, TypeOK, WorldTypeOK, InWorld
  <1>1. CASE UNCHANGED vars
    BY <1>1, <1>k DEF vars, flowVars, scoreVars, lobbyVars, TypeOK
  <1>2. CASE EnterPhase
    <2>1. PhaseDuration(phase) \in Nat
      BY DurationsAreNat DEF TypeOK
    <2>2. QED
      BY <1>2, <1>k, <2>1 DEF EnterPhase, scoreVars, lobbyVars, TypeOK
  <1>3. CASE FinishMatch \/ Quit
    BY <1>3, <1>k DEF FinishMatch, Quit, scoreVars, lobbyVars, TypeOK
  <1>4. CASE BroadcastFrame \/ AbandonFrame \/ LeaveLoop
    <2>1. CASE BroadcastFrame
      <3>1. keepRunning' \in BOOLEAN
        BY <2>1 DEF BroadcastFrame, EndIfAbandoned
      <3>2. time' \in Nat /\ pc' \in {"execute", "run"}
        BY <2>1 DEF BroadcastFrame, AdvanceClock, TypeOK
      <3>3. QED
        BY <2>1, <3>1, <3>2, <1>k DEF BroadcastFrame, scoreVars, lobbyVars, TypeOK
    <2>2. CASE AbandonFrame
      BY <2>2, <1>k DEF AbandonFrame, scoreVars, lobbyVars, TypeOK
    <2>3. CASE LeaveLoop
      <3>1. keepRunning' \in BOOLEAN /\ pc' \in {"run", "end"}
        BY <2>3 DEF LeaveLoop, TypeOK
      <3>2. QED
        BY <2>3, <3>1, <1>k DEF LeaveLoop, scoreVars, lobbyVars, TypeOK
    <2>4. QED
      BY <1>4, <2>1, <2>2, <2>3
  <1>5. CASE ExecuteWaiting
    <2>1. forcedStart' \in BOOLEAN
      BY <1>5 DEF ExecuteWaiting, CanForceStart, TypeOK
    <2>2. lapse' \in Nat
      BY <1>5, MatchAssumption DEF ExecuteWaiting
    <2>3. QED
      BY <1>5, <1>k, <2>1, <2>2 DEF ExecuteWaiting, scoreVars, lobbyVars, TypeOK
  <1>6. CASE ExecuteFrame
    <2>1. Update(lapse, phase # "BUY") /\ lapse \in Nat /\ WorldTypeOK
      BY <1>6 DEF ExecuteFrame, TypeOK
    <2>2. WorldTypeOK' /\ InWorld' = InWorld
      BY <2>1, UpdateKeepsWorld
    <2>3. time' \in Nat /\ duration' \in Nat
      BY <1>6, WorldAssumption DEF ExecuteFrame, AttackClock, TypeOK
    <2>4. QED
      BY <1>6, <2>2, <2>3, MatchAssumption DEF ExecuteFrame, scoreVars, lobbyVars, TypeOK
  <1>7. CASE AbandonWaiting \/ AnnounceMatch \/ EndBuy
    BY <1>7, <1>k DEF AbandonWaiting, AnnounceMatch, EndBuy, EndIfAbandoned,
       scoreVars, lobbyVars, TypeOK, Phases
  <1>8. ASSUME BeginNewRound
        PROVE  /\ WorldTypeOK' /\ InWorld' = InWorld
               /\ round' \in Nat /\ ctWins' \in Nat /\ ttWins' \in Nat
               /\ winner' = "NONE" /\ won' = won
    <2>1. WorldTypeOK' /\ InWorld' = InWorld
      BY <1>8, RestartKeepsWorld DEF BeginNewRound, IsHalfTime, TypeOK
    <2>2. QED
      BY <1>8, <2>1 DEF BeginNewRound, TypeOK
  <1>9. CASE StartMatch \/ EndBetweenRounds
    BY <1>8, <1>9 DEF StartMatch, EndBetweenRounds, lobbyVars, TypeOK, Phases
  <1>10. CASE EndAttack
    <2>1. PICK t \in Teams : GiveRoundTo(t)
      BY <1>10 DEF EndAttack, DecideWinner, Teams
    <2>2. winner' \in Teams /\ ctWins' \in Nat /\ ttWins' \in Nat /\ won' \in [Players -> Nat]
      BY <2>1 DEF GiveRoundTo, TypeOK
    <2>3. QED
      BY <1>10, <1>k, <2>2 DEF EndAttack, lobbyVars, TypeOK, Phases
  <1>11. ASSUME NEW p \in Players, CheckJoin(p) \/ Disconnect(p) PROVE TypeOK'
    BY <1>11, <1>k DEF CheckJoin, Disconnect, flowVars, scoreVars, TypeOK
  <1>12. ASSUME NEW p \in Players, EnterWorld(p) PROVE TypeOK'
    <2>1. WorldTypeOK' /\ InWorld' = InWorld \cup {p}
      BY <1>12, AddPlayerGrowsWorld DEF EnterWorld, TypeOK
    <2>2. QED
      BY <1>12, <2>1 DEF EnterWorld, flowVars, scoreVars, lobbyVars, TypeOK
  <1>13. ASSUME NEW p \in Players, RegisterSender(p) PROVE TypeOK'
    BY <1>13, <1>k DEF RegisterSender, IsInWorld, InWorld, flowVars, scoreVars, TypeOK
  <1>14. CASE StopGame
    BY <1>14, <1>k DEF StopGame, flowVars, scoreVars, lobbyVars, TypeOK
  <1>15. QED
    BY <1>1, <1>2, <1>3, <1>4, <1>5, <1>6, <1>7, <1>9, <1>10, <1>11, <1>12, <1>13,
       <1>14 DEF Next, GameThread, RunLoop, PhaseLoop, PhaseEnd, Join, Over

\* Every reachable state of a match is well typed.
THEOREM TypeCorrect == Spec => []TypeOK
  BY TypeOKInit, TypeOKNext, PTL DEF Spec

-----------------------------------------------------------------------------
(***************************************************************************)
(* The scoreboard.  ScoreInv strengthens ScoreMatchesRounds with what is   *)
(* true before the match starts and with the place where it starts from.   *)
(***************************************************************************)
ScoreInv ==
    /\ ScoreMatchesRounds
    /\ pc = "begin" => phase = "WAITING"
    /\ phase = "WAITING" => /\ round = 0 /\ ctWins = 0 /\ ttWins = 0
                            /\ won = [p \in Players |-> 0]

\* The steps that leave the score alone keep the invariant if they neither
\* change the phase nor reach the start of the match.
LEMMA ScoreInvKept ==
    ASSUME ScoreInv, UNCHANGED <<scoreVars, phase>>,
           pc' = "begin" => pc = "begin" \/ phase = "WAITING"
    PROVE  ScoreInv'
  BY DEF ScoreInv, ScoreMatchesRounds, scoreVars

LEMMA ScoreInvNext == TypeOK /\ ScoreInv /\ [Next]_vars => ScoreInv'
  <1> SUFFICES ASSUME TypeOK, ScoreInv, [Next]_vars PROVE ScoreInv'
    OBVIOUS
  <1>1. CASE UNCHANGED vars
    BY <1>1, ScoreInvKept DEF vars, flowVars
  <1>2. CASE RunLoop
    BY <1>2, ScoreInvKept DEF RunLoop, EnterPhase, FinishMatch, Quit
  <1>3. CASE PhaseLoop
    BY <1>3, ScoreInvKept DEF PhaseLoop, BroadcastFrame, AbandonFrame, ExecuteWaiting,
       ExecuteFrame, LeaveLoop
  <1>4. CASE AbandonWaiting \/ AnnounceMatch
    BY <1>4, ScoreInvKept DEF AbandonWaiting, AnnounceMatch
  <1>5. CASE StartMatch
    BY <1>5 DEF StartMatch, BeginNewRound, ScoreInv, ScoreMatchesRounds, TypeOK
  <1>6. CASE EndBuy
    BY <1>6 DEF EndBuy, ScoreInv, ScoreMatchesRounds, scoreVars
  <1>7. CASE EndAttack
    <2>1. PICK t \in Teams : GiveRoundTo(t)
      BY <1>7 DEF EndAttack, DecideWinner, Teams
    <2>2. winner' = t /\ t # "NONE" /\ ctWins' + ttWins' = ctWins + ttWins + 1
      BY <2>1 DEF GiveRoundTo, TypeOK, Teams
    <2>3. winner = "NONE" /\ ctWins + ttWins = round - 1 /\ round' = round
      BY <1>7 DEF EndAttack, ScoreInv, ScoreMatchesRounds
    <2>4. phase' = "ROUND_ENDED" /\ pc' = "run"
      BY <1>7 DEF EndAttack
    <2>5. QED
      BY <2>2, <2>3, <2>4 DEF ScoreInv, ScoreMatchesRounds, TypeOK
  <1>8. CASE EndBetweenRounds
    BY <1>8 DEF EndBetweenRounds, BeginNewRound, ScoreInv, ScoreMatchesRounds, TypeOK
  <1>9. ASSUME NEW p \in Players, Join(p) \/ Disconnect(p) PROVE ScoreInv'
    BY <1>9, ScoreInvKept DEF Join, CheckJoin, EnterWorld, RegisterSender, Disconnect,
       flowVars
  <1>10. CASE StopGame
    BY <1>10, ScoreInvKept DEF StopGame, flowVars
  <1>11. QED
    BY <1>1, <1>2, <1>3, <1>4, <1>5, <1>6, <1>7, <1>8, <1>9, <1>10
       DEF Next, GameThread, PhaseEnd, Over

\* The scoreboard counts every round decided so far, for any number of rounds
\* and however joins, disconnections and a stop interleave with them.
THEOREM ScoreCorrect == Spec => []ScoreMatchesRounds
  <1>1. Init => ScoreInv
    BY DEF Init, ScoreInv, ScoreMatchesRounds
  <1>2. ScoreInv => ScoreMatchesRounds
    BY DEF ScoreInv
  <1>3. QED
    BY <1>1, <1>2, TypeOKInit, TypeOKNext, ScoreInvNext, PTL DEF Spec

-----------------------------------------------------------------------------
(***************************************************************************)
(* Who won what.  A roster player has a side for good, so that giving a    *)
(* round to a side and swapping the sides keep the two accounts equal.     *)
(***************************************************************************)
WinsInv ==
    /\ WinsFollowPlayers
    /\ phase = "WAITING" => roster = {}

LEMMA WinsInvKept ==
    ASSUME WinsInv, UNCHANGED <<scoreVars, phase, roster>>,
           \A p \in roster : team'[p] = team[p]
    PROVE  WinsInv'
  BY DEF WinsInv, WinsFollowPlayers, scoreVars

\* Whoever is on the roster keeps the account when a new round swaps or not.
LEMMA NewRoundKeepsAccounts ==
    ASSUME TypeOK, BeginNewRound, NEW p \in InWorld,
           won[p] = IF team[p] = "CT" THEN ctWins ELSE ttWins
    PROVE  won'[p] = IF team'[p] = "CT" THEN ctWins' ELSE ttWins'
  <1>1. team[p] \in Teams /\ p \in Players
    BY DEF TypeOK, WorldTypeOK, InWorld
  <1>2. team' = IF IsHalfTime THEN SwapTeams ELSE team
    BY DEF BeginNewRound, Restart
  <1>3. IsHalfTime => team'[p] = OtherSide(team[p])
    BY <1>1, <1>2 DEF SwapTeams
  <1>4. IsHalfTime => (team'[p] = "CT" <=> team[p] # "CT")
    BY <1>1, <1>3 DEF OtherSide, Teams
  <1>5. CASE IsHalfTime
    BY <1>4, <1>5 DEF BeginNewRound
  <1>6. CASE ~IsHalfTime
    BY <1>2, <1>6 DEF BeginNewRound
  <1>7. QED
    BY <1>5, <1>6

LEMMA WinsInvNext == TypeOK /\ ScoreInv /\ WinsInv /\ [Next]_vars => WinsInv'
  <1> SUFFICES ASSUME TypeOK, ScoreInv, WinsInv, [Next]_vars PROVE WinsInv'
    OBVIOUS
  <1>1. CASE UNCHANGED vars
    BY <1>1, WinsInvKept DEF vars, worldVars, flowVars
  <1>2. CASE RunLoop
    BY <1>2, WinsInvKept DEF RunLoop, EnterPhase, FinishMatch, Quit, worldVars
  <1>3. CASE PhaseLoop
    BY <1>3, WinsInvKept DEF PhaseLoop, BroadcastFrame, AbandonFrame, ExecuteWaiting,
       ExecuteFrame, LeaveLoop, Update, worldVars
  <1>4. CASE AbandonWaiting \/ AnnounceMatch
    BY <1>4, WinsInvKept DEF AbandonWaiting, AnnounceMatch, worldVars
  <1>5. CASE StartMatch
    <2>1. BeginNewRound /\ roster' = InWorld /\ phase' = "BUY"
      BY <1>5 DEF StartMatch
    <2>2. won = [p \in Players |-> 0] /\ ctWins = 0 /\ ttWins = 0
      BY <1>5 DEF StartMatch, ScoreInv
    <2>3. \A p \in InWorld : won[p] = IF team[p] = "CT" THEN ctWins ELSE ttWins
      BY <2>2 DEF InWorld
    <2>4. QED
      BY <2>1, <2>3, NewRoundKeepsAccounts DEF WinsInv, WinsFollowPlayers
  <1>6. CASE EndBuy
    BY <1>6 DEF EndBuy, WinsInv, WinsFollowPlayers, scoreVars, worldVars
  <1>7. CASE EndAttack
    <2>1. PICK t \in Teams : GiveRoundTo(t)
      BY <1>7 DEF EndAttack, DecideWinner, Teams
    <2>2. roster' = roster /\ team' = team /\ phase' = "ROUND_ENDED"
      BY <1>7 DEF EndAttack, worldVars
    <2>3. \A p \in roster : p \in Players /\ team[p] \in Teams /\ won[p] \in Nat
      BY DEF TypeOK, WorldTypeOK, InWorld
    <2>4. \A p \in roster : won'[p] = IF team[p] = "CT" THEN ctWins' ELSE ttWins'
      BY <2>1, <2>3 DEF GiveRoundTo, Teams, WinsInv, WinsFollowPlayers, TypeOK
    <2>5. QED
      BY <2>2, <2>4 DEF WinsInv, WinsFollowPlayers
  <1>8. CASE EndBetweenRounds
    <2>1. BeginNewRound /\ roster' = roster /\ phase' = "BUY" /\ roster \subseteq InWorld
      BY <1>8 DEF EndBetweenRounds, TypeOK
    <2>2. QED
      BY <2>1, NewRoundKeepsAccounts DEF WinsInv, WinsFollowPlayers
  <1>9. ASSUME NEW p \in Players, Join(p) \/ Disconnect(p) PROVE WinsInv'
    <2>1. CASE CheckJoin(p) \/ RegisterSender(p) \/ Disconnect(p)
      BY <2>1, WinsInvKept DEF CheckJoin, RegisterSender, Disconnect, flowVars, worldVars
    <2>2. CASE EnterWorld(p)
      <3>1. \A q \in roster : q # p
        BY <2>2 DEF EnterWorld, AddPlayer, TypeOK, InWorld
      <3>2. \A q \in roster : team'[q] = team[q]
        BY <2>2, <3>1 DEF EnterWorld, AddPlayer, TypeOK, WorldTypeOK, InWorld
      <3>3. QED
        BY <2>2, <3>2, WinsInvKept DEF EnterWorld, flowVars
    <2>3. QED
      BY <1>9, <2>1, <2>2 DEF Join
  <1>10. CASE StopGame
    BY <1>10, WinsInvKept DEF StopGame, flowVars, worldVars
  <1>11. QED
    BY <1>1, <1>2, <1>3, <1>4, <1>5, <1>6, <1>7, <1>8, <1>9, <1>10
       DEF Next, GameThread, PhaseEnd, Over

\* The score of a side is what each of its players has won, before and after
\* half time, for any number of players and rounds.
THEOREM WinsCorrect == Spec => []WinsFollowPlayers
  <1>1. Init => ScoreInv
    BY DEF Init, ScoreInv, ScoreMatchesRounds
  <1>2. Init => WinsInv
    BY DEF Init, WinsInv, WinsFollowPlayers
  <1>3. WinsInv => WinsFollowPlayers
    BY DEF WinsInv
  <1>4. QED
    BY <1>1, <1>2, <1>3, TypeOKInit, TypeOKNext, ScoreInvNext, WinsInvNext, PTL DEF Spec

-----------------------------------------------------------------------------
(***************************************************************************)
(* The two clocks.  ClockInv adds to BombClocksAgree where the bomb cannot *)
(* be planted yet, so that every plantation an attack phase counts started *)
(* in that phase, and that a bomb not planted has not aged.                *)
(***************************************************************************)
ClockInv ==
    /\ BombClocksAgree
    /\ bombStatus = "NOT_PLANTED" => plantedFor = 0
    /\ phase \in {"WAITING", "BUY"} => bombStatus = "NOT_PLANTED"
    /\ phase = "ATTACK" /\ pc = "run" /\ keepRunning => bombStatus # "PLANTED"
    /\ pc = "begin" => phase = "WAITING"

\* The steps that leave the bomb and the clocks alone, if they enter the loop
\* of no phase and wake no stopped game.
LEMMA ClockInvKept ==
    ASSUME ClockInv,
           UNCHANGED <<bombStatus, justPlanted, plantedFor, phase, time, duration>>,
           \/ UNCHANGED <<pc, lapse>> /\ (keepRunning' => keepRunning)
           \/ pc' \in {"end", "done"}
           \/ pc' = "run" /\ (phase = "ATTACK" => ~keepRunning')
           \/ pc' = "begin" /\ phase = "WAITING"
    PROVE  ClockInv'
  BY DEF ClockInv, BombClocksAgree

LEMMA ClockInvFrame ==
    ASSUME TypeOK, ClockInv, ExecuteFrame
    PROVE  ClockInv'
  <1> USE DEF ClockInv, BombClocksAgree
  <1>1. /\ pc = "execute" /\ pc' = "loop" /\ phase' = phase /\ phase # "WAITING"
        /\ AttackClock /\ lapse \in Nat /\ time \in Nat /\ plantedFor \in Nat
    BY DEF ExecuteFrame, TypeOK, WorldTypeOK
  <1>2. DetonationTime \in Nat \ {0}
    BY WorldAssumption
  <1>3. CASE BombTicks(lapse)
    <2>1. plantedFor' = plantedFor + lapse /\ justPlanted' = FALSE /\ bombStatus = "PLANTED"
      BY <1>3 DEF BombTicks
    <2>2. bombStatus' = "PLANTED" => plantedFor' < DetonationTime
      BY <1>1, <1>2, <1>3, <2>1 DEF BombTicks
    <2>3. bombStatus' \in {"EXPLODED", "PLANTED", "DEFUSED"}
      BY <1>3 DEF BombTicks
    <2>4. time' = time /\ duration' = duration
      BY <1>1, <2>1 DEF AttackClock
    <2>5. QED
      BY <1>1, <2>1, <2>2, <2>3, <2>4
  <1>4. CASE phase # "BUY" /\ BombIsPlanted
    <2>1. plantedFor' = 0 /\ bombStatus' = "PLANTED" /\ justPlanted' = TRUE
      BY <1>4 DEF BombIsPlanted
    <2>2. phase = "ATTACK" => duration' = DetonationTime /\ time' = 0
      BY <1>1, <2>1 DEF AttackClock
    <2>3. QED
      BY <1>1, <1>2, <1>4, <2>1, <2>2
  <1>5. CASE BombIsIdle
    BY <1>1, <1>5 DEF BombIsIdle
  <1>6. QED
    BY <1>3, <1>4, <1>5 DEF ExecuteFrame, Update

LEMMA ClockInvNext == TypeOK /\ ClockInv /\ [Next]_vars => ClockInv'
  <1> SUFFICES ASSUME TypeOK, ClockInv, [Next]_vars PROVE ClockInv'
    OBVIOUS
  <1>1. CASE UNCHANGED vars
    BY <1>1, ClockInvKept DEF vars, worldVars, flowVars
  <1>2. CASE EnterPhase
    BY <1>2 DEF EnterPhase, ClockInv, BombClocksAgree, worldVars
  <1>3. CASE FinishMatch \/ Quit
    BY <1>3, ClockInvKept DEF FinishMatch, Quit, worldVars
  <1>4. CASE BroadcastFrame
    <2>1. /\ pc = "loop" /\ time' = time + lapse
          /\ pc' = IF keepRunning' THEN "execute" ELSE "run"
      BY <1>4 DEF BroadcastFrame, AdvanceClock
    <2>2. UNCHANGED <<bombStatus, plantedFor, phase, duration, lapse>>
      BY <1>4 DEF BroadcastFrame, worldVars
    <2>3. QED
      BY <2>1, <2>2 DEF ClockInv, BombClocksAgree, TypeOK, WorldTypeOK
  <1>5. CASE AbandonFrame
    BY <1>5, ClockInvKept DEF AbandonFrame, worldVars
  <1>6. CASE ExecuteWaiting
    BY <1>6 DEF ExecuteWaiting, ClockInv, BombClocksAgree, worldVars
  <1>7. CASE ExecuteFrame
    BY <1>7, ClockInvFrame
  <1>8. CASE LeaveLoop
    BY <1>8, ClockInvKept DEF LeaveLoop, worldVars
  <1>9. CASE AbandonWaiting \/ AnnounceMatch
    BY <1>9, ClockInvKept DEF AbandonWaiting, AnnounceMatch, worldVars
  <1>10. CASE StartMatch \/ EndBetweenRounds
    <2>1. bombStatus' = "NOT_PLANTED" /\ plantedFor' = 0
      BY <1>10 DEF StartMatch, EndBetweenRounds, BeginNewRound, Restart
    <2>2. phase' = "BUY" /\ pc' = "run"
      BY <1>10 DEF StartMatch, EndBetweenRounds
    <2>3. QED
      BY <2>1, <2>2 DEF ClockInv, BombClocksAgree
  <1>11. CASE EndBuy \/ EndAttack
    BY <1>11 DEF EndBuy, EndAttack, ClockInv, BombClocksAgree, worldVars
  <1>12. ASSUME NEW p \in Players, Join(p) \/ Disconnect(p) PROVE ClockInv'
    BY <1>12, ClockInvKept DEF Join, CheckJoin, EnterWorld, RegisterSender, Disconnect,
       AddPlayer, flowVars, worldVars
  <1>13. CASE StopGame
    BY <1>13, ClockInvKept DEF StopGame, flowVars, worldVars
  <1>14. QED
    BY <1>1, <1>2, <1>3, <1>4, <1>5, <1>6, <1>7, <1>8, <1>9, <1>10, <1>11, <1>12, <1>13
       DEF Next, GameThread, RunLoop, PhaseLoop, PhaseEnd, Over

LEMMA ClockInvInit == Init => ClockInv
  BY DEF Init, WorldInit, ClockInv, BombClocksAgree

\* The clock of the attack phase and that of the bomb never drift apart,
\* whatever the durations and however late the frames.
THEOREM ClocksCorrect == Spec => []BombClocksAgree
  <1>1. ClockInv => BombClocksAgree
    BY DEF ClockInv
  <1>2. QED
    BY <1>1, TypeOKInit, TypeOKNext, ClockInvInit, ClockInvNext, PTL DEF Spec

-----------------------------------------------------------------------------
(***************************************************************************)
(* The verdict.  An attack phase that ended by itself, with nobody added   *)
(* since the start, ended because the round was won or because time was up *)
(* with no bomb planted: a planted one outlives no phase (ClockInv).       *)
(***************************************************************************)
VerdictInv ==
    pc = "end" /\ phase = "ATTACK" /\ keepRunning /\ InWorld = roster =>
        RoundHasWinner \/ (time >= duration /\ bombStatus = "NOT_PLANTED")

LEMMA VerdictInvKept ==
    ASSUME VerdictInv, UNCHANGED <<worldVars, phase, time, duration, roster, pc>>,
           keepRunning' => keepRunning
    PROVE  VerdictInv'
  BY DEF VerdictInv, worldVars, InWorld, RoundHasWinner, TtDead, CtDead, Side

LEMMA VerdictInvNext == TypeOK /\ ClockInv /\ VerdictInv /\ [Next]_vars => VerdictInv'
  <1> SUFFICES ASSUME TypeOK, ClockInv, VerdictInv, [Next]_vars PROVE VerdictInv'
    OBVIOUS
  <1>1. CASE UNCHANGED vars
    BY <1>1, VerdictInvKept DEF vars, flowVars
  <1>2. CASE RunLoop \/ BroadcastFrame \/ AbandonFrame \/ ExecuteWaiting \/ ExecuteFrame
    BY <1>2 DEF RunLoop, EnterPhase, FinishMatch, Quit, BroadcastFrame, AbandonFrame,
       ExecuteWaiting, ExecuteFrame, VerdictInv
  <1>3. CASE LeaveLoop
    <2> SUFFICES ASSUME phase = "ATTACK", keepRunning, ~RoundHasWinner
                 PROVE  time >= duration /\ bombStatus = "NOT_PLANTED"
      BY <1>3 DEF LeaveLoop, VerdictInv, worldVars, InWorld, RoundHasWinner, TtDead,
         CtDead, Side
    <2>1. pc = "loop" /\ ~(time < duration)
      BY <1>3 DEF LeaveLoop, ShouldContinue
    <2>2. bombStatus \in {"NOT_PLANTED", "PLANTED"}
      BY DEF RoundHasWinner, TypeOK, WorldTypeOK, BombStatuses
    <2>3. bombStatus # "PLANTED"
      <3> SUFFICES ASSUME bombStatus = "PLANTED" PROVE FALSE
        OBVIOUS
      <3>1. /\ duration = DetonationTime
            /\ time = plantedFor + 0
            /\ plantedFor < DetonationTime
        BY <2>1 DEF ClockInv, BombClocksAgree
      <3>2. plantedFor \in Nat /\ DetonationTime \in Nat
        BY WorldAssumption DEF TypeOK, WorldTypeOK
      <3>3. QED
        BY <2>1, <3>1, <3>2
    <2>4. QED
      BY <2>1, <2>2, <2>3 DEF TypeOK
  <1>4. CASE PhaseEnd
    BY <1>4 DEF PhaseEnd, AbandonWaiting, AnnounceMatch, StartMatch, EndBuy, EndAttack,
       EndBetweenRounds, VerdictInv
  <1>5. ASSUME NEW p \in Players, Join(p) \/ Disconnect(p) PROVE VerdictInv'
    <2>1. CASE CheckJoin(p) \/ RegisterSender(p) \/ Disconnect(p)
      BY <2>1, VerdictInvKept DEF CheckJoin, RegisterSender, Disconnect, flowVars
    <2>2. CASE EnterWorld(p)
      <3>1. InWorld' = InWorld \cup {p} /\ p \notin InWorld
        BY <2>2, AddPlayerGrowsWorld DEF EnterWorld, TypeOK
      <3>2. roster' = roster /\ roster \subseteq InWorld
        BY <2>2 DEF EnterWorld, TypeOK
      <3>3. QED
        BY <3>1, <3>2 DEF VerdictInv
    <2>3. QED
      BY <1>5, <2>1, <2>2 DEF Join
  <1>6. CASE StopGame
    BY <1>6, VerdictInvKept DEF StopGame, flowVars
  <1>7. QED
    BY <1>1, <1>2, <1>3, <1>4, <1>5, <1>6 DEF Next, GameThread, PhaseLoop, Over

\* What one step of a match may say of the winner of a round.
VerdictIsJust ==
    winner = "NONE" /\ winner' # "NONE" =>
        \/ ~keepRunning
        \/ InWorld # roster
        \/ /\ winner' = "CT"
           /\ \/ bombStatus = "DEFUSED"
              \/ TtDead /\ bombStatus = "NOT_PLANTED"
              \/ time >= duration /\ bombStatus = "NOT_PLANTED" /\ ~CtDead
        \/ /\ winner' = "TT"
           /\ bombStatus = "EXPLODED" \/ CtDead

LEMMA VerdictStep ==
    ASSUME TypeOK, VerdictInv, [Next]_vars
    PROVE  VerdictIsJust
  <1>1. CASE EndAttack
    <2> SUFFICES ASSUME keepRunning, InWorld = roster
                 PROVE  \/ /\ winner' = "CT"
                           /\ \/ bombStatus = "DEFUSED"
                              \/ TtDead /\ bombStatus = "NOT_PLANTED"
                              \/ time >= duration /\ bombStatus = "NOT_PLANTED" /\ ~CtDead
                        \/ winner' = "TT" /\ (bombStatus = "EXPLODED" \/ CtDead)
      BY DEF VerdictIsJust
    <2>1. winner' = IF CtWinsRound THEN "CT" ELSE "TT"
      BY <1>1 DEF EndAttack, DecideWinner, GiveRoundTo
    <2>2. RoundHasWinner \/ (time >= duration /\ bombStatus = "NOT_PLANTED")
      BY <1>1 DEF EndAttack, VerdictInv
    <2>3. QED
      BY <2>1, <2>2 DEF CtWinsRound, RoundHasWinner
  <1>2. CASE winner' = winner \/ winner' = "NONE"
    BY <1>2 DEF VerdictIsJust
  <1>3. EndAttack \/ winner' = winner \/ winner' = "NONE"
    BY DEF Next, vars, scoreVars, GameThread, RunLoop, EnterPhase, FinishMatch, Quit,
       PhaseLoop, BroadcastFrame, AbandonFrame, ExecuteWaiting, ExecuteFrame, LeaveLoop,
       PhaseEnd, AbandonWaiting, AnnounceMatch, StartMatch, BeginNewRound, EndBuy,
       EndBetweenRounds, Join, CheckJoin, EnterWorld, RegisterSender, Disconnect,
       StopGame, Over
  <1>4. QED
    BY <1>1, <1>2, <1>3

\* Rounds are given to whom they should be: by elimination, by the bomb, or to
\* the CTs when time runs out, for any durations and any number of players.
THEOREM VerdictsAreJust == Spec => JustVerdict
  <1>1. Init => VerdictInv
    BY DEF Init, VerdictInv
  <1>2. TypeOK /\ VerdictInv /\ [Next]_vars => [VerdictIsJust]_vars
    BY VerdictStep
  <1>3. Spec => [][VerdictIsJust]_vars
    BY <1>1, <1>2, TypeOKInit, TypeOKNext, ClockInvInit, ClockInvNext, VerdictInvNext,
       PTL DEF Spec
  <1>4. QED
    BY <1>3, PTL DEF JustVerdict, VerdictIsJust

-----------------------------------------------------------------------------
(***************************************************************************)
(* Who plays.  Only the creator can be alone, on the CT side: the second   *)
(* player is a terrorist.  SidesInv adds where the waiting phase may be    *)
(* left from, which takes two players, and that the sides, once manned,    *)
(* are only swapped or joined.                                             *)
(***************************************************************************)
Manned == Side("CT") # {} /\ Side("TT") # {}

SidesInv ==
    /\ Manned \/ (phase = "WAITING" /\ Side("CT") = {creator} /\ Side("TT") = {})
    /\ forcedStart => Cardinality(senders) >= 2
    /\ pc = "begin" => ShouldStart
    /\ pc = "end" /\ phase = "WAITING" /\ keepRunning => ShouldStart
    /\ IsFiniteSet(senders)

LEMMA SidesInvInit == Init => SidesInv
  <1> SUFFICES ASSUME Init PROVE SidesInv
    OBVIOUS
  <1>1. Side("CT") = {creator} /\ Side("TT") = {}
    BY DEF Init, WorldInit, Side
  <1>2. QED
    BY <1>1, FS_Singleton DEF Init, SidesInv

\* A game that should start has both sides manned.
LEMMA TwoPlayersManBothSides ==
    ASSUME TypeOK, SidesInv, ShouldStart
    PROVE  Manned
  <1>1. Cardinality(senders) >= 2
    <2>1. Seats \in Nat /\ Seats >= 2
      BY WorldAssumption DEF Seats
    <2>2. Cardinality(senders) \in Nat
      BY FS_CardinalityType DEF SidesInv
    <2>3. QED
      BY <2>1, <2>2 DEF ShouldStart, SidesInv
  <1>2. ASSUME Side("CT") = {creator}, Side("TT") = {} PROVE FALSE
    <2>1. senders \subseteq {creator}
      BY <1>2 DEF TypeOK, WorldTypeOK, InWorld, Side, Teams
    <2>2. IsFiniteSet({creator}) /\ Cardinality({creator}) = 1
      BY FS_Singleton
    <2>3. Cardinality(senders) <= 1
      BY <2>1, <2>2, FS_Subset
    <2>4. Cardinality(senders) \in Nat
      BY FS_CardinalityType DEF SidesInv
    <2>5. QED
      BY <1>1, <2>3, <2>4
  <1>3. QED
    BY <1>2 DEF SidesInv

\* The second player becomes a terrorist, and nobody changes sides.
LEMMA AddPlayerMansSides ==
    ASSUME TypeOK, SidesInv, NEW p \in Players, AddPlayer(p)
    PROVE  Manned'
  <1>1. team' = [team EXCEPT ![p] = FreeSide] /\ team[p] = "NONE"
    BY DEF AddPlayer
  <1>2. FreeSide \in Teams /\ team \in [Players -> Teams \cup {"NONE"}]
    BY DEF FreeSide, Teams, TypeOK, WorldTypeOK
  <1>3. /\ Side("CT") \subseteq Side("CT")' /\ Side("TT") \subseteq Side("TT")'
        /\ FreeSide = "TT" => p \in Side("TT")'
    BY <1>1, <1>2 DEF Side, Teams
  <1>4. CASE Side("CT") = {creator} /\ Side("TT") = {}
    <2>1. Cardinality(Side("CT")) = 1 /\ Cardinality(Side("TT")) = 0
      BY <1>4, FS_Singleton, FS_EmptySet
    <2>2. FreeSide = "TT"
      BY <2>1, WorldAssumption DEF FreeSide
    <2>3. QED
      BY <1>3, <1>4, <2>2 DEF Manned
  <1>5. CASE Manned
    BY <1>3, <1>5 DEF Manned
  <1>6. QED
    BY <1>4, <1>5 DEF SidesInv

\* A new round begins with both sides manned, swapped or not.
LEMMA NewRoundMansSides ==
    ASSUME TypeOK, Manned, BeginNewRound
    PROVE  Manned'
  <1>1. team' = team \/ team' = SwapTeams
    BY DEF BeginNewRound, Restart
  <1>2. PICK p \in Players, q \in Players : team[p] = "CT" /\ team[q] = "TT"
    BY DEF Manned, Side
  <1>3. \/ team'[p] = "CT" /\ team'[q] = "TT"
        \/ team'[p] = "TT" /\ team'[q] = "CT"
    BY <1>1, <1>2 DEF SwapTeams, OtherSide
  <1>4. QED
    BY <1>3 DEF Manned, Side

\* The steps that change no side and no sender, and leave no phase.
LEMMA SidesInvKept ==
    ASSUME SidesInv, UNCHANGED <<team, phase, creator, senders, forcedStart>>,
           pc' = "begin" => pc = "begin" \/ ShouldStart,
           pc' = "end" /\ phase = "WAITING" /\ keepRunning' =>
               (pc = "end" /\ keepRunning) \/ ShouldStart
    PROVE  SidesInv'
  <1>1. Manned' <=> Manned
    BY DEF Manned, Side
  <1>2. Side("CT")' = Side("CT") /\ Side("TT")' = Side("TT")
    BY DEF Side
  <1>3. ShouldStart' <=> ShouldStart
    BY DEF ShouldStart
  <1>4. QED
    BY <1>1, <1>2, <1>3 DEF SidesInv

LEMMA SidesInvNext == TypeOK /\ SidesInv /\ [Next]_vars => SidesInv'
  <1> SUFFICES ASSUME TypeOK, SidesInv, [Next]_vars PROVE SidesInv'
    OBVIOUS
  <1>1. CASE UNCHANGED vars
    BY <1>1, SidesInvKept DEF vars, worldVars, flowVars, lobbyVars
  <1>2. CASE RunLoop
    BY <1>2, SidesInvKept DEF RunLoop, EnterPhase, FinishMatch, Quit, worldVars, lobbyVars
  <1>3. CASE BroadcastFrame \/ AbandonFrame \/ ExecuteFrame
    BY <1>3, SidesInvKept DEF BroadcastFrame, AbandonFrame, ExecuteFrame, Update,
       worldVars, lobbyVars
  <1>4. CASE ExecuteWaiting
    <2>1. UNCHANGED <<team, phase, creator, senders>> /\ pc' = "loop"
      BY <1>4 DEF ExecuteWaiting, worldVars, lobbyVars
    <2>2. forcedStart' => Cardinality(senders) >= 2
      BY <1>4 DEF ExecuteWaiting, CanForceStart, SidesInv
    <2>3. QED
      BY <2>1, <2>2 DEF SidesInv, Manned, Side
  <1>5. CASE LeaveLoop
    <2>1. UNCHANGED <<team, phase, creator, senders, forcedStart>>
      BY <1>5 DEF LeaveLoop, worldVars, lobbyVars
    <2>2. pc' # "begin"
      BY <1>5 DEF LeaveLoop
    <2>3. ASSUME pc' = "end", phase = "WAITING", keepRunning' PROVE ShouldStart
      <3>1. ~(time >= duration) /\ keepRunning
        BY <1>5, <2>3 DEF LeaveLoop
      <3>2. time \in Nat /\ duration \in Nat
        BY DEF TypeOK
      <3>3. ~ShouldContinue
        BY <1>5, <3>1, <3>2 DEF LeaveLoop
      <3>4. QED
        BY <2>3, <3>1, <3>3 DEF ShouldContinue
    <2>4. QED
      BY <2>1, <2>2, <2>3, SidesInvKept
  <1>6. CASE AbandonWaiting \/ AnnounceMatch
    <2>1. UNCHANGED <<team, phase, creator, senders, forcedStart>> /\ pc' # "end"
      BY <1>6 DEF AbandonWaiting, AnnounceMatch, worldVars, lobbyVars
    <2>2. pc' = "begin" => ShouldStart
      BY <1>6 DEF AbandonWaiting, AnnounceMatch, SidesInv
    <2>3. QED
      BY <2>1, <2>2, SidesInvKept
  <1>7. CASE StartMatch \/ EndBetweenRounds
    <2>1. Manned
      BY <1>7, TwoPlayersManBothSides DEF StartMatch, EndBetweenRounds, SidesInv
    <2>2. Manned'
      BY <1>7, <2>1, NewRoundMansSides DEF StartMatch, EndBetweenRounds
    <2>3. pc' = "run" /\ senders' = senders /\ forcedStart' = forcedStart
      BY <1>7 DEF StartMatch, EndBetweenRounds, lobbyVars
    <2>4. QED
      BY <2>2, <2>3 DEF SidesInv
  <1>8. CASE EndBuy \/ EndAttack
    BY <1>8 DEF EndBuy, EndAttack, SidesInv, Manned, Side, worldVars, lobbyVars
  <1>9. ASSUME NEW p \in Players, CheckJoin(p) \/ Disconnect(p) PROVE SidesInv'
    BY <1>9, SidesInvKept DEF CheckJoin, Disconnect, worldVars, flowVars
  <1>10. ASSUME NEW p \in Players, EnterWorld(p) PROVE SidesInv'
    <2>1. Manned'
      BY <1>10, AddPlayerMansSides DEF EnterWorld
    <2>2. UNCHANGED <<phase, pc, keepRunning, senders, forcedStart>>
      BY <1>10 DEF EnterWorld, flowVars, lobbyVars
    <2>3. QED
      BY <2>1, <2>2 DEF SidesInv, ShouldStart
  <1>11. ASSUME NEW p \in Players, RegisterSender(p) PROVE SidesInv'
    <2>1. /\ UNCHANGED <<team, phase, pc, keepRunning, creator, forcedStart>>
          /\ senders' = senders \cup {p}
      BY <1>11 DEF RegisterSender, worldVars, flowVars
    <2>2. /\ IsFiniteSet(senders')
          /\ Cardinality(senders) \in Nat /\ Cardinality(senders') \in Nat
          /\ Cardinality(senders') >= Cardinality(senders)
      <3>1. IsFiniteSet(senders)
        BY DEF SidesInv
      <3>2. /\ IsFiniteSet(senders')
            /\ Cardinality(senders') = IF p \in senders THEN Cardinality(senders)
                                       ELSE Cardinality(senders) + 1
        BY <2>1, <3>1, FS_AddElement
      <3>3. Cardinality(senders) \in Nat
        BY <3>1, FS_CardinalityType
      <3>4. QED
        BY <3>2, <3>3
    <2>3. Seats \in Nat
      BY WorldAssumption DEF Seats
    <2>4. (ShouldStart => ShouldStart') /\ (forcedStart' => Cardinality(senders') >= 2)
      BY <2>1, <2>2, <2>3 DEF ShouldStart, SidesInv
    <2>5. QED
      BY <2>1, <2>2, <2>4 DEF SidesInv, Manned, Side
  <1>12. CASE StopGame
    BY <1>12, SidesInvKept DEF StopGame, worldVars, flowVars, lobbyVars
  <1>13. QED
    BY <1>1, <1>2, <1>3, <1>4, <1>5, <1>6, <1>7, <1>8, <1>9, <1>10, <1>11, <1>12
       DEF Next, GameThread, PhaseLoop, PhaseEnd, Join, Over

\* No round is ever played by one side only, for any seats (at least one on
\* each side) and however players join, leave and force the start.
THEOREM SidesAreManned == Spec => []BothSidesManned
  <1>1. SidesInv => BothSidesManned
    BY DEF SidesInv, Manned, BothSidesManned
  <1>2. QED
    BY <1>1, TypeOKInit, TypeOKNext, SidesInvInit, SidesInvNext, PTL DEF Spec

=============================================================================
