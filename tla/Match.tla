------------------------------- MODULE Match -------------------------------
(***************************************************************************)
(* One game: the thread that runs CS2DGame::run, the phases it goes        *)
(* through, its rounds and score, and the two other kinds of threads that  *)
(* touch it: client handlers that add players (one at a time, under the    *)
(* monitor's mutex, but without any lock the game thread takes) and the    *)
(* acceptor that may stop it.                                              *)
(*                                                                         *)
(* The game thread moves in the steps another thread can observe: the test *)
(* of a phase's loop, the broadcast of a frame, the commands and the       *)
(* update of that frame, the end of a phase.                               *)
(***************************************************************************)
EXTENDS World

CONSTANTS Rounds,           \* rounds of a match
          WaitingDuration,  \* durations of the four phases, in frames
          BuyDuration,
          AttackDuration,
          BetweenDuration,
          MaxLapse,         \* bound: most frames one late iteration skips
          NoOne             \* nobody is joining

ASSUME MatchAssumption ==
    /\ Rounds \in Nat
    /\ WaitingDuration \in Nat
    /\ BuyDuration \in Nat
    /\ AttackDuration \in Nat
    /\ BetweenDuration \in Nat
    /\ MaxLapse \in Nat \ {0}
    /\ NoOne \notin Players

VARIABLES phase,        \* type of CS2DGame::phase
          pc,           \* where the game thread is
          time,         \* GamePhase::run: time
          duration,     \* GamePhase::duration
          lapse,        \* GamePhase::run: it - last_it of the next frame
          round,        \* current_round
          winner,       \* current_round_winner, "NONE" for nullopt
          ctWins, ttWins,
          forcedStart,  \* forced_start
          keepRunning,  \* Thread::_keep_running of the game
          senders,      \* keys of players_senders
          connected,    \* the senders that are alive
          creator,      \* creator_username
          joining,      \* player a handler is adding to the game, or NoOne
          roster,       \* players of the world when the first round began
          won           \* rounds each player was given the winner's bonus for

flowVars == <<phase, pc, time, duration, lapse>>
scoreVars == <<round, winner, ctWins, ttWins, won>>
lobbyVars == <<senders, connected, creator, joining>>
vars == <<worldVars, flowVars, scoreVars, lobbyVars,
          forcedStart, keepRunning, roster>>

Phases == {"WAITING", "BUY", "ATTACK", "ROUND_ENDED"}
Seats == CounterTerrorists + Terrorists

PhaseDuration(ph) == CASE ph = "WAITING" -> WaitingDuration
                       [] ph = "BUY" -> BuyDuration
                       [] ph = "ATTACK" -> AttackDuration
                       [] ph = "ROUND_ENDED" -> BetweenDuration

Init ==
    /\ creator \in Players
    /\ WorldInit(creator)
    /\ phase = "WAITING" /\ pc = "run"
    /\ time = 0 /\ duration = WaitingDuration /\ lapse = 0
    /\ round = 0 /\ winner = "NONE" /\ ctWins = 0 /\ ttWins = 0
    /\ won = [p \in Players |-> 0]
    /\ forcedStart = FALSE /\ keepRunning = TRUE
    /\ senders = {creator} /\ connected = {creator}
    /\ joining = NoOne
    /\ roster = {}

-----------------------------------------------------------------------------
(***************************************************************************)
(* Client handlers.  add_player first checks that the game takes players,  *)
(* then adds the player to the world, then registers its sender.           *)
(***************************************************************************)
AcceptsPlayers == ~forcedStart /\ Cardinality(senders) # Seats

CheckJoin(p) ==
    /\ joining = NoOne
    /\ pc # "done"
    /\ AcceptsPlayers
    /\ p \notin senders
    /\ joining' = p
    /\ UNCHANGED <<worldVars, flowVars, scoreVars, senders, connected, creator,
                   forcedStart, keepRunning, roster>>

\* Mutant: the sender is registered before the world has the player.
IsOrIsNotInWorld(p) == p \in Players

IsInWorld(p) == team[p] # "NONE"

EnterWorld(p) ==
    /\ joining = p
    /\ AddPlayer(p)
    /\ UNCHANGED <<flowVars, scoreVars, lobbyVars, forcedStart, keepRunning, roster>>

RegisterSender(p) ==
    /\ joining = p
    /\ IsInWorld(p)
    /\ senders' = senders \cup {p}
    /\ connected' = connected \cup {p}
    /\ joining' = NoOne
    /\ UNCHANGED <<worldVars, flowVars, scoreVars, creator,
                   forcedStart, keepRunning, roster>>

\* A client leaves, or its connection is lost: its sender dies.
Disconnect(p) ==
    /\ p \in connected
    /\ connected' = connected \ {p}
    /\ UNCHANGED <<worldVars, flowVars, scoreVars, senders, creator, joining,
                   forcedStart, keepRunning, roster>>

\* The server shuts down: kill_games stops the game thread.
StopGame ==
    /\ keepRunning
    /\ keepRunning' = FALSE
    /\ UNCHANGED <<worldVars, flowVars, scoreVars, lobbyVars, forcedStart, roster>>

-----------------------------------------------------------------------------
(***************************************************************************)
(* The loop of CS2DGame::run.                                              *)
(***************************************************************************)
EnterPhase ==
    /\ pc = "run" /\ keepRunning /\ round <= Rounds
    /\ pc' = "loop"
    /\ time' = 0 /\ lapse' = 0 /\ duration' = PhaseDuration(phase)
    /\ UNCHANGED <<worldVars, phase, scoreVars, lobbyVars,
                   forcedStart, keepRunning, roster>>

\* end_game: GameEnded goes to the senders that are alive, the thread stops.
FinishMatch ==
    /\ pc = "run" /\ keepRunning /\ round > Rounds
    /\ pc' = "done"
    /\ keepRunning' = FALSE
    /\ UNCHANGED <<worldVars, phase, time, duration, lapse, scoreVars, lobbyVars,
                   forcedStart, roster>>

Quit ==
    /\ pc = "run" /\ ~keepRunning
    /\ pc' = "done"
    /\ UNCHANGED <<worldVars, phase, time, duration, lapse, scoreVars, lobbyVars,
                   forcedStart, keepRunning, roster>>

-----------------------------------------------------------------------------
(***************************************************************************)
(* The loop of GamePhase::run.                                             *)
(***************************************************************************)
ShouldStart == forcedStart \/ Cardinality(senders) >= Seats

RoundHasWinner == \/ TtDead /\ bombStatus = "NOT_PLANTED"
                  \/ CtDead
                  \/ bombStatus \in {"EXPLODED", "DEFUSED"}

ShouldContinue ==
    /\ keepRunning
    /\ phase = "WAITING" => ~ShouldStart
    /\ phase = "ATTACK" => ~RoundHasWinner

\* Mutant: "time = delta" for "time += delta".
ForgetElapsed == time' = lapse

AdvanceClock == time' = time + lapse

\* Mutant: broadcasting to nobody goes unnoticed.
NeverAbandoned == UNCHANGED keepRunning

\* broadcast_game_dto: with nobody to send to, the game ends.
EndIfAbandoned == keepRunning' = (connected # {})

BroadcastFrame ==
    /\ pc = "loop" /\ ShouldContinue /\ time < duration
    /\ AdvanceClock
    /\ EndIfAbandoned
    /\ pc' = IF keepRunning' THEN "execute" ELSE "run"
    /\ UNCHANGED <<worldVars, phase, duration, lapse, scoreVars, lobbyVars,
                   forcedStart, roster>>

\* Stopped by another thread between the loop's test and the commands.
AbandonFrame ==
    /\ pc = "execute" /\ ~keepRunning
    /\ pc' = "run"
    /\ UNCHANGED <<worldVars, phase, time, duration, lapse, scoreVars, lobbyVars,
                   forcedStart, keepRunning, roster>>

CanForceStart ==
    /\ Cardinality(senders) >= Seats \div 2
    /\ Cardinality(senders) >= 2

\* The commands of the waiting phase: only the creator may force the start.
ExecuteWaiting ==
    /\ pc = "execute" /\ phase = "WAITING"
    /\ forcedStart' \in {forcedStart, CanForceStart}
    /\ lapse' \in 1..MaxLapse
    /\ pc' = "loop"
    /\ UNCHANGED <<worldVars, phase, time, duration, scoreVars, lobbyVars,
                   keepRunning, roster>>

\* Mutant: the clock is not restarted.
AttackClockKeepsTime ==
    /\ duration' = IF phase = "ATTACK" /\ justPlanted' THEN DetonationTime ELSE duration
    /\ UNCHANGED time

\* A plantation gives the attack phase the time of the bomb.
AttackClock ==
    IF phase = "ATTACK" /\ justPlanted'
    THEN duration' = DetonationTime /\ time' = 0
    ELSE UNCHANGED <<duration, time>>

\* Commands and update of every other phase.
ExecuteFrame ==
    /\ pc = "execute" /\ phase # "WAITING"
    /\ Update(lapse, phase # "BUY")
    /\ AttackClock
    /\ lapse' \in 1..MaxLapse
    /\ pc' = "loop"
    /\ UNCHANGED <<phase, scoreVars, lobbyVars, forcedStart, keepRunning, roster>>

LeaveLoop ==
    /\ pc = "loop"
    /\ ~(ShouldContinue /\ time < duration)
    /\ IF phase = "WAITING" /\ time >= duration
       THEN keepRunning' = FALSE /\ pc' = "run"   \* end_game
       ELSE UNCHANGED keepRunning /\ pc' = "end"
    /\ UNCHANGED <<worldVars, phase, time, duration, lapse, scoreVars, lobbyVars,
                   forcedStart, roster>>

-----------------------------------------------------------------------------
(***************************************************************************)
(* The four GamePhase::end.                                                *)
(***************************************************************************)
IsHalfTime == round' = (Rounds \div 2) + 1

BeginNewRound ==
    /\ winner' = "NONE"
    /\ round' = round + 1
    /\ IF IsHalfTime
       THEN ctWins' = ttWins /\ ttWins' = ctWins
       ELSE UNCHANGED <<ctWins, ttWins>>
    /\ Restart(IsHalfTime)
    /\ UNCHANGED won

\* Stopped while waiting: the phase ends without starting the match.
AbandonWaiting ==
    /\ pc = "end" /\ phase = "WAITING" /\ ~keepRunning
    /\ pc' = "run"
    /\ UNCHANGED <<worldVars, phase, time, duration, lapse, scoreVars, lobbyVars,
                   forcedStart, keepRunning, roster>>

\* broadcast_game_initial_info, which may find nobody connected.
AnnounceMatch ==
    /\ pc = "end" /\ phase = "WAITING" /\ keepRunning
    /\ EndIfAbandoned
    /\ pc' = "begin"
    /\ UNCHANGED <<worldVars, phase, time, duration, lapse, scoreVars, lobbyVars,
                   forcedStart, roster>>

StartMatch ==
    /\ pc = "begin"
    /\ BeginNewRound
    /\ roster' = InWorld
    /\ phase' = "BUY" /\ pc' = "run"
    /\ UNCHANGED <<time, duration, lapse, lobbyVars, forcedStart, keepRunning>>

EndBuy ==
    /\ pc = "end" /\ phase = "BUY"
    /\ phase' = "ATTACK" /\ pc' = "run"
    /\ UNCHANGED <<worldVars, time, duration, lapse, scoreVars, lobbyVars,
                   forcedStart, keepRunning, roster>>

\* Mutant: the first condition forgets that the bomb may be planted.
CtWinsByElimination == TtDead \/ bombStatus = "DEFUSED" \/ ~RoundHasWinner

CtWinsRound == \/ TtDead /\ bombStatus = "NOT_PLANTED"
               \/ bombStatus = "DEFUSED"
               \/ ~RoundHasWinner

GiveRoundTo(t) ==
    /\ winner' = t
    /\ ctWins' = ctWins + (IF t = "CT" THEN 1 ELSE 0)
    /\ ttWins' = ttWins + (IF t = "TT" THEN 1 ELSE 0)
    /\ won' = [p \in Players |-> won[p] + (IF team[p] = t THEN 1 ELSE 0)]

\* Mutant: a round that ran out of time is given to nobody.
TimeoutGivenToNobody ==
    IF RoundHasWinner THEN GiveRoundTo(IF CtWinsRound THEN "CT" ELSE "TT")
                      ELSE UNCHANGED <<winner, ctWins, ttWins, won>>

DecideWinner == GiveRoundTo(IF CtWinsRound THEN "CT" ELSE "TT")

EndAttack ==
    /\ pc = "end" /\ phase = "ATTACK"
    /\ DecideWinner
    /\ phase' = "ROUND_ENDED" /\ pc' = "run"
    /\ UNCHANGED <<worldVars, time, duration, lapse, round, lobbyVars,
                   forcedStart, keepRunning, roster>>

EndBetweenRounds ==
    /\ pc = "end" /\ phase = "ROUND_ENDED"
    /\ BeginNewRound
    /\ phase' = "BUY" /\ pc' = "run"
    /\ UNCHANGED <<time, duration, lapse, lobbyVars, forcedStart, keepRunning, roster>>

-----------------------------------------------------------------------------
Join(p) == CheckJoin(p) \/ EnterWorld(p) \/ RegisterSender(p)

RunLoop == EnterPhase \/ FinishMatch \/ Quit
PhaseLoop == \/ BroadcastFrame \/ AbandonFrame
             \/ ExecuteWaiting \/ ExecuteFrame \/ LeaveLoop
PhaseEnd == \/ AbandonWaiting \/ AnnounceMatch \/ StartMatch
            \/ EndBuy \/ EndAttack \/ EndBetweenRounds

GameThread == RunLoop \/ PhaseLoop \/ PhaseEnd

\* The thread is gone and nothing is left to do; only to tell it from a deadlock.
Over == pc = "done" /\ UNCHANGED vars

Next == \/ GameThread
        \/ \E p \in Players : Join(p) \/ Disconnect(p)
        \/ StopGame
        \/ Over

\* The operating system keeps scheduling the game thread.
Spec == Init /\ [][Next]_vars /\ WF_vars(GameThread)

-----------------------------------------------------------------------------
(***************************************************************************)
(* Safety.                                                                 *)
(***************************************************************************)
\* The types of the variables of the match and of its world.
TypeOK ==
    /\ WorldTypeOK
    /\ phase \in Phases
    /\ pc \in {"run", "loop", "execute", "end", "begin", "done"}
    /\ time \in Nat /\ duration \in Nat /\ lapse \in Nat
    /\ round \in Nat /\ winner \in Teams \cup {"NONE"}
    /\ ctWins \in Nat /\ ttWins \in Nat
    /\ won \in [Players -> Nat]
    /\ forcedStart \in BOOLEAN /\ keepRunning \in BOOLEAN
    /\ senders \subseteq InWorld /\ connected \subseteq senders
    /\ creator \in Players
    /\ joining \in Players \cup {NoOne}
    /\ roster \subseteq InWorld

\* Every round that was decided, and no other, is on the scoreboard, whatever
\* was stopped, swapped or restarted meanwhile (decide_winner, begin_new_round).
ScoreMatchesRounds ==
    /\ winner # "NONE" <=> phase = "ROUND_ENDED"
    /\ ctWins + ttWins = IF phase = "WAITING" \/ winner # "NONE"
                         THEN round ELSE round - 1

\* The score of a side is what its players won, also after half time, when
\* begin_new_round swaps the scores and swap_teams the players.
WinsFollowPlayers ==
    \A p \in roster : won[p] = IF team[p] = "CT" THEN ctWins ELSE ttWins

\* While a planted bomb ticks in the attack phase, the clock of the phase
\* (GamePhase::run) and the clock of the bomb (Bomb::update_planted) agree, so
\* that the loop cannot run out of time before the bomb does.
BombClocksAgree ==
    phase = "ATTACK" /\ bombStatus = "PLANTED" /\ pc \in {"loop", "execute"} =>
        /\ duration = DetonationTime
        /\ time = plantedFor + (IF pc = "execute" THEN lapse ELSE 0)
        /\ plantedFor < DetonationTime

\* No round is played by one side only: the balance kept by add_player and the
\* minimum of can_force_start leave a player on each side.
BothSidesManned ==
    phase # "WAITING" => Side("CT") # {} /\ Side("TT") # {}

\* A round goes to the CTs only if the terrorists died without planting, the
\* bomb was defused, or time ran out with no bomb planted; to the TTs only if
\* it exploded or the CTs died.  A stopped server and a player who joined
\* late are the two ways around it.
JustVerdict ==
    [][winner = "NONE" /\ winner' # "NONE" =>
         \/ ~keepRunning
         \/ InWorld # roster
         \/ /\ winner' = "CT"
            /\ \/ bombStatus = "DEFUSED"
               \/ TtDead /\ bombStatus = "NOT_PLANTED"
               \/ time >= duration /\ bombStatus = "NOT_PLANTED" /\ ~CtDead
         \/ /\ winner' = "TT"
            /\ bombStatus = "EXPLODED" \/ CtDead]_vars

-----------------------------------------------------------------------------
(***************************************************************************)
(* Liveness, under the scheduling of the game thread.                      *)
(***************************************************************************)
\* The bomb was planted in the last frame before a restart, which keeps
\* just_been_planted set while nothing is planted.
PlantationIsStale == justPlanted /\ bombStatus = "NOT_PLANTED"

\* Every game comes to its end, unless its attack phase is caught by a stale
\* plantation flag, which restarts the clock of the phase on each frame.
MatchCompletes == <>[]~PlantationIsStale => <>(pc = "done")

\* A game whose clients have all left ends, whatever its phase, also when the
\* clock of the attack phase is caught (broadcast_game_dto ends it).
AbandonedMatchEnds == <>[](connected = {}) => <>(pc = "done")

=============================================================================
