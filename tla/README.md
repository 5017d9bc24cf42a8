# A verification project for CS2D Remake

This directory holds TLA+ models of *CS2D Remake*, the C++ program in this repository: its
server, the protocol, the client and the map editor. With them come the TLC configurations that check them on small instances, and
TLAPS proofs of what matters most for every value of the constants. Paths below are
relative to the repository; `server/`, `client/`, `editor/` and `common/` stand for
`src/server/` and so on.

## 1. Inventory

### 1.1 Components

| Component | State | Operations | Correct when |
|---|---|---|---|
| **Game** `CS2DGame`, `GamePhase` (`server/cs2d_game.cpp`, `game_phase.cpp`) | phase, round, scores, winner, forced start, senders, the two clocks of a phase | `run`, the loop of a phase, `broadcast_*`, `add_player`, `decide_winner`, `begin_new_round`, `end_game` | rounds are given by the rules; scores follow the sides; every match ends; no round has an empty side |
| **World** `GameWorld`, `Player` (`game_world.cpp`, `player.cpp`) | players, sides, lives, positions, items on the ground | the commands of players, `update`, `restart_players`, `swap_teams`, `spawn_players` | lives, sides and equipment change together |
| **Bomb** (`bomb.cpp`, `weapon.cpp`) | status, time planted, a timer for plantation *and* defusal, its owner's pointer | `action`, `stop_action`, `update`, `update_planted`, `restart` | one bomb; carried by living terrorists; it plants and defuses only for who holds the key |
| **Arms** (`gun.cpp`, `ak47.cpp`, `awp.cpp`, `m3.cpp`, `knife.cpp`, `loadout.cpp`, `shop.cpp`, `item.cpp`) | money, guns, ammunition, triggers, dropped items | buy, equip, shoot, drop, pick up | nothing is duplicated or lost; ammunition is never wrapped |
| **Sessions** (`client_handler.cpp`, `client_sender.cpp`, `client_receiver.cpp`, `client_acceptor.cpp`, `server_monitor.cpp`) | a handler and a receiver thread per client, a thread per game, user names, games, a queue per sender | lobby requests, broadcast, end of a session, `reap`, `clear` | names are exclusive and freed; threads end before they are deleted; shutdown completes |
| **Commands** (`command.cpp`) | none | which command does what in which phase | nobody fights while buying |
| **Queues, threads** (`common/queue.h`, `thread.h`) | a bounded buffer, `closed`; two flags | push, pop, close; start, stop, join | nothing is lost before the close, everyone blocked is woken |
| **Sockets, protocols** (`common/socket.cpp`, `server_protocol.cpp`, `client_protocol.cpp`, `common_protocol.cpp`) | the streams of a connection | encode, decode, shut down | each end reads what the other wrote, whole messages in order |
| **Collisions and spawns** (`rect.cpp`, `shot.cpp`, part of `game_world.cpp`) | integer rectangles | `make_step_player`, `colliding_object_with`, spawn, shots | walls stop walkers; every round gets its players placed; shots meet something |
| **Client** (`src/client/`) | lobby, keys held, local copy of the match, two threads and their queues | requests, commands, screens followed from snapshots, leave | it plays in the game it was let in; the server hears starts and stops by turns; it always ends |
| **Editor** (`editor/logic_map.cpp`, `game_editor.cpp`) | a grid and what lies on it, the tool, presses not yet dropped | paint, erase, drag, resize, save, load | the window shows the map; nothing lies in walls; saving loses nothing that was loaded |
| Rendering, sound, Qt and SDL widgets, YAML, settings, installer | output, or read once | | not modelled |

### 1.2 How they interact

A *client* is served by a `ClientHandler` thread. In the lobby it answers requests
through the `ServerMonitor` (shared by all handlers, with a mutex that only *some* of
its operations take). Creating or joining a game makes the handler run that game's
`ClientSender` loop, popping what the game pushes, while a `ClientReceiver` thread
pushes the client's commands into the game's queue. The *game* thread pops commands,
updates the world and broadcasts a snapshot each frame to every sender it finds alive.
On the other side, a client's `ClientReceiver` thread queues the snapshots and its `ClientSender`
thread sends the commands, while the thread of the interface draws the screen of the phase,
turns events into commands and drains the snapshots.
The `ClientAcceptor` thread reaps dead handlers and games each time it accepts, and kills
and joins them all when the operator closes it.

### 1.3 What is hard here

* **Concurrency**: the maps of names, of games and of players are read and written by
  several threads, partly without the mutex; a sender is asked whether it is alive and
  pushed to afterwards; a queue is closed by more than one party.
* **Failure**: a connection may be lost at any step and between any two bytes; reads notice
  it before writes do, in different threads of the same handler.
* **Ordering and time**: two clocks run in a phase with a bomb, phases end by time or by
  events of the same frame, frames are skipped when the server is late.
* **Geometry in integers**: steps are snapped to one obstacle of several, positions are drawn
  until they are free, numbers are narrowed to bytes.
* **State that outlives its owner**: the bomb's timer and flags, a gun's trigger, a user
  name, a game whose players left, a key or a mouse button whose release another screen saw.

The complete list, line by line, is the `hazards` section of `PROJECT.json`, with the
properties that cover each one.

## 2. Modules

| Module | Models | Extends |
|---|---|---|
| `World` | what the world promises the match: sides, lives, fate of the bomb (abstract) | |
| `Match`, `MCMatch` | a game's thread, phases, rounds, scores, joins, stop | `World` |
| `BombWorld`, `MCBombWorld` | carriers, hands, keys, timers of the bomb; implements `World` | `World` by `INSTANCE` |
| `Sessions`, `MCSessions` | threads of the server, monitor, senders' queues, shutdown | |
| `Arsenal`, `MCArsenal` | guns: slots, hands, ground, ammunition, triggers | |
| `Field`, `MCField` | positions: walls, steps, spawns, what shots may meet | |
| `Channel` | what a connection promises: messages whole and in order (abstract) | |
| `Wire`, `MCWire` | the protocol byte by byte; implements two `Channel`s | `Channel` by `INSTANCE` |
| `Lobby`, `Controls`, `Client`, `MCClient` | the client: its windows, its keys, its screens and threads | `Client` extends the other two |
| `Editor`, `MCEditor` | the map editor's window and the map behind it | |
| `MatchProofs`, `BombWorldProofs`, `ArsenalProofs`, `SessionsProofs`, `FieldProofs`, `ClientProofs`, `EditorProofs`, `WireProofs` | theorems | the modules they prove about |

`World` is the contract between the two halves of a game: `Match` uses its operators
(`AddPlayer`, `Restart`, `Update`) as the world's steps, and `BombWorld`, which knows the
bomb in detail, is checked *and proved* to take only steps `World` allows
(`ImplementsWorld`). `Sessions` sees a game only as a thread that broadcasts frames and
then its end, and leaves out what is played. `Arsenal` and `Field` stand beside `BombWorld`: the same
world seen from its guns, and from where its players stand. `Wire` is the connection between a handler of
`Sessions` and a client of `Client`, each of which keeps of the other only the order of its messages.

### 2.1 World and Match

* State: one variable per field (the comments beside `VARIABLES` name them). `pc` is the place
  of the game thread between two steps another thread may observe: the test of a
  phase's loop (`loop`), the commands and the update (`execute`), the end of a phase (`end`,
  `begin`), the outer loop (`run`).
* Actions: `RunLoop` (top of `CS2DGame::run`), `BroadcastFrame`, `AbandonFrame` (the
  broadcast found nobody alive), `ExecuteWaiting`, `ExecuteFrame` (commands, update, reset
  of the clock by a plantation), `LeaveLoop`, `PhaseEnd` (one disjunct for each phase's `end`).
  Handlers join in three steps (`CheckJoin`, `EnterWorld`, `RegisterSender`), since the game
  thread takes no lock; `Disconnect` kills a sender, `StopGame` is `kill_games`.
* Abstractions: time is counted in frames, so the floating point sums of equal lapses are
  integers; `\E lapse \in 0..MaxLapse` stands for how late an iteration is. What players
  do in a frame is `World!Update`: anybody alive may die, the bomb may be planted or defused.

### 2.2 BombWorld

* State: who holds the pointer (`holders`), who has it equipped (`inHand`), who presses
  (`pressing`), who is defusing, who stands on a site, dropped bombs, and the fields of `Bomb`
  and `Weapon`.
* Actions: one per command (`Press`, `Release`, `EquipBomb`, `EquipGun`, `PickUpBomb`,
  `StartDefuse`, `StopDefuse`), with the guards of `with_player` and of the phase; `UpdateFrame` is
  the whole of `GameWorld::update`: bomb first, then each player's turn, deaths in between;
  `NewRound` is `begin_new_round`; `NextPhase` the rest of a match.
* Abstractions: positions (a player who can move may be on or off a site after each frame), the
  other weapons (anybody may die in a frame). A timer saturates at the largest threshold.

### 2.3 Sessions

* State: the place of each thread (`hpc`, `gpc`, `apc`, `receiver`), the connection, the
  names and games of the monitor, and each sender's queue, its `closed` flag and its `keep_running`.
* Actions: each is one step another thread may interleave with: for instance
  `broadcast_game_dto` is `BeginBroadcast`, then `CheckSender` and `PushToSender` for each member, then
  `EndBroadcast`; `ClientSender::game_ended` is `CloseQueue` then `ClearFlag`; `manage_create_game` is
  `CreateGame` then `StartGame`. Operations under the monitor's mutex wait for
  `MonitorIsFree`; those that do not take it do not.
* Losses: a client that goes is `leaving` until the network has refused what was sent to it, then
  `closed`. Reads end in both states, writes only in the second, so the receiver and the sender of a
  handler learn of it at different times. An error of the system is no other case:
  `common_protocol.cpp:75` and its like turn it into `CommunicationEnded`.
* Abstractions: a connection is one client (who reconnects is another client); refused joins change
  nothing and are left out; a lobby response that fails is merged with the next request, which
  fails too; `reap` is one step (nothing it does depends on what may come in between, except
  the state of games, which it reads once); a queue keeps `MaxBacklog` frames, later ones are
  dropped, since only their number is lost. `KillHandler`'s test of `is_dead` and its effects are
  one step, while the handler's own `kill` is two, so that the acceptor may still overtake it.

### 2.4 Arsenal

* State: a gun is an identity. `primary` and `secondary` are the slots of each `Loadout`, `ground` the
  guns of the `DroppedGun` items, `equipped` the enumeration of `Loadout`; `ammo` and `pulled` belong to
  the gun, not to its owner, as in the code. `pulled` holds the one flag each kind's `can_shoot`
  reads: `making_action` for an AK-47, which lasts until `stop_action`, and `just_triggered_action` for
  the others, which lasts until the gun's next update. `turns` are the players `GameWorld::update` has
  still to visit.
* Actions: the commands (`Press`, `Release`, `Equip`, `BuyGun`, `BuyClip`, `PickUp`) run between updates; a
  frame is `BeginFrame` (the explosion) and then each player's `Turn`, in any order, which
  shoots, idles, stabs, handles the bomb or defuses; whoever is killed drops there and then, and its own
  turn, if it is still to come, does nothing (`SkipDead`). `NewRound` is `begin_new_round` with or without
  half time.
* `Kill` is `drop_weapons`: the primary gun falls, and `Loadout::reset` destroys the secondary one and
  makes a new glock, another identity (`Renewals`). A restart destroys the guns on the ground; at half time
  all loadouts are reset likewise, and the new glocks take any unused identities.
* The server sells every gun that has a price, the glock too, into the primary slot (`Shop::buy_gun`); only
  the shop of the client does not offer it. `BuyGun` is what the server does.
* Abstractions: any gun on the ground may be within reach and be the oldest there, any shot may
  hit anybody and kill or not, a triggered gun may not be ready yet. Money is left out: who cannot pay
  does not take the step. Anybody may be defusing during a fight; who presses the key of the action
  is left to `BombWorld`. The map's own guns are bounded to one of each kind in `MapGuns`, clips to
  `MaxAmmo`, and all guns to the pool `Guns`: a purchase leaves a glock in it for the next death.

### 2.5 Field

* State: side, life, position and directions of each player, and what the game thread is doing to
  whom: placing the players of a round one by one (`spawning`) or moving them (`moving`).
* Actions: `BeginRound` with or without half time, one `Spawn` per draw of a position, commands between
  frames, `Update` (the frames skipped, the explosion), and each player's turn: `SkipDead`,
  `StandStill` (plants or defuses), `Walk`. `MakeStep` is `make_step_player`: first along x, then along y,
  each time snapped to the *first* of the list it meets - blocks, the four invisible walls, then
  players in the order they joined: `Collidables` is that list, `Solid` what of it stops
  a player, `FirstOf` the first that does. `ShootAtNothing` is the exception of `Shot::shoot`.
* Abstractions: positions are the code's integers in a unit of the instance. Shots leave along the four axes
  only; who is hit is any set of players. A late joiner, who stands at (-100, -100) until
  the next round, is the state before the first one.

### 2.6 Wire

* State: the two streams of a connection as sequences of bytes, the progress of both ends, and the
  histories of what was sent and received.
* Actions: `Write...` and `Read...` are the functions of the two protocol classes, with the widths they
  narrow to; `SendRequest`, `HandleRequest`, `ReceiveAnswer` are the lobby, where the client waits for each
  answer; `SendCommand` and `SendGameMessage` run both ways at once; `LoseLink` cuts each stream
  after any byte.
* Refinement: the histories implement a `Channel` in each direction. `Arriving` names what the code
  changes on the way: angles become 16-bit codes, the seconds left keep eight bits, positions sixteen
  without a sign.
* `AllRequests`, `AllCommands`, `Answers` and `AllGameMessages` are the dto's, with the widths of their
  fields and the lengths of their lists; the constants are any subsets of them, `MCWire` chooses some.
* Abstractions: a string is its bytes; the negative-to-unsigned cast of an angle, which the
  language leaves undefined, wraps as in the shipped build.

### 2.7 Client

* `Lobby`: the pages of the Qt window, the name and code it keeps, one request and its answer. The server is
  external here: of a `ClientHandler` only its memory of this client is kept.
* `Controls`: `InputHandler`. Inputs are held (`down`) whoever looks at them; `flags` are what the handler
  remembers; every screen hears other inputs. Commands go to the sender's queue.
* `Client`: the thread of the interface (`pc`), its screen, `local_info` reduced to the phase and whether
  time is left (`known`), the receiver's and the sender's threads, and `GameUI`'s destructor step by
  step. `Follows` is the order in which `Match` broadcasts. A client may be registered late
  (`Registered`): `add_player` takes no lock, and `Match` has the same late joiner, who enters after the
  waiting phase has ended. Such a client gets the snapshots of the rounds but never the initial info, which
  is broadcast once; `inTime` tells the two cases apart. Without it an open shop cannot be drawn
  (`Draws`). An update of a frame is one step, since
  only the interface takes from the inbox. Exceptions that leave `run` set `unwound`; closing a closed queue
  in the destructor ends in `aborted`. `update_buy`'s uninitialised flag is a choice
  (`Uninitialised`).

### 2.8 Editor

* State: `LogicMap` (grid and marks), the tool, the two pending presses (`left`, `right`), the mouse, the
  page, the labels of the window, and the map in the folder.
* Actions: `PressCell`, `Drop`, `DoubleClick`, `Release`, the tools, `AddColumns`/`AddRows`, `Save` (with the
  crop), `Load`, and the pages. Writing a block out of the grid, which a stale press allows after
  another map was loaded, either does nothing or stops the program (`gone`). What is held is a button, the
  cell it was pressed on and the number of clicks: a drag may also begin with the second press of a double
  click, which `DoubleClick` has forgotten but `ClickableLabel` has not. `IsSaved` is what
  `Save` makes sure of in a file: its sizes, its blocks inside them and on their borders, at most one gun
  in a cell (`LogicMap` keeps them in a map by cell).
* Abstractions: backgrounds, pictures and the text of YAML are left out.

## 3. Runs

| Run | Instance | Shows |
|---|---|---|
| `match_safety` | 4 players, 2+1 seats (one player finds the game full, and half time moves sides of unequal size), 2 rounds, phases of 1-2 frames, lapses to 2; players symmetric | types, scores, wins through half time, clocks, both sides manned, verdicts |
| `match_liveness` | 2 players, 1+1 seats, 2 rounds | a match ends; an abandoned one too |
| `bomb` | 3 players on any sides, timers of 2, 2 and 3 frames, lapses to 2 | one bomb, sound carriers, authors of defusals, refinement of `World` |
| `arsenal` | 2 players, 4 glocks, 2 AK-47 (one on the map) with a burst and a bullet; players and guns of a kind symmetric | no gun doubled, none but the glocks of the dead lost within a round, full hands, disarmed dead, no wrapped ammunition |
| `sessions` | 2 clients, 2 names both may take, 2 games; symmetric | names, lifetimes |
| `sessions_liveness` | 2 clients, own names, 1 game | who leaves is let go; shutdown completes |
| `sessions_dead_games` | the same | **violation**: a game dies under a connected player |
| `field` | 2x2 cells of 4 with a block, bodies of 3, steps of 2, 2 players | who walks alone is stopped by walls; rounds get placed |
| `field_shots` | the same | **violation**: a shot meets nothing |
| `wire` | 4 messages of every kind with values at the ends of their fields | each end reads what the other wrote; angles survive |
| `client` | 2 names, 1 game, a key of each kind, 1 new press, queues of 2 | plays in its game, sound screens, alternating presses, always ends |
| `editor` | 2x2 cells that grow by 1, a wall, a floor and every mark, 2 changes | nothing in walls, window and map agree, saving is stable, left drags paint |

Why the bounds are enough. Two rounds contain a half time (`round = Rounds/2 + 1`), a
restart before and after it, and the last round. Four players on 2+1 seats allow a
full game with a player left out, a forced one, and a late join, and the half time exchanges sides of
unequal size; the shipped configuration (`settings.yaml`, 2+2) has four times the states and the theorems
about `Match` hold for every number of seats.
Durations of one or two frames with lapses up to two let every clock run exactly out, past its
end, or be cut short. Three players give a side with two players whichever way the sides are
assigned, hence two carriers one after the other, two defusers, and an empty side.
Two AK-47, one of which lies on the map, let one be taken up while another is held, which is what an
exchange needs, and 4 bullets leave one that must not be fired. Four glocks are those of the two players and
two more: one bought into a primary slot, from where it falls or is exchanged, and one for a
death; an explosion that kills both takes the two.
Two clients are the least in which one's loss can harm another, two games let one end while a client
enters the other.
On the field, a block in the corner leaves a passage of one cell between it, the invisible walls and
the other player: the least in which a step meets two obstacles. Each side has two spawns that no body covers together;
with two neighbouring ones `SpawningEnds` is false, as it is in the code (3.1).
`FieldAssumption` has the two lengths on which walls rely: a late frame's step is no longer than
a block (`MaxLapse * Speed <= Block`), a body no wider. Shipped values (steps of 20, blocks of 400) are within
it unless the server is late by twenty frames.
Four messages reach a game and one message each way after it. One new press, with releases and repetitions
free, already crosses screens; two commands and two messages fill the queues that the order of
things depends on. Two changes of a map cover a mark painted over by a wall and back, a growth and a
change, and a press left over from a click.
Every named bound (`MaxLapse`, `MaxBacklog`, `Guns`, `MaxAmmo`, `Holdable`, `Margin`, `MaxMessages`,
`MaxCommands`, `MaxEvents`, `MaxInbox`, `MaxEdits`) is a constant.

Deadlock is checked in `Match`, `BombWorld`, `Arsenal` and `Field`. It is not where the system really
stops: a server whose acceptor is done, a client that has ended, a connection with nothing left to
read, an editor that is gone or whose changes are used up.

### 3.1 What the violation runs found, and other deviations

| Run | Where | What |
|---|---|---|
| `sessions_dead_games` | `server/cs2d_game.cpp:63` | a sender that closes between `is_alive` and `try_push` kills the game thread under the others |
| `field_shots` | `server/game_world.cpp:429` | a step is snapped to the first obstacle of the list: between a wall and a player one is left inside the other, the next step leaves the map, and a shot from there ends the game thread |

While modelling, the same models showed other behaviours that the code's comments, tests or README do
not promise or promise otherwise. They are states of the models, so that the passing properties hold
in their presence, but no run is devoted to them (README.md is the repository's):

| Where | What | In |
|---|---|---|
| `server/game_phase.cpp:41` | a game filled or forced in the frame in which the waiting time runs out is ended, with its players in it (README.md:102: once all are connected, the match begins) | `Match` |
| `server/bomb.cpp:77` | `restart` leaves `just_been_planted` set: the next attack phase never times out (README.md:102: all rounds are always played) | `Match` |
| `server/cs2d_game.cpp:55`, `client/game_ui.cpp:277` | a player registered after the initial info was broadcast never gets it: `update_waiting` leaves by the phase alone (`game_ui.h:51` says that it waits for the map), the rounds have no map, and an open shop throws | `Match`, `Client` |
| `server/loadout.cpp:103` | the secondary gun of the dead is destroyed, where README.md:125 says that all the equipment but the knife falls | `Arsenal` |
| `server/game_world.cpp:366`, `bomb.cpp:66` | a dropped bomb keeps its running timer; a dead defuser goes on defusing | `BombWorld` |
| `server/game_world.cpp:332`, `ak47.cpp:17` | an AK-47 exchanged or dropped while it fires keeps its trigger, past the end of the round | `Arsenal` |
| `server/client_sender.cpp:30` | a second `close` throws past `kill()`: the user name is never freed (README.md:139 says that it is) | `Sessions` |
| `server/client_handler.cpp:83` | a game that has not started yet is reaped as a dead one | `Sessions` |
| `server/game_world.cpp:183` | a body astride two spawns keeps the draw of positions from ending; the check at load time (`:67`) only counts spawns | `Field` |
| `client/game_ui.cpp:354` | a `GameEnded` met by the attack or buy screen is a `bad_variant_access`, without statistics (README.md:137) | `Client` |
| `client/client_sender.cpp:27`, `game_ui.cpp:476` | a second `close` of the queue throws out of the destructor | `Client` |
| `client/game_ui.cpp:306` | the buy screen may leave, or not, by an uninitialised flag | `Client` |
| `server/game_world.cpp:99` | who joins a running match stands at (-100, -100), which arrives as (65436, 65436) | `Wire` |
| `client/client_protocol.cpp:354` | the number of kinds of blocks is sent in two bytes and read into one: 256 kinds would arrive as none (kept out by `Inits`) | `Wire` |
| `editor/game_editor.cpp:236` | after a left click that was not dropped, a right drag paints instead of erasing (README.md:188) | `Editor` |
| `editor/game_editor.cpp:240`, `:251` | with a right press pending, a left drag that begins with the second press of a double click erases (README.md:186) | `Editor` |
| `editor/logic_map.cpp:90` | the terrorists' spawns are saved moved by the horizontal offset on both axes | `Editor` |
| `editor/logic_map.cpp:105`, `:153` | a map without blocks is saved with a negative size; rows grow unequally | `Editor` |

The passing properties that meet these behaviours say so: `MatchCompletes` excludes a stale
flag for ever, `LeaversLeave` and `ShutdownCompletes` except a handler `Stranded` on the queue of a
dead game, `WallsStopWalkers` speaks of who has nobody in reach, `ClientEnds` counts an abort as an end,
`NothingInsideWalls` leaves out the terrorists' spawns, `ScreensAreSound` asks for the map only of a client registered
in time, `LeftDragsPaint` speaks of drags begun by a single press, and `GunsSurvive` counts the
secondary guns of the dead as destroyed. `JustVerdict` excepts a player who joined late (a game may
begin between `CheckJoin` and `EnterWorld`) and a stopped server.

### 3.2 Fairness

`Match` assumes weak fairness of the game thread: it is an operating-system thread that never
blocks (`try_pop`, `try_push`, `sleep_for`). `Sessions` assumes it of each handler's own steps,
each receiver's end, each game thread and the acceptor's shutdown, and that the network refuses in the end what
is sent to a client that left. `Client` assumes it of the interface's own
steps (`SDL_PollEvent` runs out of events, the statistics of time), the receiver and the sender.
`Field` assumes that the die is fair: of the positions drawn again and again, a free one comes out.
Clients, players, the network and the operator are never assumed to do anything else. `BombWorld`, `Arsenal`,
`Wire` and `Editor` have only safety properties.

## 4. Proofs

The theorems hold for every number of players, clients, games, rounds and guns, every map, key and
duration, from named assumptions on the constants:

* `WorldAssumption`, `MatchAssumption`, `BombAssumption`: positive timers, naturals otherwise, `NoOne` not a player.
* `ArsenalAssumption`: each gun has a kind, each kind natural amounts of ammunition; neither the pool of
  guns nor the players need be finite.
* `SessionsAssumption`, `LobbyAssumption`, `ClientAssumption`: what stands for nothing is no name, game or client;
  queues hold something. `ControlsAssumption` adds that no item of the shop is a key, which
  are different enumerations in the code.
* `FieldAssumption`: sizes are positive, a body is not larger than a block, there is a player, and the
  step of a frame, however late (`MaxLapse`), is not longer than a block. The shipped settings satisfy it
  for iterations up to the lateness it names; what happens beyond it is not claimed.
* `EditorAssumption` and `MapsAssumption`: the maps already in the folder are maps the editor could have
  saved (`IsSaved`), with at most one gun in a cell, and no gun has the name of a spawn or a site, which are
  kept apart in the code. The shipped `dust2` and `playground` are.
* `WireAssumption`: what is sent fits the widths it is sent with, except positions, angles and the seconds left,
  which may be any number. Rounds, wins, kills and deaths stay below 256, lists below 65536, the kinds of blocks of a map
  below 256 (see 3.1), angles within 180 degrees (they come from an arc tangent).

| Theorem | Property | Inductive invariant |
|---|---|---|
| `MatchProofs!TypeCorrect` | `TypeOK` | `TypeOK` |
| `MatchProofs!ScoreCorrect` | `ScoreMatchesRounds` | `ScoreInv` adds where in its life a phase may be at each `pc` |
| `MatchProofs!WinsCorrect` | `WinsFollowPlayers` | `WinsInv`: before the first round all scores are zero and nobody is on the roster |
| `MatchProofs!ClocksCorrect` | `BombClocksAgree` | `ClockInv`: a bomb that is not planted has no age, the attack phase begins without a planted bomb |
| `MatchProofs!VerdictsAreJust` | `JustVerdict` | `VerdictInv`: at the end of an attack phase somebody has won or time ran out with nothing planted; needs `ClockInv` to exclude a time out under a ticking bomb |
| `MatchProofs!SidesAreManned` | `BothSidesManned` | `SidesInv`: both sides are manned, or the waiting phase has its creator alone; a forced start and the places after a loop of the waiting phase take two senders, who cannot both be counter terrorists |
| `BombWorldProofs!TypeCorrect` | `TypeOK` | with `BombInv`, since counting dropped bombs needs the carriers to be finite |
| `BombWorldProofs!OneBombAlways` | `OneBomb` | `BombInv` = sides, sound carriers, and carried, on the ground or gone; `OneBomb` alone is not inductive |
| `BombWorldProofs!CarriersSound` | `CarriersAreSound` | `BombInv` |
| `BombWorldProofs!DefusalsHaveAuthors` | `DefusalHasAuthor` | `DefuserInv` adds that only counter terrorists defuse |
| `BombWorldProofs!DefusalsFreeEveryone` | `DefusalFreesEveryone` | `DefuserInv` |
| `BombWorldProofs!WorldIsImplemented` | `ImplementsWorld` | `BombInv` and `PlantInv` (the timer runs only while fighting) |
| `ArsenalProofs!TypeCorrect` | `TypeOK` | `ArsenalInv` = the four invariants and `TriggersExist` (no trigger of a gun that is nowhere) together: a gun's fall is a type-correct set of guns only if hands and slots are sound, and a new gun is at rest only if it kept no trigger |
| `ArsenalProofs!PlacesCorrect` | `OnePlaceEach` | `ArsenalInv` |
| `ArsenalProofs!HandsCorrect` | `HandsAreFull` | `ArsenalInv` |
| `ArsenalProofs!DeadCorrect` | `DeadAreDisarmed` | `ArsenalInv` |
| `ArsenalProofs!GunsAreNotLost` | `GunsSurvive` | `ArsenalInv`; every step but a restart is `Gentle`, which names what it may do to guns and ammunition, and what a death destroys |
| `ArsenalProofs!AmmoCorrect` | `AmmoIsOnlySpent` | `ArsenalInv` and `Gentle`; `SpendSaves` says that 16-bit subtraction does not wrap when a burst is there |
| `SessionsProofs!TypeCorrect` | `TypeOK` | `TypeInv` = `TypeOK` and `AcceptorInv`, what the acceptor has at hand at each of its places |
| `SessionsProofs!NamesHeld` | `NamesAreHeld` | `NamesInv`: also a handler in the middle of renaming holds the name it wants, and nobody else does; the monitor's set alone does not say whose a name is |
| `SessionsProofs!LifetimesCorrect` | `NothingOutlivesItsHandler` | `ReceiverInv`: a receiver runs only inside its handler's game |
| `FieldProofs!TypeCorrect` | `TypeOK` | `TypeOK` |
| `FieldProofs!WalkersCorrect` | `WallsStopWalkers` | `TypeOK`, with the geometry: walls begin and end where cells do and a step is not longer than a block, so the first object met is as near as any |
| `ClientProofs!TypeCorrect` | `TypeOK` | `ScreensInv` |
| `ClientProofs!ScreensCorrect` | `ScreensAreSound` | `ScreensInv`: the messages on their way follow the server's order (`SentInOrder`), the map comes before what needs it (`MapComes`), or never to who is late (`NoMapComes`, `NothingBefore`), the shop is shut outside its screen (`ShopIsShut`) |
| `ClientProofs!GamesCorrect` | `PlaysInItsGame` | `GamesInv`: the window and the server agree between requests (`Agreed`), and an answer on its way is to what was asked (`Asked`) |
| `ClientProofs!PressesCorrect` | `PressesAlternate` | `PressesInv`: the last command sent of each input says its flag (`LastIsFlag`) |
| `EditorProofs!WallsAreEmpty` | `NothingInsideWalls` | `EditorInv` = presses that began on the map (`PressInv`), a well formed grid with nothing marked in walls (`MapInv`), labels, and `FreshInv` |
| `EditorProofs!WindowCorrect` | `ShownIsTheMap` | `EditorInv` |
| `EditorProofs!SavingCorrect` | `SavingIsIdempotent` | `FreshInv`: right after a save or a load the grid is the file's; a saved map is cropped, so cropping it again changes nothing |
| `EditorProofs!DragsCorrect` | `LeftDragsPaint` | `EditorInv`: a left button held after a single press began where the drag says it did (`PressInv`) |
| `WireProofs!RequestsAndCommandsArrive` | `ServerReadsWhatIsWritten` | `WireInv`: the bytes on their way are those of the messages not yet received, up to a cut (`Carries`), and an end is only sent what it expects where it is (`ServerExpects`, `ClientExpects`) |
| `WireProofs!AnswersAndGameMessagesArrive` | `ClientReadsWhatIsWritten` | `WireInv`; a client that asks has its request unanswered, or an answer that keeps it out, or one that lets it in with game messages behind it |
| `WireProofs!AnglesArrive` | `AngleSurvives` | `WireInv`, with the arithmetic of the code of an angle |

Each proof has a lemma for `Init`, one for `Next` with a step per action, and *Kept* lemmas for
the steps that leave the relevant variables alone.

`WireProofs` first proves of every `Write...` and `Read...` that one undoes the other on any stream that
begins like what was written, and falls short on any that ends before it (`Gets`), field by field (`Got`),
then element by element of a list. `ReadMany` and `FlattenSeq` are recursive functions; that they exist is
proved by a least counterexample, since the library's induction takes an operator.

What is only model-checked:

* every liveness property (`MatchCompletes`, `AbandonedMatchEnds`, `LeaversLeave`, `ShutdownCompletes`,
  `SpawningEnds`, `ClientEnds`): the prover does not reason about fairness or `ENABLED`;
* the two properties that runs refute, of which there is nothing to prove.

## 5. Plan

Done: every component with state has a module, every safety property of a passing run has a theorem.
`World`'s contract is proved of `BombWorld`, `Channel`'s of both directions of `Wire`.

Left, most valuable first:

1. `Match` and `BombWorld` share `World`, but that `Match`'s world steps are `World`'s is by construction only
   (`Match` uses its operators). A composition in which the frames of `Match` drive `BombWorld` would state the
   clocks of both at once; its product is too large for TLC with three players.
2. Money: the 16-bit sum of `Loadout::add_money` has no upper bound (the one hazard without a property).
   It needs the bonuses and prices, which `Match` and `Arsenal` leave out.
3. The parser of maps and settings (`yaml_parser.cpp`), as far as it decides what is refused.

## 6. Not modelled

Money, kills, bonuses and amounts of damage (deaths may happen in any frame); the spread and range of shots;
rendering, sound, Qt and SDL input; the text of YAML, settings (their values are the constants); the
resolver, partial reads and writes of a socket, the installer and the assets. Full queues: every queue of
the program has the limit of its type. A map file that cannot be loaded ends the handler that chose it by
an exception. Data races on the C++ level are modelled as interleavings of whole operations on the
shared maps, not as torn reads.
