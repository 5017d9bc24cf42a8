------------------------------ MODULE Sessions ------------------------------
(***************************************************************************)
(* The threads of the server and what they share: the acceptor, a handler  *)
(* and a receiver per client, a thread per game, the monitor's registry of *)
(* user names and map of games, and the queue of each ClientSender.        *)
(*                                                                         *)
(* What a game plays is left to Match: here it broadcasts frames until it  *)
(* broadcasts its end.  A client is one connection: whoever comes back is  *)
(* another client, maybe with a name used before.  Only create_username,   *)
(* create_new_game and join_game take the monitor's mutex.                 *)
(***************************************************************************)
EXTENDS Naturals, FiniteSets, Sequences

CONSTANTS Clients, Names, Games,
          None,        \* no name, no game, no client
          Wishes,      \* the names each client may ask for
          MaxBacklog   \* bound: frames a queue keeps; later ones are skipped

ASSUME SessionsAssumption ==
    /\ None \notin Clients \cup Names \cup Games
    /\ Wishes \in [Clients -> SUBSET Names]
    /\ MaxBacklog \in Nat \ {0}

VARIABLES
    conn,       \* "none", "up", "leaving" (the client went) or "closed"
    hpc,        \* where the handler's thread is
    name,       \* ClientHandler::username
    wanted,     \* the name create_username has just registered
    game,       \* ClientHandler::my_game
    isDead,     \* ClientHandler::is_dead
    receiver,   \* its ClientReceiver: "off", "on" or "done"
    queue,      \* ClientSender::queue
    qclosed,    \* it is closed
    sending,    \* ClientSender::keep_running, what is_alive answers
    names,      \* ServerMonitor::players
    games,      \* ServerMonitor::games
    gpc,        \* where the game's thread is
    members,    \* clients whose sender is in players_senders
    todo,       \* members this broadcast has not reached
    target,     \* member found alive, to be pushed to
    anyAlive,   \* broadcast_game_dto: any_alive
    dto,        \* what is broadcast
    commandsClosed,  \* CS2DGame::command_queue is closed
    apc,        \* where the acceptor is
    listed,     \* ClientAcceptor::clients
    incoming,   \* the client just accepted
    victim      \* the handler being killed, or the game being stopped

handlerVars == <<hpc, name, wanted, game, isDead>>
senderVars == <<queue, qclosed, sending>>
monitorVars == <<names, games>>
castVars == <<todo, target, anyAlive, dto>>
gameVars == <<gpc, members, castVars, commandsClosed>>
acceptorVars == <<apc, listed, incoming, victim>>
vars == <<conn, handlerVars, receiver, senderVars, monitorVars, gameVars,
          acceptorVars>>

Started(c) == hpc[c] \notin {"none", "dead"}
GameIsAlive(g) == gpc[g] \in {"frame", "cast", "ending"}
MonitorIsFree == \A c \in Clients : hpc[c] # "joining"

Init ==
    /\ conn = [c \in Clients |-> "none"] /\ hpc = [c \in Clients |-> "none"]
    /\ name = [c \in Clients |-> None] /\ wanted = [c \in Clients |-> None]
    /\ game = [c \in Clients |-> None] /\ isDead = [c \in Clients |-> FALSE]
    /\ receiver = [c \in Clients |-> "off"]
    /\ queue = [c \in Clients |-> <<>>]
    /\ qclosed = [c \in Clients |-> FALSE] /\ sending = [c \in Clients |-> TRUE]
    /\ names = {} /\ games = {}
    /\ gpc = [g \in Games |-> "none"] /\ members = [g \in Games |-> {}]
    /\ todo = [g \in Games |-> {}] /\ target = [g \in Games |-> None]
    /\ anyAlive = [g \in Games |-> FALSE] /\ dto = [g \in Games |-> "frame"]
    /\ commandsClosed = [g \in Games |-> FALSE]
    /\ apc = "accept" /\ listed = {} /\ incoming = None /\ victim = None

-----------------------------------------------------------------------------
(***************************************************************************)
(* The network.  When the client goes, a read meets the end of the stream; *)
(* what is sent is still accepted until the peer's refusal has come back.  *)
(* Whatever the socket reports, also an error of the system, the protocol  *)
(* turns into CommunicationEnded.                                          *)
(***************************************************************************)
Disconnect(c) ==
    /\ conn[c] = "up"
    /\ conn' = [conn EXCEPT ![c] = "leaving"]
    /\ UNCHANGED <<handlerVars, receiver, senderVars, monitorVars, gameVars,
                   acceptorVars>>

Refuse(c) ==
    /\ conn[c] = "leaving"
    /\ conn' = [conn EXCEPT ![c] = "closed"]
    /\ UNCHANGED <<handlerVars, receiver, senderVars, monitorVars, gameVars,
                   acceptorVars>>

\* Mutant: a short read is taken for a whole one.
ReadsGoOn(c) == FALSE

ReadEnds(c) == conn[c] \in {"leaving", "closed"}
WriteEnds(c) == conn[c] = "closed"

(***************************************************************************)
(* ClientHandler: the lobby.  A response that fails and the next request   *)
(* that fails lead to the same state, except after joining a game (enter). *)
(***************************************************************************)
Goes(c, pc) == hpc' = [hpc EXCEPT ![c] = pc]

\* Mutants: a name in use, or the empty one, is given away.
NameIsNotEmpty(n) == n # None
NameIsNotTaken(n) == n \notin names

\* ServerMonitor::create_username: insert says whether the name was new.
NameIsFree(n) == NameIsNotEmpty(n) /\ NameIsNotTaken(n)

CreateUsername(c, n) ==
    /\ hpc[c] = "lobby" /\ conn[c] = "up" /\ MonitorIsFree
    /\ NameIsFree(n)
    /\ names' = names \cup {n}
    /\ wanted' = [wanted EXCEPT ![c] = n]
    /\ Goes(c, "rename")
    /\ UNCHANGED <<conn, name, game, isDead, receiver, senderVars, games,
                   gameVars, acceptorVars>>

\* The old name is erased, without the mutex, and the new one taken.
TakeName(c) ==
    /\ hpc[c] = "rename"
    /\ names' = names \ {name[c]}
    /\ name' = [name EXCEPT ![c] = wanted[c]]
    /\ wanted' = [wanted EXCEPT ![c] = None]
    /\ Goes(c, "lobby")
    /\ UNCHANGED <<conn, game, isDead, receiver, senderVars, games, gameVars,
                   acceptorVars>>

\* create_new_game: the game is in the map before its thread is started.
CreateGame(c, g) ==
    /\ hpc[c] = "lobby" /\ conn[c] = "up" /\ name[c] # None /\ MonitorIsFree
    /\ gpc[g] = "none"
    /\ gpc' = [gpc EXCEPT ![g] = "created"]
    /\ members' = [members EXCEPT ![g] = {c}]
    /\ games' = games \cup {g}
    /\ game' = [game EXCEPT ![c] = g]
    /\ Goes(c, "starting")
    /\ UNCHANGED <<conn, name, wanted, isDead, receiver, senderVars, names,
                   castVars, commandsClosed, acceptorVars>>

StartGame(c) ==
    /\ hpc[c] = "starting"
    /\ gpc' = [gpc EXCEPT ![game[c]] = "frame"]
    /\ Goes(c, "enter")
    /\ UNCHANGED <<conn, name, wanted, game, isDead, receiver, senderVars,
                   monitorVars, members, castVars, commandsClosed, acceptorVars>>

\* join_game, first half: the mutex is kept until the player is added.  The
\* refusals (started, full, name already inside, dead, unknown) change nothing.
JoinGame(c, g) ==
    /\ hpc[c] = "lobby" /\ conn[c] = "up" /\ name[c] # None /\ MonitorIsFree
    /\ g \in games /\ GameIsAlive(g)
    /\ \A m \in members[g] : name[m] # name[c]
    /\ game' = [game EXCEPT ![c] = g]
    /\ Goes(c, "joining")
    /\ UNCHANGED <<conn, name, wanted, isDead, receiver, senderVars, monitorVars,
                   gameVars, acceptorVars>>

\* A broadcast under way may or may not reach the sender that is inserted.
AddPlayer(c) ==
    LET g == game[c]
    IN  /\ hpc[c] = "joining"
        /\ members' = [members EXCEPT ![g] = @ \cup {c}]
        /\ todo' \in {todo} \cup IF gpc[g] = "cast"
                                 THEN {[todo EXCEPT ![g] = @ \cup {c}]} ELSE {}
        /\ Goes(c, "enter")
        /\ UNCHANGED <<conn, name, wanted, game, isDead, receiver, senderVars,
                       monitorVars, gpc, target, anyAlive, dto, commandsClosed,
                       acceptorVars>>

\* The response is sent and the receiver started, or the sender stays behind.
EnterGame(c) ==
    /\ hpc[c] = "enter"
    /\ IF WriteEnds(c)
       THEN Goes(c, "kill") /\ UNCHANGED receiver
       ELSE Goes(c, "pop") /\ receiver' = [receiver EXCEPT ![c] = "on"]
    /\ UNCHANGED <<conn, name, wanted, game, isDead, senderVars, monitorVars,
                   gameVars, acceptorVars>>

LeaveLobby(c) ==
    /\ hpc[c] = "lobby" /\ ReadEnds(c)
    /\ Goes(c, "kill")
    /\ UNCHANGED <<conn, name, wanted, game, isDead, receiver, senderVars,
                   monitorVars, gameVars, acceptorVars>>

-----------------------------------------------------------------------------
(***************************************************************************)
(* ClientHandler in a game: ClientSender::run on the handler's own thread. *)
(***************************************************************************)
Pop(c) ==
    /\ hpc[c] = "pop" /\ queue[c] # <<>>
    /\ queue' = [queue EXCEPT ![c] = Tail(@)]
    /\ IF Head(queue[c]) = "frame"
       THEN Goes(c, "send") /\ UNCHANGED <<qclosed, sending>>
       ELSE /\ Goes(c, "sendEnd")
            /\ qclosed' = [qclosed EXCEPT ![c] = TRUE]
            /\ sending' = [sending EXCEPT ![c] = FALSE]
    /\ UNCHANGED <<conn, name, wanted, game, isDead, receiver, monitorVars,
                   gameVars, acceptorVars>>

SendFrame(c) ==
    /\ hpc[c] = "send"
    /\ Goes(c, IF WriteEnds(c) THEN "close" ELSE "pop")
    /\ UNCHANGED <<conn, name, wanted, game, isDead, receiver, senderVars,
                   monitorVars, gameVars, acceptorVars>>

\* game_ended closes the queue before it clears the flag.  Nobody pops what
\* is left in a closed queue: it is forgotten.
CloseQueue(c) ==
    /\ hpc[c] = "close"
    /\ qclosed' = [qclosed EXCEPT ![c] = TRUE]
    /\ queue' = [queue EXCEPT ![c] = <<>>]
    /\ Goes(c, "clearFlag")
    /\ UNCHANGED <<conn, name, wanted, game, isDead, receiver, sending,
                   monitorVars, gameVars, acceptorVars>>

ClearFlag(c) ==
    /\ hpc[c] = "clearFlag"
    /\ sending' = [sending EXCEPT ![c] = FALSE]
    /\ Goes(c, "joinReceiver")
    /\ UNCHANGED <<conn, name, wanted, game, isDead, receiver, queue, qclosed,
                   monitorVars, gameVars, acceptorVars>>

\* A failure here calls game_ended again: closing a closed queue is an error
\* of its own (runtime_error), which nobody catches either.
SendEnd(c) ==
    /\ hpc[c] = "sendEnd"
    /\ Goes(c, IF WriteEnds(c) THEN "unwind" ELSE "joinReceiver")
    /\ UNCHANGED <<conn, name, wanted, game, isDead, receiver, senderVars,
                   monitorVars, gameVars, acceptorVars>>

\* Mutant: the receiver is left to itself.
DoNotWait(c) == TRUE

\* ~ClientReceiver joins its thread, on the way out or while unwinding.
ReceiverIsOver(c) == receiver[c] = "done"

JoinReceiver(c) ==
    /\ hpc[c] \in {"joinReceiver", "unwind"} /\ ReceiverIsOver(c)
    /\ Goes(c, IF hpc[c] = "joinReceiver" THEN "kill" ELSE "dead")
    /\ UNCHANGED <<conn, name, wanted, game, isDead, receiver, senderVars,
                   monitorVars, gameVars, acceptorVars>>

\* kill: is_dead is tested, then the rest is done, with no lock in between.
Kill(c) ==
    /\ hpc[c] = "kill"
    /\ Goes(c, IF isDead[c] THEN "dead" ELSE "delete")
    /\ UNCHANGED <<conn, name, wanted, game, isDead, receiver, senderVars,
                   monitorVars, gameVars, acceptorVars>>

DeleteUsername(c) ==
    /\ hpc[c] = "delete"
    /\ conn' = [conn EXCEPT ![c] = "closed"]
    /\ names' = names \ {name[c]}
    /\ isDead' = [isDead EXCEPT ![c] = TRUE]
    /\ Goes(c, "dead")
    /\ UNCHANGED <<name, wanted, game, receiver, senderVars, games, gameVars,
                   acceptorVars>>

\* The receiver ends with the connection, or when a command meets the closed
\* queue of a game that ended.  Other commands do nothing here.
ReceiverEnds(c) ==
    /\ receiver[c] = "on" /\ ReadEnds(c)
    /\ receiver' = [receiver EXCEPT ![c] = "done"]
    /\ UNCHANGED <<conn, handlerVars, senderVars, monitorVars, gameVars,
                   acceptorVars>>

CommandIsRefused(c) ==
    /\ receiver[c] = "on" /\ conn[c] = "up" /\ commandsClosed[game[c]]
    /\ receiver' = [receiver EXCEPT ![c] = "done"]
    /\ UNCHANGED <<conn, handlerVars, senderVars, monitorVars, gameVars,
                   acceptorVars>>

-----------------------------------------------------------------------------
(***************************************************************************)
(* The game thread: broadcast_game_dto, member by member.                  *)
(***************************************************************************)
Moves(g, pc) == gpc' = [gpc EXCEPT ![g] = pc]

\* A frame is broadcast, or GameEnded; a game that was stopped does neither.
BeginBroadcast(g) ==
    /\ gpc[g] = "frame" /\ victim # g
    /\ Moves(g, "cast")
    /\ \E what \in {"frame", "ended"} : dto' = [dto EXCEPT ![g] = what]
    /\ todo' = [todo EXCEPT ![g] = members[g]]
    /\ anyAlive' = [anyAlive EXCEPT ![g] = FALSE]
    /\ UNCHANGED <<conn, handlerVars, receiver, senderVars, monitorVars, members,
                   target, commandsClosed, acceptorVars>>

StoppedGame(g) ==
    /\ gpc[g] = "frame" /\ victim = g
    /\ Moves(g, "dead")
    /\ UNCHANGED <<conn, handlerVars, receiver, senderVars, monitorVars, members,
                   castVars, commandsClosed, acceptorVars>>

CheckSender(g) ==
    /\ gpc[g] = "cast" /\ target[g] = None
    /\ \E c \in todo[g] :
        /\ todo' = [todo EXCEPT ![g] = @ \ {c}]
        /\ target' = [target EXCEPT ![g] = IF sending[c] THEN c ELSE None]
    /\ UNCHANGED <<conn, handlerVars, receiver, senderVars, monitorVars, gpc,
                   members, anyAlive, dto, commandsClosed, acceptorVars>>

\* The locals of a broadcast go with it.
ForgetBroadcast(g) ==
    /\ todo' = [todo EXCEPT ![g] = {}]
    /\ anyAlive' = [anyAlive EXCEPT ![g] = FALSE]
    /\ dto' = [dto EXCEPT ![g] = "frame"]

\* The queue may have been closed since: try_push throws out of the thread.
PushToSender(g) ==
    LET c == target[g]
    IN  /\ gpc[g] = "cast" /\ c # None
        /\ target' = [target EXCEPT ![g] = None]
        /\ IF qclosed[c]
           THEN Moves(g, "dead") /\ ForgetBroadcast(g) /\ UNCHANGED queue
           ELSE /\ queue' = IF dto[g] = "ended" \/ Len(queue[c]) < MaxBacklog
                            THEN [queue EXCEPT ![c] = Append(@, dto[g])] ELSE queue
                /\ anyAlive' = [anyAlive EXCEPT ![g] = TRUE]
                /\ UNCHANGED <<gpc, todo, dto>>
        /\ UNCHANGED <<conn, handlerVars, receiver, qclosed, sending, monitorVars,
                       members, commandsClosed, acceptorVars>>

GameIsOver(g) == dto[g] = "ended" \/ ~anyAlive[g]

EndBroadcast(g) ==
    /\ gpc[g] = "cast" /\ todo[g] = {} /\ target[g] = None
    /\ Moves(g, IF GameIsOver(g) THEN "ending" ELSE "frame")
    /\ commandsClosed' = [commandsClosed EXCEPT ![g] = GameIsOver(g)]
    /\ ForgetBroadcast(g)
    /\ UNCHANGED <<conn, handlerVars, receiver, senderVars, monitorVars, members,
                   target, acceptorVars>>

GameEnds(g) ==
    /\ gpc[g] = "ending"
    /\ Moves(g, "dead")
    /\ UNCHANGED <<conn, handlerVars, receiver, senderVars, monitorVars, members,
                   castVars, commandsClosed, acceptorVars>>

-----------------------------------------------------------------------------
(***************************************************************************)
(* The acceptor.                                                           *)
(***************************************************************************)
Accept(c) ==
    /\ apc = "accept" /\ conn[c] = "none"
    /\ conn' = [conn EXCEPT ![c] = "up"]
    /\ incoming' = c
    /\ apc' = "reap"
    /\ UNCHANGED <<handlerVars, receiver, senderVars, monitorVars, gameVars,
                   listed, victim>>

\* The handler is deleted, its receiver and its socket with it; its sender and
\* the name its player has remain in the game.
Delete(S) ==
    /\ conn' = [c \in Clients |-> IF c \in S THEN "closed" ELSE conn[c]]
    /\ game' = [c \in Clients |-> IF c \in S THEN None ELSE game[c]]
    /\ isDead' = [c \in Clients |-> isDead[c] /\ c \notin S]
    /\ receiver' = [c \in Clients |-> IF c \in S THEN "off" ELSE receiver[c]]

\* Handlers and games that are dead are joined and forgotten; joining a game
\* whose thread was not started yet throws, which stops the acceptor.
Surviving == {c \in listed : hpc[c] # "dead"}
Unstarted == {g \in games : gpc[g] = "created"}

Reap ==
    /\ apc = "reap"
    /\ games' = {g \in games : gpc[g] # "dead"}
    /\ Delete(listed \ Surviving)
    /\ incoming' = None
    /\ IF Unstarted = {}
       THEN /\ listed' = Surviving \cup {incoming}
            /\ Goes(incoming, "lobby")
            /\ apc' = "accept"
       ELSE /\ listed' = Surviving
            /\ apc' = "clear"
            /\ UNCHANGED hpc
    /\ UNCHANGED <<name, wanted, senderVars, names, gameVars, victim>>

\* The operator types 'q': the socket is closed and accept fails.
CloseAcceptor ==
    /\ apc = "accept"
    /\ apc' = "clear"
    /\ UNCHANGED <<conn, handlerVars, receiver, senderVars, monitorVars, gameVars,
                   listed, incoming, victim>>

\* Mutant: the connection stays open.
KeepOpen(c) == UNCHANGED conn

ShutConnection(c) == conn' = [conn EXCEPT ![c] = "closed"]

\* clear kills and joins the handlers one by one, here in any order.  The test
\* of is_dead and what follows are one step: that a handler killing itself may
\* be overtaken between the two is modelled there.
KillHandler(c) ==
    /\ apc = "clear" /\ c \in listed
    /\ victim' = c
    /\ apc' = "join"
    /\ IF isDead[c] THEN UNCHANGED <<conn, names, isDead>>
       ELSE /\ ShutConnection(c)
            /\ names' = names \ {name[c]}
            /\ isDead' = [isDead EXCEPT ![c] = TRUE]
    /\ UNCHANGED <<hpc, name, wanted, game, receiver, senderVars, games, gameVars,
                   listed, incoming>>

JoinHandler ==
    /\ apc = "join" /\ hpc[victim] = "dead"
    /\ apc' = "clear"
    /\ listed' = listed \ {victim}
    /\ Delete({victim})
    /\ victim' = None
    /\ UNCHANGED <<hpc, name, wanted, senderVars, monitorVars, gameVars, incoming>>

\* kill_games stops and joins each game.
KillGame(g) ==
    /\ apc = "clear" /\ listed = {} /\ g \in games
    /\ victim' = g
    /\ apc' = "joinGame"
    /\ UNCHANGED <<conn, handlerVars, receiver, senderVars, monitorVars, gameVars,
                   listed, incoming>>

JoinGameThread ==
    /\ apc = "joinGame" /\ gpc[victim] = "dead"
    /\ apc' = "clear"
    /\ games' = games \ {victim}
    /\ victim' = None
    /\ UNCHANGED <<conn, handlerVars, receiver, senderVars, names, gameVars,
                   listed, incoming>>

Cleared ==
    /\ apc = "clear" /\ listed = {} /\ games = {}
    /\ apc' = "done"
    /\ UNCHANGED <<conn, handlerVars, receiver, senderVars, monitorVars, gameVars,
                   listed, incoming, victim>>

-----------------------------------------------------------------------------
\* What a handler does by itself, and what it does when its client asks.
Handler(c) ==
    \/ TakeName(c) \/ StartGame(c) \/ AddPlayer(c) \/ EnterGame(c) \/ LeaveLobby(c)
    \/ Pop(c) \/ SendFrame(c) \/ CloseQueue(c) \/ ClearFlag(c) \/ SendEnd(c)
    \/ JoinReceiver(c) \/ Kill(c) \/ DeleteUsername(c)

Request(c) ==
    \/ \E n \in Wishes[c] \cup {None} : CreateUsername(c, n)
    \/ \E g \in Games : CreateGame(c, g) \/ JoinGame(c, g)

GameThread(g) ==
    \/ BeginBroadcast(g) \/ StoppedGame(g) \/ CheckSender(g) \/ PushToSender(g)
    \/ EndBroadcast(g) \/ GameEnds(g)

Shutdown ==
    \/ Reap \/ JoinHandler \/ JoinGameThread \/ Cleared
    \/ \E c \in Clients : KillHandler(c)
    \/ \E g \in Games : KillGame(g)

Next ==
    \/ \E c \in Clients : \/ Handler(c) \/ Request(c) \/ Accept(c) \/ Disconnect(c)
                          \/ Refuse(c) \/ ReceiverEnds(c) \/ CommandIsRefused(c)
    \/ \E g \in Games : GameThread(g)
    \/ Shutdown \/ CloseAcceptor

\* Threads are scheduled and a refusal comes back; clients and the operator are
\* free.
Fairness ==
    /\ \A c \in Clients : /\ WF_vars(Handler(c)) /\ WF_vars(ReceiverEnds(c))
                          /\ WF_vars(Refuse(c))
    /\ \A g \in Games : WF_vars(GameThread(g))
    /\ WF_vars(Shutdown)

Spec == Init /\ [][Next]_vars /\ Fairness

-----------------------------------------------------------------------------
(***************************************************************************)
(* Safety.                                                                 *)
(***************************************************************************)
\* The types of the variables.
TypeOK ==
    /\ conn \in [Clients -> {"none", "up", "leaving", "closed"}]
    /\ hpc \in [Clients -> {"none", "lobby", "rename", "starting", "joining", "enter",
                            "pop", "send", "close", "clearFlag", "sendEnd",
                            "joinReceiver", "unwind", "kill", "delete", "dead"}]
    /\ name \in [Clients -> Names \cup {None}]
    /\ wanted \in [Clients -> Names \cup {None}]
    /\ game \in [Clients -> Games \cup {None}]
    /\ isDead \in [Clients -> BOOLEAN]
    /\ receiver \in [Clients -> {"off", "on", "done"}]
    /\ queue \in [Clients -> Seq({"frame", "ended"})]
    /\ qclosed \in [Clients -> BOOLEAN] /\ sending \in [Clients -> BOOLEAN]
    /\ names \subseteq Names /\ games \subseteq Games
    /\ gpc \in [Games -> {"none", "created", "frame", "cast", "ending", "dead"}]
    /\ members \in [Games -> SUBSET Clients] /\ todo \in [Games -> SUBSET Clients]
    /\ target \in [Games -> Clients \cup {None}]
    /\ anyAlive \in [Games -> BOOLEAN] /\ dto \in [Games -> {"frame", "ended"}]
    /\ commandsClosed \in [Games -> BOOLEAN]
    /\ apc \in {"accept", "reap", "clear", "join", "joinGame", "done"}
    /\ listed \subseteq Clients /\ incoming \in Clients \cup {None}
    /\ victim \in Clients \cup Games \cup {None}

\* Until the server shuts down, whoever is connected with a name has it in the
\* registry and shares it with nobody, although renaming and leaving erase
\* names without the mutex that create_username takes.
Named(c) == Started(c) /\ name[c] # None
Serving == apc \in {"accept", "reap"}

NamesAreHeld ==
    Serving => \A c \in Clients : Named(c) =>
        /\ name[c] \in names
        /\ \A d \in Clients \ {c} : Named(d) => name[d] # name[c]

\* A handler is forgotten (and deleted) only after its two threads are over,
\* however it came to its end.
NothingOutlivesItsHandler ==
    [][\A c \in listed \ listed' : hpc[c] = "dead" /\ receiver[c] # "on"]_vars

-----------------------------------------------------------------------------
(***************************************************************************)
(* Liveness.                                                               *)
(***************************************************************************)
\* A handler waits for ever on the queue of a sender whose game is gone.
Stranded(c) == hpc[c] = "pop" /\ queue[c] = <<>> /\ gpc[game[c]] = "dead"

\* The handler of a client that left comes to its end, unless its game died
\* under it: whoever lingers, a time comes at which nobody does.
Lingers(c) == Started(c) /\ conn[c] \in {"leaving", "closed"} /\ ~Stranded(c)

LeaversLeave == (\E c \in Clients : Lingers(c)) ~> (\A c \in Clients : ~Lingers(c))

\* Once the acceptor clears, the server stops, unless a handler is stranded.
ShutdownCompletes ==
    apc = "clear" ~> apc = "done" \/ \E c \in Clients : Stranded(c)

-----------------------------------------------------------------------------
(***************************************************************************)
(* What the documents say and the code does not do.                        *)
(***************************************************************************)
\* "If the game is dead (is still at the game's map but nobody is playing)"
\* (server_monitor.h): a game that has not ended dies with nobody playing.
DeadGamesAreEmpty ==
    \A g \in Games : gpc[g] = "dead" /\ ~commandsClosed[g] /\ Serving =>
        \A c \in members[g] : conn[c] # "up"

=============================================================================
