------------------------------- MODULE Client -------------------------------
(***************************************************************************)
(* A client from its first window to its last: after the Lobby, the thread *)
(* of the interface draws a screen, handles events (Controls) and drains   *)
(* the queue its receiver fills, until the match ends, the player quits or *)
(* the server is gone; then it takes both threads down.                    *)
(*                                                                         *)
(* Of a snapshot only the phase is kept, and whether time is left.  The    *)
(* server is external: it sends what Match broadcasts, in that order, to   *)
(* those who are registered by then, which a client may be late for.       *)
(***************************************************************************)
EXTENDS Lobby, Controls

CONSTANT MaxInbox      \* bound: messages the interface has not read

ASSUME ClientAssumption == MaxInbox \in Nat \ {0}

VARIABLES
    pc,             \* where the thread of the interface is
    screen,         \* GameUI::phase
    known,          \* local_info.phase and time_left, as a snapshot
    mapSet,         \* SDLManager has a map and a shop
    keepRunning,
    serverClosed,   \* local_info.server_has_been_closed
    unwound,        \* run() was left by an exception nobody expects
    inbox, inboxClosed,    \* ClientReceiver::queue
    receiver, sender,      \* where the threads are
    lastSent,       \* external: what the server has broadcast last
    inTime          \* history: the initial info was still to be broadcast when
                    \* the sender of this client was registered

uiVars == <<pc, screen, known, mapSet, keepRunning, serverClosed, unwound>>
serverSays == <<lastSent, inTime>>
threadVars == <<inbox, inboxClosed, receiver, sender, serverSays>>
vars == <<lobbyVars, controlVars, uiVars, threadVars>>

Phases == {"waiting", "buy", "attack", "ended"}
\* Whether time is left is told apart where the match may end.
Snapshots == [phase : Phases, time : {TRUE}]
             \cup [phase : {"waiting", "ended"}, time : {FALSE}]
InitialInfo == [phase |-> "info", time |-> TRUE]
GameEnded == [phase |-> "over", time |-> FALSE]
Messages == Snapshots \cup {InitialInfo, GameEnded}

Init ==
    /\ LobbyInit /\ ControlsInit
    /\ pc = "lobby" /\ screen = "waiting"
    /\ known = [phase |-> "waiting", time |-> FALSE] /\ mapSet = FALSE
    /\ keepRunning = TRUE /\ serverClosed = FALSE /\ unwound = FALSE
    /\ inbox = <<>> /\ inboxClosed = FALSE
    /\ receiver = "off" /\ sender = "off"
    /\ lastSent = [phase |-> "waiting", time |-> TRUE] /\ inTime = TRUE

-----------------------------------------------------------------------------
(***************************************************************************)
(* The receiver.  A connection keeps the order of what was sent, so only   *)
(* the moment of reception matters.                                        *)
(***************************************************************************)
\* What Match broadcasts next: GameEnded follows a phase that has timed out.
Follows(m) ==
    CASE lastSent.phase = "waiting" -> \/ m = InitialInfo \/ m.phase = "waiting"
                                       \/ m = GameEnded /\ ~lastSent.time
      [] lastSent.phase = "info" -> m.phase = "buy"
      [] lastSent.phase = "buy" -> m.phase \in {"buy", "attack"}
      [] lastSent.phase = "attack" -> m.phase \in {"attack", "ended"}
      [] lastSent.phase = "ended" -> \/ m.phase \in {"ended", "buy"}
                                     \/ m = GameEnded /\ ~lastSent.time
      [] OTHER -> FALSE

ReceiveGameDto ==
    /\ receiver = "on" /\ link = "up" /\ Len(inbox) < MaxInbox
    /\ \E m \in Messages :
          Follows(m) /\ lastSent' = m /\ inbox' = Append(inbox, m)
    /\ UNCHANGED <<lobbyVars, controlVars, uiVars, inboxClosed, receiver, sender,
                   inTime>>

ReceiverEnds ==
    /\ receiver = "on" /\ link \in {"lost", "closed"}
    /\ inboxClosed' = TRUE /\ receiver' = "done"
    /\ UNCHANGED <<lobbyVars, controlVars, uiVars, inbox, sender, serverSays>>

-----------------------------------------------------------------------------
(***************************************************************************)
(* The sender.                                                             *)
(***************************************************************************)
SenderGoes(s) ==
    /\ sender' = s
    /\ UNCHANGED <<lobbyVars, inputVars, uiVars, inbox, inboxClosed, receiver,
                   serverSays>>

PopCommand ==
    /\ sender = "pop" /\ commands # <<>>
    /\ commands' = Tail(commands)
    /\ SenderGoes("send") /\ UNCHANGED commandsClosed

\* A lost link may take one more command before it is noticed.
SendCommand ==
    /\ sender = "send" /\ link \in {"up", "lost"}
    /\ SenderGoes("pop") /\ UNCHANGED <<commands, commandsClosed>>

\* CommunicationEnded: the queue is closed here, or the thread ends by the
\* exception of closing it again.
SenderFails ==
    /\ sender = "send" /\ link \in {"lost", "closed"}
    /\ commandsClosed' = TRUE
    /\ SenderGoes("done") /\ UNCHANGED commands

SenderEnds ==
    /\ sender = "pop" /\ commands = <<>> /\ commandsClosed
    /\ SenderGoes("done") /\ UNCHANGED <<commands, commandsClosed>>

-----------------------------------------------------------------------------
(***************************************************************************)
(* The thread of the interface.                                            *)
(***************************************************************************)
\* The server registered the sender of this client at some moment of the match:
\* in time for the initial info, or after it, when the game began between the
\* request of this client and that (add_player).
Registered(m) == lastSent' = m /\ inTime' = (m.phase = "waiting")

\* GameUI's constructor throws when there is no game to play.  What the lobby
\* allowed does not matter any more.
StartGameUI ==
    /\ pc = "lobby" /\ page = "closed"
    /\ canChangeName' = FALSE
    /\ IF gamecode = Empty
         THEN pc' = "failed" /\ UNCHANGED <<receiver, sender, serverSays>>
         ELSE /\ pc' = "events" /\ receiver' = "on" /\ sender' = "pop"
              /\ \E m \in Messages : Registered(m)
    /\ UNCHANGED <<page, username, gamecode, request, answer, link, serverVars,
                   controlVars, screen, known, mapSet, keepRunning,
                   serverClosed, unwound, inbox, inboxClosed>>

HandleEvent ==
    /\ pc = "events"
    /\ \/ \E i \in Inputs : \/ Press(screen, i) \/ Release(screen, i)
                            \/ Repeat(screen, i)
       \/ Aim(screen) \/ OpenOrCloseShop(screen) \/ Click(screen)
    /\ UNCHANGED <<lobbyVars, uiVars, threadVars>>

EventsHandled ==
    /\ pc = "events"
    /\ pc' = "update"
    /\ UNCHANGED <<lobbyVars, controlVars, screen, known, mapSet, keepRunning,
                   serverClosed, unwound, threadVars>>

\* handle_game_ended shows the statistics unless game_has_ended: time is left.
AfterRun(closed, last) == IF ~closed /\ last.time THEN "close" ELSE "stats"

\* Any phase may be in its last frame, with no time left.
Quit ==
    /\ pc = "events"
    /\ keepRunning' = FALSE /\ pc' \in {"stats", AfterRun(FALSE, known)}
    /\ UNCHANGED <<lobbyVars, controlVars, screen, known, mapSet, serverClosed,
                   unwound, threadVars>>

\* A push to the queue the sender has closed.
PushThrows ==
    /\ pc = "events" /\ commandsClosed
    /\ serverClosed' = TRUE /\ keepRunning' = FALSE /\ pc' = AfterRun(TRUE, known)
    /\ UNCHANGED <<lobbyVars, controlVars, screen, known, mapSet, unwound, threadVars>>

(***************************************************************************)
(* The update of a frame.  Waiting, messages are taken one by one until    *)
(* one of them stops the loop.  On the other screens local_info is only    *)
(* touched after the loop, so the loop empties the queue, unless the phase *)
(* known has already changed: then one message is enough to leave.         *)
(***************************************************************************)
LocalInfo(read, before) == IF read = <<>> THEN before ELSE read[Len(read)]

ChangePhase(to) == screen' = to

\* Where the first message that is not one of a set stands.
FirstNot(S) ==
    LET at == {n \in DOMAIN inbox : inbox[n] \notin S}
    IN  IF at = {} THEN 0 ELSE CHOOSE n \in at : \A k \in at : n <= k

Took(n) == inbox' = SubSeq(inbox, n + 1, Len(inbox))

Updating ==
    /\ pc = "update"
    /\ UNCHANGED <<lobbyVars, down, flags, events, commands, commandsClosed,
                   inboxClosed, receiver, sender, serverSays>>

Continues == pc' = "events" /\ UNCHANGED <<keepRunning, serverClosed, unwound>>
Ends(last) ==
    /\ keepRunning' = FALSE /\ pc' = AfterRun(FALSE, last)
    /\ UNCHANGED <<serverClosed, unwound>>
TryPopThrows(last) ==
    /\ keepRunning' = FALSE /\ serverClosed' = TRUE /\ pc' = AfterRun(TRUE, last)
    /\ UNCHANGED unwound

UpdateWaiting ==
    LET n == FirstNot([phase : {"waiting"}, time : BOOLEAN])
        last == LocalInfo(IF n = 0 THEN inbox ELSE SubSeq(inbox, 1, n - 1), known)
    IN  /\ Updating /\ screen = "waiting" /\ UNCHANGED shopOpen
        /\ CASE n = 0 ->
                   /\ inbox' = <<>> /\ known' = last
                   /\ IF inboxClosed THEN TryPopThrows(last) ELSE Continues
                   /\ UNCHANGED <<screen, mapSet>>
             [] n > 0 /\ inbox[n] = InitialInfo ->
                   /\ Took(n) /\ known' = last /\ mapSet' = TRUE /\ Continues
                   /\ UNCHANGED screen
             [] n > 0 /\ inbox[n] = GameEnded ->
                   /\ Took(n) /\ known' = last /\ Ends(last)
                   /\ UNCHANGED <<screen, mapSet>>
             [] OTHER ->
                   /\ Took(n) /\ known' = inbox[n] /\ ChangePhase(inbox[n].phase)
                   /\ Continues /\ UNCHANGED mapSet

IsLeaving == known.phase # screen /\ inbox # <<>> /\ Head(inbox) # GameEnded

\* Mutant: the shop is left open.
ShopStaysOpen ==
    /\ known' = Head(inbox) /\ ChangePhase(Head(inbox).phase) /\ Took(1)
    /\ UNCHANGED shopOpen /\ Continues /\ UNCHANGED mapSet

\* Mutant: the screen changes to the phase known before the message.
ChangesToThePhaseKnown ==
    /\ known' = Head(inbox) /\ ChangePhase(known.phase) /\ Took(1)
    /\ IF screen = "buy" THEN ShopClosed ELSE UNCHANGED shopOpen
    /\ Continues /\ UNCHANGED mapSet

\* The first message after the phase has changed.
LeavesScreen ==
    /\ known' = Head(inbox) /\ ChangePhase(Head(inbox).phase) /\ Took(1)
    /\ IF screen = "buy" THEN ShopClosed ELSE UNCHANGED shopOpen
    /\ Continues /\ UNCHANGED mapSet

\* std::get<Snapshot> on GameEnded: only the screen between rounds expects it.
Unexpected == screen # "ended" /\ FirstNot(Snapshots) # 0

Unwinds ==
    unwound' = TRUE /\ pc' = "close" /\ UNCHANGED <<keepRunning, serverClosed>>

VariantThrows ==
    /\ Unwinds /\ inbox' = <<>>
    /\ UNCHANGED <<screen, known, mapSet, shopOpen>>

\* What update_buy reads when got_snapshot, not set either, happens to be true:
\* any phase that is not BUY makes it leave, like this one.
Uninitialised == [phase |-> "garbage", time |-> TRUE]

\* The next frame begins by drawing the shop, if it is open: ammo_by_clip.at
\* throws when no initial info has brought its contents.
Draws == IF shopOpen /\ ~mapSet THEN Unwinds ELSE Continues

Drains ==
    LET n == FirstNot(Snapshots)     \* GameEnded stops the loop
        read == IF n = 0 THEN inbox ELSE SubSeq(inbox, 1, n - 1)
        last == LocalInfo(read, known)
    IN  /\ UNCHANGED <<screen, mapSet, shopOpen>>
        /\ CASE n > 0 -> Took(n) /\ known' = last /\ Ends(last)
             [] n = 0 /\ inboxClosed ->
                   inbox' = <<>> /\ TryPopThrows(known) /\ UNCHANGED known
             [] OTHER ->
                   /\ inbox' = <<>> /\ Draws
                   /\ \/ known' = last
                      \/ screen = "buy" /\ inbox = <<>> /\ known' = Uninitialised

Update ==
    /\ Updating /\ screen # "waiting"
    /\ \/ IsLeaving /\ LeavesScreen
       \/ ~IsLeaving /\ ~Unexpected /\ Drains
       \/ ~IsLeaving /\ Unexpected /\ VariantThrows

-----------------------------------------------------------------------------
(***************************************************************************)
(* The statistics, and GameUI's destructor, which also runs when an        *)
(* exception leaves run().                                                 *)
(***************************************************************************)
Goes(here, next) ==
    /\ pc = here /\ pc' = next
    /\ UNCHANGED <<inputVars, commands, screen, known, mapSet, keepRunning,
                   serverClosed, unwound, threadVars>>

StatsShown == Goes("stats", "close") /\ UNCHANGED <<lobbyVars, commandsClosed>>

\* Mutant: the threads are joined while the connection is open.
ProtocolLeftOpen ==
    Goes("close", "joinReceiver") /\ UNCHANGED <<lobbyVars, commandsClosed>>

CloseProtocol ==
    /\ Goes("close", "joinReceiver") /\ link' = "closed"
    /\ UNCHANGED <<windowVars, request, answer, serverVars, commandsClosed>>

JoinReceiver ==
    /\ receiver = "done" /\ Goes("joinReceiver", "closeQueue")
    /\ UNCHANGED <<lobbyVars, commandsClosed>>

\* Closing a closed queue is not a ClosedQueue: it leaves the destructor.
CloseSenderQueue ==
    /\ Goes("closeQueue", IF commandsClosed THEN "aborted" ELSE "joinSender")
    /\ commandsClosed' = TRUE
    /\ UNCHANGED lobbyVars

JoinSender ==
    /\ sender = "done" /\ Goes("joinSender", IF unwound THEN "failed" ELSE "done")
    /\ UNCHANGED <<lobbyVars, commandsClosed>>

-----------------------------------------------------------------------------
Receiver == ReceiveGameDto \/ ReceiverEnds
Sender == PopCommand \/ SendCommand \/ SenderFails \/ SenderEnds
InterfaceGoesOn ==
    \/ StartGameUI \/ EventsHandled \/ UpdateWaiting \/ Update \/ StatsShown
    \/ CloseProtocol \/ JoinReceiver \/ CloseSenderQueue \/ JoinSender
Interface == InterfaceGoesOn \/ HandleEvent \/ Quit \/ PushThrows

InLobby ==
    /\ pc = "lobby" /\ LobbyNext
    /\ UNCHANGED <<controlVars, uiVars, threadVars>>
Disconnected == LoseLink /\ UNCHANGED <<controlVars, uiVars, threadVars>>

Next ==
    /\ pc \notin {"done", "failed", "aborted"}
    /\ InLobby \/ Disconnected \/ Receiver \/ Sender \/ Interface

\* Threads are scheduled; SDL_PollEvent runs out of events, and the
\* statistics of time.
Fairness ==
    WF_vars(InterfaceGoesOn) /\ WF_vars(Receiver) /\ WF_vars(Sender)

Spec == Init /\ [][Next]_vars /\ Fairness

-----------------------------------------------------------------------------
(***************************************************************************)
(* What is right.                                                          *)
(***************************************************************************)
\* The types of the variables (Lobby's, Controls', then Client's).
TypeOK ==
    /\ page \in Pages /\ link \in {"none", "up", "lost", "closed"}
    /\ {username, serverName} \subseteq Names \cup {Empty}
    /\ {gamecode, serverGame} \subseteq Codes \cup {Empty}
    /\ canChangeName \in BOOLEAN
    /\ request \in Requests \cup {NoRequest} /\ answer \in Answers \cup {NoAnswer}
    /\ down \subseteq Inputs /\ flags \subseteq Flags /\ shopOpen \in BOOLEAN
    /\ commands \in Seq(CommandsOf(Inputs \cup Items \cup {"mouse"}))
    /\ pc \in {"lobby", "events", "update", "stats", "close", "joinReceiver",
               "closeQueue", "joinSender", "done", "failed", "aborted"}
    /\ screen \in Phases /\ known \in Snapshots \cup {Uninitialised}
    /\ inbox \in Seq(Messages) /\ lastSent \in Messages /\ inTime \in BOOLEAN
    /\ receiver \in {"off", "on", "done"} /\ sender \in {"off", "pop", "send", "done"}

\* A client starts to play only in the game, and under the name, in which the
\* server has it, whatever was refused, renamed or lost in the lobby
\* (lobby.cpp:70 and 146).
PlaysInItsGame ==
    pc \notin {"lobby", "failed"} => gamecode = serverGame /\ username = serverName

Playing == pc \in {"events", "update"}

\* However far the interface lags behind the server, no screen of a round is
\* drawn before the map has come, to whoever was registered when it was
\* broadcast, and the shop is not left open on a screen that cannot close it
\* (game_ui.cpp:262 and 311).  Who was late leaves the waiting screen by the
\* phase alone (game_ui.cpp:277), and never has a map.
ScreensAreSound ==
    Playing => /\ inTime /\ screen # "waiting" => mapSet
               /\ shopOpen => screen = "buy"

\* Of what the player holds down, the server is told that it starts and that
\* it stops by turns, across screens that do not hear the key
\* (input_handler.cpp:179 and 189).
PressesAlternate ==
    \A n, m \in DOMAIN commands :
        /\ n < m /\ commands[n].input \in Holds
        /\ commands[n].input = commands[m].input
        /\ \A k \in n+1 .. m-1 : commands[k].input # commands[n].input
        => commands[n].on # commands[m].on

\* Once the connection is lost, or the interface has stopped, the client ends:
\* no thread waits for the other for ever (game_ui.cpp:473).
ClientEnds ==
    (pc # "lobby" /\ link = "lost") \/ ~keepRunning \/ unwound
        ~> pc \in {"done", "failed", "aborted"}

=============================================================================
