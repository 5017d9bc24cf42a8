-------------------------------- MODULE Lobby --------------------------------
(***************************************************************************)
(* The window in which a client connects, takes a name and creates or      *)
(* joins a game, with what the server remembers of it.  A request blocks   *)
(* the window: it is asked, answered and read.  Other clients take and     *)
(* free names and games all the time, so the server may refuse anything.   *)
(* The skins, and that one created the game, are only shown: left out.     *)
(***************************************************************************)
EXTENDS Naturals

CONSTANTS Names, Codes,
          Empty        \* the empty string

ASSUME LobbyAssumption == Empty \notin Names \cup Codes

VARIABLES
    page,           \* Ui::stack's index, or "closed"
    username, canChangeName, gamecode,
    request,        \* what the window waits for, or NoRequest
    answer,         \* the server's, or NoAnswer
    link,           \* the connection: "none", "up", "lost", "closed" by us
    serverName,     \* what ClientHandler::username is
    serverGame      \* the game the server has put this client in

windowVars == <<page, username, canChangeName, gamecode>>
serverVars == <<serverName, serverGame>>
lobbyVars == <<windowVars, request, answer, link, serverVars>>

Pages == {"connect", "lobby", "maps", "code", "skins", "closed"}
Requests == [ask : {"name"}, name : Names, next : {"maps", "code"}]
            \cup [ask : {"create"}] \cup [ask : {"join"}, code : Codes]
\* Why a game cannot be joined, and every status but GAME_NOT_CREATED, which
\* the window knows and the server never sends.
Refusals == {"USERNAME_ALREADY_IN_GAME", "GAME_NOT_EXIST", "GAME_IS_DEAD",
             "GAME_ALREADY_STARTED", "GAME_IS_FULL"}
Statuses == Refusals \cup {"SUCCESS", "USERNAME_IN_USE", "WITHOUT_USERNAME"}
NoRequest == [ask |-> "nothing"]
NoAnswer == [status |-> "none"]
Answers == [status : Statuses \ {"SUCCESS"}]
           \cup [status : {"SUCCESS"}, code : Codes \cup {Empty}]

LobbyInit ==
    /\ page = "connect" /\ username = Empty /\ canChangeName = FALSE
    /\ gamecode = Empty
    /\ request = NoRequest /\ answer = NoAnswer /\ link = "none"
    /\ serverName = Empty /\ serverGame = Empty

Idle == page # "closed" /\ request = NoRequest

-----------------------------------------------------------------------------
(***************************************************************************)
(* The buttons.                                                            *)
(***************************************************************************)
ConnectToServer ==
    /\ page = "connect"
    /\ link' = "up" /\ page' = "lobby"
    /\ UNCHANGED <<username, canChangeName, gamecode, request, answer,
                   serverVars>>

Show(p) ==
    /\ page' = p
    /\ UNCHANGED <<username, canChangeName, gamecode, request, answer,
                   link, serverVars>>

GoToLobby == Idle /\ page \in {"maps", "code", "skins"} /\ Show("lobby")
GoToSelectSkin == Idle /\ page = "lobby" /\ Show("skins")
CloseWindow == Idle /\ Show("closed")

\* CreateGame and JoinGame ask for the name only while it may be changed.
HasName == username # Empty /\ ~canChangeName

CreateOrJoinWithName(next) == Idle /\ page = "lobby" /\ HasName /\ Show(next)

Ask(r) ==
    /\ Idle
    /\ request' = r
    /\ UNCHANGED <<windowVars, answer, link, serverVars>>

CreateOrJoin(next, n) ==
    page = "lobby" /\ ~HasName /\ Ask([ask |-> "name", name |-> n, next |-> next])

CreateGameButton == page = "maps" /\ Ask([ask |-> "create"])
JoinGameButton(code) == page = "code" /\ Ask([ask |-> "join", code |-> code])

-----------------------------------------------------------------------------
(***************************************************************************)
(* The server, of whose ClientHandler only the memory of this client is    *)
(* kept, and the network.                                                  *)
(***************************************************************************)
Answer(status, code) ==
    answer' = IF status = "SUCCESS" THEN [status |-> status, code |-> code]
                                    ELSE [status |-> status]

ServerNames ==
    /\ request.ask = "name"
    /\ \/ /\ request.name # serverName
          /\ serverName' = request.name /\ Answer("SUCCESS", Empty)
       \/ Answer("USERNAME_IN_USE", Empty) /\ UNCHANGED serverName
    /\ UNCHANGED serverGame

CannotPlay == serverName = Empty \/ serverGame # Empty

ServerCreates ==
    /\ request.ask = "create"
    /\ IF CannotPlay
         THEN Answer("WITHOUT_USERNAME", Empty) /\ UNCHANGED serverGame
         ELSE \E c \in Codes : serverGame' = c /\ Answer("SUCCESS", c)
    /\ UNCHANGED serverName

ServerJoins ==
    /\ request.ask = "join"
    /\ IF CannotPlay
         THEN Answer("WITHOUT_USERNAME", Empty) /\ UNCHANGED serverGame
         ELSE \/ serverGame' = request.code /\ Answer("SUCCESS", Empty)
              \/ /\ \E s \in Refusals : Answer(s, Empty)
                 /\ UNCHANGED serverGame
    /\ UNCHANGED serverName

ServerAnswers ==
    /\ link = "up" /\ answer = NoAnswer
    /\ ServerNames \/ ServerCreates \/ ServerJoins
    /\ UNCHANGED <<windowVars, request, link>>

LoseLink ==
    /\ link = "up"
    /\ link' = "lost"
    /\ UNCHANGED <<windowVars, request, answer, serverVars>>

-----------------------------------------------------------------------------
(***************************************************************************)
(* The answer.  Whatever is not said here is a message box.                *)
(***************************************************************************)
Answered(ask) == request.ask = ask /\ answer # NoAnswer
Done ==
    /\ request' = NoRequest /\ answer' = NoAnswer
    /\ UNCHANGED <<link, serverVars>>

NamedAs(n) == username' = n /\ canChangeName' = FALSE

\* Mutant: the window does not look at the status.
ReadNameUnchecked ==
    /\ Answered("name") /\ Done
    /\ NamedAs(request.name) /\ page' = request.next
    /\ UNCHANGED gamecode

ReadName ==
    /\ Answered("name") /\ Done
    /\ IF answer.status = "SUCCESS"
         THEN NamedAs(request.name) /\ page' = request.next
         ELSE UNCHANGED <<username, canChangeName, page>>
    /\ UNCHANGED gamecode

ReadCreation ==
    /\ Answered("create") /\ Done
    /\ IF answer.status = "SUCCESS"
         THEN gamecode' = answer.code /\ page' = "closed"
         ELSE UNCHANGED <<gamecode, page>>
    /\ UNCHANGED <<username, canChangeName>>

ReadJoining ==
    /\ Answered("join") /\ Done
    /\ IF answer.status = "SUCCESS"
         THEN gamecode' = request.code /\ page' = "closed"
         ELSE UNCHANGED <<gamecode, page>>
    /\ canChangeName' = (canChangeName \/ answer.status = "USERNAME_ALREADY_IN_GAME")
    /\ UNCHANGED username

\* tryLobbyRequest: CommunicationEnded, on writing or on reading.
LoseServer ==
    /\ request # NoRequest /\ answer = NoAnswer /\ link = "lost"
    /\ Done /\ page' = "closed"
    /\ UNCHANGED <<username, canChangeName, gamecode>>

LobbyNext ==
    \/ ConnectToServer \/ GoToLobby \/ GoToSelectSkin \/ CloseWindow
    \/ \E next \in {"maps", "code"} :
          CreateOrJoinWithName(next) \/ \E n \in Names : CreateOrJoin(next, n)
    \/ CreateGameButton \/ \E c \in Codes : JoinGameButton(c)
    \/ ServerAnswers
    \/ ReadName \/ ReadCreation \/ ReadJoining \/ LoseServer

=============================================================================
