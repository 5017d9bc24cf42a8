--------------------------- MODULE SessionsProofs ---------------------------
(***************************************************************************)
(* Proofs about the threads of the server, for any number of clients,      *)
(* names and games and for any backlog.                                    *)
(***************************************************************************)
EXTENDS Sessions, SequenceTheorems, TLAPS

-----------------------------------------------------------------------------
(***************************************************************************)
(* Types.  What the acceptor has at hand is what its place says: a client  *)
(* just accepted, a handler it joins; and who never connected has none.    *)
(***************************************************************************)
AcceptorInv ==
    /\ \A c \in Clients : conn[c] = "none" => hpc[c] = "none"
    /\ apc = "reap" => /\ incoming \in Clients
                       /\ conn[incoming] # "none" /\ hpc[incoming] = "none"
    /\ apc = "join" => victim \in Clients

TypeInv == TypeOK /\ AcceptorInv

\* The four groups of variables, typed apart.
HandlersOK ==
    /\ hpc \in [Clients -> {"none", "lobby", "rename", "starting", "joining", "enter",
                            "pop", "send", "close", "clearFlag", "sendEnd",
                            "joinReceiver", "unwind", "kill", "delete", "dead"}]
    /\ name \in [Clients -> Names \cup {None}]
    /\ wanted \in [Clients -> Names \cup {None}]
    /\ game \in [Clients -> Games \cup {None}]
    /\ isDead \in [Clients -> BOOLEAN]

ConnectionsOK ==
    /\ conn \in [Clients -> {"none", "up", "leaving", "closed"}]
    /\ receiver \in [Clients -> {"off", "on", "done"}]

SendersOK ==
    /\ queue \in [Clients -> Seq({"frame", "ended"})]
    /\ qclosed \in [Clients -> BOOLEAN] /\ sending \in [Clients -> BOOLEAN]

MonitorOK == names \subseteq Names /\ games \subseteq Games

GamesOK ==
    /\ gpc \in [Games -> {"none", "created", "frame", "cast", "ending", "dead"}]
    /\ members \in [Games -> SUBSET Clients] /\ todo \in [Games -> SUBSET Clients]
    /\ target \in [Games -> Clients \cup {None}]
    /\ anyAlive \in [Games -> BOOLEAN] /\ dto \in [Games -> {"frame", "ended"}]
    /\ commandsClosed \in [Games -> BOOLEAN]

AcceptorOK ==
    /\ apc \in {"accept", "reap", "clear", "join", "joinGame", "done"}
    /\ listed \subseteq Clients /\ incoming \in Clients \cup {None}
    /\ victim \in Clients \cup Games \cup {None}
    /\ AcceptorInv

LEMMA TypeInvParts ==
    /\ TypeInv <=> /\ HandlersOK /\ ConnectionsOK /\ SendersOK
                   /\ MonitorOK /\ GamesOK /\ AcceptorOK
    /\ TypeInv' <=> /\ HandlersOK' /\ ConnectionsOK' /\ SendersOK'
                    /\ MonitorOK' /\ GamesOK' /\ AcceptorOK'
  BY DEF TypeInv, TypeOK, HandlersOK, ConnectionsOK, SendersOK, MonitorOK, GamesOK,
     AcceptorOK

LEMMA TypeInvInit == Init => TypeInv
  <1>1. <<>> \in Seq({"frame", "ended"})
    OBVIOUS
  <1>2. QED
    BY <1>1 DEF Init, TypeInv, TypeOK, AcceptorInv

\* A group that a step leaves alone keeps its types.
LEMMA GroupsKept ==
    ASSUME TypeInv
    PROVE  /\ UNCHANGED handlerVars => HandlersOK'
           /\ UNCHANGED <<conn, receiver>> => ConnectionsOK'
           /\ UNCHANGED senderVars => SendersOK'
           /\ UNCHANGED monitorVars => MonitorOK'
           /\ UNCHANGED gameVars => GamesOK'
  BY DEF TypeInv, TypeOK, HandlersOK, ConnectionsOK, SendersOK, MonitorOK, GamesOK,
     handlerVars, senderVars, monitorVars, gameVars, castVars

\* A started handler is not the one the acceptor is about to start.
LEMMA AcceptorKept ==
    ASSUME TypeInv, UNCHANGED acceptorVars, NEW c \in Clients, hpc[c] # "none",
           \A d \in Clients \ {c} : hpc'[d] = hpc[d],
           \A d \in Clients : conn'[d] = "none" => conn[d] = "none"
    PROVE  AcceptorOK'
  BY DEF TypeInv, TypeOK, AcceptorOK, AcceptorInv, acceptorVars

LEMMA AcceptorKeptToo ==
    ASSUME TypeInv, UNCHANGED <<acceptorVars, hpc>>,
           \A d \in Clients : conn'[d] = "none" => conn[d] = "none"
    PROVE  AcceptorOK'
  BY DEF TypeInv, TypeOK, AcceptorOK, AcceptorInv, acceptorVars

LEMMA TypeInvRequest ==
    ASSUME TypeInv, NEW c \in Clients, Request(c)
    PROVE  TypeInv'
  <1> USE DEF HandlersOK, MonitorOK, Goes
  <1>0. HandlersOK /\ MonitorOK /\ GamesOK
    BY TypeInvParts
  <1>1. ASSUME NEW n \in Wishes[c] \cup {None}, CreateUsername(c, n) PROVE TypeInv'
    <2>1. n \in Names
      BY <1>1, SessionsAssumption DEF CreateUsername, NameIsFree, NameIsNotEmpty
    <2>2. HandlersOK' /\ MonitorOK'
      BY <1>0, <1>1, <2>1 DEF CreateUsername
    <2>3. AcceptorOK'
      BY <1>0, <1>1, AcceptorKept DEF CreateUsername
    <2>4. QED
      BY <1>1, <2>2, <2>3, GroupsKept, TypeInvParts DEF CreateUsername
  <1>2. ASSUME NEW g \in Games, CreateGame(c, g) PROVE TypeInv'
    <2>1. HandlersOK' /\ MonitorOK'
      BY <1>0, <1>2 DEF CreateGame
    <2>2. GamesOK'
      BY <1>0, <1>2 DEF CreateGame, GamesOK, castVars
    <2>3. AcceptorOK'
      BY <1>0, <1>2, AcceptorKept DEF CreateGame
    <2>4. QED
      BY <1>2, <2>1, <2>2, <2>3, GroupsKept, TypeInvParts DEF CreateGame
  <1>3. ASSUME NEW g \in Games, JoinGame(c, g) PROVE TypeInv'
    <2>1. HandlersOK'
      BY <1>0, <1>3 DEF JoinGame
    <2>2. AcceptorOK'
      BY <1>0, <1>3, AcceptorKept DEF JoinGame
    <2>3. QED
      BY <1>3, <2>1, <2>2, GroupsKept, TypeInvParts DEF JoinGame
  <1>4. QED
    BY <1>1, <1>2, <1>3 DEF Request

LEMMA TypeInvLobby ==
    ASSUME TypeInv, NEW c \in Clients,
           TakeName(c) \/ StartGame(c) \/ AddPlayer(c) \/ EnterGame(c) \/ LeaveLobby(c)
    PROVE  TypeInv'
  <1> USE DEF HandlersOK, MonitorOK, Goes
  <1>0. HandlersOK /\ MonitorOK /\ GamesOK /\ ConnectionsOK
    BY TypeInvParts
  <1>1. CASE TakeName(c)
    <2>1. HandlersOK' /\ MonitorOK'
      BY <1>0, <1>1 DEF TakeName
    <2>2. AcceptorOK'
      BY <1>0, <1>1, AcceptorKept DEF TakeName
    <2>3. QED
      BY <1>1, <2>1, <2>2, GroupsKept, TypeInvParts DEF TakeName
  <1>2. CASE StartGame(c)
    <2>1. HandlersOK'
      BY <1>0, <1>2 DEF StartGame
    <2>2. GamesOK'
      BY <1>0, <1>2 DEF StartGame, GamesOK, castVars
    <2>3. AcceptorOK'
      BY <1>0, <1>2, AcceptorKept DEF StartGame
    <2>4. QED
      BY <1>2, <2>1, <2>2, <2>3, GroupsKept, TypeInvParts DEF StartGame
  <1>3. CASE AddPlayer(c)
    <2>1. HandlersOK'
      BY <1>0, <1>3 DEF AddPlayer
    <2>2. todo' = todo \/ todo' = [todo EXCEPT ![game[c]] = @ \cup {c}]
      BY <1>3 DEF AddPlayer
    <2>3. /\ members' \in [Games -> SUBSET Clients]
          /\ UNCHANGED <<gpc, target, anyAlive, dto, commandsClosed>>
      BY <1>0, <1>3 DEF AddPlayer, GamesOK
    <2>4. todo' \in [Games -> SUBSET Clients]
      BY <1>0, <2>2 DEF GamesOK
    <2>5. GamesOK'
      BY <1>0, <2>3, <2>4 DEF GamesOK
    <2>6. AcceptorOK'
      BY <1>0, <1>3, AcceptorKept DEF AddPlayer
    <2>7. QED
      BY <1>3, <2>1, <2>5, <2>6, GroupsKept, TypeInvParts DEF AddPlayer
  <1>4. CASE EnterGame(c)
    <2>1. HandlersOK' /\ ConnectionsOK'
      BY <1>0, <1>4 DEF EnterGame, ConnectionsOK
    <2>2. AcceptorOK'
      <3>1. hpc[c] = "enter" /\ \A d \in Clients \ {c} : hpc'[d] = hpc[d]
        BY <1>0, <1>4 DEF EnterGame
      <3>2. QED
        BY <1>4, <3>1, AcceptorKept DEF EnterGame
    <2>3. QED
      BY <1>4, <2>1, <2>2, GroupsKept, TypeInvParts DEF EnterGame
  <1>5. CASE LeaveLobby(c)
    <2>1. HandlersOK'
      BY <1>0, <1>5 DEF LeaveLobby
    <2>2. AcceptorOK'
      BY <1>0, <1>5, AcceptorKept DEF LeaveLobby
    <2>3. QED
      BY <1>5, <2>1, <2>2, GroupsKept, TypeInvParts DEF LeaveLobby
  <1>6. QED
    BY <1>1, <1>2, <1>3, <1>4, <1>5

LEMMA TypeInvSender ==
    ASSUME TypeInv, NEW c \in Clients,
           \/ Pop(c) \/ SendFrame(c) \/ CloseQueue(c) \/ ClearFlag(c) \/ SendEnd(c)
           \/ JoinReceiver(c) \/ Kill(c) \/ DeleteUsername(c)
    PROVE  TypeInv'
  <1> USE DEF HandlersOK, Goes
  <1>0. HandlersOK /\ MonitorOK /\ SendersOK /\ ConnectionsOK
    BY TypeInvParts
  <1>1. CASE Pop(c)
    <2>1. queue[c] \in Seq({"frame", "ended"}) /\ queue[c] # <<>>
      BY <1>0, <1>1 DEF Pop, SendersOK
    <2>2. Tail(queue[c]) \in Seq({"frame", "ended"})
      BY <2>1
    <2>3. SendersOK'
      BY <1>0, <1>1, <2>2 DEF Pop, SendersOK
    <2>4. HandlersOK'
      BY <1>0, <1>1 DEF Pop
    <2>5. AcceptorOK'
      <3>1. hpc[c] = "pop" /\ \A d \in Clients \ {c} : hpc'[d] = hpc[d]
        BY <1>0, <1>1 DEF Pop
      <3>2. QED
        BY <1>1, <3>1, AcceptorKept DEF Pop
    <2>6. QED
      BY <1>1, <2>3, <2>4, <2>5, GroupsKept, TypeInvParts DEF Pop
  <1>2. CASE SendFrame(c) \/ SendEnd(c) \/ JoinReceiver(c) \/ Kill(c)
    <2>1. HandlersOK'
      BY <1>0, <1>2 DEF SendFrame, SendEnd, JoinReceiver, Kill
    <2>2. hpc[c] # "none" /\ \A d \in Clients \ {c} : hpc'[d] = hpc[d]
      BY <1>0, <1>2 DEF SendFrame, SendEnd, JoinReceiver, Kill
    <2>3. AcceptorOK'
      BY <1>2, <2>2, AcceptorKept DEF SendFrame, SendEnd, JoinReceiver, Kill
    <2>4. QED
      BY <1>2, <2>1, <2>3, GroupsKept, TypeInvParts
      DEF SendFrame, SendEnd, JoinReceiver, Kill
  <1>3. CASE CloseQueue(c)
    <2>1. <<>> \in Seq({"frame", "ended"})
      OBVIOUS
    <2>2. HandlersOK' /\ SendersOK'
      BY <1>0, <1>3, <2>1 DEF CloseQueue, SendersOK
    <2>3. AcceptorOK'
      BY <1>0, <1>3, AcceptorKept DEF CloseQueue
    <2>4. QED
      BY <1>3, <2>2, <2>3, GroupsKept, TypeInvParts DEF CloseQueue
  <1>4. CASE ClearFlag(c)
    <2>1. HandlersOK' /\ SendersOK'
      BY <1>0, <1>4 DEF ClearFlag, SendersOK
    <2>2. AcceptorOK'
      BY <1>0, <1>4, AcceptorKept DEF ClearFlag
    <2>3. QED
      BY <1>4, <2>1, <2>2, GroupsKept, TypeInvParts DEF ClearFlag
  <1>5. CASE DeleteUsername(c)
    <2>1. HandlersOK' /\ ConnectionsOK' /\ MonitorOK'
      BY <1>0, <1>5 DEF DeleteUsername, ConnectionsOK, MonitorOK
    <2>2. AcceptorOK'
      BY <1>0, <1>5, AcceptorKept DEF DeleteUsername, ConnectionsOK
    <2>3. QED
      BY <1>5, <2>1, <2>2, GroupsKept, TypeInvParts DEF DeleteUsername
  <1>6. QED
    BY <1>1, <1>2, <1>3, <1>4, <1>5

LEMMA TypeInvGame ==
    ASSUME TypeInv, NEW g \in Games, GameThread(g)
    PROVE  TypeInv'
  <1> USE DEF Moves, ForgetBroadcast
  <1>0. GamesOK /\ SendersOK
    BY TypeInvParts
  <1>1. CASE BeginBroadcast(g)
    <2>1. GamesOK'
      BY <1>0, <1>1 DEF BeginBroadcast, GamesOK
    <2>2. QED
      BY <1>1, <2>1, GroupsKept, AcceptorKeptToo, TypeInvParts DEF BeginBroadcast, handlerVars
  <1>2. CASE StoppedGame(g) \/ GameEnds(g)
    <2>1. GamesOK'
      BY <1>0, <1>2 DEF StoppedGame, GameEnds, GamesOK, castVars
    <2>2. QED
      BY <1>2, <2>1, GroupsKept, AcceptorKeptToo, TypeInvParts
      DEF StoppedGame, GameEnds, handlerVars
  <1>3. CASE CheckSender(g)
    <2>1. GamesOK'
      BY <1>0, <1>3 DEF CheckSender, GamesOK
    <2>2. QED
      BY <1>3, <2>1, GroupsKept, AcceptorKeptToo, TypeInvParts DEF CheckSender, handlerVars
  <1>4. CASE PushToSender(g)
    <2>1. target[g] \in Clients /\ dto[g] \in {"frame", "ended"}
      BY <1>0, <1>4 DEF PushToSender, GamesOK
    <2>2. queue[target[g]] \in Seq({"frame", "ended"})
      BY <1>0, <2>1 DEF SendersOK
    <2>3. Append(queue[target[g]], dto[g]) \in Seq({"frame", "ended"})
      BY <2>1, <2>2
    <2>4. /\ queue' \in [Clients -> Seq({"frame", "ended"})]
          /\ UNCHANGED <<qclosed, sending>>
      BY <1>0, <1>4, <2>3 DEF PushToSender, SendersOK
    <2>5. SendersOK'
      BY <1>0, <2>4 DEF SendersOK
    <2>6. GamesOK'
      BY <1>0, <1>4 DEF PushToSender, GamesOK
    <2>7. QED
      BY <1>4, <2>5, <2>6, GroupsKept, AcceptorKeptToo, TypeInvParts
      DEF PushToSender, handlerVars
  <1>5. CASE EndBroadcast(g)
    <2>1. GamesOK'
      BY <1>0, <1>5 DEF EndBroadcast, GamesOK, GameIsOver
    <2>2. QED
      BY <1>5, <2>1, GroupsKept, AcceptorKeptToo, TypeInvParts DEF EndBroadcast, handlerVars
  <1>6. QED
    BY <1>1, <1>2, <1>3, <1>4, <1>5 DEF GameThread

LEMMA TypeInvAcceptor ==
    ASSUME TypeInv, Shutdown \/ CloseAcceptor \/ \E c \in Clients : Accept(c)
    PROVE  TypeInv'
  <1> USE DEF HandlersOK, ConnectionsOK, AcceptorOK, AcceptorInv, handlerVars
  <1>0. HandlersOK /\ ConnectionsOK /\ MonitorOK /\ AcceptorOK
    BY TypeInvParts
  <1>1. CASE Reap
    <2>1. incoming \in Clients
      BY <1>0, <1>1 DEF Reap
    <2>2. HandlersOK' /\ ConnectionsOK'
      BY <1>0, <1>1, <2>1 DEF Reap, Delete, Goes
    <2>3. AcceptorOK'
      <3>1. \A c \in Clients : hpc'[c] # hpc[c] => c = incoming
        BY <1>0, <1>1 DEF Reap, Goes
      <3>2. \A c \in Clients : conn'[c] = conn[c] \/ conn'[c] = "closed"
        BY <1>0, <1>1 DEF Reap, Delete
      <3>3. \A c \in Clients : conn'[c] = "none" => hpc'[c] = "none"
        BY <1>0, <1>1, <3>1, <3>2 DEF Reap
      <3>4. QED
        BY <1>0, <1>1, <2>1, <3>3 DEF Reap, Surviving
    <2>4. MonitorOK'
      BY <1>0, <1>1 DEF Reap, MonitorOK
    <2>5. QED
      BY <1>1, <2>2, <2>3, <2>4, GroupsKept, TypeInvParts DEF Reap
  <1>2. ASSUME NEW c \in Clients, KillHandler(c) PROVE TypeInv'
    <2>1. HandlersOK' /\ ConnectionsOK' /\ MonitorOK'
      BY <1>0, <1>2 DEF KillHandler, ShutConnection, MonitorOK
    <2>2. AcceptorOK'
      <3>1. \A d \in Clients : conn'[d] = conn[d] \/ conn'[d] = "closed"
        BY <1>0, <1>2 DEF KillHandler, ShutConnection
      <3>2. QED
        BY <1>0, <1>2, <3>1 DEF KillHandler
    <2>3. QED
      BY <1>2, <2>1, <2>2, GroupsKept, TypeInvParts DEF KillHandler
  <1>3. CASE JoinHandler
    <2>1. HandlersOK' /\ ConnectionsOK' /\ AcceptorOK'
      BY <1>0, <1>3 DEF JoinHandler, Delete
    <2>2. QED
      BY <1>3, <2>1, GroupsKept, TypeInvParts DEF JoinHandler
  <1>4. ASSUME NEW g \in Games, KillGame(g) PROVE TypeInv'
    <2>1. AcceptorOK'
      BY <1>0, <1>4 DEF KillGame
    <2>2. QED
      BY <1>4, <2>1, GroupsKept, TypeInvParts DEF KillGame
  <1>5. CASE JoinGameThread
    <2>1. AcceptorOK' /\ MonitorOK'
      BY <1>0, <1>5 DEF JoinGameThread, MonitorOK
    <2>2. QED
      BY <1>5, <2>1, GroupsKept, TypeInvParts DEF JoinGameThread
  <1>6. CASE Cleared \/ CloseAcceptor
    <2>1. AcceptorOK'
      BY <1>0, <1>6 DEF Cleared, CloseAcceptor
    <2>2. QED
      BY <1>6, <2>1, GroupsKept, TypeInvParts DEF Cleared, CloseAcceptor
  <1>7. ASSUME NEW c \in Clients, Accept(c) PROVE TypeInv'
    <2>1. AcceptorOK' /\ ConnectionsOK'
      BY <1>0, <1>7 DEF Accept
    <2>2. QED
      BY <1>7, <2>1, GroupsKept, TypeInvParts DEF Accept
  <1>8. QED
    BY <1>1, <1>2, <1>3, <1>4, <1>5, <1>6, <1>7 DEF Shutdown

LEMMA TypeInvNext == TypeInv /\ [Next]_vars => TypeInv'
  <1> SUFFICES ASSUME TypeInv, [Next]_vars PROVE TypeInv'
    OBVIOUS
  <1>1. ASSUME NEW c \in Clients,
               Disconnect(c) \/ Refuse(c) \/ ReceiverEnds(c) \/ CommandIsRefused(c)
        PROVE  TypeInv'
    <2>1. ConnectionsOK'
      BY <1>1, TypeInvParts
      DEF Disconnect, Refuse, ReceiverEnds, CommandIsRefused, ConnectionsOK
    <2>2. AcceptorOK'
      BY <1>1, AcceptorKeptToo, TypeInvParts
      DEF Disconnect, Refuse, ReceiverEnds, CommandIsRefused, ConnectionsOK, handlerVars
    <2>3. QED
      BY <1>1, <2>1, <2>2, GroupsKept, TypeInvParts
      DEF Disconnect, Refuse, ReceiverEnds, CommandIsRefused
  <1>2. CASE UNCHANGED vars
    BY <1>2, GroupsKept, AcceptorKeptToo, TypeInvParts DEF vars, handlerVars
  <1>3. QED
    BY <1>1, <1>2, TypeInvRequest, TypeInvLobby, TypeInvSender, TypeInvGame,
       TypeInvAcceptor DEF Next, Handler

\* Every reachable state of the server is well typed.
THEOREM TypeCorrect == Spec => []TypeOK
  <1>1. TypeInv => TypeOK
    BY DEF TypeInv
  <1>2. QED
    BY <1>1, TypeInvInit, TypeInvNext, PTL DEF Spec

-----------------------------------------------------------------------------
(***************************************************************************)
(* Who has which name.  Names are erased without the mutex, so distinct    *)
(* names are not enough: NamesInv counts as held also the name a client    *)
(* has registered and not yet taken, and says that nobody holds twice what *)
(* another may be about to erase.                                          *)
(***************************************************************************)
Renaming(c) == hpc[c] = "rename"

NamesInv ==
    /\ \A c \in Clients : hpc[c] = "none" => name[c] = None
    /\ NamesAreHeld
    /\ Serving => \A c \in Clients : Renaming(c) =>
           /\ wanted[c] \in names \ {None}
           /\ \A d \in Clients : /\ Named(d) => name[d] # wanted[c]
                                 /\ d # c /\ Renaming(d) => wanted[d] # wanted[c]

\* The steps that keep the names, start no handler and rename nobody.
LEMMA NamesInvKept ==
    ASSUME NamesInv, UNCHANGED <<name, names, wanted>>,
           Serving' => Serving,
           \A c \in Clients : /\ hpc'[c] = "none" => hpc[c] = "none"
                              /\ Started(c)' => Started(c)
                              /\ Renaming(c)' => Renaming(c)
    PROVE  NamesInv'
  BY DEF NamesInv, NamesAreHeld, Named

LEMMA NamesInvLobby ==
    ASSUME TypeInv, NamesInv, NEW c \in Clients,
           TakeName(c) \/ \E n \in Wishes[c] \cup {None} : CreateUsername(c, n)
    PROVE  NamesInv'
  <1> USE DEF NamesInv, NamesAreHeld, Named, Started, Renaming, Serving, Goes
  <1>0. HandlersOK
    BY TypeInvParts
  <1>1. ASSUME NEW n, CreateUsername(c, n) PROVE NamesInv'
    <2>1. /\ n # None /\ n \notin names /\ names' = names \cup {n}
          /\ hpc[c] = "lobby" /\ UNCHANGED <<name, apc>>
      BY <1>1 DEF CreateUsername, NameIsFree, NameIsNotEmpty, NameIsNotTaken, acceptorVars
    <2>2. \A d \in Clients : /\ hpc'[d] = IF d = c THEN "rename" ELSE hpc[d]
                             /\ wanted'[d] = IF d = c THEN n ELSE wanted[d]
      BY <1>0, <1>1 DEF CreateUsername, HandlersOK
    <2>3. QED
      BY <2>1, <2>2
  <1>2. CASE TakeName(c)
    <2>1. /\ hpc[c] = "rename" /\ names' = names \ {name[c]} /\ UNCHANGED apc
      BY <1>2 DEF TakeName, acceptorVars
    <2>2. \A d \in Clients : /\ hpc'[d] = IF d = c THEN "lobby" ELSE hpc[d]
                             /\ name'[d] = IF d = c THEN wanted[c] ELSE name[d]
                             /\ d # c => wanted'[d] = wanted[d]
      BY <1>0, <1>2 DEF TakeName, HandlersOK
    <2>3. QED
      BY <2>1, <2>2
  <1>3. QED
    BY <1>1, <1>2

\* Whoever leaves erases its own name, which nobody else holds.
LEMMA NamesInvLeave ==
    ASSUME TypeInv, NamesInv, NEW c \in Clients, DeleteUsername(c)
    PROVE  NamesInv'
  <1>0. HandlersOK
    BY TypeInvParts
  <1>1. /\ hpc[c] = "delete" /\ names' = names \ {name[c]}
        /\ UNCHANGED <<name, wanted, apc>>
    BY DEF DeleteUsername, acceptorVars
  <1>2. \A d \in Clients : hpc'[d] = IF d = c THEN "dead" ELSE hpc[d]
    BY <1>0 DEF DeleteUsername, Goes, HandlersOK
  <1>3. QED
    BY <1>1, <1>2 DEF NamesInv, NamesAreHeld, Named, Started, Renaming, Serving

LEMMA NamesInvNext == TypeInv /\ NamesInv /\ [Next]_vars => NamesInv'
  <1> SUFFICES ASSUME TypeInv, NamesInv, [Next]_vars PROVE NamesInv'
    OBVIOUS
  <1> USE DEF Started, Renaming, Serving
  <1>0. HandlersOK /\ AcceptorOK
    BY TypeInvParts
  <1>1. CASE UNCHANGED vars
    BY <1>1, NamesInvKept DEF vars, handlerVars, monitorVars, acceptorVars
  <1>2. ASSUME NEW c \in Clients, Request(c) PROVE NamesInv'
    <2>1. ASSUME NEW g \in Games, CreateGame(c, g) \/ JoinGame(c, g) PROVE NamesInv'
      <3>1. UNCHANGED <<name, names, wanted, apc>> /\ hpc[c] = "lobby"
        BY <2>1 DEF CreateGame, JoinGame, monitorVars, acceptorVars
      <3>2. hpc' \in {[hpc EXCEPT ![c] = "starting"], [hpc EXCEPT ![c] = "joining"]}
        BY <2>1 DEF CreateGame, JoinGame, Goes
      <3>3. \A d \in Clients : IF d = c THEN hpc'[d] \in {"starting", "joining"}
                                        ELSE hpc'[d] = hpc[d]
        BY <1>0, <3>2 DEF HandlersOK
      <3>4. QED
        BY <3>1, <3>3, NamesInvKept
    <2>2. QED
      BY <1>2, <2>1, NamesInvLobby DEF Request
  <1>3. ASSUME NEW c \in Clients, Handler(c) PROVE NamesInv'
    <2>1. CASE TakeName(c) \/ DeleteUsername(c)
      BY <2>1, NamesInvLobby, NamesInvLeave
    <2>2. CASE ~TakeName(c) /\ ~DeleteUsername(c)
      <3>1. UNCHANGED <<name, names, wanted, apc>>
        BY <1>3, <2>2 DEF Handler, StartGame, AddPlayer, EnterGame, LeaveLobby, Pop,
           SendFrame, CloseQueue, ClearFlag, SendEnd, JoinReceiver, Kill, monitorVars,
           acceptorVars
      <3>2. PICK pc \in {"enter", "kill", "pop", "send", "sendEnd", "close", "clearFlag",
                         "joinReceiver", "unwind", "delete", "dead"} :
              hpc' = [hpc EXCEPT ![c] = pc]
        BY <1>3, <2>2 DEF Handler, StartGame, AddPlayer, EnterGame, LeaveLobby, Pop,
           SendFrame, CloseQueue, ClearFlag, SendEnd, JoinReceiver, Kill, Goes
      <3>3. hpc[c] \notin {"none", "dead"}
        BY <1>3, <2>2 DEF Handler, StartGame, AddPlayer, EnterGame, LeaveLobby, Pop,
           SendFrame, CloseQueue, ClearFlag, SendEnd, JoinReceiver, Kill
      <3>4. \A d \in Clients : hpc'[d] = IF d = c THEN pc ELSE hpc[d]
        BY <1>0, <3>2 DEF HandlersOK
      <3>5. QED
        BY <3>1, <3>3, <3>4, NamesInvKept
    <2>3. QED
      BY <2>1, <2>2
  <1>4. ASSUME NEW c \in Clients,
               \/ Accept(c) \/ Disconnect(c) \/ Refuse(c) \/ ReceiverEnds(c)
               \/ CommandIsRefused(c)
        PROVE  NamesInv'
    BY <1>4, NamesInvKept DEF Accept, Disconnect, Refuse, ReceiverEnds, CommandIsRefused,
       handlerVars, monitorVars, acceptorVars
  <1>5. ASSUME NEW g \in Games, GameThread(g) PROVE NamesInv'
    BY <1>5, NamesInvKept DEF GameThread, BeginBroadcast, StoppedGame, CheckSender,
       PushToSender, EndBroadcast, GameEnds, handlerVars, monitorVars, acceptorVars
  <1>6. CASE Reap
    <2>1. UNCHANGED <<name, names, wanted>> /\ apc = "reap"
      BY <1>6 DEF Reap
    <2>2. \A d \in Clients : hpc'[d] = hpc[d] \/ (d = incoming /\ hpc'[d] = "lobby")
      <3>1. hpc' \in {hpc, [hpc EXCEPT ![incoming] = "lobby"]}
        BY <1>6 DEF Reap, Goes
      <3>2. QED
        BY <1>0, <3>1 DEF HandlersOK
    <2>3. incoming \in Clients /\ hpc[incoming] = "none"
      BY <1>0, <2>1 DEF AcceptorOK, AcceptorInv
    <2>4. name[incoming] = None
      BY <2>3 DEF NamesInv
    <2>5. QED
      BY <2>1, <2>2, <2>3, <2>4 DEF NamesInv, NamesAreHeld, Named
  <1>7. CASE CloseAcceptor \/ Cleared \/ JoinHandler \/ JoinGameThread
             \/ \E g \in Games : KillGame(g)
    BY <1>7, NamesInvKept DEF CloseAcceptor, Cleared, JoinHandler, JoinGameThread, KillGame,
       handlerVars, monitorVars
  <1>8. ASSUME NEW c \in Clients, KillHandler(c) PROVE NamesInv'
    BY <1>8 DEF KillHandler, NamesInv, NamesAreHeld
  <1>9. QED
    BY <1>1, <1>2, <1>3, <1>4, <1>5, <1>6, <1>7, <1>8 DEF Next, Shutdown

\* While the server serves, whoever has a name has it in the registry and
\* alone, for any number of clients and names and however they rename, leave
\* and come at the same time.
THEOREM NamesHeld == Spec => []NamesAreHeld
  <1>1. Init => NamesInv
    BY DEF Init, NamesInv, NamesAreHeld, Named, Started, Renaming
  <1>2. NamesInv => NamesAreHeld
    BY DEF NamesInv
  <1>3. QED
    BY <1>1, <1>2, TypeInvInit, TypeInvNext, NamesInvNext, PTL DEF Spec

-----------------------------------------------------------------------------
(***************************************************************************)
(* The lifetimes.  A receiver runs only while its handler is between       *)
(* entering a game and joining it: ReceiverInv says where that is.         *)
(***************************************************************************)
InGame(c) == hpc[c] \in {"pop", "send", "close", "clearFlag", "sendEnd",
                         "joinReceiver", "unwind"}

ReceiverInv == \A c \in Clients : receiver[c] = "on" => InGame(c)

LEMMA ReceiverInvNext == TypeInv /\ ReceiverInv /\ [Next]_vars => ReceiverInv'
  <1> SUFFICES ASSUME TypeInv, ReceiverInv, [Next]_vars PROVE ReceiverInv'
    OBVIOUS
  <1> USE DEF ReceiverInv, InGame, Goes
  <1>0. HandlersOK /\ ConnectionsOK /\ AcceptorOK
    BY TypeInvParts
  <1>1. CASE UNCHANGED <<hpc, receiver>>
    BY <1>1
  <1>2. ASSUME NEW c \in Clients, Request(c) PROVE ReceiverInv'
    <2>1. /\ receiver' = receiver /\ hpc[c] = "lobby"
          /\ \A d \in Clients \ {c} : hpc'[d] = hpc[d]
      BY <1>0, <1>2 DEF Request, CreateUsername, CreateGame, JoinGame, HandlersOK
    <2>2. QED
      BY <2>1
  <1>3. ASSUME NEW c \in Clients, Handler(c) PROVE ReceiverInv'
    <2>1. CASE JoinReceiver(c)
      <3>1. receiver' = receiver /\ receiver[c] = "done"
        BY <2>1 DEF JoinReceiver, ReceiverIsOver
      <3>2. \A d \in Clients \ {c} : hpc'[d] = hpc[d]
        BY <1>0, <2>1 DEF JoinReceiver, HandlersOK
      <3>3. QED
        BY <3>1, <3>2
    <2>2. CASE EnterGame(c)
      BY <1>0, <2>2 DEF EnterGame, HandlersOK, ConnectionsOK
    <2>3. CASE ~JoinReceiver(c) /\ ~EnterGame(c)
      <3>1. /\ receiver' = receiver
            /\ \A d \in Clients \ {c} : hpc'[d] = hpc[d]
            /\ InGame(c) => InGame(c)'
        BY <1>0, <1>3, <2>3 DEF Handler, TakeName, StartGame, AddPlayer, LeaveLobby, Pop,
           SendFrame, CloseQueue, ClearFlag, SendEnd, Kill, DeleteUsername, HandlersOK
      <3>2. QED
        BY <3>1
    <2>4. QED
      BY <2>1, <2>2, <2>3
  <1>4. ASSUME NEW c \in Clients, ReceiverEnds(c) \/ CommandIsRefused(c) PROVE ReceiverInv'
    BY <1>0, <1>4 DEF ReceiverEnds, CommandIsRefused, handlerVars, ConnectionsOK
  <1>5. CASE Reap
    <2>1. \A d \in Clients : hpc'[d] = hpc[d] \/ (d = incoming /\ hpc[d] = "none")
      <3>1. hpc' \in {hpc, [hpc EXCEPT ![incoming] = "lobby"]} /\ hpc[incoming] = "none"
        BY <1>0, <1>5 DEF Reap, AcceptorOK, AcceptorInv
      <3>2. QED
        BY <1>0, <3>1 DEF HandlersOK
    <2>2. \A d \in Clients : receiver'[d] \in {"off", receiver[d]}
      BY <1>0, <1>5 DEF Reap, Delete
    <2>3. QED
      BY <2>1, <2>2
  <1>6. CASE JoinHandler
    BY <1>0, <1>6 DEF JoinHandler, Delete
  <1>7. UNCHANGED <<hpc, receiver>> \/ Reap \/ JoinHandler
        \/ \E c \in Clients : \/ Request(c) \/ Handler(c)
                              \/ ReceiverEnds(c) \/ CommandIsRefused(c)
    BY DEF vars, Next, Accept, Disconnect, Refuse, GameThread, BeginBroadcast, StoppedGame,
       CheckSender, PushToSender, EndBroadcast, GameEnds, Shutdown, KillHandler, KillGame,
       JoinGameThread, Cleared, CloseAcceptor, handlerVars
  <1>8. QED
    BY <1>1, <1>2, <1>3, <1>4, <1>5, <1>6, <1>7

\* What one step may do to the list of handlers.
HandlersAreOver == \A c \in listed \ listed' : hpc[c] = "dead" /\ receiver[c] # "on"

LEMMA HandlersAreOverStep ==
    ASSUME TypeInv, ReceiverInv, [Next]_vars
    PROVE  HandlersAreOver
  <1>0. listed \subseteq Clients
    BY DEF TypeInv, TypeOK
  <1>1. \A c \in Clients : hpc[c] = "dead" => receiver[c] # "on"
    BY DEF ReceiverInv, InGame
  <1>2. CASE Reap
    BY <1>0, <1>1, <1>2 DEF Reap, Surviving, HandlersAreOver
  <1>3. CASE JoinHandler
    BY <1>0, <1>1, <1>3 DEF JoinHandler, HandlersAreOver
  <1>4. listed \subseteq listed' \/ Reap \/ JoinHandler
    BY DEF vars, acceptorVars, Next, Handler, TakeName, StartGame, AddPlayer, EnterGame,
       LeaveLobby, Pop, SendFrame, CloseQueue, ClearFlag, SendEnd, JoinReceiver, Kill,
       DeleteUsername, Request, CreateUsername, CreateGame, JoinGame, Accept, Disconnect,
       Refuse, ReceiverEnds, CommandIsRefused, GameThread, BeginBroadcast, StoppedGame,
       CheckSender, PushToSender, EndBroadcast, GameEnds, Shutdown, KillHandler, KillGame,
       JoinGameThread, Cleared, CloseAcceptor
  <1>5. QED
    BY <1>2, <1>3, <1>4 DEF HandlersAreOver

\* No handler is deleted while one of its two threads runs, for any number of
\* clients and games, while the server serves and while it shuts down.
THEOREM LifetimesCorrect == Spec => NothingOutlivesItsHandler
  <1>1. Init => ReceiverInv
    BY DEF Init, ReceiverInv
  <1>2. TypeInv /\ ReceiverInv /\ [Next]_vars => [HandlersAreOver]_vars
    BY HandlersAreOverStep
  <1>3. Spec => [][HandlersAreOver]_vars
    BY <1>1, <1>2, TypeInvInit, TypeInvNext, ReceiverInvNext, PTL DEF Spec
  <1>4. QED
    BY <1>3, PTL DEF NothingOutlivesItsHandler, HandlersAreOver

=============================================================================
