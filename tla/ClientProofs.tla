---------------------------- MODULE ClientProofs ----------------------------
(***************************************************************************)
(* Proofs about a client, for any names, games, keys, items and bounds.    *)
(***************************************************************************)
EXTENDS Client, FiniteSetTheorems, SequenceTheorems, TLAPS

-----------------------------------------------------------------------------
(***************************************************************************)
(* The least number of a set: what the CHOOSE of FirstNot stands on.       *)
(***************************************************************************)
LEMMA LeastExists ==
  ASSUME NEW S \in SUBSET Nat, S # {}
  PROVE  \E n \in S : \A k \in S : n <= k
<1> DEFINE T == {0..n : n \in S}
<1>1. T \subseteq FiniteSubsetsOf(Nat) /\ T # {}
  <2>1. \A n \in S : n \in Int /\ 0..n \in SUBSET Nat
    OBVIOUS
  <2>2. \A n \in S : IsFiniteSet(0..n)
    BY <2>1, FS_Interval
  <2>3. QED BY <2>1, <2>2 DEF FiniteSubsetsOf
<1>2. PICK t \in T : \A u \in T : ~ (<<u, t>> \in StrictSubsetOrdering(Nat))
  <2> HIDE DEF T
  <2>1. IsWellFoundedOn(StrictSubsetOrdering(Nat), FiniteSubsetsOf(Nat))
    BY FS_StrictSubsetOrderingWellFounded
  <2>2. QED BY <1>1, <2>1, WFMin
<1>3. PICK n \in S : t = 0..n
  BY <1>2
<1>4. ASSUME NEW k \in S, k < n PROVE FALSE
  <2>1. /\ 0..k \in SUBSET Nat /\ 0..n \in SUBSET Nat
        /\ 0..k \subseteq 0..n /\ n \notin 0..k /\ n \in 0..n
    BY <1>4
  <2>2. <<0..k, 0..n>> \in StrictSubsetOrdering(Nat)
    BY <2>1 DEF StrictSubsetOrdering
  <2>3. 0..k \in T
    OBVIOUS
  <2>4. QED BY <1>2, <1>3, <2>2, <2>3
<1>5. QED BY <1>4

\* Nothing before the first message outside a set is outside it.
LEMMA FirstNotIsFirst ==
  ASSUME NEW S, inbox \in Seq(Messages)
  PROVE  \/ FirstNot(S) = 0 /\ \A k \in DOMAIN inbox : inbox[k] \in S
         \/ /\ FirstNot(S) \in DOMAIN inbox /\ inbox[FirstNot(S)] \notin S
            /\ \A k \in DOMAIN inbox : k < FirstNot(S) => inbox[k] \in S
<1> DEFINE at == {n \in DOMAIN inbox : inbox[n] \notin S}
<1>1. at \in SUBSET Nat /\ \A n \in at : n > 0
  OBVIOUS
<1>2. CASE at = {}
  BY <1>2 DEF FirstNot
<1>3. CASE at # {}
  <2>1. PICK n \in at : \A k \in at : n <= k
    <3> HIDE DEF at
    <3>1. QED BY <1>1, <1>3, LeastExists
  <2>2. FirstNot(S) = CHOOSE n_1 \in at : \A k \in at : n_1 <= k
    BY <1>3 DEF FirstNot
  <2>3. FirstNot(S) \in at /\ \A k \in at : FirstNot(S) <= k
    <3> HIDE DEF at
    <3>1. QED BY <2>1, <2>2
  <2>4. QED BY <1>1, <2>3
<1>4. QED BY <1>2, <1>3

-----------------------------------------------------------------------------
(***************************************************************************)
(* Types, and the order of what the server says.  Neither is inductive     *)
(* alone: a screen is a phase because no InitialInfo is met once the map   *)
(* is there, and that is because InitialInfo comes once, after the last    *)
(* snapshot of the wait and before the first of a round.  A client that is *)
(* registered late meets no InitialInfo either, for none comes any more.   *)
(***************************************************************************)
LobbyOK ==
    /\ page \in Pages /\ link \in {"none", "up", "lost", "closed"}
    /\ {username, serverName} \subseteq Names \cup {Empty}
    /\ {gamecode, serverGame} \subseteq Codes \cup {Empty}
    /\ canChangeName \in BOOLEAN
    /\ request \in Requests \cup {NoRequest} /\ answer \in Answers \cup {NoAnswer}

ControlsOK ==
    /\ down \subseteq Inputs /\ flags \subseteq Flags /\ shopOpen \in BOOLEAN
    /\ commands \in Seq(CommandsOf(Inputs \cup Items \cup {"mouse"}))

PlaceOK ==
    pc \in {"lobby", "events", "update", "stats", "close", "joinReceiver",
            "closeQueue", "joinSender", "done", "failed", "aborted"}

ScreenOK == screen \in Phases /\ known \in Snapshots \cup {Uninitialised}

ThreadsOK ==
    /\ inbox \in Seq(Messages) /\ lastSent \in Messages /\ inTime \in BOOLEAN
    /\ receiver \in {"off", "on", "done"} /\ sender \in {"off", "pop", "send", "done"}

SentInOrder ==
    /\ \A i, j \in DOMAIN inbox :
          i < j /\ inbox[i].phase # "waiting" => inbox[j].phase \notin {"waiting", "info"}
    /\ \A i \in DOMAIN inbox :
          inbox[i].phase # "waiting" => lastSent.phase # "waiting"

Round == {"buy", "attack", "ended"}

\* Either the map has come, or will not come, or is on its way before any round.
NoMapComes == mapSet \/ ~inTime

MapComes ==
    IF NoMapComes
      THEN /\ lastSent.phase # "waiting"
           /\ \A i \in DOMAIN inbox : inbox[i].phase \notin {"waiting", "info"}
      ELSE /\ screen = "waiting"
           /\ \A j \in DOMAIN inbox : inbox[j].phase \in Round =>
                 \E k \in DOMAIN inbox : k < j /\ inbox[k].phase = "info"
           /\ lastSent.phase \in Round \cup {"info"} =>
                 \E k \in DOMAIN inbox : inbox[k].phase = "info"

ShopIsShut == shopOpen => screen = "buy"

BeforeTheEnd == pc = "lobby" \/ Playing

\* Until the interface starts, nothing comes.
NothingBefore ==
    pc = "lobby" => inbox = <<>> /\ receiver = "off" /\ lastSent.phase = "waiting"

ScreensInv ==
    /\ TypeOK /\ SentInOrder /\ NothingBefore
    /\ BeforeTheEnd => MapComes /\ ShopIsShut

LEMMA TypeParts ==
    /\ TypeOK <=> LobbyOK /\ ControlsOK /\ PlaceOK /\ ScreenOK /\ ThreadsOK
    /\ TypeOK' <=> LobbyOK' /\ ControlsOK' /\ PlaceOK' /\ ScreenOK' /\ ThreadsOK'
  BY DEF TypeOK, LobbyOK, ControlsOK, PlaceOK, ScreenOK, ThreadsOK

LEMMA TypeInit ==
  Init => ScreensInv
<1> SUFFICES ASSUME Init PROVE ScreensInv
  OBVIOUS
<1> USE DEF Init
<1>1. LobbyOK
  BY DEF LobbyOK, LobbyInit, Pages
<1>2. ControlsOK /\ ShopIsShut
  BY EmptySeq DEF ControlsOK, ControlsInit, ShopIsShut
<1>3. PlaceOK /\ ScreenOK
  BY DEF PlaceOK, ScreenOK, Phases, Snapshots
<1>4. ThreadsOK
  BY DEF ThreadsOK, Messages, Snapshots, Phases
<1>5. SentInOrder /\ MapComes /\ NothingBefore
  BY DEF SentInOrder, MapComes, NoMapComes, NothingBefore, Round
<1>6. QED BY <1>1, <1>2, <1>3, <1>4, <1>5, TypeParts DEF ScreensInv

\* What a request asks says which fields it has.
LEMMA RequestFields ==
  ASSUME request \in Requests \cup {NoRequest}
  PROVE  /\ request.ask = "name" =>
               request.name \in Names /\ request.next \in {"maps", "code"}
         /\ request.ask = "join" => request.code \in Codes
         /\ request.ask \in {"name", "create", "join", "nothing"}
         /\ request.ask = "nothing" <=> request = NoRequest
  BY DEF Requests, NoRequest

\* What the lobby and the server's answers do to the lobby's variables.
LEMMA LobbyTyped ==
  ASSUME LobbyOK, LobbyNext
  PROVE  LobbyOK'
<1> USE DEF LobbyOK, windowVars, serverVars
<1>1. CASE ConnectToServer
  BY <1>1 DEF ConnectToServer, Pages
<1>2. CASE GoToLobby \/ GoToSelectSkin \/ CloseWindow
  BY <1>2 DEF GoToLobby, GoToSelectSkin, CloseWindow, Show, Pages
<1>3. ASSUME NEW next \in {"maps", "code"}, CreateOrJoinWithName(next) PROVE LobbyOK'
  BY <1>3 DEF CreateOrJoinWithName, Show, Pages
<1>4. ASSUME NEW next \in {"maps", "code"}, NEW n \in Names, CreateOrJoin(next, n)
      PROVE  LobbyOK'
  BY <1>4 DEF CreateOrJoin, Ask, Requests
<1>5. CASE CreateGameButton
  BY <1>5 DEF CreateGameButton, Ask, Requests
<1>6. ASSUME NEW c \in Codes, JoinGameButton(c) PROVE LobbyOK'
  BY <1>6 DEF JoinGameButton, Ask, Requests
<1>7. CASE ServerAnswers
  <2>1. ASSUME ServerNames PROVE serverName' \in Names \cup {Empty}
                                 /\ answer' \in Answers /\ serverGame' = serverGame
    BY <2>1 DEF ServerNames, Answer, Answers, Statuses, Refusals, Requests, NoRequest
  <2>2. ASSUME ServerCreates PROVE serverGame' \in Codes \cup {Empty}
                                   /\ answer' \in Answers /\ serverName' = serverName
    BY <2>2 DEF ServerCreates, Answer, Answers, Statuses, Refusals
  <2>3. ASSUME ServerJoins PROVE serverGame' \in Codes \cup {Empty}
                                 /\ answer' \in Answers /\ serverName' = serverName
    BY <2>3 DEF ServerJoins, Answer, Answers, Statuses, Refusals, Requests, NoRequest
  <2>4. QED BY <1>7, <2>1, <2>2, <2>3 DEF ServerAnswers
<1>8. CASE ReadName
  BY <1>8, RequestFields DEF ReadName, Answered, Done, NamedAs, Pages
<1>9. CASE ReadCreation
  BY <1>9 DEF ReadCreation, Answered, Done, Answers, Statuses, NoAnswer, Pages
<1>10. CASE ReadJoining
  BY <1>10, RequestFields DEF ReadJoining, Answered, Done, Pages
<1>11. CASE LoseServer
  BY <1>11 DEF LoseServer, Done, Pages
<1>12. QED
  BY <1>1, <1>2, <1>3, <1>4, <1>5, <1>6, <1>7, <1>8, <1>9, <1>10, <1>11 DEF LobbyNext

\* What an event does to the keys, the shop and the queue of commands.
LEMMA ControlsTyped ==
  ASSUME ControlsOK, NEW s, NEW i,
         \/ i \in Inputs /\ (Press(s, i) \/ Release(s, i) \/ Repeat(s, i))
         \/ Aim(s) \/ OpenOrCloseShop(s) \/ Click(s)
  PROVE  /\ ControlsOK'
         /\ shopOpen' => shopOpen \/ s = "buy"
<1> DEFINE Sendable == CommandsOf(Inputs \cup Items \cup {"mouse"})
<1> USE DEF ControlsOK
<1>0. \A x \in Inputs \cup Items \cup {"mouse"} :
         Command(x, TRUE) \in Sendable /\ Command(x, FALSE) \in Sendable
  BY DEF Command, CommandsOf
<1>1. \A c \in Sendable : Push(c) => commands' \in Seq(Sendable)
  <2> HIDE DEF Sendable
  <2>1. commands \in Seq(Sendable)
    BY DEF Sendable
  <2>2. QED BY <2>1 DEF Push
<1>2. /\ i \in Inputs => Flag(s, i) \in Flags /\ (i # "left" => i \in Flags)
      /\ "click_buy" \in Flags
  BY DEF Flag, Flags
<1> HIDE DEF Sendable
<1>3. CASE i \in Inputs /\ Press(s, i)
  BY <1>0, <1>1, <1>2, <1>3 DEF Press, Sendable
<1>4. CASE i \in Inputs /\ Release(s, i)
  BY <1>0, <1>1, <1>2, <1>4 DEF Release, Sendable
<1>5. CASE i \in Inputs /\ Repeat(s, i)
  BY <1>0, <1>1, <1>2, <1>5 DEF Repeat, Sendable
<1>6. CASE Aim(s)
  BY <1>0, <1>1, <1>6 DEF Aim, Sendable
<1>7. CASE OpenOrCloseShop(s)
  BY <1>7 DEF OpenOrCloseShop
<1>8. CASE Click(s)
  BY <1>0, <1>1, <1>2, <1>8 DEF Click, InteractButton, Sendable
<1>9. QED BY <1>3, <1>4, <1>5, <1>6, <1>7, <1>8

\* The kinds of messages.
LEMMA MessageKinds ==
  ASSUME NEW m \in Messages
  PROVE  /\ m.phase \in Phases \cup {"info", "over"}
         /\ m.phase \in Phases <=> m \in Snapshots
         /\ m.phase = "waiting" <=> m \in [phase : {"waiting"}, time : BOOLEAN]
         /\ m.phase = "info" <=> m = InitialInfo
         /\ m.phase = "over" <=> m = GameEnded
<1>1. /\ InitialInfo.phase = "info" /\ GameEnded.phase = "over"
      /\ \A s \in Snapshots : s.phase \in Phases
      /\ \A s \in [phase : {"waiting"}, time : BOOLEAN] : s.phase = "waiting"
  BY DEF InitialInfo, GameEnded, Snapshots, Phases
<1>2. m \in Snapshots \/ m = InitialInfo \/ m = GameEnded
  BY DEF Messages
<1>3. "info" \notin Phases /\ "over" \notin Phases /\ "waiting" \in Phases
  BY DEF Phases
<1>4. ASSUME m \in Snapshots, m.phase = "waiting"
      PROVE  m \in [phase : {"waiting"}, time : BOOLEAN]
  BY <1>4 DEF Snapshots
<1>5. QED BY <1>1, <1>2, <1>3, <1>4

LEMMA SnapshotsAreMessages ==
  Snapshots \subseteq Messages
  BY DEF Messages

\* What is left of the inbox when its first messages are taken.
LEMMA TookRest ==
  ASSUME inbox \in Seq(Messages), NEW n \in DOMAIN inbox, Took(n)
  PROVE  /\ inbox' \in Seq(Messages)
         /\ \A i \in DOMAIN inbox' : i + n \in DOMAIN inbox /\ inbox'[i] = inbox[i + n]
         /\ \A i \in DOMAIN inbox :
               i > n => i - n \in DOMAIN inbox' /\ inbox'[i - n] = inbox[i]
<1>1. inbox' = SubSeq(inbox, n + 1, Len(inbox)) /\ n \in 1 .. Len(inbox)
      /\ Len(inbox) \in Nat
  BY DEF Took
<1>2. inbox' \in Seq(Messages) /\ Len(inbox') = Len(inbox) - n
      /\ \A i \in 1 .. Len(inbox) - n : inbox'[i] = inbox[n + i]
  BY <1>1, SubSeqProperties
<1>3. DOMAIN inbox' = 1 .. Len(inbox) - n /\ DOMAIN inbox = 1 .. Len(inbox)
  BY <1>2
<1>4. ASSUME NEW i \in DOMAIN inbox' PROVE i + n \in DOMAIN inbox /\ inbox'[i] = inbox[i + n]
  BY <1>1, <1>2, <1>3, <1>4
<1>5. ASSUME NEW i \in DOMAIN inbox, i > n
      PROVE  i - n \in DOMAIN inbox' /\ inbox'[i - n] = inbox[i]
  <2>1. i - n \in 1 .. Len(inbox) - n /\ n + (i - n) = i
    BY <1>1, <1>3, <1>5
  <2>2. QED BY <2>1, <1>2, <1>3
<1>6. QED BY <1>2, <1>4, <1>5

\* Taking messages keeps the order of the others.
LEMMA TookKeepsOrder ==
  ASSUME inbox \in Seq(Messages), SentInOrder, lastSent' = lastSent,
         inbox' = <<>> \/ \E n \in DOMAIN inbox : Took(n)
  PROVE  SentInOrder' /\ inbox' \in Seq(Messages)
<1>1. CASE inbox' = <<>>
  BY <1>1, EmptySeq DEF SentInOrder
<1>2. ASSUME NEW n \in DOMAIN inbox, Took(n) PROVE SentInOrder' /\ inbox' \in Seq(Messages)
  <2>1. inbox' \in Seq(Messages)
        /\ \A i \in DOMAIN inbox' : i + n \in DOMAIN inbox /\ inbox'[i] = inbox[i + n]
    BY <1>2, TookRest
  <2>2. n \in Nat /\ \A i \in DOMAIN inbox' : i \in Nat
    BY <2>1
  <2>3. ASSUME NEW i \in DOMAIN inbox', NEW j \in DOMAIN inbox', i < j,
               inbox'[i].phase # "waiting"
        PROVE  inbox'[j].phase \notin {"waiting", "info"}
    <3>1. i + n < j + n /\ i + n \in DOMAIN inbox /\ j + n \in DOMAIN inbox
      BY <2>1, <2>2, <2>3
    <3>2. QED BY <3>1, <2>1, <2>3 DEF SentInOrder
  <2>4. ASSUME NEW i \in DOMAIN inbox', inbox'[i].phase # "waiting"
        PROVE  lastSent'.phase # "waiting"
    BY <2>1, <2>4 DEF SentInOrder
  <2>5. QED BY <2>1, <2>3, <2>4 DEF SentInOrder
<1>3. QED BY <1>1, <1>2

\* A new message keeps the order, and the map on its way.
LEMMA ReceivedInOrder ==
  ASSUME ThreadsOK, SentInOrder, ReceiveGameDto
  PROVE  ThreadsOK' /\ SentInOrder' /\ (MapComes => MapComes')
<1>1. PICK m \in Messages : Follows(m) /\ lastSent' = m /\ inbox' = Append(inbox, m)
  BY DEF ReceiveGameDto
<1>2. /\ inbox' \in Seq(Messages) /\ DOMAIN inbox = 1 .. Len(inbox) /\ Len(inbox) \in Nat
      /\ DOMAIN inbox' = 1 .. Len(inbox) + 1
      /\ inbox'[Len(inbox) + 1] = m
      /\ \A i \in DOMAIN inbox : i \in DOMAIN inbox' /\ inbox'[i] = inbox[i]
  BY <1>1 DEF ThreadsOK
<1>3. ThreadsOK'
  BY <1>1, <1>2 DEF ThreadsOK, ReceiveGameDto
<1>4. /\ lastSent.phase = "waiting" => m.phase \in {"waiting", "info", "over"}
      /\ lastSent.phase # "waiting" => m.phase \in Round \cup {"over"}
      /\ m.phase \in Round => lastSent.phase \in Round \cup {"info"}
  <2>1. lastSent.phase \in Phases \cup {"info", "over"}
    BY MessageKinds DEF ThreadsOK
  <2>2. QED BY <1>1, <2>1 DEF Follows, Round, Phases, InitialInfo, GameEnded
<1>5. SentInOrder'
  <2>1. ASSUME NEW i \in DOMAIN inbox', NEW j \in DOMAIN inbox', i < j,
               inbox'[i].phase # "waiting"
        PROVE  inbox'[j].phase \notin {"waiting", "info"}
    <3>1. i \in DOMAIN inbox
      BY <1>2, <2>1
    <3>2. CASE j \in DOMAIN inbox
      BY <1>2, <2>1, <3>1, <3>2 DEF SentInOrder
    <3>3. CASE j = Len(inbox) + 1
      <4>1. lastSent.phase # "waiting"
        BY <1>2, <2>1, <3>1 DEF SentInOrder
      <4>2. QED BY <1>2, <1>4, <3>3, <4>1 DEF Round
    <3>4. QED BY <1>2, <3>2, <3>3
  <2>2. ASSUME NEW i \in DOMAIN inbox', inbox'[i].phase # "waiting"
        PROVE  m.phase # "waiting"
    <3>1. CASE i = Len(inbox) + 1
      BY <1>2, <2>2, <3>1
    <3>2. CASE i \in DOMAIN inbox
      <4>1. lastSent.phase # "waiting"
        BY <1>2, <2>2, <3>2 DEF SentInOrder
      <4>2. QED BY <1>4, <4>1 DEF Round
    <3>3. QED BY <1>2, <3>1, <3>2
  <2>3. QED BY <1>1, <2>1, <2>2 DEF SentInOrder
<1>6. ASSUME MapComes PROVE MapComes'
  <2>1. mapSet' = mapSet /\ screen' = screen /\ NoMapComes' = NoMapComes
    BY DEF ReceiveGameDto, uiVars, NoMapComes
  <2>2. CASE NoMapComes
    <3>1. lastSent.phase # "waiting"
          /\ \A i \in DOMAIN inbox : inbox[i].phase \notin {"waiting", "info"}
      BY <1>6, <2>2 DEF MapComes
    <3>2. m.phase \notin {"waiting", "info"}
      BY <1>4, <3>1 DEF Round
    <3>3. \A i \in DOMAIN inbox' : inbox'[i].phase \notin {"waiting", "info"}
      BY <1>2, <3>1, <3>2
    <3>4. QED BY <1>1, <2>1, <2>2, <3>2, <3>3 DEF MapComes
  <2>3. CASE ~NoMapComes
    <3>1. /\ screen = "waiting"
          /\ \A j \in DOMAIN inbox : inbox[j].phase \in Round =>
                \E k \in DOMAIN inbox : k < j /\ inbox[k].phase = "info"
          /\ lastSent.phase \in Round \cup {"info"} =>
                \E k \in DOMAIN inbox : inbox[k].phase = "info"
      BY <1>6, <2>3 DEF MapComes
    <3>2. ASSUME m.phase \in Round
          PROVE  \E k \in DOMAIN inbox' : k < Len(inbox) + 1 /\ inbox'[k].phase = "info"
      <4>1. PICK k \in DOMAIN inbox : inbox[k].phase = "info"
        BY <1>4, <3>1, <3>2
      <4>2. QED BY <1>2, <4>1
    <3>3. ASSUME m.phase = "info" PROVE \E k \in DOMAIN inbox' : inbox'[k].phase = "info"
      BY <1>2, <3>3
    <3>4. ASSUME NEW j \in DOMAIN inbox', inbox'[j].phase \in Round
          PROVE  \E k \in DOMAIN inbox' : k < j /\ inbox'[k].phase = "info"
      <4>1. CASE j = Len(inbox) + 1
        BY <1>2, <3>2, <3>4, <4>1
      <4>2. CASE j \in DOMAIN inbox
        BY <1>2, <3>1, <3>4, <4>2
      <4>3. QED BY <1>2, <4>1, <4>2
    <3>5. QED BY <1>1, <2>1, <2>3, <3>1, <3>2, <3>3, <3>4 DEF MapComes
  <2>4. QED BY <2>2, <2>3
<1>7. QED BY <1>3, <1>5, <1>6

\* What the loop has read last is a snapshot, or what was known before it.
LEMMA LastReadIsKnown ==
  ASSUME inbox \in Seq(Messages), NEW S \in SUBSET Snapshots,
         known \in Snapshots \cup {Uninitialised}
  PROVE  LocalInfo(IF FirstNot(S) = 0 THEN inbox ELSE SubSeq(inbox, 1, FirstNot(S) - 1),
                   known) \in Snapshots \cup {Uninitialised}
<1> DEFINE n == FirstNot(S)
<1>1. \/ n = 0 /\ \A k \in DOMAIN inbox : inbox[k] \in S
      \/ n \in DOMAIN inbox /\ \A k \in DOMAIN inbox : k < n => inbox[k] \in S
  BY FirstNotIsFirst
<1> HIDE DEF n
<1>2. DOMAIN inbox = 1 .. Len(inbox) /\ Len(inbox) \in Nat
  OBVIOUS
<1>3. CASE n = 0
  <2>1. inbox # <<>> => inbox[Len(inbox)] \in S
    BY <1>1, <1>2, <1>3
  <2>2. QED BY <1>3, <2>1 DEF LocalInfo, n
<1>4. CASE n \in DOMAIN inbox /\ n # 0
  <2> DEFINE read == SubSeq(inbox, 1, n - 1)
  <2>1. read \in Seq(Messages) /\ Len(read) = n - 1
        /\ \A i \in 1 .. n - 1 : read[i] = inbox[i]
    BY <1>2, <1>4, SubSeqProperties
  <2>2. read # <<>> => read[Len(read)] \in S
    <3> HIDE DEF read
    <3>1. SUFFICES ASSUME read # <<>> PROVE read[Len(read)] \in S
      OBVIOUS
    <3>2. n - 1 \in 1 .. n - 1 /\ n - 1 \in DOMAIN inbox /\ n - 1 < n
      BY <1>2, <1>4, <2>1, <3>1
    <3>3. QED BY <1>1, <1>4, <2>1, <3>2
  <2>3. QED BY <1>4, <2>2 DEF LocalInfo, n
<1>5. QED BY <1>1, <1>3, <1>4

\* Waiting, the first message that stops the loop is the map, the end of the
\* match or, the map being there, a round.
LEMMA WaitingKeeps ==
  ASSUME ThreadsOK, ScreenOK, SentInOrder, MapComes, UpdateWaiting
  PROVE  /\ ThreadsOK' /\ ScreenOK' /\ PlaceOK' /\ SentInOrder'
         /\ MapComes'
<1> DEFINE S == [phase : {"waiting"}, time : BOOLEAN]
           n == FirstNot(S)
           last == LocalInfo(IF n = 0 THEN inbox ELSE SubSeq(inbox, 1, n - 1), known)
<1>1. S \subseteq Snapshots
  BY DEF Snapshots, Phases
<1>2. last \in Snapshots \cup {Uninitialised}
  BY <1>1, LastReadIsKnown DEF ThreadsOK, ScreenOK
<1>3. \/ n = 0 /\ \A k \in DOMAIN inbox : inbox[k] \in S
      \/ /\ n \in DOMAIN inbox /\ inbox[n] \notin S
         /\ \A k \in DOMAIN inbox : k < n => inbox[k] \in S
  BY FirstNotIsFirst DEF ThreadsOK
<1>4. \A k \in DOMAIN inbox : inbox[k] \in S <=> inbox[k].phase = "waiting"
  BY MessageKinds DEF ThreadsOK
<1>5. /\ \/ n = 0 /\ inbox' = <<>> /\ known' = last /\ UNCHANGED <<screen, mapSet>>
         \/ n > 0 /\ inbox[n] = InitialInfo /\ Took(n) /\ known' = last
            /\ mapSet' = TRUE /\ UNCHANGED screen
         \/ n > 0 /\ inbox[n] = GameEnded /\ Took(n) /\ known' = last
            /\ UNCHANGED <<screen, mapSet>>
         \/ n > 0 /\ inbox[n] # InitialInfo /\ inbox[n] # GameEnded /\ Took(n)
            /\ known' = inbox[n] /\ screen' = inbox[n].phase /\ UNCHANGED mapSet
      /\ screen = "waiting" /\ pc' \in {"events", "close", "stats"}
      /\ UNCHANGED <<lastSent, inTime, receiver, sender>>
  BY <1>3 DEF UpdateWaiting, Updating, serverSays, Continues, Ends, TryPopThrows,
              AfterRun, ChangePhase
<1> HIDE DEF S, n, last
<1>6. inbox \in Seq(Messages) /\ lastSent \in Messages
      /\ DOMAIN inbox = 1 .. Len(inbox) /\ Len(inbox) \in Nat
  BY DEF ThreadsOK
<1>7. SentInOrder' /\ ThreadsOK' /\ PlaceOK'
  <2>1. inbox' = <<>> \/ \E k \in DOMAIN inbox : Took(k)
    BY <1>3, <1>5
  <2>2. SentInOrder' /\ inbox' \in Seq(Messages)
    BY <2>1, <1>5, <1>6, TookKeepsOrder
  <2>3. QED BY <2>2, <1>5 DEF ThreadsOK, PlaceOK
<1>8. CASE n = 0 /\ inbox' = <<>> /\ known' = last /\ UNCHANGED <<screen, mapSet>>
  <2>1. ScreenOK'
    BY <1>2, <1>8 DEF ScreenOK
  <2>2. \A k \in DOMAIN inbox : inbox[k].phase = "waiting"
    BY <1>3, <1>4, <1>6, <1>8
  <2>3. MapComes'
    BY <1>5, <1>8, <2>2 DEF MapComes, NoMapComes
  <2>4. QED BY <1>7, <2>1, <2>3
<1>9. CASE n > 0 /\ inbox[n] = InitialInfo /\ Took(n) /\ known' = last
           /\ mapSet' = TRUE /\ UNCHANGED screen
  <2>1. ScreenOK'
    BY <1>2, <1>9 DEF ScreenOK
  <2>2. n \in DOMAIN inbox /\ inbox[n].phase = "info"
    BY <1>3, <1>9 DEF InitialInfo
  <2>3. lastSent.phase # "waiting"
    BY <2>2 DEF SentInOrder
  <2>4. ASSUME NEW i \in DOMAIN inbox' PROVE inbox'[i].phase \notin {"waiting", "info"}
    <3>1. i + n \in DOMAIN inbox /\ inbox'[i] = inbox[i + n] /\ i \in Nat /\ i > 0
      <4>1. inbox' \in Seq(Messages)
        BY <1>7 DEF ThreadsOK
      <4>2. QED BY <4>1, <1>6, <1>9, <2>2, TookRest
    <3>2. n < i + n
      BY <3>1, <2>2, <1>6
    <3>3. QED BY <3>1, <3>2, <2>2 DEF SentInOrder
  <2>5. MapComes'
    BY <1>5, <1>9, <2>3, <2>4 DEF MapComes, NoMapComes
  <2>6. QED BY <1>7, <2>1, <2>5
<1>10. ASSUME n > 0, inbox[n] # InitialInfo, Took(n), UNCHANGED mapSet,
              inbox[n].phase = "over" => screen' = screen
       PROVE  MapComes'
  <2>1. n \in DOMAIN inbox /\ inbox[n].phase \in Round \cup {"over"}
    <3>1. n \in DOMAIN inbox /\ inbox[n].phase # "waiting" /\ inbox[n].phase # "info"
      BY <1>3, <1>4, <1>6, <1>10, MessageKinds
    <3>2. QED BY <3>1, <1>6, MessageKinds DEF Round, Phases
  <2>2. /\ inbox' \in Seq(Messages)
        /\ \A i \in DOMAIN inbox' : i + n \in DOMAIN inbox /\ inbox'[i] = inbox[i + n]
        /\ \A i \in DOMAIN inbox :
              i > n => i - n \in DOMAIN inbox' /\ inbox'[i - n] = inbox[i]
    BY <1>6, <1>10, <2>1, TookRest
  <2>3. CASE NoMapComes
    BY <1>5, <1>10, <2>2, <2>3 DEF MapComes, NoMapComes
  <2>4. CASE ~NoMapComes
    <3>1. inbox[n].phase \notin Round
      <4>1. SUFFICES ASSUME inbox[n].phase \in Round PROVE FALSE
        OBVIOUS
      <4>2. PICK k \in DOMAIN inbox : k < n /\ inbox[k].phase = "info"
        BY <2>1, <2>4, <4>1 DEF MapComes
      <4>3. inbox[k].phase = "waiting"
        BY <1>3, <1>4, <1>10, <4>2
      <4>4. QED BY <4>2, <4>3
    <3>2. inbox[n].phase = "over" /\ screen' = "waiting"
      BY <1>5, <1>10, <2>1, <3>1
    <3>3. \A i \in DOMAIN inbox : i <= n => inbox[i].phase # "info"
      BY <1>3, <1>4, <1>6, <2>1, <3>2
    <3>4. ASSUME NEW j \in DOMAIN inbox', inbox'[j].phase \in Round
          PROVE  \E k \in DOMAIN inbox' : k < j /\ inbox'[k].phase = "info"
      <4>1. j \in Nat /\ j + n \in DOMAIN inbox /\ inbox[j + n].phase \in Round
        BY <2>2, <3>4
      <4>2. PICK k \in DOMAIN inbox : k < j + n /\ inbox[k].phase = "info"
        BY <2>4, <4>1 DEF MapComes
      <4>3. k > n /\ k \in Nat /\ n \in Nat
        BY <1>6, <2>1, <3>3, <4>2
      <4>4. k - n \in DOMAIN inbox' /\ inbox'[k - n].phase = "info" /\ k - n < j
        BY <2>2, <4>1, <4>2, <4>3
      <4>5. QED BY <4>4
    <3>5. ASSUME lastSent.phase \in Round \cup {"info"}
          PROVE  \E k \in DOMAIN inbox' : inbox'[k].phase = "info"
      <4>1. PICK k \in DOMAIN inbox : inbox[k].phase = "info"
        BY <2>4, <3>5 DEF MapComes
      <4>2. k > n
        BY <1>6, <2>1, <3>3, <4>1
      <4>3. QED BY <2>2, <4>1, <4>2
    <3>6. QED BY <1>5, <1>10, <2>4, <3>2, <3>4, <3>5 DEF MapComes, NoMapComes
  <2>5. QED BY <2>3, <2>4
<1>11. CASE n > 0 /\ inbox[n] = GameEnded /\ Took(n) /\ known' = last
            /\ UNCHANGED <<screen, mapSet>>
  <2>1. ScreenOK'
    BY <1>2, <1>11 DEF ScreenOK
  <2>2. inbox[n] # InitialInfo
    BY <1>11 DEF InitialInfo, GameEnded
  <2>3. QED BY <1>7, <1>10, <1>11, <2>1, <2>2
<1>12. CASE n > 0 /\ inbox[n] # InitialInfo /\ inbox[n] # GameEnded /\ Took(n)
            /\ known' = inbox[n] /\ screen' = inbox[n].phase /\ UNCHANGED mapSet
  <2>1. n \in DOMAIN inbox /\ inbox[n] \in Messages
    BY <1>3, <1>6, <1>12
  <2>2. inbox[n] \in Snapshots /\ inbox[n].phase \in Phases /\ inbox[n].phase # "over"
    BY <1>12, <2>1, MessageKinds
  <2>3. ScreenOK'
    BY <1>12, <2>2 DEF ScreenOK
  <2>4. QED BY <1>7, <1>10, <1>12, <2>2, <2>3
<1>13. QED BY <1>5, <1>8, <1>9, <1>11, <1>12

\* On the other screens the map is there, or will not come: no InitialInfo is
\* met any more.
LEMMA UpdateKeeps ==
  ASSUME ThreadsOK, ScreenOK, SentInOrder, MapComes, ShopIsShut, Update
  PROVE  /\ ThreadsOK' /\ ScreenOK' /\ PlaceOK' /\ SentInOrder'
         /\ MapComes' /\ ShopIsShut'
<1>1. /\ NoMapComes /\ lastSent.phase # "waiting"
      /\ \A i \in DOMAIN inbox : inbox[i].phase \notin {"waiting", "info"}
  BY DEF Update, MapComes
<1>2. /\ inbox \in Seq(Messages) /\ lastSent \in Messages
      /\ DOMAIN inbox = 1 .. Len(inbox) /\ Len(inbox) \in Nat
  BY DEF ThreadsOK
<1>3. /\ screen # "waiting" /\ UNCHANGED <<serverSays, receiver, sender, mapSet>>
      /\ inbox' = <<>> \/ \E k \in DOMAIN inbox : Took(k)
      /\ pc' \in {"events", "close", "stats"}
      /\ \/ /\ IsLeaving /\ known' = Head(inbox) /\ screen' = Head(inbox).phase
            /\ IF screen = "buy" THEN shopOpen' = FALSE ELSE UNCHANGED shopOpen
         \/ UNCHANGED <<screen, shopOpen>>
  <2>1. CASE IsLeaving /\ LeavesScreen
    <3>1. 1 \in DOMAIN inbox /\ \E k \in DOMAIN inbox : k = 1
      BY <1>2, <2>1 DEF IsLeaving
    <3>2. /\ known' = Head(inbox) /\ screen' = Head(inbox).phase /\ Took(1)
          /\ IF screen = "buy" THEN shopOpen' = FALSE ELSE UNCHANGED shopOpen
          /\ pc' = "events" /\ UNCHANGED mapSet
      BY <2>1 DEF LeavesScreen, ChangePhase, Continues, ShopClosed
    <3>3. screen # "waiting" /\ UNCHANGED <<serverSays, receiver, sender>>
      BY DEF Update, Updating
    <3>4. QED BY <2>1, <3>1, <3>2, <3>3
  <2>2. CASE Drains
    <3>1. FirstNot(Snapshots) > 0 => FirstNot(Snapshots) \in DOMAIN inbox
      BY <1>2, FirstNotIsFirst
    <3>2. \/ inbox' = <<>>
          \/ FirstNot(Snapshots) > 0 /\ Took(FirstNot(Snapshots))
      BY <2>2 DEF Drains, Ends, TryPopThrows
    <3>3. pc' \in {"events", "close", "stats"} /\ UNCHANGED <<screen, mapSet, shopOpen>>
      BY <2>2 DEF Drains, Draws, Unwinds, Continues, Ends, TryPopThrows, AfterRun
    <3>4. QED BY <3>1, <3>2, <3>3 DEF Update, Updating
  <2>3. CASE VariantThrows
    BY <2>3 DEF Update, Updating, VariantThrows, Unwinds
  <2>4. QED BY <2>1, <2>2, <2>3 DEF Update
<1>4. SentInOrder' /\ inbox' \in Seq(Messages)
  BY <1>2, <1>3, TookKeepsOrder DEF serverSays
<1>5. ThreadsOK' /\ PlaceOK'
  BY <1>3, <1>4 DEF ThreadsOK, PlaceOK, serverSays
<1>6. IsLeaving => Head(inbox) \in Snapshots /\ Head(inbox).phase \in Phases
  <2>1. SUFFICES ASSUME IsLeaving PROVE Head(inbox).phase \in Phases
                                        /\ Head(inbox) \in Messages
    BY MessageKinds
  <2>2. Head(inbox) = inbox[1] /\ 1 \in DOMAIN inbox /\ inbox[1] \in Messages
    BY <1>2, <2>1 DEF IsLeaving
  <2>3. inbox[1].phase \notin {"info", "over"}
    BY <1>1, <2>1, <2>2, MessageKinds DEF IsLeaving
  <2>4. QED BY <2>2, <2>3, MessageKinds
<1>7. ScreenOK'
  <2>1. screen' \in Phases
    BY <1>3, <1>6 DEF ScreenOK
  <2>2. known' \in Snapshots \cup {Uninitialised}
    <3>1. CASE IsLeaving /\ LeavesScreen
      BY <1>6, <3>1 DEF LeavesScreen
    <3>2. CASE Drains
      <4>1. LocalInfo(IF FirstNot(Snapshots) = 0 THEN inbox
                        ELSE SubSeq(inbox, 1, FirstNot(Snapshots) - 1), known)
              \in Snapshots \cup {Uninitialised}
        BY <1>2, LastReadIsKnown DEF ScreenOK
      <4>2. FirstNot(Snapshots) = 0 \/ FirstNot(Snapshots) > 0
        BY <1>2, FirstNotIsFirst
      <4>3. known' = LocalInfo(IF FirstNot(Snapshots) = 0 THEN inbox
                                 ELSE SubSeq(inbox, 1, FirstNot(Snapshots) - 1), known)
            \/ known' = known \/ known' = Uninitialised
        BY <3>2, <4>2 DEF Drains
      <4>4. QED BY <4>1, <4>3 DEF ScreenOK
    <3>3. CASE VariantThrows
      BY <3>3 DEF VariantThrows, ScreenOK
    <3>4. QED BY <3>1, <3>2, <3>3 DEF Update
  <2>3. QED BY <2>1, <2>2 DEF ScreenOK
<1>8. MapComes'
  <2>1. CASE inbox' = <<>>
    BY <1>1, <1>3, <2>1 DEF MapComes, NoMapComes, serverSays
  <2>2. ASSUME NEW k \in DOMAIN inbox, Took(k) PROVE MapComes'
    <3>1. \A i \in DOMAIN inbox' : i + k \in DOMAIN inbox /\ inbox'[i] = inbox[i + k]
      BY <1>2, <2>2, TookRest
    <3>2. QED BY <1>1, <1>3, <3>1 DEF MapComes, NoMapComes, serverSays
  <2>3. QED BY <1>3, <2>1, <2>2
<1>9. ShopIsShut'
  BY <1>3 DEF ShopIsShut
<1>10. QED BY <1>4, <1>5, <1>7, <1>8, <1>9

-----------------------------------------------------------------------------
\* Every step keeps the types, the order and the map.
LEMMA ScreensNext ==
  ASSUME ScreensInv, [Next]_vars
  PROVE  ScreensInv'
<1> USE DEF ScreensInv
<1>0. LobbyOK /\ ControlsOK /\ PlaceOK /\ ScreenOK /\ ThreadsOK /\ SentInOrder
  BY TypeParts
<1>1. ASSUME UNCHANGED <<inbox, lastSent>> PROVE SentInOrder'
  BY <1>0, <1>1 DEF SentInOrder
<1>2. ASSUME UNCHANGED <<inbox, serverSays, mapSet, screen, shopOpen>>,
             BeforeTheEnd' => BeforeTheEnd
      PROVE  BeforeTheEnd' => MapComes' /\ ShopIsShut'
  BY <1>2 DEF MapComes, NoMapComes, ShopIsShut, serverSays
<1>3. ASSUME UNCHANGED controlVars PROVE ControlsOK'
  BY <1>0, <1>3 DEF controlVars, inputVars, ControlsOK
<1>4. ASSUME UNCHANGED threadVars PROVE ThreadsOK'
  BY <1>0, <1>4 DEF threadVars, serverSays, ThreadsOK
<1>5. ASSUME UNCHANGED uiVars PROVE PlaceOK' /\ ScreenOK' /\ (BeforeTheEnd' => BeforeTheEnd)
  BY <1>0, <1>5 DEF uiVars, PlaceOK, ScreenOK, BeforeTheEnd, Playing
<1>6. ASSUME UNCHANGED lobbyVars PROVE LobbyOK'
  BY <1>0, <1>6 DEF lobbyVars, windowVars, serverVars, LobbyOK
<1>A. NothingBefore'
  <2>1. CASE pc' = "lobby"
    <3>1. pc = "lobby" /\ UNCHANGED <<inbox, receiver, lastSent>>
      BY <2>1
         DEF Next, vars, uiVars, threadVars, serverSays, InLobby, Disconnected, Receiver,
             ReceiveGameDto, ReceiverEnds, NothingBefore, Sender, PopCommand, SendCommand,
             SenderFails, SenderEnds, SenderGoes, Interface, InterfaceGoesOn, StartGameUI,
             HandleEvent, EventsHandled, Quit, PushThrows, UpdateWaiting, Update, Updating,
             LeavesScreen, VariantThrows, Unwinds, Drains, Draws, Continues, Ends,
             TryPopThrows, AfterRun, StatsShown, CloseProtocol, JoinReceiver,
             CloseSenderQueue, JoinSender, Goes
    <3>2. QED BY <3>1 DEF NothingBefore
  <2>2. QED BY <2>1 DEF NothingBefore
<1> USE DEF controlVars, inputVars, threadVars, serverSays, uiVars, lobbyVars, windowVars,
            serverVars
<1>7. CASE UNCHANGED vars
  BY <1>7, <1>1, <1>2, <1>3, <1>4, <1>5, <1>6, <1>A, TypeParts DEF vars
<1>8. CASE InLobby
  <2>1. LobbyOK'
    BY <1>0, <1>8, LobbyTyped DEF InLobby
  <2>2. QED BY <1>8, <2>1, <1>1, <1>2, <1>3, <1>4, <1>5, <1>A, TypeParts DEF InLobby
<1>9. CASE Disconnected
  <2>1. LobbyOK'
    BY <1>0, <1>9 DEF Disconnected, LoseLink, LobbyOK
  <2>2. QED BY <1>9, <2>1, <1>1, <1>2, <1>3, <1>4, <1>5, <1>A, TypeParts DEF Disconnected
<1>10. CASE ReceiveGameDto
  <2>1. ThreadsOK' /\ SentInOrder' /\ (MapComes => MapComes')
    BY <1>0, <1>10, ReceivedInOrder
  <2>2. UNCHANGED <<lobbyVars, controlVars, uiVars>>
    BY <1>10 DEF ReceiveGameDto
  <2>3. QED BY <2>1, <2>2, <1>3, <1>5, <1>6, <1>A, TypeParts DEF ShopIsShut
<1>11. CASE ReceiverEnds
  <2>1. ThreadsOK'
    BY <1>0, <1>11 DEF ReceiverEnds, ThreadsOK
  <2>2. QED BY <1>11, <2>1, <1>1, <1>2, <1>3, <1>5, <1>6, <1>A, TypeParts DEF ReceiverEnds
<1>12. CASE Sender
  <2>1. /\ sender' \in {"pop", "send", "done"}
        /\ UNCHANGED <<lobbyVars, inputVars, uiVars, inbox, inboxClosed, receiver,
                       serverSays>>
        /\ commands' = commands \/ (commands # <<>> /\ commands' = Tail(commands))
    BY <1>12 DEF Sender, PopCommand, SendCommand, SenderFails, SenderEnds, SenderGoes
  <2>2. ThreadsOK'
    BY <1>0, <2>1 DEF ThreadsOK
  <2>3. ControlsOK'
    <3> DEFINE Sendable == CommandsOf(Inputs \cup Items \cup {"mouse"})
    <3>1. commands \in Seq(Sendable)
      BY <1>0 DEF ControlsOK
    <3>2. commands' \in Seq(Sendable)
      <4> HIDE DEF Sendable
      <4>1. QED BY <2>1, <3>1
    <3>3. QED BY <1>0, <2>1, <3>2 DEF ControlsOK
  <2>4. QED BY <2>1, <2>2, <2>3, <1>1, <1>2, <1>5, <1>6, <1>A, TypeParts
<1>13. CASE StartGameUI
  <2>1. LobbyOK' /\ PlaceOK' /\ ThreadsOK' /\ ScreenOK'
    BY <1>0, <1>13 DEF StartGameUI, Registered, LobbyOK, PlaceOK, ThreadsOK, ScreenOK
  <2>2. /\ BeforeTheEnd /\ UNCHANGED <<controlVars, inbox, mapSet, screen>>
        /\ UNCHANGED serverSays \/ \E m \in Messages : Registered(m)
    BY <1>13 DEF StartGameUI, BeforeTheEnd
  <2>3. inbox = <<>> /\ ~mapSet /\ inTime /\ screen = "waiting"
    BY <1>13, <2>2 DEF NothingBefore, MapComes, NoMapComes, StartGameUI
  <2>4. inbox' = <<>> /\ screen' = "waiting" /\ ~mapSet'
        /\ inTime' = (lastSent'.phase = "waiting")
    <3>1. inbox' = <<>> /\ screen' = "waiting" /\ ~mapSet'
      BY <2>2, <2>3
    <3>2. lastSent.phase = "waiting"
      BY <1>13 DEF NothingBefore, StartGameUI
    <3>3. CASE UNCHANGED serverSays
      BY <2>3, <3>1, <3>2, <3>3
    <3>4. CASE \E m \in Messages : Registered(m)
      BY <3>1, <3>4 DEF Registered
    <3>5. QED BY <2>2, <3>3, <3>4
  <2>5. SentInOrder'
    BY <2>4 DEF SentInOrder
  <2>6. MapComes'
    <3>1. DOMAIN inbox' = {}
      BY <2>4
    <3>2. CASE lastSent'.phase = "waiting"
      BY <2>4, <3>1, <3>2 DEF MapComes, NoMapComes, Round
    <3>3. CASE lastSent'.phase # "waiting"
      <4>1. inTime' = FALSE
        BY <2>4, <3>3
      <4>2. QED BY <3>1, <3>3, <4>1 DEF MapComes, NoMapComes
    <3>4. QED BY <3>2, <3>3
  <2>7. QED BY <2>1, <2>2, <2>5, <2>6, <1>3, <1>A, TypeParts DEF ShopIsShut
<1>14. CASE HandleEvent
  <2>1. PICK i : \/ i \in Inputs /\ (Press(screen, i) \/ Release(screen, i) \/ Repeat(screen, i))
                 \/ Aim(screen) \/ OpenOrCloseShop(screen) \/ Click(screen)
    BY <1>14 DEF HandleEvent
  <2>2. ControlsOK' /\ (shopOpen' => shopOpen \/ screen = "buy")
    BY <1>0, <1>14, ControlsTyped DEF HandleEvent
  <2>3. UNCHANGED <<lobbyVars, uiVars, threadVars>>
    BY <1>14 DEF HandleEvent
  <2>4. BeforeTheEnd' => MapComes' /\ ShopIsShut'
    BY <2>2, <2>3, <1>5 DEF MapComes, NoMapComes, ShopIsShut
  <2>5. QED BY <2>2, <2>3, <2>4, <1>1, <1>4, <1>5, <1>6, <1>A, TypeParts
<1>15. CASE EventsHandled \/ Quit \/ PushThrows
  <2>1. /\ UNCHANGED <<lobbyVars, controlVars, screen, known, mapSet, threadVars>>
        /\ pc = "events" /\ pc' \in {"update", "stats", "close"}
    BY <1>15 DEF EventsHandled, Quit, PushThrows, AfterRun
  <2>2. PlaceOK' /\ ScreenOK' /\ BeforeTheEnd
    BY <1>0, <2>1 DEF PlaceOK, ScreenOK, BeforeTheEnd, Playing
  <2>3. QED BY <2>1, <2>2, <1>1, <1>2, <1>3, <1>4, <1>6, <1>A, TypeParts
<1>16. CASE UpdateWaiting
  <2>1. BeforeTheEnd /\ UNCHANGED <<lobbyVars, down, flags, commands, shopOpen>>
        /\ screen = "waiting"
    BY <1>16 DEF UpdateWaiting, Updating, BeforeTheEnd, Playing
  <2>2. ControlsOK' /\ LobbyOK'
    BY <1>0, <1>6, <2>1 DEF ControlsOK
  <2>3. MapComes /\ ~shopOpen
    BY <2>1 DEF ShopIsShut
  <2>4. ThreadsOK' /\ ScreenOK' /\ PlaceOK' /\ SentInOrder' /\ MapComes'
    BY <1>0, <1>16, <2>3, WaitingKeeps
  <2>5. ShopIsShut'
    BY <2>1, <2>3 DEF ShopIsShut
  <2>6. QED BY <2>2, <2>4, <2>5, <1>A, TypeParts
<1>17. CASE Update
  <2>1. BeforeTheEnd /\ UNCHANGED <<lobbyVars, down, flags, commands>>
    BY <1>17 DEF Update, Updating, BeforeTheEnd, Playing
  <2>2. shopOpen' = shopOpen \/ shopOpen' = FALSE
    BY <1>17 DEF Update, LeavesScreen, ShopClosed, Drains, VariantThrows
  <2>3. ControlsOK' /\ LobbyOK'
    BY <1>0, <1>6, <2>1, <2>2 DEF ControlsOK
  <2>4. ThreadsOK' /\ ScreenOK' /\ PlaceOK' /\ SentInOrder' /\ MapComes' /\ ShopIsShut'
    BY <1>0, <1>17, <2>1, UpdateKeeps
  <2>5. QED BY <2>3, <2>4, <1>A, TypeParts
<1>18. CASE StatsShown \/ CloseProtocol \/ JoinReceiver \/ CloseSenderQueue \/ JoinSender
  <2>1. /\ UNCHANGED <<inputVars, commands, screen, known, mapSet, threadVars>>
        /\ pc' \in {"close", "joinReceiver", "closeQueue", "aborted", "joinSender",
                    "failed", "done"}
    BY <1>18 DEF StatsShown, CloseProtocol, JoinReceiver, CloseSenderQueue, JoinSender, Goes
  <2>2. UNCHANGED <<windowVars, request, answer, serverVars>> /\ (link' = link \/ link' = "closed")
    BY <1>18 DEF StatsShown, CloseProtocol, JoinReceiver, CloseSenderQueue, JoinSender, Goes
  <2>3. LobbyOK' /\ ControlsOK'
    BY <1>0, <2>1, <2>2 DEF LobbyOK, ControlsOK
  <2>4. PlaceOK' /\ ScreenOK' /\ ~BeforeTheEnd'
    BY <1>0, <2>1 DEF PlaceOK, ScreenOK, BeforeTheEnd, Playing
  <2>5. QED BY <2>1, <2>3, <2>4, <1>1, <1>4, <1>A, TypeParts
<1>19. QED
  BY <1>7, <1>8, <1>9, <1>10, <1>11, <1>12, <1>13, <1>14, <1>15, <1>16, <1>17, <1>18
     DEF Next, Receiver, Interface, InterfaceGoesOn

\* Every variable of a client keeps its type: no screen and no phase is drawn
\* that is none, whatever arrives while the interface lags.
THEOREM TypeCorrect == Spec => []TypeOK
<1>1. Init => ScreensInv
  BY TypeInit
<1>2. ScreensInv /\ [Next]_vars => ScreensInv'
  BY ScreensNext
<1>3. ScreensInv => TypeOK
  BY DEF ScreensInv
<1>4. QED BY <1>1, <1>2, <1>3, PTL DEF Spec

\* Whoever was registered before the map was broadcast has it before a screen
\* needs it; the shop is shut on a screen that cannot shut it, to anybody
\* (game_ui.cpp:262 and 311).
THEOREM ScreensCorrect == Spec => []ScreensAreSound
<1>1. Init => ScreensInv
  BY TypeInit
<1>2. ScreensInv /\ [Next]_vars => ScreensInv'
  BY ScreensNext
<1>3. ScreensInv => ScreensAreSound
  BY DEF ScreensInv, ScreensAreSound, MapComes, NoMapComes, ShopIsShut, BeforeTheEnd
<1>4. QED BY <1>1, <1>2, <1>3, PTL DEF Spec

-----------------------------------------------------------------------------
(***************************************************************************)
(* The name and the game.  The window and the server agree, except while   *)
(* an answer that says SUCCESS has not been read: then the server is ahead *)
(* by what the answer, or the request it answers, says.                    *)
(***************************************************************************)
SameName == username = serverName
SameGame == gamecode = serverGame

Ahead ==
    /\ request.ask = "name" => serverName = request.name /\ SameGame
    /\ request.ask = "create" => SameName /\ serverGame = answer.code
    /\ request.ask = "join" => SameName /\ serverGame = request.code

Agreed ==
    IF answer # NoAnswer /\ answer.status = "SUCCESS" THEN Ahead ELSE SameName /\ SameGame

\* An answer is to a request, and a window that is closed asks nothing.
Asked ==
    /\ answer # NoAnswer => request # NoRequest
    /\ page = "closed" => request = NoRequest
    /\ pc # "lobby" => page = "closed"

GamesInv == Agreed /\ Asked

LEMMA GamesInit ==
  Init => GamesInv
  BY DEF Init, LobbyInit, GamesInv, Agreed, Asked, SameName, SameGame, NoAnswer

\* The lobby keeps the agreement.
LEMMA LobbyAgrees ==
  ASSUME LobbyOK, GamesInv, LobbyNext, pc = "lobby", pc' = pc
  PROVE  GamesInv'
<1> USE DEF GamesInv, windowVars, serverVars
<1>1. ASSUME UNCHANGED <<username, gamecode, request, answer, serverVars>>,
             page # "closed", page' = "closed" => request = NoRequest
      PROVE  GamesInv'
  BY <1>1 DEF Agreed, Asked, Ahead, SameName, SameGame
<1>2. ASSUME NEW r, Ask(r), r # NoRequest PROVE GamesInv'
  BY <1>2 DEF Ask, Idle, Agreed, Asked, Ahead, SameName, SameGame
<1>3. CASE ConnectToServer \/ GoToLobby \/ GoToSelectSkin \/ CloseWindow
  BY <1>1, <1>3 DEF ConnectToServer, GoToLobby, GoToSelectSkin, CloseWindow, Show, Idle
<1>4. ASSUME NEW next \in {"maps", "code"}, CreateOrJoinWithName(next) PROVE GamesInv'
  BY <1>1, <1>4 DEF CreateOrJoinWithName, Show, Idle
<1>5. ASSUME NEW next \in {"maps", "code"}, NEW n \in Names, CreateOrJoin(next, n)
      PROVE  GamesInv'
  <2>1. [ask |-> "name", name |-> n, next |-> next] # NoRequest
    BY DEF NoRequest
  <2>2. QED BY <1>2, <1>5, <2>1 DEF CreateOrJoin
<1>6. CASE CreateGameButton
  <2>1. [ask |-> "create"] # NoRequest
    BY DEF NoRequest
  <2>2. QED BY <1>2, <1>6, <2>1 DEF CreateGameButton
<1>7. ASSUME NEW c \in Codes, JoinGameButton(c) PROVE GamesInv'
  <2>1. [ask |-> "join", code |-> c] # NoRequest
    BY DEF NoRequest
  <2>2. QED BY <1>2, <1>7, <2>1 DEF JoinGameButton
<1>8. CASE ServerAnswers
  <2>1. SameName /\ SameGame /\ UNCHANGED <<windowVars, request>>
    BY <1>8 DEF ServerAnswers, Agreed
  <2>2. request # NoRequest
    BY <1>8 DEF ServerAnswers, ServerNames, ServerCreates, ServerJoins, NoRequest
  <2>3. Asked'
    BY <2>1, <2>2 DEF Asked
  <2>4. ASSUME NEW s, NEW c, Answer(s, c)
        PROVE  /\ answer'.status = s
               /\ s = "SUCCESS" => answer' # NoAnswer /\ answer'.code = c
    BY <2>4 DEF Answer, NoAnswer
  <2>5. CASE ServerNames
    <3>1. \/ Answer("SUCCESS", Empty) /\ request.ask = "name"
             /\ serverName' = request.name /\ serverGame' = serverGame
          \/ Answer("USERNAME_IN_USE", Empty) /\ UNCHANGED <<serverName, serverGame>>
      BY <2>5 DEF ServerNames
    <3>2. QED BY <2>1, <2>3, <2>4, <3>1 DEF Agreed, Ahead, SameName, SameGame
  <2>6. CASE ServerCreates
    <3>1. \/ Answer("WITHOUT_USERNAME", Empty) /\ UNCHANGED <<serverName, serverGame>>
          \/ \E c \in Codes : serverGame' = c /\ Answer("SUCCESS", c)
                              /\ request.ask = "create" /\ serverName' = serverName
      BY <2>6 DEF ServerCreates
    <3>2. QED BY <2>1, <2>3, <2>4, <3>1 DEF Agreed, Ahead, SameName, SameGame
  <2>7. CASE ServerJoins
    <3>1. \/ Answer("WITHOUT_USERNAME", Empty) /\ UNCHANGED <<serverName, serverGame>>
          \/ Answer("SUCCESS", Empty) /\ request.ask = "join"
             /\ serverGame' = request.code /\ serverName' = serverName
          \/ (\E s \in Refusals : Answer(s, Empty)) /\ UNCHANGED <<serverName, serverGame>>
      BY <2>7 DEF ServerJoins
    <3>2. "SUCCESS" \notin Refusals
      BY DEF Refusals
    <3>3. QED BY <2>1, <2>3, <2>4, <3>1, <3>2 DEF Agreed, Ahead, SameName, SameGame
  <2>8. QED BY <1>8, <2>5, <2>6, <2>7 DEF ServerAnswers
<1>9. ASSUME Done, SameName', SameGame' PROVE GamesInv'
  BY <1>9 DEF Done, Agreed, Asked
<1>10. CASE ReadName
  BY <1>9, <1>10 DEF ReadName, Answered, Done, NamedAs, Agreed, Ahead, SameName, SameGame
<1>11. CASE ReadCreation
  BY <1>9, <1>11 DEF ReadCreation, Answered, Done, Agreed, Ahead, SameName, SameGame
<1>12. CASE ReadJoining
  BY <1>9, <1>12 DEF ReadJoining, Answered, Done, Agreed, Ahead, SameName, SameGame
<1>13. CASE LoseServer
  BY <1>9, <1>13 DEF LoseServer, Done, Agreed, SameName, SameGame
<1>14. QED
  BY <1>3, <1>4, <1>5, <1>6, <1>7, <1>8, <1>10, <1>11, <1>12, <1>13 DEF LobbyNext

LEMMA GamesNext ==
  ASSUME LobbyOK, GamesInv, [Next]_vars
  PROVE  GamesInv'
<1>1. CASE InLobby
  BY <1>1, LobbyAgrees DEF InLobby, uiVars
<1>2. ASSUME UNCHANGED <<page, username, gamecode, request, answer, serverName, serverGame>>,
             pc' # "lobby" => page = "closed"
      PROVE  GamesInv'
  BY <1>2 DEF GamesInv, Agreed, Asked, Ahead, SameName, SameGame
<1> USE DEF lobbyVars, windowVars, serverVars, uiVars
<1>3. pc # "lobby" => page = "closed"
  BY DEF GamesInv, Asked
<1>4. CASE UNCHANGED vars
  BY <1>2, <1>3, <1>4 DEF vars
<1>5. CASE Disconnected
  BY <1>2, <1>3, <1>5 DEF Disconnected, LoseLink
<1>6. CASE Receiver
  BY <1>2, <1>3, <1>6 DEF Receiver, ReceiveGameDto, ReceiverEnds
<1>7. CASE Sender
  BY <1>2, <1>3, <1>7 DEF Sender, PopCommand, SendCommand, SenderFails, SenderEnds, SenderGoes
<1>8. CASE StartGameUI
  BY <1>2, <1>8 DEF StartGameUI
<1>9. CASE HandleEvent
  BY <1>2, <1>3, <1>9 DEF HandleEvent
<1>10. CASE EventsHandled \/ Quit \/ PushThrows
  BY <1>2, <1>3, <1>10 DEF EventsHandled, Quit, PushThrows
<1>11. CASE UpdateWaiting \/ Update
  BY <1>2, <1>3, <1>11 DEF UpdateWaiting, Update, Updating
<1>12. CASE StatsShown \/ CloseProtocol \/ JoinReceiver \/ CloseSenderQueue \/ JoinSender
  BY <1>2, <1>3, <1>12
     DEF StatsShown, CloseProtocol, JoinReceiver, CloseSenderQueue, JoinSender, Goes
<1>13. QED
  BY <1>1, <1>4, <1>5, <1>6, <1>7, <1>8, <1>9, <1>10, <1>11, <1>12
     DEF Next, Interface, InterfaceGoesOn

\* A client plays in the game, and under the name, in which the server has it,
\* whatever was refused, renamed or lost in the lobby (lobby.cpp:70 and 146).
THEOREM GamesCorrect == Spec => []PlaysInItsGame
<1>1. Init => ScreensInv /\ GamesInv
  BY TypeInit, GamesInit
<1>2. ScreensInv /\ GamesInv /\ [Next]_vars => ScreensInv' /\ GamesInv'
  BY ScreensNext, GamesNext, TypeParts DEF ScreensInv
<1>3. GamesInv => PlaysInItsGame
  BY DEF GamesInv, Agreed, Asked, SameName, SameGame, PlaysInItsGame, NoAnswer
<1>4. QED BY <1>1, <1>2, <1>3, PTL DEF Spec

-----------------------------------------------------------------------------
(***************************************************************************)
(* The keys that are held.  The last thing the server was told of a key    *)
(* and its flag say the same, as long as the queue still holds it.         *)
(***************************************************************************)
FlagOf(i) == IF i = "left" THEN "click_attack" ELSE i

NoneAfter(n) == \A k \in DOMAIN commands : k > n => commands[k].input # commands[n].input

LastIsFlag ==
    \A n \in DOMAIN commands :
        commands[n].input \in Holds /\ NoneAfter(n)
            => (commands[n].on = TRUE <=> FlagOf(commands[n].input) \in flags)

PressesInv == PressesAlternate /\ LastIsFlag

\* A queue that is only shorter at its front, with the flags as they were.
LEMMA PoppedAlternates ==
  ASSUME ControlsOK, PressesInv, flags' = flags,
         \/ commands' = commands
         \/ commands # <<>> /\ commands' = Tail(commands)
  PROVE  PressesInv'
<1>1. CASE commands' = commands
  BY <1>1 DEF PressesInv, PressesAlternate, LastIsFlag, NoneAfter
<1>2. CASE commands # <<>> /\ commands' = Tail(commands)
  <2> DEFINE Sendable == CommandsOf(Inputs \cup Items \cup {"mouse"})
  <2>1. commands \in Seq(Sendable)
    BY DEF ControlsOK
  <2> HIDE DEF Sendable
  <2>2. /\ DOMAIN commands = 1 .. Len(commands) /\ Len(commands) \in Nat
        /\ DOMAIN commands' = 1 .. Len(commands) - 1
        /\ \A n \in DOMAIN commands' : n + 1 \in DOMAIN commands /\ commands'[n] = commands[n + 1]
    BY <1>2, <2>1
  <2>3. ASSUME NEW n \in DOMAIN commands', NEW m \in DOMAIN commands',
               n < m, commands'[n].input \in Holds,
               commands'[n].input = commands'[m].input,
               \A k \in n + 1 .. m - 1 : commands'[k].input # commands'[n].input
        PROVE  commands'[n].on # commands'[m].on
    <3>1. n \in Nat /\ m \in Nat /\ n + 1 < m + 1
          /\ n + 1 \in DOMAIN commands /\ m + 1 \in DOMAIN commands
      BY <2>2, <2>3
    <3>2. ASSUME NEW k \in (n + 1) + 1 .. (m + 1) - 1
          PROVE  commands[k].input # commands[n + 1].input
      <4>1. k - 1 \in n + 1 .. m - 1 /\ k - 1 \in DOMAIN commands' /\ (k - 1) + 1 = k
        BY <2>2, <2>3, <3>1
      <4>2. QED BY <2>2, <2>3, <4>1
    <3>3. commands[n + 1].input \in Holds /\ commands[n + 1].input = commands[m + 1].input
      BY <2>2, <2>3
    <3>4. commands[n + 1].on # commands[m + 1].on
      BY <3>1, <3>2, <3>3 DEF PressesInv, PressesAlternate
    <3>5. QED BY <2>2, <3>4
  <2>4. ASSUME NEW n \in DOMAIN commands', commands'[n].input \in Holds,
               \A k \in DOMAIN commands' : k > n => commands'[k].input # commands'[n].input
        PROVE  commands'[n].on = TRUE <=> FlagOf(commands'[n].input) \in flags'
    <3>1. n + 1 \in DOMAIN commands /\ commands'[n] = commands[n + 1] /\ n \in Nat
      BY <2>2
    <3>2. ASSUME NEW k \in DOMAIN commands, k > n + 1
          PROVE  commands[k].input # commands[n + 1].input
      <4>1. k - 1 \in DOMAIN commands' /\ k - 1 > n /\ (k - 1) + 1 = k
        BY <2>2, <3>1, <3>2
      <4>2. QED BY <2>2, <2>4, <3>1, <4>1
    <3>3. NoneAfter(n + 1)
      BY <3>2 DEF NoneAfter
    <3>4. QED BY <2>4, <3>1, <3>3 DEF PressesInv, LastIsFlag
  <2>5. PressesAlternate'
    BY <2>3 DEF PressesAlternate
  <2>6. LastIsFlag'
    BY <2>4 DEF LastIsFlag, NoneAfter
  <2>7. QED BY <2>5, <2>6 DEF PressesInv
<1>3. QED BY <1>1, <1>2

\* A new command of a held key says the opposite of the key's flag, and sets
\* it; the flags of the other held keys stay.
LEMMA PushedAlternates ==
  ASSUME ControlsOK, PressesInv,
         NEW c, commands' = Append(commands, c),
         \A i \in Holds : i # c.input => (FlagOf(i) \in flags' <=> FlagOf(i) \in flags),
         c.input \in Holds => /\ c.on \in BOOLEAN
                              /\ c.on = TRUE <=> FlagOf(c.input) \notin flags
                              /\ c.on = TRUE <=> FlagOf(c.input) \in flags'
  PROVE  PressesInv'
<1> DEFINE Sendable == CommandsOf(Inputs \cup Items \cup {"mouse"})
           last == Len(commands) + 1
<1>1. commands \in Seq(Sendable) /\ \A d \in Sendable : d.on \in BOOLEAN
  BY DEF ControlsOK, CommandsOf
<1> HIDE DEF Sendable
<1>2. /\ DOMAIN commands = 1 .. Len(commands) /\ Len(commands) \in Nat
      /\ DOMAIN commands' = 1 .. last
      /\ commands'[last] = c
      /\ \A n \in DOMAIN commands : n \in DOMAIN commands' /\ commands'[n] = commands[n]
                                    /\ commands[n].on \in BOOLEAN
  BY <1>1
<1>3. ASSUME NEW n \in DOMAIN commands', NEW m \in DOMAIN commands',
             n < m, commands'[n].input \in Holds,
             commands'[n].input = commands'[m].input,
             \A k \in n + 1 .. m - 1 : commands'[k].input # commands'[n].input
      PROVE  commands'[n].on # commands'[m].on
  <2>1. n \in DOMAIN commands
    BY <1>2, <1>3
  <2>2. \A k \in n + 1 .. m - 1 : k \in DOMAIN commands
    BY <1>2, <1>3
  <2>3. \A k \in n + 1 .. m - 1 : commands[k].input # commands[n].input
    BY <1>2, <1>3, <2>1, <2>2
  <2>4. CASE m \in DOMAIN commands
    BY <1>2, <1>3, <2>1, <2>3, <2>4 DEF PressesInv, PressesAlternate
  <2>5. CASE m = last
    <3>1. NoneAfter(n)
      BY <1>2, <2>3, <2>5 DEF NoneAfter
    <3>2. commands[n].on = TRUE <=> FlagOf(commands[n].input) \in flags
      BY <1>2, <1>3, <2>1, <3>1 DEF PressesInv, LastIsFlag
    <3>3. commands[n].input = c.input /\ c.input \in Holds
      BY <1>2, <1>3, <2>1, <2>5
    <3>4. commands[n].on # c.on
      BY <1>2, <2>1, <3>2, <3>3
    <3>5. QED BY <1>2, <2>1, <2>5, <3>4
  <2>6. QED BY <1>2, <2>4, <2>5
<1>4. ASSUME NEW n \in DOMAIN commands', commands'[n].input \in Holds,
             \A k \in DOMAIN commands' : k > n => commands'[k].input # commands'[n].input
      PROVE  commands'[n].on = TRUE <=> FlagOf(commands'[n].input) \in flags'
  <2>1. CASE n = last
    BY <1>2, <1>4, <2>1
  <2>2. CASE n \in DOMAIN commands
    <3>1. NoneAfter(n) /\ commands[n].input # c.input
      BY <1>2, <1>4, <2>2 DEF NoneAfter
    <3>2. commands[n].on = TRUE <=> FlagOf(commands[n].input) \in flags
      BY <1>2, <1>4, <2>2, <3>1 DEF PressesInv, LastIsFlag
    <3>3. commands'[n] = commands[n] /\ commands[n].input \in Holds
      BY <1>2, <1>4, <2>2
    <3>4. FlagOf(commands[n].input) \in flags' <=> FlagOf(commands[n].input) \in flags
      BY <3>1, <3>3
    <3>5. commands'[n].on = commands[n].on /\ commands'[n].input = commands[n].input
      BY <3>3
    <3>6. QED BY <3>2, <3>4, <3>5
  <2>3. n = last \/ n \in DOMAIN commands
    BY <1>2
  <2>4. QED BY <2>1, <2>2, <2>3
<1>5. PressesAlternate'
  BY <1>3 DEF PressesAlternate
<1>6. LastIsFlag'
  BY <1>4 DEF LastIsFlag, NoneAfter
<1>7. QED BY <1>5, <1>6 DEF PressesInv

LEMMA StartTold ==
  ASSUME ControlsOK, PressesInv, NEW i, Push(Command(i, TRUE)),
         \A j \in Holds : j # i => (FlagOf(j) \in flags' <=> FlagOf(j) \in flags),
         i \in Holds => FlagOf(i) \notin flags /\ FlagOf(i) \in flags'
  PROVE  PressesInv'
<1> DEFINE c == Command(i, TRUE)
<1>1. commands' = Append(commands, c) /\ c.input = i /\ c.on = TRUE
  BY DEF Push, Command
<1> HIDE DEF c
<1>2. QED BY <1>1, PushedAlternates

LEMMA StopTold ==
  ASSUME ControlsOK, PressesInv, NEW i, Push(Command(i, FALSE)),
         \A j \in Holds : j # i => (FlagOf(j) \in flags' <=> FlagOf(j) \in flags),
         i \in Holds => FlagOf(i) \in flags /\ FlagOf(i) \notin flags'
  PROVE  PressesInv'
<1> DEFINE c == Command(i, FALSE)
<1>1. commands' = Append(commands, c) /\ c.input = i /\ c.on = FALSE
  BY DEF Push, Command
<1> HIDE DEF c
<1>2. QED BY <1>1, PushedAlternates

\* The keys that are held have flags of their own, on every screen that hears
\* them; the shop's button, an item and a motion have none of these.
LEMMA FlagsOfHolds ==
  /\ "click_buy" \notin {FlagOf(i) : i \in Holds}
  /\ \A i \in Holds : \A j \in Inputs : \A s \in Phases :
        j \in Heard(s) => (FlagOf(i) = Flag(s, j) <=> i = j)
  /\ \A i \in Holds : \A s \in Phases : i \in Heard(s) => s \in Fights
  /\ "mouse" \notin Holds
  /\ Items \cap Holds = {}
<1> USE DEF Holds, Moves, ShootOrDefuse
<1>1. "click_buy" \notin {FlagOf(i) : i \in Holds} /\ "mouse" \notin Holds
  BY DEF FlagOf
<1>2. ASSUME NEW i \in Holds, NEW j \in Inputs, NEW s \in Phases, j \in Heard(s)
      PROVE  FlagOf(i) = Flag(s, j) <=> i = j
  <2>1. j \in {"k", "one", "two", "three", "four", "w", "a", "s", "d", "left", "e", "f"}
    BY <1>2 DEF Heard, ForceStart, Weapons, Fights, PickUp, Phases
  <2>2. j = "left" => s # "buy"
    BY <1>2 DEF Heard, Weapons, Fights
  <2>3. QED BY <1>2, <2>1, <2>2 DEF FlagOf, Flag
<1>3. ASSUME NEW i \in Holds, NEW s \in Phases, i \in Heard(s)
      PROVE  s \in Fights
  BY <1>3 DEF Heard, ForceStart, Weapons, Fights, Phases
<1>4. Items \cap Inputs = {}
  BY ControlsAssumption
<1>5. QED BY <1>1, <1>2, <1>3, <1>4

\* What a player does with the keys and the mouse keeps what was told true.
LEMMA EventsAlternate ==
  ASSUME ControlsOK, ScreenOK, PressesInv, HandleEvent
  PROVE  PressesInv'
<1>1. screen \in Phases
  BY DEF ScreenOK
<1>2. ASSUME commands' = commands, \A i \in Holds : FlagOf(i) \in flags' <=> FlagOf(i) \in flags
      PROVE  PressesInv'
  BY <1>2 DEF PressesInv, PressesAlternate, LastIsFlag, NoneAfter
<1>3. ASSUME NEW i \in Inputs, Press(screen, i) PROVE PressesInv'
  <2>1. CASE i \in Heard(screen) /\ ~IsHandled(screen, i)
    <3>1. /\ flags' = flags \cup {Flag(screen, i)} /\ Flag(screen, i) \notin flags
          /\ Push(Command(i, TRUE))
      BY <1>3, <2>1 DEF Press, IsHandled
    <3>2. \A j \in Holds : FlagOf(j) = Flag(screen, i) <=> j = i
      BY <1>1, <2>1, FlagsOfHolds
    <3>3. \A j \in Holds : j # i => (FlagOf(j) \in flags' <=> FlagOf(j) \in flags)
      BY <3>1, <3>2
    <3>4. i \in Holds => FlagOf(i) \notin flags /\ FlagOf(i) \in flags'
      BY <3>1, <3>2
    <3>5. QED BY <3>1, <3>3, <3>4, StartTold
  <2>2. CASE ~(i \in Heard(screen) /\ ~IsHandled(screen, i))
    BY <1>2, <1>3, <2>2 DEF Press
  <2>3. QED BY <2>1, <2>2
<1>4. ASSUME NEW i \in Inputs, Release(screen, i) PROVE PressesInv'
  <2>1. CASE i \in Heard(screen) \cap Holds /\ IsHandled(screen, i)
    <3>1. /\ flags' = flags \ {Flag(screen, i)} /\ Flag(screen, i) \in flags
          /\ Push(Command(i, FALSE))
      BY <1>4, <2>1 DEF Release, IsHandled
    <3>2. \A j \in Holds : FlagOf(j) = Flag(screen, i) <=> j = i
      BY <1>1, <2>1, FlagsOfHolds
    <3>3. \A j \in Holds : j # i => (FlagOf(j) \in flags' <=> FlagOf(j) \in flags)
      BY <3>1, <3>2
    <3>4. i \in Holds => FlagOf(i) \in flags /\ FlagOf(i) \notin flags'
      BY <3>1, <3>2
    <3>5. QED BY <3>1, <3>3, <3>4, StopTold
  <2>2. CASE ~(i \in Heard(screen) \cap Holds /\ IsHandled(screen, i))
    <3>1. commands' = commands
      BY <1>4, <2>2 DEF Release
    <3>2. ASSUME NEW j \in Holds PROVE FlagOf(j) \in flags' <=> FlagOf(j) \in flags
      <4>1. CASE i \in Heard(screen)
        <5>1. FlagOf(j) = Flag(screen, i) <=> j = i
          BY <1>1, <4>1, FlagsOfHolds
        <5>2. flags' = flags \ {Flag(screen, i)}
          BY <1>4, <4>1 DEF Release
        <5>3. j = i => Flag(screen, i) \notin flags
          BY <2>2, <4>1 DEF IsHandled
        <5>4. QED BY <5>1, <5>2, <5>3
      <4>2. CASE i \notin Heard(screen) /\ screen = "buy" /\ i = "left"
        <5>1. flags' = flags \ {"click_buy"}
          BY <1>4, <4>2 DEF Release, Flag
        <5>2. QED BY <5>1, FlagsOfHolds
      <4>3. CASE i \notin Heard(screen) /\ ~(screen = "buy" /\ i = "left")
        BY <1>4, <4>3 DEF Release
      <4>4. QED BY <4>1, <4>2, <4>3
    <3>3. QED BY <1>2, <3>1, <3>2
  <2>3. QED BY <2>1, <2>2
<1>5. ASSUME NEW i \in Inputs, Repeat(screen, i) PROVE PressesInv'
  <2>1. /\ i \in Heard(screen) /\ i # "left" /\ Flag(screen, i) \notin flags
        /\ flags' = flags \cup {i} /\ Push(Command(i, TRUE))
    BY <1>5 DEF Repeat, IsHandled
  <2>2. Flag(screen, i) = i /\ \A j \in Holds : FlagOf(j) = Flag(screen, i) <=> j = i
    BY <1>1, <2>1, FlagsOfHolds DEF Flag
  <2>3. \A j \in Holds : j # i => (FlagOf(j) \in flags' <=> FlagOf(j) \in flags)
    BY <2>1, <2>2
  <2>4. i \in Holds => FlagOf(i) \notin flags /\ FlagOf(i) \in flags'
    BY <2>1, <2>2
  <2>5. QED BY <2>1, <2>3, <2>4, StartTold
<1>6. CASE Aim(screen)
  <2>1. Push(Command("mouse", TRUE)) /\ flags' = flags
    BY <1>6 DEF Aim
  <2>2. QED BY <2>1, FlagsOfHolds, StartTold
<1>7. CASE OpenOrCloseShop(screen)
  BY <1>2, <1>7 DEF OpenOrCloseShop
<1>8. CASE Click(screen)
  <2>1. flags' = flags \cup {"click_buy"}
    BY <1>8 DEF Click
  <2>2. \A j \in Holds : FlagOf(j) \in flags' <=> FlagOf(j) \in flags
    BY <2>1, FlagsOfHolds
  <2>3. commands' = commands \/ \E g \in Items : Push(Command(g, TRUE))
    BY <1>8 DEF Click, InteractButton
  <2>4. ASSUME NEW g \in Items, Push(Command(g, TRUE)) PROVE PressesInv'
    <3>1. g \notin Holds
      BY FlagsOfHolds DEF Holds
    <3>2. QED BY <2>2, <2>4, <3>1, StartTold
  <2>5. QED BY <1>2, <2>2, <2>3, <2>4
<1>9. QED BY <1>3, <1>4, <1>5, <1>6, <1>7, <1>8 DEF HandleEvent

LEMMA PressesNext ==
  ASSUME ScreensInv, PressesInv, [Next]_vars
  PROVE  PressesInv'
<1>1. ControlsOK /\ ScreenOK
  BY TypeParts DEF ScreensInv
<1>2. ASSUME UNCHANGED <<flags, commands>> PROVE PressesInv'
  BY <1>1, <1>2, PoppedAlternates
<1> USE DEF controlVars, inputVars
<1>3. CASE HandleEvent
  BY <1>1, <1>3, EventsAlternate
<1>4. CASE PopCommand
  BY <1>1, <1>4, PoppedAlternates DEF PopCommand, SenderGoes
<1>5. CASE UNCHANGED vars
  BY <1>2, <1>5 DEF vars
<1>6. CASE InLobby \/ Disconnected
  BY <1>2, <1>6 DEF InLobby, Disconnected
<1>7. CASE Receiver
  BY <1>2, <1>7 DEF Receiver, ReceiveGameDto, ReceiverEnds
<1>8. CASE SendCommand \/ SenderFails \/ SenderEnds
  BY <1>2, <1>8 DEF SendCommand, SenderFails, SenderEnds, SenderGoes
<1>9. CASE StartGameUI \/ EventsHandled \/ Quit \/ PushThrows
  BY <1>2, <1>9 DEF StartGameUI, EventsHandled, Quit, PushThrows
<1>10. CASE UpdateWaiting \/ Update
  BY <1>2, <1>10 DEF UpdateWaiting, Update, Updating
<1>11. CASE StatsShown \/ CloseProtocol \/ JoinReceiver \/ CloseSenderQueue \/ JoinSender
  BY <1>2, <1>11
     DEF StatsShown, CloseProtocol, JoinReceiver, CloseSenderQueue, JoinSender, Goes
<1>12. QED
  BY <1>3, <1>4, <1>5, <1>6, <1>7, <1>8, <1>9, <1>10, <1>11
     DEF Next, Sender, Interface, InterfaceGoesOn

\* The server is told by turns that a held key starts and that it stops,
\* across screens that do not hear it (input_handler.cpp:179 and 189).
THEOREM PressesCorrect == Spec => []PressesAlternate
<1>1. Init => ScreensInv /\ PressesInv
  <2>1. Init => PressesInv
    BY DEF Init, ControlsInit, PressesInv, PressesAlternate, LastIsFlag
  <2>2. QED BY <2>1, TypeInit
<1>2. ScreensInv /\ PressesInv /\ [Next]_vars => ScreensInv' /\ PressesInv'
  BY ScreensNext, PressesNext
<1>3. PressesInv => PressesAlternate
  BY DEF PressesInv
<1>4. QED BY <1>1, <1>2, <1>3, PTL DEF Spec

=============================================================================
