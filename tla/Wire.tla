-------------------------------- MODULE Wire --------------------------------
(***************************************************************************)
(* The protocol between a client and its handler: what each end writes and *)
(* reads, byte by byte.  The connection may be lost with any number of     *)
(* bytes of either direction still to arrive.                              *)
(*                                                                         *)
(* An end knows what to expect only from its own progress: requests and    *)
(* answers while in the lobby, commands and game messages afterwards.      *)
(* A string is the sequence of its bytes, an angle a number of degrees.    *)
(***************************************************************************)
EXTENDS Integers, Sequences, SequencesExt

CONSTANTS Requests, Commands, GameMessages,  \* what is sent
          Refusals,                          \* statuses that are not SUCCESS
          NewGameName,                       \* the name of the created game
          MaxMessages                        \* bound: messages sent by both

VARIABLES
    client,     \* "lobby", "asking", "playing" or "over"
    server,     \* "lobby", "playing", "ended" (the last was sent) or "over"
    link,       \* "up" or "lost"
    toServer, toClient,                  \* bytes on their way
    sentToServer, gotByServer,           \* histories of messages
    sentToClient, gotByClient

upVars == <<toServer, sentToServer, gotByServer>>
downVars == <<toClient, sentToClient, gotByClient>>
vars == <<client, server, link, upVars, downVars>>

-----------------------------------------------------------------------------
(***************************************************************************)
(* common_protocol.cpp: numbers, strings and angles.                       *)
(***************************************************************************)
Below(n) == {k \in Nat : k < n}
Octet == Below(256)
Word == Below(65536)

\* A number is narrowed to the width it is sent with.
Byte(n) == <<n % 256>>
Num(n) == <<(n % 65536) \div 256, n % 256>>
Str(s) == Num(Len(s)) \o s

\* Mutant: the other outcome the language allows.
SaturatedCode(degrees) == IF degrees < 0 THEN 0 ELSE (degrees * 65535) \div 360

\* The cast to an unsigned integer drops the fraction; the one of a negative
\* number is left to the build, which wraps it.
Truncated(a, b) == IF a < 0 THEN -((-a) \div b) ELSE a \div b
AngleCode(degrees) == Truncated(degrees * 65535, 360) % 65536

\* A read yields a value and what is left.  What is left of a stream that is
\* too short for it is Short.
Short == <<-1>>
Streams == Seq(Octet) \cup {Short}

Read(v, rest) == [v |-> v, rest |-> rest]

\* A record is read field by field: what was read so far, and one field more,
\* which a Get... reads from what is left.
Begin(s) == Read(<<>>, s)
BeginWith(type, s) == Read([type |-> type], s)

With(record, name, v) ==
    [f \in DOMAIN record \cup {name} |-> IF f = name THEN v ELSE record[f]]

Field(sofar, name, e) == Read(With(sofar.v, name, e.v), e.rest)

ReadByte(s) == IF s \in {<<>>, Short} THEN Read(0, Short) ELSE Read(Head(s), Tail(s))

ReadNum(s) ==
    IF Len(s) < 2 THEN Read(0, Short)
    ELSE Read(256 * s[1] + s[2], SubSeq(s, 3, Len(s)))

ReadStr(s) ==
    LET n == ReadNum(s)
    IN  IF n.rest = Short \/ n.v > Len(n.rest) THEN Read(<<>>, Short)
        ELSE Read(SubSeq(n.rest, 1, n.v), SubSeq(n.rest, n.v + 1, Len(n.rest)))

\* n elements, each read by the function read and at least one byte long.
ReadMany(s, n, read) ==
    LET f[i \in 0..n] ==
            IF i = 0 THEN Read(<<>>, s)
            ELSE LET e == read[f[i - 1].rest]
                 IN  Read(Append(f[i - 1].v, e.v), e.rest)
    IN  IF s = Short \/ n > Len(s) THEN Read(<<>>, Short) ELSE f[n]

GetByte(e, name) == Field(e, name, ReadByte(e.rest))
GetNum(e, name) == Field(e, name, ReadNum(e.rest))
GetStr(e, name) == Field(e, name, ReadStr(e.rest))

\* Codes.  Looking up one that is not there is undefined.
Code(table, value) == Byte(table[value])

ReadCode(s, table) ==
    LET b == ReadByte(s)
        of == {x \in DOMAIN table : table[x] = b.v}
    IN  Read(IF of = {} THEN "undefined" ELSE CHOOSE x \in of : TRUE, b.rest)

RequestCode == [create_username |-> 1, create_game |-> 2, join_game |-> 3]
GunCode == [none |-> 0, glock |-> 1, ak47 |-> 2, m3 |-> 3, awp |-> 4]
WeaponCode == [knife |-> 0, primary |-> 1, secondary |-> 2, bomb |-> 3]
DirectionCode == [up |-> 0, left |-> 1, down |-> 2, right |-> 3]

ReadRequestType(s) == ReadCode(s, RequestCode)
ReadGun(s) == ReadCode(s, GunCode)
ReadWeapon(s) == ReadCode(s, WeaponCode)
GetRequestType(e, name) == Field(e, name, ReadRequestType(e.rest))
GetGun(e, name) == Field(e, name, ReadGun(e.rest))
GetWeapon(e, name) == Field(e, name, ReadWeapon(e.rest))

\* Of a code that is no Boolean's the build may make any: here FALSE.
Bool(b) == Byte(IF b THEN 1 ELSE 0)
ReadBool(s) == LET b == ReadByte(s) IN Read(b.v = 1, b.rest)
GetBool(e, name) == Field(e, name, ReadBool(e.rest))

Pos(p) == Num(p.x) \o Num(p.y)
ReadPos(s) == GetNum(GetNum(Begin(s), "x"), "y")
GetPos(e, name) == Field(e, name, ReadPos(e.rest))

\* An optional is the set of its values; one without is padded.
ValueOf(o, padding) == IF o = {} THEN padding ELSE CHOOSE v \in o : TRUE

Origin == [x |-> 0, y |-> 0]

WritePlace(place) == Bool(place # {}) \o Pos(ValueOf(place, Origin))
WriteWinner(winner) == Bool(winner # {}) \o Byte(ValueOf(winner, 0))

Optional(has, e) == Read(IF has.v THEN {e.v} ELSE {}, e.rest)

ReadPlace(s) == LET has == ReadBool(s) IN Optional(has, ReadPos(has.rest))
ReadWinner(s) == LET has == ReadBool(s) IN Optional(has, ReadByte(has.rest))
GetPlace(e, name) == Field(e, name, ReadPlace(e.rest))
GetWinner(e, name) == Field(e, name, ReadWinner(e.rest))

-----------------------------------------------------------------------------
(***************************************************************************)
(* The lobby.                                                              *)
(***************************************************************************)
WriteRequest(r) == Code(RequestCode, r.type) \o Str(r.text)

ReadRequest(s) == GetStr(GetRequestType(Begin(s), "type"), "text")

Success == 0

WriteAnswer(a) ==
    Code(RequestCode, a.type) \o Byte(a.status)
    \o (IF a.type = "create_game" THEN Str(a.name) ELSE <<>>)

GetGameName(e) ==
    Field(e, "name", IF e.v.type = "create_game" THEN ReadStr(e.rest) ELSE Read(<<>>, e.rest))

ReadAnswer(s) == GetGameName(GetByte(GetRequestType(Begin(s), "type"), "status"))

-----------------------------------------------------------------------------
(***************************************************************************)
(* Commands.                                                               *)
(***************************************************************************)
WriteMove(c) == Byte(DirectionCode[c.dir] + 1) \o Bool(c.on)

WriteCommand(c) ==
    CASE c.type = "move" -> <<9>> \o WriteMove(c)
      [] c.type = "rotate" -> <<8>> \o Num(AngleCode(c.angle))
      [] c.type = "action" -> <<16>> \o Bool(c.on)
      [] c.type = "defuse" -> <<19>> \o Bool(c.on)
      [] c.type = "equip" -> <<17>> \o Code(WeaponCode, c.weapon)
      [] c.type = "pick_up" -> <<20>>
      [] c.type = "buy_gun" -> <<6>> \o Code(GunCode, c.gun)
      [] c.type = "buy_ammo" ->
            <<7>> \o Code(WeaponCode, IF c.on THEN "primary" ELSE "secondary")
      [] c.type = "start" -> <<21>>

\* Mutant: whether the key is down is not read.
ReadDirection(s) ==
    LET dir == ReadByte(s)
    IN  Read([type |-> "move", dir |-> CHOOSE d \in DOMAIN DirectionCode : TRUE,
              on |-> TRUE], dir.rest)

ReadMove(s) ==
    LET dir == ReadByte(s)
        on == ReadBool(dir.rest)
        of == {d \in DOMAIN DirectionCode : DirectionCode[d] = dir.v - 1}
    IN  Read([type |-> "move", dir |-> IF of = {} THEN "undefined"
                                       ELSE CHOOSE d \in of : TRUE,
              on |-> on.v], on.rest)

ReadSwitch(s, type) == GetBool(BeginWith(type, s), "on")

ReadEquip(s) == GetWeapon(BeginWith("equip", s), "weapon")

ReadBuyGun(s) == GetGun(BeginWith("buy_gun", s), "gun")

ReadBuyAmmo(s) ==
    LET weapon == ReadWeapon(s)
    IN  Read([type |-> "buy_ammo", on |-> weapon.v = "primary"], weapon.rest)

ReadRotate(s) == GetNum(BeginWith("rotate", s), "angle")

ReadCommand(s) ==
    LET code == ReadByte(s)
        rest == code.rest
    IN  CASE code.v = 9 -> ReadMove(rest)
          [] code.v = 8 -> ReadRotate(rest)
          [] code.v = 16 -> ReadSwitch(rest, "action")
          [] code.v = 19 -> ReadSwitch(rest, "defuse")
          [] code.v = 17 -> ReadEquip(rest)
          [] code.v = 20 -> Read([type |-> "pick_up"], rest)
          [] code.v = 6 -> ReadBuyGun(rest)
          [] code.v = 7 -> ReadBuyAmmo(rest)
          [] code.v = 21 -> Read([type |-> "start"], rest)
          [] OTHER -> Read([type |-> "unknown"], rest)

-----------------------------------------------------------------------------
(***************************************************************************)
(* Game messages.                                                          *)
(***************************************************************************)
WriteDroppedGun(i) == Pos(i.position) \o Code(GunCode, i.gun) \o Num(i.ammo)

WriteItem(i) ==
    IF i.type = "gun" THEN <<97>> \o WriteDroppedGun(i) ELSE <<98>> \o Pos(i.position)

ReadDroppedGun(s) ==
    GetNum(GetGun(GetPos(BeginWith("gun", s), "position"), "gun"), "ammo")

ReadDroppedBomb(s) == GetPos(BeginWith("bomb", s), "position")

ReadItem(s) ==
    LET code == ReadByte(s)
    IN  IF code.v = 98 THEN ReadDroppedBomb(code.rest) ELSE ReadDroppedGun(code.rest)

WriteLoadout(l) ==
    Num(l.money) \o Code(GunCode, l.primary) \o Num(l.primary_ammo)
    \o Code(GunCode, l.secondary) \o Num(l.secondary_ammo)
    \o Code(WeaponCode, l.equipped) \o Bool(l.has_bomb)

ReadLoadout(s) ==
    LET money == GetNum(Begin(s), "money")
        primary == GetGun(money, "primary")
        primaryAmmo == GetNum(primary, "primary_ammo")
        secondary == GetGun(primaryAmmo, "secondary")
        secondaryAmmo == GetNum(secondary, "secondary_ammo")
        equipped == GetWeapon(secondaryAmmo, "equipped")
    IN  GetBool(equipped, "has_bomb")

GetLoadout(e, name) == Field(e, name, ReadLoadout(e.rest))

\* Mutant: the sign of a debt is lost.
WriteUnsigned(n) == Byte(0) \o Num(n)

Abs(n) == IF n < 0 THEN -n ELSE n
WriteBonification(n) == Byte(IF n > 0 THEN 0 ELSE 1) \o Num(Abs(n))

ReadBonification(s) ==
    LET sign == ReadByte(s)
        n == ReadNum(sign.rest)
    IN  Read(IF sign.v = 1 THEN -n.v ELSE n.v, n.rest)

GetBonification(e, name) == Field(e, name, ReadBonification(e.rest))

WritePlayer(p) ==
    Str(p.username) \o Pos(p.position) \o Num(AngleCode(p.orientation)) \o Num(p.life)
    \o WritePlace(p.shot)
    \o Bool(p.planting) \o Bool(p.defusing) \o Bool(p.on_site)
    \o WriteBonification(p.bonifications) \o Byte(p.kills) \o Byte(p.deaths)
    \o WriteLoadout(p.loadout)

ReadPlayer(s) ==
    LET username == GetStr(Begin(s), "username")
        position == GetPos(username, "position")
        orientation == GetNum(position, "orientation")
        life == GetNum(orientation, "life")
        shot == GetPlace(life, "shot")
        planting == GetBool(shot, "planting")
        defusing == GetBool(planting, "defusing")
        onSite == GetBool(defusing, "on_site")
        bonifications == GetBonification(onSite, "bonifications")
        kills == GetByte(bonifications, "kills")
        deaths == GetByte(kills, "deaths")
    IN  GetLoadout(deaths, "loadout")

WritePlayers(players) ==
    Byte(Len(players)) \o FlattenSeq([i \in DOMAIN players |-> WritePlayer(players[i])])

WriteItems(items) ==
    Num(Len(items)) \o FlattenSeq([i \in DOMAIN items |-> WriteItem(items[i])])

WriteSnapshot(m) ==
    Byte(m.total_players) \o Byte(m.phase) \o Byte(m.round) \o Byte(m.rounds)
    \o Byte(m.ct_wins) \o Byte(m.tt_wins) \o Byte(m.time_left) \o Byte(m.bomb_status)
    \o WritePlace(m.bomb_position)
    \o WritePlayers(m.ct) \o WritePlayers(m.tt) \o WriteWinner(m.winner)
    \o WriteItems(m.items)

ReadPlayers(s) ==
    LET n == ReadByte(s) IN ReadMany(n.rest, n.v, [r \in Streams |-> ReadPlayer(r)])

ReadItems(s) ==
    LET n == ReadNum(s) IN ReadMany(n.rest, n.v, [r \in Streams |-> ReadItem(r)])

GetPlayers(e, name) == Field(e, name, ReadPlayers(e.rest))
GetItems(e, name) == Field(e, name, ReadItems(e.rest))

ReadSnapshot(s) ==
    LET players == GetByte(BeginWith("snapshot", s), "total_players")
        phase == GetByte(players, "phase")
        round == GetByte(phase, "round")
        rounds == GetByte(round, "rounds")
        ctWins == GetByte(rounds, "ct_wins")
        ttWins == GetByte(ctWins, "tt_wins")
        time == GetByte(ttWins, "time_left")
        bomb == GetByte(time, "bomb_status")
        position == GetPlace(bomb, "bomb_position")
        ct == GetPlayers(position, "ct")
        tt == GetPlayers(ct, "tt")
        winner == GetWinner(tt, "winner")
    IN  GetItems(winner, "items")

WritePositions(q) == Num(Len(q)) \o FlattenSeq([i \in DOMAIN q |-> Pos(q[i])])

ReadPositions(s) ==
    LET n == ReadNum(s) IN ReadMany(n.rest, n.v, [r \in Streams |-> ReadPos(r)])

GetPositions(e, name) == Field(e, name, ReadPositions(e.rest))

WriteObject(o) == Num(o.block) \o Bool(o.collidable) \o WritePositions(o.positions)

ReadObject(s) ==
    LET block == GetNum(Begin(s), "block")
        collidable == GetBool(block, "collidable")
    IN  GetPositions(collidable, "positions")

WriteObjects(q) == Num(Len(q)) \o FlattenSeq([i \in DOMAIN q |-> WriteObject(q[i])])

\* receive_map_objects takes the count as one byte.
ReadObjects(s) ==
    LET n == ReadNum(s)
    IN  ReadMany(n.rest, n.v % 256, [r \in Streams |-> ReadObject(r)])

GetObjects(e, name) == Field(e, name, ReadObjects(e.rest))

\* A table of guns, in any order.
WriteEntry(entry) == Code(GunCode, entry[1]) \o Num(entry[2])

ReadEntry(s) ==
    LET gun == ReadGun(s)
        n == ReadNum(gun.rest)
    IN  Read(<<gun.v, n.v>>, n.rest)

WriteTable(t) ==
    LET guns == SetToSeq(DOMAIN t)
    IN  Byte(Len(guns))
        \o FlattenSeq([i \in DOMAIN guns |-> WriteEntry(<<guns[i], t[guns[i]]>>)])

ReadTable(s) ==
    LET count == ReadByte(s)
        entries == ReadMany(count.rest, count.v, [r \in Streams |-> ReadEntry(r)])
        pairs == ToSet(entries.v)
    IN  Read([g \in {e[1] : e \in pairs} |-> (CHOOSE e \in pairs : e[1] = g)[2]],
             entries.rest)

GetTable(e, name) == Field(e, name, ReadTable(e.rest))

WriteInit(m) ==
    Byte(m.background) \o WriteObjects(m.objects) \o WritePositions(m.sites)
    \o WriteTable(m.prices) \o WriteTable(m.clips) \o Num(m.price_clips)

ReadInit(s) ==
    LET background == GetByte(BeginWith("init", s), "background")
        objects == GetObjects(background, "objects")
        sites == GetPositions(objects, "sites")
        prices == GetTable(sites, "prices")
        clips == GetTable(prices, "clips")
    IN  GetNum(clips, "price_clips")

WriteGameMessage(m) ==
    CASE m.type = "init" -> <<37>> \o WriteInit(m)
      [] m.type = "snapshot" -> <<53>> \o WriteSnapshot(m)
      [] m.type = "ended" -> <<96>>

ReadGameMessage(s) ==
    LET code == ReadByte(s)
    IN  CASE code.v = 37 -> ReadInit(code.rest)
          [] code.v = 53 -> ReadSnapshot(code.rest)
          [] OTHER -> Read([type |-> "ended"], code.rest)

-----------------------------------------------------------------------------
(***************************************************************************)
(* What is sent: the objects of dto's, with the widths of their fields and *)
(* the lengths of their lists.                                             *)
(***************************************************************************)
Lists(S) == {q \in Seq(S) : Len(q) <= 65535}
ShortLists(S) == {q \in Seq(S) : Len(q) <= 255}
Text == Lists(Octet)
Points == [x : Int, y : Int]
Optionals(S) == {o \in SUBSET S : \A u, v \in o : u = v}

AllRequests == [type : DOMAIN RequestCode, text : Text]

Answers == [type : DOMAIN RequestCode, status : {Success} \cup Refusals,
            name : {<<>>, NewGameName}]

\* The mouse is turned to by an arc tangent.
Angles == {a \in Int : Abs(a) <= 180}

AllCommands ==
    [type : {"move"}, dir : DOMAIN DirectionCode, on : BOOLEAN]
    \cup [type : {"rotate"}, angle : Angles]
    \cup [type : {"action", "defuse", "buy_ammo"}, on : BOOLEAN]
    \cup [type : {"equip"}, weapon : DOMAIN WeaponCode]
    \cup [type : {"buy_gun"}, gun : DOMAIN GunCode]
    \cup [type : {"pick_up", "start"}]

Items ==
    [type : {"gun"}, position : Points, gun : DOMAIN GunCode, ammo : Word]
    \cup [type : {"bomb"}, position : Points]

Loadouts == [money : Word, primary : DOMAIN GunCode, primary_ammo : Word,
             secondary : DOMAIN GunCode, secondary_ammo : Word,
             equipped : DOMAIN WeaponCode, has_bomb : BOOLEAN]

Players == [username : Text, position : Points, orientation : Int, life : Word,
            shot : Optionals(Points), planting : BOOLEAN, defusing : BOOLEAN,
            on_site : BOOLEAN, bonifications : {n \in Int : Abs(n) \in Word}, kills : Octet,
            deaths : Octet, loadout : Loadouts]

Snapshots == [type : {"snapshot"}, total_players : Octet, phase : Octet, round : Octet,
              rounds : Octet, ct_wins : Octet, tt_wins : Octet, time_left : Int,
              bomb_status : Octet, bomb_position : Optionals(Points),
              ct : ShortLists(Players), tt : ShortLists(Players),
              winner : Optionals(Octet), items : Lists(Items)]

Cells == [x : Word, y : Word]
Objects == [block : Word, collidable : BOOLEAN, positions : Lists(Cells)]
Tables == [DOMAIN GunCode \ {"none"} -> Word]

\* The objects of a map are of fewer kinds than a byte counts.
Inits == [type : {"init"}, background : Octet, objects : ShortLists(Objects),
          sites : Lists(Cells), prices : Tables, clips : Tables,
          price_clips : Word]

AllGameMessages == Inits \cup Snapshots \cup [type : {"ended"}]

ASSUME WireAssumption ==
    /\ Requests \subseteq AllRequests
    /\ Commands \subseteq AllCommands
    /\ GameMessages \subseteq AllGameMessages
    /\ Refusals \subseteq Octet \ {Success} /\ NewGameName \in Text

-----------------------------------------------------------------------------
(***************************************************************************)
(* The two ends.                                                           *)
(***************************************************************************)
Init ==
    /\ client = "lobby" /\ server = "lobby" /\ link = "up"
    /\ toServer = <<>> /\ sentToServer = <<>> /\ gotByServer = <<>>
    /\ toClient = <<>> /\ sentToClient = <<>> /\ gotByClient = <<>>

Entered(request, status) == request # "create_username" /\ status = Success

MoreMayBeSent == Len(sentToServer) + Len(sentToClient) < MaxMessages

ClientSends(m, bytes) ==
    /\ link = "up" /\ MoreMayBeSent
    /\ sentToServer' = Append(sentToServer, m)
    /\ toServer' = toServer \o bytes
    /\ UNCHANGED gotByServer

ServerSends(m, bytes) ==
    /\ sentToClient' = Append(sentToClient, m)
    /\ toClient' = toClient \o bytes
    /\ UNCHANGED gotByClient

\* Lobby::tryLobbyRequest: the window waits for the answer.
SendRequest ==
    /\ client = "lobby"
    /\ \E r \in Requests : ClientSends(r, WriteRequest(r))
    /\ client' = "asking"
    /\ UNCHANGED <<server, link, downVars>>

ReceiveAnswer ==
    LET a == ReadAnswer(toClient)
    IN  /\ client = "asking" /\ a.rest # Short
        /\ toClient' = a.rest
        /\ gotByClient' = Append(gotByClient, a.v)
        /\ client' = IF Entered(a.v.type, a.v.status) THEN "playing" ELSE "lobby"
        /\ UNCHANGED <<server, link, upVars, sentToClient>>

\* The handler answers a request before it starts to send, or to receive,
\* anything of the game.
HandleRequest ==
    LET r == ReadRequest(toServer)
    IN  /\ server = "lobby" /\ r.rest # Short
        /\ toServer' = r.rest
        /\ gotByServer' = Append(gotByServer, r.v)
        /\ UNCHANGED <<client, link, sentToServer>>
        /\ IF link = "up"
           THEN \E status \in {Success} \cup Refusals :
                  LET a == [type |-> r.v.type, status |-> status,
                            name |-> IF r.v.type = "create_game" /\ status = Success
                                     THEN NewGameName ELSE <<>>]
                  IN  /\ ServerSends(a, WriteAnswer(a))
                      /\ server' = IF Entered(r.v.type, status) THEN "playing" ELSE "lobby"
           ELSE server' = "over" /\ UNCHANGED downVars

SendCommand ==
    /\ client = "playing"
    /\ \E c \in Commands : ClientSends(c, WriteCommand(c))
    /\ UNCHANGED <<client, server, link, downVars>>

ReceiveCommand ==
    LET c == ReadCommand(toServer)
    IN  /\ server \in {"playing", "ended"} /\ c.rest # Short
        /\ toServer' = c.rest
        /\ gotByServer' = Append(gotByServer, c.v)
        /\ UNCHANGED <<client, server, link, sentToServer, downVars>>

SendGameMessage ==
    /\ server = "playing" /\ link = "up" /\ MoreMayBeSent
    /\ \E m \in GameMessages :
        /\ ServerSends(m, WriteGameMessage(m))
        /\ server' = IF m.type = "ended" THEN "ended" ELSE server
    /\ UNCHANGED <<client, link, upVars>>

ReceiveGameMessage ==
    LET m == ReadGameMessage(toClient)
    IN  /\ client = "playing" /\ m.rest # Short
        /\ toClient' = m.rest
        /\ gotByClient' = Append(gotByClient, m.v)
        /\ UNCHANGED <<client, server, link, upVars, sentToClient>>

\* What was on its way arrives up to some byte of each direction.
LoseLink ==
    /\ link = "up"
    /\ link' = "lost"
    /\ \E n \in 0..Len(toServer), k \in 0..Len(toClient) :
        /\ toServer' = SubSeq(toServer, 1, n)
        /\ toClient' = SubSeq(toClient, 1, k)
    /\ UNCHANGED <<client, server, sentToServer, gotByServer, sentToClient, gotByClient>>

\* A read of a lost connection that finds too little is its end.
ClientStops ==
    /\ link = "lost"
    /\ \/ client = "lobby"
       \/ client = "asking" /\ ReadAnswer(toClient).rest = Short
       \/ client = "playing" /\ ReadGameMessage(toClient).rest = Short
    /\ client' = "over"
    /\ UNCHANGED <<server, link, upVars, downVars>>

ServerStops ==
    /\ link = "lost"
    /\ \/ server = "lobby" /\ ReadRequest(toServer).rest = Short
       \/ server \in {"playing", "ended"} /\ ReadCommand(toServer).rest = Short
    /\ server' = "over"
    /\ UNCHANGED <<client, link, upVars, downVars>>

Next ==
    \/ SendRequest \/ HandleRequest \/ ReceiveAnswer
    \/ SendCommand \/ ReceiveCommand
    \/ SendGameMessage \/ ReceiveGameMessage
    \/ LoseLink \/ ClientStops \/ ServerStops

Spec == Init /\ [][Next]_vars

-----------------------------------------------------------------------------
(***************************************************************************)
(* What must hold.                                                         *)
(***************************************************************************)
\* A message as it should arrive: an angle as its code, the seconds left of a
\* phase without what a byte cannot hold, a position as 16 bits without a sign (who
\* joins late stands at (-100, -100) until the next round).
Wrapped(p) == [x |-> p.x % 65536, y |-> p.y % 65536]
AllWrapped(places) == {Wrapped(p) : p \in places}

ArrivingPlayer(p) == [p EXCEPT !.position = Wrapped(@), !.shot = AllWrapped(@),
                               !.orientation = AngleCode(@)]
ArrivingPlayers(players) == [i \in DOMAIN players |-> ArrivingPlayer(players[i])]

ArrivingItem(item) == [item EXCEPT !.position = Wrapped(@)]
ArrivingItems(items) == [i \in DOMAIN items |-> ArrivingItem(items[i])]

Arriving(m) ==
    CASE m.type = "rotate" -> [m EXCEPT !.angle = AngleCode(@)]
      [] m.type = "snapshot" ->
            [m EXCEPT !.ct = ArrivingPlayers(@), !.tt = ArrivingPlayers(@),
                      !.items = ArrivingItems(@), !.bomb_position = AllWrapped(@),
                      !.time_left = @ % 256]
      [] OTHER -> m

UpChannel == INSTANCE Channel WITH
    Messages <- {Arriving(m) : m \in Requests \cup Commands},
    sent <- [i \in DOMAIN sentToServer |-> Arriving(sentToServer[i])],
    got <- gotByServer

DownChannel == INSTANCE Channel WITH
    Messages <- {Arriving(m) : m \in Answers \cup GameMessages},
    sent <- [i \in DOMAIN sentToClient |-> Arriving(sentToClient[i])],
    got <- gotByClient

\* Requests and commands, answers and game messages are received as they were
\* sent: each end reads the fields the other wrote, in the state in which the
\* other wrote them, and of a connection that is cut no partial message.
ServerReadsWhatIsWritten == UpChannel!Spec
ClientReadsWhatIsWritten == DownChannel!Spec

\* The angle a player turned to, also to the left (negative degrees), is within
\* a hundredth of a degree of the one the server is told.
AngleSurvives ==
    \A i \in DOMAIN gotByServer : gotByServer[i].type = "rotate" =>
        Abs(360 * gotByServer[i].angle - 65535 * (sentToServer[i].angle % 360)) <= 720

=============================================================================
