------------------------------- MODULE MCWire -------------------------------
(***************************************************************************)
(* Messages for TLC: every kind, with values at the ends of their fields,  *)
(* different in neighbouring fields.                                       *)
(***************************************************************************)
EXTENDS Wire

SomeRequests ==
    {[type |-> "create_username", text |-> <<97>>],
     [type |-> "create_game", text |-> <<>>],
     [type |-> "join_game", text |-> <<48, 49>>]}

SomeCommands ==
    {[type |-> "move", dir |-> d, on |-> d = "up"] : d \in DOMAIN DirectionCode}
    \cup {[type |-> "rotate", angle |-> a] : a \in {-180, -90, -1, 179}}
    \cup {[type |-> t, on |-> b] : t \in {"action", "defuse", "buy_ammo"}, b \in BOOLEAN}
    \cup {[type |-> "equip", weapon |-> w] : w \in DOMAIN WeaponCode}
    \cup {[type |-> "buy_gun", gun |-> g] : g \in {"ak47", "m3", "awp"}}
    \cup {[type |-> t] : t \in {"pick_up", "start"}}

Rich == [money |-> 65535, primary |-> "awp", primary_ammo |-> 256, secondary |-> "glock",
         secondary_ammo |-> 255, equipped |-> "bomb", has_bomb |-> TRUE]
Poor == [money |-> 0, primary |-> "none", primary_ammo |-> 0, secondary |-> "glock",
         secondary_ammo |-> 20, equipped |-> "knife", has_bomb |-> FALSE]

Winner == [username |-> <<97, 98>>, position |-> [x |-> 65535, y |-> 1],
           orientation |-> 359, life |-> 100, shot |-> {[x |-> 257, y |-> 0]},
           planting |-> TRUE, defusing |-> FALSE, on_site |-> TRUE,
           bonifications |-> 3750, kills |-> 3, deaths |-> 0, loadout |-> Rich]
Loser == [username |-> <<99>>, position |-> [x |-> 0, y |-> 256],
          orientation |-> -90, life |-> 0, shot |-> {},
          planting |-> FALSE, defusing |-> TRUE, on_site |-> FALSE,
          bonifications |-> -1000, kills |-> 0, deaths |-> 2, loadout |-> Poor]

\* Who has just joined a match that is played.
Late == [Loser EXCEPT !.position = [x |-> -100, y |-> -100], !.bonifications = 0]

Waiting == [type |-> "snapshot", total_players |-> 2, phase |-> 0, round |-> 0,
            rounds |-> 4, ct_wins |-> 0, tt_wins |-> 0, time_left |-> 300,
            bomb_status |-> 0, bomb_position |-> {}, ct |-> <<>>, tt |-> <<>>,
            winner |-> {}, items |-> <<>>]
Ended == [type |-> "snapshot", total_players |-> 2, phase |-> 3, round |-> 4,
          rounds |-> 5, ct_wins |-> 1, tt_wins |-> 2, time_left |-> 255,
          bomb_status |-> 3, bomb_position |-> {[x |-> 1, y |-> 513]},
          ct |-> <<Loser, Late>>, tt |-> <<Winner>>, winner |-> {1},
          items |-> <<[type |-> "bomb", position |-> [x |-> 5, y |-> 6]],
                      [type |-> "gun", position |-> [x |-> 7, y |-> 8], gun |-> "m3",
                       ammo |-> 258]>>]

InitialInfo == [type |-> "init", background |-> 18,
                objects |-> <<[block |-> 3, collidable |-> TRUE,
                               positions |-> <<[x |-> 1, y |-> 2], [x |-> 3, y |-> 4]>>],
                              [block |-> 258, collidable |-> FALSE, positions |-> <<>>]>>,
                sites |-> <<[x |-> 9, y |-> 10]>>,
                prices |-> [glock |-> 0, ak47 |-> 2700, m3 |-> 1700, awp |-> 4750],
                clips |-> [glock |-> 20, ak47 |-> 30, m3 |-> 8, awp |-> 256],
                price_clips |-> 50]

SomeGameMessages == {InitialInfo, Waiting, Ended, [type |-> "ended"]}
ANumber == <<48>>

=============================================================================
