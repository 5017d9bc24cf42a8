------------------------------- MODULE Field -------------------------------
(***************************************************************************)
(* Where the players of a match stand: the walls of the map, the spawn     *)
(* points players are placed on when a round begins, and the steps they    *)
(* take in every frame, each stopped by the first object in its way.       *)
(*                                                                         *)
(* Lengths are integers, as in the code, in a unit chosen by the instance. *)
(* Of the bomb and the weapons only what they do here is kept: who plants  *)
(* or defuses stands still, and anybody may be killed.  Every player has   *)
(* joined; a player who does not stand on the map yet is at Outside.       *)
(***************************************************************************)
EXTENDS Integers, Sequences, Functions

CONSTANTS ByName,    \* the players in the order of the map of players
          Joined,    \* the players in the order they joined
          Width, Height,        \* of the map, in cells
          Blocks,               \* the cells of collidable blocks, in file order
          CtSpawns, TtSpawns,   \* cells players spawn on
          Sites,                \* cells where the bomb may be planted
          Block,     \* BLOCK_THICKNESS: side of a cell
          Body,      \* PLAYER_THICKNESS: side of a player
          Outside,   \* where a player stands before its first round
          Speed,     \* PLAYER_SPEED: length of a frame's step
          MaxLapse,  \* bound: most frames one late iteration skips
          Holdable,  \* bound: the sets of directions players hold at once
          Margin     \* bound: how far off the map players are followed

Players == Range(ByName)

ASSUME FieldAssumption ==
    /\ Block \in Nat \ {0} /\ Body \in 1..Block /\ Speed \in Nat \ {0}
    /\ Width \in Nat \ {0} /\ Height \in Nat \ {0}
    /\ ByName \in Seq(Players) /\ ByName # <<>>
    /\ Joined \in Seq(Players) /\ Range(Joined) = Players
    /\ \A i, j \in DOMAIN ByName : ByName[i] = ByName[j] => i = j
    /\ Blocks \in Seq([x : Int, y : Int])
    /\ CtSpawns \cup TtSpawns \subseteq [x : Int, y : Int]
    /\ MaxLapse \in Nat /\ MaxLapse * Speed <= Block
    /\ Outside \in Int /\ Margin \in Nat
    /\ \A held \in Holdable : SUBSET held \subseteq Holdable

VARIABLES team,    \* side of each player
          alive,   \* players with life left
          pos,     \* top left corner of each player's body
          moving,  \* directions each player is moving in
          onSite,  \* Player::on_site
          job,     \* what the game thread does
          turn,    \* index in ByName of the player it does it to
          lapse    \* frames they move for in this iteration

vars == <<team, alive, pos, moving, onSite, job, turn, lapse>>

\* Placing the players of a round, moving them, or neither; "over" once an
\* exception has ended the thread.
Jobs == {"waiting", "idle", "spawning", "moving", "over"}

Directions == {"up", "down", "left", "right"}
Axes == {"x", "y"}

Last == Len(ByName)
Now == ByName[turn]

-----------------------------------------------------------------------------
(***************************************************************************)
(* Rectangles, and what collides with a player, in the order it is tried:  *)
(* the blocks, four invisible walls around the map, and the other players. *)
(***************************************************************************)
Point(x, y) == [x |-> x, y |-> y]
Rect(at, w, h) == [at |-> at, size |-> Point(w, h)]

Intersects(r, s) ==
    /\ r.at.x + r.size.x > s.at.x /\ r.at.x < s.at.x + s.size.x
    /\ r.at.y + r.size.y > s.at.y /\ r.at.y < s.at.y + s.size.y

CellAt(cell) == Point(cell.x * Block, cell.y * Block)
CellRect(cell) == Rect(CellAt(cell), Block, Block)

BlockRects == [i \in DOMAIN Blocks |-> CellRect(Blocks[i])]

InvisibleWalls ==
    << Rect(Point(0, -Block), Width * Block, Block),
       Rect(Point(Width * Block, 0), Block, Height * Block),
       Rect(Point(0, Height * Block), Width * Block, Block),
       Rect(Point(-Block, 0), Block, Height * Block) >>

Walls == BlockRects \o InvisibleWalls

BodyAt(at) == Rect(at, Body, Body)

\* Mutant: a player is in its own way.
SelfRivals(p) == alive

\* The dead collide with nobody, and nobody collides with itself.
Rivals(p) == alive \ {p}

Collidables == Walls \o [i \in DOMAIN Joined |-> BodyAt(pos[Joined[i]])]

\* Where the list has what p collides with.
Solid(p) ==
    DOMAIN Walls \cup
    {Len(Walls) + i : i \in {j \in DOMAIN Joined : Joined[j] \in Rivals(p)}}

\* Where the list has the objects in the way of p at a place.
InTheWay(p, at) ==
    LET list == Collidables
        body == BodyAt(at)
    IN  {i \in Solid(p) : Intersects(list[i], body)}
FirstOf(hits) == Collidables[CHOOSE i \in hits : \A j \in hits : i <= j]

-----------------------------------------------------------------------------
(***************************************************************************)
(* Steps.                                                                  *)
(***************************************************************************)
\* int(s / sqrt(2)), which truncates towards zero.
Diagonal(s) == CHOOSE n \in 0..s : 2 * n * n <= s * s
                                   /\ s * s < 2 * (n + 1) * (n + 1)

Towards(p, d, s) == IF d \in moving[p] THEN s ELSE 0

\* Opposite directions cancel each other; both axes together are slower.
StepOf(p) ==
    LET side(s) == Towards(p, "right", s) - Towards(p, "left", s)
        rise(s) == Towards(p, "down", s) - Towards(p, "up", s)
        s == lapse * Speed
        both == side(s) # 0 /\ rise(s) # 0
    IN  IF both THEN Point(side(Diagonal(s)), rise(Diagonal(s)))
                ELSE Point(side(s), rise(s))

\* Mutant: the player is put on the far side of what stops it.
FarSide(c, a, d) == IF d > 0 THEN c.at[a] + c.size[a] ELSE c.at[a] - Body

\* Where the first object in the way stops a player that goes by d along a.
NearSide(c, a, d) == IF d > 0 THEN c.at[a] - Body ELSE c.at[a] + c.size[a]

Along(p, here, a, d) ==
    LET there == [here EXCEPT ![a] = @ + d]
        hits == InTheWay(p, there)
    IN  IF d = 0 THEN here ELSE IF hits = {} THEN there
        ELSE [there EXCEPT ![a] = NearSide(FirstOf(hits), a, d)]

\* First along x, then along y.
MakeStep(p) ==
    LET step == StepOf(p)
    IN  Along(p, Along(p, pos[p], "x", step.x), "y", step.y)

\* The middle of the body is within a site, whose first edges it includes.
StandsOnSite(at) ==
    \E s \in Sites : \A a \in Axes :
        LET middle == at[a] + Body \div 2
        IN  CellAt(s)[a] <= middle /\ middle < CellAt(s)[a] + Block

\* A shot leaves from the middle of the body.  Of all angles the four along the
\* axes are kept: the shot meets c if an edge of c across its way lies ahead.
Meets(c, from, d) ==
    LET a == IF d \in {"left", "right"} THEN "x" ELSE "y"
        b == IF a = "x" THEN "y" ELSE "x"
    IN  /\ c.at[b] <= from[b] /\ from[b] <= c.at[b] + c.size[b]
        /\ IF d \in {"right", "down"} THEN from[a] <= c.at[a] + c.size[a]
                                      ELSE c.at[a] <= from[a]

HitsSomething(p, at, d) ==
    LET list == Collidables
        from == Point(at.x + Body \div 2, at.y + Body \div 2)
    IN  \E i \in Solid(p) : Meets(list[i], from, d)

-----------------------------------------------------------------------------
(***************************************************************************)
(* Commands of the attack phase and of the break after it, which reach the *)
(* world between two frames.  Those of the dead are ignored.  In the buy   *)
(* phase no command moves anybody: it passes as frames without commands.   *)
(***************************************************************************)
Move(p, d) ==
    /\ job = "idle" /\ p \in alive
    /\ moving[p] \cup {d} \in Holdable
    /\ moving' = [moving EXCEPT ![p] = @ \cup {d}]
    /\ UNCHANGED <<team, alive, pos, onSite, job, turn, lapse>>

StopMoving(p, d) ==
    /\ job = "idle" /\ p \in alive
    /\ moving' = [moving EXCEPT ![p] = @ \ {d}]
    /\ UNCHANGED <<team, alive, pos, onSite, job, turn, lapse>>

-----------------------------------------------------------------------------
(***************************************************************************)
(* begin_new_round: everybody lives again and stands still, and is placed  *)
(* one after the other.  A position is drawn until it is free of the walls *)
(* and of all other players, who may not have left their old places yet.   *)
(***************************************************************************)
OtherSide(t) == IF t = "CT" THEN "TT" ELSE "CT"

BeginRound(swap) ==
    /\ job \in {"waiting", "idle"}
    /\ team' = [p \in Players |-> IF swap THEN OtherSide(team[p]) ELSE team[p]]
    /\ alive' = Players
    /\ moving' = [p \in Players |-> {}]
    /\ onSite' = {}
    /\ job' = "spawning" /\ turn' = 1
    /\ UNCHANGED <<pos, lapse>>

Spawns(t) == IF t = "CT" THEN CtSpawns ELSE TtSpawns

\* The body stands in the middle of the cell.
SpawnPosition(cell) ==
    Point(CellAt(cell).x + (Block - Body) \div 2,
          CellAt(cell).y + (Block - Body) \div 2)

SpawnPositions(p) == {SpawnPosition(cell) : cell \in Spawns(team[p])}

IsFree(p, at) == InTheWay(p, at) = {}

\* Mutant: the turn goes on past the last player.
EndlessTurns == turn' = turn + 1 /\ UNCHANGED <<job, lapse>>

NextTurn ==
    IF turn = Last THEN job' = "idle" /\ turn' = 1 /\ lapse' = 0
    ELSE turn' = turn + 1 /\ UNCHANGED <<job, lapse>>

\* A player stands on what was drawn for it, free or not.
Spawn(p, at) ==
    /\ job = "spawning" /\ p = Now
    /\ pos' = [pos EXCEPT ![p] = at]
    /\ IF IsFree(p, at) THEN NextTurn ELSE UNCHANGED <<job, turn, lapse>>
    /\ UNCHANGED <<team, alive, moving, onSite>>

-----------------------------------------------------------------------------
(***************************************************************************)
(* GameWorld::update: a bomb that explodes may kill anybody; then each     *)
(* player who lives plants or defuses, or makes a step and uses its weapon.*)
(* (The first iteration of a phase, 0 frames long, moves nobody.)          *)
(***************************************************************************)
IsNearTheMap(at) ==
    /\ at.x \in -Margin..(Width * Block - Body + Margin)
    /\ at.y \in -Margin..(Height * Block - Body + Margin)

Update(d) ==
    /\ job = "idle"
    /\ \A p \in Players : IsNearTheMap(pos[p])
    /\ \E hurt \in SUBSET alive : alive' = alive \ hurt
    /\ job' = "moving" /\ turn' = 1 /\ lapse' = d
    /\ UNCHANGED <<team, pos, moving, onSite>>

SkipDead(p) ==
    /\ job = "moving" /\ p = Now /\ p \notin alive
    /\ NextTurn
    /\ UNCHANGED <<team, alive, pos, moving, onSite>>

\* Only who stands on a site plants; anybody may be defusing.
StandStill(p) ==
    /\ job = "moving" /\ p = Now /\ p \in alive
    /\ NextTurn
    /\ UNCHANGED <<team, alive, pos, moving, onSite>>

MakesStep(p) ==
    /\ job = "moving" /\ p = Now /\ p \in alive
    /\ LET at == MakeStep(p)
       IN  /\ pos' = [pos EXCEPT ![p] = at]
           /\ onSite' = IF StandsOnSite(at) THEN onSite \cup {p}
                                           ELSE onSite \ {p}
    /\ UNCHANGED <<team, moving>>

\* The shots of a weapon, scattered about where the player looks, may kill.
Walk(p) ==
    /\ MakesStep(p)
    /\ \E shot \in SUBSET (alive \ {p}) : alive' = alive \ shot
    /\ NextTurn

\* Shot::shoot throws if a shot meets nothing: the game thread ends.
ShootAtNothing(p, d) ==
    /\ MakesStep(p)
    /\ ~HitsSomething(p, pos[p]', d)
    /\ job' = "over"
    /\ UNCHANGED <<alive, turn, lapse>>

-----------------------------------------------------------------------------
\* add_player seats the players on the two sides by turns.
Init ==
    /\ team = [p \in Players |->
                 IF \E i \in DOMAIN Joined : Joined[i] = p /\ i % 2 = 1
                 THEN "CT" ELSE "TT"]
    /\ alive = Players
    /\ pos = [p \in Players |-> Point(Outside, Outside)]
    /\ moving = [p \in Players |-> {}]
    /\ onSite = {}
    /\ job = "waiting" /\ turn = 1 /\ lapse = 0

Next ==
    \/ \E swap \in BOOLEAN : BeginRound(swap)
    \/ \E d \in 1..MaxLapse : Update(d)
    \/ \E p \in Players :
          \/ \E d \in Directions : Move(p, d) \/ StopMoving(p, d)
          \/ \E at \in SpawnPositions(p) : Spawn(p, at)
          \/ SkipDead(p)
          \/ StandStill(p)
          \/ Walk(p)
          \/ \E d \in Directions : ShootAtNothing(p, d)
    \/ job = "over" /\ UNCHANGED vars

(***************************************************************************)
(* The positions are drawn by a fair die: one that is free comes out.      *)
(***************************************************************************)
DrawFree ==
    job = "spawning" /\ \E at \in SpawnPositions(Now) :
                            IsFree(Now, at) /\ Spawn(Now, at)

Spec == Init /\ [][Next]_vars /\ WF_vars(DrawFree)

-----------------------------------------------------------------------------
TypeOK ==
    /\ team \in [Players -> {"CT", "TT"}]
    /\ alive \subseteq Players
    /\ pos \in [Players -> [Axes -> Int]]
    /\ moving \in [Players -> SUBSET Directions]
    /\ onSite \subseteq Players
    /\ job \in Jobs
    /\ turn \in 1..Last
    /\ lapse \in 0..MaxLapse

InWall(at) == \E i \in DOMAIN Walls : Intersects(Walls[i], BodyAt(at))

OnTheMap(at) == /\ at.x \in 0..(Width * Block - Body)
                /\ at.y \in 0..(Height * Block - Body)

StandsFree(at) == OnTheMap(at) /\ ~InWall(at)

\* A shot always meets some object (shot.cpp:13 throws that it cannot be
\* otherwise): the game thread does not end under its players.
ShotsHitSomething == job # "over"

\* What p's body may touch in one step.
Reach(p) == LET s == lapse * Speed
            IN  Rect(Point(pos[p].x - s, pos[p].y - s),
                     Body + 2 * s, Body + 2 * s)

NobodyInReach(p) ==
    \A q \in alive \ {p} : ~Intersects(Reach(p), BodyAt(pos[q]))

(***************************************************************************)
(* Walls stop those who walk alone: a player who stands free, with nobody  *)
(* within a step's reach, ends its step free, on the map, and no farther   *)
(* than it asked, whatever it presses and however late the frame, up to a  *)
(* step of a block.  (With a player in reach the code gives no such        *)
(* guarantee: the first object of the list stops the step, not the nearest,*)
(* and the next step is snapped to the far side of a player that is        *)
(* overlapped: into a wall, then off the map.)                             *)
(***************************************************************************)
WalksAlone(p) == /\ job = "moving" /\ p = Now
                 /\ StandsFree(pos[p]) /\ NobodyInReach(p)

\* Neither backwards nor beyond what was asked.
GoesForwards(went, asked) == went \in 0..asked \/ went \in asked..0

WallsStopWalkers ==
    [][\A p \in Players : WalksAlone(p) =>
         /\ StandsFree(pos[p]')
         /\ \A a \in Axes :
               GoesForwards(pos[p][a]' - pos[p][a], StepOf(p)[a])]_vars

(***************************************************************************)
(* Every round gets its players placed: the loop that draws positions, in  *)
(* the game thread, ends.  It needs maps on which the other players cannot *)
(* cover all the spawns of a side: the constructor counts them             *)
(* (game_world.cpp:65), and takes that for enough.                         *)
(***************************************************************************)
SpawningEnds == job = "spawning" ~> job = "idle"

=============================================================================
