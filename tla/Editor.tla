------------------------------- MODULE Editor -------------------------------
(***************************************************************************)
(* The map editor: the window's pages and its clicks and drags             *)
(* (Game_editor), the map behind the window (LogicMap), and what is kept   *)
(* of it in a file.                                                        *)
(*                                                                         *)
(* A cell is <<column, row>>.  Marks are what lies on the floor: the       *)
(* spawns of both teams, the sites and the guns of each type.  The         *)
(* backgrounds, and how a cell is drawn, are left out.                     *)
(***************************************************************************)
EXTENDS Integers, FiniteSets, FiniteSetsExt

CONSTANTS Blocks, Collidable,        \* kinds of blocks, and which are walls
          Guns,                      \* types of guns
          NoBlock, NoCell, NoMap,
          DefaultRows, DefaultColumns, \* of a new map
          Added,                     \* rows, or columns, added at once
          MinSpawns, MinSites,       \* without which a map is not saved
          GivenMaps,                 \* maps the folder may hold at first
          MaxEdits                   \* bound: changes made to maps

ASSUME EditorAssumption ==
    /\ Collidable \subseteq Blocks /\ NoBlock \notin Blocks
    /\ Guns \cap {"ct", "tt", "site"} = {}
    /\ DefaultRows \in Nat \ {0, 1} /\ DefaultColumns \in Nat \ {0, 1}
    /\ Added \in Nat \ {0}

VARIABLES
    grid,         \* rows of blocks; rows may be longer than the first one
    marks,        \* the cells with each kind of mark
    tool,         \* what is painted: a block, NoBlock or a kind of mark
    left, right,  \* cells pressed and not yet dropped from (..._click_done)
    held,         \* the button that is down, on which cell, by which click
    page,         \* "menu", "edit", "load" or "gone": the program has stopped
    created,      \* has_entry_create
    shown,        \* what each label of the window shows
    file,         \* the map in the folder
    fresh,        \* history: the map is as it was loaded
    edits

ui == <<tool, left, right, held, page, created>>
vars == <<grid, marks, ui, shown, file, fresh, edits>>

Spawns == {"ct", "tt"}
Kinds == Spawns \cup {"site"} \cup Guns
Tools == Blocks \cup {NoBlock} \cup Kinds

-----------------------------------------------------------------------------
(***************************************************************************)
(* LogicMap.                                                               *)
(***************************************************************************)
Height(g) == Cardinality(DOMAIN g)
Width(g) == IF g = <<>> THEN 0 ELSE Cardinality(DOMAIN g[0])
Cells(g) == (0..(Width(g) - 1)) \X (0..(Height(g) - 1))
At(g, cell) == g[cell[2]][cell[1]]

EmptyGrid(width, height) == [i \in 0..(height - 1) |-> [j \in 0..(width - 1) |-> NoBlock]]
NoMarks == [k \in Kinds |-> {}]

Resized(row, width) ==
    [j \in 0..(width - 1) |-> IF j \in DOMAIN row THEN row[j] ELSE NoBlock]

\* The width is asked for again after the first row has grown.
WithMoreColumns(g) ==
    [i \in DOMAIN g |-> Resized(g[i], Width(g) + (IF i = 0 THEN Added ELSE 2 * Added))]

WithMoreRows(g) ==
    [i \in 0..(Height(g) + Added - 1) |->
        IF i \in DOMAIN g THEN g[i] ELSE [j \in 0..(Width(g) - 1) |-> NoBlock]]

\* A cell has room for one gun only.
Unmarked(m, kinds, cells) == [k \in Kinds |-> IF k \in kinds THEN m[k] \ cells ELSE m[k]]
Together(kind) == IF kind \in Guns THEN Guns ELSE {kind}

IsWall(g, cell) == At(g, cell) \in Collidable

SetBlock(cells, block) ==
    /\ grid' = [i \in DOMAIN grid |-> [j \in DOMAIN grid[i] |->
                    IF <<j, i>> \in cells THEN block ELSE grid[i][j]]]
    /\ marks' = IF block \in Collidable THEN Unmarked(marks, Kinds, cells) ELSE marks

\* Mutant: walls are not looked at.
MarkAnywhere(cells, kind) ==
    /\ marks' = [Unmarked(marks, Together(kind), cells) EXCEPT ![kind] = @ \cup cells]
    /\ UNCHANGED grid

SetMark(cells, kind) ==
    LET free == {c \in cells : ~IsWall(grid, c)}
    IN  /\ marks' = [Unmarked(marks, Together(kind), free) EXCEPT ![kind] = @ \cup free]
        /\ UNCHANGED grid

EraseMark(cells, kind) ==
    /\ marks' = Unmarked(marks, Together(kind), cells)
    /\ UNCHANGED grid

-----------------------------------------------------------------------------
(***************************************************************************)
(* Maps in files.  A file has the blocks that are some block, relative to  *)
(* the smallest rectangle that holds them; a map without blocks has a      *)
(* rectangle turned inside out.                                            *)
(***************************************************************************)
Left(g, used) == Min({Width(g)} \cup {c[1] : c \in used})
Top(g, used) == Min({Height(g)} \cup {c[2] : c \in used})
Right(used) == Max({0} \cup {c[1] : c \in used})
Bottom(used) == Max({0} \cup {c[2] : c \in used})

Shifted(cells, dx, dy) == {<<c[1] - dx, c[2] - dy>> : c \in cells}

\* The terrorists' spawns are moved by the columns on both axes.
MovedMarks(m, x, y) ==
    [k \in Kinds |-> IF k = "tt" THEN Shifted(m[k], x, x) ELSE Shifted(m[k], x, y)]

Written(g) == {c \in Cells(g) : At(g, c) # NoBlock}

CreateMap(g, m) ==
    LET used == {c \in Cells(g) : At(g, c) # NoBlock}
        x == Left(g, used)
        y == Top(g, used)
        cells == Shifted(Written(g), x, y)
    IN  [width |-> Right(used) - x + 1, height |-> Bottom(used) - y + 1,
         blocks |-> [c \in cells |-> At(g, <<c[1] + x, c[2] + y>>)],
         marks |-> MovedMarks(m, x, y)]

CanBeSaved(m) ==
    /\ \A k \in Spawns : Cardinality(m[k]) >= MinSpawns
    /\ Cardinality(m["site"]) >= MinSites

(***************************************************************************)
(* A map as it is saved: it begins and ends where its blocks do, nothing   *)
(* lies inside its walls (the terrorists' spawns are not spoken of), and   *)
(* no two guns lie on one cell: of those, the editor would keep one.  The  *)
(* maps the folder holds at first are like that; the two that come with    *)
(* the program are.                                                        *)
(***************************************************************************)
Tight(map) ==
    /\ DOMAIN map.blocks \subseteq (0..(map.width - 1)) \X (0..(map.height - 1))
    /\ map.width > 0 /\ map.height > 0 =>
         /\ \E c \in DOMAIN map.blocks : c[1] = 0
         /\ \E c \in DOMAIN map.blocks : c[1] = map.width - 1
         /\ \E c \in DOMAIN map.blocks : c[2] = 0
         /\ \E c \in DOMAIN map.blocks : c[2] = map.height - 1

Clear(map) ==
    \A k \in Kinds \ {"tt"} : \A c \in map.marks[k] \cap DOMAIN map.blocks :
        map.blocks[c] \notin Collidable

OneGunACell(m) == \A a, b \in Guns : a # b => m[a] \cap m[b] = {}

IsSaved(map) ==
    /\ map = [width |-> map.width, height |-> map.height,
              blocks |-> map.blocks, marks |-> map.marks]
    /\ map.width \in Int /\ map.height \in Int
    /\ map.blocks \in [DOMAIN map.blocks -> Blocks]
    /\ map.marks \in [Kinds -> SUBSET (Int \X Int)]
    /\ Tight(map) /\ Clear(map) /\ OneGunACell(map.marks)

ASSUME MapsAssumption ==
    /\ \A map \in GivenMaps : IsSaved(map)
    /\ NoMap \notin GivenMaps

GridOf(map) ==
    [i \in 0..(map.height - 1) |-> [j \in 0..(map.width - 1) |->
        IF <<j, i>> \in DOMAIN map.blocks THEN map.blocks[<<j, i>>] ELSE NoBlock]]

-----------------------------------------------------------------------------
(***************************************************************************)
(* The window.                                                             *)
(***************************************************************************)
NotHeld == [button |-> "none", cell |-> NoCell, clicks |-> 0]
Hold(button, cell, clicks) == [button |-> button, cell |-> cell, clicks |-> clicks]

CellInfo(g, m, cell) == [block |-> At(g, cell), marks |-> {k \in Kinds : cell \in m[k]}]
AllShown(g, m) == [c \in Cells(g) |-> CellInfo(g, m, c)]

\* Mutant: only the cell where the button was released is drawn anew.
RenderDrop(cells, drop) ==
    shown' = [c \in DOMAIN shown |->
                IF c = drop THEN CellInfo(grid', marks', c) ELSE shown[c]]

Render(cells, drop) ==
    shown' = [c \in DOMAIN shown |->
                IF c \in cells THEN CellInfo(grid', marks', c) ELSE shown[c]]

Init ==
    /\ grid = <<>> /\ marks = NoMarks /\ shown = <<>>
    /\ tool = NoBlock /\ left = NoCell /\ right = NoCell /\ held = NotHeld
    /\ page = "menu" /\ created = FALSE
    /\ file \in GivenMaps \cup {NoMap} /\ fresh = FALSE /\ edits = 0

ForgottenPress == NoCell

\* on_go_to_create_button_clicked; choosing a background forgets a press.
GoToCreate ==
    /\ page = "menu"
    /\ page' = "edit" /\ created' = TRUE
    /\ IF created
       THEN UNCHANGED <<grid, marks, shown, left, fresh>>
       ELSE /\ grid' = EmptyGrid(DefaultColumns, DefaultRows)
            /\ marks' = NoMarks
            /\ shown' = AllShown(grid', marks')
            /\ left' = ForgottenPress
            /\ fresh' = FALSE
    /\ UNCHANGED <<tool, right, held, file, edits>>

GoToLoad ==
    /\ page = "menu"
    /\ page' = "load"
    /\ UNCHANGED <<grid, marks, tool, left, right, held, created, shown, file, fresh, edits>>

Back ==
    /\ page \in {"edit", "load"} /\ held = NotHeld
    /\ page' = "menu"
    /\ UNCHANGED <<grid, marks, tool, left, right, held, created, shown, file, fresh, edits>>

\* Mutant: what was there stays under what is loaded.
MarksAdded(map) == [k \in Kinds |-> marks[k] \cup map.marks[k]]

LoadedMarks(map) == map.marks

\* A grid cannot be resized to a negative number of rows.
Load ==
    /\ page = "load" /\ file # NoMap
    /\ IF file.width <= 0 \/ file.height <= 0
       THEN /\ page' = "gone"
            /\ UNCHANGED <<grid, marks, left, shown, created, fresh>>
       ELSE /\ grid' = GridOf(file)
            /\ marks' = LoadedMarks(file)
            /\ shown' = AllShown(grid', marks')
            /\ left' = ForgottenPress /\ created' = FALSE /\ page' = "edit"
            /\ fresh' = TRUE
    /\ UNCHANGED <<tool, right, held, file, edits>>

Save ==
    /\ page = "edit" /\ held = NotHeld
    /\ CanBeSaved(marks)
    /\ file' = CreateMap(grid, marks)
    /\ fresh' = FALSE
    /\ UNCHANGED <<grid, marks, ui, shown, edits>>

Edit ==
    /\ page = "edit" /\ edits < MaxEdits
    /\ edits' = edits + 1
    /\ fresh' = FALSE
    /\ UNCHANGED file

\* Labels are added to the window for the new cells; the others stay.
Grow ==
    /\ shown' = [c \in Cells(grid') |->
                    IF c \in DOMAIN shown THEN shown[c] ELSE CellInfo(grid', marks, c)]
    /\ UNCHANGED <<marks, ui>>

AddColumns == Edit /\ held = NotHeld /\ grid' = WithMoreColumns(grid) /\ Grow
AddRows == Edit /\ held = NotHeld /\ grid' = WithMoreRows(grid) /\ Grow

\* The labels of tools and backgrounds: the left button chooses.
PressTool ==
    /\ page = "edit" /\ held = NotHeld
    /\ tool' \in (Tools \ {NoBlock}) \cup {tool}
    /\ left' = ForgottenPress
    /\ held' = Hold("left", NoCell, 1)
    /\ UNCHANGED <<grid, marks, right, page, created, shown, file, fresh, edits>>

\* With the right button a tool does nothing, but it can be dragged from.
RightPressTool ==
    /\ page = "edit" /\ held = NotHeld
    /\ held' = Hold("right", NoCell, 1)
    /\ UNCHANGED <<grid, marks, tool, left, right, page, created, shown, file, fresh, edits>>

PressCell ==
    /\ page = "edit" /\ held = NotHeld
    /\ \E c \in Cells(grid) :
        \/ left' = c /\ held' = Hold("left", c, 1) /\ UNCHANGED right
        \/ right' = c /\ held' = Hold("right", c, 1) /\ UNCHANGED left
    /\ UNCHANGED <<grid, marks, tool, page, created, shown, file, fresh, edits>>

\* Let go without having dragged, or outside of the grid.
Release ==
    /\ held # NotHeld
    /\ held' = NotHeld
    /\ UNCHANGED <<grid, marks, tool, left, right, page, created, shown, file, fresh, edits>>

Rectangle(a, b) ==
    (Min({a[1], b[1]})..Max({a[1], b[1]})) \X (Min({a[2], b[2]})..Max({a[2], b[2]}))

\* Writing a block outside of the grid is undefined: the program stops or it
\* goes on.  Erasing a mark there does nothing.
Handle(from, to, erase) ==
    LET cells == Rectangle(from, to)
    IN  \/ /\ IF tool \in Kinds
              THEN IF erase THEN EraseMark(cells, tool) ELSE SetMark(cells, tool)
              ELSE SetBlock(cells, IF erase THEN NoBlock ELSE tool)
           /\ Render(cells, to)
           /\ UNCHANGED page
        \/ /\ tool \notin Kinds /\ ~(cells \subseteq Cells(grid))
           /\ page' = "gone"
           /\ UNCHANGED <<grid, marks, shown>>

\* A pending left press comes first, whichever button is dragging.
DropLeft(c) ==
    /\ left # NoCell
    /\ Handle(left, c, FALSE)
    /\ left' = NoCell /\ UNCHANGED right

DropRight(c) ==
    /\ left = NoCell /\ right # NoCell
    /\ Handle(right, c, TRUE)
    /\ right' = NoCell /\ UNCHANGED left

\* Mutant: the right button first.
DropRightFirst ==
    /\ Edit /\ held # NotHeld
    /\ \E c \in Cells(grid) :
        \/ right # NoCell /\ Handle(right, c, TRUE) /\ right' = NoCell /\ UNCHANGED left
        \/ right = NoCell /\ DropLeft(c)
    /\ held' = NotHeld
    /\ UNCHANGED <<tool, created>>

Drop ==
    /\ Edit /\ held # NotHeld
    /\ \E c \in Cells(grid) : DropLeft(c) \/ DropRight(c)
    /\ held' = NotHeld
    /\ UNCHANGED <<tool, created>>

\* A double click is told from two clicks when nothing comes between the two
\* presses but the release of the first, which changes nothing.  The second is no
\* press for left and right, but it can be dragged from too.
DoubleClick ==
    /\ Edit /\ held.clicks = 1 /\ held.cell # NoCell
    /\ held' = Hold(held.button, held.cell, 2)
    /\ \/ /\ held.button = "left" /\ Handle(held.cell, held.cell, FALSE)
          /\ left' = NoCell /\ UNCHANGED right
       \/ /\ held.button = "right" /\ Handle(held.cell, held.cell, TRUE)
          /\ right' = NoCell /\ UNCHANGED left
    /\ UNCHANGED <<tool, created>>

Next ==
    \/ GoToCreate \/ GoToLoad \/ Back \/ Load \/ Save
    \/ AddColumns \/ AddRows
    \/ PressTool \/ RightPressTool \/ PressCell \/ Release \/ Drop \/ DoubleClick

Spec == Init /\ [][Next]_vars

-----------------------------------------------------------------------------
(***************************************************************************)
(* What must hold.                                                         *)
(***************************************************************************)
\* Nothing lies inside a wall, however walls and marks are painted over each
\* other, saved and loaded.  (The terrorists' spawns are not spoken of: saving
\* moves them wrongly.)
NothingInsideWalls ==
    \A k \in Kinds \ {"tt"} : \A c \in marks[k] : c \in Cells(grid) => ~IsWall(grid, c)

\* The window shows the map: every cell has its label, with what is there.
ShownIsTheMap == shown = IF grid = <<>> THEN <<>> ELSE AllShown(grid, marks)

\* What is loaded and saved again is the same file.
SavingIsIdempotent == fresh => CreateMap(grid, marks) = file

LeftChanges == held.button = "left" /\ held.cell # NoCell /\ edits' # edits

\* Who presses the left button on a cell, and drags or presses again, paints from
\* there: no press of the right button is forgotten for it, and none of what the
\* tool paints goes away, whatever was pressed and not dropped from before
\* (game_editor.cpp:236).  A drag that begins with the second press of a double
\* click is no such press: the code forgets it, and does what is pending.
LeftDragsPaint ==
    [][LeftChanges /\ held.clicks = 1 =>
        /\ left = held.cell /\ right' = right
        /\ tool \in Kinds => marks[tool] \subseteq marks'[tool]]_vars

=============================================================================
