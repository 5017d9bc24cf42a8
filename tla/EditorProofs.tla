---------------------------- MODULE EditorProofs ----------------------------
(***************************************************************************)
(* Proofs about the map editor, for any blocks, guns, sizes and edits, and *)
(* for any folder that holds maps the editor has saved.                    *)
(***************************************************************************)
EXTENDS Editor, FiniteSetTheorems, TLAPS

-----------------------------------------------------------------------------
(***************************************************************************)
(* The grid.  Its first row says how wide it is; what longer rows have     *)
(* beyond that is hidden, and empty.                                       *)
(***************************************************************************)
GridOK(g) ==
    /\ Width(g) \in Nat \ {0} /\ Height(g) \in Nat \ {0}
    /\ DOMAIN g = 0..(Height(g) - 1)
    /\ DOMAIN g[0] = 0..(Width(g) - 1)
    /\ \A i \in DOMAIN g : \E n \in Nat :
          n >= Width(g) /\ g[i] \in [0..(n - 1) -> Blocks \cup {NoBlock}]
    /\ \A i \in DOMAIN g : \A j \in DOMAIN g[i] : j >= Width(g) => g[i][j] = NoBlock

Marked == [Kinds -> SUBSET (Int \X Int)]

NothingInside(g, m) ==
    \A k \in Kinds \ {"tt"} : \A c \in m[k] : c \in Cells(g) => ~IsWall(g, c)

\* What is being painted began on the map, with the button that is down, when it
\* was pressed once.
PressInv ==
    /\ left \in Cells(grid) \cup {NoCell}
    /\ held.button = "left" /\ held.cell # NoCell /\ held.clicks = 1 => left = held.cell
    /\ held # NotHeld => page \in {"edit", "gone"}

MapInv ==
    /\ grid = <<>> \/ GridOK(grid)
    /\ page = "edit" \/ created => GridOK(grid)
    /\ marks \in Marked /\ tool \in Tools
    /\ NothingInside(grid, marks) /\ OneGunACell(marks)
    /\ file # NoMap => IsSaved(file)

FreshInv ==
    fresh => /\ file # NoMap /\ file.width > 0 /\ file.height > 0
             /\ grid = GridOf(file) /\ marks = file.marks

EditorInv == PressInv /\ MapInv /\ ShownIsTheMap /\ FreshInv

-----------------------------------------------------------------------------
(***************************************************************************)
(* Least and greatest numbers.                                             *)
(***************************************************************************)
LEMMA LeastExists ==
  ASSUME NEW S \in SUBSET Nat, S # {}
  PROVE  \E n \in S : \A k \in S : n <= k
<1> DEFINE T == {0..n : n \in S}
<1>1. T \subseteq FiniteSubsetsOf(Nat) /\ T # {}
  <2>1. \A n \in S : n \in Int /\ 0..n \in SUBSET Nat
    OBVIOUS
  <2>2. \A n \in S : IsFiniteSet(0..n)
    BY <2>1, FS_Interval
  <2>3. QED BY <2>1, <2>2 DEF FiniteSubsetsOf
<1>2. PICK t \in T : \A u \in T : ~ (<<u, t>> \in StrictSubsetOrdering(Nat))
  <2> HIDE DEF T
  <2>1. IsWellFoundedOn(StrictSubsetOrdering(Nat), FiniteSubsetsOf(Nat))
    BY FS_StrictSubsetOrderingWellFounded
  <2>2. QED BY <1>1, <2>1, WFMin
<1>3. PICK n \in S : t = 0..n
  BY <1>2
<1>4. ASSUME NEW k \in S, k < n PROVE FALSE
  <2>1. /\ 0..k \in SUBSET Nat /\ 0..n \in SUBSET Nat
        /\ 0..k \subseteq 0..n /\ n \notin 0..k /\ n \in 0..n
    BY <1>4
  <2>2. <<0..k, 0..n>> \in StrictSubsetOrdering(Nat)
    BY <2>1 DEF StrictSubsetOrdering
  <2>3. 0..k \in T
    OBVIOUS
  <2>4. QED BY <1>2, <1>3, <2>2, <2>3
<1>5. QED BY <1>4

LEMMA MinIs ==
  ASSUME NEW S \in SUBSET Int, NEW n \in S, \A k \in S : n <= k
  PROVE  Min(S) = n
<1>1. Min(S) \in S /\ \A k \in S : Min(S) <= k
  BY DEF Min
<1>2. n \in Int /\ Min(S) \in Int
  BY <1>1
<1>3. Min(S) <= n /\ n <= Min(S)
  BY <1>1
<1>4. QED BY <1>2, <1>3

LEMMA MaxIs ==
  ASSUME NEW S \in SUBSET Int, NEW n \in S, \A k \in S : k <= n
  PROVE  Max(S) = n
<1>1. Max(S) \in S /\ \A k \in S : Max(S) >= k
  BY DEF Max
<1>2. n \in Int /\ Max(S) \in Int
  BY <1>1
<1>3. Max(S) <= n /\ n <= Max(S)
  BY <1>1
<1>4. QED BY <1>2, <1>3

LEMMA MinFound ==
  ASSUME NEW S \in SUBSET Nat, S # {}
  PROVE  Min(S) \in S /\ \A k \in S : Min(S) <= k
<1>1. PICK n \in S : \A k \in S : n <= k
  BY LeastExists
<1>2. Min(S) = n
  BY <1>1, MinIs
<1>3. QED BY <1>1, <1>2

LEMMA MaxFound ==
  ASSUME NEW b \in Nat, NEW S \in SUBSET (0..b), S # {}
  PROVE  Max(S) \in S /\ \A k \in S : k <= Max(S)
<1> DEFINE T == {b - k : k \in S}
<1>1. T \in SUBSET Nat /\ T # {}
  <2>1. \A k \in S : b - k \in Nat
    OBVIOUS
  <2>2. QED BY <2>1
<1>2. PICK t \in T : \A u \in T : t <= u
  <2> HIDE DEF T
  <2>1. QED BY <1>1, LeastExists
<1>3. PICK n \in S : t = b - n
  BY <1>2
<1>4. \A k \in S : b - k \in T /\ b - n <= b - k
  BY <1>2, <1>3
<1>5. \A k \in S : k <= n
  <2>1. \A k \in S : k \in Int /\ b - n <= b - k
    BY <1>4
  <2>2. n \in Int
    OBVIOUS
  <2>3. QED BY <2>1, <2>2
<1>6. Max(S) = n
  <2>1. S \in SUBSET Int
    OBVIOUS
  <2>2. QED BY <1>5, <2>1, MaxIs
<1>7. QED BY <1>5, <1>6

LEMMA RangeSize ==
  ASSUME NEW n \in Nat
  PROVE  Cardinality(0..(n - 1)) = n
<1>1. 0 \in Int /\ n - 1 \in Int
  OBVIOUS
<1>2. Cardinality(0..(n - 1)) = IF 0 > n - 1 THEN 0 ELSE (n - 1) - 0 + 1
  BY <1>1, FS_Interval
<1>3. QED BY <1>2

-----------------------------------------------------------------------------
(***************************************************************************)
(* What changes a grid keeps it one, and keeps what was on it.             *)
(***************************************************************************)
\* The size of a grid is the one it was made with.
LEMMA Sized ==
  ASSUME NEW g, NEW w \in Nat \ {0}, NEW h \in Nat \ {0},
         DOMAIN g = 0..(h - 1), DOMAIN g[0] = 0..(w - 1)
  PROVE  /\ Height(g) = h /\ Width(g) = w /\ g # <<>>
         /\ Cells(g) = (0..(w - 1)) \X (0..(h - 1))
<1>1. 0 \in DOMAIN g /\ DOMAIN <<>> = {}
  OBVIOUS
<1>2. Height(g) = h /\ Width(g) = w
  BY <1>1, RangeSize DEF Height, Width
<1>3. QED BY <1>1, <1>2 DEF Cells

\* Every cell of a grid has a block, or none.
LEMMA CellsHave ==
  ASSUME NEW g, GridOK(g), NEW c \in Cells(g)
  PROVE  /\ c = <<c[1], c[2]>> /\ c \in Nat \X Nat
         /\ c[2] \in DOMAIN g /\ c[1] \in DOMAIN g[c[2]]
         /\ c[1] < Width(g) /\ c[2] < Height(g)
         /\ At(g, c) \in Blocks \cup {NoBlock}
<1>1. c = <<c[1], c[2]>> /\ c[1] \in 0..(Width(g) - 1) /\ c[2] \in 0..(Height(g) - 1)
  BY DEF Cells
<1>2. c[2] \in DOMAIN g
  BY <1>1 DEF GridOK
<1>3. PICK n \in Nat : n >= Width(g) /\ g[c[2]] \in [0..(n - 1) -> Blocks \cup {NoBlock}]
  BY <1>2 DEF GridOK
<1>4. c[1] \in 0..(n - 1) /\ Width(g) \in Nat /\ Height(g) \in Nat
  BY <1>1, <1>3 DEF GridOK
<1>5. QED BY <1>1, <1>2, <1>3, <1>4 DEF At

LEMMA NewGrid ==
  ASSUME NEW w \in Nat \ {0}, NEW h \in Nat \ {0}, NEW g,
         g = [i \in 0..(h - 1) |-> g[i]],
         \A i \in 0..(h - 1) : g[i] \in [0..(w - 1) -> Blocks \cup {NoBlock}]
  PROVE  GridOK(g) /\ Width(g) = w /\ Height(g) = h
<1>1. DOMAIN g = 0..(h - 1) /\ DOMAIN g[0] = 0..(w - 1)
  <2>1. 0 \in 0..(h - 1)
    OBVIOUS
  <2>2. DOMAIN g = 0..(h - 1)
    OBVIOUS
  <2>3. QED BY <2>1, <2>2
<1>2. Width(g) = w /\ Height(g) = h
  BY <1>1, Sized
<1>3. \A i \in DOMAIN g : \A j \in DOMAIN g[i] : ~(j >= w)
  BY <1>1
<1>4. w \in Nat /\ w >= w
  OBVIOUS
<1>5. \A i \in DOMAIN g : \E n \in Nat :
         n >= Width(g) /\ g[i] \in [0..(n - 1) -> Blocks \cup {NoBlock}]
  BY <1>1, <1>2, <1>4
<1>6. QED BY <1>1, <1>2, <1>3, <1>5 DEF GridOK

LEMMA EmptyGridOK ==
  /\ GridOK(EmptyGrid(DefaultColumns, DefaultRows))
  /\ \A c \in Cells(EmptyGrid(DefaultColumns, DefaultRows)) :
        At(EmptyGrid(DefaultColumns, DefaultRows), c) = NoBlock
<1> DEFINE g == EmptyGrid(DefaultColumns, DefaultRows)
<1>1. DefaultColumns \in Nat \ {0} /\ DefaultRows \in Nat \ {0}
  BY EditorAssumption
<1>2. /\ g = [i \in 0..(DefaultRows - 1) |-> g[i]]
      /\ \A i \in 0..(DefaultRows - 1) : g[i] \in [0..(DefaultColumns - 1) -> Blocks \cup {NoBlock}]
      /\ \A i \in 0..(DefaultRows - 1) : \A j \in 0..(DefaultColumns - 1) : g[i][j] = NoBlock
  BY DEF EmptyGrid
<1> HIDE DEF g
<1>3. GridOK(g) /\ Width(g) = DefaultColumns /\ Height(g) = DefaultRows
  BY <1>1, <1>2, NewGrid
<1>4. ASSUME NEW c \in Cells(g) PROVE At(g, c) = NoBlock
  BY <1>2, <1>3, <1>4 DEF Cells, At
<1>5. QED BY <1>3, <1>4 DEF g

\* More columns: the rows below the first grow twice as much.
LEMMA ColumnsAdded ==
  ASSUME NEW g, GridOK(g)
  PROVE  LET n == WithMoreColumns(g)
         IN  /\ GridOK(n) /\ Cells(g) \subseteq Cells(n)
             /\ \A c \in Cells(g) : At(n, c) = At(g, c)
             /\ \A c \in Cells(n) \ Cells(g) : At(n, c) = NoBlock
<1> DEFINE n == WithMoreColumns(g)
           w == Width(g)
           h == Height(g)
           wide(i) == w + (IF i = 0 THEN Added ELSE 2 * Added)
<1>1. w \in Nat \ {0} /\ h \in Nat \ {0} /\ Added \in Nat \ {0}
      /\ DOMAIN g = 0..(h - 1)
  BY EditorAssumption DEF GridOK
<1>2. /\ DOMAIN n = 0..(h - 1)
      /\ \A i \in 0..(h - 1) : n[i] = Resized(g[i], wide(i))
  BY <1>1 DEF WithMoreColumns
<1>3. ASSUME NEW i \in 0..(h - 1)
      PROVE  /\ wide(i) \in Nat /\ wide(i) >= w + Added
             /\ n[i] \in [0..(wide(i) - 1) -> Blocks \cup {NoBlock}]
             /\ \A j \in 0..(w - 1) : n[i][j] = g[i][j]
             /\ \A j \in 0..(wide(i) - 1) : j >= w => n[i][j] = NoBlock
  <2>1. wide(i) \in Nat /\ wide(i) >= w + Added
    BY <1>1
  <2>2. PICK r \in Nat : r >= w /\ g[i] \in [0..(r - 1) -> Blocks \cup {NoBlock}]
    BY <1>1 DEF GridOK
  <2>3. \A j \in 0..(r - 1) : j >= w => g[i][j] = NoBlock
    BY <1>1, <2>2 DEF GridOK
  <2> HIDE DEF n, w, h, wide
  <2>4. n[i] = [j \in 0..(wide(i) - 1) |-> IF j \in DOMAIN g[i] THEN g[i][j] ELSE NoBlock]
    BY <1>2 DEF Resized
  <2>5. DOMAIN g[i] = 0..(r - 1)
    BY <2>2
  <2>6. \A j \in 0..(w - 1) : j \in 0..(r - 1) /\ j \in 0..(wide(i) - 1)
    BY <1>1, <2>1, <2>2
  <2>7. QED BY <2>1, <2>2, <2>3, <2>4, <2>5, <2>6
<1> HIDE DEF n, w, h, wide
<1>4. Height(n) = h /\ Width(n) = w + Added
      /\ Cells(n) = (0..(w + Added - 1)) \X (0..(h - 1))
      /\ Cells(g) = (0..(w - 1)) \X (0..(h - 1))
  <2>1. wide(0) = w + Added /\ 0 \in 0..(h - 1)
    BY <1>1 DEF wide
  <2>2. DOMAIN n[0] = 0..(w + Added - 1) /\ w + Added \in Nat \ {0}
    BY <1>1, <1>3, <2>1
  <2>3. Height(n) = h /\ Width(n) = w + Added
    <3> DEFINE ww == w + Added
    <3>1. ww \in Nat \ {0} /\ DOMAIN n[0] = 0..(ww - 1)
      BY <1>1, <2>2
    <3> HIDE DEF ww
    <3>2. Height(n) = h /\ Width(n) = ww
      BY <1>1, <1>2, <3>1, Sized
    <3>3. QED BY <3>2 DEF ww
  <2>4. Cells(g) = (0..(w - 1)) \X (0..(h - 1))
    BY DEF Cells, w, h
  <2>5. QED BY <1>1, <2>3, <2>4 DEF Cells
<1>5. GridOK(n)
  <2>1. DOMAIN n[0] = 0..(w + Added - 1)
    BY <1>1, <1>3 DEF wide
  <2>2. ASSUME NEW i \in DOMAIN n
        PROVE  /\ \E r \in Nat : r >= w + Added /\ n[i] \in [0..(r - 1) -> Blocks \cup {NoBlock}]
               /\ \A j \in DOMAIN n[i] : j >= w + Added => n[i][j] = NoBlock
    <3>1. \A j \in Int : j >= w + Added => j >= w
      BY <1>1
    <3>2. QED BY <1>2, <1>3, <3>1
  <2>3. QED BY <1>1, <1>2, <1>4, <2>1, <2>2 DEF GridOK
<1>6. Cells(g) \subseteq Cells(n)
  BY <1>1, <1>4
<1>7. ASSUME NEW c \in Cells(g) PROVE At(n, c) = At(g, c)
  BY <1>3, <1>4 DEF At
<1>8. ASSUME NEW c \in Cells(n) \ Cells(g) PROVE At(n, c) = NoBlock
  <2>1. c[2] \in 0..(h - 1) /\ c[1] \in 0..(w + Added - 1) /\ ~(c[1] \in 0..(w - 1))
    BY <1>4, <1>8
  <2>2. c[1] >= w /\ c[1] \in 0..(wide(c[2]) - 1)
    BY <1>1, <1>3, <2>1
  <2>3. QED BY <1>3, <2>1, <2>2 DEF At
<1>9. QED BY <1>5, <1>6, <1>7, <1>8 DEF n

LEMMA RowsAdded ==
  ASSUME NEW g, GridOK(g)
  PROVE  LET n == WithMoreRows(g)
         IN  /\ GridOK(n) /\ Cells(g) \subseteq Cells(n)
             /\ \A c \in Cells(g) : At(n, c) = At(g, c)
             /\ \A c \in Cells(n) \ Cells(g) : At(n, c) = NoBlock
<1> DEFINE n == WithMoreRows(g)
           w == Width(g)
           h == Height(g)
<1>1. w \in Nat \ {0} /\ h \in Nat \ {0} /\ Added \in Nat \ {0}
      /\ DOMAIN g = 0..(h - 1) /\ DOMAIN g[0] = 0..(w - 1)
  BY EditorAssumption DEF GridOK
<1>2. /\ DOMAIN n = 0..(h + Added - 1)
      /\ \A i \in 0..(h + Added - 1) :
            n[i] = IF i \in 0..(h - 1) THEN g[i] ELSE [j \in 0..(w - 1) |-> NoBlock]
      /\ \A i \in 0..(h - 1) : i \in 0..(h + Added - 1) /\ n[i] = g[i]
  BY <1>1 DEF WithMoreRows
<1> HIDE DEF n, w, h
<1>3. Height(n) = h + Added /\ Width(n) = w
      /\ Cells(n) = (0..(w - 1)) \X (0..(h + Added - 1))
      /\ Cells(g) = (0..(w - 1)) \X (0..(h - 1))
  <2>1. DOMAIN n[0] = 0..(w - 1) /\ h + Added \in Nat \ {0}
    BY <1>1, <1>2
  <2>2. Height(n) = h + Added /\ Width(n) = w
    <3> DEFINE hh == h + Added
    <3>1. hh \in Nat \ {0} /\ DOMAIN n = 0..(hh - 1)
      BY <1>1, <1>2, <2>1
    <3> HIDE DEF hh
    <3>2. Height(n) = hh /\ Width(n) = w
      BY <1>1, <2>1, <3>1, Sized
    <3>3. QED BY <3>2 DEF hh
  <2>3. Cells(g) = (0..(w - 1)) \X (0..(h - 1))
    BY DEF Cells, w, h
  <2>4. QED BY <1>1, <2>2, <2>3 DEF Cells
<1>4. ASSUME NEW i \in DOMAIN n
      PROVE  /\ \E r \in Nat : r >= w /\ n[i] \in [0..(r - 1) -> Blocks \cup {NoBlock}]
             /\ \A j \in DOMAIN n[i] : j >= w => n[i][j] = NoBlock
  <2>1. CASE i \in 0..(h - 1)
    BY <1>1, <1>2, <2>1 DEF GridOK, w
  <2>2. CASE i \notin 0..(h - 1)
    <3>1. n[i] = [j \in 0..(w - 1) |-> NoBlock]
      BY <1>2, <2>2
    <3>2. n[i] \in [0..(w - 1) -> Blocks \cup {NoBlock}] /\ w \in Nat /\ w >= w
      BY <1>1, <3>1
    <3>3. QED BY <3>1, <3>2
  <2>3. QED BY <2>1, <2>2
<1>5. GridOK(n)
  BY <1>1, <1>2, <1>3, <1>4 DEF GridOK
<1>6. Cells(g) \subseteq Cells(n)
  BY <1>1, <1>3
<1>7. ASSUME NEW c \in Cells(g) PROVE At(n, c) = At(g, c)
  BY <1>2, <1>3 DEF At
<1>8. ASSUME NEW c \in Cells(n) \ Cells(g) PROVE At(n, c) = NoBlock
  <2>1. c[1] \in 0..(w - 1) /\ c[2] \in 0..(h + Added - 1) /\ c[2] \notin 0..(h - 1)
    BY <1>3, <1>8
  <2>2. n[c[2]] = [j \in 0..(w - 1) |-> NoBlock]
    BY <1>2, <2>1
  <2>3. QED BY <2>1, <2>2 DEF At
<1>9. QED BY <1>5, <1>6, <1>7, <1>8 DEF n

-----------------------------------------------------------------------------
(***************************************************************************)
(* Painting.                                                               *)
(***************************************************************************)
LEMMA RectangleInside ==
  ASSUME NEW g, GridOK(g), NEW a \in Cells(g), NEW b \in Cells(g)
  PROVE  Rectangle(a, b) \subseteq Cells(g)
<1>1. ASSUME NEW n \in Nat, NEW x \in 0..(n - 1), NEW y \in 0..(n - 1)
      PROVE  Min({x, y})..Max({x, y}) \subseteq 0..(n - 1)
  <2>1. {x, y} \in SUBSET Int
    OBVIOUS
  <2>2. Min({x, y}) = x \/ Min({x, y}) = y
    <3>1. CASE x <= y
      BY <2>1, <3>1, MinIs
    <3>2. CASE y <= x
      BY <2>1, <3>2, MinIs
    <3>3. QED BY <3>1, <3>2
  <2>3. Max({x, y}) = x \/ Max({x, y}) = y
    <3>1. CASE x <= y
      BY <2>1, <3>1, MaxIs
    <3>2. CASE y <= x
      BY <2>1, <3>2, MaxIs
    <3>3. QED BY <3>1, <3>2
  <2>4. QED BY <2>2, <2>3
<1>2. /\ Width(g) \in Nat /\ Height(g) \in Nat
      /\ a[1] \in 0..(Width(g) - 1) /\ a[2] \in 0..(Height(g) - 1)
      /\ b[1] \in 0..(Width(g) - 1) /\ b[2] \in 0..(Height(g) - 1)
  BY DEF GridOK, Cells
<1>3. /\ Min({a[1], b[1]})..Max({a[1], b[1]}) \subseteq 0..(Width(g) - 1)
      /\ Min({a[2], b[2]})..Max({a[2], b[2]}) \subseteq 0..(Height(g) - 1)
  BY <1>1, <1>2
<1>4. QED BY <1>3 DEF Rectangle, Cells

Covered(g, cells, block) ==
    [i \in DOMAIN g |-> [j \in DOMAIN g[i] |->
        IF <<j, i>> \in cells THEN block ELSE g[i][j]]]

\* Blocks are painted on the map only; where there is none, none is erased.
LEMMA Painted ==
  ASSUME NEW g, GridOK(g), NEW cells, NEW block \in Blocks \cup {NoBlock},
         block # NoBlock => cells \subseteq Cells(g)
  PROVE  /\ GridOK(Covered(g, cells, block))
         /\ Cells(Covered(g, cells, block)) = Cells(g)
         /\ \A c \in Cells(g) : At(Covered(g, cells, block), c) =
                                 IF c \in cells THEN block ELSE At(g, c)
<1> DEFINE n == Covered(g, cells, block)
           w == Width(g)
           h == Height(g)
<1>1. /\ w \in Nat \ {0} /\ h \in Nat \ {0}
      /\ DOMAIN g = 0..(h - 1) /\ DOMAIN g[0] = 0..(w - 1) /\ 0 \in DOMAIN g
  BY DEF GridOK
<1>2. /\ DOMAIN n = DOMAIN g
      /\ \A i \in DOMAIN g : DOMAIN n[i] = DOMAIN g[i]
      /\ \A i \in DOMAIN g : \A j \in DOMAIN g[i] :
            n[i][j] = IF <<j, i>> \in cells THEN block ELSE g[i][j]
      /\ \A i \in DOMAIN g : n[i] = [j \in DOMAIN g[i] |-> n[i][j]]
  BY DEF Covered
<1> HIDE DEF n, w, h
<1>3. Height(n) = h /\ Width(n) = w /\ Cells(n) = Cells(g)
  BY <1>1, <1>2, Sized DEF Cells, w, h
<1>4. ASSUME NEW i \in DOMAIN n
      PROVE  /\ \E r \in Nat : r >= w /\ n[i] \in [0..(r - 1) -> Blocks \cup {NoBlock}]
             /\ \A j \in DOMAIN n[i] : j >= w => n[i][j] = NoBlock
  <2>1. PICK r \in Nat : r >= w /\ g[i] \in [0..(r - 1) -> Blocks \cup {NoBlock}]
    BY <1>2 DEF GridOK, w
  <2>2. \A j \in DOMAIN g[i] : j >= w => g[i][j] = NoBlock
    BY <1>2 DEF GridOK, w
  <2>3. DOMAIN n[i] = 0..(r - 1) /\ DOMAIN g[i] = 0..(r - 1)
    BY <1>2, <2>1
  <2>4. \A j \in 0..(r - 1) : n[i][j] \in Blocks \cup {NoBlock}
    BY <1>2, <2>1, <2>3
  <2>5. n[i] \in [0..(r - 1) -> Blocks \cup {NoBlock}]
    BY <1>2, <2>3, <2>4
  <2>6. ASSUME NEW j \in DOMAIN n[i], j >= w PROVE n[i][j] = NoBlock
    <3>1. block = NoBlock \/ <<j, i>> \notin cells
      BY <1>1, <2>3, <2>6 DEF Cells, w, h
    <3>2. QED BY <1>2, <2>2, <2>3, <2>6, <3>1
  <2>7. QED BY <2>1, <2>5, <2>6
<1>5. GridOK(n)
  BY <1>1, <1>2, <1>3, <1>4 DEF GridOK
<1>6. ASSUME NEW c \in Cells(g) PROVE At(n, c) = IF c \in cells THEN block ELSE At(g, c)
  BY <1>2, <1>6, CellsHave DEF At
<1>7. QED BY <1>3, <1>5, <1>6 DEF n

\* What SetBlock, SetMark and EraseMark leave: a map without anything inside
\* its walls, and every cell they do not touch as it was.
Untouched(cells) ==
    /\ Cells(grid') = Cells(grid)
    /\ \A c \in Cells(grid) \ cells : CellInfo(grid', marks', c) = CellInfo(grid, marks, c)

LEMMA BlocksPainted ==
  ASSUME GridOK(grid), marks \in Marked, NothingInside(grid, marks), OneGunACell(marks),
         NEW cells, NEW block \in Blocks \cup {NoBlock},
         block # NoBlock => cells \subseteq Cells(grid),
         SetBlock(cells, block)
  PROVE  /\ GridOK(grid') /\ marks' \in Marked /\ NothingInside(grid', marks')
         /\ OneGunACell(marks') /\ Untouched(cells)
<1>1. /\ GridOK(grid') /\ Cells(grid') = Cells(grid)
      /\ \A c \in Cells(grid) : At(grid', c) = IF c \in cells THEN block ELSE At(grid, c)
  <2>1. grid' = Covered(grid, cells, block)
    BY DEF SetBlock, Covered
  <2>2. QED BY <2>1, Painted
<1>2. marks' = IF block \in Collidable THEN [k \in Kinds |-> marks[k] \ cells] ELSE marks
  BY DEF SetBlock, Unmarked
<1>3. marks' \in Marked /\ \A k \in Kinds : marks'[k] \subseteq marks[k]
  BY <1>2 DEF Marked
<1>4. NothingInside(grid', marks')
  <2>1. SUFFICES ASSUME NEW k \in Kinds \ {"tt"}, NEW c \in marks'[k], c \in Cells(grid)
                 PROVE  At(grid', c) \notin Collidable
    BY <1>1 DEF NothingInside, IsWall
  <2>2. At(grid, c) \notin Collidable
    BY <1>3, <2>1 DEF NothingInside, IsWall
  <2>3. CASE block \in Collidable
    <3>1. c \notin cells
      BY <1>2, <2>1, <2>3
    <3>2. QED BY <1>1, <2>1, <2>2, <3>1
  <2>4. CASE block \notin Collidable
    BY <1>1, <2>1, <2>2, <2>4
  <2>5. QED BY <2>3, <2>4
<1>5. ASSUME NEW c \in Cells(grid) \ cells
      PROVE  CellInfo(grid', marks', c) = CellInfo(grid, marks, c)
  <2>1. At(grid', c) = At(grid, c)
    BY <1>1
  <2>2. \A k \in Kinds : c \in marks'[k] <=> c \in marks[k]
    BY <1>2
  <2>3. QED BY <2>1, <2>2 DEF CellInfo
<1>6. OneGunACell(marks')
  BY <1>3 DEF OneGunACell, Kinds
<1>7. QED BY <1>1, <1>3, <1>4, <1>5, <1>6 DEF Untouched

LEMMA MarksPainted ==
  ASSUME GridOK(grid), marks \in Marked, NothingInside(grid, marks), OneGunACell(marks),
         NEW cells, cells \subseteq Cells(grid), NEW kind \in Kinds,
         SetMark(cells, kind)
  PROVE  /\ grid' = grid /\ marks' \in Marked /\ NothingInside(grid, marks')
         /\ OneGunACell(marks') /\ Untouched(cells) /\ marks[kind] \subseteq marks'[kind]
<1> DEFINE free == {c \in cells : ~IsWall(grid, c)}
           rest == [k \in Kinds |-> IF k \in Together(kind) THEN marks[k] \ free ELSE marks[k]]
<1>1. grid' = grid /\ marks' = [rest EXCEPT ![kind] = @ \cup free]
  BY DEF SetMark, Unmarked
<1>2. /\ \A k \in Kinds : rest[k] \subseteq marks[k] /\ marks[k] \subseteq rest[k] \cup free
      /\ rest = [k \in Kinds |-> rest[k]]
  OBVIOUS
<1>A. \A k \in Guns : kind \in Guns => rest[k] \cap free = {}
  BY DEF Together, Kinds
<1>3. free \subseteq cells /\ free \subseteq Int \X Int /\ \A c \in free : ~IsWall(grid, c)
  BY CellsHave
<1> HIDE DEF free, rest
<1>4. /\ \A k \in Kinds : marks'[k] = IF k = kind THEN rest[k] \cup free ELSE rest[k]
      /\ marks' = [k \in Kinds |-> marks'[k]]
  BY <1>1, <1>2
<1>5. marks' \in Marked
  BY <1>2, <1>3, <1>4 DEF Marked
<1>6. NothingInside(grid, marks')
  BY <1>2, <1>3, <1>4 DEF NothingInside
<1>7. ASSUME NEW c \in Cells(grid) \ cells
      PROVE  CellInfo(grid', marks', c) = CellInfo(grid, marks, c)
  <2>1. \A k \in Kinds : c \in marks'[k] <=> c \in marks[k]
    BY <1>2, <1>3, <1>4
  <2>2. QED BY <1>1, <2>1 DEF CellInfo
<1>8. OneGunACell(marks')
  <2>1. SUFFICES ASSUME NEW a \in Guns, NEW b \in Guns, a # b
                 PROVE  marks'[a] \cap marks'[b] = {}
    BY DEF OneGunACell
  <2>2. rest[a] \cap rest[b] = {} /\ a \in Kinds /\ b \in Kinds
    BY <1>2, <2>1 DEF OneGunACell, Kinds
  <2>3. QED BY <1>A, <1>4, <2>1, <2>2
<1>9. QED BY <1>1, <1>2, <1>4, <1>5, <1>6, <1>7, <1>8 DEF Untouched

LEMMA MarksErased ==
  ASSUME marks \in Marked, NothingInside(grid, marks), OneGunACell(marks),
         NEW cells, NEW kind,
         EraseMark(cells, kind)
  PROVE  /\ grid' = grid /\ marks' \in Marked /\ NothingInside(grid, marks')
         /\ OneGunACell(marks') /\ Untouched(cells)
<1>1. /\ grid' = grid
      /\ marks' = [k \in Kinds |-> IF k \in Together(kind) THEN marks[k] \ cells ELSE marks[k]]
  BY DEF EraseMark, Unmarked
<1>2. marks' \in Marked /\ \A k \in Kinds : marks'[k] \subseteq marks[k]
  BY <1>1 DEF Marked
<1>3. NothingInside(grid, marks')
  BY <1>2 DEF NothingInside
<1>4. ASSUME NEW c \in Cells(grid) \ cells
      PROVE  CellInfo(grid', marks', c) = CellInfo(grid, marks, c)
  <2>1. \A k \in Kinds : c \in marks'[k] <=> c \in marks[k]
    BY <1>1
  <2>2. QED BY <1>1, <2>1 DEF CellInfo
<1>5. OneGunACell(marks')
  BY <1>2 DEF OneGunACell, Kinds
<1>6. QED BY <1>1, <1>2, <1>3, <1>4, <1>5 DEF Untouched

\* The labels of the cells painted are drawn anew, so the window shows the map.
LEMMA Rendered ==
  ASSUME GridOK(grid), GridOK(grid'), ShownIsTheMap,
         NEW cells, NEW drop, Untouched(cells), Render(cells, drop)
  PROVE  ShownIsTheMap'
<1>1. grid # <<>> /\ grid' # <<>>
  BY Sized DEF GridOK
<1>2. shown = [c \in Cells(grid) |-> CellInfo(grid, marks, c)]
  BY <1>1 DEF ShownIsTheMap, AllShown
<1>3. shown' = [c \in Cells(grid) |->
                  IF c \in cells THEN CellInfo(grid', marks', c) ELSE CellInfo(grid, marks, c)]
  BY <1>2 DEF Render
<1>4. shown' = [c \in Cells(grid') |-> CellInfo(grid', marks', c)]
  BY <1>3 DEF Untouched
<1>5. QED BY <1>1, <1>4 DEF ShownIsTheMap, AllShown

LEMMA HandleKeeps ==
  ASSUME GridOK(grid), marks \in Marked, tool \in Tools,
         NothingInside(grid, marks), OneGunACell(marks), ShownIsTheMap,
         NEW from, NEW to, NEW erase \in BOOLEAN,
         ~erase => from \in Cells(grid) /\ to \in Cells(grid),
         Handle(from, to, erase)
  PROVE  /\ page' \in {page, "gone"}
         /\ GridOK(grid') /\ Cells(grid') = Cells(grid)
         /\ marks' \in Marked /\ NothingInside(grid', marks') /\ OneGunACell(marks')
         /\ ShownIsTheMap'
         /\ ~erase /\ tool \in Kinds => marks[tool] \subseteq marks'[tool]
<1> DEFINE cells == Rectangle(from, to)
<1>1. ~erase => cells \subseteq Cells(grid)
  BY RectangleInside
<1>2. CASE /\ tool \notin Kinds /\ page' = "gone"
           /\ UNCHANGED <<grid, marks, shown>>
  BY <1>2 DEF ShownIsTheMap
<1>3. CASE /\ tool \in Kinds /\ erase /\ EraseMark(cells, tool)
           /\ Render(cells, to) /\ UNCHANGED page
  <2> HIDE DEF cells
  <2>1. /\ grid' = grid /\ marks' \in Marked /\ NothingInside(grid, marks')
        /\ OneGunACell(marks') /\ Untouched(cells)
    BY <1>3, MarksErased
  <2>2. ShownIsTheMap'
    BY <1>3, <2>1, Rendered
  <2>3. QED BY <1>3, <2>1, <2>2
<1>4. CASE /\ tool \in Kinds /\ ~erase /\ SetMark(cells, tool)
           /\ Render(cells, to) /\ UNCHANGED page
  <2> HIDE DEF cells
  <2>1. /\ grid' = grid /\ marks' \in Marked /\ NothingInside(grid, marks')
        /\ OneGunACell(marks') /\ Untouched(cells) /\ marks[tool] \subseteq marks'[tool]
    BY <1>1, <1>4, MarksPainted
  <2>2. ShownIsTheMap'
    BY <1>4, <2>1, Rendered
  <2>3. QED BY <1>4, <2>1, <2>2
<1>5. CASE /\ tool \notin Kinds /\ SetBlock(cells, IF erase THEN NoBlock ELSE tool)
           /\ Render(cells, to) /\ UNCHANGED page
  <2> HIDE DEF cells
  <2> DEFINE block == IF erase THEN NoBlock ELSE tool
  <2>1. block \in Blocks \cup {NoBlock} /\ (block # NoBlock => cells \subseteq Cells(grid))
    BY <1>1, <1>5 DEF Tools
  <2>2. SetBlock(cells, block)
    BY <1>5
  <2> HIDE DEF block
  <2>3. /\ GridOK(grid') /\ marks' \in Marked /\ NothingInside(grid', marks')
        /\ OneGunACell(marks') /\ Untouched(cells)
    BY <2>1, <2>2, BlocksPainted
  <2>4. ShownIsTheMap'
    BY <1>5, <2>3, Rendered
  <2>5. QED BY <1>5, <2>3, <2>4 DEF Untouched
<1>6. QED BY <1>2, <1>3, <1>4, <1>5 DEF Handle

-----------------------------------------------------------------------------
(***************************************************************************)
(* Files.                                                                  *)
(***************************************************************************)
LEMMA Ends ==
  ASSUME NEW n \in Nat \ {0}, NEW S \in SUBSET (0..(n - 1))
  PROVE  /\ Min({n} \cup S) \in Nat /\ Max({0} \cup S) \in Nat
         /\ \A k \in S : Min({n} \cup S) <= k /\ k <= Max({0} \cup S)
         /\ S # {} => Min({n} \cup S) \in S /\ Max({0} \cup S) \in S
         /\ S = {} => Min({n} \cup S) = n /\ Max({0} \cup S) = 0
<1>1. {n} \cup S \in SUBSET Nat /\ {n} \cup S # {}
  OBVIOUS
<1>2. {0} \cup S \in SUBSET (0..n) /\ {0} \cup S # {} /\ n \in Nat
  OBVIOUS
<1> DEFINE least == Min({n} \cup S)
           last == Max({0} \cup S)
<1>3. least \in {n} \cup S /\ \A k \in {n} \cup S : least <= k
  BY <1>1, MinFound
<1>4. last \in {0} \cup S /\ \A k \in {0} \cup S : k <= last
  BY <1>2, MaxFound
<1> HIDE DEF least, last
<1>5. least \in Nat /\ last \in Nat
  BY <1>3, <1>4
<1>6. ASSUME S # {} PROVE least \in S /\ last \in S
  <2>1. PICK k \in S : TRUE
    BY <1>6
  <2>2. k \in 0..(n - 1) /\ least <= k /\ k <= last
    BY <1>3, <1>4
  <2>3. least # n
    BY <2>2
  <2>4. last = 0 => last = k
    BY <1>5, <2>2
  <2>5. QED BY <1>3, <1>4, <2>1, <2>3, <2>4
<1>7. QED BY <1>3, <1>4, <1>5, <1>6 DEF least, last

\* The rectangle around the blocks touches them on every side.
LEMMA Corners ==
  ASSUME NEW g, GridOK(g), NEW used \in SUBSET Cells(g)
  PROVE  /\ Left(g, used) \in Nat /\ Top(g, used) \in Nat
         /\ Right(used) \in Nat /\ Bottom(used) \in Nat
         /\ \A c \in used : /\ Left(g, used) <= c[1] /\ c[1] <= Right(used)
                            /\ Top(g, used) <= c[2] /\ c[2] <= Bottom(used)
         /\ used # {} => /\ \E c \in used : c[1] = Left(g, used)
                         /\ \E c \in used : c[1] = Right(used)
                         /\ \E c \in used : c[2] = Top(g, used)
                         /\ \E c \in used : c[2] = Bottom(used)
         /\ used = {} => /\ Left(g, used) = Width(g) /\ Top(g, used) = Height(g)
                         /\ Right(used) = 0 /\ Bottom(used) = 0
<1> DEFINE columns == {c[1] : c \in used}
           rows == {c[2] : c \in used}
<1>1. /\ Width(g) \in Nat \ {0} /\ Height(g) \in Nat \ {0}
      /\ columns \in SUBSET (0..(Width(g) - 1)) /\ rows \in SUBSET (0..(Height(g) - 1))
  BY DEF GridOK, Cells
<1>2. /\ Left(g, used) = Min({Width(g)} \cup columns) /\ Right(used) = Max({0} \cup columns)
      /\ Top(g, used) = Min({Height(g)} \cup rows) /\ Bottom(used) = Max({0} \cup rows)
  BY DEF Left, Right, Top, Bottom
<1>3. /\ \A c \in used : c[1] \in columns /\ c[2] \in rows
      /\ \A k \in columns : \E c \in used : c[1] = k
      /\ \A k \in rows : \E c \in used : c[2] = k
      /\ used # {} => columns # {} /\ rows # {}
      /\ used = {} => columns = {} /\ rows = {}
  OBVIOUS
<1> DEFINE w == Width(g)
           h == Height(g)
<1> HIDE DEF columns, rows, w, h
<1>4. /\ Left(g, used) \in Nat /\ Right(used) \in Nat
      /\ \A k \in columns : Left(g, used) <= k /\ k <= Right(used)
      /\ columns # {} => Left(g, used) \in columns /\ Right(used) \in columns
      /\ columns = {} => Left(g, used) = Width(g) /\ Right(used) = 0
  <2>1. w \in Nat \ {0} /\ columns \in SUBSET (0..(w - 1))
    BY <1>1 DEF w
  <2>2. /\ Min({w} \cup columns) \in Nat /\ Max({0} \cup columns) \in Nat
        /\ \A k \in columns : Min({w} \cup columns) <= k /\ k <= Max({0} \cup columns)
        /\ columns # {} => Min({w} \cup columns) \in columns /\ Max({0} \cup columns) \in columns
        /\ columns = {} => Min({w} \cup columns) = w /\ Max({0} \cup columns) = 0
    BY <2>1, Ends
  <2>3. QED BY <1>2, <2>2 DEF w
<1>5. /\ Top(g, used) \in Nat /\ Bottom(used) \in Nat
      /\ \A k \in rows : Top(g, used) <= k /\ k <= Bottom(used)
      /\ rows # {} => Top(g, used) \in rows /\ Bottom(used) \in rows
      /\ rows = {} => Top(g, used) = Height(g) /\ Bottom(used) = 0
  <2>1. h \in Nat \ {0} /\ rows \in SUBSET (0..(h - 1))
    BY <1>1 DEF h
  <2>2. /\ Min({h} \cup rows) \in Nat /\ Max({0} \cup rows) \in Nat
        /\ \A k \in rows : Min({h} \cup rows) <= k /\ k <= Max({0} \cup rows)
        /\ rows # {} => Min({h} \cup rows) \in rows /\ Max({0} \cup rows) \in rows
        /\ rows = {} => Min({h} \cup rows) = h /\ Max({0} \cup rows) = 0
    BY <2>1, Ends
  <2>3. QED BY <1>2, <2>2 DEF h
<1>6. QED BY <1>3, <1>4, <1>5

\* What is saved is a map: it begins and ends where its blocks do, has nothing
\* inside its walls, and one gun a cell.
LEMMA Saved ==
  ASSUME NEW g, GridOK(g), NEW m \in Marked, NothingInside(g, m), OneGunACell(m)
  PROVE  IsSaved(CreateMap(g, m))
<1> DEFINE used == {c \in Cells(g) : At(g, c) # NoBlock}
           x == Left(g, used)
           y == Top(g, used)
           cells == Shifted(used, x, y)
           blocks == [c \in cells |-> At(g, <<c[1] + x, c[2] + y>>)]
           width == Right(used) - x + 1
           height == Bottom(used) - y + 1
           map == CreateMap(g, m)
<1>1. map = [width |-> width, height |-> height, blocks |-> blocks,
             marks |-> MovedMarks(m, x, y)]
  BY DEF CreateMap, Written
<1>2. used \in SUBSET Cells(g)
  OBVIOUS
<1>3. ASSUME NEW c \in used
      PROVE  /\ c = <<c[1], c[2]>> /\ c[1] \in Nat /\ c[2] \in Nat
             /\ At(g, c) \in Blocks /\ c \in Cells(g)
  BY CellsHave
<1> HIDE DEF used
<1>4. /\ x \in Nat /\ y \in Nat /\ Right(used) \in Nat /\ Bottom(used) \in Nat
      /\ \A c \in used : x <= c[1] /\ c[1] <= Right(used) /\ y <= c[2] /\ c[2] <= Bottom(used)
      /\ used # {} => /\ \E c \in used : c[1] = x
                      /\ \E c \in used : c[1] = Right(used)
                      /\ \E c \in used : c[2] = y
                      /\ \E c \in used : c[2] = Bottom(used)
      /\ used = {} => x = Width(g) /\ Right(used) = 0
  BY <1>2, Corners
<1> HIDE DEF x, y
<1>5. ASSUME NEW d \in cells
      PROVE  \E c \in used : d = <<c[1] - x, c[2] - y>> /\ d[1] + x = c[1] /\ d[2] + y = c[2]
  <2>1. PICK c \in used : d = <<c[1] - x, c[2] - y>>
    BY DEF Shifted
  <2>2. d[1] + x = c[1] /\ d[2] + y = c[2]
    BY <1>3, <1>4, <2>1
  <2>3. QED BY <2>1, <2>2
<1>6. ASSUME NEW c \in used PROVE <<c[1] - x, c[2] - y>> \in cells
  BY DEF Shifted
<1> HIDE DEF cells
<1>7. ASSUME NEW d \in cells
      PROVE  /\ blocks[d] \in Blocks
             /\ d \in (0..(width - 1)) \X (0..(height - 1))
  <2>1. PICK c \in used : d = <<c[1] - x, c[2] - y>> /\ d[1] + x = c[1] /\ d[2] + y = c[2]
    BY <1>5
  <2>2. blocks[d] = At(g, c)
    BY <1>3, <2>1
  <2>3. c[1] - x \in 0..(width - 1) /\ c[2] - y \in 0..(height - 1)
    BY <1>3, <1>4, <2>1
  <2>4. QED BY <1>3, <2>1, <2>2, <2>3
<1>8. width \in Int /\ height \in Int
  BY <1>4
<1>9. /\ DOMAIN blocks = cells /\ blocks \in [cells -> Blocks]
      /\ \A d \in cells : blocks[d] = At(g, <<d[1] + x, d[2] + y>>)
  BY <1>7
<1>10. ASSUME width > 0
       PROVE  /\ \E d \in cells : d[1] = 0
              /\ \E d \in cells : d[1] = width - 1
              /\ \E d \in cells : d[2] = 0
              /\ \E d \in cells : d[2] = height - 1
  <2>1. used # {}
    <3>1. Width(g) \in Nat \ {0}
      BY DEF GridOK
    <3>2. QED BY <1>4, <1>10, <3>1
  <2>2. PICK c \in used : c[1] = x
    BY <1>4, <2>1
  <2>3. PICK d \in used : d[1] = Right(used)
    BY <1>4, <2>1
  <2>4. PICK e \in used : e[2] = y
    BY <1>4, <2>1
  <2>5. PICK f \in used : f[2] = Bottom(used)
    BY <1>4, <2>1
  <2>6. c[1] - x = 0 /\ d[1] - x = width - 1 /\ e[2] - y = 0 /\ f[2] - y = height - 1
    BY <1>3, <1>4, <2>2, <2>3, <2>4, <2>5
  <2>7. /\ <<c[1] - x, c[2] - y>> \in cells /\ <<d[1] - x, d[2] - y>> \in cells
        /\ <<e[1] - x, e[2] - y>> \in cells /\ <<f[1] - x, f[2] - y>> \in cells
    BY <1>6
  <2>8. QED BY <2>6, <2>7
<1> DEFINE mm == MovedMarks(m, x, y)
<1>11. mm \in Marked /\ \A k \in Kinds \ {"tt"} : mm[k] = Shifted(m[k], x, y)
  <2>1. ASSUME NEW k \in Kinds, NEW b \in Nat PROVE Shifted(m[k], x, b) \subseteq Int \X Int
    <3>1. m[k] \subseteq Int \X Int
      BY DEF Marked
    <3>2. \A c \in m[k] : c[1] - x \in Int /\ c[2] - b \in Int
      BY <1>4, <3>1
    <3>3. QED BY <3>2 DEF Shifted
  <2>2. QED BY <1>4, <2>1 DEF MovedMarks, Marked
<1>12. ASSUME NEW k \in Kinds \ {"tt"}, NEW d \in mm[k], d \in cells
       PROVE  blocks[d] \notin Collidable
  <2>1. PICK c \in m[k] : d = <<c[1] - x, c[2] - y>>
    BY <1>11, <1>12 DEF Shifted
  <2>2. PICK u \in used : d = <<u[1] - x, u[2] - y>> /\ d[1] + x = u[1] /\ d[2] + y = u[2]
    BY <1>5, <1>12
  <2>3. c = u
    <3>1. c = <<c[1], c[2]>> /\ c[1] \in Int /\ c[2] \in Int
      BY DEF Marked
    <3>2. c[1] - x = u[1] - x /\ c[2] - y = u[2] - y
      BY <2>1, <2>2
    <3>3. c[1] = u[1] /\ c[2] = u[2]
      BY <1>3, <1>4, <3>1, <3>2
    <3>4. u = <<u[1], u[2]>>
      BY <1>3
    <3>5. QED BY <3>1, <3>3, <3>4
  <2>4. At(g, c) \notin Collidable
    BY <1>3, <2>3 DEF NothingInside, IsWall
  <2>5. blocks[d] = At(g, u)
    BY <1>3, <1>9, <1>12, <2>2
  <2>6. QED BY <2>3, <2>4, <2>5
<1>A. OneGunACell(mm)
  <2>1. SUFFICES ASSUME NEW a \in Guns, NEW b \in Guns, a # b,
                        NEW d \in mm[a], d \in mm[b]
                 PROVE  FALSE
    BY DEF OneGunACell
  <2>2. /\ a \in Kinds \ {"tt"} /\ b \in Kinds \ {"tt"}
        /\ m[a] \subseteq Int \X Int /\ m[b] \subseteq Int \X Int
    BY EditorAssumption DEF Kinds, Marked
  <2>3. PICK c \in m[a] : d = <<c[1] - x, c[2] - y>>
    BY <1>11, <2>2 DEF Shifted
  <2>4. PICK e \in m[b] : d = <<e[1] - x, e[2] - y>>
    BY <1>11, <2>1, <2>2 DEF Shifted
  <2>5. c = e
    <3>1. /\ c = <<c[1], c[2]>> /\ c[1] \in Int /\ c[2] \in Int
          /\ e = <<e[1], e[2]>> /\ e[1] \in Int /\ e[2] \in Int
      BY <2>2
    <3>2. c[1] - x = e[1] - x /\ c[2] - y = e[2] - y
      BY <2>3, <2>4
    <3>3. QED BY <1>4, <3>1, <3>2
  <2>6. QED BY <2>1, <2>5 DEF OneGunACell
<1> HIDE DEF blocks, width, height, mm
<1>13. /\ map.width = width /\ map.height = height /\ map.blocks = blocks /\ map.marks = mm
       /\ map = [width |-> width, height |-> height, blocks |-> blocks, marks |-> mm]
  BY <1>1 DEF mm
<1> HIDE DEF map
<1>14. Tight(map)
  BY <1>7, <1>9, <1>10, <1>13 DEF Tight
<1>15. Clear(map)
  BY <1>9, <1>12, <1>13 DEF Clear
<1>16. IsSaved(map)
  BY <1>8, <1>9, <1>11, <1>13, <1>14, <1>15, <1>A DEF IsSaved, Marked
<1>17. QED BY <1>16 DEF map

\* A map that was saved is drawn as it is, and saved as it was.
LEMMA Idempotent ==
  ASSUME NEW map, IsSaved(map), map.width > 0, map.height > 0
  PROVE  /\ GridOK(GridOf(map)) /\ NothingInside(GridOf(map), map.marks)
         /\ CreateMap(GridOf(map), map.marks) = map
<1> DEFINE g == GridOf(map)
           w == map.width
           h == map.height
           B == map.blocks
           m == map.marks
<1>1. /\ w \in Nat \ {0} /\ h \in Nat \ {0}
      /\ map = [width |-> w, height |-> h, blocks |-> B, marks |-> m]
      /\ B \in [DOMAIN B -> Blocks] /\ m \in Marked
  BY DEF IsSaved, Marked
<1>2. /\ DOMAIN B \subseteq (0..(w - 1)) \X (0..(h - 1))
      /\ \E c \in DOMAIN B : c[1] = 0
      /\ \E c \in DOMAIN B : c[1] = w - 1
      /\ \E c \in DOMAIN B : c[2] = 0
      /\ \E c \in DOMAIN B : c[2] = h - 1
  BY DEF IsSaved, Tight
<1>3. \A k \in Kinds \ {"tt"} : \A c \in m[k] \cap DOMAIN B : B[c] \notin Collidable
  BY DEF IsSaved, Clear
<1>4. g = [i \in 0..(h - 1) |-> [j \in 0..(w - 1) |->
              IF <<j, i>> \in DOMAIN B THEN B[<<j, i>>] ELSE NoBlock]]
  BY DEF GridOf
<1> HIDE DEF g, w, h, B, m
<1>5. GridOK(g) /\ Width(g) = w /\ Height(g) = h
  <2>1. /\ g = [i \in 0..(h - 1) |-> g[i]]
        /\ \A i \in 0..(h - 1) : g[i] \in [0..(w - 1) -> Blocks \cup {NoBlock}]
    BY <1>1, <1>4
  <2>2. QED BY <1>1, <2>1, NewGrid
<1>6. Cells(g) = (0..(w - 1)) \X (0..(h - 1))
  BY <1>5 DEF Cells
<1>7. ASSUME NEW c \in Cells(g)
      PROVE  At(g, c) = IF c \in DOMAIN B THEN B[c] ELSE NoBlock
  <2>1. c[1] \in 0..(w - 1) /\ c[2] \in 0..(h - 1) /\ c = <<c[1], c[2]>>
    BY <1>6
  <2>2. g[c[2]][c[1]] = IF <<c[1], c[2]>> \in DOMAIN B THEN B[<<c[1], c[2]>>] ELSE NoBlock
    BY <1>4, <2>1
  <2>3. QED BY <2>1, <2>2 DEF At
<1>8. NothingInside(g, m)
  <2>1. ASSUME NEW k \in Kinds \ {"tt"}, NEW c \in m[k], c \in Cells(g)
        PROVE  At(g, c) \notin Collidable
    BY <1>3, <1>7, <2>1, EditorAssumption
  <2>2. QED BY <2>1 DEF NothingInside, IsWall
<1> DEFINE used == {c \in Cells(g) : At(g, c) # NoBlock}
<1>9. used = DOMAIN B
  BY <1>1, <1>2, <1>6, <1>7, EditorAssumption
<1>10. \A c \in used : /\ c = <<c[1], c[2]>> /\ c[1] \in 0..(w - 1) /\ c[2] \in 0..(h - 1)
  BY <1>6
<1> HIDE DEF used
<1>11. /\ Left(g, used) = 0 /\ Top(g, used) = 0
       /\ Right(used) = w - 1 /\ Bottom(used) = h - 1
  <2>1. used \in SUBSET Cells(g) /\ used # {}
    BY <1>2, <1>9 DEF used
  <2>2. /\ Left(g, used) \in Nat /\ Top(g, used) \in Nat
        /\ Right(used) \in Nat /\ Bottom(used) \in Nat
        /\ \A c \in used : /\ Left(g, used) <= c[1] /\ c[1] <= Right(used)
                           /\ Top(g, used) <= c[2] /\ c[2] <= Bottom(used)
        /\ \E c \in used : c[1] = Right(used)
        /\ \E c \in used : c[2] = Bottom(used)
    BY <1>5, <2>1, Corners
  <2>3. Left(g, used) <= 0 /\ Top(g, used) <= 0
    BY <1>2, <1>9, <2>2
  <2>4. w - 1 <= Right(used) /\ h - 1 <= Bottom(used)
    BY <1>2, <1>9, <2>2
  <2>5. Right(used) <= w - 1 /\ Bottom(used) <= h - 1
    BY <1>1, <1>10, <2>2
  <2>6. QED BY <1>1, <2>2, <2>3, <2>4, <2>5
<1>12. ASSUME NEW cells \in SUBSET (Int \X Int) PROVE Shifted(cells, 0, 0) = cells
  <2>1. \A c \in cells : <<c[1] - 0, c[2] - 0>> = c
    OBVIOUS
  <2>2. QED BY <2>1 DEF Shifted
<1>13. used \in SUBSET (Int \X Int)
  BY <1>10
<1>14. MovedMarks(m, 0, 0) = m
  <2>1. \A k \in Kinds : Shifted(m[k], 0, 0) = m[k]
    BY <1>1, <1>12 DEF Marked
  <2>2. m = [k \in Kinds |-> m[k]]
    BY <1>1 DEF Marked
  <2>3. QED BY <2>1, <2>2 DEF MovedMarks
<1>15. CreateMap(g, m) =
          [width |-> Right(used) - Left(g, used) + 1,
           height |-> Bottom(used) - Top(g, used) + 1,
           blocks |-> [c \in Shifted(used, Left(g, used), Top(g, used)) |->
                         At(g, <<c[1] + Left(g, used), c[2] + Top(g, used)>>)],
           marks |-> MovedMarks(m, Left(g, used), Top(g, used))]
  BY DEF CreateMap, Written, used
<1>16. [c \in Shifted(used, 0, 0) |-> At(g, <<c[1] + 0, c[2] + 0>>)] = B
  <2>1. \A c \in used : At(g, <<c[1] + 0, c[2] + 0>>) = B[c]
    <3>1. ASSUME NEW c \in used PROVE At(g, <<c[1] + 0, c[2] + 0>>) = B[c]
      <4>1. <<c[1] + 0, c[2] + 0>> = c
        BY <1>10
      <4>2. c \in Cells(g) /\ c \in DOMAIN B
        BY <1>9 DEF used
      <4>3. QED BY <1>7, <4>1, <4>2
    <3>2. QED BY <3>1
  <2>2. Shifted(used, 0, 0) = DOMAIN B
    BY <1>9, <1>12, <1>13
  <2>3. B = [c \in DOMAIN B |-> B[c]]
    BY <1>1
  <2>4. QED BY <1>9, <2>1, <2>2, <2>3
<1>17. w - 1 - 0 + 1 = w /\ h - 1 - 0 + 1 = h
  BY <1>1
<1>18. CreateMap(g, m) = map
  BY <1>1, <1>11, <1>14, <1>15, <1>16, <1>17
<1>19. QED BY <1>5, <1>8, <1>18 DEF g, m

-----------------------------------------------------------------------------
(***************************************************************************)
(* The invariant.                                                          *)
(***************************************************************************)
LEMMA InitInv == Init => EditorInv
<1> SUFFICES ASSUME Init PROVE EditorInv
  OBVIOUS
<1> USE DEF Init
<1>1. PressInv
  BY DEF PressInv, NotHeld
<1>2. MapInv
  <2>1. NoMarks \in Marked /\ \A k \in Kinds : NoMarks[k] = {}
    BY DEF NoMarks, Marked
  <2>2. NothingInside(grid, marks) /\ OneGunACell(marks)
    BY <2>1 DEF NothingInside, OneGunACell, Kinds
  <2>3. tool \in Tools
    BY DEF Tools
  <2>4. file # NoMap => IsSaved(file)
    BY MapsAssumption
  <2>5. QED BY <2>1, <2>2, <2>3, <2>4 DEF MapInv
<1>3. ShownIsTheMap
  BY DEF ShownIsTheMap
<1>4. FreshInv
  BY DEF FreshInv
<1>5. QED BY <1>1, <1>2, <1>3, <1>4 DEF EditorInv

\* What a press, or going from page to page, leaves alone.
LEMMA MapUnchanged ==
  ASSUME EditorInv, UNCHANGED <<grid, marks, shown, file, fresh>>, tool' \in Tools,
         page' = "edit" \/ created' => page = "edit" \/ created
  PROVE  MapInv' /\ ShownIsTheMap' /\ FreshInv'
BY DEF EditorInv, MapInv, ShownIsTheMap, FreshInv, GridOK, NothingInside, IsWall

LEMMA GoToCreateKeeps == EditorInv /\ GoToCreate => EditorInv'
<1> SUFFICES ASSUME EditorInv, GoToCreate PROVE EditorInv'
  OBVIOUS
<1>1. held = NotHeld /\ held' = held
  BY DEF EditorInv, PressInv, GoToCreate
<1>2. CASE created
  <2>1. MapInv' /\ ShownIsTheMap' /\ FreshInv'
    BY <1>2, MapUnchanged DEF GoToCreate, EditorInv, MapInv
  <2>2. PressInv'
    BY <1>1, <1>2 DEF EditorInv, PressInv, GoToCreate, NotHeld
  <2>3. QED BY <2>1, <2>2 DEF EditorInv
<1>3. CASE ~created
  <2>1. /\ grid' = EmptyGrid(DefaultColumns, DefaultRows) /\ marks' = NoMarks
        /\ shown' = AllShown(grid', marks') /\ left' = NoCell /\ fresh' = FALSE
        /\ UNCHANGED <<tool, file>> /\ page' = "edit" /\ created'
    BY <1>3 DEF GoToCreate, ForgottenPress
  <2>2. GridOK(grid')
    BY <2>1, EmptyGridOK
  <2>3. grid' # <<>>
    BY <2>2, Sized DEF GridOK
  <2>4. marks' \in Marked /\ \A k \in Kinds : marks'[k] = {}
    BY <2>1 DEF NoMarks, Marked
  <2>5. NothingInside(grid', marks') /\ OneGunACell(marks')
    BY <2>4 DEF NothingInside, OneGunACell, Kinds
  <2>6. MapInv'
    BY <2>1, <2>2, <2>4, <2>5 DEF EditorInv, MapInv
  <2>7. ShownIsTheMap'
    BY <2>1, <2>3 DEF ShownIsTheMap
  <2>8. FreshInv' /\ PressInv'
    BY <1>1, <2>1 DEF FreshInv, PressInv, NotHeld
  <2>9. QED BY <2>6, <2>7, <2>8 DEF EditorInv
<1>4. QED BY <1>2, <1>3

LEMMA LoadKeeps == EditorInv /\ Load => EditorInv'
<1> SUFFICES ASSUME EditorInv, Load PROVE EditorInv'
  OBVIOUS
<1>1. /\ held = NotHeld /\ held' = held /\ file # NoMap
      /\ UNCHANGED <<tool, file>> /\ IsSaved(file)
  BY DEF EditorInv, PressInv, MapInv, Load
<1>2. CASE file.width <= 0 \/ file.height <= 0
  <2>1. UNCHANGED <<grid, marks, left, shown, created, fresh>> /\ page' = "gone"
    BY <1>2 DEF Load
  <2>2. MapInv' /\ ShownIsTheMap' /\ FreshInv'
    BY <1>1, <2>1, MapUnchanged DEF EditorInv, MapInv
  <2>3. PressInv'
    BY <1>1, <2>1 DEF EditorInv, PressInv, NotHeld
  <2>4. QED BY <2>2, <2>3 DEF EditorInv
<1>3. CASE ~(file.width <= 0 \/ file.height <= 0)
  <2>1. /\ grid' = GridOf(file) /\ marks' = file.marks /\ shown' = AllShown(grid', marks')
        /\ left' = NoCell /\ fresh' = TRUE
    BY <1>3 DEF Load, ForgottenPress, LoadedMarks
  <2>2. file.width > 0 /\ file.height > 0 /\ marks' \in Marked /\ OneGunACell(marks')
    BY <1>1, <1>3, <2>1 DEF IsSaved, Marked
  <2>3. GridOK(grid') /\ NothingInside(grid', marks')
    BY <1>1, <2>1, <2>2, Idempotent
  <2>4. grid' # <<>>
    BY <2>3, Sized DEF GridOK
  <2>5. MapInv'
    BY <1>1, <2>2, <2>3 DEF EditorInv, MapInv
  <2>6. ShownIsTheMap'
    BY <2>1, <2>4 DEF ShownIsTheMap
  <2>7. FreshInv' /\ PressInv'
    BY <1>1, <2>1, <2>2 DEF FreshInv, PressInv, NotHeld
  <2>8. QED BY <2>5, <2>6, <2>7 DEF EditorInv
<1>4. QED BY <1>2, <1>3

LEMMA SaveKeeps == EditorInv /\ Save => EditorInv'
<1> SUFFICES ASSUME EditorInv, Save PROVE EditorInv'
  OBVIOUS
<1>1. /\ UNCHANGED <<grid, marks, ui, shown>> /\ page = "edit"
      /\ file' = CreateMap(grid, marks) /\ fresh' = FALSE
  BY DEF Save
<1>2. GridOK(grid) /\ marks \in Marked /\ NothingInside(grid, marks) /\ OneGunACell(marks)
  BY <1>1 DEF EditorInv, MapInv
<1>3. IsSaved(file')
  BY <1>1, <1>2, Saved
<1>4. MapInv'
  BY <1>1, <1>2, <1>3 DEF EditorInv, MapInv, ui
<1>5. PressInv' /\ ShownIsTheMap' /\ FreshInv'
  BY <1>1 DEF EditorInv, PressInv, ShownIsTheMap, FreshInv, ui
<1>6. QED BY <1>4, <1>5 DEF EditorInv

\* Labels are added for the new cells, and nothing lies there.
LEMMA GrowKeeps ==
  ASSUME EditorInv, GridOK(grid), Edit, held = NotHeld, Grow, GridOK(grid'),
         Cells(grid) \subseteq Cells(grid'),
         \A c \in Cells(grid) : At(grid', c) = At(grid, c),
         \A c \in Cells(grid') \ Cells(grid) : At(grid', c) = NoBlock
  PROVE  EditorInv'
<1>1. /\ UNCHANGED <<marks, tool, left, right, held, page, created, file>>
      /\ fresh' = FALSE /\ page = "edit"
      /\ shown' = [c \in Cells(grid') |->
                     IF c \in DOMAIN shown THEN shown[c] ELSE CellInfo(grid', marks, c)]
  BY DEF Grow, Edit, ui
<1>2. grid # <<>> /\ grid' # <<>>
  BY Sized DEF GridOK
<1>3. NothingInside(grid', marks')
  <2>1. ASSUME NEW k \in Kinds \ {"tt"}, NEW c \in marks[k], c \in Cells(grid')
        PROVE  At(grid', c) \notin Collidable
    <3>1. CASE c \in Cells(grid)
      BY <3>1 DEF EditorInv, MapInv, NothingInside, IsWall
    <3>2. CASE c \notin Cells(grid)
      BY <2>1, <3>2, EditorAssumption
    <3>3. QED BY <3>1, <3>2
  <2>2. QED BY <1>1, <2>1 DEF NothingInside, IsWall
<1>4. MapInv'
  BY <1>1, <1>3 DEF EditorInv, MapInv
<1>5. ShownIsTheMap'
  <2>1. shown = [c \in Cells(grid) |-> CellInfo(grid, marks, c)]
    BY <1>2 DEF EditorInv, ShownIsTheMap, AllShown
  <2>2. \A c \in Cells(grid) : CellInfo(grid, marks, c) = CellInfo(grid', marks, c)
    BY DEF CellInfo
  <2>3. shown' = [c \in Cells(grid') |-> CellInfo(grid', marks, c)]
    BY <1>1, <2>1, <2>2
  <2>4. QED BY <1>1, <1>2, <2>3 DEF ShownIsTheMap, AllShown
<1>6. FreshInv' /\ PressInv'
  BY <1>1 DEF EditorInv, FreshInv, PressInv
<1>7. QED BY <1>4, <1>5, <1>6 DEF EditorInv

LEMMA AddColumnsKeeps == EditorInv /\ AddColumns => EditorInv'
<1> SUFFICES ASSUME EditorInv, AddColumns PROVE EditorInv'
  OBVIOUS
<1>1. GridOK(grid) /\ Edit /\ held = NotHeld /\ Grow /\ grid' = WithMoreColumns(grid)
  BY DEF AddColumns, Edit, EditorInv, MapInv
<1>2. /\ GridOK(grid') /\ Cells(grid) \subseteq Cells(grid')
      /\ \A c \in Cells(grid) : At(grid', c) = At(grid, c)
      /\ \A c \in Cells(grid') \ Cells(grid) : At(grid', c) = NoBlock
  BY <1>1, ColumnsAdded
<1>3. QED BY <1>1, <1>2, GrowKeeps

LEMMA AddRowsKeeps == EditorInv /\ AddRows => EditorInv'
<1> SUFFICES ASSUME EditorInv, AddRows PROVE EditorInv'
  OBVIOUS
<1>1. GridOK(grid) /\ Edit /\ held = NotHeld /\ Grow /\ grid' = WithMoreRows(grid)
  BY DEF AddRows, Edit, EditorInv, MapInv
<1>2. /\ GridOK(grid') /\ Cells(grid) \subseteq Cells(grid')
      /\ \A c \in Cells(grid) : At(grid', c) = At(grid, c)
      /\ \A c \in Cells(grid') \ Cells(grid) : At(grid', c) = NoBlock
  BY <1>1, RowsAdded
<1>3. QED BY <1>1, <1>2, GrowKeeps

\* Painting and erasing, by a drag or by a double click.
LEMMA PaintKeeps ==
  ASSUME EditorInv, Edit, NEW from, NEW to, NEW erase \in BOOLEAN,
         ~erase => from \in Cells(grid) /\ to \in Cells(grid),
         Handle(from, to, erase),
         left' \in {left, NoCell}, held'.cell = NoCell \/ held'.clicks # 1,
         UNCHANGED <<tool, created>>
  PROVE  /\ EditorInv'
         /\ ~erase /\ tool \in Kinds => marks[tool] \subseteq marks'[tool]
<1>1. /\ page = "edit" /\ fresh' = FALSE /\ file' = file
      /\ GridOK(grid) /\ marks \in Marked /\ tool \in Tools
      /\ NothingInside(grid, marks) /\ OneGunACell(marks) /\ ShownIsTheMap
  BY DEF Edit, EditorInv, MapInv
<1>2. /\ page' \in {page, "gone"}
      /\ GridOK(grid') /\ Cells(grid') = Cells(grid)
      /\ marks' \in Marked /\ NothingInside(grid', marks') /\ OneGunACell(marks')
      /\ ShownIsTheMap'
      /\ ~erase /\ tool \in Kinds => marks[tool] \subseteq marks'[tool]
  BY <1>1, HandleKeeps
<1>3. MapInv'
  BY <1>1, <1>2 DEF EditorInv, MapInv
<1>4. PressInv'
  BY <1>1, <1>2 DEF EditorInv, PressInv
<1>5. FreshInv'
  BY <1>1 DEF FreshInv
<1>6. QED BY <1>2, <1>3, <1>4, <1>5 DEF EditorInv

\* The last conjunct: the left button, pressed once, never erases what the tool
\* paints.
LEMMA DropKeeps ==
  EditorInv /\ Drop =>
    /\ EditorInv'
    /\ held.button = "left" /\ held.cell # NoCell /\ held.clicks = 1 =>
         /\ left = held.cell /\ right' = right
         /\ tool \in Kinds => marks[tool] \subseteq marks'[tool]
<1> SUFFICES ASSUME EditorInv, Drop
             PROVE  /\ EditorInv'
                    /\ held.button = "left" /\ held.cell # NoCell /\ held.clicks = 1 =>
                         /\ left = held.cell /\ right' = right
                         /\ tool \in Kinds => marks[tool] \subseteq marks'[tool]
  OBVIOUS
<1>1. /\ Edit /\ held' = NotHeld /\ held'.cell = NoCell /\ UNCHANGED <<tool, created>>
      /\ left \in Cells(grid) \cup {NoCell}
      /\ held.button = "left" /\ held.cell # NoCell /\ held.clicks = 1 => left = held.cell
  BY DEF Drop, NotHeld, EditorInv, PressInv
<1>2. PICK c \in Cells(grid) : DropLeft(c) \/ DropRight(c)
  BY DEF Drop
<1>3. CASE DropLeft(c)
  <2>1. /\ left # NoCell /\ Handle(left, c, FALSE) /\ left' = NoCell /\ right' = right
        /\ left \in Cells(grid)
    BY <1>1, <1>3 DEF DropLeft
  <2>2. EditorInv' /\ (tool \in Kinds => marks[tool] \subseteq marks'[tool])
    BY <1>1, <2>1, PaintKeeps
  <2>3. QED BY <1>1, <2>1, <2>2
<1>4. CASE DropRight(c)
  <2>1. left = NoCell /\ Handle(right, c, TRUE) /\ left' = left
    BY <1>4 DEF DropRight
  <2>2. EditorInv'
    BY <1>1, <2>1, PaintKeeps
  <2>3. QED BY <1>1, <2>1, <2>2
<1>5. QED BY <1>2, <1>3, <1>4

LEMMA DoubleClickKeeps ==
  EditorInv /\ DoubleClick =>
    /\ EditorInv'
    /\ held.button = "left" =>
         /\ left = held.cell /\ right' = right
         /\ tool \in Kinds => marks[tool] \subseteq marks'[tool]
<1> SUFFICES ASSUME EditorInv, DoubleClick
             PROVE  /\ EditorInv'
                    /\ held.button = "left" =>
                         /\ left = held.cell /\ right' = right
                         /\ tool \in Kinds => marks[tool] \subseteq marks'[tool]
  OBVIOUS
<1>1. /\ Edit /\ UNCHANGED <<tool, created>> /\ held'.clicks # 1
      /\ held.button = "left" => left = held.cell /\ left \in Cells(grid)
  BY DEF DoubleClick, Hold, EditorInv, PressInv
<1>2. CASE /\ held.button = "left" /\ Handle(held.cell, held.cell, FALSE)
           /\ left' = NoCell /\ UNCHANGED right
  <2>1. EditorInv' /\ (tool \in Kinds => marks[tool] \subseteq marks'[tool])
    BY <1>1, <1>2, PaintKeeps
  <2>2. QED BY <1>1, <1>2, <2>1
<1>3. CASE /\ held.button = "right" /\ Handle(held.cell, held.cell, TRUE)
           /\ right' = NoCell /\ UNCHANGED left
  <2>1. EditorInv'
    BY <1>1, <1>3, PaintKeeps
  <2>2. QED BY <1>3, <2>1
<1>4. QED BY <1>2, <1>3 DEF DoubleClick

LEMMA PressesKeep ==
  EditorInv /\ (GoToLoad \/ Back \/ PressTool \/ RightPressTool \/ PressCell \/ Release)
    => EditorInv'
<1> SUFFICES ASSUME EditorInv,
                    GoToLoad \/ Back \/ PressTool \/ RightPressTool \/ PressCell \/ Release
             PROVE  EditorInv'
  OBVIOUS
<1>1. UNCHANGED <<grid, marks, shown, file, fresh, created>>
  BY DEF GoToLoad, Back, PressTool, RightPressTool, PressCell, Release
<1>2. tool' \in Tools
  BY DEF EditorInv, MapInv, GoToLoad, Back, PressTool, RightPressTool, PressCell, Release
<1>3. page' = "edit" => page = "edit"
  BY DEF GoToLoad, Back, PressTool, RightPressTool, PressCell, Release
<1>4. MapInv' /\ ShownIsTheMap' /\ FreshInv'
  BY <1>1, <1>2, <1>3, MapUnchanged
<1>5. PressInv'
  <2> USE <1>1 DEF EditorInv, PressInv, NotHeld, Hold, ForgottenPress
  <2>1. CASE GoToLoad
    BY <2>1 DEF GoToLoad
  <2>2. CASE Back
    BY <2>2 DEF Back
  <2>3. CASE PressTool
    BY <2>3 DEF PressTool
  <2>4. CASE RightPressTool
    BY <2>4 DEF RightPressTool
  <2>5. CASE PressCell
    <3>1. PICK c \in Cells(grid) :
             \/ (left' = c /\ held' = Hold("left", c, 1) /\ UNCHANGED right)
             \/ (right' = c /\ held' = Hold("right", c, 1) /\ UNCHANGED left)
      BY <2>5 DEF PressCell
    <3>2. page = "edit" /\ page' = page
      BY <2>5 DEF PressCell
    <3>3. QED BY <3>1, <3>2
  <2>6. CASE Release
    BY <2>6 DEF Release
  <2>7. QED BY <2>1, <2>2, <2>3, <2>4, <2>5, <2>6
<1>6. QED BY <1>4, <1>5 DEF EditorInv

LEMMA StepInv == EditorInv /\ [Next]_vars => EditorInv'
<1> SUFFICES ASSUME EditorInv, [Next]_vars PROVE EditorInv'
  OBVIOUS
<1>1. CASE UNCHANGED vars
  <2>1. UNCHANGED <<grid, marks, tool, left, right, held, page, created, shown, file, fresh>>
    BY <1>1 DEF vars, ui
  <2>2. MapInv' /\ ShownIsTheMap' /\ FreshInv'
    BY <2>1, MapUnchanged DEF EditorInv, MapInv
  <2>3. PressInv'
    BY <2>1 DEF EditorInv, PressInv
  <2>4. QED BY <2>2, <2>3 DEF EditorInv
<1>2. CASE Next
  BY <1>2, GoToCreateKeeps, LoadKeeps, SaveKeeps, AddColumnsKeeps, AddRowsKeeps,
     PressesKeep, DropKeeps, DoubleClickKeeps DEF Next
<1>3. QED BY <1>1, <1>2

LEMMA AlwaysInv == Spec => []EditorInv
<1>1. QED BY InitInv, StepInv, PTL DEF Spec

-----------------------------------------------------------------------------
(***************************************************************************)
(* Theorems.                                                               *)
(***************************************************************************)
\* Nothing lies inside a wall: painting a wall clears what lay there, a mark
\* is not painted on a wall, rows and columns are added without blocks, and
\* what is saved is loaded with its marks where its blocks are.
THEOREM WallsAreEmpty == Spec => []NothingInsideWalls
<1>1. EditorInv => NothingInsideWalls
  BY DEF EditorInv, MapInv, NothingInside, NothingInsideWalls
<1>2. QED BY <1>1, AlwaysInv, PTL

\* The window shows the map: whatever changes a cell of it draws its label
\* anew, and the labels are as many as the cells.
THEOREM WindowCorrect == Spec => []ShownIsTheMap
<1>1. EditorInv => ShownIsTheMap
  BY DEF EditorInv
<1>2. QED BY <1>1, AlwaysInv, PTL

\* A map that is loaded and saved again is the same file, because a saved map
\* begins and ends where its blocks do.
THEOREM SavingCorrect == Spec => []SavingIsIdempotent
<1>1. EditorInv => SavingIsIdempotent
  <2>1. SUFFICES ASSUME EditorInv, fresh PROVE CreateMap(grid, marks) = file
    BY DEF SavingIsIdempotent
  <2>2. /\ IsSaved(file) /\ file.width > 0 /\ file.height > 0
        /\ grid = GridOf(file) /\ marks = file.marks
    BY <2>1 DEF EditorInv, FreshInv, MapInv
  <2>3. QED BY <2>2, Idempotent
<1>2. QED BY <1>1, AlwaysInv, PTL

\* Who presses the left button on a cell, and drags or presses again, paints from
\* that cell, forgets no press of the right button, and loses none of what the
\* tool painted; unless the drag begins with the second press of a double click.
THEOREM DragsCorrect == Spec => LeftDragsPaint
<1>1. EditorInv /\ [Next]_vars =>
        [LeftChanges /\ held.clicks = 1 =>
            /\ left = held.cell /\ right' = right
            /\ tool \in Kinds => marks[tool] \subseteq marks'[tool]]_vars
  <2> SUFFICES ASSUME EditorInv, [Next]_vars, LeftChanges, held.clicks = 1
               PROVE  /\ left = held.cell /\ right' = right
                      /\ tool \in Kinds => marks[tool] \subseteq marks'[tool]
    OBVIOUS
  <2>1. held # NotHeld
    BY DEF NotHeld, LeftChanges
  <2>2. Next
    BY DEF vars, LeftChanges
  <2>3. Drop \/ DoubleClick
    BY <2>1, <2>2 DEF LeftChanges, Next, GoToCreate, GoToLoad, Back, Load, Save, AddColumns,
       AddRows, PressTool, RightPressTool, PressCell, Release
  <2>4. QED BY <2>3, DropKeeps, DoubleClickKeeps DEF LeftChanges
<1>2. QED BY <1>1, AlwaysInv, PTL DEF Spec, LeftDragsPaint

=============================================================================
