---------------------------- MODULE FieldProofs ----------------------------
(***************************************************************************)
(* Proofs about the players on the map, for any map, any number of         *)
(* players, and any sizes and speed under which a frame's step, however    *)
(* late, is not longer than a block.                                       *)
(***************************************************************************)
EXTENDS Field, FiniteSetTheorems, SequenceTheorems, TLAPS

-----------------------------------------------------------------------------
(***************************************************************************)
(* Numbers.                                                                *)
(***************************************************************************)
LEMMA LeastExists ==
  ASSUME NEW S \in SUBSET Nat, S # {}
  PROVE  \E n \in S : \A k \in S : n <= k
<1> DEFINE T == {0..n : n \in S}
<1>1. T \subseteq FiniteSubsetsOf(Nat) /\ T # {}
  <2>1. \A n \in S : n \in Int /\ 0..n \in SUBSET Nat
    OBVIOUS
  <2>2. \A n \in S : IsFiniteSet(0..n)
    BY <2>1, FS_Interval
  <2>3. QED BY <2>1, <2>2 DEF FiniteSubsetsOf
<1>2. PICK t \in T : \A u \in T : ~ (<<u, t>> \in StrictSubsetOrdering(Nat))
  <2> HIDE DEF T
  <2>1. IsWellFoundedOn(StrictSubsetOrdering(Nat), FiniteSubsetsOf(Nat))
    BY FS_StrictSubsetOrderingWellFounded
  <2>2. QED BY <1>1, <2>1, WFMin
<1>3. PICK n \in S : t = 0..n
  BY <1>2
<1>4. ASSUME NEW k \in S, k < n PROVE FALSE
  <2>1. /\ 0..k \in SUBSET Nat /\ 0..n \in SUBSET Nat
        /\ 0..k \subseteq 0..n /\ n \notin 0..k /\ n \in 0..n
    BY <1>4
  <2>2. <<0..k, 0..n>> \in StrictSubsetOrdering(Nat)
    BY <2>1 DEF StrictSubsetOrdering
  <2>3. 0..k \in T
    OBVIOUS
  <2>4. QED BY <1>2, <1>3, <2>2, <2>3
<1>5. QED BY <1>4

\* There is a whole number that a side of s has along its diagonal.
LEMMA DiagonalIs ==
  ASSUME NEW s \in Nat
  PROVE  Diagonal(s) \in 0..s
<1> DEFINE Fits(n) == 2 * n * n <= s * s
           S == {n \in Nat : ~Fits(n)}
<1>1. PICK b \in S : \A k \in S : b <= k
  <2>1. s + 1 \in S
    <3>1. s * s \in Nat /\ 2 * (s + 1) * (s + 1) = 2 * (s * s) + 4 * s + 2
      OBVIOUS
    <3>2. QED BY <3>1
  <2>2. S \in SUBSET Nat /\ S # {}
    BY <2>1
  <2> HIDE DEF S
  <2>3. QED BY <2>2, LeastExists
<1>2. b \in Nat /\ ~Fits(b) /\ b # 0
  <2>1. s * s \in Nat /\ 2 * 0 * 0 = 0
    OBVIOUS
  <2>2. Fits(0)
    BY <2>1
  <2>3. QED BY <1>1, <2>2
<1> DEFINE n == b - 1
<1>3. n \in Nat /\ n + 1 = b /\ n \notin S
  BY <1>1, <1>2
<1>4. Fits(n) /\ s * s < 2 * (n + 1) * (n + 1)
  <2>1. s * s \in Int /\ 2 * b * b \in Int
    BY <1>2
  <2>2. QED BY <1>2, <1>3, <2>1
<1> HIDE DEF n
<1>5. n \in 0..s
  <2>1. ASSUME n > s PROVE FALSE
    <3>1. n * n >= s * s /\ n * n > 0
      BY <1>3, <2>1
    <3>2. s * s \in Nat /\ n * n \in Nat /\ 2 * n * n = 2 * (n * n)
      BY <1>3
    <3>3. QED BY <1>4, <3>1, <3>2
  <2>2. QED BY <1>3, <2>1
<1>6. \E k \in 0..s : 2 * k * k <= s * s /\ s * s < 2 * (k + 1) * (k + 1)
  BY <1>4, <1>5
<1>7. QED BY <1>6 DEF Diagonal

-----------------------------------------------------------------------------
(***************************************************************************)
(* Rectangles, one axis at a time.                                         *)
(***************************************************************************)
Places == [Axes -> Int]
Other(a) == IF a = "x" THEN "y" ELSE "x"
Long(a) == (IF a = "x" THEN Width ELSE Height) * Block

\* The body at v overlaps what goes from l to r.
Between(l, r, v) == r > v /\ l < v + Body

Near(r, a) == r.at[a]
Far(r, a) == r.at[a] + r.size[a]
Overlaps(r, v, a) == Between(Near(r, a), Far(r, a), v)

LEMMA Intersecting ==
  ASSUME NEW r, NEW at, NEW a \in Axes
  PROVE  Intersects(r, BodyAt(at)) <=> Overlaps(r, at[a], a) /\ Overlaps(r, at[Other(a)], Other(a))
<1>1. Intersects(r, BodyAt(at)) <=> Overlaps(r, at["x"], "x") /\ Overlaps(r, at["y"], "y")
  BY DEF Intersects, BodyAt, Rect, Point, Overlaps, Between, Near, Far
<1>2. CASE a = "x"
  BY <1>1, <1>2 DEF Other
<1>3. CASE a = "y"
  BY <1>1, <1>3 DEF Other
<1>4. QED BY <1>2, <1>3 DEF Axes

Aligned(n) == \E k \in Int : n = k * Block

LEMMA AlignedApart ==
  ASSUME NEW m \in Int, NEW n \in Int, Aligned(m), Aligned(n), m < n
  PROVE  m + Block <= n
<1>1. PICK j \in Int : m = j * Block
  BY DEF Aligned
<1>2. PICK k \in Int : n = k * Block
  BY DEF Aligned
<1>3. Block \in Nat \ {0}
  BY FieldAssumption
<1>4. j < k
  <2>1. ASSUME k <= j PROVE FALSE
    <3>1. k * Block <= j * Block
      BY <1>3, <2>1
    <3>2. QED BY <1>1, <1>2, <3>1
  <2>2. QED BY <2>1
<1>5. (j + 1) * Block <= k * Block /\ (j + 1) * Block = j * Block + Block
  BY <1>3, <1>4
<1>6. QED BY <1>1, <1>2, <1>5

\* Every wall begins and ends where cells do.
WallOK(r) ==
    \A a \in Axes : /\ r.at[a] \in Int /\ r.size[a] \in Nat
                    /\ Aligned(r.at[a]) /\ Aligned(r.at[a] + r.size[a])

LEMMA RectOK ==
  ASSUME NEW x \in Int, NEW y \in Int, NEW w \in Nat, NEW h \in Nat
  PROVE  WallOK(Rect(Point(x * Block, y * Block), w * Block, h * Block))
<1>1. Block \in Nat \ {0}
  BY FieldAssumption
<1> DEFINE r == Rect(Point(x * Block, y * Block), w * Block, h * Block)
<1>2. /\ r.at["x"] = x * Block /\ r.at["y"] = y * Block
      /\ r.size["x"] = w * Block /\ r.size["y"] = h * Block
  BY DEF Rect, Point
<1>3. /\ x * Block + w * Block = (x + w) * Block
      /\ y * Block + h * Block = (y + h) * Block
      /\ x + w \in Int /\ y + h \in Int
  BY <1>1
<1>4. x * Block \in Int /\ y * Block \in Int /\ w * Block \in Nat /\ h * Block \in Nat
  BY <1>1
<1> HIDE DEF r
<1>5. Aligned(x * Block) /\ Aligned(y * Block)
  BY DEF Aligned
<1>6. Aligned(x * Block + w * Block) /\ Aligned(y * Block + h * Block)
  BY <1>3 DEF Aligned
<1>7. WallOK(r)
  BY <1>2, <1>4, <1>5, <1>6 DEF WallOK, Axes
<1>8. QED BY <1>7 DEF r

LEMMA BlocksOK ==
  /\ BlockRects \in Seq({CellRect(Blocks[i]) : i \in DOMAIN Blocks})
  /\ \A i \in DOMAIN BlockRects : WallOK(BlockRects[i])
<1> DEFINE S == {CellRect(Blocks[i]) : i \in DOMAIN Blocks}
           T == [x : Int, y : Int]
<1>1. Blocks \in Seq(T) /\ Block \in Nat \ {0}
  BY FieldAssumption
<1>2. /\ DOMAIN Blocks = 1..Len(Blocks) /\ Len(Blocks) \in Nat
      /\ \A i \in DOMAIN Blocks : Blocks[i] \in T
  <2> HIDE DEF T
  <2>1. QED BY <1>1
<1>3. BlockRects \in [1..Len(Blocks) -> S]
  BY <1>2 DEF BlockRects
<1>4. BlockRects \in Seq(S)
  <2> HIDE DEF S
  <2>1. QED BY <1>2, <1>3
<1>5. ASSUME NEW i \in DOMAIN BlockRects PROVE WallOK(BlockRects[i])
  <2>1. BlockRects[i] = CellRect(Blocks[i]) /\ Blocks[i] \in T
    BY <1>2, <1>5 DEF BlockRects
  <2>2. Blocks[i].x \in Int /\ Blocks[i].y \in Int /\ 1 \in Nat /\ 1 * Block = Block
    BY <1>1, <2>1
  <2>3. CellRect(Blocks[i]) =
          Rect(Point(Blocks[i].x * Block, Blocks[i].y * Block), 1 * Block, 1 * Block)
    BY <2>2 DEF CellRect, CellAt
  <2>4. QED BY <2>1, <2>2, <2>3, RectOK
<1>6. QED BY <1>4, <1>5

\* The invisible walls stand around the map on every side.
LEMMA InvisibleWallsOK ==
  /\ \A i \in 1..4 : WallOK(InvisibleWalls[i])
  /\ \A a \in Axes :
       /\ \E i \in 1..4 : LET r == InvisibleWalls[i] IN
            /\ r.at[a] = -Block /\ r.size[a] = Block
            /\ r.at[Other(a)] = 0 /\ r.size[Other(a)] = Long(Other(a))
       /\ \E i \in 1..4 : LET r == InvisibleWalls[i] IN
            /\ r.at[a] = Long(a) /\ r.size[a] = Block
            /\ r.at[Other(a)] = 0 /\ r.size[Other(a)] = Long(Other(a))
<1>1. Block \in Nat \ {0} /\ Width \in Nat \ {0} /\ Height \in Nat \ {0}
  BY FieldAssumption
<1>2. /\ InvisibleWalls[1] = Rect(Point(0 * Block, (-1) * Block), Width * Block, 1 * Block)
      /\ InvisibleWalls[2] = Rect(Point(Width * Block, 0 * Block), 1 * Block, Height * Block)
      /\ InvisibleWalls[3] = Rect(Point(0 * Block, Height * Block), Width * Block, 1 * Block)
      /\ InvisibleWalls[4] = Rect(Point((-1) * Block, 0 * Block), 1 * Block, Height * Block)
  <2>1. 0 * Block = 0 /\ 1 * Block = Block /\ (-1) * Block = -Block
    BY <1>1
  <2>2. QED BY <2>1 DEF InvisibleWalls
<1>3. \A i \in 1..4 : WallOK(InvisibleWalls[i])
  <2>1. WallOK(InvisibleWalls[1]) /\ WallOK(InvisibleWalls[2])
        /\ WallOK(InvisibleWalls[3]) /\ WallOK(InvisibleWalls[4])
    <3>1. 0 \in Int /\ -1 \in Int /\ 1 \in Nat /\ Width \in Nat /\ Height \in Nat
          /\ Width \in Int /\ Height \in Int
      BY <1>1
    <3>2. QED BY <1>2, <3>1, RectOK
  <2>2. \A i \in 1..4 : i = 1 \/ i = 2 \/ i = 3 \/ i = 4
    OBVIOUS
  <2>3. QED BY <2>1, <2>2
<1>4. ASSUME NEW a \in Axes
      PROVE  /\ \E i \in 1..4 : LET r == InvisibleWalls[i] IN
                  /\ r.at[a] = -Block /\ r.size[a] = Block
                  /\ r.at[Other(a)] = 0 /\ r.size[Other(a)] = Long(Other(a))
             /\ \E i \in 1..4 : LET r == InvisibleWalls[i] IN
                  /\ r.at[a] = Long(a) /\ r.size[a] = Block
                  /\ r.at[Other(a)] = 0 /\ r.size[Other(a)] = Long(Other(a))
  <2>1. CASE a = "x"
    <3>1. LET r == InvisibleWalls[4] IN
            /\ r.at["x"] = -Block /\ r.size["x"] = Block
            /\ r.at["y"] = 0 /\ r.size["y"] = Height * Block
      BY DEF InvisibleWalls, Rect, Point
    <3>2. LET r == InvisibleWalls[2] IN
            /\ r.at["x"] = Width * Block /\ r.size["x"] = Block
            /\ r.at["y"] = 0 /\ r.size["y"] = Height * Block
      BY DEF InvisibleWalls, Rect, Point
    <3>3. Other(a) = "y" /\ Long("x") = Width * Block /\ Long("y") = Height * Block
      BY <2>1 DEF Other, Long
    <3>4. 2 \in 1..4 /\ 4 \in 1..4
      OBVIOUS
    <3>5. QED BY <2>1, <3>1, <3>2, <3>3, <3>4
  <2>2. CASE a = "y"
    <3>1. LET r == InvisibleWalls[1] IN
            /\ r.at["y"] = -Block /\ r.size["y"] = Block
            /\ r.at["x"] = 0 /\ r.size["x"] = Width * Block
      BY DEF InvisibleWalls, Rect, Point
    <3>2. LET r == InvisibleWalls[3] IN
            /\ r.at["y"] = Height * Block /\ r.size["y"] = Block
            /\ r.at["x"] = 0 /\ r.size["x"] = Width * Block
      BY DEF InvisibleWalls, Rect, Point
    <3>3. Other(a) = "x" /\ Long("x") = Width * Block /\ Long("y") = Height * Block
      BY <2>2 DEF Other, Long
    <3>4. 1 \in 1..4 /\ 3 \in 1..4
      OBVIOUS
    <3>5. QED BY <2>2, <3>1, <3>2, <3>3, <3>4
  <2>3. QED BY <2>1, <2>2 DEF Axes
<1>5. QED BY <1>3, <1>4

LEMMA WallsOK ==
  /\ Len(Walls) \in Nat /\ DOMAIN Walls = 1..Len(Walls)
  /\ Walls = [i \in 1..Len(Walls) |-> Walls[i]]
  /\ \A i \in DOMAIN Walls : WallOK(Walls[i])
  /\ \A j \in 1..4 : \E i \in DOMAIN Walls : Walls[i] = InvisibleWalls[j]
<1> DEFINE S == {CellRect(Blocks[i]) : i \in DOMAIN Blocks}
           V == {InvisibleWalls[j] : j \in 1..4}
           T == S \cup V
<1>1. InvisibleWalls \in Seq(V) /\ Len(InvisibleWalls) = 4
  <2>1. InvisibleWalls = [j \in 1..4 |-> InvisibleWalls[j]] /\ Len(InvisibleWalls) = 4
    BY DEF InvisibleWalls
  <2> HIDE DEF InvisibleWalls
  <2>2. InvisibleWalls \in [1..4 -> V]
    BY <2>1
  <2> HIDE DEF V
  <2>3. QED BY <2>1, <2>2
<1>2. BlockRects \in Seq(S)
  BY BlocksOK
<1>3. S \subseteq T /\ V \subseteq T
  OBVIOUS
<1> HIDE DEF S, V, T
<1>4. BlockRects \in Seq(T) /\ InvisibleWalls \in Seq(T)
  BY <1>1, <1>2, <1>3
<1> DEFINE n == Len(BlockRects)
<1>5. n \in Nat /\ DOMAIN BlockRects = 1..n
  BY <1>4
<1>6. /\ Len(Walls) = n + 4 /\ Walls \in Seq(T)
      /\ \A i \in 1..(n + 4) : Walls[i] = IF i <= n THEN BlockRects[i] ELSE InvisibleWalls[i - n]
  <2> DEFINE B == BlockRects
             I == InvisibleWalls
             m == Len(I)
  <2>1. B \in Seq(T) /\ I \in Seq(T) /\ m = 4 /\ Walls = B \o I
    BY <1>1, <1>4 DEF Walls
  <2> HIDE DEF B, I
  <2>2. /\ B \o I \in Seq(T) /\ Len(B \o I) = Len(B) + Len(I)
        /\ \A i \in 1..(Len(B) + Len(I)) : (B \o I)[i] = IF i <= Len(B) THEN B[i] ELSE I[i - Len(B)]
    BY <2>1, ConcatProperties
  <2>3. QED BY <2>1, <2>2 DEF B, I
<1> HIDE DEF n
<1>7. /\ DOMAIN Walls = 1..(n + 4) /\ Len(Walls) \in Nat
      /\ Walls = [i \in 1..Len(Walls) |-> Walls[i]]
  BY <1>5, <1>6
<1>8. ASSUME NEW i \in DOMAIN Walls PROVE WallOK(Walls[i])
  <2>1. i \in 1..(n + 4)
    BY <1>7
  <2>2. CASE i <= n
    BY <1>5, <1>6, <2>1, <2>2, BlocksOK
  <2>3. CASE ~(i <= n)
    <3>1. i - n \in 1..4 /\ Walls[i] = InvisibleWalls[i - n]
      BY <1>5, <1>6, <2>1, <2>3
    <3>2. QED BY <3>1, InvisibleWallsOK
  <2>4. QED BY <2>2, <2>3
<1>9. ASSUME NEW j \in 1..4 PROVE \E i \in DOMAIN Walls : Walls[i] = InvisibleWalls[j]
  <2>1. n + j \in 1..(n + 4) /\ ~(n + j <= n) /\ (n + j) - n = j
    BY <1>5
  <2>2. Walls[n + j] = InvisibleWalls[j]
    BY <1>6, <2>1
  <2>3. QED BY <1>7, <2>1, <2>2
<1>10. QED BY <1>6, <1>7, <1>8, <1>9

\* The list has the walls, and then the players.
LEMMA CollidablesAre ==
  /\ \A i \in DOMAIN Walls : Collidables[i] = Walls[i]
  /\ \A j \in DOMAIN Joined : Joined[j] \in Players
  /\ \A j \in DOMAIN Joined : Collidables[Len(Walls) + j] = BodyAt(pos[Joined[j]])
<1> DEFINE n == Len(Walls)
           bodies == [j \in DOMAIN Joined |-> BodyAt(pos[Joined[j]])]
           T == {Walls[i] : i \in DOMAIN Walls} \cup {BodyAt(pos[Joined[j]]) : j \in DOMAIN Joined}
<1>1. n \in Nat /\ DOMAIN Walls = 1..n
  BY WallsOK
<1>2. /\ DOMAIN Joined = 1..Len(Joined) /\ Len(Joined) \in Nat
      /\ \A j \in DOMAIN Joined : Joined[j] \in Players
  <2>1. Joined \in Seq(Players)
    BY FieldAssumption
  <2>2. QED BY <2>1
<1>3. bodies \in Seq(T) /\ DOMAIN bodies = DOMAIN Joined
  <2>1. bodies \in [1..Len(Joined) -> T] /\ DOMAIN bodies = DOMAIN Joined
    BY <1>2
  <2> HIDE DEF bodies, T
  <2>2. QED BY <1>2, <2>1
<1>4. Walls \in Seq(T)
  <2>1. Walls = [i \in 1..n |-> Walls[i]]
    BY WallsOK
  <2>2. \A i \in DOMAIN Walls : Walls[i] \in T
    OBVIOUS
  <2> HIDE DEF T
  <2>3. QED BY <1>1, <2>1, <2>2
<1>5. /\ \A i \in 1..n + Len(bodies) : (Walls \o bodies)[i] =
              IF i <= n THEN Walls[i] ELSE bodies[i - n]
  <2> HIDE DEF bodies, T
  <2>1. QED BY <1>3, <1>4, ConcatProperties
<1>6. Collidables = Walls \o bodies
  BY DEF Collidables
<1>7. Len(bodies) = Len(Joined)
  <2> HIDE DEF bodies, T
  <2>1. QED BY <1>2, <1>3
<1>8. ASSUME NEW j \in DOMAIN Joined PROVE Collidables[n + j] = BodyAt(pos[Joined[j]])
  <2>1. n + j \in 1..n + Len(bodies) /\ ~(n + j <= n) /\ (n + j) - n = j
    <3> HIDE DEF bodies, n
    <3>1. QED BY <1>1, <1>2, <1>7
  <2>2. Collidables[n + j] = bodies[j]
    <3> HIDE DEF bodies, n
    <3>1. QED BY <1>5, <1>6, <2>1
  <2>3. QED BY <2>2
<1>9. ASSUME NEW i \in DOMAIN Walls PROVE Collidables[i] = Walls[i]
  <2> HIDE DEF bodies, n
  <2>1. i \in 1..n + Len(bodies) /\ i <= n
    BY <1>1, <1>2, <1>7
  <2>2. QED BY <1>5, <1>6, <2>1
<1>10. QED BY <1>2, <1>8, <1>9

-----------------------------------------------------------------------------
(***************************************************************************)
(* A wall in the way, along one axis: from l to r, when the body goes from *)
(* h by d.  No other wall is nearer, since walls begin and end where cells *)
(* do and a step is not longer than a block.                               *)
(***************************************************************************)
LEMMA StopsForwards ==
  ASSUME NEW h \in Int, NEW d \in 1..Block,
         NEW l \in Int, NEW r \in Int, Aligned(l),
         ~Between(l, r, h), Between(l, r, h + d)
  PROVE  /\ h <= l - Body /\ l - Body <= h + d
         /\ \A m, n \in Int : Aligned(m) /\ ~Between(m, n, h) => ~Between(m, n, l - Body)
         /\ \A m \in Int : Aligned(m) /\ h + Body <= m => l <= m
<1>1. Block \in Nat \ {0} /\ Body \in 1..Block
  BY FieldAssumption
<1>2. l >= h + Body /\ l < h + d + Body
  BY <1>1 DEF Between
<1>3. ASSUME NEW m \in Int, Aligned(m), h + Body <= m PROVE l <= m
  <2>1. ASSUME m < l PROVE FALSE
    <3>1. m + Block <= l
      BY <1>3, <2>1, AlignedApart
    <3>2. QED BY <1>1, <1>2, <1>3, <3>1
  <2>2. QED BY <2>1
<1>4. ASSUME NEW m \in Int, NEW n \in Int, Aligned(m), ~Between(m, n, h),
             Between(m, n, l - Body)
      PROVE  FALSE
  <2>1. n > l - Body /\ m < l
    BY <1>1, <1>4 DEF Between
  <2>2. h + Body <= m
    BY <1>1, <1>2, <1>4, <2>1 DEF Between
  <2>3. l <= m
    BY <1>3, <1>4, <2>2
  <2>4. QED BY <2>1, <2>3
<1>5. QED BY <1>1, <1>2, <1>3, <1>4

LEMMA StopsBackwards ==
  ASSUME NEW h \in Int, NEW d \in (-Block)..(-1),
         NEW l \in Int, NEW r \in Int, Aligned(r),
         ~Between(l, r, h), Between(l, r, h + d)
  PROVE  /\ r <= h /\ h + d <= r
         /\ \A m, n \in Int : Aligned(n) /\ ~Between(m, n, h) => ~Between(m, n, r)
         /\ \A n \in Int : Aligned(n) /\ n <= h => n <= r
<1>1. Block \in Nat \ {0} /\ Body \in 1..Block
  BY FieldAssumption
<1>2. r <= h /\ h + d < r
  BY <1>1 DEF Between
<1>3. ASSUME NEW n \in Int, Aligned(n), n <= h PROVE n <= r
  <2>1. ASSUME r < n PROVE FALSE
    <3>1. r + Block <= n
      BY <1>3, <2>1, AlignedApart
    <3>2. QED BY <1>1, <1>2, <1>3, <3>1
  <2>2. QED BY <2>1
<1>4. ASSUME NEW m \in Int, NEW n \in Int, Aligned(n), ~Between(m, n, h),
             Between(m, n, r)
      PROVE  FALSE
  <2>1. n > r /\ m < r + Body
    BY <1>4 DEF Between
  <2>2. n <= h
    BY <1>1, <1>2, <1>4, <2>1 DEF Between
  <2>3. n <= r
    BY <1>3, <1>4, <2>2
  <2>4. QED BY <2>1, <2>3
<1>5. QED BY <1>1, <1>2, <1>3, <1>4

-----------------------------------------------------------------------------
(***************************************************************************)
(* A step along one axis.                                                  *)
(***************************************************************************)
LEMMA LongIs ==
  ASSUME NEW a \in Axes
  PROVE  Long(a) \in Nat /\ Aligned(Long(a)) /\ Aligned(0) /\ Other(a) \in Axes
<1>1. Block \in Nat \ {0} /\ Width \in Nat \ {0} /\ Height \in Nat \ {0}
  BY FieldAssumption
<1>2. 0 = 0 * Block /\ Width * Block \in Nat /\ Height * Block \in Nat
  BY <1>1
<1>3. Aligned(0) /\ Aligned(Width * Block) /\ Aligned(Height * Block)
  BY <1>1, <1>2 DEF Aligned
<1>4. Long(a) = Width * Block \/ Long(a) = Height * Block
  BY DEF Long
<1>5. QED BY <1>2, <1>3, <1>4 DEF Axes, Other

LEMMA StandingFree ==
  ASSUME NEW at
  PROVE  StandsFree(at) <=>
            /\ \A a \in Axes : at[a] \in 0..(Long(a) - Body)
            /\ \A i \in DOMAIN Walls : ~Intersects(Walls[i], BodyAt(at))
<1>1. OnTheMap(at) <=> /\ at["x"] \in 0..(Width * Block - Body)
                       /\ at["y"] \in 0..(Height * Block - Body)
  BY DEF OnTheMap
<1>2. Long("x") = Width * Block /\ Long("y") = Height * Block
  BY DEF Long
<1>3. OnTheMap(at) <=> \A a \in Axes : at[a] \in 0..(Long(a) - Body)
  BY <1>1, <1>2 DEF Axes
<1>4. QED BY <1>3 DEF StandsFree, InWall

LEMMA WallEdges ==
  ASSUME NEW i \in DOMAIN Walls, NEW a \in Axes
  PROVE  /\ Near(Walls[i], a) \in Int /\ Far(Walls[i], a) \in Int
         /\ Aligned(Near(Walls[i], a)) /\ Aligned(Far(Walls[i], a))
<1>1. WallOK(Walls[i])
  BY WallsOK
<1>2. /\ Walls[i].at[a] \in Int /\ Walls[i].size[a] \in Nat
      /\ Aligned(Walls[i].at[a]) /\ Aligned(Walls[i].at[a] + Walls[i].size[a])
  BY <1>1 DEF WallOK
<1>3. QED BY <1>2 DEF Near, Far

\* Off the map along one axis is in an invisible wall.
LEMMA NotOffTheMap ==
  ASSUME NEW a \in Axes, NEW at, at[a] \in Int,
         -Block <= at[a], at[a] <= Long(a) - Body + Block,
         at[Other(a)] \in 0..(Long(Other(a)) - Body),
         \A i \in DOMAIN Walls : ~Intersects(Walls[i], BodyAt(at))
  PROVE  at[a] \in 0..(Long(a) - Body)
<1>1. /\ Block \in Nat \ {0} /\ Body \in 1..Block
      /\ Long(a) \in Nat /\ Long(Other(a)) \in Nat
  BY FieldAssumption, LongIs
<1> DEFINE v == at[a]
           w == at[Other(a)]
<1>2. Between(0, Long(Other(a)), w)
  BY <1>1 DEF Between
<1>3. PICK i \in DOMAIN Walls :
         /\ Near(Walls[i], a) = -Block /\ Far(Walls[i], a) = -Block + Block
         /\ Near(Walls[i], Other(a)) = 0 /\ Far(Walls[i], Other(a)) = 0 + Long(Other(a))
  BY InvisibleWallsOK, WallsOK DEF Near, Far
<1>4. PICK j \in DOMAIN Walls :
         /\ Near(Walls[j], a) = Long(a) /\ Far(Walls[j], a) = Long(a) + Block
         /\ Near(Walls[j], Other(a)) = 0 /\ Far(Walls[j], Other(a)) = 0 + Long(Other(a))
  BY InvisibleWallsOK, WallsOK DEF Near, Far
<1>5. ~Overlaps(Walls[i], v, a)
  <2>1. Overlaps(Walls[i], w, Other(a))
    BY <1>1, <1>2, <1>3 DEF Overlaps
  <2>2. QED BY <2>1, Intersecting
<1>6. ~Overlaps(Walls[j], v, a)
  <2>1. Overlaps(Walls[j], w, Other(a))
    BY <1>1, <1>2, <1>4 DEF Overlaps
  <2>2. QED BY <2>1, Intersecting
<1>7. ~Between(-Block, -Block + Block, v)
  BY <1>3, <1>5 DEF Overlaps
<1>8. ~Between(Long(a), Long(a) + Block, v)
  BY <1>4, <1>6 DEF Overlaps
<1> HIDE DEF v
<1>9. v \in Int /\ -Block <= v /\ v <= Long(a) - Body + Block
  BY DEF v
<1>10. v \in 0..(Long(a) - Body)
  BY <1>1, <1>7, <1>8, <1>9 DEF Between
<1>11. QED BY <1>10 DEF v

\* What is in the way of who has no other player in reach is a wall.
Alone(p, at) ==
    \A q \in Rivals(p) : ~Intersects(BodyAt(pos[q]), BodyAt(at))

LEMMA OnlyWalls ==
  ASSUME NEW p, NEW at, Alone(p, at)
  PROVE  /\ InTheWay(p, at) = {i \in DOMAIN Walls : Intersects(Walls[i], BodyAt(at))}
         /\ InTheWay(p, at) # {} =>
              \E i \in InTheWay(p, at) : FirstOf(InTheWay(p, at)) = Walls[i]
<1> DEFINE hits == InTheWay(p, at)
<1>1. ASSUME NEW i \in hits PROVE i \in DOMAIN Walls
  <2>1. i \in Solid(p) /\ Intersects(Collidables[i], BodyAt(at))
    BY DEF InTheWay
  <2>2. ASSUME NEW j \in DOMAIN Joined, Joined[j] \in Rivals(p), i = Len(Walls) + j
        PROVE  FALSE
    BY <2>1, <2>2, CollidablesAre DEF Alone
  <2>3. QED BY <2>1, <2>2 DEF Solid
<1>2. hits = {i \in DOMAIN Walls : Intersects(Walls[i], BodyAt(at))}
  <2>1. \A i \in DOMAIN Walls : i \in Solid(p) /\ Collidables[i] = Walls[i]
    BY CollidablesAre DEF Solid
  <2>2. \A i : i \in hits <=> i \in Solid(p) /\ Intersects(Collidables[i], BodyAt(at))
    BY DEF InTheWay
  <2> HIDE DEF hits
  <2>3. QED BY <1>1, <2>1, <2>2
<1>3. ASSUME hits # {} PROVE \E i \in hits : FirstOf(hits) = Walls[i]
  <2>1. hits \in SUBSET Nat
    BY <1>1, WallsOK
  <2> HIDE DEF hits
  <2>2. \E i \in hits : \A j \in hits : i <= j
    BY <1>3, <2>1, LeastExists
  <2> DEFINE first == CHOOSE i \in hits : \A j \in hits : i <= j
  <2>3. first \in hits
    BY <2>2
  <2>4. FirstOf(hits) = Collidables[first]
    BY DEF FirstOf
  <2> HIDE DEF first
  <2>5. QED BY <1>1, <2>3, <2>4, CollidablesAre
<1>4. QED BY <1>2, <1>3

\* A step along an axis ends free, neither backwards nor beyond what was asked.
LEMMA AlongKeeps ==
  ASSUME NEW p, NEW here \in Places, StandsFree(here), NEW a \in Axes,
         NEW d \in (-Block)..Block, Alone(p, [here EXCEPT ![a] = @ + d])
  PROVE  /\ Along(p, here, a, d) \in Places /\ StandsFree(Along(p, here, a, d))
         /\ Along(p, here, a, d)[Other(a)] = here[Other(a)]
         /\ GoesForwards(Along(p, here, a, d)[a] - here[a], d)
<1> DEFINE b == Other(a)
           h == here[a]
           there == [here EXCEPT ![a] = @ + d]
           hits == InTheWay(p, there)
           new == Along(p, here, a, d)
<1>1. /\ Block \in Nat \ {0} /\ Body \in 1..Block /\ b \in Axes /\ b # a
      /\ Long(a) \in Nat /\ Aligned(Long(a)) /\ Aligned(0)
      /\ \A c \in Axes : c = a \/ c = b
  BY FieldAssumption, LongIs DEF Axes, Other
<1>2. /\ h \in 0..(Long(a) - Body) /\ here[b] \in 0..(Long(b) - Body)
      /\ \A i \in DOMAIN Walls : ~Intersects(Walls[i], BodyAt(here))
  BY <1>1, StandingFree
<1>3. /\ there \in Places /\ there[a] = h + d /\ there[b] = here[b]
      /\ here \in Places /\ here[a] = h
  BY <1>1 DEF Places
<1>4. /\ hits = {i \in DOMAIN Walls : Intersects(Walls[i], BodyAt(there))}
      /\ hits # {} => \E i \in hits : FirstOf(hits) = Walls[i]
  BY OnlyWalls
<1>5. new = IF d = 0 THEN here ELSE IF hits = {} THEN there
            ELSE [there EXCEPT ![a] = NearSide(FirstOf(hits), a, d)]
  BY DEF Along
<1> HIDE DEF there, hits, new, b, h
<1>6. CASE d = 0
  <2>1. new = here /\ new[a] - h = 0
    BY <1>2, <1>3, <1>5, <1>6
  <2>2. GoesForwards(new[a] - h, d)
    BY <1>6, <2>1 DEF GoesForwards
  <2>3. QED BY <2>1, <2>2 DEF new, b, h
<1>7. CASE d # 0 /\ hits = {}
  <2>1. new = there
    BY <1>5, <1>7
  <2>2. \A i \in DOMAIN Walls : ~Intersects(Walls[i], BodyAt(there))
    BY <1>4, <1>7
  <2>3. there[a] \in Int /\ -Block <= there[a] /\ there[a] <= Long(a) - Body + Block
    BY <1>1, <1>2, <1>3
  <2>4. there[a] \in 0..(Long(a) - Body)
    BY <1>2, <1>3, <2>2, <2>3, NotOffTheMap DEF b
  <2>5. StandsFree(there)
    BY <1>1, <1>2, <1>3, <2>2, <2>4, StandingFree
  <2>6. GoesForwards(there[a] - h, d)
    <3>1. there[a] - h = d
      BY <1>2, <1>3
    <3>2. d \in 0..d \/ d \in d..0
      OBVIOUS
    <3>3. QED BY <3>1, <3>2 DEF GoesForwards
  <2>7. QED BY <1>3, <2>1, <2>5, <2>6 DEF new, b, h
<1>8. CASE d # 0 /\ hits # {}
  <2>1. PICK f \in DOMAIN Walls : Intersects(Walls[f], BodyAt(there)) /\ FirstOf(hits) = Walls[f]
    BY <1>4, <1>8
  <2> DEFINE l == Near(Walls[f], a)
             r == Far(Walls[f], a)
             v == new[a]
  <2>2. l \in Int /\ r \in Int /\ Aligned(l) /\ Aligned(r)
    BY WallEdges
  <2>3. v = (IF d > 0 THEN l - Body ELSE r) /\ new \in Places /\ new[b] = here[b]
    <3>1. new = [there EXCEPT ![a] = NearSide(Walls[f], a, d)]
      BY <1>5, <1>8, <2>1
    <3>2. NearSide(Walls[f], a, d) = IF d > 0 THEN l - Body ELSE r
      BY DEF NearSide, Near, Far
    <3> HIDE DEF l, r
    <3>3. (IF d > 0 THEN l - Body ELSE r) \in Int
      BY <1>1, <2>2
    <3>4. QED BY <1>1, <1>3, <3>1, <3>2, <3>3 DEF Places
  <2>4. ASSUME NEW i \in DOMAIN Walls, Overlaps(Walls[i], here[b], b)
        PROVE  ~Between(Near(Walls[i], a), Far(Walls[i], a), h)
    BY <1>2, <1>3, <2>4, Intersecting DEF Overlaps, b, h
  <2>5. Overlaps(Walls[f], here[b], b) /\ Between(l, r, h + d)
    BY <1>3, <2>1, Intersecting DEF Overlaps, b
  <2>6. ~Between(l, r, h)
    BY <2>4, <2>5
  <2> HIDE DEF l, r, v
  <2>7. /\ (h <= v /\ v <= h + d) \/ (h + d <= v /\ v <= h)
        /\ v \in 0..(Long(a) - Body)
        /\ \A i \in DOMAIN Walls :
              ~Between(Near(Walls[i], a), Far(Walls[i], a), h) =>
              ~Between(Near(Walls[i], a), Far(Walls[i], a), v)
    <3>1. CASE d > 0
      <4>1. d \in 1..Block /\ h \in Int /\ v = l - Body
        BY <1>2, <2>3, <3>1
      <4>2. /\ h <= v /\ v <= h + d
            /\ \A m, n \in Int : Aligned(m) /\ ~Between(m, n, h) => ~Between(m, n, v)
            /\ \A m \in Int : Aligned(m) /\ h + Body <= m => l <= m
        BY <2>2, <2>5, <2>6, <4>1, StopsForwards
      <4>3. h + Body <= Long(a) /\ Long(a) \in Int
        BY <1>1, <1>2
      <4>4. l <= Long(a)
        BY <1>1, <4>2, <4>3
      <4>5. v \in 0..(Long(a) - Body)
        BY <1>1, <1>2, <2>2, <4>1, <4>2, <4>4
      <4>6. QED BY <4>2, <4>5, WallEdges
    <3>2. CASE ~(d > 0)
      <4>1. d \in (-Block)..(-1) /\ h \in Int /\ v = r
        BY <1>1, <1>2, <1>8, <2>3, <3>2
      <4>2. /\ v <= h /\ h + d <= v
            /\ \A m, n \in Int : Aligned(n) /\ ~Between(m, n, h) => ~Between(m, n, v)
            /\ \A n \in Int : Aligned(n) /\ n <= h => n <= r
        BY <2>2, <2>5, <2>6, <4>1, StopsBackwards
      <4>3. 0 <= h /\ 0 \in Int
        BY <1>2
      <4>4. 0 <= r
        BY <1>1, <4>2, <4>3
      <4>5. v \in 0..(Long(a) - Body)
        BY <1>1, <1>2, <2>2, <4>1, <4>2, <4>4
      <4>6. QED BY <4>2, <4>5, WallEdges
    <3>3. QED BY <3>1, <3>2
  <2>8. \A i \in DOMAIN Walls : ~Intersects(Walls[i], BodyAt(new))
    <3>1. SUFFICES ASSUME NEW i \in DOMAIN Walls, Intersects(Walls[i], BodyAt(new))
                   PROVE  FALSE
      OBVIOUS
    <3>2. /\ Overlaps(Walls[i], here[b], b)
          /\ Between(Near(Walls[i], a), Far(Walls[i], a), v)
      BY <2>3, <3>1, Intersecting DEF Overlaps, b, v
    <3>3. QED BY <2>4, <2>7, <3>2
  <2>9. StandsFree(new)
    BY <1>1, <1>2, <2>3, <2>7, <2>8, StandingFree DEF v
  <2>10. GoesForwards(v - h, d)
    <3>1. v \in Int /\ h \in Int
      BY <1>2, <2>7
    <3>2. QED BY <2>7, <3>1 DEF GoesForwards
  <2>11. QED BY <2>3, <2>9, <2>10 DEF new, b, h, v
<1>9. QED BY <1>6, <1>7, <1>8

-----------------------------------------------------------------------------
(***************************************************************************)
(* A step: first along x, then along y.                                    *)
(***************************************************************************)
LEMMA LapseIs ==
  ASSUME lapse \in 0..MaxLapse
  PROVE  lapse * Speed \in 0..Block
<1>1. MaxLapse \in Nat /\ Speed \in Nat \ {0} /\ MaxLapse * Speed <= Block /\ Block \in Nat
  BY FieldAssumption
<1>2. lapse * Speed <= MaxLapse * Speed /\ lapse * Speed \in Nat /\ MaxLapse * Speed \in Nat
  BY <1>1
<1>3. QED BY <1>1, <1>2

LEMMA StepIs ==
  ASSUME NEW p, lapse \in 0..MaxLapse
  PROVE  LET s == lapse * Speed
         IN  StepOf(p).x \in (-s)..s /\ StepOf(p).y \in (-s)..s
<1> DEFINE s == lapse * Speed
<1>1. s \in Nat
  BY LapseIs, FieldAssumption
<1>2. Diagonal(s) \in 0..s
  BY <1>1, DiagonalIs
<1> DEFINE side(n) == Towards(p, "right", n) - Towards(p, "left", n)
           rise(n) == Towards(p, "down", n) - Towards(p, "up", n)
<1>3. ASSUME NEW n \in 0..s PROVE side(n) \in (-s)..s /\ rise(n) \in (-s)..s
  <2>1. \A d \in Directions : Towards(p, d, n) \in {0, n}
    BY DEF Towards
  <2>2. QED BY <1>1, <1>3, <2>1 DEF Directions
<1>4. StepOf(p) = IF side(s) # 0 /\ rise(s) # 0
                  THEN Point(side(Diagonal(s)), rise(Diagonal(s)))
                  ELSE Point(side(s), rise(s))
  BY DEF StepOf
<1>5. s \in 0..s
  BY <1>1
<1> HIDE DEF s, side, rise
<1>6. StepOf(p).x \in (-s)..s /\ StepOf(p).y \in (-s)..s
  BY <1>2, <1>3, <1>4, <1>5 DEF Point
<1>7. QED BY <1>6 DEF s

\* Who has nobody in reach meets nobody on its step.
LEMMA Reaching ==
  ASSUME NEW p, lapse \in 0..MaxLapse, pos \in [Players -> Places], p \in Players,
         alive \subseteq Players, NobodyInReach(p), NEW at \in Places,
         \A a \in Axes : /\ pos[p][a] - lapse * Speed <= at[a]
                         /\ at[a] <= pos[p][a] + lapse * Speed
  PROVE  Alone(p, at)
<1> DEFINE s == lapse * Speed
<1>1. s \in Nat /\ Body \in Nat \ {0}
  BY LapseIs, FieldAssumption
<1>2. SUFFICES ASSUME NEW q \in alive \ {p}, Intersects(BodyAt(pos[q]), BodyAt(at))
               PROVE  FALSE
  BY DEF Alone, Rivals
<1>3. /\ pos[q]["x"] \in Int /\ pos[q]["y"] \in Int /\ at["x"] \in Int /\ at["y"] \in Int
      /\ pos[p]["x"] \in Int /\ pos[p]["y"] \in Int
  BY DEF Places, Axes
<1>4. /\ pos[p]["x"] - s <= at["x"] /\ at["x"] <= pos[p]["x"] + s
      /\ pos[p]["y"] - s <= at["y"] /\ at["y"] <= pos[p]["y"] + s
  BY DEF Axes
<1>5. /\ pos[q]["x"] + Body > at["x"] /\ pos[q]["x"] < at["x"] + Body
      /\ pos[q]["y"] + Body > at["y"] /\ pos[q]["y"] < at["y"] + Body
  BY <1>2 DEF Intersects, BodyAt, Rect, Point
<1> HIDE DEF s
<1>6. /\ pos[p]["x"] - s + (Body + 2 * s) > pos[q]["x"]
      /\ pos[p]["x"] - s < pos[q]["x"] + Body
      /\ pos[p]["y"] - s + (Body + 2 * s) > pos[q]["y"]
      /\ pos[p]["y"] - s < pos[q]["y"] + Body
  BY <1>1, <1>3, <1>4, <1>5
<1>7. Intersects(Reach(p), BodyAt(pos[q]))
  BY <1>6 DEF Intersects, Reach, BodyAt, Rect, Point, s
<1>8. QED BY <1>7 DEF NobodyInReach

LEMMA StepKeeps ==
  ASSUME NEW p \in Players, lapse \in 0..MaxLapse, pos \in [Players -> Places],
         alive \subseteq Players, StandsFree(pos[p]), NobodyInReach(p)
  PROVE  /\ StandsFree(MakeStep(p)) /\ MakeStep(p) \in Places
         /\ \A a \in Axes : GoesForwards(MakeStep(p)[a] - pos[p][a], StepOf(p)[a])
<1> DEFINE s == lapse * Speed
           dx == StepOf(p).x
           dy == StepOf(p).y
           here == pos[p]
           half == Along(p, here, "x", dx)
           new == Along(p, half, "y", dy)
<1>1. MakeStep(p) = new
  BY DEF MakeStep
<1>2. dx \in (-s)..s /\ dy \in (-s)..s
  BY StepIs
<1>3. s \in 0..Block /\ Block \in Nat
  BY LapseIs, FieldAssumption
<1>4. here \in Places /\ "x" \in Axes /\ "y" \in Axes /\ \A a \in Axes : a = "x" \/ a = "y"
  BY DEF Axes
<1> HIDE DEF s, dx, dy, half, new
<1>5. dx \in (-Block)..Block /\ dy \in (-Block)..Block
  BY <1>2, <1>3
<1>6. here["x"] \in Int /\ here["y"] \in Int
  BY <1>4 DEF Places
<1>7. Alone(p, [here EXCEPT !["x"] = @ + dx])
  <2> DEFINE at == [here EXCEPT !["x"] = @ + dx]
  <2>1. at \in Places /\ at["x"] = here["x"] + dx /\ at["y"] = here["y"]
    BY <1>2, <1>4, <1>6 DEF Places, Axes
  <2> HIDE DEF at
  <2>2. /\ here["x"] - s <= at["x"] /\ at["x"] <= here["x"] + s
        /\ here["y"] - s <= at["y"] /\ at["y"] <= here["y"] + s
    BY <1>2, <1>3, <1>6, <2>1
  <2>3. \A a \in Axes : here[a] - lapse * Speed <= at[a] /\ at[a] <= here[a] + lapse * Speed
    BY <1>4, <2>2 DEF s
  <2>4. Alone(p, at)
    BY <2>1, <2>3, Reaching
  <2>5. QED BY <2>4 DEF at
<1>8. /\ half \in Places /\ StandsFree(half) /\ half["y"] = here["y"]
      /\ GoesForwards(half["x"] - here["x"], dx)
  BY <1>4, <1>5, <1>7, AlongKeeps DEF half, Other
<1>9. here["x"] - s <= half["x"] /\ half["x"] <= here["x"] + s /\ half["x"] \in Int
  <2>1. half["x"] \in Int
    BY <1>4, <1>8 DEF Places
  <2>2. half["x"] - here["x"] \in 0..dx \/ half["x"] - here["x"] \in dx..0
    BY <1>8 DEF GoesForwards
  <2>3. QED BY <1>2, <1>3, <1>6, <2>1, <2>2
<1>10. Alone(p, [half EXCEPT !["y"] = @ + dy])
  <2> DEFINE at == [half EXCEPT !["y"] = @ + dy]
  <2>1. at \in Places /\ at["x"] = half["x"] /\ at["y"] = here["y"] + dy
    BY <1>2, <1>6, <1>8 DEF Places, Axes
  <2> HIDE DEF at
  <2>2. /\ here["x"] - s <= at["x"] /\ at["x"] <= here["x"] + s
        /\ here["y"] - s <= at["y"] /\ at["y"] <= here["y"] + s
    BY <1>2, <1>3, <1>6, <1>9, <2>1
  <2>3. \A a \in Axes : here[a] - lapse * Speed <= at[a] /\ at[a] <= here[a] + lapse * Speed
    BY <1>4, <2>2 DEF s
  <2>4. Alone(p, at)
    BY <2>1, <2>3, Reaching
  <2>5. QED BY <2>4 DEF at
<1>11. /\ new \in Places /\ StandsFree(new) /\ new["x"] = half["x"]
       /\ GoesForwards(new["y"] - half["y"], dy)
  BY <1>4, <1>5, <1>8, <1>10, AlongKeeps DEF new, Other
<1>12. ASSUME NEW a \in Axes PROVE GoesForwards(new[a] - here[a], StepOf(p)[a])
  <2>1. StepOf(p)["x"] = dx /\ StepOf(p)["y"] = dy
    BY DEF dx, dy
  <2>2. QED BY <1>4, <1>8, <1>11, <2>1
<1>13. QED BY <1>1, <1>11, <1>12

-----------------------------------------------------------------------------
(***************************************************************************)
(* Types.                                                                  *)
(***************************************************************************)
LEMMA PointIs ==
  ASSUME NEW x \in Int, NEW y \in Int
  PROVE  Point(x, y) \in Places
BY DEF Point, Places, Axes

LEMMA AlongType ==
  ASSUME NEW p, pos \in [Players -> Places], alive \subseteq Players,
         NEW here \in Places, NEW a \in Axes, NEW d \in Int
  PROVE  Along(p, here, a, d) \in Places
<1> DEFINE there == [here EXCEPT ![a] = @ + d]
           hits == InTheWay(p, there)
<1>1. there \in Places
  BY DEF Places
<1>2. Along(p, here, a, d) = IF d = 0 THEN here ELSE IF hits = {} THEN there
                             ELSE [there EXCEPT ![a] = NearSide(FirstOf(hits), a, d)]
  BY DEF Along
<1>3. ASSUME hits # {} PROVE NearSide(FirstOf(hits), a, d) \in Int
  <2>1. hits \subseteq Solid(p)
    BY DEF InTheWay
  <2>2. \A i \in Solid(p) : i \in Nat
    <3>1. Joined \in Seq(Players)
      BY FieldAssumption
    <3>2. \A j \in DOMAIN Joined : j \in Nat
      BY <3>1
    <3>3. QED BY <3>2, WallsOK DEF Solid
  <2>3. hits \in SUBSET Nat
    BY <2>1, <2>2
  <2> HIDE DEF hits, there
  <2>4. \E i \in hits : \A j \in hits : i <= j
    BY <1>3, <2>3, LeastExists
  <2> DEFINE first == CHOOSE i \in hits : \A j \in hits : i <= j
  <2>5. first \in hits
    BY <2>4
  <2>6. FirstOf(hits) = Collidables[first]
    BY DEF FirstOf
  <2> HIDE DEF first
  <2>7. Body \in Int
    BY FieldAssumption
  <2>8. CASE first \in DOMAIN Walls
    <3>1. WallOK(Walls[first]) /\ FirstOf(hits) = Walls[first]
      BY <2>6, <2>8, WallsOK, CollidablesAre
    <3>2. Walls[first].at[a] \in Int /\ Walls[first].size[a] \in Int
      BY <3>1 DEF WallOK
    <3>3. QED BY <2>7, <3>1, <3>2 DEF NearSide
  <2>9. CASE first \notin DOMAIN Walls
    <3>1. PICK j \in DOMAIN Joined : first = Len(Walls) + j
      BY <2>1, <2>5, <2>9 DEF Solid
    <3>2. Joined[j] \in Players /\ FirstOf(hits) = BodyAt(pos[Joined[j]])
      BY <2>6, <3>1, CollidablesAre
    <3>3. pos[Joined[j]][a] \in Int
      BY <3>2 DEF Places
    <3>4. FirstOf(hits).at = pos[Joined[j]] /\ FirstOf(hits).size[a] = Body
      BY <3>2 DEF BodyAt, Rect, Point, Axes
    <3>5. QED BY <2>7, <3>3, <3>4 DEF NearSide
  <2>10. QED BY <2>8, <2>9
<1> HIDE DEF there, hits
<1>4. CASE d # 0 /\ hits # {}
  BY <1>1, <1>2, <1>3, <1>4 DEF Places
<1>5. QED BY <1>1, <1>2, <1>4

LEMMA MakeStepType ==
  ASSUME TypeOK, NEW p \in Players
  PROVE  MakeStep(p) \in Places
<1>1. /\ pos \in [Players -> Places] /\ alive \subseteq Players /\ lapse \in 0..MaxLapse
      /\ "x" \in Axes /\ "y" \in Axes
  BY DEF TypeOK, Places, Axes
<1>2. StepOf(p).x \in Int /\ StepOf(p).y \in Int
  <2> DEFINE s == lapse * Speed
  <2>1. s \in Int
    BY <1>1, LapseIs, FieldAssumption
  <2>2. StepOf(p).x \in (-s)..s /\ StepOf(p).y \in (-s)..s
    BY <1>1, StepIs
  <2>3. QED BY <2>1, <2>2
<1> DEFINE half == Along(p, pos[p], "x", StepOf(p).x)
<1>3. half \in Places
  BY <1>1, <1>2, AlongType
<1>4. MakeStep(p) = Along(p, half, "y", StepOf(p).y)
  BY DEF MakeStep
<1> HIDE DEF half
<1>5. QED BY <1>1, <1>2, <1>3, <1>4, AlongType

LEMMA InitType == Init => TypeOK
<1> SUFFICES ASSUME Init PROVE TypeOK
  OBVIOUS
<1>1. Outside \in Int /\ Last \in Nat \ {0} /\ MaxLapse \in Nat
  <2>1. ByName \in Seq(Players) /\ ByName # <<>>
    BY FieldAssumption
  <2>2. Len(ByName) \in Nat \ {0}
    BY <2>1
  <2>3. QED BY <2>2, FieldAssumption DEF Last
<1>2. pos \in [Players -> [Axes -> Int]]
  BY <1>1, PointIs DEF Init, Places
<1>3. QED BY <1>1, <1>2 DEF Init, TypeOK, Jobs

LEMMA StepType == TypeOK /\ [Next]_vars => TypeOK'
<1> SUFFICES ASSUME TypeOK, [Next]_vars PROVE TypeOK'
  OBVIOUS
<1>1. Last \in Nat \ {0} /\ turn \in 1..Last
  <2>1. ByName \in Seq(Players) /\ ByName # <<>>
    BY FieldAssumption
  <2>2. Len(ByName) \in Nat \ {0}
    BY <2>1
  <2>3. QED BY <2>2 DEF Last, TypeOK
<1>2. MaxLapse \in Nat /\ 0 \in 0..MaxLapse /\ 1 \in 1..Last
  BY <1>1, FieldAssumption
<1>3. NextTurn => job' \in Jobs \cup {job} /\ turn' \in 1..Last /\ lapse' \in 0..MaxLapse
  BY <1>1, <1>2 DEF NextTurn, Jobs, TypeOK
<1>4. ASSUME NEW swap \in BOOLEAN, BeginRound(swap) PROVE TypeOK'
  BY <1>2, <1>4 DEF BeginRound, TypeOK, OtherSide, Jobs
<1>5. ASSUME NEW d \in 1..MaxLapse, Update(d) PROVE TypeOK'
  BY <1>2, <1>5 DEF Update, TypeOK, Jobs
<1>6. ASSUME NEW p \in Players, NEW d \in Directions, Move(p, d) \/ StopMoving(p, d)
      PROVE  TypeOK'
  BY <1>6 DEF Move, StopMoving, TypeOK
<1>7. ASSUME NEW p \in Players, NEW at \in SpawnPositions(p), Spawn(p, at) PROVE TypeOK'
  <2>1. at \in Places
    <3>1. PICK cell \in [x : Int, y : Int] : at = SpawnPosition(cell)
      BY FieldAssumption DEF SpawnPositions, Spawns
    <3>2. Block \in Int /\ Body \in Int /\ (Block - Body) \div 2 \in Int
          /\ cell.x \in Int /\ cell.y \in Int
      BY FieldAssumption
    <3>3. CellAt(cell).x = cell.x * Block /\ CellAt(cell).y = cell.y * Block
      BY DEF CellAt, Point
    <3>4. cell.x * Block \in Int /\ cell.y * Block \in Int
      BY <3>2
    <3>5. QED BY <3>1, <3>2, <3>3, <3>4, PointIs DEF SpawnPosition
  <2>2. pos' \in [Players -> [Axes -> Int]]
    BY <1>7, <2>1 DEF Spawn, TypeOK, Places
  <2>3. job' \in Jobs /\ turn' \in 1..Last /\ lapse' \in 0..MaxLapse
    BY <1>3, <1>7 DEF Spawn, TypeOK
  <2>4. QED BY <1>7, <2>2, <2>3 DEF Spawn, TypeOK
<1>8. ASSUME NEW p \in Players, SkipDead(p) \/ StandStill(p) PROVE TypeOK'
  BY <1>3, <1>8 DEF SkipDead, StandStill, TypeOK
<1>9. ASSUME NEW p \in Players, MakesStep(p)
      PROVE  pos' \in [Players -> [Axes -> Int]] /\ onSite' \subseteq Players
  BY <1>9, MakeStepType DEF MakesStep, TypeOK, Places
<1>10. ASSUME NEW p \in Players, Walk(p) PROVE TypeOK'
  <2>1. pos' \in [Players -> [Axes -> Int]] /\ onSite' \subseteq Players
    BY <1>9, <1>10 DEF Walk
  <2>2. QED BY <1>3, <1>10, <2>1 DEF Walk, MakesStep, TypeOK
<1>11. ASSUME NEW p \in Players, NEW d \in Directions, ShootAtNothing(p, d) PROVE TypeOK'
  <2>1. pos' \in [Players -> [Axes -> Int]] /\ onSite' \subseteq Players
    BY <1>9, <1>11 DEF ShootAtNothing
  <2>2. QED BY <1>11, <2>1 DEF ShootAtNothing, MakesStep, TypeOK, Jobs
<1>12. CASE UNCHANGED vars
  BY <1>12 DEF vars, TypeOK
<1>13. CASE Next
  BY <1>4, <1>5, <1>6, <1>7, <1>8, <1>10, <1>11, <1>12, <1>13 DEF Next
<1>14. QED BY <1>12, <1>13

-----------------------------------------------------------------------------
(***************************************************************************)
(* Theorems.                                                               *)
(***************************************************************************)
\* Every player stands somewhere, and the game thread is at one of them:
\* whatever stops a step has edges, and NextTurn never goes past the last.
THEOREM TypeCorrect == Spec => []TypeOK
<1>1. QED BY InitType, StepType, PTL DEF Spec

\* Walls stop who walks alone, on any map: no wall is jumped over or entered,
\* though make_step_player looks at the first object in the way, not at the
\* nearest, because walls begin and end where cells do and a step is not
\* longer than a block.
THEOREM WalkersCorrect == Spec => WallsStopWalkers
<1>1. TypeOK /\ [Next]_vars =>
        [\A p \in Players : WalksAlone(p) =>
            /\ StandsFree(pos[p]')
            /\ \A a \in Axes :
                  GoesForwards(pos[p][a]' - pos[p][a], StepOf(p)[a])]_vars
  <2> SUFFICES ASSUME TypeOK, [Next]_vars, UNCHANGED vars \/ Next,
                      NEW p \in Players, WalksAlone(p)
               PROVE  /\ StandsFree(pos'[p])
                      /\ \A a \in Axes :
                            GoesForwards(pos'[p][a] - pos[p][a], StepOf(p)[a])
    OBVIOUS
  <2>1. job = "moving" /\ p = Now /\ StandsFree(pos[p]) /\ NobodyInReach(p)
    BY DEF WalksAlone
  <2>2. /\ pos \in [Players -> Places] /\ alive \subseteq Players /\ lapse \in 0..MaxLapse
    BY DEF TypeOK, Places
  <2>3. CASE pos' = pos
    <3>1. ASSUME NEW a \in Axes PROVE GoesForwards(pos'[p][a] - pos[p][a], StepOf(p)[a])
      <4>1. pos[p][a] \in Int
        BY <2>2 DEF Places
      <4>2. pos'[p][a] - pos[p][a] = 0
        BY <2>3, <4>1
      <4>3. StepOf(p)[a] \in Int
        <5> DEFINE s == lapse * Speed
        <5>1. s \in Int
          BY <2>2, LapseIs, FieldAssumption
        <5>2. StepOf(p).x \in (-s)..s /\ StepOf(p).y \in (-s)..s
          BY <2>2, StepIs
        <5>3. QED BY <5>1, <5>2 DEF Axes
      <4>4. QED BY <4>2, <4>3 DEF GoesForwards
    <3>2. QED BY <2>1, <2>3, <3>1
  <2>4. CASE MakesStep(p)
    <3>1. pos'[p] = MakeStep(p)
      BY <2>2, <2>4 DEF MakesStep
    <3>2. /\ StandsFree(MakeStep(p))
          /\ \A a \in Axes : GoesForwards(MakeStep(p)[a] - pos[p][a], StepOf(p)[a])
      BY <2>1, <2>2, StepKeeps
    <3>3. QED BY <3>1, <3>2
  <2>5. pos' = pos \/ MakesStep(p)
    <3>1. CASE UNCHANGED vars
      BY <3>1 DEF vars
    <3>2. CASE Next
      BY <2>1, <3>2 DEF Next, BeginRound, Update, Move, StopMoving, Spawn, SkipDead,
         StandStill, Walk, ShootAtNothing, MakesStep, vars
    <3>3. QED BY <3>1, <3>2
  <2>6. QED BY <2>3, <2>4, <2>5
<1>2. QED BY <1>1, TypeCorrect, PTL DEF Spec, WallsStopWalkers

=============================================================================
