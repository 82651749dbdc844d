--------------------------- MODULE GoalNav_proofs ---------------------------
(***************************************************************************)
(* What the planners of an instance promise, for every map, grid, goal,    *)
(* pose, spacing and weight: the path that is followed is sound            *)
(* (PathIsSound), and the plans are cheapest (SearchIsCheapest).           *)
(*                                                                         *)
(* The first part is about distances, which are square roots rounded down: *)
(* the rounded distance to a goal never falls by more than a step in any   *)
(* direction costs that costs its length or more (GuessIsConsistent), which*)
(* is what the search needs of its estimate.  Then follow densify_path, the*)
(* graph of a map and the grid as problems for the search                  *)
(* (Planning_proofs), and the inductive invariants NavInv and GridInv.     *)
(***************************************************************************)
EXTENDS MCGoalNav, Planning_proofs

-----------------------------------------------------------------------------
(* Distances on the grid, which are square roots rounded down.             *)

LEMMA ProductsGrow ==
    ASSUME NEW a \in Nat, NEW b \in Nat, NEW c \in Nat, a <= b
    PROVE  a * c <= b * c /\ c * a <= c * b /\ a * c \in Nat /\ b * c \in Nat
    OBVIOUS

LEMMA SquaresKeepOrder ==
    ASSUME NEW a \in Nat, NEW b \in Nat, a <= b
    PROVE  a * a <= b * b
<1>1. a * a <= a * b /\ a * b <= b * b
    BY ProductsGrow
<1>2. a * a \in Nat /\ a * b \in Nat /\ b * b \in Nat
    BY ProductsGrow
<1> QED
    BY <1>1, <1>2

LEMMA RootsKeepOrder ==
    ASSUME NEW a \in Nat, NEW b \in Nat, a * a < b * b
    PROVE  a < b
<1>1. ASSUME b <= a PROVE FALSE
  <2>1. b * b <= a * b /\ a * b <= a * a
      BY <1>1, ProductsGrow
  <2>2. b * b \in Nat /\ a * b \in Nat /\ a * a \in Nat
      BY ProductsGrow
  <2> QED
      BY <2>1, <2>2
<1> QED
    BY <1>1

(* k is the square root of n, rounded down.                                *)
IsRoot(k, n) == k \in Nat /\ k * k <= n /\ n < (k + 1) * (k + 1)

LEMMA OneRoot ==
    ASSUME NEW n \in Nat, NEW j, NEW k, IsRoot(j, n), IsRoot(k, n)
    PROVE  j = k
<1>1. j \in Nat /\ k \in Nat /\ j * j \in Nat /\ k * k \in Nat
      /\ (j + 1) * (j + 1) \in Nat /\ (k + 1) * (k + 1) \in Nat
    BY ProductsGrow DEF IsRoot
<1>2. j * j < (k + 1) * (k + 1) /\ k * k < (j + 1) * (j + 1)
    BY <1>1 DEF IsRoot
<1>3. j < k + 1 /\ k < j + 1
    BY <1>1, <1>2, RootsKeepOrder
<1> QED
    BY <1>1, <1>3

LEMMA RootExists ==
    ASSUME NEW n \in Nat, NEW top \in Nat, n <= top * top
    PROVE  \E k \in 0 .. top : IsRoot(k, n)
<1> DEFINE T == {m \in Nat : n < (m + 1) * (m + 1)}
<1>1. (top + 1) * (top + 1) = top * top + 2 * top + 1
    OBVIOUS
<1>2. top * top \in Nat /\ 2 * top \in Nat
    BY ProductsGrow
<1>3. top \in T
    BY <1>1, <1>2
<1>4. PICK m \in T : \A l \in T : m <= l
    BY <1>3, LeastNat
<1>5. m \in 0 .. top
    BY <1>3, <1>4
<1>6. m * m <= n
  <2>1. CASE m = 0
      BY <2>1
  <2>2. CASE m # 0
    <3>1. m - 1 \in Nat /\ (m - 1) + 1 = m
        BY <2>2
    <3>2. m - 1 \notin T
        BY <1>4, <3>1
    <3>3. ~(n < m * m)
        BY <3>1, <3>2
    <3>4. m * m \in Nat
        BY ProductsGrow
    <3> QED
        BY <3>3, <3>4
  <2> QED
      BY <2>1, <2>2
<1> QED
    BY <1>5, <1>6 DEF IsRoot

LEMMA SizeIsNat ==
    ASSUME NEW t \in Int
    PROVE  /\ Size(t) \in Nat /\ (Size(t) = t \/ Size(t) = -t)
           /\ t <= Size(t) /\ -t <= Size(t) /\ Size(0) = 0
    BY DEF Size

LEMMA SizeSquared ==
    ASSUME NEW t \in Int
    PROVE  Size(t) * Size(t) = t * t /\ t * t \in Nat
<1>1. CASE t < 0
  <2>1. (-t) * (-t) = t * t /\ -t \in Nat
      BY <1>1
  <2> QED
      BY <1>1, <2>1, ProductsGrow DEF Size
<1>2. CASE ~(t < 0)
    BY <1>2, ProductsGrow DEF Size
<1> QED
    BY <1>1, <1>2

IsPoint(a) == a.x \in Int /\ a.y \in Int

OnAxis(a, b) == a.x = b.x \/ a.y = b.y

LEMMA SpanIsNat ==
    ASSUME NEW a, NEW b, IsPoint(a), IsPoint(b)
    PROVE  /\ Span(a, b) \in Nat
           /\ Span(a, b) = 100 * ((b.x - a.x) * (b.x - a.x) + (b.y - a.y) * (b.y - a.y))
<1> DEFINE dx == b.x - a.x
           dy == b.y - a.y
<1>1. dx \in Int /\ dy \in Int
    BY DEF IsPoint
<1>2. Span(a, b) = 100 * (dx * dx + dy * dy)
    BY DEF Span
<1> HIDE DEF dx, dy
<1>3. dx * dx \in Nat /\ dy * dy \in Nat
    BY <1>1, SizeSquared
<1>4. Span(a, b) \in Nat
    BY <1>2, <1>3
<1> QED
    BY <1>2, <1>4 DEF dx, dy

LEMMA DistanceIsRoot ==
    ASSUME NEW a, NEW b, IsPoint(a), IsPoint(b)
    PROVE  IsRoot(Distance(a, b), Span(a, b))
<1> DEFINE dx == b.x - a.x
           dy == b.y - a.y
           i == Size(dx)
           j == Size(dy)
           top == 10 * (i + j)
<1>1. dx \in Int /\ dy \in Int
    BY DEF IsPoint
<1>2. Span(a, b) = 100 * (dx * dx + dy * dy) /\ Span(a, b) \in Nat
    BY SpanIsNat
<1> HIDE DEF dx, dy
<1>3. i \in Nat /\ j \in Nat /\ i * i = dx * dx /\ j * j = dy * dy
    BY <1>1, SizeIsNat, SizeSquared
<1> HIDE DEF i, j
<1>4. i * i \in Nat /\ j * j \in Nat /\ i * j \in Nat
    BY <1>3, ProductsGrow
<1>5. top \in Nat /\ top * top = 100 * (i * i) + 100 * (j * j) + 200 * (i * j)
    BY <1>3
<1>6. Span(a, b) <= top * top
    BY <1>2, <1>3, <1>4, <1>5
<1>7. PICK k \in 0 .. top : IsRoot(k, Span(a, b))
    BY <1>2, <1>5, <1>6, RootExists
<1>8. \A l \in 0 .. top : IsRoot(l, Span(a, b)) <=>
         l * l <= Span(a, b) /\ Span(a, b) < (l + 1) * (l + 1)
    BY <1>5 DEF IsRoot
<1>9. Distance(a, b) = CHOOSE l \in 0 .. top :
         l * l <= Span(a, b) /\ Span(a, b) < (l + 1) * (l + 1)
    BY DEF Distance, top, i, j, dx, dy
<1> HIDE DEF top
<1> QED
    BY <1>7, <1>8, <1>9

LEMMA DistanceIs ==
    ASSUME NEW a, NEW b, IsPoint(a), IsPoint(b), NEW k, IsRoot(k, Span(a, b))
    PROVE  Distance(a, b) = k
    BY DistanceIsRoot, OneRoot, SpanIsNat

LEMMA NoDistance ==
    ASSUME NEW z, IsPoint(z)
    PROVE  Distance(z, z) = 0
<1>1. z.x - z.x = 0 /\ z.y - z.y = 0
    BY DEF IsPoint
<1>2. Span(z, z) = 0
    BY <1>1, SpanIsNat
<1>3. IsRoot(0, Span(z, z))
    BY <1>2 DEF IsRoot
<1> QED
    BY <1>3, DistanceIs

LEMMA SquareOfSum ==
    ASSUME NEW a \in Int, NEW t \in Int
    PROVE  (a + t) * (a + t) = a * a + 2 * (a * t) + t * t
    OBVIOUS

(* The product of two vectors is at most that of their lengths.            *)
LEMMA ProductOfVectors ==
    ASSUME NEW a \in Int, NEW b \in Int, NEW t \in Int, NEW r \in Int
    PROVE  (a * t + b * r) * (a * t + b * r) <= (a * a + b * b) * (t * t + r * r)
<1> DEFINE w == a * t
           x == b * r
           y == a * r
           z == b * t
<1>1. w \in Int /\ x \in Int /\ y \in Int /\ z \in Int /\ w * x = y * z
    OBVIOUS
<1>2. (a * a + b * b) * (t * t + r * r) = w * w + x * x + y * y + z * z
    OBVIOUS
<1> HIDE DEF w, x, y, z
<1>3. (w + x) * (w + x) = w * w + 2 * (w * x) + x * x
      /\ (y - z) * (y - z) = y * y - 2 * (y * z) + z * z
    BY <1>1
<1>4. (y - z) * (y - z) \in Nat
    BY <1>1, SizeSquared
<1>5. w * w \in Int /\ x * x \in Int /\ y * y \in Int /\ z * z \in Int
      /\ w * x \in Int /\ y * z \in Int
    BY <1>1
<1>6. (w + x) * (w + x) <= w * w + x * x + y * y + z * z
    BY <1>1, <1>3, <1>4, <1>5
<1> QED
    BY <1>2, <1>6 DEF w, x

(* The rounded length of a way with a detour of length c is at most c      *)
(* longer.                                                                 *)
LEMMA RootsOfSum ==
    ASSUME NEW a \in Int, NEW b \in Int, NEW t \in Int, NEW r \in Int,
           NEW j \in Nat, NEW k \in Nat, NEW c \in Nat,
           j * j <= 100 * ((a + t) * (a + t) + (b + r) * (b + r)),
           100 * (a * a + b * b) < (k + 1) * (k + 1),
           100 * (t * t + r * r) <= c * c
    PROVE  j <= c + k
<1> DEFINE m == k + 1
           A == a * a + b * b
           T == t * t + r * r
           v == a * t
           w == b * r
           P == v + w
           U == m * c
           M == m * m
           C == c * c
<1>1. a * a \in Nat /\ b * b \in Nat /\ t * t \in Nat /\ r * r \in Nat
    BY SizeSquared
<1>2. v \in Int /\ w \in Int /\ m \in Nat
    OBVIOUS
<1>3. A \in Nat /\ T \in Nat /\ P \in Int
    BY <1>1, <1>2
<1>4. (a + t) * (a + t) + (b + r) * (b + r) = A + 2 * P + T
  <2>1. (a + t) * (a + t) = a * a + 2 * v + t * t
      BY SquareOfSum
  <2>2. (b + r) * (b + r) = b * b + 2 * w + r * r
      BY SquareOfSum
  <2> HIDE DEF v, w
  <2> QED
      BY <1>1, <1>2, <2>1, <2>2
<1>5. P * P <= A * T
    BY ProductOfVectors
<1>6. j * j <= 100 * (A + 2 * P + T) /\ 100 * A < M /\ 100 * T <= C
    BY <1>4
<1> HIDE DEF A, T, P
<1>7. U \in Nat /\ M \in Nat /\ C \in Nat /\ j * j \in Nat
    BY <1>2, ProductsGrow
<1>8. 100 * P <= U
  <2>1. CASE P <= 0
      BY <1>3, <1>7, <2>1
  <2>2. CASE P > 0
    <3>1. (100 * P) * (100 * P) = 10000 * (P * P) /\ P * P \in Nat /\ A * T \in Nat
        BY <1>3, SizeSquared, ProductsGrow
    <3>2. (100 * A) * (100 * T) = 10000 * (A * T)
        BY <1>3
    <3>3. (100 * A) * (100 * T) <= M * C
      <4>1. (100 * A) * (100 * T) <= M * (100 * T)
          BY <1>3, <1>6, <1>7, ProductsGrow
      <4>2. M * (100 * T) <= M * C
          BY <1>3, <1>6, <1>7, ProductsGrow
      <4>3. (100 * A) * (100 * T) \in Nat /\ M * (100 * T) \in Nat /\ M * C \in Nat
          BY <1>3, <1>7, ProductsGrow
      <4> QED
          BY <4>1, <4>2, <4>3
    <3>4. M * C = U * U
        BY <1>2
    <3>5. U * U \in Nat /\ M * C \in Nat
        BY <1>7, ProductsGrow
    <3>6. (100 * P) * (100 * P) <= U * U
        BY <1>5, <3>1, <3>2, <3>3, <3>4, <3>5
    <3>7. 100 * P \in Nat /\ U + 1 \in Nat /\ (U + 1) * (U + 1) = U * U + 2 * U + 1
        BY <1>3, <1>7, <2>2
    <3>8. (100 * P) * (100 * P) < (U + 1) * (U + 1)
        BY <1>7, <3>1, <3>5, <3>6, <3>7
    <3>9. 100 * P < U + 1
        BY <3>7, <3>8, RootsKeepOrder
    <3> QED
        BY <1>3, <1>7, <3>9
  <2> QED
      BY <1>3, <2>1, <2>2
<1>9. (c + m) * (c + m) = C + 2 * U + M
    BY <1>2
<1> HIDE DEF U, M, C
<1>10. j * j < (c + m) * (c + m)
    BY <1>3, <1>6, <1>7, <1>8, <1>9
<1>11. j < c + m
    BY <1>2, <1>10, RootsKeepOrder
<1> QED
    BY <1>2, <1>11 DEF m

(* The straight-line guess is consistent with steps in any direction that  *)
(* cost their length or more, although it is rounded down.                 *)
LEMMA GuessIsConsistent ==
    ASSUME NEW u, NEW v, NEW g, IsPoint(u), IsPoint(v), IsPoint(g),
           NEW c \in Nat, Span(u, v) <= c * c
    PROVE  Distance(u, g) <= c + Distance(v, g)
<1> DEFINE j == Distance(u, g)
           k == Distance(v, g)
           a == g.x - v.x
           b == g.y - v.y
           t == v.x - u.x
           r == v.y - u.y
<1>1. /\ j \in Nat /\ j * j <= Span(u, g)
      /\ k \in Nat /\ Span(v, g) < (k + 1) * (k + 1)
    BY DistanceIsRoot DEF IsRoot
<1>2. /\ Span(u, g) = 100 * ((g.x - u.x) * (g.x - u.x) + (g.y - u.y) * (g.y - u.y))
      /\ Span(v, g) = 100 * (a * a + b * b)
      /\ Span(u, v) = 100 * (t * t + r * r)
    BY SpanIsNat
<1>3. /\ a \in Int /\ b \in Int /\ t \in Int /\ r \in Int
      /\ g.x - u.x = a + t /\ g.y - u.y = b + r
    BY DEF IsPoint
<1> HIDE DEF a, b, t, r, j, k
<1>4. j * j <= 100 * ((a + t) * (a + t) + (b + r) * (b + r))
    BY <1>1, <1>2, <1>3
<1>5. 100 * (a * a + b * b) < (k + 1) * (k + 1)
    BY <1>1, <1>2
<1>6. 100 * (t * t + r * r) <= c * c
    BY <1>2
<1>7. j \in Nat /\ k \in Nat /\ a \in Int /\ b \in Int /\ t \in Int /\ r \in Int
    BY <1>1, <1>3
<1>8. j <= c + k
    BY <1>4, <1>5, <1>6, <1>7, RootsOfSum, Zenon
<1> QED
    BY <1>8 DEF j, k

(* What LengthOf rounds up is no less than the way along either axis.      *)
LEMMA LengthIs ==
    ASSUME NEW a, NEW b, IsPoint(a), IsPoint(b)
    PROVE  /\ LengthOf(a, b) \in Nat /\ Span(a, b) <= LengthOf(a, b) * LengthOf(a, b)
           /\ 10 * Size(b.x - a.x) <= LengthOf(a, b)
           /\ 10 * Size(b.y - a.y) <= LengthOf(a, b)
<1> DEFINE n == LengthOf(a, b)
           k == Distance(a, b)
           dx == b.x - a.x
           dy == b.y - a.y
<1>1. k \in Nat /\ k * k <= Span(a, b) /\ Span(a, b) < (k + 1) * (k + 1)
    BY DistanceIsRoot DEF IsRoot
<1>2. n = IF k * k = Span(a, b) THEN k ELSE k + 1
    BY DEF LengthOf
<1>3. dx \in Int /\ dy \in Int
    BY DEF IsPoint
<1>4. Span(a, b) = 100 * (dx * dx + dy * dy) /\ Span(a, b) \in Nat
    BY SpanIsNat
<1> HIDE DEF n, k, dx, dy
<1>5. n \in Nat /\ k * k \in Nat /\ (k + 1) * (k + 1) \in Nat /\ Span(a, b) <= n * n
  <2>1. k * k \in Nat /\ (k + 1) * (k + 1) \in Nat
      BY <1>1, ProductsGrow
  <2> QED
      BY <1>1, <1>2, <1>4, <2>1
<1>6. ASSUME NEW d \in Int, 100 * (d * d) <= Span(a, b) PROVE 10 * Size(d) <= n
  <2> DEFINE i == Size(d)
  <2>1. i \in Nat /\ i * i = d * d
      BY SizeIsNat, SizeSquared
  <2> HIDE DEF i
  <2>2. (10 * i) * (10 * i) = 100 * (i * i) /\ i * i \in Nat /\ n * n \in Nat
      BY <1>5, <2>1, ProductsGrow
  <2>3. (n + 1) * (n + 1) = n * n + 2 * n + 1
      BY <1>5
  <2>4. (10 * i) * (10 * i) < (n + 1) * (n + 1)
      BY <1>4, <1>5, <1>6, <2>1, <2>2, <2>3
  <2>5. 10 * i < n + 1
      BY <1>5, <2>1, <2>4, RootsKeepOrder
  <2> QED
      BY <1>5, <2>1, <2>5 DEF i
<1>7. dx * dx \in Nat /\ dy * dy \in Nat
    BY <1>3, SizeSquared
<1>8. 10 * Size(dx) <= n /\ 10 * Size(dy) <= n
    BY <1>3, <1>4, <1>6, <1>7
<1> QED
    BY <1>5, <1>8 DEF n, dx, dy

-----------------------------------------------------------------------------
(* densify_path.                                                           *)

LEMMA DivBounds ==
    ASSUME NEW a \in Int, NEW n \in Nat, n > 0
    PROVE  a \div n \in Int /\ n * (a \div n) <= a /\ a < n * (a \div n) + n
    OBVIOUS

LEMMA DivIs ==
    ASSUME NEW q \in Int, NEW n \in Nat, n > 0
    PROVE  (q * n) \div n = q /\ (q * 0) \div n = 0
<1> DEFINE a == q * n
           d == a \div n
<1>1. a \in Int /\ d \in Int /\ n * d <= a /\ a < n * d + n
    BY DivBounds
<1>2. n * d <= n * q /\ n * q < n * (d + 1)
    BY <1>1
<1> HIDE DEF a, d
<1>3. d <= q /\ q < d + 1
  <2>1. ASSUME d > q PROVE FALSE
    <3>1. n * d >= n * (q + 1) /\ n * (q + 1) = n * q + n
        BY <1>1, <2>1
    <3> QED
        BY <1>1, <1>2, <3>1
  <2>2. ASSUME q >= d + 1 PROVE FALSE
    <3>1. n * q >= n * (d + 1)
        BY <1>1, <2>2
    <3> QED
        BY <1>1, <1>2, <3>1
  <2> QED
      BY <1>1, <2>1, <2>2
<1>4. d = q
    BY <1>1, <1>3
<1>5. q * 0 = 0 /\ 0 \div n = 0
    OBVIOUS
<1> QED
    BY <1>4, <1>5 DEF d, a

(* A coordinate moves by no more than w at a step, if w times the number   *)
(* of steps is enough for the whole way.                                   *)
LEMMA StepWidth ==
    ASSUME NEW l \in Int, NEW n \in Nat, n > 0, NEW w \in Nat, Size(l) <= n * w,
           NEW i \in Nat
    PROVE  /\ (l * i) \div n \in Int /\ (l * (i + 1)) \div n \in Int
           /\ Size((l * (i + 1)) \div n - (l * i) \div n) <= w
<1> DEFINE c == (l * i) \div n
           d == (l * (i + 1)) \div n
           m == l * i
<1>1. l * (i + 1) = m + l /\ m \in Int
    OBVIOUS
<1>2. c \in Int /\ n * c <= m /\ m < n * c + n
    BY <1>1, DivBounds
<1>3. d \in Int /\ n * d <= m + l /\ m + l < n * d + n
    BY <1>1, DivBounds
<1>4. -(n * w) <= l /\ l <= n * w /\ n * w \in Nat
    BY SizeIsNat, ProductsGrow
<1> HIDE DEF c, d, m
<1>5. n * (d - c) = n * d - n * c /\ n * (w + 1) = n * w + n /\ n * (c - d) = n * c - n * d
    BY <1>2, <1>3
<1>6. n * (d - c) < n * (w + 1) /\ n * (c - d) < n * (w + 1)
  <2> DEFINE e == n * d
             f == n * c
             g == n * w
  <2>1. e \in Int /\ f \in Int /\ g \in Int
      BY <1>2, <1>3
  <2>2. f <= m /\ m < f + n /\ e <= m + l /\ m + l < e + n /\ -g <= l /\ l <= g
      BY <1>2, <1>3, <1>4
  <2> HIDE DEF e, f, g
  <2>3. e - f < g + n /\ f - e < g + n
      BY <1>1, <2>1, <2>2
  <2> QED
      BY <1>5, <2>3 DEF e, f, g
<1>7. ASSUME NEW z \in Int, n * z < n * (w + 1) PROVE z <= w
  <2>1. ASSUME z >= w + 1 PROVE FALSE
    <3>1. n * z >= n * (w + 1)
        BY <2>1, ProductsGrow
    <3> QED
        BY <1>7, <3>1
  <2> QED
      BY <2>1
<1>8. d - c <= w /\ c - d <= w
    BY <1>2, <1>3, <1>6, <1>7
<1>9. Size(d - c) <= w
    BY <1>2, <1>3, <1>8 DEF Size
<1> QED
    BY <1>2, <1>3, <1>9 DEF c, d

NoGaps(q) ==
    /\ q \in Seq(Points) /\ Len(q) > 0
    /\ \A i \in 1 .. Len(q) - 1 : Near(q[i], q[i + 1])

LEMMA PointsArePoints ==
    ASSUME NEW a \in Points
    PROVE  IsPoint(a) /\ a = [x |-> a.x, y |-> a.y]
    BY DEF Points, IsPoint

LEMMA SegmentHasNoGaps ==
    ASSUME Spacing \in Nat \ {0}, NEW a \in Points, NEW b \in Points
    PROVE  /\ NoGaps(Segment(a, b)) /\ Near(a, Segment(a, b)[1])
           /\ Segment(a, b)[Len(Segment(a, b))] = b
<1> DEFINE l == b.x - a.x
           k == b.y - a.y
           dist == LengthOf(a, b)
           w == 10 * Spacing
           q == CeilDiv(dist, w)
           n == Max({1, q})
           at == [i \in 0 .. n |-> [x |-> a.x + (l * i) \div n, y |-> a.y + (k * i) \div n]]
           s == Segment(a, b)
<1>1. IsPoint(a) /\ IsPoint(b) /\ a.x \in Int /\ a.y \in Int /\ b.x \in Int /\ b.y \in Int
      /\ l \in Int /\ k \in Int /\ a = [x |-> a.x, y |-> a.y] /\ b = [x |-> b.x, y |-> b.y]
    BY PointsArePoints DEF IsPoint
<1>2. Size(l) \in Nat /\ Size(k) \in Nat
    BY <1>1, SizeIsNat
<1>3. dist \in Nat /\ 10 * Size(l) <= dist /\ 10 * Size(k) <= dist
    BY <1>1, LengthIs
<1>4. s = [i \in 1 .. n |-> [x |-> a.x + (l * i) \div n, y |-> a.y + (k * i) \div n]]
    BY DEF Segment
<1> HIDE DEF l, k, dist, s
<1>5. w \in Nat /\ w > 0 /\ dist \in Nat
    BY <1>3
<1>6. q \in Nat /\ dist <= w * q
  <2> DEFINE t == dist + w - 1
  <2>1. t \in Int /\ t >= 0 /\ q = t \div w
      BY <1>5 DEF CeilDiv
  <2> HIDE DEF t, w
  <2>2. q \in Int /\ w * q <= t /\ t < w * q + w
      BY <1>5, <2>1, DivBounds
  <2>3. dist <= w * q
      BY <1>5, <2>2 DEF t
  <2>4. q >= 0
    <3>1. ASSUME q < 0 PROVE FALSE
      <4>1. w * (q + 1) <= 0 /\ w * (q + 1) = w * q + w
          BY <1>5, <2>2, <3>1
      <4> QED
          BY <1>5, <2>1, <2>2, <4>1
    <3> QED
        BY <2>2, <3>1
  <2> QED
      BY <2>2, <2>3, <2>4
<1> HIDE DEF q
<1>7. n \in Nat /\ n > 0 /\ q <= n
  <2>1. \A m \in {1, q} : m <= q + 1
      BY <1>6
  <2>2. Max({1, q}) \in {1, q} /\ \A m \in {1, q} : Max({1, q}) >= m
    <3>1. {1, q} \subseteq Nat /\ {1, q} # {} /\ q + 1 \in Nat
        BY <1>6
    <3> QED
        BY <2>1, <3>1, MaxIsGreatest
  <2> QED
      BY <1>6, <2>2
<1> HIDE DEF n
<1>8. Size(l) <= n * Spacing /\ Size(k) <= n * Spacing
  <2>1. w * q <= w * n /\ w * n = 10 * (n * Spacing) /\ n * Spacing \in Nat
      BY <1>5, <1>6, <1>7, ProductsGrow
  <2>2. 10 * Size(l) <= 10 * (n * Spacing) /\ 10 * Size(k) <= 10 * (n * Spacing)
      BY <1>2, <1>3, <1>5, <1>6, <2>1
  <2> QED
      BY <1>2, <2>1, <2>2
<1>9. ASSUME NEW i \in 0 .. n - 1
      PROVE  /\ at[i] \in Points /\ at[i + 1] \in Points
             /\ Near(at[i], at[i + 1])
  <2> DEFINE c == (l * i) \div n
             d == (l * (i + 1)) \div n
             e == (k * i) \div n
             f == (k * (i + 1)) \div n
  <2>1. c \in Int /\ d \in Int /\ Size(d - c) <= Spacing
      BY <1>1, <1>7, <1>8, StepWidth
  <2>2. e \in Int /\ f \in Int /\ Size(f - e) <= Spacing
      BY <1>1, <1>7, <1>8, StepWidth
  <2>3. i \in 0 .. n /\ i + 1 \in 0 .. n
      BY <1>7
  <2>4. at[i] = [x |-> a.x + c, y |-> a.y + e] /\ at[i + 1] = [x |-> a.x + d, y |-> a.y + f]
      BY <2>3
  <2> HIDE DEF at, c, d, e, f
  <2>7. at[i] \in Points /\ at[i + 1] \in Points
      BY <1>1, <2>1, <2>2, <2>4 DEF Points
  <2>8. at[i].x = a.x + c /\ at[i].y = a.y + e /\ at[i + 1].x = a.x + d /\ at[i + 1].y = a.y + f
      BY <2>4
  <2>9. at[i + 1].x - at[i].x = d - c /\ at[i + 1].y - at[i].y = f - e
      BY <1>1, <2>1, <2>2, <2>8
  <2> QED
      BY <2>1, <2>2, <2>7, <2>9 DEF Near
<1>10. at[0] = a /\ at[n] = b
  <2>1. 0 \in 0 .. n /\ n \in 0 .. n
      BY <1>7
  <2>2. (l * n) \div n = l /\ (k * n) \div n = k /\ (l * 0) \div n = 0 /\ (k * 0) \div n = 0
      BY <1>1, <1>7, DivIs
  <2>3. at[0] = [x |-> a.x + 0, y |-> a.y + 0] /\ at[n] = [x |-> a.x + l, y |-> a.y + k]
      BY <2>1, <2>2
  <2>4. a.x + l = b.x /\ a.y + k = b.y /\ a.x + 0 = a.x /\ a.y + 0 = a.y
      BY <1>1 DEF l, k
  <2> HIDE DEF at
  <2> QED
      BY <1>1, <2>3, <2>4
<1>11. \A i \in 1 .. n : s[i] = at[i]
    BY <1>4, <1>7
<1>12. Len(s) = n /\ DOMAIN s = 1 .. n
    BY <1>4, <1>7
<1> HIDE DEF at
<1>13. \A i \in 1 .. n : s[i] \in Points
  <2> TAKE i \in 1 .. n
  <2>1. i - 1 \in 0 .. n - 1 /\ (i - 1) + 1 = i
      BY <1>7
  <2> QED
      BY <1>9, <1>11, <2>1
<1>14. s \in Seq(Points)
    BY <1>4, <1>7, <1>13
<1>15. \A i \in 1 .. n - 1 : Near(s[i], s[i + 1])
  <2> TAKE i \in 1 .. n - 1
  <2>1. i \in 0 .. n - 1 /\ i \in 1 .. n /\ i + 1 \in 1 .. n
      BY <1>7
  <2> QED
      BY <1>9, <1>11, <2>1
<1>16. NoGaps(s)
    BY <1>7, <1>12, <1>14, <1>15 DEF NoGaps
<1>17. Near(a, s[1]) /\ s[n] = b
  <2>1. 0 \in 0 .. n - 1 /\ 0 + 1 = 1 /\ 1 \in 1 .. n /\ n \in 1 .. n
      BY <1>7
  <2> QED
      BY <1>9, <1>10, <1>11, <2>1
<1> QED
    BY <1>12, <1>16, <1>17 DEF s

LEMMA JoinedWithoutGaps ==
    ASSUME NEW p, NEW s, NoGaps(p), NoGaps(s), Near(p[Len(p)], s[1])
    PROVE  /\ NoGaps(p \o s) /\ (p \o s)[1] = p[1]
           /\ (p \o s)[Len(p \o s)] = s[Len(s)]
<1> DEFINE r == p \o s
           m == Len(p)
           n == Len(s)
<1>1. p \in Seq(Points) /\ s \in Seq(Points) /\ m \in Nat /\ n \in Nat /\ m > 0 /\ n > 0
    BY DEF NoGaps
<1>2. r \in Seq(Points) /\ Len(r) = m + n
    BY <1>1
<1>3. \A i \in 1 .. m : r[i] = p[i]
    BY <1>1
<1>4. \A i \in 1 .. n : r[m + i] = s[i]
  <2> TAKE i \in 1 .. n
  <2>1. m + i \in 1 .. m + n /\ ~(m + i <= m) /\ (m + i) - m = i
      BY <1>1
  <2> QED
      BY <1>1, <2>1
<1> HIDE DEF r, m, n
<1>5. ASSUME NEW i \in 1 .. Len(r) - 1 PROVE Near(r[i], r[i + 1])
  <2>1. i \in Nat /\ i >= 1 /\ i < m + n
      BY <1>1, <1>2
  <2>2. CASE i < m
    <3>1. i \in 1 .. m /\ i + 1 \in 1 .. m /\ i \in 1 .. m - 1
        BY <1>1, <2>1, <2>2
    <3>2. Near(p[i], p[i + 1])
        BY <3>1 DEF NoGaps, m
    <3> QED
        BY <1>3, <3>1, <3>2
  <2>3. CASE i = m
    <3>1. m \in 1 .. m /\ 1 \in 1 .. n
        BY <1>1
    <3>2. r[m] = p[m] /\ r[m + 1] = s[1]
        BY <1>3, <1>4, <3>1
    <3> QED
        BY <2>3, <3>2 DEF m
  <2>4. CASE i > m
    <3> DEFINE j == i - m
    <3>1. j \in 1 .. n - 1 /\ j \in 1 .. n /\ j + 1 \in 1 .. n /\ i = m + j /\ i + 1 = m + (j + 1)
        BY <1>1, <2>1, <2>4
    <3>2. Near(s[j], s[j + 1])
        BY <3>1 DEF NoGaps, n
    <3> HIDE DEF j
    <3> QED
        BY <1>4, <3>1, <3>2
  <2> QED
      BY <1>1, <2>1, <2>2, <2>3, <2>4
<1>6. r[1] = p[1] /\ r[m + n] = s[n]
    BY <1>1, <1>3, <1>4
<1>7. NoGaps(r)
  <2>1. r \in Seq(Points) /\ Len(r) > 0
      BY <1>1, <1>2
  <2>2. \A i \in 1 .. Len(r) - 1 : Near(r[i], r[i + 1])
      BY <1>5
  <2> QED
      BY <2>1, <2>2 DEF NoGaps
<1> QED
    BY <1>2, <1>6, <1>7 DEF r, m, n

(* What densify_path is given.                                             *)
IsRoute(q) == q \in Seq(Points) /\ Len(q) > 0

(* densify_path leaves no gap and keeps the ends, for every route.         *)
LEMMA DensePathHasNoGaps ==
    ASSUME Spacing \in Nat \ {0}, NEW q, IsRoute(q)
    PROVE  /\ NoGaps(DensifyPath(q)) /\ DensifyPath(q)[1] = q[1]
           /\ DensifyPath(q)[Len(DensifyPath(q))] = q[Len(q)]
<1> DEFINE n == Len(q)
           S == Seq(Points)
           next == [k \in 1 .. n |-> [r \in S |-> IF k = 1 THEN <<q[1]>>
                                                  ELSE r \o Segment(q[k - 1], q[k])]]
           F == [k \in 0 .. n |-> DensifyPath(q)]
<1>1. q \in S /\ n \in Nat /\ n > 0 /\ \A i \in 1 .. n : q[i] \in Points
    BY DEF IsRoute
<1>2. ASSUME NEW k \in 2 .. n
      PROVE  /\ NoGaps(Segment(q[k - 1], q[k])) /\ Near(q[k - 1], Segment(q[k - 1], q[k])[1])
             /\ Segment(q[k - 1], q[k])[Len(Segment(q[k - 1], q[k]))] = q[k]
             /\ Segment(q[k - 1], q[k]) \in S
  <2>1. q[k - 1] \in Points /\ q[k] \in Points
      BY <1>1
  <2> QED
      BY <2>1, SegmentHasNoGaps DEF NoGaps
<1> HIDE DEF n
<1>3. <<q[1]>> \in S /\ << >> \in S
  <2>1. q[1] \in Points
      BY <1>1
  <2> QED
      BY <2>1
<1>4. Iterable(S, << >>, next, n)
  <2>1. ASSUME NEW k \in 1 .. n, NEW r \in S
        PROVE  (IF k = 1 THEN <<q[1]>> ELSE r \o Segment(q[k - 1], q[k])) \in S
    <3>1. CASE k = 1
        BY <1>3, <3>1
    <3>2. CASE k # 1
      <4>1. k \in 2 .. n
          BY <1>1, <3>2
      <4>2. Segment(q[k - 1], q[k]) \in S
          BY <1>2, <4>1
      <4> QED
          BY <3>2, <4>2
    <3> QED
        BY <3>1, <3>2
  <2> HIDE DEF S
  <2>2. next \in [1 .. n -> [S -> S]]
      BY <2>1
  <2> QED
      BY <1>1, <1>3, <2>2 DEF Iterable
<1> HIDE DEF next
<1>5. PICK g : Iterates(g, S, << >>, next, n)
    BY <1>4, Recursion
<1>6. g \in [0 .. n -> S] /\ g[0] = << >>
    BY <1>5 DEF Iterates
<1>7. ASSUME NEW k \in 1 .. n
      PROVE  g[k] = IF k = 1 THEN <<q[1]>> ELSE g[k - 1] \o Segment(q[k - 1], q[k])
  <2>1. k - 1 \in 0 .. n /\ g[k] = next[k][g[k - 1]]
      BY <1>1, <1>5 DEF Iterates
  <2>2. g[k - 1] \in S
      BY <1>6, <2>1
  <2> QED
      BY <2>1, <2>2 DEF next
<1>8. g = [i \in 0 .. n |-> CASE i = 0 -> << >>
                              [] i = 1 -> <<q[1]>>
                              [] OTHER -> g[i - 1] \o Segment(q[i - 1], q[i])]
  <2>1. ASSUME NEW i \in 0 .. n
        PROVE  g[i] = CASE i = 0 -> << >>
                        [] i = 1 -> <<q[1]>>
                        [] OTHER -> g[i - 1] \o Segment(q[i - 1], q[i])
    <3>1. CASE i = 0
        BY <1>6, <3>1
    <3>2. CASE i # 0
      <4>1. i \in 1 .. n
          BY <1>1, <3>2
      <4> QED
          BY <1>7, <3>2, <4>1
    <3> QED
        BY <3>1, <3>2
  <2> QED
      BY <1>6, <2>1
<1> DEFINE G == CHOOSE f : f = [i \in 0 .. n |-> CASE i = 0 -> << >>
                              [] i = 1 -> <<q[1]>>
                              [] OTHER -> f[i - 1] \o Segment(q[i - 1], q[i])]
<1>9. G = [i \in 0 .. n |-> CASE i = 0 -> << >>
                              [] i = 1 -> <<q[1]>>
                              [] OTHER -> G[i - 1] \o Segment(q[i - 1], q[i])]
    BY <1>8
<1>10. DensifyPath(q) = G[n]
    BY DEF DensifyPath, n
<1> HIDE DEF G
<1>11. 0 \in 0 .. n /\ 1 \in 0 .. n
    BY <1>1
<1>12. G[1] = <<q[1]>>
    BY <1>9, <1>11
<1>13. ASSUME NEW k \in 2 .. n PROVE G[k] = G[k - 1] \o Segment(q[k - 1], q[k])
  <2>1. k \in 0 .. n /\ k # 0 /\ k # 1
      BY <1>1
  <2> QED
      BY <1>9, <2>1
<1> DEFINE Good(k) == NoGaps(G[k]) /\ G[k][1] = q[1] /\ G[k][Len(G[k])] = q[k]
           T == {k \in Nat : k + 1 <= n => Good(k + 1)}
<1>14. 0 \in T
  <2>1. Len(<<q[1]>>) = 1 /\ <<q[1]>>[1] = q[1]
      OBVIOUS
  <2>2. NoGaps(<<q[1]>>)
      BY <1>3, <2>1 DEF NoGaps
  <2>3. Good(1)
      BY <1>12, <2>1, <2>2
  <2> QED
      BY <2>3
<1>15. ASSUME NEW i \in T PROVE i + 1 \in T
  <2> SUFFICES ASSUME (i + 1) + 1 <= n PROVE Good((i + 1) + 1)
      OBVIOUS
  <2> DEFINE k == (i + 1) + 1
             s == Segment(q[k - 1], q[k])
  <2>1. k \in 2 .. n /\ k - 1 = i + 1 /\ Good(i + 1)
      BY <1>1
  <2> HIDE DEF k
  <2>2. NoGaps(s) /\ Near(q[k - 1], s[1]) /\ s[Len(s)] = q[k]
      BY <1>2, <2>1
  <2>3. G[k] = G[k - 1] \o s
      BY <1>13, <2>1
  <2>4. NoGaps(G[k - 1]) /\ G[k - 1][1] = q[1] /\ G[k - 1][Len(G[k - 1])] = q[k - 1]
      BY <2>1
  <2> HIDE DEF s
  <2> DEFINE p == G[k - 1]
  <2>41. NoGaps(p \o s) /\ (p \o s)[1] = p[1] /\ (p \o s)[Len(p \o s)] = s[Len(s)]
      BY <2>2, <2>4, JoinedWithoutGaps
  <2>5. Good(k)
      BY <2>2, <2>3, <2>4, <2>41
  <2> QED
      BY <2>5 DEF k
<1>16. T \subseteq Nat
    OBVIOUS
<1> HIDE DEF T
<1>17. T = Nat
    BY <1>14, <1>15, <1>16, NatInd
<1>18. n - 1 \in T /\ (n - 1) + 1 = n
    BY <1>1, <1>17
<1>19. Good(n)
    BY <1>1, <1>18 DEF T
<1> QED
    BY <1>10, <1>19 DEF n

-----------------------------------------------------------------------------
(* A map as a problem for the search.                                      *)

Nodes(hd) == Range(hd.ids)

LEMMA NodesOfMap ==
    ASSUME NEW hd, IsMap(hd)
    PROVE  /\ hd.ids \in Seq(Nodes(hd)) /\ Len(hd.ids) \in Nat /\ Len(hd.ids) > 0
           /\ DOMAIN hd.ids = 1 .. Len(hd.ids)
           /\ IsFiniteSet(Nodes(hd)) /\ Nodes(hd) \subseteq Range(Lexical)
<1> DEFINE ids == hd.ids
           n == Len(ids)
           S == Range(Lexical)
<1>1. ids \in Seq(S) /\ ids # << >>
    BY DEF IsMap
<1> HIDE DEF ids, S
<1>2. n \in Nat /\ n > 0 /\ DOMAIN ids = 1 .. n /\ \A i \in 1 .. n : ids[i] \in S
    BY <1>1
<1>3. Range(ids) = {ids[i] : i \in 1 .. n}
    BY <1>2 DEF Range
<1>4. \A i \in 1 .. n : ids[i] \in Range(ids)
    BY <1>3
<1>5. ids \in [1 .. n -> Range(ids)]
    BY <1>1, <1>2, <1>4
<1>6. ids \in Seq(Range(ids))
    BY <1>1, <1>2, <1>4
<1>7. ids \in Surjection(1 .. n, Range(ids))
    BY <1>3, <1>5 DEF Surjection
<1>8. IsFiniteSet(1 .. n)
    BY <1>2, FS_Interval
<1>9. IsFiniteSet(Range(ids))
    BY <1>7, <1>8, FS_Surjection
<1> QED
    BY <1>2, <1>3, <1>6, <1>9 DEF Nodes, ids, S

LEMMA RiskBounds ==
    ASSUME NEW w \in Nat, NEW r \in 0 .. 100
    PROVE  (w * r) \div 100 \in Nat /\ (w * r) \div 100 <= w
<1>1. w * r <= w * 100 /\ w * r \in Nat
    BY ProductsGrow
<1> DEFINE m == w * r
<1>2. m \in Nat /\ m <= 100 * w
    BY <1>1
<1> HIDE DEF m
<1>3. m \div 100 \in Nat /\ m \div 100 <= w
    BY <1>2
<1> QED
    BY <1>3 DEF m

LEMMA PenaltyIsNat ==
    ASSUME NEW hd, IsMap(hd), NEW a, NEW b
    PROVE  Penalty(hd, a, b) \in Nat
<1> DEFINE C == Sampled(a, b) \cap DOMAIN hd.risk
           T == {(SemanticWeight * hd.risk[c]) \div 100 : c \in C}
<1>1. \A c \in C : hd.risk[c] \in 0 .. 100
    BY DEF IsMap
<1>2. SemanticWeight \in Nat
    BY NavAssumption
<1> HIDE DEF C
<1>3. \A c \in C : (SemanticWeight * hd.risk[c]) \div 100 \in Nat
                   /\ (SemanticWeight * hd.risk[c]) \div 100 <= SemanticWeight
    BY <1>1, <1>2, RiskBounds
<1>4. {0} \cup T \subseteq Nat /\ {0} \cup T # {} /\ \A m \in {0} \cup T : m <= SemanticWeight
    BY <1>2, <1>3
<1>5. Penalty(hd, a, b) = Max({0} \cup T)
    BY DEF Penalty, C
<1> HIDE DEF T
<1>6. Max({0} \cup T) \in {0} \cup T
    BY <1>2, <1>4, MaxIsGreatest
<1> QED
    BY <1>4, <1>5, <1>6

FreeEdges(hd) == {e \in hd.edges : ~e.blocked}

LEMMA FreeEdgesOfMap ==
    ASSUME NEW hd, IsMap(hd)
    PROVE  /\ UNION {TraversableEdges(hd, u) : u \in Nodes(hd)} = FreeEdges(hd)
           /\ IsFiniteSet(FreeEdges(hd))
           /\ \A e \in FreeEdges(hd) :
                 /\ e.from \in Nodes(hd) /\ e.to \in Nodes(hd) /\ e.cost \in Nat \ {0}
                 /\ hd.at[e.from] \in Points /\ hd.at[e.to] \in Points
<1>1. \A e \in hd.edges : e.from \in Nodes(hd)
    BY DEF IsMap, Nodes
<1>2. UNION {TraversableEdges(hd, u) : u \in Nodes(hd)} = FreeEdges(hd)
    BY <1>1 DEF TraversableEdges, FreeEdges
<1>3. IsFiniteSet(FreeEdges(hd))
    BY FS_Subset DEF IsMap, FreeEdges
<1> QED
    BY <1>2, <1>3 DEF IsMap, FreeEdges, Nodes

StepOf(hd, e) == <<e.from, e.to, SemanticEdgeCost(hd, e)>>

LEMMA ImageIsFinite ==
    ASSUME NEW S, IsFiniteSet(S), NEW f, f = [x \in S |-> f[x]]
    PROVE  IsFiniteSet({f[x] : x \in S})
<1> DEFINE T == {f[x] : x \in S}
<1>1. f \in Surjection(S, T)
    BY DEF Surjection
<1> QED
    BY <1>1, FS_Surjection

LEMMA RankIsNat ==
    ASSUME NEW u \in Range(Lexical)
    PROVE  LexicalRank(u) \in Nat
<1>1. DOMAIN Lexical = 1 .. Len(Lexical) /\ Len(Lexical) \in Nat
    BY NavAssumption
<1>2. \E i \in DOMAIN Lexical : Lexical[i] = u
    BY DEF Range
<1>3. LexicalRank(u) \in DOMAIN Lexical
    BY <1>2 DEF LexicalRank
<1> QED
    BY <1>1, <1>3

LEMMA RouteSteps ==
    ASSUME NEW hd, IsMap(hd), NEW start \in Nodes(hd), NEW goal \in Nodes(hd)
    PROVE  LET p == RouteProblem(hd, start, goal)
           IN  /\ p.nodes = Nodes(hd) /\ p.start = start /\ p.goal = goal
               /\ p.steps = {StepOf(hd, e) : e \in FreeEdges(hd)}
               /\ \A u \in Nodes(hd) : p.guess[u] = Distance(hd.at[u], hd.at[goal])
    BY FreeEdgesOfMap DEF RouteProblem, StepOf, Nodes

LEMMA RouteIsProblem ==
    ASSUME NEW hd, IsMap(hd), NEW start \in Nodes(hd), NEW goal \in Nodes(hd)
    PROVE  IsProblem(RouteProblem(hd, start, goal))
<1> DEFINE p == RouteProblem(hd, start, goal)
           N == Nodes(hd)
           E == FreeEdges(hd)
           f == [e \in E |-> StepOf(hd, e)]
<1>1. p.nodes = N /\ p.start = start /\ p.goal = goal /\ p.steps = {StepOf(hd, e) : e \in E}
    BY RouteSteps
<1>2. IsFiniteSet(N) /\ N \subseteq Range(Lexical)
    BY NodesOfMap
<1>3. IsFiniteSet(p.steps)
  <2>1. IsFiniteSet(E)
      BY FreeEdgesOfMap
  <2> HIDE DEF E, p
  <2>2. f = [e \in E |-> f[e]] /\ {f[e] : e \in E} = {StepOf(hd, e) : e \in E}
      OBVIOUS
  <2> HIDE DEF f
  <2>3. IsFiniteSet({f[e] : e \in E})
      BY <2>1, <2>2, ImageIsFinite
  <2> QED
      BY <1>1, <2>2, <2>3
<1>4. p.steps \subseteq N \X N \X (Nat \ {0})
  <2>1. ASSUME NEW e \in E PROVE StepOf(hd, e) \in N \X N \X (Nat \ {0})
    <3>1. e.from \in N /\ e.to \in N /\ e.cost \in Nat \ {0}
        BY FreeEdgesOfMap
    <3>2. SemanticEdgeCost(hd, e) \in Nat \ {0}
        BY <3>1, PenaltyIsNat DEF SemanticEdgeCost
    <3> QED
        BY <3>1, <3>2 DEF StepOf
  <2> HIDE DEF p, E, N
  <2> QED
      BY <1>1, <2>1
<1>5. p.guess \in [N -> Nat]
  <2>1. \A u \in N : hd.at[u] \in Points
      BY DEF IsMap, Nodes
  <2>2. \A u \in N : Distance(hd.at[u], hd.at[goal]) \in Nat
      BY <2>1, PointsArePoints, DistanceIsRoot DEF IsRoot
  <2> QED
      BY <2>2 DEF RouteProblem, Nodes
<1>6. p.rank \in [N -> Nat]
  <2>1. \A u \in N : LexicalRank(u) \in Nat
      BY <1>2, RankIsNat
  <2> QED
      BY <2>1 DEF RouteProblem, Nodes
<1>7. start \in N /\ goal \in N
    OBVIOUS
<1> HIDE DEF p, N
<1>8. IsProblem(p)
    BY <1>1, <1>2, <1>3, <1>4, <1>5, <1>6, <1>7 DEF IsProblem
<1> QED
    BY <1>8 DEF p

-----------------------------------------------------------------------------
(* What a plan is on a map.                                                *)
(* Nodes that follow each other along free edges.                          *)
IsDriveable(hd, nodes) ==
    /\ nodes \in Seq(Nodes(hd)) /\ Len(nodes) > 0
    /\ \A i \in 1 .. Len(nodes) - 1 :
          \E e \in FreeEdges(hd) : e.from = nodes[i] /\ e.to = nodes[i + 1]

(* A path without gaps, from a node to a node.                             *)
IsSoundPath(hd, r) ==
    /\ NoGaps(r)
    /\ \E u \in Nodes(hd) : hd.at[u] = r[1]
    /\ \E u \in Nodes(hd) : hd.at[u] = EndOf(r)

LEMMA PlanIsDriveable ==
    ASSUME NEW hd, IsMap(hd), NEW start \in Nodes(hd), NEW goal \in Nodes(hd),
           NEW q \in PlanRouteGraph(hd, start, goal)
    PROVE  IsDriveable(hd, q.nodes) /\ q.nodes[1] = start /\ q.nodes[Len(q.nodes)] = goal
<1> DEFINE p == RouteProblem(hd, start, goal)
           w == q.nodes
<1>1. IsProblem(p)
    BY RouteIsProblem
<1>2. p.nodes = Nodes(hd) /\ p.start = start /\ p.goal = goal
      /\ p.steps = {StepOf(hd, e) : e \in FreeEdges(hd)}
    BY RouteSteps
<1>3. q \in BestFirst(p)
    BY DEF PlanRouteGraph
<1> HIDE DEF p
<1>4. IsWalk(p, w)
    BY <1>1, <1>3, PlansAreWalks
<1> HIDE DEF w
<1>5. ASSUME NEW i \in 1 .. Len(w) - 1
      PROVE  \E e \in FreeEdges(hd) : e.from = w[i] /\ e.to = w[i + 1]
  <2>1. PICK t \in p.steps : t[1] = w[i] /\ t[2] = w[i + 1]
      BY <1>4 DEF IsWalk, Joined
  <2>2. PICK e \in FreeEdges(hd) : t = StepOf(hd, e)
      BY <1>2
  <2>3. t[1] = e.from /\ t[2] = e.to
      BY <2>2 DEF StepOf
  <2> QED
      BY <2>1, <2>3
<1> QED
    BY <1>2, <1>4, <1>5 DEF IsWalk, IsDriveable, w

LEMMA PathOfPlan ==
    ASSUME NEW hd, IsMap(hd), NEW q, IsDriveable(hd, q.nodes)
    PROVE  IsSoundPath(hd, WithPoints(hd, q).dense)
<1> DEFINE w == q.nodes
           n == Len(w)
           r == [i \in DOMAIN w |-> hd.at[w[i]]]
           d == DensifyPath(r)
<1>1. w \in Seq(Nodes(hd)) /\ n \in Nat /\ n > 0 /\ DOMAIN w = 1 .. n
      /\ \A i \in 1 .. n : w[i] \in Nodes(hd)
    BY DEF IsDriveable
<1>3. \A u \in Nodes(hd) : hd.at[u] \in Points
    BY DEF IsMap, Nodes
<1>4. WithPoints(hd, q).dense = d
    BY DEF WithPoints
<1> HIDE DEF w, n, d
<1>5. \A i \in 1 .. n : r[i] = hd.at[w[i]] /\ r[i] \in Points
    BY <1>1, <1>3
<1>6. r \in Seq(Points) /\ Len(r) = n
    BY <1>1, <1>3
<1> HIDE DEF r
<1>7. IsRoute(r)
    BY <1>1, <1>6 DEF IsRoute
<1>8. NoGaps(d) /\ d[1] = r[1] /\ d[Len(d)] = r[n]
    BY <1>6, <1>7, NavAssumption, DensePathHasNoGaps DEF d
<1>9. r[1] = hd.at[w[1]] /\ r[n] = hd.at[w[n]] /\ w[1] \in Nodes(hd) /\ w[n] \in Nodes(hd)
      /\ r[n] \in Points
  <2>1. 1 \in 1 .. n /\ n \in 1 .. n
      BY <1>1
  <2> QED
      BY <1>1, <1>5, <2>1
<1>10. EndOf(d) = r[n]
  <2>1. EndOf(d) = [x |-> r[n].x, y |-> r[n].y]
      BY <1>8 DEF EndOf
  <2> QED
      BY <1>9, <2>1, PointsArePoints
<1> QED
    BY <1>4, <1>8, <1>9, <1>10 DEF IsSoundPath

(* The node nearest to a point is one of the nodes.                        *)
LEMMA NearestIsNode ==
    ASSUME NEW hd, IsMap(hd), NEW p, IsPoint(p)
    PROVE  Nearest(hd, p) \in Nodes(hd)
<1> DEFINE n == Len(hd.ids)
           D == DOMAIN hd.ids
           S == [i \in D |-> Span(hd.at[hd.ids[i]], p)]
           T == {S[i] : i \in D}
           C == {i \in D : \A j \in D : S[i] <= S[j]}
<1>1. n \in Nat /\ n > 0 /\ D = 1 .. n /\ \A i \in D : hd.ids[i] \in Nodes(hd)
    BY NodesOfMap DEF Nodes, Range
<1>2. \A u \in Nodes(hd) : hd.at[u] \in Points
    BY DEF IsMap, Nodes
<1>3. \A i \in D : S[i] \in Nat
    BY <1>1, <1>2, PointsArePoints, SpanIsNat
<1>4. Nearest(hd, p) = hd.ids[Min(C)]
    BY DEF Nearest
<1> HIDE DEF D, S, n
<1>5. T \subseteq Nat /\ T # {}
  <2>1. 1 \in D
      BY <1>1
  <2> QED
      BY <1>3, <2>1
<1>6. PICK t \in T : \A m \in T : t <= m
    BY <1>5, LeastNat
<1>7. C # {} /\ C \subseteq Nat
  <2>1. PICK i \in D : t = S[i]
      OBVIOUS
  <2>2. i \in C
      BY <1>6, <2>1
  <2> QED
      BY <1>1, <2>2
<1>8. Min(C) \in C
    BY <1>7, MinIsLeast
<1> QED
    BY <1>1, <1>4, <1>8

-----------------------------------------------------------------------------
(* The way from a goal to the path of the local planner.                   *)

SoundPaths(hd) == {r \in Seq(Points) : IsSoundPath(hd, r)}

(* A plan of the global planner, with its points.                          *)
IsPlanOn(hd, q) == IsDriveable(hd, q.nodes) /\ q.dense \in SoundPaths(hd)

(* Whatever is a path in a plan, on the topic or in the local planner is   *)
(* sound on the map of the behaviour.                                      *)
NavInv ==
    /\ PlannerInv /\ CmdTypes
    /\ map \in DOMAIN Maps /\ pose \subseteq Poses
    /\ global_path \in Seq(SoundPaths(HdMap))
    /\ \A q \in plan : IsPlanOn(HdMap, q)
    /\ part = "nav" => path = InitialPath \/ path \in SoundPaths(HdMap)
    /\ part # "nav" => plan = {}

(* A path that _publish_plan publishes.                                    *)
LEMMA PublishedPlan ==
    ASSUME map \in DOMAIN Maps, pose \subseteq Poses, NEW goal, NEW q \in PlansTo(goal)
    PROVE  IsPlanOn(HdMap, q)
<1>1. PICK t \in PlanTable : t[1] = map /\ t[2] \in pose /\ t[3] = goal /\ q \in t[4]
    BY DEF PlansTo
<1>20. PICK m \in DOMAIN Maps :
          t \in {<<m, p, v, {WithPoints(Maps[m], r) :
                            r \in PlanRouteGraph(Maps[m], Nearest(Maps[m], p), v)}>> :
                   p \in OdomPoses, v \in Range(Maps[m].ids)}
    BY <1>1 DEF PlanTable
<1>2. PICK p \in OdomPoses, v \in Range(Maps[m].ids) :
         t = <<m, p, v, {WithPoints(Maps[m], r) :
                           r \in PlanRouteGraph(Maps[m], Nearest(Maps[m], p), v)}>>
    BY <1>20
<1>3. m = map /\ Maps[m] = HdMap
    BY <1>1, <1>2 DEF HdMap
<1> DEFINE hd == HdMap
           u == Nearest(hd, p)
<1>4. IsMap(hd) /\ v \in Nodes(hd)
    BY <1>3, NavAssumption DEF Nodes
<1>5. IsPoint(p)
    BY PlannerAssumption DEF Poses, IsPoint
<1>6. u \in Nodes(hd)
    BY <1>4, <1>5, NearestIsNode
<1>7. PICK r \in PlanRouteGraph(hd, u, v) : q = WithPoints(hd, r)
    BY <1>1, <1>2, <1>3
<1> HIDE DEF hd, u
<1>8. IsDriveable(hd, r.nodes)
    BY <1>4, <1>6, <1>7, PlanIsDriveable
<1>9. IsSoundPath(hd, q.dense)
    BY <1>4, <1>7, <1>8, PathOfPlan
<1>10. q.nodes = r.nodes
    BY <1>7 DEF WithPoints
<1>11. q.dense \in SoundPaths(hd)
    BY <1>9 DEF SoundPaths, IsSoundPath, NoGaps
<1> QED
    BY <1>8, <1>10, <1>11 DEF IsPlanOn, hd

LEMMA KeepLastTypes ==
    ASSUME NEW S, NEW q \in Seq(S), NEW m \in S
    PROVE  KeepLast(q, m) \in Seq(S)
<1>1. Depth \in Nat /\ Depth > 0
    BY DepthAssumption
<1>2. Len(q) < Depth => Append(q, m) \in Seq(S)
    OBVIOUS
<1>3. ~(Len(q) < Depth) => Append(Tail(q), m) \in Seq(S)
  <2>1. ASSUME ~(Len(q) < Depth) PROVE q # << >>
      BY <1>1, <2>1
  <2> DEFINE r == Tail(q)
  <2>2. ASSUME ~(Len(q) < Depth) PROVE r \in Seq(S)
      BY <2>1, <2>2
  <2> HIDE DEF r
  <2>3. ASSUME r \in Seq(S) PROVE Append(r, m) \in Seq(S)
      BY <2>3
  <2> QED
      BY <2>2, <2>3 DEF r
<1> QED
    BY <1>2, <1>3 DEF KeepLast

LEMMA NavInvInit == MCInit => NavInv
<1> SUFFICES ASSUME MCInit PROVE NavInv
    OBVIOUS
<1>1. Init /\ NavInit
    BY DEF MCInit
<1>2. PlannerInv /\ CmdTypes
    BY <1>1, PlannerInit, CmdTypesInit
<1>3. map \in DOMAIN Maps /\ pose = {} /\ global_path = << >> /\ plan = {}
    BY <1>1, Zenon DEF NavInit
<1>4. path = InitialPath
    BY <1>1, Zenon DEF Init
<1>5. global_path \in Seq(SoundPaths(HdMap))
    BY <1>3
<1> QED
    BY <1>2, <1>3, <1>4, <1>5, Zenon DEF NavInv

(* The local planner takes a path.                                         *)
LEMMA TakePathStep ==
    ASSUME NavInv, TakePath, part = "nav", part' = part
    PROVE  NavInv'
<1> DEFINE r == global_path[1]
           S == SoundPaths(HdMap)
<1>1. /\ global_path # << >> /\ OnGlobalPath(r) /\ global_path' = Tail(global_path)
      /\ UNCHANGED <<map, goal_node, pose, goal_pose, plan, wanted, asked>>
    BY DEF TakePath
<1>2. global_path \in Seq(S) /\ PlannerInv /\ CmdTypes
    BY DEF NavInv
<1>3. HdMap' = HdMap
    BY <1>1 DEF HdMap
<1>4. r \in S /\ global_path' \in Seq(S)
  <2> HIDE DEF S
  <2> QED
      BY <1>1, <1>2
<1> HIDE DEF r
<1>5. path' = path \/ (path' = r /\ ~(Len(r) < 2))
    BY <1>1 DEF OnGlobalPath
<1>6. path' \in Seq(Points) /\ path' # << >>
  <2>1. r \in Seq(Points)
      BY <1>4 DEF SoundPaths
  <2> QED
      BY <1>2, <1>5, <2>1 DEF PlannerInv
<1>7. PlannerInv'
    BY <1>1, <1>2, <1>6 DEF PlannerInv, OnGlobalPath, AtMostOne
<1>8. CmdTypes'
    BY <1>1, <1>2 DEF CmdTypes, OnGlobalPath
<1>9. path' = InitialPath \/ path' \in S
    BY <1>4, <1>5 DEF NavInv
<1>10. part' = "nav"
    OBVIOUS
<1>11. map' \in DOMAIN Maps /\ pose' \subseteq Poses
    BY <1>1 DEF NavInv
<1>12. global_path' \in Seq(SoundPaths(HdMap'))
    BY <1>3, <1>4
<1>13. \A q \in plan' : IsPlanOn(HdMap', q)
    BY <1>1, <1>3 DEF NavInv
<1>14. path' \in SoundPaths(HdMap') \/ path' = InitialPath
    BY <1>3, <1>9
<1> QED
    BY <1>7, <1>8, <1>10, <1>11, <1>12, <1>13, <1>14 DEF NavInv

LEMMA NavInvStep ==
    ASSUME NavInv, [MCNext]_mcVars
    PROVE  NavInv'
<1>1. CASE UNCHANGED mcVars
    BY <1>1 DEF mcVars, gridVars, navVars, plannerVars, NavInv, PlannerInv, CmdTypes, HdMap,
               AtMostOne
<1>2. ASSUME part = "local", Next, UNCHANGED <<part, gridVars, navVars>>
      PROVE  NavInv'
  <2>1. PlannerInv' /\ CmdTypes'
      BY <1>2, PlannerStep, CmdTypesStep DEF NavInv
  <2> QED
      BY <1>2, <2>1 DEF NavInv, navVars, HdMap
<1>3. ASSUME part = "grid", PlanOnGrid, UNCHANGED <<part, grid, navVars, plannerVars>>
      PROVE  NavInv'
    BY <1>3 DEF navVars, plannerVars, NavInv, PlannerInv, CmdTypes, HdMap, AtMostOne
<1>4. ASSUME part = "nav", NavNext, UNCHANGED <<part, gridVars>>
      PROVE  NavInv'
  <2>1. ASSUME NEW r \in Requests, OnGoalRequest(r), UNCHANGED plannerVars PROVE NavInv'
    <3>1. UNCHANGED <<map, pose, global_path, plan>>
        BY <2>1 DEF OnGoalRequest
    <3> QED
        BY <1>4, <2>1, <3>1 DEF plannerVars, NavInv, PlannerInv, CmdTypes, HdMap, AtMostOne
  <2>2. ASSUME NEW g \in RvizGoals, RvizGoal(g), UNCHANGED plannerVars PROVE NavInv'
    <3>1. UNCHANGED <<map, pose, global_path, plan>>
        BY <2>2 DEF RvizGoal
    <3> QED
        BY <1>4, <2>2, <3>1 DEF plannerVars, NavInv, PlannerInv, CmdTypes, HdMap, AtMostOne
  <2>3. ASSUME OnGoalPose, UNCHANGED plannerVars PROVE NavInv'
    <3>1. UNCHANGED <<map, pose, global_path, plan>>
        BY <2>3 DEF OnGoalPose
    <3> QED
        BY <1>4, <2>3, <3>1 DEF plannerVars, NavInv, PlannerInv, CmdTypes, HdMap, AtMostOne
  <2>4. ASSUME NEW p \in OdomPoses, OnNavOdom(p), UNCHANGED plannerVars PROVE NavInv'
    <3>1. UNCHANGED <<map, global_path, plan>> /\ pose' = {p}
        BY <2>4 DEF OnNavOdom
    <3>2. pose' \subseteq Poses
        BY <3>1, PlannerAssumption
    <3> QED
        BY <1>4, <2>4, <3>1, <3>2 DEF plannerVars, NavInv, PlannerInv, CmdTypes, HdMap, AtMostOne
  <2>5. ASSUME PublishPlan, UNCHANGED plannerVars PROVE NavInv'
    <3>1. PICK q \in PlansTo(goal_node) :
             plan' = {q} /\ global_path' = KeepLast(global_path, q.dense)
        BY <2>5 DEF PublishPlan
    <3>2. UNCHANGED <<map, pose>>
        BY <2>5 DEF PublishPlan
    <3>3. IsPlanOn(HdMap, q)
        BY PublishedPlan DEF NavInv
    <3>4. global_path' \in Seq(SoundPaths(HdMap))
      <4> DEFINE S == SoundPaths(HdMap)
      <4>1. global_path \in Seq(S) /\ q.dense \in S
          BY <3>3 DEF NavInv, IsPlanOn
      <4> HIDE DEF S
      <4>2. KeepLast(global_path, q.dense) \in Seq(S)
          BY <4>1, KeepLastTypes
      <4> QED
          BY <3>1, <4>2 DEF S
    <3>5. HdMap' = HdMap
        BY <3>2 DEF HdMap
    <3>6. PlannerInv' /\ CmdTypes'
        BY <2>5 DEF plannerVars, NavInv, PlannerInv, CmdTypes, AtMostOne
    <3>7. path' = InitialPath \/ path' \in SoundPaths(HdMap)
        BY <1>4, <2>5 DEF NavInv, plannerVars
    <3>8. \A r \in plan' : IsPlanOn(HdMap, r)
        BY <3>1, <3>3
    <3>9. map' \in DOMAIN Maps /\ pose' \subseteq Poses /\ part' = "nav"
        BY <1>4, <3>2 DEF NavInv
    <3> QED
        BY <3>4, <3>5, <3>6, <3>7, <3>8, <3>9 DEF NavInv
  <2>6. ASSUME TakePath PROVE NavInv'
      BY <1>4, <2>6, TakePathStep
  <2> QED
      BY <1>4, <2>1, <2>2, <2>3, <2>4, <2>5, <2>6 DEF NavNext
<1> QED
    BY <1>1, <1>2, <1>3, <1>4 DEF MCNext, MCNav

LEMMA SoundInNav == NavInv => PathIsSound
<1> SUFFICES ASSUME NavInv PROVE PathIsSound
    OBVIOUS
<1>1. TypeOK
    BY Zenon DEF NavInv, PlannerInv, CmdTypes, TypeOK
<1>2. PathHasNoGaps
  <2> SUFFICES ASSUME plan # {}, path # InitialPath
               PROVE  /\ \A i \in 1 .. Len(path) - 1 :
                            Near(path[i], path[i + 1])
                      /\ \E u \in Range(HdMap.ids) : HdMap.at[u] = path[1]
                      /\ \E u \in Range(HdMap.ids) : HdMap.at[u] = EndOf(path)
      BY DEF PathHasNoGaps
  <2>1. IsSoundPath(HdMap, path)
      BY DEF NavInv, SoundPaths
  <2> QED
      BY <2>1 DEF IsSoundPath, NoGaps, Nodes
<1>3. NeverThroughBlocked
  <2> SUFFICES ASSUME NEW e \in HdMap.edges, NEW q \in plan, NEW i \in 1 .. Len(q.nodes) - 1
               PROVE  \/ <<q.nodes[i], q.nodes[i + 1]>> # <<e.from, e.to>>
                      \/ \E f \in HdMap.edges : f.from = e.from /\ f.to = e.to /\ ~f.blocked
      BY DEF NeverThroughBlocked
  <2>1. PICK f \in FreeEdges(HdMap) : f.from = q.nodes[i] /\ f.to = q.nodes[i + 1]
      BY DEF NavInv, IsPlanOn, IsDriveable
  <2> QED
      BY <2>1 DEF FreeEdges
<1> QED
    BY <1>1, <1>2, <1>3 DEF PathIsSound

(* The path the local planner follows is sound, for every set of maps that *)
(* IsMap admits (edges join nodes and cost something, in any direction),   *)
(* every goal and odometry and whatever is lost or late: from one point to *)
(* the next it is no further than the spacing along either axis, it begins *)
(* and ends at nodes, and no plan leads along an edge that is marked as    *)
(* blocked.                                                                *)
THEOREM PathsAreSound == MCSpec => []PathIsSound
<1>1. NavInv /\ [MCNext]_mcVars => NavInv'
    BY NavInvStep
<1> QED
    BY <1>1, NavInvInit, SoundInNav, PTL DEF MCSpec

-----------------------------------------------------------------------------
(* The cells under an edge and the nine samples of it.                     *)

Between(i, j) == IF i <= j THEN i .. j ELSE j .. i

LEMMA SampleCoordinate ==
    ASSUME NEW a \in Int, NEW b \in Int, NEW n \in Nat, n > 0, NEW i \in 0 .. n
    PROVE  /\ (n * a + (b - a) * i) \div n \in Between(a, b)
           /\ a = b => (n * a + (b - a) * i) \div n = a
<1> DEFINE l == b - a
           t == l * i
           q == (n * a + t) \div n
<1>1. l \in Int /\ t \in Int /\ b = a + l /\ n * a \in Int /\ n * b \in Int
      /\ n * b = n * a + n * l
    OBVIOUS
<1>2. (l >= 0 => 0 <= t /\ t <= n * l) /\ (l <= 0 => n * l <= t /\ t <= 0)
  <2>1. CASE l >= 0
    <3>1. l \in Nat /\ n - i \in Nat /\ i \in Nat
        BY <1>1, <2>1
    <3>2. l * i \in Nat /\ l * i <= l * n /\ l * n = n * l
        BY <3>1, ProductsGrow
    <3>3. l = 0 => n * l = 0
        BY <3>1
    <3> HIDE DEF l
    <3> QED
        BY <1>1, <2>1, <3>1, <3>2, <3>3
  <2>2. CASE l < 0
    <3> DEFINE m == -l
    <3>1. m \in Nat /\ i \in Nat /\ i <= n
        BY <1>1, <2>2
    <3>2. m * i \in Nat /\ m * i <= m * n
        BY <3>1, ProductsGrow
    <3>3. l * i = -(m * i) /\ n * l = -(m * n)
        BY <1>1, <3>1
    <3> HIDE DEF l, m
    <3> QED
        BY <1>1, <2>2, <3>1, <3>2, <3>3
  <2> QED
      BY <1>1, <2>1, <2>2
<1> HIDE DEF l, t
<1>3. q \in Int /\ n * q <= n * a + t /\ n * a + t < n * q + n
    BY <1>1, DivBounds
<1> HIDE DEF q
<1>4. ASSUME NEW y \in Int, NEW z \in Int, n * y < n * z + n PROVE y <= z
  <2>1. ASSUME y >= z + 1 PROVE FALSE
    <3>1. n * (z + 1) <= n * y /\ n * (z + 1) = n * z + n
        BY <2>1
    <3> QED
        BY <1>4, <3>1
  <2> QED
      BY <2>1
<1>5. CASE l >= 0
  <2>1. n * a < n * q + n /\ n * q < n * b + n
      BY <1>1, <1>2, <1>3, <1>5
  <2>2. a <= q /\ q <= b /\ a <= b
      BY <1>1, <1>3, <1>4, <1>5, <2>1
  <2> QED
      BY <1>3, <2>2 DEF q, t, l, Between
<1>6. CASE l < 0
  <2>1. n * b < n * q + n /\ n * q < n * a + n
      BY <1>1, <1>2, <1>3, <1>6
  <2>2. b <= q /\ q <= a /\ ~(a <= b)
      BY <1>1, <1>3, <1>4, <1>6, <2>1
  <2> QED
      BY <1>3, <2>2 DEF q, t, l, Between
<1> QED
    BY <1>1, <1>5, <1>6

(* On at most four metres every cell between two coordinates is sampled.   *)
LEMMA ShortWayIsSampled ==
    ASSUME NEW a \in Int, NEW b \in Int, Size(b - a) <= 8, NEW x \in Between(a, b)
    PROVE  \E i \in 0 .. 8 : x = (8 * a + (b - a) * i) \div 8
<1> DEFINE l == b - a
           k == x - a
<1>1. l \in Int /\ b = a + l /\ k \in Int /\ x = a + k
    BY DEF Between
<1>2. -8 <= l /\ l <= 8
    BY <1>1, SizeIsNat
<1>3. (l >= 0 => 0 <= k /\ k <= l) /\ (l < 0 => l <= k /\ k <= 0)
    BY <1>1 DEF Between
<1> HIDE DEF l, k
<1>4. ASSUME NEW i \in 0 .. 8, 8 * k <= l * i, l * i < 8 * k + 8
      PROVE  x = (8 * a + l * i) \div 8
  <2> DEFINE t == l * i
  <2>1. t \in Int /\ 8 * k <= t /\ t < 8 * k + 8
      BY <1>1, <1>4
  <2> HIDE DEF t
  <2>2. (8 * a + t) \div 8 = a + k
      BY <1>1, <2>1
  <2> QED
      BY <1>1, <2>2 DEF t
<1>5. \E i \in 0 .. 8 : 8 * k <= l * i /\ l * i < 8 * k + 8
  <2>1. CASE l = 0
      BY <1>1, <1>3, <2>1
  <2>2. CASE l > 0
    <3> DEFINE m == 8 * k + l - 1
               i == m \div l
    <3>1. m \in Int /\ i \in Int /\ l * i <= m /\ m < l * i + l
        BY <1>1, <2>2, DivBounds
    <3> HIDE DEF i
    <3>2. 8 * k <= l * i /\ l * i < 8 * k + 8
        BY <1>1, <1>2, <2>2, <3>1
    <3>3. i >= 0
      <4>1. ASSUME i <= -1 PROVE FALSE
        <5> DEFINE t == l * i
        <5>1. t <= -l
            BY <1>1, <2>2, <3>1, <4>1
        <5>2. t \in Int /\ 8 * k <= t /\ 0 <= k
            BY <1>1, <1>3, <2>2, <3>1, <3>2
        <5> HIDE DEF t
        <5> QED
            BY <1>1, <2>2, <5>1, <5>2
      <4> QED
          BY <3>1, <4>1
    <3>4. i <= 8
      <4>1. ASSUME i >= 9 PROVE FALSE
        <5>1. l * i >= l * 9
            BY <1>1, <2>2, <3>1, <4>1
        <5>2. m <= 8 * l + l - 1
            BY <1>1, <1>3, <2>2
        <5> QED
            BY <1>1, <2>2, <3>1, <5>1, <5>2
      <4> QED
          BY <3>1, <4>1
    <3> QED
        BY <3>1, <3>2, <3>3, <3>4
  <2>3. CASE l < 0
    <3> DEFINE n == -l
               m == -(8 * k)
               i == m \div n
    <3>1. n \in Nat /\ n > 0 /\ n <= 8 /\ m \in Nat /\ m <= 8 * n
        BY <1>1, <1>2, <1>3, <2>3
    <3>2. i \in Int /\ n * i <= m /\ m < n * i + n
        BY <3>1, DivBounds
    <3>3. l * i = -(n * i)
        BY <1>1, <3>2
    <3> HIDE DEF i
    <3>4. 8 * k <= l * i /\ l * i < 8 * k + 8
      <4> DEFINE t == n * i
      <4>1. t \in Int /\ t <= m /\ m < t + n
          BY <3>1, <3>2
      <4> HIDE DEF t, n
      <4>2. 8 * k <= -t /\ -t < 8 * k + 8
          BY <1>1, <3>1, <4>1
      <4> QED
          BY <3>3, <4>2 DEF t
    <3> HIDE DEF m, n
    <3>5. i >= 0
      <4>1. ASSUME i <= -1 PROVE FALSE
        <5>1. n * i <= -n
            BY <3>1, <3>2, <4>1
        <5> QED
            BY <3>1, <3>2, <5>1
      <4> QED
          BY <3>2, <4>1
    <3>6. i <= 8
      <4>1. ASSUME i >= 9 PROVE FALSE
        <5>1. n * i >= n * 9
            BY <3>1, <3>2, <4>1
        <5> QED
            BY <3>1, <3>2, <5>1
      <4> QED
          BY <3>2, <4>1
    <3> QED
        BY <3>2, <3>4, <3>5, <3>6
  <2> QED
      BY <1>1, <2>1, <2>2, <2>3
<1> QED
    BY <1>4, <1>5 DEF l

(* The edges of a map that lead along an axis for at most four metres hide *)
(* nothing from the nine samples.                                          *)
LEMMA ShortEdgesAreSampled ==
    ASSUME NEW hd, IsMap(hd),
           \A e \in FreeEdges(hd) : LET a == hd.at[e.from]
                                        b == hd.at[e.to]
                                    IN  /\ OnAxis(a, b)
                                        /\ Size(b.x - a.x) <= 8 /\ Size(b.y - a.y) <= 8
    PROVE  SampledWell(hd)
<1> SUFFICES ASSUME NEW e \in hd.edges, ~e.blocked,
                    NEW c \in DOMAIN hd.risk \cap CellsUnder(hd.at[e.from], hd.at[e.to])
             PROVE  c \in Sampled(hd.at[e.from], hd.at[e.to])
  <2>1. ASSUME NEW c \in DOMAIN hd.risk PROVE hd.risk[c] <= hd.risk[c]
    <3>1. hd.risk[c] \in 0 .. 100
        BY DEF IsMap
    <3> QED
        BY <3>1
  <2> QED
      BY <2>1 DEF SampledWell
<1> DEFINE a == hd.at[e.from]
           b == hd.at[e.to]
           m == Widest(b.x - a.x)
           o == Widest(b.y - a.y)
           n == 2 * m * o
<1>1. e \in FreeEdges(hd)
    BY DEF FreeEdges
<1>2. IsPoint(a) /\ IsPoint(b) /\ OnAxis(a, b)
      /\ Size(b.x - a.x) <= 8 /\ Size(b.y - a.y) <= 8
    BY <1>1, FreeEdgesOfMap, PointsArePoints
<1> SUFFICES ASSUME c \in SampleSegment(a, b, n) PROVE c \in Sampled(a, b)
    BY DEF CellsUnder
<1> HIDE DEF a, b
<1>3. a.x \in Int /\ a.y \in Int /\ b.x \in Int /\ b.y \in Int
    BY <1>2 DEF IsPoint
<1>4. m \in Nat \ {0} /\ o \in Nat \ {0}
  <2>1. ASSUME NEW d \in Int PROVE Widest(d) \in Nat \ {0}
    <3>1. Size(d) \in Nat
        BY SizeIsNat
    <3>2. Widest(d) = IF 1 >= Size(d) THEN 1 ELSE Size(d)
        BY <3>1, MaxPair DEF Widest
    <3> QED
        BY <3>1, <3>2
  <2>2. b.x - a.x \in Int /\ b.y - a.y \in Int
      BY <1>3
  <2> QED
      BY <2>1, <2>2
<1>5. n \in Nat /\ n > 0
  <2> HIDE DEF m, o
  <2>1. m * o \in Nat /\ m * o > 0
      BY <1>4
  <2> QED
      BY <1>4, <2>1
<1> HIDE DEF n
<1>6. PICK i \in 0 .. n : c = <<(n * a.x + (b.x - a.x) * i) \div n,
                               (n * a.y + (b.y - a.y) * i) \div n>>
    BY DEF SampleSegment
<1> HIDE DEF m, o
<1> DEFINE Way(u, w) == (n * u + (w - u) * i) \div n
           x == Way(a.x, b.x)
           y == Way(a.y, b.y)
<1>7. ASSUME NEW u \in Int, NEW w \in Int
      PROVE  Way(u, w) \in Between(u, w) /\ (u = w => Way(u, w) = u)
    BY <1>5, SampleCoordinate
<1>8. c = <<x, y>>
    BY <1>6
<1> HIDE DEF Way
<1>9. x \in Between(a.x, b.x) /\ (a.x = b.x => x = a.x)
    BY <1>3, <1>7
<1>10. y \in Between(a.y, b.y) /\ (a.y = b.y => y = a.y)
    BY <1>3, <1>7
<1> HIDE DEF x, y
<1>11. CASE a.x = b.x
  <2>1. PICK h \in 0 .. 8 : y = (8 * a.y + (b.y - a.y) * h) \div 8
      BY <1>2, <1>3, <1>10, ShortWayIsSampled
  <2>2. x = (8 * a.x + (b.x - a.x) * h) \div 8
      BY <1>3, <1>9, <1>11, SampleCoordinate
  <2> QED
      BY <1>8, <2>1, <2>2 DEF Sampled, SampleSegment, Samples
<1>12. CASE a.y = b.y
  <2>1. PICK h \in 0 .. 8 : x = (8 * a.x + (b.x - a.x) * h) \div 8
      BY <1>2, <1>3, <1>9, ShortWayIsSampled
  <2>2. y = (8 * a.y + (b.y - a.y) * h) \div 8
      BY <1>3, <1>10, <1>12, SampleCoordinate
  <2> QED
      BY <1>8, <2>1, <2>2 DEF Sampled, SampleSegment, Samples
<1> QED
    BY <1>2, <1>11, <1>12 DEF OnAxis

-----------------------------------------------------------------------------
(* The search on a map returns the cheapest plans.                         *)

LEMMA RiskOrder ==
    ASSUME NEW w \in Nat, NEW r \in 0 .. 100, NEW s \in 0 .. 100, r <= s
    PROVE  (w * r) \div 100 <= (w * s) \div 100
<1> DEFINE m == w * r
           n == w * s
<1>1. m <= n /\ m \in Nat /\ n \in Nat
    BY ProductsGrow
<1> HIDE DEF m, n
<1>2. m \div 100 <= n \div 100
    BY <1>1
<1> QED
    BY <1>2 DEF m, n

(* The penalty of an edge is that of the worst cell under it.              *)
LEMMA PenaltyOfWorstCell ==
    ASSUME NEW hd, IsMap(hd), SampledWell(hd), NEW e \in FreeEdges(hd)
    PROVE  Penalty(hd, hd.at[e.from], hd.at[e.to])
           = (SemanticWeight * WorstCell(hd, hd.at[e.from], hd.at[e.to])) \div 100
<1> DEFINE a == hd.at[e.from]
           b == hd.at[e.to]
           w == SemanticWeight
           D == DOMAIN hd.risk
           C == D \cap CellsUnder(a, b)
           E == Sampled(a, b) \cap D
           V == {0} \cup {hd.risk[c] : c \in C}
           T == {0} \cup {(w * hd.risk[c]) \div 100 : c \in E}
           M == Max(V)
           P == Max(T)
<1>1. w \in Nat
    BY NavAssumption
<1>2. IsPoint(a) /\ IsPoint(b)
    BY FreeEdgesOfMap, PointsArePoints
<1>3. E \subseteq C
    BY DEF CellsUnder
<1>4. \A c \in C : \E d \in E : hd.risk[c] <= hd.risk[d]
    BY DEF SampledWell, FreeEdges
<1>5. \A c \in D : hd.risk[c] \in 0 .. 100
    BY DEF IsMap
<1>6. WorstCell(hd, a, b) = M
    BY DEF WorstCell
<1>7. Penalty(hd, a, b) = P
    BY DEF Penalty
<1>8. C \subseteq D /\ E \subseteq D
    OBVIOUS
<1> HIDE DEF a, b, w, C, E
<1>9. \A c \in C : hd.risk[c] \in 0 .. 100
    BY <1>5, <1>8
<1>10. \A c \in E : hd.risk[c] \in 0 .. 100 /\ (w * hd.risk[c]) \div 100 \in Nat
                    /\ (w * hd.risk[c]) \div 100 <= w
    BY <1>1, <1>5, <1>8, RiskBounds
<1>11. M \in V /\ \A m \in V : M >= m
  <2>1. V \subseteq Nat /\ V # {} /\ \A m \in V : m <= 100
      BY <1>9
  <2> HIDE DEF V
  <2> QED
      BY <2>1, MaxIsGreatest
<1>12. P \in T /\ \A m \in T : P >= m
  <2>1. T \subseteq Nat /\ T # {} /\ \A m \in T : m <= w
      BY <1>1, <1>10
  <2> HIDE DEF T
  <2> QED
      BY <1>1, <2>1, MaxIsGreatest
<1>13. M \in 0 .. 100 /\ \A c \in C : hd.risk[c] <= M
    BY <1>9, <1>11
<1>14. P \in Nat /\ \A c \in E : (w * hd.risk[c]) \div 100 <= P
    BY <1>10, <1>12
<1>15. M = 0 \/ \E c \in C : M = hd.risk[c]
    BY <1>11
<1>16. P = 0 \/ \E c \in E : P = (w * hd.risk[c]) \div 100
    BY <1>12
<1> HIDE DEF M, P
<1>17. (w * M) \div 100 \in Nat
    BY <1>1, <1>13, RiskBounds
<1>18. P <= (w * M) \div 100
  <2>1. ASSUME NEW c \in E PROVE (w * hd.risk[c]) \div 100 <= (w * M) \div 100
    <3>1. hd.risk[c] \in 0 .. 100 /\ hd.risk[c] <= M
        BY <1>3, <1>10, <1>13
    <3> QED
        BY <1>1, <1>13, <3>1, RiskOrder
  <2> QED
      BY <1>14, <1>16, <1>17, <2>1
<1>19. (w * M) \div 100 <= P
  <2>1. CASE M = 0
    <3>1. (w * M) \div 100 = 0
        BY <1>1, <2>1
    <3> QED
        BY <1>14, <3>1
  <2>2. ASSUME NEW c \in C, M = hd.risk[c] PROVE (w * M) \div 100 <= P
    <3>1. PICK d \in E : hd.risk[c] <= hd.risk[d]
        BY <1>4
    <3>2. (w * M) \div 100 <= (w * hd.risk[d]) \div 100
        BY <1>1, <1>10, <1>13, <2>2, <3>1, RiskOrder
    <3>3. (w * hd.risk[d]) \div 100 <= P /\ (w * hd.risk[d]) \div 100 \in Nat
        BY <1>10, <1>14
    <3> QED
        BY <1>14, <1>17, <3>2, <3>3
  <2> QED
      BY <1>15, <2>1, <2>2
<1>20. P = (w * M) \div 100
    BY <1>14, <1>17, <1>18, <1>19
<1> QED
    BY <1>6, <1>7, <1>20 DEF a, b, w

(* The problem with the risk of every cell under an edge, not of samples.  *)
TrueProblem(hd, u, v) ==
    [nodes |-> Range(hd.ids), steps |-> TrueSteps(hd), start |-> u, goal |-> v]

LEMMA RouteIsConsistent ==
    ASSUME NEW hd, IsMap(hd), PricedByLength(hd), NEW start \in Nodes(hd), NEW goal \in Nodes(hd)
    PROVE  Consistent(RouteProblem(hd, start, goal))
<1> DEFINE p == RouteProblem(hd, start, goal)
           z == hd.at[goal]
<1>1. /\ p.goal = goal /\ p.steps = {StepOf(hd, e) : e \in FreeEdges(hd)}
      /\ \A u \in Nodes(hd) : p.guess[u] = Distance(hd.at[u], z)
    BY RouteSteps
<1>2. \A u \in Nodes(hd) : IsPoint(hd.at[u])
    BY PointsArePoints DEF IsMap, Nodes
<1>3. IsPoint(z)
    BY <1>2
<1>4. p.guess[p.goal] = 0
    BY <1>1, <1>3, NoDistance
<1> HIDE DEF p
<1>5. ASSUME NEW t \in p.steps PROVE p.guess[t[1]] <= t[3] + p.guess[t[2]]
  <2>1. PICK e \in FreeEdges(hd) : t = StepOf(hd, e)
      BY <1>1
  <2> DEFINE a == hd.at[e.from]
             b == hd.at[e.to]
             c == SemanticEdgeCost(hd, e)
  <2>2. t[1] = e.from /\ t[2] = e.to /\ t[3] = c
      BY <2>1 DEF StepOf
  <2>3. e.from \in Nodes(hd) /\ e.to \in Nodes(hd) /\ e.cost \in Nat
      BY FreeEdgesOfMap
  <2>4. Span(a, b) <= e.cost * e.cost /\ Span(a, b) \in Nat
    <3>1. Span(a, b) <= e.cost * e.cost
        BY DEF PricedByLength, FreeEdges
    <3>2. IsPoint(a) /\ IsPoint(b)
        BY <1>2, <2>3
    <3> QED
        BY <3>1, <3>2, SpanIsNat
  <2>5. c \in Nat /\ Span(a, b) <= c * c
    <3>1. Penalty(hd, a, b) \in Nat
        BY PenaltyIsNat
    <3>2. c = e.cost + Penalty(hd, a, b)
        BY DEF SemanticEdgeCost
    <3> HIDE DEF a, b, c
    <3>3. c \in Nat /\ e.cost <= c
        BY <2>3, <3>1, <3>2
    <3>4. e.cost * e.cost <= c * c
        BY <2>3, <3>3, SquaresKeepOrder
    <3>5. e.cost * e.cost \in Nat /\ c * c \in Nat
        BY <2>3, <3>3, ProductsGrow
    <3> QED
        BY <2>4, <3>3, <3>4, <3>5
  <2>6. p.guess[t[1]] = Distance(a, z) /\ p.guess[t[2]] = Distance(b, z)
      BY <1>1, <2>2, <2>3
  <2>7. IsPoint(a) /\ IsPoint(b)
      BY <1>2, <2>3
  <2> HIDE DEF a, b, c, z
  <2>8. Distance(a, z) <= c + Distance(b, z)
      BY <1>3, <2>5, <2>7, GuessIsConsistent
  <2> QED
      BY <2>2, <2>6, <2>8
<1> QED
    BY <1>4, <1>5 DEF Consistent, p

(* plan_route_graph returns a cheapest way, and it refuses only what       *)
(* cannot be reached: for every map whose free edges, in any direction,    *)
(* cost their length or more (PricedByLength) and lead over no cell that   *)
(* is riskier than all of the nine samples (SampledWell).                  *)
THEOREM RoutePlansAreCheapest ==
    ASSUME NEW hd, IsMap(hd), PricedByLength(hd), SampledWell(hd),
           NEW start \in Range(hd.ids), NEW goal \in Range(hd.ids)
    PROVE  Optimal([nodes |-> Range(hd.ids), steps |-> TrueSteps(hd),
                    start |-> start, goal |-> goal],
                   PlanRouteGraph(hd, start, goal))
<1> DEFINE p == RouteProblem(hd, start, goal)
           r == TrueProblem(hd, start, goal)
<1>1. start \in Nodes(hd) /\ goal \in Nodes(hd)
    BY DEF Nodes
<1>2. IsProblem(p) /\ Consistent(p)
    BY <1>1, RouteIsProblem, RouteIsConsistent
<1>3. SameGraph(r, p)
  <2>1. /\ p.nodes = Nodes(hd) /\ p.start = start /\ p.goal = goal
        /\ p.steps = {StepOf(hd, e) : e \in FreeEdges(hd)}
      BY <1>1, RouteSteps
  <2>2. TrueSteps(hd) = {StepOf(hd, e) : e \in FreeEdges(hd)}
    <3> DEFINE Real(e) == <<e.from, e.to, e.cost + (SemanticWeight
                             * WorstCell(hd, hd.at[e.from], hd.at[e.to])) \div 100>>
    <3>1. TrueSteps(hd) = {Real(e) : e \in FreeEdges(hd)}
        BY DEF TrueSteps, FreeEdges
    <3>2. \A e \in FreeEdges(hd) : Real(e) = StepOf(hd, e)
        BY PenaltyOfWorstCell DEF StepOf, SemanticEdgeCost
    <3> HIDE DEF Real
    <3> QED
        BY <3>1, <3>2
  <2> HIDE DEF p
  <2> QED
      BY <2>1, <2>2 DEF SameGraph, TrueProblem, Nodes
<1>4. PlanRouteGraph(hd, start, goal) = BestFirst(p)
    BY DEF PlanRouteGraph
<1> HIDE DEF p, r
<1>5. Optimal(r, BestFirst(p))
    BY <1>2, <1>3, BestFirstIsOptimal
<1> QED
    BY <1>4, <1>5 DEF r, TrueProblem

-----------------------------------------------------------------------------
(* The graphs of route files.                                              *)

LEMMA SpanBothWays ==
    ASSUME NEW a, NEW b, IsPoint(a), IsPoint(b)
    PROVE  Span(a, b) = Span(b, a)
<1> DEFINE dx == b.x - a.x
           dy == b.y - a.y
<1>1. dx \in Int /\ dy \in Int /\ a.x - b.x = -dx /\ a.y - b.y = -dy
    BY DEF IsPoint
<1>2. Span(a, b) = 100 * (dx * dx + dy * dy)
    BY SpanIsNat
<1>3. Span(b, a) = 100 * ((-dx) * (-dx) + (-dy) * (-dy))
    BY <1>1, SpanIsNat
<1> HIDE DEF dx, dy
<1>4. (-dx) * (-dx) = dx * dx /\ (-dy) * (-dy) = dy * dy
    BY <1>1
<1> QED
    BY <1>2, <1>3, <1>4

(* _route_file_graph prices every edge by its length and knows no risks,   *)
(* so that plans on a route file are cheapest without a condition on it.   *)
LEMMA RouteFilesAreHonest ==
    ASSUME NEW route \in Seq(Points), NEW T, NEW ids \in Seq(T), Len(ids) = Len(route),
           \A i, j \in DOMAIN ids : ids[i] = ids[j] => i = j
    PROVE  PricedByLength(RouteFileGraph(route, ids)) /\ SampledWell(RouteFileGraph(route, ids))
<1> DEFINE hd == RouteFileGraph(route, ids)
           n == Len(ids)
           Cost(i) == Max({1, LengthOf(route[i], route[i + 1])})
           chain == {Edge(ids[i], ids[i + 1], Cost(i)) : i \in 1 .. n - 1}
<1>1. n \in Nat /\ DOMAIN ids = 1 .. n /\ \A i \in 1 .. n : IsPoint(route[i])
    BY PointsArePoints
<1>2. /\ hd.at = [u \in Range(ids) |-> route[CHOOSE i \in DOMAIN ids : ids[i] = u]]
      /\ hd.edges = chain \cup {Reversed(e) : e \in chain}
      /\ hd.risk = << >>
    BY DEF RouteFileGraph, BuildBidirectionalEdges
<1>3. \A i \in 1 .. n : hd.at[ids[i]] = route[i]
  <2> TAKE i \in 1 .. n
  <2>1. ids[i] \in Range(ids)
      BY <1>1 DEF Range
  <2>2. (CHOOSE j \in DOMAIN ids : ids[j] = ids[i]) = i
      BY <1>1
  <2> HIDE DEF hd
  <2> QED
      BY <1>2, <2>1, <2>2
<1>4. SampledWell(hd)
  <2>1. DOMAIN hd.risk = {}
      BY <1>2
  <2> QED
      BY <2>1 DEF SampledWell
<1> HIDE DEF hd
<1>5. ASSUME NEW i \in 1 .. n - 1
      PROVE  /\ Span(route[i], route[i + 1]) <= Cost(i) * Cost(i)
             /\ Span(route[i + 1], route[i]) <= Cost(i) * Cost(i)
  <2> DEFINE a == route[i]
             b == route[i + 1]
             l == LengthOf(a, b)
             c == Cost(i)
  <2>1. IsPoint(a) /\ IsPoint(b)
      BY <1>1
  <2>2. l \in Nat /\ Span(a, b) <= l * l
      BY <2>1, LengthIs
  <2>3. c = IF 1 >= l THEN 1 ELSE l
      BY <2>2, MaxPair
  <2>4. Span(a, b) \in Nat /\ Span(b, a) = Span(a, b)
      BY <2>1, SpanIsNat, SpanBothWays
  <2> HIDE DEF a, b, l, c
  <2>5. c \in Nat /\ l <= c
      BY <2>2, <2>3
  <2>6. l * l <= c * c /\ l * l \in Nat /\ c * c \in Nat
      BY <2>2, <2>5, SquaresKeepOrder, ProductsGrow
  <2>7. Span(a, b) <= c * c
      BY <2>2, <2>4, <2>6
  <2> QED
      BY <2>4, <2>7 DEF a, b, c
<1>6. ASSUME NEW e \in hd.edges
      PROVE  Span(hd.at[e.from], hd.at[e.to]) <= e.cost * e.cost
  <2> HIDE DEF Cost
  <2>1. PICK f \in chain : e = f \/ e = Reversed(f)
    <3> HIDE DEF chain
    <3> QED
        BY <1>2
  <2>2. PICK i \in 1 .. n - 1 : f = Edge(ids[i], ids[i + 1], Cost(i))
      OBVIOUS
  <2>3. f.from = ids[i] /\ f.to = ids[i + 1] /\ f.cost = Cost(i)
      BY <2>2 DEF Edge
  <2>4. f = [from |-> ids[i], to |-> ids[i + 1], cost |-> Cost(i), blocked |-> FALSE]
      BY <2>2 DEF Edge
  <2>5. /\ e.cost = Cost(i)
        /\ \/ e.from = ids[i] /\ e.to = ids[i + 1]
           \/ e.from = ids[i + 1] /\ e.to = ids[i]
    <3>1. CASE e = f
        BY <2>3, <3>1
    <3>2. CASE e = Reversed(f)
      <4>1. Reversed(f) = [f EXCEPT !.from = f.to, !.to = f.from]
          BY DEF Reversed
      <4> HIDE DEF chain
      <4>2. Reversed(f).from = f.to /\ Reversed(f).to = f.from /\ Reversed(f).cost = f.cost
          BY <2>4, <4>1
      <4> QED
          BY <2>3, <3>2, <4>2
    <3> QED
        BY <2>1, <3>1, <3>2
  <2>6. hd.at[ids[i]] = route[i] /\ hd.at[ids[i + 1]] = route[i + 1]
      BY <1>1, <1>3
  <2> QED
      BY <1>5, <2>5, <2>6
<1> QED
    BY <1>4, <1>6 DEF PricedByLength, hd

-----------------------------------------------------------------------------
(* A grid as a problem for the search.                                     *)

(* A grid whose costs are no less than that of a free cell, one step.      *)
IsGrid(g) ==
    /\ g.width \in Nat /\ g.height \in Nat
    /\ \A c \in DOMAIN g.costs : g.costs[c] \in Nat /\ g.costs[c] >= 10

(* The cost of a step onto a cell.                                         *)
GridStep(g, x) == <<x[1], x[2], CellCost(g, x[2])>>

LEMMA CellsOfGrid ==
    ASSUME NEW g, IsGrid(g)
    PROVE  /\ IsFiniteSet(Cells(g))
           /\ \A c \in Cells(g) : /\ c[1] \in Nat /\ c[2] \in Nat /\ c = <<c[1], c[2]>>
                                  /\ IsPoint(AsPoint(c))
                                  /\ AsPoint(c).x = c[1] /\ AsPoint(c).y = c[2]
           /\ \A c : CellCost(g, c) \in Nat /\ CellCost(g, c) >= 10
<1>1. g.width - 1 \in Int /\ g.height - 1 \in Int
    BY DEF IsGrid
<1>2. IsFiniteSet(Cells(g))
  <2>1. IsFiniteSet(0 .. g.width - 1) /\ IsFiniteSet(0 .. g.height - 1)
      BY <1>1, FS_Interval
  <2> QED
      BY <2>1, FS_Product DEF Cells
<1>3. ASSUME NEW c \in Cells(g)
      PROVE  c[1] \in Nat /\ c[2] \in Nat /\ c = <<c[1], c[2]>>
    BY <1>1 DEF Cells
<1>4. ASSUME NEW c \in Cells(g)
      PROVE  IsPoint(AsPoint(c)) /\ AsPoint(c).x = c[1] /\ AsPoint(c).y = c[2]
    BY <1>3 DEF AsPoint, IsPoint
<1>5. \A c : CellCost(g, c) \in Nat /\ CellCost(g, c) >= 10
    BY DEF CellCost, IsGrid
<1> QED
    BY <1>2, <1>3, <1>4, <1>5

LEMMA UsableCells ==
    ASSUME NEW g, IsGrid(g), NEW c \in Int \X Int, Usable(g, c)
    PROVE  c \in Cells(g) /\ c \notin g.blocked
<1>1. c = <<c[1], c[2]>>
    OBVIOUS
<1> QED
    BY <1>1 DEF Usable, InBounds, Passable, Cells

LEMMA NeighborsOfCell ==
    ASSUME NEW g, IsGrid(g), NEW c \in Cells(g), NEW d \in Neighbors(g, c)
    PROVE  /\ d \in Cells(g) /\ d \notin g.blocked
           /\ Span(AsPoint(c), AsPoint(d)) = 100
<1>1. c[1] \in Nat /\ c[2] \in Nat
    BY CellsOfGrid
<1>2. d \in Int \X Int /\ Usable(g, d)
    BY <1>1 DEF Neighbors
<1>3. d \in Cells(g) /\ d \notin g.blocked
    BY <1>2, UsableCells
<1> DEFINE a == AsPoint(c)
           b == AsPoint(d)
<1>4. /\ IsPoint(a) /\ a.x = c[1] /\ a.y = c[2]
      /\ IsPoint(b) /\ b.x = d[1] /\ b.y = d[2]
    BY <1>3, CellsOfGrid
<1> HIDE DEF a, b
<1>5. \/ b.x = a.x /\ (b.y - a.y = 1 \/ b.y - a.y = -1)
      \/ b.y = a.y /\ (b.x - a.x = 1 \/ b.x - a.x = -1)
    BY <1>1, <1>4 DEF Neighbors
<1>6. Span(a, b) = 100 * ((b.x - a.x) * (b.x - a.x) + (b.y - a.y) * (b.y - a.y))
    BY <1>4, SpanIsNat
<1>7. b.x - a.x \in Int /\ b.y - a.y \in Int
      /\ (b.x = a.x => b.x - a.x = 0) /\ (b.y = a.y => b.y - a.y = 0)
    BY <1>4 DEF IsPoint
<1>8. Span(a, b) = 100
  <2>1. 0 * 0 = 0 /\ 1 * 1 = 1 /\ (-1) * (-1) = 1
      OBVIOUS
  <2>2. \A t \in {0, 1, -1} : t * t = IF t = 0 THEN 0 ELSE 1
      BY <2>1
  <2> DEFINE t == b.x - a.x
             r == b.y - a.y
  <2>3. (t = 0 /\ r \in {1, -1}) \/ (r = 0 /\ t \in {1, -1})
      BY <1>5, <1>7
  <2> HIDE DEF t, r
  <2>4. t * t + r * r = 1
      BY <2>2, <2>3
  <2> QED
      BY <1>6, <2>4 DEF t, r
<1> QED
    BY <1>3, <1>8 DEF a, b

LEMMA GridSteps ==
    ASSUME NEW g, IsGrid(g), NEW start \in Cells(g), NEW goal \in Cells(g)
    PROVE  LET p == GridProblem(g, start, goal)
           IN  /\ p.nodes = Cells(g) /\ p.start = start /\ p.goal = goal
               /\ \A e \in p.steps : \E c \in Cells(g) : \E d \in Neighbors(g, c) :
                     e = <<c, d, CellCost(g, d)>>
               /\ \A c \in Cells(g) : p.guess[c] = Distance(AsPoint(c), AsPoint(goal))
    BY DEF GridProblem

LEMMA GridIsProblem ==
    ASSUME NEW g, IsGrid(g), NEW start \in Cells(g), NEW goal \in Cells(g)
    PROVE  IsProblem(GridProblem(g, start, goal)) /\ Consistent(GridProblem(g, start, goal))
<1> DEFINE p == GridProblem(g, start, goal)
           N == Cells(g)
           z == AsPoint(goal)
<1>1. p.nodes = N /\ p.start = start /\ p.goal = goal
      /\ \A c \in N : p.guess[c] = Distance(AsPoint(c), z)
    BY GridSteps
<1>2. ASSUME NEW e \in p.steps
      PROVE  /\ e[1] \in N /\ e[2] \in Neighbors(g, e[1]) /\ e[2] \in N
             /\ e[3] = CellCost(g, e[2]) /\ e[3] \in Nat /\ e[3] >= 10
             /\ e = <<e[1], e[2], e[3]>>
  <2>1. PICK c \in N : \E d \in Neighbors(g, c) : e = <<c, d, CellCost(g, d)>>
      BY GridSteps
  <2>2. PICK d \in Neighbors(g, c) : e = <<c, d, CellCost(g, d)>>
      BY <2>1
  <2>3. d \in N /\ CellCost(g, d) \in Nat /\ CellCost(g, d) >= 10
      BY NeighborsOfCell, CellsOfGrid
  <2>4. e[1] = c /\ e[2] = d /\ e[3] = CellCost(g, d)
      BY <2>2
  <2> HIDE DEF p, N
  <2> QED
      BY <2>2, <2>3, <2>4
<1>3. IsFiniteSet(N)
    BY CellsOfGrid
<1>4. IsFiniteSet(p.steps)
  <2> DEFINE f == [x \in N \X N |-> GridStep(g, x)]
             R == {f[x] : x \in N \X N}
  <2>1. IsFiniteSet(N \X N)
      BY <1>3, FS_Product
  <2> HIDE DEF N
  <2>2. f = [x \in N \X N |-> f[x]]
      OBVIOUS
  <2>3. \A c, d \in N : f[<<c, d>>] = <<c, d, CellCost(g, d)>>
      BY DEF GridStep
  <2> HIDE DEF f
  <2>4. IsFiniteSet(R)
      BY <2>1, <2>2, ImageIsFinite
  <2>5. ASSUME NEW e \in p.steps PROVE e \in R
    <3>1. e[1] \in N /\ e[2] \in N /\ e = <<e[1], e[2], CellCost(g, e[2])>>
        BY <1>2
    <3>2. e = f[<<e[1], e[2]>>] /\ <<e[1], e[2]>> \in N \X N
        BY <2>3, <3>1
    <3> QED
        BY <3>2
  <2> HIDE DEF R, p
  <2> QED
      BY <2>4, <2>5, FS_Subset
<1>5. p.steps \subseteq N \X N \X (Nat \ {0})
  <2>1. ASSUME NEW e \in p.steps PROVE e \in N \X N \X (Nat \ {0})
    <3>1. e[1] \in N /\ e[2] \in N /\ e[3] \in Nat \ {0} /\ e = <<e[1], e[2], e[3]>>
        BY <1>2
    <3> HIDE DEF p, N
    <3> QED
        BY <3>1
  <2> QED
      BY <2>1
<1>6. p.guess \in [N -> Nat]
  <2>1. \A c \in N : Distance(AsPoint(c), z) \in Nat
      BY CellsOfGrid, DistanceIsRoot DEF IsRoot
  <2> QED
      BY <2>1 DEF GridProblem
<1>7. p.rank \in [N -> Nat]
  <2>1. ASSUME NEW c \in N PROVE c[1] * g.height + c[2] \in Nat
    <3>1. c[1] \in Nat /\ c[2] \in Nat /\ g.height \in Nat
        BY CellsOfGrid DEF IsGrid
    <3>2. c[1] * g.height \in Nat
        BY <3>1, ProductsGrow
    <3> QED
        BY <3>1, <3>2
  <2> QED
      BY <2>1 DEF GridProblem
<1>8. IsPoint(z) /\ \A c \in N : IsPoint(AsPoint(c))
    BY CellsOfGrid
<1>9. Distance(z, z) = 0
    BY <1>8, NoDistance
<1>10. start \in N /\ goal \in N
    OBVIOUS
<1>11. p.guess[goal] = 0
    BY <1>1, <1>9
<1> HIDE DEF p, z
<1>12. ASSUME NEW e \in p.steps PROVE p.guess[e[1]] <= e[3] + p.guess[e[2]]
  <2>1. e[1] \in N /\ e[2] \in N /\ e[2] \in Neighbors(g, e[1]) /\ e[3] \in Nat /\ e[3] >= 10
      BY <1>2
  <2>2. Span(AsPoint(e[1]), AsPoint(e[2])) <= e[3] * e[3]
    <3>1. Span(AsPoint(e[1]), AsPoint(e[2])) = 100
        BY <2>1, NeighborsOfCell
    <3>2. 10 * 10 <= e[3] * e[3] /\ e[3] * e[3] \in Nat
        BY <2>1, SquaresKeepOrder, ProductsGrow
    <3> QED
        BY <3>1, <3>2
  <2>3. IsPoint(AsPoint(e[1])) /\ IsPoint(AsPoint(e[2]))
      BY <1>8, <2>1
  <2>4. Distance(AsPoint(e[1]), z) <= e[3] + Distance(AsPoint(e[2]), z)
      BY <1>8, <2>1, <2>2, <2>3, GuessIsConsistent
  <2> QED
      BY <1>1, <2>1, <2>4
<1> HIDE DEF N
<1>13. IsProblem(p)
    BY <1>1, <1>3, <1>4, <1>5, <1>6, <1>7, <1>10 DEF IsProblem
<1>14. Consistent(p)
    BY <1>1, <1>11, <1>12 DEF Consistent
<1> QED
    BY <1>13, <1>14 DEF p

(* GridPlanner.plan returns a cheapest path of usable cells, for grids of  *)
(* every size, and refuses exactly what has none.                          *)
THEOREM GridPlansAreCheapest ==
    ASSUME NEW g, IsGrid(g), NEW start \in Int \X Int, NEW goal \in Int \X Int
    PROVE  /\ \A r \in PlanGrid(g, start, goal) : Range(r.nodes) \cap g.blocked = {}
           /\ IF Usable(g, start) /\ Usable(g, goal)
              THEN Optimal(GridProblem(g, start, goal), PlanGrid(g, start, goal))
              ELSE PlanGrid(g, start, goal) = {}
<1> DEFINE p == GridProblem(g, start, goal)
<1>1. CASE ~(Usable(g, start) /\ Usable(g, goal))
    BY <1>1 DEF PlanGrid
<1>2. CASE Usable(g, start) /\ Usable(g, goal)
  <2>1. start \in Cells(g) /\ goal \in Cells(g) /\ start \notin g.blocked
      BY <1>2, UsableCells
  <2>2. IsProblem(p) /\ Consistent(p)
      BY <2>1, GridIsProblem
  <2>3. PlanGrid(g, start, goal) = BestFirst(p)
      BY <1>2 DEF PlanGrid
  <2>4. Optimal(p, BestFirst(p))
    <3>1. SameGraph(p, p)
        BY DEF SameGraph
    <3> HIDE DEF p
    <3> QED
        BY <2>2, <3>1, BestFirstIsOptimal
  <2>5. ASSUME NEW r \in BestFirst(p) PROVE Range(r.nodes) \cap g.blocked = {}
    <3> DEFINE w == r.nodes
    <3>1. p.start = start /\ \A e \in p.steps : e[2] \notin g.blocked
      <4>1. \A e \in p.steps : \E c \in Cells(g) : \E d \in Neighbors(g, c) :
               e = <<c, d, CellCost(g, d)>>
          BY <2>1, GridSteps
      <4> QED
          BY <2>1, <4>1, GridSteps, NeighborsOfCell
    <3> HIDE DEF p
    <3>2. IsWalk(p, w)
        BY <2>2, PlansAreWalks
    <3> HIDE DEF w
    <3>3. ASSUME NEW i \in 1 .. Len(w) PROVE w[i] \notin g.blocked
      <4>1. CASE i = 1
          BY <2>1, <3>1, <3>2, <4>1 DEF IsWalk
      <4>2. CASE i # 1
        <5> DEFINE j == i - 1
        <5>1. j \in 1 .. Len(w) - 1 /\ j + 1 = i
            BY <3>2, <4>2 DEF IsWalk
        <5>2. PICK e \in p.steps : e[1] = w[j] /\ e[2] = w[j + 1]
            BY <3>2, <5>1 DEF IsWalk, Joined
        <5> QED
            BY <3>1, <5>1, <5>2
      <4> QED
          BY <4>1, <4>2
    <3>4. DOMAIN w = 1 .. Len(w)
        BY <3>2 DEF IsWalk
    <3> QED
        BY <3>3, <3>4 DEF Range, w
  <2> QED
      BY <1>2, <2>3, <2>4, <2>5
<1> QED
    BY <1>1, <1>2

-----------------------------------------------------------------------------
(* Both searches of the instance.                                          *)

(* The grid of a behaviour is one of those of the instance.                *)
GridInv == GridPlanIsCheapest /\ (part = "grid" => IsGrid(grid))

LEMMA GridsOfInstance ==
    ASSUME NEW g \in MCGrids
    PROVE  IsGrid(g)
<1>1. PICK b \in MCBlocked, k \in MCCostly : g = GridWith(b, k)
    BY DEF MCGrids
<1>2. g.width = 3 /\ g.height = 3 /\ g.costs = [c \in k |-> 25]
    BY <1>1 DEF GridWith
<1>3. \A c \in DOMAIN g.costs : g.costs[c] = 25
    BY <1>2
<1> QED
    BY <1>2, <1>3 DEF IsGrid

LEMMA GridInvInit == MCInit => GridInv
<1> SUFFICES ASSUME MCInit PROVE GridInv
    OBVIOUS
<1>1. grid_plan = {} /\ (part = "grid" => grid \in MCGrids)
    BY Zenon DEF MCInit
<1> QED
    BY <1>1, GridsOfInstance DEF GridInv, GridPlanIsCheapest

LEMMA GridInvStep ==
    ASSUME GridInv, [MCNext]_mcVars
    PROVE  GridInv'
<1>1. CASE UNCHANGED <<part, gridVars>>
    BY <1>1 DEF gridVars, GridInv, GridPlanIsCheapest
<1>2. ASSUME part = "grid", PlanOnGrid, UNCHANGED <<part, grid>>
      PROVE  GridInv'
  <2>1. PICK start \in {<<0, 0>>, <<1, 0>>}, goal \in GridCells \cup {<<3, 0>>} :
           grid_plan' = {[start |-> start, goal |-> goal,
                          plans |-> PlanGrid(grid, start, goal)]}
      BY <1>2 DEF PlanOnGrid
  <2>2. start \in Int \X Int /\ goal \in Int \X Int
      BY DEF GridCells
  <2>3. IsGrid(grid)
      BY <1>2 DEF GridInv
  <2> DEFINE plans == PlanGrid(grid, start, goal)
  <2>4. /\ \A r \in plans : Range(r.nodes) \cap grid.blocked = {}
        /\ IF Usable(grid, start) /\ Usable(grid, goal)
           THEN Optimal(GridProblem(grid, start, goal), plans)
           ELSE plans = {}
      BY <2>2, <2>3, GridPlansAreCheapest
  <2> HIDE DEF plans
  <2>5. \A q \in grid_plan' : q.start = start /\ q.goal = goal /\ q.plans = plans
      BY <2>1 DEF plans
  <2>6. grid' = grid
      BY <1>2
  <2>7. GridPlanIsCheapest'
      BY <2>4, <2>5, <2>6 DEF GridPlanIsCheapest
  <2> QED
      BY <1>2, <2>3, <2>6, <2>7 DEF GridInv
<1> QED
    BY <1>1, <1>2 DEF MCNext, MCNav, mcVars

LEMMA PlansOfStep ==
    ASSUME NavInv, [MCNext]_mcVars
    PROVE  PlanIsCheapest
<1> SUFFICES ASSUME plan' # plan, NEW q \in plan'
             PROVE  Optimal([nodes |-> Range(HdMap.ids), steps |-> TrueSteps(HdMap),
                             start |-> q.nodes[1], goal |-> q.nodes[Len(q.nodes)]], {q})
    BY DEF PlanIsCheapest
<1>1. PublishPlan
    BY DEF MCNext, MCNav, NavNext, mcVars, navVars, OnGoalRequest, RvizGoal, OnGoalPose,
           OnNavOdom, TakePath
<1>2. q \in PlansTo(goal_node)
    BY <1>1 DEF PublishPlan
<1>3. PICK t \in PlanTable : t[1] = map /\ t[2] \in pose /\ t[3] = goal_node /\ q \in t[4]
    BY <1>2 DEF PlansTo
<1>4. PICK m \in DOMAIN Maps :
         t \in {<<m, p, v, {WithPoints(Maps[m], r) :
                           r \in PlanRouteGraph(Maps[m], Nearest(Maps[m], p), v)}>> :
                  p \in OdomPoses, v \in Range(Maps[m].ids)}
    BY <1>3 DEF PlanTable
<1>5. PICK p \in OdomPoses, v \in Range(Maps[m].ids) :
         t = <<m, p, v, {WithPoints(Maps[m], r) :
                           r \in PlanRouteGraph(Maps[m], Nearest(Maps[m], p), v)}>>
    BY <1>4
<1> DEFINE hd == HdMap
           u == Nearest(hd, p)
           A == PlanRouteGraph(hd, u, v)
           P == [nodes |-> Range(hd.ids), steps |-> TrueSteps(hd), start |-> u, goal |-> v]
<1>6. m = map /\ Maps[m] = hd
    BY <1>3, <1>5 DEF HdMap
<1>7. IsMap(hd) /\ PricedByLength(hd) /\ SampledWell(hd) /\ v \in Range(hd.ids)
    BY <1>6, NavAssumption, HonestMaps
<1>8. u \in Range(hd.ids)
  <2>1. IsPoint(p)
      BY PlannerAssumption DEF Poses, IsPoint
  <2> QED
      BY <1>7, <2>1, NearestIsNode DEF Nodes
<1>9. PICK r \in A : q = WithPoints(hd, r)
    BY <1>3, <1>5, <1>6
<1> HIDE DEF hd, u, A
<1>10. q.nodes = r.nodes /\ q.cost = r.cost
    BY <1>9 DEF WithPoints
<1>11. Optimal(P, A)
    BY <1>7, <1>8, RoutePlansAreCheapest DEF A
<1>12. r.nodes[1] = u /\ r.nodes[Len(r.nodes)] = v
    BY <1>7, <1>8, PlanIsDriveable DEF A, Nodes
<1> HIDE DEF P
<1>13. Optimal(P, {q})
  <2> DEFINE Good(w, x) ==
               /\ w[1] = P.start /\ w[Len(w)] = P.goal
               /\ \A i \in 1 .. Len(w) - 1 :
                     \E e \in P.steps : e[1] = w[i] /\ e[2] = w[i + 1]
               /\ <<P.goal, x>> \in LeastCosts(P)
               /\ WalkCost(P, w) = x
  <2>1. Good(r.nodes, r.cost)
      BY <1>11 DEF Optimal
  <2>2. Good(q.nodes, q.cost)
      BY <1>10, <2>1
  <2> QED
      BY <2>2 DEF Optimal
<1> QED
    BY <1>10, <1>12, <1>13 DEF P, hd

(* Both searches are exact: what they return is optimal, and they refuse   *)
(* only what has no solution; for maps that are priced by length and       *)
(* sampled well (HonestMaps), in whatever direction their edges lead.      *)
THEOREM SearchesAreCheapest == MCSpec => SearchIsCheapest
<1>1. NavInv /\ [MCNext]_mcVars => NavInv' /\ PlanIsCheapest
    BY NavInvStep, PlansOfStep
<1>2. GridInv /\ [MCNext]_mcVars => GridInv' /\ GridPlanIsCheapest'
    BY GridInvStep DEF GridInv
<1> QED
    BY <1>1, <1>2, NavInvInit, GridInvInit, PTL DEF MCSpec, SearchIsCheapest
=============================================================================
