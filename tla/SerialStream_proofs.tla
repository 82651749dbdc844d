------------------------ MODULE SerialStream_proofs ------------------------
(***************************************************************************)
(* What read_frame makes of a damaged line, for every number of frames,    *)
(* every payload and every CRC that detects the damage of a byte           *)
(* (FrameAssumption), and every way to cut the line into chunks.           *)
(*                                                                         *)
(* The loop of _pop_frame_from_buffer comes first: a turn that goes on     *)
(* shortens the buffer, so the loop has a value for every buffer, and      *)
(* unrolls.  Then follow the lines that one damage leaves, what a read     *)
(* makes of a buffer that begins at a whole frame, at the damaged one, or  *)
(* inside it, and the inductive invariant SerialInv.                       *)
(***************************************************************************)
EXTENDS SerialStream, TLAPS, SequenceTheorems, FiniteSetTheorems, WellFoundedInduction

(* Least numbers, and induction over them.                                 *)
LEMMA LeastOf ==
    ASSUME NEW T, T \subseteq Nat, T # {}
    PROVE  \E n \in T : \A m \in T : n <= m
<1>1. PICK n \in T : \A m \in T : ~(<<m, n>> \in OpToRel(<, Nat))
    BY WFMin, NatLessThanWellFounded
<1>2. \A m \in T : ~(m < n)
    BY <1>1 DEF OpToRel
<1> QED
    BY <1>2

LEMMA ByInduction ==
    ASSUME NEW T, T \subseteq Nat, 0 \in T, \A n \in T : n + 1 \in T
    PROVE  T = Nat
<1> SUFFICES ASSUME Nat \ T # {} PROVE FALSE
    OBVIOUS
<1>1. PICK n \in Nat \ T : \A m \in Nat \ T : n <= m
    BY LeastOf
<1>2. n - 1 \in Nat
    BY <1>1
<1>3. n - 1 \in T
    BY <1>1, <1>2
<1> QED
    BY <1>1, <1>3

(* A loop that goes on from the elements of More, each time from a smaller *)
(* one, and gives what final says in the end.                              *)
IsLoop(S, size, More, after) ==
    /\ size \in [S -> Nat] /\ More \subseteq S
    /\ \A c \in More : after[c] \in S /\ size[after[c]] < size[c]

LoopsUpTo(S, size, More, after, final, f, k) ==
    \A c \in S : size[c] <= k => f[c] = IF c \in More THEN f[after[c]] ELSE final[c]

LEMMA LoopsFrom ==
    ASSUME NEW S, NEW size, NEW More, NEW after, NEW final, IsLoop(S, size, More, after)
    PROVE  \A k \in Nat : \E f : LoopsUpTo(S, size, More, after, final, f, k)
<1> DEFINE Up(f, k) == LoopsUpTo(S, size, More, after, final, f, k)
           T == {k \in Nat : \E f : Up(f, k)}
<1>1. 0 \in T
  <2> DEFINE f == [c \in S |-> final[c]]
  <2>1. ASSUME NEW c \in S, size[c] <= 0
        PROVE  f[c] = IF c \in More THEN f[after[c]] ELSE final[c]
    <3>1. c \notin More
        BY <2>1 DEF IsLoop
    <3> QED
        BY <3>1
  <2> HIDE DEF f
  <2>2. Up(f, 0)
      BY <2>1 DEF LoopsUpTo
  <2> QED
      BY <2>2
<1>2. ASSUME NEW k \in T PROVE k + 1 \in T
  <2>1. PICK g : Up(g, k)
      OBVIOUS
  <2> DEFINE f == [c \in S |-> IF c \in More THEN g[after[c]] ELSE final[c]]
  <2>2. ASSUME NEW c \in S, size[c] <= k + 1
        PROVE  f[c] = IF c \in More THEN f[after[c]] ELSE final[c]
    <3>1. CASE c \in More
      <4>1. after[c] \in S /\ size[after[c]] < size[c]
          BY <3>1 DEF IsLoop
      <4>2. size[after[c]] <= k
          BY <4>1, <2>2 DEF IsLoop
      <4>3. g[after[c]] = IF after[c] \in More THEN g[after[after[c]]] ELSE final[after[c]]
          BY <2>1, <4>1, <4>2 DEF LoopsUpTo
      <4>4. f[after[c]] = g[after[c]]
          BY <4>1, <4>3
      <4> QED
          BY <3>1, <4>4
    <3>2. CASE c \notin More
        BY <3>2
    <3> QED
        BY <3>1, <3>2
  <2> HIDE DEF f
  <2>3. Up(f, k + 1)
      BY <2>2 DEF LoopsUpTo
  <2> QED
      BY <2>3
<1>3. T \subseteq Nat
    OBVIOUS
<1>4. T = Nat
  <2> HIDE DEF T
  <2> QED
      BY <1>1, <1>2, <1>3, ByInduction
<1> QED
    BY <1>4

LEMMA LoopsAgree ==
    ASSUME NEW S, NEW size, NEW More, NEW after, NEW final, IsLoop(S, size, More, after),
           NEW f, NEW g, NEW k \in Nat, NEW l \in Nat,
           LoopsUpTo(S, size, More, after, final, f, k),
           LoopsUpTo(S, size, More, after, final, g, l),
           NEW c \in S, size[c] <= k, size[c] <= l
    PROVE  f[c] = g[c]
<1> DEFINE Bad == {x \in S : size[x] <= k /\ size[x] <= l /\ f[x] # g[x]}
           T == {size[x] : x \in Bad}
<1> SUFFICES ASSUME Bad # {} PROVE FALSE
    OBVIOUS
<1>1. T \subseteq Nat /\ T # {}
    BY DEF IsLoop
<1>2. PICK n \in T : \A m \in T : n <= m
  <2> HIDE DEF T
  <2> QED
      BY <1>1, LeastOf
<1>3. PICK x \in Bad : size[x] = n
    OBVIOUS
<1>4. x \in S /\ size[x] <= k /\ size[x] <= l /\ f[x] # g[x] /\ size[x] \in Nat
    BY <1>3 DEF IsLoop
<1>5. /\ f[x] = IF x \in More THEN f[after[x]] ELSE final[x]
      /\ g[x] = IF x \in More THEN g[after[x]] ELSE final[x]
    BY <1>4 DEF LoopsUpTo
<1>6. x \in More /\ f[after[x]] # g[after[x]]
    BY <1>4, <1>5
<1>7. after[x] \in S /\ size[after[x]] < size[x] /\ size[after[x]] \in Nat
    BY <1>6 DEF IsLoop
<1>8. after[x] \in Bad
    BY <1>4, <1>6, <1>7
<1>9. size[after[x]] \in T
    BY <1>8
<1> QED
    BY <1>2, <1>3, <1>4, <1>7, <1>9

LEMMA LoopExists ==
    ASSUME NEW S, NEW size, NEW More, NEW after, NEW final, IsLoop(S, size, More, after)
    PROVE  \E f : f = [c \in S |-> IF c \in More THEN f[after[c]] ELSE final[c]]
<1> DEFINE Up(f, k) == LoopsUpTo(S, size, More, after, final, f, k)
           Of_(k) == CHOOSE f : Up(f, k)
           h == [c \in S |-> Of_(size[c])[c]]
<1>1. \A k \in Nat : Up(Of_(k), k)
    BY LoopsFrom
<1>2. ASSUME NEW c \in S PROVE h[c] = IF c \in More THEN h[after[c]] ELSE final[c]
  <2>1. size[c] \in Nat
      BY DEF IsLoop
  <2>2. Of_(size[c])[c] = IF c \in More THEN Of_(size[c])[after[c]] ELSE final[c]
    <3>1. Up(Of_(size[c]), size[c])
        BY <1>1, <2>1
    <3> QED
        BY <3>1, <2>1 DEF LoopsUpTo
  <2>3. CASE c \in More
    <3>1. after[c] \in S /\ size[after[c]] < size[c] /\ size[after[c]] \in Nat
        BY <2>3 DEF IsLoop
    <3> DEFINE a == after[c]
               F == Of_(size[c])
               G == Of_(size[a])
    <3>2. Up(F, size[c]) /\ Up(G, size[a])
        BY <1>1, <2>1, <3>1
    <3> HIDE DEF F, G, Of_
    <3>3. a \in S /\ size[a] \in Nat /\ size[a] <= size[c] /\ size[a] <= size[a]
        BY <2>1, <3>1
    <3> HIDE DEF a
    <3>4. F[a] = G[a]
        BY <2>1, <3>2, <3>3, LoopsAgree
    <3>5. h[a] = G[a]
        BY <3>3 DEF G
    <3>6. h[c] = F[a]
        BY <2>2, <2>3 DEF F, a
    <3> QED
        BY <2>3, <3>4, <3>5, <3>6 DEF a
  <2>4. CASE c \notin More
      BY <2>2, <2>4
  <2> QED
      BY <2>3, <2>4
<1>3. h = [c \in S |-> IF c \in More THEN h[after[c]] ELSE final[c]]
  <2> DEFINE r == [c \in S |-> IF c \in More THEN h[after[c]] ELSE final[c]]
  <2>1. DOMAIN h = S /\ DOMAIN r = S /\ \A c \in S : h[c] = r[c]
    <3> HIDE DEF h
    <3>1. \A c \in S : h[c] = r[c]
        BY <1>2
    <3> QED
        BY <3>1 DEF h
  <2>2. h = [c \in DOMAIN h |-> h[c]] /\ r = [c \in DOMAIN r |-> r[c]]
      OBVIOUS
  <2> HIDE DEF h, r
  <2>3. h = r
      BY <2>1, <2>2
  <2> QED
      BY <2>3 DEF r
<1> QED
    BY <1>3

(* The bytes in a buffer.                                                  *)
Buffers == Seq(Bytes)

(* Where the first MAGIC is.                                               *)
LEMMA FirstMagic ==
    ASSUME NEW b \in Buffers, MagicAt(b) # {}
    PROVE  /\ Min(MagicAt(b)) \in MagicAt(b)
           /\ \A i \in MagicAt(b) : Min(MagicAt(b)) <= i
<1> DEFINE T == MagicAt(b)
<1>1. Len(b) \in Nat
    BY DEF Buffers
<1>2. T \subseteq Nat /\ T # {}
    BY <1>1 DEF MagicAt
<1> HIDE DEF T
<1>3. \E n \in T : \A m \in T : n <= m
    BY <1>2, LeastOf
<1>4. Min(T) \in T /\ \A m \in T : Min(T) <= m
    BY <1>3 DEF Min
<1> QED
    BY <1>4 DEF T

(* The rest of a buffer, and a frame in front of it.                       *)
LEMMA RestOf ==
    ASSUME NEW b \in Buffers, NEW q \in 0 .. Len(b)
    PROVE  LET r == SubSeq(b, q + 1, Len(b)) IN
           /\ r \in Buffers /\ Len(r) = Len(b) - q
           /\ \A i \in 1 .. Len(r) : r[i] = b[q + i]
<1>1. Len(b) \in Nat /\ q \in Nat /\ \A i \in q + 1 .. Len(b) : b[i] \in Bytes
    BY DEF Buffers
<1> DEFINE r == SubSeq(b, q + 1, Len(b))
<1>2. /\ r \in Seq(Bytes)
      /\ Len(r) = IF q + 1 <= Len(b) THEN Len(b) - (q + 1) + 1 ELSE 0
      /\ \A i \in 1 .. Len(b) - (q + 1) + 1 : r[i] = b[q + 1 + i - 1]
  <2>1. q + 1 \in Int /\ Len(b) \in Int
      BY <1>1
  <2> QED
      BY <1>1, <2>1, SubSeqProperties
<1> HIDE DEF r
<1>3. Len(r) = Len(b) - q
  <2>1. CASE q + 1 <= Len(b)
      BY <1>1, <1>2, <2>1
  <2>2. CASE ~(q + 1 <= Len(b))
      BY <1>1, <1>2, <2>2
  <2> QED
      BY <2>1, <2>2
<1>4. ASSUME NEW i \in 1 .. Len(r) PROVE r[i] = b[q + i]
  <2>1. i \in 1 .. Len(b) - (q + 1) + 1 /\ q + 1 + i - 1 = q + i
      BY <1>1, <1>3
  <2> QED
      BY <1>2, <2>1
<1> QED
    BY <1>2, <1>3, <1>4 DEF r, Buffers

LEMMA PartOf ==
    ASSUME NEW b \in Buffers, NEW q \in Nat, NEW n \in Nat, q + n <= Len(b)
    PROVE  LET r == SubSeq(b, q + 1, q + n) IN
           /\ r \in Buffers /\ Len(r) = n
           /\ \A i \in 1 .. n : r[i] = b[q + i]
<1>1. Len(b) \in Nat /\ \A i \in q + 1 .. q + n : b[i] \in Bytes
    BY DEF Buffers
<1> DEFINE r == SubSeq(b, q + 1, q + n)
<1>2. /\ r \in Seq(Bytes)
      /\ Len(r) = IF q + 1 <= q + n THEN q + n - (q + 1) + 1 ELSE 0
      /\ \A i \in 1 .. q + n - (q + 1) + 1 : r[i] = b[q + 1 + i - 1]
  <2>1. q + 1 \in Int /\ q + n \in Int
      OBVIOUS
  <2> QED
      BY <1>1, <2>1, SubSeqProperties
<1> HIDE DEF r
<1>3. Len(r) = n
    BY <1>2
<1>4. ASSUME NEW i \in 1 .. n PROVE r[i] = b[q + i]
  <2>1. i \in 1 .. q + n - (q + 1) + 1 /\ q + 1 + i - 1 = q + i
      OBVIOUS
  <2> QED
      BY <1>2, <2>1
<1> QED
    BY <1>2, <1>3, <1>4 DEF r, Buffers

LEMMA FirstBytes ==
    ASSUME NEW b \in Buffers, NEW n \in Nat, n <= Len(b)
    PROVE  LET r == SubSeq(b, 1, n) IN
           /\ r \in Buffers /\ Len(r) = n
           /\ \A i \in 1 .. n : r[i] = b[i]
<1> DEFINE q == 0
<1>1. q \in Nat /\ q + n <= Len(b) /\ q + 1 = 1 /\ q + n = n /\ \A i \in 1 .. n : q + i = i
    OBVIOUS
<1> HIDE DEF q
<1>2. LET r == SubSeq(b, q + 1, q + n) IN
      /\ r \in Buffers /\ Len(r) = n
      /\ \A i \in 1 .. n : r[i] = b[q + i]
    BY <1>1, PartOf
<1> QED
    BY <1>1, <1>2

LEMMA EncodeIs ==
    ASSUME NEW i \in 1 .. MaxSent
    PROVE  /\ Encode(i) \in Buffers /\ Len(Encode(i)) = 5
           /\ Encode(i)[1] = A /\ Encode(i)[2] = R
           /\ Encode(i)[3] = 1 /\ Encode(i)[4] = Payload[i]
           /\ Encode(i)[5] = Crc[i]
<1>1. Payload[i] \in Bytes /\ Crc[i] \in Bytes
    BY FrameAssumption
<1>2. 4 \in Bytes /\ 5 \in Bytes /\ 1 \in Bytes
    BY DEF Bytes
<1> HIDE DEF Bytes
<1> QED
    BY <1>1, <1>2 DEF Encode, A, R, Buffers

(* A sequence of five bytes that decodes.                                  *)
LEMMA DecodeIs ==
    ASSUME NEW raw \in Buffers, NEW i \in 1 .. MaxSent
    PROVE  i \in Decode(raw) <=> FrameAt(raw, 1, i) /\ Len(raw) = 5
<1> DEFINE e == Encode(i)
<1>1. e \in Buffers /\ Len(e) = 5
    BY EncodeIs
<1> HIDE DEF e
<1>2. ASSUME raw = e PROVE FrameAt(raw, 1, i) /\ Len(raw) = 5
  <2>1. ASSUME NEW o \in 1 .. 5 PROVE raw[1 + o - 1] = Encode(i)[o]
    <3>1. 1 + o - 1 = o
        OBVIOUS
    <3>2. raw[o] = Encode(i)[o]
        BY <1>2 DEF e
    <3> QED
        BY <3>1, <3>2
  <2>2. Len(raw) = 5
      BY <1>1, <1>2, Zenon
  <2>3. 1 + 4 <= Len(raw)
      BY <2>2
  <2> QED
      BY <2>1, <2>2, <2>3 DEF FrameAt
<1>3. ASSUME FrameAt(raw, 1, i), Len(raw) = 5 PROVE raw = e
  <2>1. \A o \in 1 .. 5 : 1 + o - 1 = o
      OBVIOUS
  <2>2. \A o \in 1 .. Len(raw) : raw[o] = e[o]
      BY <1>3, <2>1 DEF FrameAt, e
  <2> QED
      BY <1>1, <1>3, <2>2, SeqEqual DEF Buffers
<1> QED
    BY <1>2, <1>3 DEF Decode, e

(* What one turn of the loop does to a buffer: it takes bytes from its     *)
(* front, and a frame it returns is the last that was taken.               *)
Taken(b, r, q) ==
    /\ q \in 0 .. Len(b) /\ r.rest = SubSeq(b, q + 1, Len(b))
    /\ \A i \in r.frame : i \in 1 .. MaxSent /\ q >= 5 /\ FrameAt(b, q - 4, i)

Ready(b) == MagicAt(b) # {}
Ahead(b) == SubSeq(b, Min(MagicAt(b)), Len(b))

LEMMA FrontIs ==
    ASSUME NEW b \in Buffers, Ready(b)
    PROVE  \E k \in Nat :
              /\ k + 2 <= Len(b) /\ b[k + 1] = A /\ b[k + 2] = R
              /\ Min(MagicAt(b)) = k + 1
              /\ Ahead(b) \in Buffers /\ Len(Ahead(b)) = Len(b) - k
              /\ \A i \in 1 .. Len(Ahead(b)) : Ahead(b)[i] = b[k + i]
<1> DEFINE T == MagicAt(b)
           m == Min(T)
           k == m - 1
<1>1. m \in T
    BY FirstMagic DEF Ready
<1>2. Len(b) \in Nat
    BY DEF Buffers
<1>3. m \in 1 .. Len(b) - 1 /\ b[m] = A /\ b[m + 1] = R
  <2> HIDE DEF m
  <2> QED
      BY <1>1, <1>2 DEF MagicAt
<1> HIDE DEF m, T
<1>4. k \in 0 .. Len(b) /\ k \in Nat /\ k + 2 <= Len(b) /\ k + 1 = m /\ k + 2 = m + 1
    BY <1>2, <1>3
<1>5. Ahead(b) = SubSeq(b, k + 1, Len(b))
    BY <1>4 DEF Ahead, T, m
<1> HIDE DEF k
<1>6. /\ Ahead(b) \in Buffers /\ Len(Ahead(b)) = Len(b) - k
      /\ \A i \in 1 .. Len(Ahead(b)) : Ahead(b)[i] = b[k + i]
    BY <1>4, <1>5, RestOf
<1> QED
    BY <1>3, <1>4, <1>6 DEF m, T

LEMMA TurnTakes ==
    ASSUME NEW b \in Buffers
    PROVE  /\ Turn(b).cut \in BOOLEAN
           /\ \E q : /\ Taken(b, Turn(b), q)
                     /\ Turn(b).again => q > 0
<1>1. Len(b) \in Nat
    BY DEF Buffers
<1> DEFINE t == Turn(b)
<1>2. CASE ~Ready(b)
  <2>1. t = Result({}, << >>, FALSE, b # << >> /\ Last(b) = A)
      BY <1>2 DEF Turn, Ready
  <2>2. SubSeq(b, Len(b) + 1, Len(b)) = << >>
      BY <1>1, SubSeqEmpty
  <2>3. /\ t.rest = << >> /\ t.frame = {} /\ t.again = FALSE
        /\ t.cut = (b # << >> /\ Last(b) = A)
      BY <2>1 DEF Result
  <2> HIDE DEF t
  <2>4. Taken(b, t, Len(b))
      BY <1>1, <2>2, <2>3 DEF Taken
  <2>5. t.cut \in BOOLEAN
      BY <2>3
  <2> QED
      BY <2>3, <2>4, <2>5 DEF t
<1>3. CASE Ready(b)
  <2> DEFINE s == Ahead(b)
             size == 3 + s[3] + 1
             d == Decode(SubSeq(s, 1, size))
  <2>1. PICK k \in Nat :
              /\ k + 2 <= Len(b)
              /\ Min(MagicAt(b)) = k + 1
              /\ s \in Buffers /\ Len(s) = Len(b) - k
              /\ \A i \in 1 .. Len(s) : s[i] = b[k + i]
      BY <1>3, FrontIs
  <2>2. t = IF Len(s) < 3 \/ Len(s) < size
            THEN Result({}, s, FALSE, FALSE)
            ELSE Result(d, SubSeq(s, size + 1, Len(s)), d = {}, FALSE)
      BY <1>3 DEF Ready, Ahead, Turn, CutFrame, HeaderSize, CrcSize
  <2> HIDE DEF s
  <2>3. CASE Len(s) < 3 \/ Len(s) < size
    <3>1. t.frame = {} /\ t.rest = s /\ t.again = FALSE /\ t.cut = FALSE
        BY <2>2, <2>3 DEF Result
    <3> HIDE DEF t
    <3>2. s = SubSeq(b, k + 1, Len(b))
        BY <2>1 DEF s, Ahead
    <3>3. Taken(b, t, k)
        BY <1>1, <2>1, <3>1, <3>2 DEF Taken
    <3> QED
        BY <3>1, <3>3 DEF t
  <2>4. CASE ~(Len(s) < 3 \/ Len(s) < size)
    <3>1. t = Result(d, SubSeq(s, size + 1, Len(s)), d = {}, FALSE)
        BY <2>2, <2>4
    <3> HIDE DEF t, d, size
    <3>2. t.frame = d /\ t.rest = SubSeq(s, size + 1, Len(s)) /\ t.cut = FALSE
        BY <3>1 DEF Result
    <3>3. s[3] \in Bytes
        BY <2>1, <2>4 DEF Buffers
    <3>4. size \in Nat /\ size >= 4 /\ size <= Len(s)
      <4>1. s[3] \in 0 .. 5
          BY <3>3 DEF Bytes
      <4>2. Len(s) \in Nat
          BY <1>1, <2>1
      <4> QED
          BY <2>4, <4>1, <4>2 DEF size
    <3> DEFINE raw == SubSeq(s, 1, size)
               q == k + size
    <3>5. raw \in Buffers /\ Len(raw) = size /\ \A i \in 1 .. size : raw[i] = s[i]
      <4>1. size <= Len(s) /\ size \in Nat
          BY <3>4
      <4> QED
          BY <2>1, <4>1, FirstBytes
    <3>6. d = Decode(raw)
        BY DEF d
    <3> HIDE DEF raw
    <3>7. q \in 0 .. Len(b) /\ q > 0 /\ q \in Nat
        BY <1>1, <2>1, <3>4
    <3>8. t.rest = SubSeq(b, q + 1, Len(b))
      <4> DEFINE x == SubSeq(s, size + 1, Len(s))
                 y == SubSeq(b, q + 1, Len(b))
      <4>1. /\ x \in Buffers /\ Len(x) = Len(s) - size
            /\ \A i \in 1 .. Len(x) : x[i] = s[size + i]
        <5>1. size \in 0 .. Len(s)
            BY <1>1, <2>1, <3>4
        <5> QED
            BY <2>1, <5>1, RestOf
      <4>2. /\ y \in Buffers /\ Len(y) = Len(b) - q
            /\ \A i \in 1 .. Len(y) : y[i] = b[q + i]
          BY <3>7, RestOf
      <4> HIDE DEF x, y
      <4>3. Len(x) = Len(y)
          BY <1>1, <2>1, <3>4, <4>1, <4>2
      <4>4. ASSUME NEW i \in 1 .. Len(x) PROVE x[i] = y[i]
        <5>1. size + i \in 1 .. Len(s) /\ k + (size + i) = q + i
            BY <1>1, <2>1, <3>4, <4>1
        <5>2. x[i] = s[size + i] /\ s[size + i] = b[q + i] /\ y[i] = b[q + i]
            BY <2>1, <4>1, <4>2, <4>3, <5>1
        <5> QED
            BY <5>2
      <4>5. x = y
          BY <4>1, <4>2, <4>3, <4>4, SeqEqual DEF Buffers
      <4> QED
          BY <3>2, <4>5 DEF x, y
    <3>9. ASSUME NEW i \in t.frame
          PROVE  i \in 1 .. MaxSent /\ q >= 5 /\ FrameAt(b, q - 4, i)
      <4>1. i \in 1 .. MaxSent /\ i \in Decode(raw)
          BY <3>2, <3>6 DEF Decode
      <4>2. FrameAt(raw, 1, i) /\ size = 5
          BY <3>5, <4>1, DecodeIs
      <4>3. q = k + 5 /\ q - 4 = k + 1
          BY <4>2
      <4>4. ASSUME NEW o \in 1 .. 5 PROVE b[q - 4 + o - 1] = Encode(i)[o]
        <5>1. raw[1 + o - 1] = Encode(i)[o] /\ 1 + o - 1 = o /\ q - 4 + o - 1 = k + o
            BY <4>2, <4>3 DEF FrameAt
        <5>2. raw[o] = s[o] /\ o \in 1 .. Len(s)
            BY <1>1, <2>1, <3>4, <3>5, <4>2
        <5>3. s[o] = b[k + o]
            BY <2>1, <5>2
        <5> QED
            BY <5>1, <5>2, <5>3
      <4>5. q - 4 + 4 <= Len(b)
          BY <3>7
      <4> QED
          BY <3>7, <4>1, <4>3, <4>4, <4>5 DEF FrameAt
    <3>10. Taken(b, t, q)
        BY <3>7, <3>8, <3>9 DEF Taken
    <3> QED
        BY <3>2, <3>7, <3>10 DEF t
  <2> QED
      BY <2>3, <2>4
<1> QED
    BY <1>2, <1>3

LEMMA NextAgain ==
    ASSUME NEW b \in Buffers, Turn(b).again
    PROVE  Turn(b).rest \in Buffers /\ Len(Turn(b).rest) < Len(b)
<1>1. PICK q : Taken(b, Turn(b), q) /\ q > 0
    BY TurnTakes
<1>2. q \in 0 .. Len(b) /\ Turn(b).rest = SubSeq(b, q + 1, Len(b))
    BY <1>1 DEF Taken
<1>3. SubSeq(b, q + 1, Len(b)) \in Buffers /\ Len(SubSeq(b, q + 1, Len(b))) = Len(b) - q
    BY <1>2, RestOf
<1>4. Len(b) \in Nat
    BY DEF Buffers
<1> QED
    BY <1>1, <1>2, <1>3, <1>4

(* _pop_frame_from_buffer, one turn unrolled.                              *)
LEMMA PopUnfolds ==
    ASSUME NEW b \in Buffers
    PROVE  PopFrame(b) = IF Turn(b).again
                                THEN PopFrame(Turn(b).rest)
                                ELSE Turn(b)
<1> DEFINE S == Seq(Bytes)
           size == [c \in S |-> Len(c)]
           More == {c \in S : Turn(c).again}
           after == [c \in S |-> Turn(c).rest]
           final == [c \in S |-> Turn(c)]
           Loop(f) == [c \in S |-> IF Turn(c).again THEN f[Turn(c).rest]
                                   ELSE Turn(c)]
           pop == CHOOSE f : f = Loop(f)
<1>1. IsLoop(S, size, More, after)
  <2>1. size \in [S -> Nat] /\ More \subseteq S
      OBVIOUS
  <2>2. ASSUME NEW c \in More PROVE after[c] \in S /\ size[after[c]] < size[c]
    <3>1. c \in S /\ Turn(c).again
        OBVIOUS
    <3>2. Turn(c).rest \in S /\ Len(Turn(c).rest) < Len(c)
        BY <3>1, NextAgain DEF Buffers
    <3> QED
        BY <3>1, <3>2
  <2> HIDE DEF S, size, More, after
  <2> QED
      BY <2>1, <2>2 DEF IsLoop
<1>2. \E f : f = [c \in S |-> IF c \in More THEN f[after[c]] ELSE final[c]]
  <2> HIDE DEF S, size, More, after, final
  <2> QED
      BY <1>1, LoopExists
<1>3. ASSUME NEW f PROVE [c \in S |-> IF c \in More THEN f[after[c]] ELSE final[c]] = Loop(f)
  <2>1. ASSUME NEW c \in S
        PROVE  (IF c \in More THEN f[after[c]] ELSE final[c])
               = (IF Turn(c).again THEN f[Turn(c).rest] ELSE Turn(c))
    <3>1. CASE Turn(c).again
        BY <3>1
    <3>2. CASE ~Turn(c).again
        BY <3>2
    <3> QED
        BY <3>1, <3>2
  <2> QED
      BY <2>1, Zenon
<1>4. \E f : f = Loop(f)
  <2> HIDE DEF S, More, after, final, Loop
  <2> QED
      BY <1>2, <1>3
<1>5. pop = Loop(pop)
  <2> HIDE DEF Loop
  <2> QED
      BY <1>4
<1>6. \A c \in S : PopFrame(c) = pop[c]
    BY DEF PopFrame
<1>7. b \in S
    BY DEF Buffers
<1>8. pop[b] = IF Turn(b).again THEN pop[Turn(b).rest] ELSE Turn(b)
  <2> HIDE DEF pop
  <2> QED
      BY <1>5, <1>7
<1>9. CASE Turn(b).again
  <2>1. Turn(b).rest \in S
      BY <1>9, NextAgain DEF Buffers
  <2> HIDE DEF pop, S
  <2> QED
      BY <1>6, <1>7, <1>8, <1>9, <2>1
<1>10. CASE ~Turn(b).again
  <2> HIDE DEF pop, S
  <2> QED
      BY <1>6, <1>7, <1>8, <1>10
<1> QED
    BY <1>9, <1>10

(* What is taken in two turns, one after the other.                        *)
LEMMA TakenTwice ==
    ASSUME NEW b \in Buffers, NEW q \in 0 .. Len(b), NEW r, NEW n,
           Taken(SubSeq(b, q + 1, Len(b)), r, n)
    PROVE  Taken(b, r, q + n)
<1> DEFINE c == SubSeq(b, q + 1, Len(b))
<1>1. c \in Buffers /\ Len(c) = Len(b) - q /\ \A i \in 1 .. Len(c) : c[i] = b[q + i]
    BY RestOf
<1>2. Len(b) \in Nat /\ q \in Nat
    BY DEF Buffers
<1> HIDE DEF c
<1>3. /\ n \in 0 .. Len(c) /\ r.rest = SubSeq(c, n + 1, Len(c))
      /\ \A i \in r.frame : i \in 1 .. MaxSent /\ n >= 5 /\ FrameAt(c, n - 4, i)
    BY DEF Taken, c
<1>4. q + n \in 0 .. Len(b) /\ n \in Nat
    BY <1>1, <1>2, <1>3
<1>5. r.rest = SubSeq(b, q + n + 1, Len(b))
  <2> DEFINE x == SubSeq(c, n + 1, Len(c))
             y == SubSeq(b, q + n + 1, Len(b))
  <2>1. x \in Buffers /\ Len(x) = Len(c) - n /\ \A i \in 1 .. Len(x) : x[i] = c[n + i]
      BY <1>1, <1>3, RestOf
  <2>2. y \in Buffers /\ Len(y) = Len(b) - (q + n) /\ \A i \in 1 .. Len(y) : y[i] = b[q + n + i]
      BY <1>4, RestOf
  <2> HIDE DEF x, y
  <2>3. Len(x) = Len(y)
      BY <1>1, <1>2, <1>3, <2>1, <2>2
  <2>4. ASSUME NEW i \in 1 .. Len(x) PROVE x[i] = y[i]
    <3>1. n + i \in 1 .. Len(c) /\ q + (n + i) = q + n + i
        BY <1>1, <1>2, <1>4, <2>1
    <3>2. x[i] = c[n + i] /\ c[n + i] = b[q + (n + i)] /\ y[i] = b[q + n + i]
        BY <1>1, <2>1, <2>2, <2>3, <3>1
    <3> QED
        BY <3>1, <3>2
  <2>5. x = y
      BY <2>1, <2>2, <2>3, <2>4, SeqEqual DEF Buffers
  <2> QED
      BY <1>3, <2>5 DEF x, y
<1>6. ASSUME NEW i \in r.frame
      PROVE  i \in 1 .. MaxSent /\ q + n >= 5 /\ FrameAt(b, q + n - 4, i)
  <2>1. i \in 1 .. MaxSent /\ n >= 5 /\ FrameAt(c, n - 4, i)
      BY <1>3
  <2>2. ASSUME NEW o \in 1 .. 5 PROVE b[q + n - 4 + o - 1] = Encode(i)[o]
    <3>1. c[n - 4 + o - 1] = Encode(i)[o]
        BY <2>1 DEF FrameAt
    <3>2. n \in Nat /\ n <= Len(c) /\ n >= 5 /\ Len(c) \in Nat /\ o \in Nat
        BY <1>1, <1>2, <1>4, <1>3, <2>1
    <3>3. n - 4 + o - 1 \in 1 .. Len(c) /\ q + (n - 4 + o - 1) = q + n - 4 + o - 1
        BY <1>2, <3>2
    <3> QED
        BY <1>1, <3>1, <3>3
  <2>3. q + n - 4 + 4 <= Len(b) /\ q + n >= 5
      BY <1>2, <1>4, <2>1
  <2> QED
      BY <2>1, <2>2, <2>3 DEF FrameAt
<1> QED
    BY <1>4, <1>5, <1>6 DEF Taken

(* Whatever is in the buffer, what is left is its end, and a frame that is *)
(* returned was directly in front of that.                                 *)
PopsWell(b) ==
    /\ PopFrame(b).cut \in BOOLEAN
    /\ \E q : Taken(b, PopFrame(b), q)

LEMMA PopTakes ==
    ASSUME NEW b \in Buffers
    PROVE  PopsWell(b)
<1> DEFINE Bad == {c \in Buffers : ~PopsWell(c)}
           T == {Len(c) : c \in Bad}
<1> SUFFICES ASSUME Bad # {} PROVE FALSE
    OBVIOUS
<1>1. \A c \in Buffers : Len(c) \in Nat
    BY DEF Buffers
<1>2. T \subseteq Nat /\ T # {}
    BY <1>1
<1>3. PICK n \in T : \A m \in T : n <= m
  <2> HIDE DEF T
  <2> QED
      BY <1>2, LeastOf
<1>4. PICK c \in Bad : Len(c) = n
    OBVIOUS
<1>5. c \in Buffers /\ ~PopsWell(c)
    OBVIOUS
<1> DEFINE t == Turn(c)
<1>6. PICK q : Taken(c, t, q)
    BY <1>5, TurnTakes
<1>7. CASE t.again
  <2>1. t.rest \in Buffers /\ Len(t.rest) < Len(c)
      BY <1>5, <1>7, NextAgain
  <2>2. t.rest \notin Bad
    <3>1. ASSUME t.rest \in Bad PROVE FALSE
      <4>1. Len(t.rest) \in T
          BY <3>1
      <4> HIDE DEF T, Bad, t
      <4> QED
          BY <1>1, <1>3, <1>4, <1>5, <2>1, <4>1
    <3> QED
        BY <3>1
  <2>3. PopsWell(t.rest)
      BY <2>1, <2>2
  <2>4. PopFrame(c) = PopFrame(t.rest)
      BY <1>5, <1>7, PopUnfolds
  <2>5. q \in 0 .. Len(c) /\ t.rest = SubSeq(c, q + 1, Len(c))
      BY <1>6 DEF Taken
  <2> HIDE DEF t
  <2>6. PICK k : Taken(t.rest, PopFrame(t.rest), k)
      BY <2>3 DEF PopsWell
  <2>7. Taken(c, PopFrame(c), q + k)
      BY <1>5, <2>4, <2>5, <2>6, TakenTwice
  <2>8. PopFrame(c).cut \in BOOLEAN
      BY <2>3, <2>4 DEF PopsWell
  <2> QED
      BY <1>5, <2>7, <2>8 DEF PopsWell
<1>8. CASE ~t.again
  <2>1. PopFrame(c) = t
      BY <1>5, <1>8, PopUnfolds
  <2>2. t.cut \in BOOLEAN
      BY <1>5, TurnTakes
  <2> HIDE DEF t
  <2> QED
      BY <1>5, <1>6, <2>1, <2>2 DEF PopsWell
<1> QED
    BY <1>7, <1>8

(* All that the MCU sends.                                                 *)
Line == Stream(1, MaxSent)

LEMMA ByFives ==
    ASSUME NEW h \in Nat, NEW o \in 1 .. 5
    PROVE  (5 * h + o - 1) \div 5 = h /\ (5 * h + o - 1) % 5 = o - 1
    OBVIOUS

LEMMA InFives ==
    ASSUME NEW p \in Nat, p > 0
    PROVE  \E h \in Nat : \E o \in 1 .. 5 : h > 0 /\ p = 5 * h - 5 + o
<1> DEFINE h == (p - 1) \div 5 + 1
           o == ((p - 1) % 5) + 1
<1>1. h \in Nat /\ o \in 1 .. 5 /\ h > 0 /\ p = 5 * h - 5 + o
    OBVIOUS
<1> HIDE DEF h, o
<1> QED
    BY <1>1

LEMMA StreamIs ==
    ASSUME NEW from \in 1 .. MaxSent + 1, NEW to \in from - 1 .. MaxSent
    PROVE  /\ Stream(from, to) \in Buffers
           /\ Len(Stream(from, to)) = 5 * (to - from + 1)
           /\ \A i \in from .. to : \A o \in 1 .. 5 :
                 Stream(from, to)[5 * (i - from) + o] = Encode(i)[o]
<1> DEFINE n == 5 * (to - from + 1)
           Byte(p) == Encode(from + ((p - 1) \div 5))[1 + ((p - 1) % 5)]
           s == [p \in 1 .. n |-> Byte(p)]
<1>1. MaxSent \in Nat /\ n \in Nat /\ from \in Nat /\ to \in Nat
    BY FrameAssumption
<1>2. s = Stream(from, to)
    BY DEF Stream
<1>3. ASSUME NEW i \in from .. to, NEW o \in 1 .. 5
      PROVE  Byte(5 * (i - from) + o) = Encode(i)[o]
  <2> DEFINE h == i - from
  <2>1. h \in Nat /\ from + h = i
      BY <1>1
  <2> HIDE DEF h
  <2>2. (5 * h + o - 1) \div 5 = h /\ (5 * h + o - 1) % 5 = o - 1
      BY <2>1, ByFives
  <2>3. 1 + (o - 1) = o
      OBVIOUS
  <2>4. Byte(5 * h + o) = Encode(i)[o]
      BY <2>1, <2>2, <2>3
  <2> QED
      BY <2>4 DEF h
<1>4. ASSUME NEW p \in 1 .. n PROVE Byte(p) \in Bytes
  <2>1. PICK h \in Nat : \E o \in 1 .. 5 : h > 0 /\ p = 5 * h - 5 + o
      BY <1>1, InFives
  <2>2. PICK o \in 1 .. 5 : h > 0 /\ p = 5 * h - 5 + o
      BY <2>1
  <2> DEFINE i == from + h - 1
  <2>3. i \in from .. to /\ i \in 1 .. MaxSent /\ p = 5 * (i - from) + o
      BY <1>1, <2>2
  <2> HIDE DEF i
  <2>4. Byte(p) = Encode(i)[o]
      BY <1>3, <2>3
  <2>5. Encode(i) \in Seq(Bytes) /\ o \in 1 .. Len(Encode(i))
      BY <2>3, EncodeIs DEF Buffers
  <2> HIDE DEF Byte
  <2>6. Encode(i)[o] \in Bytes
      BY <2>5, ElementOfSeq
  <2> QED
      BY <2>4, <2>6
<1>5. s \in Seq(Bytes) /\ Len(s) = n
  <2> HIDE DEF n, Byte
  <2>1. s \in Seq(Bytes)
      BY <1>1, <1>4, IsASeq
  <2> QED
      BY <1>1, <2>1
<1>6. ASSUME NEW i \in from .. to, NEW o \in 1 .. 5
      PROVE  s[5 * (i - from) + o] = Encode(i)[o]
  <2>1. 5 * (i - from) + o \in 1 .. n
      BY <1>1
  <2> HIDE DEF n, Byte
  <2>2. s[5 * (i - from) + o] = Byte(5 * (i - from) + o)
      BY <2>1
  <2> QED
      BY <1>3, <2>2
<1> HIDE DEF s
<1> QED
    BY <1>2, <1>5, <1>6 DEF Buffers

LEMMA LineIs ==
    /\ MaxSent \in Nat /\ Line \in Buffers /\ Len(Line) = 5 * MaxSent
    /\ \A i \in 1 .. MaxSent : \A o \in 1 .. 5 : Line[5 * i - 5 + o] = Encode(i)[o]
<1>1. MaxSent \in Nat
    BY FrameAssumption
<1>2. 1 \in 1 .. MaxSent + 1 /\ MaxSent \in 1 - 1 .. MaxSent
    BY <1>1
<1>3. /\ Line \in Buffers /\ Len(Line) = 5 * (MaxSent - 1 + 1)
      /\ \A i \in 1 .. MaxSent : \A o \in 1 .. 5 : Line[5 * (i - 1) + o] = Encode(i)[o]
    BY <1>2, StreamIs DEF Line
<1>4. ASSUME NEW i \in 1 .. MaxSent, NEW o \in 1 .. 5
      PROVE  Line[5 * i - 5 + o] = Encode(i)[o]
  <2>1. 5 * (i - 1) + o = 5 * i - 5 + o
      BY <1>1
  <2> QED
      BY <1>3, <2>1
<1>5. 5 * (MaxSent - 1 + 1) = 5 * MaxSent
    BY <1>1
<1> QED
    BY <1>1, <1>3, <1>4, <1>5

(* No two frames read the same.                                            *)
LEMMA FramesDiffer ==
    ASSUME NEW i \in 1 .. MaxSent, NEW j \in 1 .. MaxSent,
           \A o \in 1 .. 5 : Encode(i)[o] = Encode(j)[o]
    PROVE  i = j
<1> DEFINE z == 5 * i - 5 + 1
           p == 5 * i - 5 + 1
           v == Line[z]
           E == [Line EXCEPT ![z] = v]
<1>1. MaxSent \in Nat /\ i \in Nat /\ j \in Nat /\ 1 <= i /\ i <= MaxSent
    BY LineIs
<1>2. z \in 1 .. 5 * MaxSent /\ p \in 1 .. 5 * MaxSent /\ z \in 1 .. Len(Line)
  <2>1. Len(Line) = 5 * MaxSent
      BY LineIs
  <2>2. 1 <= 5 * i - 4 /\ 5 * i - 4 <= 5 * MaxSent /\ 5 * i - 4 \in Int /\ z = 5 * i - 4
      BY <1>1
  <2> HIDE DEF z
  <2> QED
      BY <1>1, <2>1, <2>2
<1>3. Line \in Seq(Bytes)
    BY LineIs DEF Buffers
<1>4. v \in Bytes
    BY <1>2, <1>3, ElementOfSeq
<1>5. E = Line
    BY <1>3
<1> HIDE DEF v, E
<1>6. FrameAt(Line, p, j)
  <2>1. ASSUME NEW o \in 1 .. 5 PROVE Line[p + o - 1] = Encode(j)[o]
    <3>1. p + o - 1 = 5 * i - 5 + o
        BY <1>1
    <3> QED
        BY <3>1, LineIs
  <2>2. p + 4 <= Len(Line)
      BY <1>1, LineIs
  <2> QED
      BY <2>1, <2>2 DEF FrameAt
<1>7. p = 5 * j - 4
    BY <1>2, <1>4, <1>5, <1>6, FrameAssumption DEF DamageIsDetected, Line, E
<1> QED
    BY <1>1, <1>7

LEMMA DecodeOne ==
    ASSUME NEW raw \in Buffers, NEW i \in Decode(raw)
    PROVE  Decode(raw) = {i}
<1>1. i \in 1 .. MaxSent /\ raw = Encode(i)
    BY DEF Decode
<1>2. ASSUME NEW j \in Decode(raw) PROVE j = i
  <2>1. j \in 1 .. MaxSent /\ raw = Encode(j)
      BY DEF Decode
  <2> HIDE DEF Encode
  <2> QED
      BY <1>1, <2>1, FramesDiffer
<1> QED
    BY <1>2

(* A buffer that begins like a frame.                                      *)
HasHead(b) ==
    /\ b \in Buffers /\ Len(b) >= 2
    /\ b[1] = A /\ b[2] = R
    /\ Len(b) >= 3 => b[3] = 1

LEMMA HeadTurns ==
    ASSUME NEW b, HasHead(b)
    PROVE  LET d == Decode(SubSeq(b, 1, 5)) IN
           Turn(b) = IF Len(b) < 5 THEN Result({}, b, FALSE, FALSE)
                            ELSE Result(d, SubSeq(b, 6, Len(b)), d = {}, FALSE)
<1> DEFINE m == Min(MagicAt(b))
           s == SubSeq(b, m, Len(b))
           size == 3 + s[3] + 1
<1>1. b \in Buffers /\ Len(b) \in Nat /\ Len(b) >= 2
    BY DEF HasHead, Buffers
<1>2. 1 \in MagicAt(b)
    BY <1>1 DEF HasHead, MagicAt
<1>3. m = 1
  <2>1. m \in MagicAt(b) /\ m <= 1
      BY <1>1, <1>2, FirstMagic
  <2>2. m \in 1 .. Len(b) - 1
    <3> HIDE DEF m
    <3> QED
        BY <2>1 DEF MagicAt
  <2> HIDE DEF m
  <2> QED
      BY <1>1, <2>1, <2>2
<1>4. s = b
  <2>1. b \in Seq(Bytes)
      BY <1>1 DEF Buffers
  <2>2. SubSeq(b, 1, Len(b)) = b
      BY <2>1, SubSeqFull
  <2> HIDE DEF m
  <2> QED
      BY <1>3, <2>2
<1>5. Turn(b) =
        IF Len(s) < 3 \/ Len(s) < size
        THEN Result({}, s, FALSE, FALSE)
        ELSE Result(Decode(SubSeq(s, 1, size)), SubSeq(s, size + 1, Len(s)),
                           Decode(SubSeq(s, 1, size)) = {}, FALSE)
    BY <1>2 DEF Turn, CutFrame, HeaderSize, CrcSize
<1> HIDE DEF s
<1>6. CASE Len(b) < 3
  <2>1. Len(b) < 5
      BY <1>1, <1>6
  <2>2. Turn(b) = Result({}, b, FALSE, FALSE)
      BY <1>4, <1>5, <1>6
  <2> QED
      BY <2>1, <2>2
<1>7. CASE ~(Len(b) < 3)
  <2>1. size = 5
      BY <1>1, <1>4, <1>7 DEF HasHead
  <2> HIDE DEF size
  <2>2. CASE Len(b) < 5
      BY <1>1, <1>4, <1>5, <2>1, <2>2
  <2>3. CASE ~(Len(b) < 5)
    <3>1. ~(Len(s) < 3 \/ Len(s) < size)
        BY <1>1, <1>4, <2>1, <2>3
    <3>2. size + 1 = 6
        BY <2>1
    <3> QED
        BY <1>4, <1>5, <2>1, <2>3, <3>1, <3>2
  <2> QED
      BY <2>2, <2>3
<1> QED
    BY <1>6, <1>7

(* MAGIC further back: what is in front of it is dropped.                  *)
LEMMA PopSkips ==
    ASSUME NEW b \in Buffers, Ready(b)
    PROVE  PopFrame(b) = PopFrame(Ahead(b))
<1> DEFINE s == Ahead(b)
<1>1. PICK k \in Nat :
           /\ k + 2 <= Len(b) /\ b[k + 1] = A /\ b[k + 2] = R
           /\ s \in Buffers /\ Len(s) = Len(b) - k
           /\ \A i \in 1 .. Len(s) : s[i] = b[k + i]
    BY FrontIs
<1>2. Len(b) \in Nat /\ Len(s) \in Nat /\ Len(s) >= 2
    BY <1>1 DEF Buffers
<1>3. s[1] = A /\ s[2] = R
    BY <1>1, <1>2
<1>4. CutFrame(b) = LET size == HeaderSize + s[3] + CrcSize
                               frame == Decode(SubSeq(s, 1, size))
                           IN  IF Len(s) < HeaderSize \/ Len(s) < size
                               THEN Result({}, s, FALSE, FALSE)
                               ELSE Result(frame, SubSeq(s, size + 1, Len(s)),
                                                  frame = {}, FALSE)
    BY DEF CutFrame, Ahead
<1> HIDE DEF s
<1>5. 1 \in MagicAt(s)
    BY <1>2, <1>3 DEF MagicAt
<1>6. Ready(s)
    BY <1>5 DEF Ready
<1>7. Min(MagicAt(s)) = 1
  <2> DEFINE m == Min(MagicAt(s))
  <2>1. m \in MagicAt(s) /\ m <= 1
      BY <1>1, <1>5, FirstMagic
  <2> HIDE DEF m
  <2>2. m \in 1 .. Len(s) - 1
      BY <2>1 DEF MagicAt
  <2>3. m = 1
      BY <1>2, <2>1, <2>2
  <2> QED
      BY <2>3 DEF m
<1>8. SubSeq(s, 1, Len(s)) = s
  <2>1. s \in Seq(Bytes)
      BY <1>1 DEF Buffers
  <2> QED
      BY <2>1, SubSeqFull
<1>9. CutFrame(s) = CutFrame(b)
    BY <1>4, <1>7, <1>8 DEF CutFrame
<1>10. Turn(s) = CutFrame(s) /\ Turn(b) = CutFrame(b)
    BY <1>6 DEF Ready, Turn
<1>11. Turn(s) = Turn(b)
    BY <1>9, <1>10
<1>12. /\ PopFrame(b) = IF Turn(b).again
                               THEN PopFrame(Turn(b).rest) ELSE Turn(b)
       /\ PopFrame(s) = IF Turn(s).again
                               THEN PopFrame(Turn(s).rest) ELSE Turn(s)
    BY <1>1, PopUnfolds
<1>13. PopFrame(b) = PopFrame(s)
    BY <1>11, <1>12
<1> QED
    BY <1>13 DEF s

LEMMA NotOne == \A n \in Nat : (n >= 2 \/ ~(n < 5) => n # 1) /\ (n < 5 <=> ~(n >= 5))
    OBVIOUS

LEMMA UpToOne == ASSUME NEW n \in Nat, 1 .. n = 1 .. 1 PROVE n = 1
    OBVIOUS

(* What ReadFrame appends: nothing, or the one frame that was returned.    *)
LEMMA ListOfNone == SetToSeq({}) = << >>
<1>1. Cardinality({}) = 0
    BY FS_EmptySet
<1> DEFINE F == [1 .. Cardinality({}) -> {}]
<1>2. F = [1 .. 0 -> {}]
    BY <1>1
<1>3. \A f \in F : f = << >>
    BY <1>2
<1> DEFINE none == [x \in 1 .. 0 |-> x]
<1>4. << >> \in F
  <2>1. none \in [1 .. 0 -> {}]
      OBVIOUS
  <2>2. none \in F
      BY <1>2, <2>1
  <2> HIDE DEF F, none
  <2> QED
      BY <1>3, <2>2
<1>5. IsInjective(<< >>)
  <2>1. DOMAIN << >> = {}
      OBVIOUS
  <2> QED
      BY <2>1, Zenon DEF IsInjective
<1>6. SetToSeq({}) \in F
  <2> HIDE DEF F
  <2>1. SetToSeq({}) = CHOOSE f \in F : IsInjective(f)
      BY DEF SetToSeq, F
  <2> QED
      BY <1>4, <1>5, <2>1
<1> QED
    BY <1>3, <1>6

LEMMA ListOfOne ==
    ASSUME NEW i
    PROVE  SetToSeq({i}) = <<i>>
<1>1. Cardinality({i}) = 1
    BY FS_Singleton
<1> DEFINE F == [1 .. Cardinality({i}) -> {i}]
<1>2. F = [1 .. 1 -> {i}]
    BY <1>1
<1>3. ASSUME NEW f \in F PROVE f = <<i>>
  <2> HIDE DEF F
  <2>1. f \in Seq({i}) /\ Len(f) = 1 /\ f[1] = i
    <3>1. f \in [1 .. 1 -> {i}]
        BY <1>2
    <3>2. DOMAIN f = 1 .. 1 /\ 1 \in 1 .. 1
        BY <3>1
    <3>3. f[1] \in {i}
        BY <3>1, <3>2
    <3>4. f \in Seq({i})
      <4>1. 1 \in Nat
          OBVIOUS
      <4> QED
          BY <3>1, <4>1, SeqDef
    <3>5. Len(f) = 1
      <4>1. Len(f) \in Nat /\ DOMAIN f = 1 .. Len(f)
          BY <3>4, LenProperties
      <4>2. 1 .. Len(f) = 1 .. 1
          BY <3>2, <4>1
      <4> QED
          BY <4>1, <4>2, UpToOne, Zenon
    <3> QED
        BY <3>3, <3>4, <3>5
  <2>2. <<i>> \in Seq({i}) /\ Len(<<i>>) = 1 /\ <<i>>[1] = i
      OBVIOUS
  <2>3. \A k \in 1 .. Len(f) : f[k] = <<i>>[k]
      BY <2>1, <2>2
  <2> QED
      BY <2>1, <2>2, <2>3, SeqEqual
<1> DEFINE one == [x \in 1 .. 1 |-> i]
<1>4. <<i>> \in F
  <2>1. one \in [1 .. 1 -> {i}]
      OBVIOUS
  <2>2. one \in F
      BY <1>2, <2>1
  <2> HIDE DEF F, one
  <2> QED
      BY <1>3, <2>2
<1>5. IsInjective(<<i>>)
  <2>1. \A a, b \in DOMAIN <<i>> : a = b
      OBVIOUS
  <2> QED
      BY <2>1, Zenon DEF IsInjective
<1>6. SetToSeq({i}) \in F
  <2> HIDE DEF F
  <2>1. SetToSeq({i}) = CHOOSE f \in F : IsInjective(f)
      BY DEF SetToSeq, F
  <2> QED
      BY <1>4, <1>5, <2>1
<1> QED
    BY <1>3, <1>6

(* A buffer without MAGIC is emptied.                                      *)
LEMMA PopNothing ==
    ASSUME NEW b \in Buffers, ~Ready(b)
    PROVE  /\ PopFrame(b).frame = {} /\ PopFrame(b).rest = << >>
           /\ PopFrame(b).cut = (b # << >> /\ b[Len(b)] = A)
<1> DEFINE half == b # << >> /\ b[Len(b)] = A
<1>1. Turn(b) = Result({}, << >>, FALSE, half)
    BY DEF Turn, Ready, Last
<1> HIDE DEF half
<1>2. Turn(b).again = FALSE
    BY <1>1 DEF Result
<1>3. PopFrame(b) = Result({}, << >>, FALSE, half)
    BY <1>1, <1>2, PopUnfolds
<1>4. /\ PopFrame(b).frame = {} /\ PopFrame(b).rest = << >>
      /\ PopFrame(b).cut = half
    BY <1>3 DEF Result
<1> QED
    BY <1>4 DEF half

(* The buffer begins with frame i, as far as it goes.                      *)
Begins(b, i) == \A o \in 1 .. 5 : o <= Len(b) => b[o] = Encode(i)[o]

(* What read_frame makes of a buffer that begins with frame i.             *)
Reads(b, r, i) ==
    /\ Len(b) = 1 => r.cut = TRUE
    /\ Len(b) # 1 => r.cut = FALSE
    /\ Len(b) < 5 => r.frame = {}
    /\ Len(b) < 5 /\ Len(b) # 1 => r.rest = b
    /\ Len(b) >= 5 => r.frame = {i} /\ r.rest = SubSeq(b, 6, Len(b))

LEMMA PopFront ==
    ASSUME NEW b \in Buffers, NEW i \in 1 .. MaxSent, Begins(b, i)
    PROVE  Reads(b, PopFrame(b), i)
<1> DEFINE r == PopFrame(b)
           e == Encode(i)
<1>1. Len(b) \in Nat
    BY DEF Buffers
<1>2. e[1] = A /\ e[2] = R /\ e[3] = 1
    BY EncodeIs
<1>3. CASE Len(b) = 0
  <2>1. b = << >>
      BY <1>3 DEF Buffers
  <2>2. ~Ready(b)
      BY <1>3 DEF Ready, MagicAt
  <2>3. r.frame = {} /\ r.rest = << >> /\ r.cut = (b # << >> /\ b[Len(b)] = A)
      BY <2>2, PopNothing
  <2>4. r.cut = FALSE
      BY <2>1, <2>3, Zenon
  <2>5. Len(b) # 1 /\ ~(Len(b) >= 5)
      BY <1>3
  <2> HIDE DEF r
  <2> QED
      BY <2>1, <2>3, <2>4, <2>5, Zenon DEF Reads, r
<1>4. CASE Len(b) = 1
  <2>1. b # << >> /\ b[Len(b)] = A
    <3>1. b # << >>
        BY <1>4
    <3>2. b[1] = e[1]
        BY <1>4 DEF Begins
    <3> HIDE DEF e
    <3> QED
        BY <1>2, <1>4, <3>1, <3>2
  <2>2. ~Ready(b)
      BY <1>4 DEF Ready, MagicAt
  <2>3. r.frame = {} /\ r.cut = (b # << >> /\ b[Len(b)] = A)
      BY <2>2, PopNothing
  <2>4. r.cut = TRUE
      BY <2>1, <2>3, Zenon
  <2>5. ~(Len(b) >= 5)
      BY <1>4
  <2> HIDE DEF r
  <2> QED
      BY <1>4, <2>3, <2>4, <2>5, Zenon DEF Reads, r
<1>5. CASE Len(b) >= 2
  <2>1. HasHead(b)
    <3>1. b[1] = e[1] /\ b[2] = e[2] /\ (Len(b) >= 3 => b[3] = e[3])
        BY <1>1, <1>5 DEF Begins
    <3> HIDE DEF e
    <3> QED
        BY <1>2, <1>5, <3>1 DEF HasHead
  <2> DEFINE d == Decode(SubSeq(b, 1, 5))
  <2>2. Turn(b) = IF Len(b) < 5 THEN Result({}, b, FALSE, FALSE)
                         ELSE Result(d, SubSeq(b, 6, Len(b)), d = {}, FALSE)
      BY <2>1, HeadTurns
  <2>3. r = IF Turn(b).again THEN PopFrame(Turn(b).rest) ELSE Turn(b)
      BY PopUnfolds
  <2>4. CASE Len(b) < 5
    <3>1. Turn(b) = Result({}, b, FALSE, FALSE)
        BY <2>2, <2>4
    <3>2. Turn(b).again = FALSE
        BY <3>1 DEF Result
    <3>3. r = Result({}, b, FALSE, FALSE)
        BY <2>3, <3>1, <3>2
    <3>4. r.frame = {} /\ r.rest = b /\ r.cut = FALSE
        BY <3>3 DEF Result
    <3> HIDE DEF r, d, e
    <3>5. Len(b) # 1 /\ ~(Len(b) >= 5)
        BY <1>1, <1>5, <2>4, NotOne, Zenon
    <3> QED
        BY <3>4, <3>5, Zenon DEF Reads, r
  <2>5. CASE ~(Len(b) < 5)
    <3> DEFINE raw == SubSeq(b, 1, 5)
    <3>1. raw \in Buffers /\ Len(raw) = 5 /\ \A o \in 1 .. 5 : raw[o] = b[o]
      <4>1. 5 <= Len(b)
          BY <1>1, <2>5
      <4> QED
          BY <4>1, FirstBytes
    <3> HIDE DEF raw
    <3>2. FrameAt(raw, 1, i)
      <4>1. ASSUME NEW o \in 1 .. 5 PROVE raw[1 + o - 1] = Encode(i)[o]
        <5>1. 1 + o - 1 = o /\ o <= Len(b)
            BY <1>1, <2>5
        <5> QED
            BY <3>1, <5>1 DEF Begins
      <4> QED
          BY <3>1, <4>1 DEF FrameAt
    <3>3. i \in Decode(raw)
        BY <3>1, <3>2, DecodeIs
    <3>4. d = {i}
        BY <3>1, <3>3, DecodeOne DEF raw
    <3> HIDE DEF d
    <3>5. Turn(b) = Result({i}, SubSeq(b, 6, Len(b)), FALSE, FALSE)
      <4>1. ({i} = {}) = FALSE
          OBVIOUS
      <4> QED
          BY <2>2, <2>5, <3>4, <4>1
    <3>6. Turn(b).again = FALSE
        BY <3>5 DEF Result
    <3>7. r = Result({i}, SubSeq(b, 6, Len(b)), FALSE, FALSE)
        BY <2>3, <3>5, <3>6
    <3>8. r.frame = {i} /\ r.rest = SubSeq(b, 6, Len(b)) /\ r.cut = FALSE
        BY <3>7 DEF Result
    <3> HIDE DEF r, e
    <3>9. Len(b) # 1 /\ ~(Len(b) < 5)
        BY <1>1, <2>5, NotOne, Zenon
    <3> QED
        BY <3>8, <3>9, Zenon DEF Reads, r
  <2> QED
      BY <2>4, <2>5
<1>6. \A n \in Nat : n = 0 \/ n = 1 \/ n >= 2
    OBVIOUS
<1> QED
    BY <1>1, <1>3, <1>4, <1>5, <1>6, Zenon

(* A whole frame that does not decode is dropped.                          *)
LEMMA PopBroken ==
    ASSUME NEW b, HasHead(b), Len(b) >= 5, Decode(SubSeq(b, 1, 5)) = {}
    PROVE  PopFrame(b) = PopFrame(SubSeq(b, 6, Len(b)))
<1>1. b \in Buffers /\ Len(b) \in Nat
    BY DEF HasHead, Buffers
<1>2. ({} = {}) = TRUE
    OBVIOUS
<1>3. Turn(b) = Result({}, SubSeq(b, 6, Len(b)), TRUE, FALSE)
  <2>1. ~(Len(b) < 5)
      BY <1>1
  <2> QED
      BY <1>2, <2>1, HeadTurns
<1>4. Turn(b).again /\ Turn(b).rest = SubSeq(b, 6, Len(b))
    BY <1>3 DEF Result
<1> QED
    BY <1>1, <1>4, PopUnfolds

(* The first k bytes hold no MAGIC, nor does one begin there.              *)
IsJunk(b, k) ==
    \A i \in 1 .. k : i + 1 <= Len(b) => ~(b[i] = A /\ b[i + 1] = R)

LEMMA PopJunk ==
    ASSUME NEW b \in Buffers, NEW k \in Nat, IsJunk(b, k), k + 2 <= Len(b),
           b[k + 1] = A, b[k + 2] = R
    PROVE  PopFrame(b) = PopFrame(SubSeq(b, k + 1, Len(b)))
<1>1. Len(b) \in Nat
    BY DEF Buffers
<1>2. k + 1 \in MagicAt(b)
  <2>1. k + 1 \in 1 .. Len(b) - 1 /\ k + 1 + 1 = k + 2
      BY <1>1
  <2> QED
      BY <2>1 DEF MagicAt
<1>3. Ready(b)
    BY <1>2 DEF Ready
<1> DEFINE m == Min(MagicAt(b))
<1>4. m \in MagicAt(b) /\ m <= k + 1
    BY <1>2, FirstMagic
<1> HIDE DEF m
<1>5. m \in 1 .. Len(b) - 1 /\ b[m] = A /\ b[m + 1] = R
    BY <1>4 DEF MagicAt
<1>6. m \notin 1 .. k
  <2>1. m + 1 <= Len(b)
      BY <1>1, <1>5
  <2> QED
      BY <1>5, <2>1 DEF IsJunk
<1>7. m = k + 1
    BY <1>1, <1>4, <1>5, <1>6
<1>8. Ahead(b) = SubSeq(b, k + 1, Len(b))
    BY <1>7 DEF Ahead, m
<1> QED
    BY <1>3, <1>8, PopSkips

LEMMA JunkOnly ==
    ASSUME NEW b \in Buffers, IsJunk(b, Len(b))
    PROVE  ~Ready(b)
<1>1. Len(b) \in Nat
    BY DEF Buffers
<1>2. ASSUME NEW i \in MagicAt(b) PROVE FALSE
  <2>1. i \in 1 .. Len(b) - 1 /\ b[i] = A /\ b[i + 1] = R
      BY DEF MagicAt
  <2>2. i \in 1 .. Len(b) /\ i + 1 <= Len(b)
      BY <1>1, <2>1
  <2> QED
      BY <2>1, <2>2 DEF IsJunk
<1> QED
    BY <1>2 DEF Ready

(* A byte of a buffer changed, and one lost.                               *)
ByteChanged(b, z, v) == [b EXCEPT ![z] = v]

LEMMA ChangedIs ==
    ASSUME NEW b \in Buffers, NEW z \in 1 .. Len(b), NEW v \in Bytes,
           NEW c, c = ByteChanged(b, z, v)
    PROVE  /\ c \in Buffers /\ Len(c) = Len(b) /\ c[z] = v
           /\ \A i \in 1 .. Len(b) : i # z => c[i] = b[i]
<1>1. b \in Seq(Bytes) /\ DOMAIN b = 1 .. Len(b)
    BY LenProperties DEF Buffers
<1>2. c \in Seq(Bytes) /\ Len(c) = Len(b)
    BY <1>1, ExceptSeq DEF ByteChanged
<1>3. c[z] = v /\ \A i \in 1 .. Len(b) : i # z => c[i] = b[i]
    BY <1>1 DEF ByteChanged
<1> QED
    BY <1>2, <1>3 DEF Buffers

LEMMA LostIs ==
    ASSUME NEW b \in Buffers, NEW z \in 1 .. Len(b)
    PROVE  LET c == RemoveAt(b, z) IN
           /\ c \in Buffers /\ Len(c) = Len(b) - 1
           /\ \A i \in 1 .. Len(c) : c[i] = IF i < z THEN b[i] ELSE b[i + 1]
<1> DEFINE n == z - 1
           x == SubSeq(b, 1, n)
           y == SubSeq(b, z + 1, Len(b))
           c == x \o y
<1>1. Len(b) \in Nat /\ z \in Nat /\ n \in Nat /\ n <= Len(b) /\ z \in 0 .. Len(b)
    BY DEF Buffers
<1> HIDE DEF n
<1>2. x \in Buffers /\ Len(x) = n /\ \A i \in 1 .. n : x[i] = b[i]
    BY <1>1, FirstBytes
<1>3. y \in Buffers /\ Len(y) = Len(b) - z /\ \A i \in 1 .. Len(y) : y[i] = b[z + i]
    BY <1>1, RestOf
<1>4. RemoveAt(b, z) = c
    BY DEF RemoveAt, n
<1> HIDE DEF x, y
<1>5. /\ c \in Buffers /\ Len(c) = Len(x) + Len(y)
      /\ \A i \in 1 .. Len(x) + Len(y) : c[i] = IF i <= Len(x) THEN x[i] ELSE y[i - Len(x)]
    BY <1>2, <1>3, ConcatProperties DEF Buffers
<1> HIDE DEF c
<1>6. n = z - 1
    BY DEF n
<1>7. Len(c) = Len(b) - 1
    BY <1>1, <1>2, <1>3, <1>5, <1>6
<1>8. ASSUME NEW i \in 1 .. Len(c) PROVE c[i] = IF i < z THEN b[i] ELSE b[i + 1]
  <2>1. i \in 1 .. Len(x) + Len(y)
      BY <1>5
  <2>2. CASE i < z
    <3>1. i <= Len(x) /\ i \in 1 .. n
        BY <1>1, <1>2, <1>6, <2>2
    <3> QED
        BY <1>2, <1>5, <2>1, <2>2, <3>1
  <2>3. CASE ~(i < z)
    <3>1. ~(i <= Len(x)) /\ i - Len(x) \in 1 .. Len(y) /\ z + (i - Len(x)) = i + 1
        BY <1>1, <1>2, <1>3, <1>6, <2>1, <2>3
    <3>2. c[i] = y[i - Len(x)]
        BY <1>5, <2>1, <3>1
    <3> QED
        BY <1>3, <2>3, <3>1, <3>2
  <2> QED
      BY <2>2, <2>3
<1> QED
    BY <1>4, <1>5, <1>7, <1>8

(* A buffer shows the line E from behind its byte d on.                    *)
Shows(b, E, d) ==
    /\ b \in Buffers /\ d + Len(b) <= Len(E)
    /\ \A p \in 1 .. Len(b) : b[p] = E[d + p]

LEMMA ShowsRest ==
    ASSUME NEW b, NEW E \in Buffers, NEW d \in Nat, Shows(b, E, d), NEW q \in 0 .. Len(b)
    PROVE  /\ Shows(SubSeq(b, q + 1, Len(b)), E, d + q)
           /\ Len(SubSeq(b, q + 1, Len(b))) = Len(b) - q
<1> DEFINE r == SubSeq(b, q + 1, Len(b))
<1>1. b \in Buffers /\ Len(b) \in Nat /\ Len(E) \in Nat /\ q \in Nat
    BY DEF Shows, Buffers
<1>2. r \in Buffers /\ Len(r) = Len(b) - q /\ \A i \in 1 .. Len(r) : r[i] = b[q + i]
    BY <1>1, RestOf
<1> HIDE DEF r
<1>3. d + q + Len(r) <= Len(E)
    BY <1>1, <1>2 DEF Shows
<1>4. ASSUME NEW p \in 1 .. Len(r) PROVE r[p] = E[d + q + p]
  <2>1. q + p \in 1 .. Len(b) /\ d + (q + p) = d + q + p
      BY <1>1, <1>2
  <2> QED
      BY <1>2, <2>1 DEF Shows
<1> QED
    BY <1>2, <1>3, <1>4 DEF r, Shows

LEMMA ShowsFirst ==
    ASSUME NEW b, NEW E \in Buffers, NEW d \in Nat, Shows(b, E, d), NEW n \in 0 .. Len(b)
    PROVE  Shows(SubSeq(b, 1, n), E, d) /\ Len(SubSeq(b, 1, n)) = n
<1> DEFINE r == SubSeq(b, 1, n)
<1>1. b \in Buffers /\ Len(b) \in Nat /\ Len(E) \in Nat /\ n \in Nat /\ n <= Len(b)
    BY DEF Shows, Buffers
<1>2. r \in Buffers /\ Len(r) = n /\ \A i \in 1 .. n : r[i] = b[i]
    BY <1>1, FirstBytes
<1> HIDE DEF r
<1>3. d + Len(r) <= Len(E)
    BY <1>1, <1>2 DEF Shows
<1>4. ASSUME NEW p \in 1 .. Len(r) PROVE r[p] = E[d + p]
  <2>1. p \in 1 .. Len(b) /\ p \in 1 .. n
      BY <1>1, <1>2
  <2> QED
      BY <1>2, <2>1 DEF Shows
<1> QED
    BY <1>2, <1>3, <1>4 DEF r, Shows

LEMMA ShowsBoth ==
    ASSUME NEW b, NEW c, NEW E \in Buffers, NEW d \in Nat,
           Shows(b, E, d), Shows(c, E, d + Len(b))
    PROVE  Shows(b \o c, E, d) /\ Len(b \o c) = Len(b) + Len(c)
<1> DEFINE r == b \o c
<1>1. b \in Buffers /\ c \in Buffers /\ Len(b) \in Nat /\ Len(c) \in Nat /\ Len(E) \in Nat
    BY DEF Shows, Buffers
<1>2. /\ r \in Buffers /\ Len(r) = Len(b) + Len(c)
      /\ \A i \in 1 .. Len(b) + Len(c) : r[i] = IF i <= Len(b) THEN b[i] ELSE c[i - Len(b)]
    BY <1>1, ConcatProperties DEF Buffers
<1> HIDE DEF r
<1>3. d + Len(r) <= Len(E)
    BY <1>1, <1>2 DEF Shows
<1>4. ASSUME NEW p \in 1 .. Len(r) PROVE r[p] = E[d + p]
  <2>1. p \in 1 .. Len(b) + Len(c)
      BY <1>2
  <2>2. CASE p <= Len(b)
    <3>1. p \in 1 .. Len(b)
        BY <1>1, <2>1, <2>2
    <3> QED
        BY <1>2, <2>1, <2>2, <3>1 DEF Shows
  <2>3. CASE ~(p <= Len(b))
    <3>1. p - Len(b) \in 1 .. Len(c) /\ d + Len(b) + (p - Len(b)) = d + p
        BY <1>1, <2>1, <2>3
    <3>2. r[p] = c[p - Len(b)]
        BY <1>2, <2>1, <2>3
    <3> QED
        BY <3>1, <3>2 DEF Shows
  <2> QED
      BY <2>2, <2>3
<1> QED
    BY <1>2, <1>3, <1>4 DEF r, Shows

LEMMA ShowsFrame ==
    ASSUME NEW b, NEW E \in Buffers, NEW d \in Nat, Shows(b, E, d),
           NEW p \in Nat, p > 0, NEW i \in 1 .. MaxSent, FrameAt(b, p, i)
    PROVE  FrameAt(E, d + p, i)
<1>1. b \in Buffers /\ Len(b) \in Nat /\ Len(E) \in Nat
    BY DEF Shows, Buffers
<1>2. p + 4 <= Len(b)
    BY DEF FrameAt
<1>3. d + p + 4 <= Len(E)
    BY <1>1, <1>2 DEF Shows
<1>4. ASSUME NEW o \in 1 .. 5 PROVE E[d + p + o - 1] = Encode(i)[o]
  <2>1. p + o - 1 \in 1 .. Len(b) /\ d + (p + o - 1) = d + p + o - 1
      BY <1>1, <1>2
  <2>2. b[p + o - 1] = Encode(i)[o]
      BY DEF FrameAt
  <2> QED
      BY <2>1, <2>2 DEF Shows
<1> QED
    BY <1>3, <1>4 DEF FrameAt

(* The line as it will have been read in the end: what the MCU sends, with *)
(* the damage so far.                                                      *)
Clean(E) == noise = 0 /\ hit = {} /\ ~misaligned /\ E = Line

ChangedIn(E, h, o, v) ==
    /\ noise = 1 /\ hit = {h} /\ (o = 3 => misaligned)
    /\ v # Line[5 * h - 5 + o] /\ E = ByteChanged(Line, 5 * h - 5 + o, v)

OneChanged(E) ==
    \E h \in 1 .. sent : \E o \in 1 .. 5 : \E v \in Bytes : ChangedIn(E, h, o, v)

OneLost(E) ==
    noise = 1 /\ misaligned /\ \E z \in 1 .. 5 * sent : E = RemoveAt(Line, z)

OnLine(E, slip) ==
    \/ slip = 0 /\ Clean(E)
    \/ slip = 0 /\ OneChanged(E)
    \/ slip = 1 /\ OneLost(E)

Detects(E) ==
    \A p \in 1 .. 5 * MaxSent : \A i \in 1 .. MaxSent :
       FrameAt(E, p, i) => p \in {5 * i - 5, 5 * i - 4}

LEMMA InLine ==
    ASSUME NEW h \in 1 .. MaxSent, NEW o \in 1 .. 5
    PROVE  /\ 5 * h - 5 + o \in 1 .. 5 * MaxSent /\ 5 * h - 5 + o \in 1 .. Len(Line)
           /\ Line[5 * h - 5 + o] = Encode(h)[o]
<1>1. MaxSent \in Nat /\ Len(Line) = 5 * MaxSent
    BY LineIs
<1>2. 5 * h - 5 + o \in 1 .. 5 * MaxSent
    BY <1>1
<1> QED
    BY <1>1, <1>2, LineIs

LEMMA DetectsChanged ==
    ASSUME NEW z \in 1 .. 5 * MaxSent, NEW v \in Bytes
    PROVE  Detects(ByteChanged(Line, z, v))
<1> DEFINE E == ByteChanged(Line, z, v)
<1>1. ASSUME NEW p \in 1 .. 5 * MaxSent, NEW i \in 1 .. MaxSent, FrameAt(E, p, i)
      PROVE  p \in {5 * i - 5, 5 * i - 4}
  <2>1. p = 5 * i - 4
      BY <1>1, FrameAssumption DEF DamageIsDetected, Line, ByteChanged
  <2> QED
      BY <2>1
<1> HIDE DEF E
<1>2. Detects(E)
    BY <1>1 DEF Detects
<1> QED
    BY <1>2 DEF E

LEMMA DetectsLost ==
    ASSUME NEW z \in 1 .. 5 * MaxSent
    PROVE  Detects(RemoveAt(Line, z))
<1> DEFINE E == RemoveAt(Line, z)
<1>1. ASSUME NEW p \in 1 .. 5 * MaxSent, NEW i \in 1 .. MaxSent, FrameAt(E, p, i)
      PROVE  p \in {5 * i - 5, 5 * i - 4}
    BY <1>1, FrameAssumption DEF DamageIsDetected, Line
<1> HIDE DEF E
<1>2. Detects(E)
    BY <1>1 DEF Detects
<1> QED
    BY <1>2 DEF E

LEMMA OnLineIs ==
    ASSUME NEW E, NEW slip, OnLine(E, slip), sent \in 0 .. MaxSent
    PROVE  E \in Buffers /\ slip \in {0, 1} /\ Len(E) = 5 * MaxSent - slip /\ Detects(E)
<1>1. MaxSent \in Nat /\ sent \in Nat /\ Line \in Buffers /\ Len(Line) = 5 * MaxSent
    BY LineIs
<1>2. CASE slip = 0 /\ Clean(E)
  <2>1. E = Line
      BY <1>2 DEF Clean
  <2>2. Len(E) = 5 * MaxSent - slip
      BY <1>1, <1>2, <2>1
  <2>3. Detects(Line)
    <3>1. CASE MaxSent = 0
        BY <3>1 DEF Detects
    <3>2. CASE MaxSent > 0
      <4> DEFINE v == Line[1]
      <4>1. 1 \in 1 .. 5 * MaxSent /\ 1 \in 1 .. Len(Line)
          BY <1>1, <3>2
      <4>2. v \in Bytes
          BY <1>1, <4>1, ElementOfSeq DEF Buffers
      <4>3. ByteChanged(Line, 1, v) = Line
        <5>1. Line \in [1 .. Len(Line) -> Bytes]
            BY <1>1, LenProperties DEF Buffers
        <5> QED
            BY <5>1 DEF ByteChanged
      <4> HIDE DEF v
      <4> QED
          BY <4>1, <4>2, <4>3, DetectsChanged
    <3> QED
        BY <1>1, <3>1, <3>2
  <2> QED
      BY <1>1, <1>2, <2>1, <2>2, <2>3
<1>3. CASE slip = 0 /\ OneChanged(E)
  <2>1. PICK h \in 1 .. sent, o \in 1 .. 5, v \in Bytes : ChangedIn(E, h, o, v)
      BY <1>3 DEF OneChanged
  <2> DEFINE z == 5 * h - 5 + o
  <2>2. h \in 1 .. MaxSent
      BY <1>1
  <2>3. z \in 1 .. 5 * MaxSent /\ z \in 1 .. Len(Line)
      BY <2>2, InLine
  <2>4. E = ByteChanged(Line, z, v)
      BY <2>1 DEF ChangedIn
  <2> HIDE DEF z
  <2>5. Detects(E)
      BY <2>3, <2>4, DetectsChanged
  <2>6. E \in Buffers /\ Len(E) = Len(Line)
      BY <1>1, <2>3, <2>4, ChangedIs
  <2>7. Len(E) = 5 * MaxSent - slip
      BY <1>1, <1>3, <2>6
  <2> QED
      BY <1>3, <2>5, <2>6, <2>7
<1>4. CASE slip = 1 /\ OneLost(E)
  <2>1. PICK z \in 1 .. 5 * sent : E = RemoveAt(Line, z)
      BY <1>4 DEF OneLost
  <2>2. z \in 1 .. 5 * MaxSent /\ z \in 1 .. Len(Line)
      BY <1>1
  <2>3. Detects(E)
      BY <2>1, <2>2, DetectsLost
  <2>4. E \in Buffers /\ Len(E) = Len(Line) - 1
      BY <1>1, <2>1, <2>2, LostIs
  <2>5. Len(E) = 5 * MaxSent - slip
      BY <1>1, <1>4, <2>4
  <2> QED
      BY <1>4, <2>3, <2>4, <2>5
<1> QED
    BY <1>2, <1>3, <1>4 DEF OnLine

(* What is still to be sent is undamaged, but one byte further in front    *)
(* when one was lost.                                                      *)
LEMMA TailIs ==
    ASSUME NEW E, NEW slip, OnLine(E, slip), sent \in 0 .. MaxSent, sent < MaxSent,
           NEW o \in 1 .. 5
    PROVE  E[5 * sent - slip + o] = Encode(sent + 1)[o]
<1>1. MaxSent \in Nat /\ sent \in Nat /\ Line \in Buffers /\ Len(Line) = 5 * MaxSent
    BY LineIs
<1> DEFINE i == sent + 1
           p == 5 * i - 5 + o
<1>2. i \in 1 .. MaxSent
    BY <1>1
<1>3. p \in 1 .. Len(Line) /\ Line[p] = Encode(i)[o]
    BY <1>2, InLine
<1>4. p = 5 * sent + o
    BY <1>1
<1> HIDE DEF p
<1>5. CASE slip = 0 /\ Clean(E)
  <2>1. 5 * sent - slip + o = p
      BY <1>1, <1>4, <1>5
  <2> QED
      BY <1>3, <1>5, <2>1 DEF Clean
<1>6. CASE slip = 0 /\ OneChanged(E)
  <2>1. PICK h \in 1 .. sent, u \in 1 .. 5, v \in Bytes : ChangedIn(E, h, u, v)
      BY <1>6 DEF OneChanged
  <2> DEFINE z == 5 * h - 5 + u
  <2>2. h \in 1 .. MaxSent
      BY <1>1
  <2>3. z \in 1 .. Len(Line)
      BY <2>2, InLine
  <2>4. z # p
      BY <1>1, <1>4
  <2>5. E = ByteChanged(Line, z, v)
      BY <2>1 DEF ChangedIn
  <2> HIDE DEF z
  <2>6. Line \in Buffers
      BY <1>1
  <2>7. \A j \in 1 .. Len(Line) : j # z => E[j] = Line[j]
      BY <2>3, <2>5, <2>6, ChangedIs
  <2>8. E[p] = Line[p]
      BY <1>3, <2>4, <2>7, Zenon
  <2>9. 5 * sent - slip + o = p
      BY <1>1, <1>4, <1>6
  <2> QED
      BY <1>3, <2>8, <2>9
<1>7. CASE slip = 1 /\ OneLost(E)
  <2>1. PICK z \in 1 .. 5 * sent : E = RemoveAt(Line, z)
      BY <1>7 DEF OneLost
  <2>2. z \in 1 .. Len(Line)
      BY <1>1
  <2>3. /\ Len(E) = Len(Line) - 1
        /\ \A x \in 1 .. Len(E) : E[x] = IF x < z THEN Line[x] ELSE Line[x + 1]
      BY <1>1, <2>1, <2>2, LostIs
  <2> DEFINE x == 5 * sent - slip + o
  <2>4. x = p - 1 /\ x + 1 = p /\ ~(x < z) /\ x \in 1 .. Len(E)
      BY <1>1, <1>3, <1>4, <1>7, <2>1, <2>3
  <2> HIDE DEF x
  <2>5. E[x] = Line[p]
      BY <2>3, <2>4
  <2> QED
      BY <1>3, <2>5 DEF x
<1> QED
    BY <1>5, <1>6, <1>7 DEF OnLine

(* Frame i stands on the line as it was sent.                              *)
Intact(E, i) == \A o \in 1 .. 5 : E[5 * i - 5 + o] = Encode(i)[o]

LEMMA CleanFrames ==
    ASSUME NEW E, Clean(E), NEW i \in 1 .. MaxSent
    PROVE  Intact(E, i)
    BY LineIs DEF Clean, Intact

LEMMA ChangedFrames ==
    ASSUME NEW E, NEW h \in 1 .. MaxSent, NEW o \in 1 .. 5, NEW v \in Bytes,
           ChangedIn(E, h, o, v)
    PROVE  /\ E[5 * h - 5 + o] # Encode(h)[o]
           /\ \A u \in 1 .. 5 : u # o => E[5 * h - 5 + u] = Encode(h)[u]
           /\ \A i \in 1 .. MaxSent : i # h => Intact(E, i)
<1> DEFINE z == 5 * h - 5 + o
<1>1. z \in 1 .. Len(Line) /\ Line[z] = Encode(h)[o] /\ Line \in Buffers
    BY InLine, LineIs
<1>2. v # Line[z] /\ E = ByteChanged(Line, z, v)
    BY DEF ChangedIn
<1>3. MaxSent \in Nat /\ h \in Nat /\ z = 5 * h - 5 + o
    BY LineIs
<1> HIDE DEF z
<1>4. E[z] = v /\ \A i \in 1 .. Len(Line) : i # z => E[i] = Line[i]
  <2>1. E[z] = v
      BY <1>1, <1>2, ChangedIs
  <2>2. ASSUME NEW i \in 1 .. Len(Line), i # z PROVE E[i] = Line[i]
      BY <1>1, <1>2, <2>2, ChangedIs
  <2> QED
      BY <2>1, <2>2
<1>5. ASSUME NEW i \in 1 .. MaxSent, NEW u \in 1 .. 5, i # h \/ u # o
      PROVE  E[5 * i - 5 + u] = Encode(i)[u]
  <2> DEFINE y == 5 * i - 5 + u
  <2>1. y \in 1 .. Len(Line) /\ Line[y] = Encode(i)[u]
      BY InLine
  <2>2. y # z
      BY <1>3, <1>5
  <2> HIDE DEF y
  <2>3. E[y] = Encode(i)[u]
      BY <1>4, <2>1, <2>2
  <2> QED
      BY <2>3 DEF y
<1>6. E[5 * h - 5 + o] # Encode(h)[o]
    BY <1>1, <1>2, <1>3, <1>4
<1>7. \A u \in 1 .. 5 : u # o => E[5 * h - 5 + u] = Encode(h)[u]
    BY <1>5
<1>8. \A i \in 1 .. MaxSent : i # h => Intact(E, i)
    BY <1>5 DEF Intact
<1> QED
    BY <1>6, <1>7, <1>8

(* A read of a buffer that ends at byte e of the line comes to the         *)
(* beginning of frame m, or returns it.                                    *)
Lands(r, e, m) ==
    \/ r.cut
    \/ r.frame = {} /\ e - Len(r.rest) = 5 * m - 5
    \/ m \in 1 .. sent /\ r.frame = {m} /\ e - Len(r.rest) = 5 * m

LEMMA LandsOn ==
    ASSUME NEW r, NEW e, NEW m, m \in 1 .. sent, r.frame = {m}, e - Len(r.rest) = 5 * m
    PROVE  Lands(r, e, m)
    BY DEF Lands

(* A read that returns nothing and leaves the buffer to begin at byte d.   *)
Waits(r, e, d) == r.cut \/ (r.frame = {} /\ e - Len(r.rest) = d)

LEMMA WaitsAt ==
    ASSUME NEW r, NEW e, NEW d, r.frame = {}, e - Len(r.rest) = d
    PROVE  Waits(r, e, d)
    BY DEF Waits

LEMMA ReadIntact ==
    ASSUME NEW E \in Buffers, NEW d \in Nat, NEW b, Shows(b, E, d), sent \in 0 .. MaxSent,
           NEW m \in 1 .. sent + 1, d = 5 * m - 5, d + Len(b) <= 5 * sent,
           m \in 1 .. sent => Intact(E, m)
    PROVE  Lands(PopFrame(b), d + Len(b), m)
<1> DEFINE r == PopFrame(b)
<1>1. /\ b \in Buffers /\ Len(b) \in Nat /\ MaxSent \in Nat /\ sent \in Nat /\ m \in Nat
      /\ \A p \in 1 .. Len(b) : b[p] = E[d + p]
    BY LineIs DEF Shows, Buffers
<1>2. CASE Len(b) = 0
  <2>1. b = << >>
      BY <1>1, <1>2 DEF Buffers
  <2>2. ~Ready(b)
      BY <1>2 DEF Ready, MagicAt
  <2>3. r.frame = {} /\ r.rest = << >>
      BY <1>1, <2>2, PopNothing
  <2> HIDE DEF r
  <2>4. (d + Len(b)) - Len(r.rest) = 5 * m - 5
      BY <1>1, <1>2, <2>1, <2>3
  <2>5. Lands(r, d + Len(b), m)
      BY <2>3, <2>4 DEF Lands
  <2> QED
      BY <2>5 DEF r
<1>3. CASE Len(b) > 0
  <2>1. m \in 1 .. sent /\ m \in 1 .. MaxSent
      BY <1>1, <1>3
  <2>2. ASSUME NEW o \in 1 .. 5, o <= Len(b) PROVE b[o] = Encode(m)[o]
    <3>1. o \in 1 .. Len(b) /\ d + o = 5 * m - 5 + o
        BY <1>1, <2>2
    <3>2. b[o] = E[5 * m - 5 + o]
        BY <1>1, <3>1
    <3> QED
        BY <2>1, <3>2 DEF Intact
  <2>3. Begins(b, m)
      BY <2>2 DEF Begins
  <2>4. Reads(b, r, m)
      BY <1>1, <2>1, <2>3, PopFront
  <2> HIDE DEF r
  <2>5. CASE Len(b) = 1
    <3>1. r.cut = TRUE
        BY <2>4, <2>5 DEF Reads
    <3>2. Lands(r, d + Len(b), m)
        BY <3>1, Zenon DEF Lands
    <3> QED
        BY <3>2 DEF r
  <2>6. CASE Len(b) < 5 /\ Len(b) # 1
    <3>1. r.frame = {} /\ r.rest = b
        BY <2>4, <2>6, Zenon DEF Reads
    <3>2. (d + Len(b)) - Len(r.rest) = 5 * m - 5
        BY <1>1, <3>1
    <3>3. Lands(r, d + Len(b), m)
        BY <3>1, <3>2 DEF Lands
    <3> QED
        BY <3>3 DEF r
  <2>7. CASE Len(b) >= 5
    <3> DEFINE q == 5
    <3>1. q \in 0 .. Len(b) /\ q + 1 = 6
        BY <1>1, <2>7
    <3>2. r.frame = {m} /\ r.rest = SubSeq(b, 6, Len(b))
        BY <2>4, <2>7 DEF Reads
    <3> HIDE DEF q
    <3>3. Len(SubSeq(b, q + 1, Len(b))) = Len(b) - q
        BY <3>1, ShowsRest
    <3>4. Len(r.rest) = Len(b) - 5
        BY <3>1, <3>2, <3>3 DEF q
    <3>5. (d + Len(b)) - Len(r.rest) = 5 * m
        BY <1>1, <3>4
    <3>6. Lands(r, d + Len(b), m)
        BY <2>1, <3>2, <3>5, LandsOn
    <3> QED
        BY <3>6 DEF r
  <2> QED
      BY <1>1, <2>5, <2>6, <2>7
<1> QED
    BY <1>1, <1>2, <1>3

(* A changed payload or CRC: the whole frame is dropped, and the read goes *)
(* on with the next one.                                                   *)
LEMMA ReadBroken ==
    ASSUME NEW E \in Buffers, Detects(E), NEW d \in Nat, NEW b, Shows(b, E, d),
           sent \in 0 .. MaxSent, NEW h \in 1 .. sent, NEW o \in 4 .. 5, NEW v \in Bytes,
           ChangedIn(E, h, o, v), d = 5 * h - 5, d + Len(b) <= 5 * sent
    PROVE  Waits(PopFrame(b), d + Len(b), d) \/ Lands(PopFrame(b), d + Len(b), h + 1)
<1> DEFINE r == PopFrame(b)
           e == d + Len(b)
<1>1. /\ b \in Buffers /\ Len(b) \in Nat /\ MaxSent \in Nat /\ sent \in Nat /\ h \in Nat
      /\ \A p \in 1 .. Len(b) : b[p] = E[d + p]
    BY LineIs DEF Shows, Buffers
<1>2. h \in 1 .. MaxSent /\ o \in 1 .. 5
    BY <1>1
<1>3. /\ E[5 * h - 5 + o] # Encode(h)[o]
      /\ \A u \in 1 .. 5 : u # o => E[5 * h - 5 + u] = Encode(h)[u]
      /\ \A i \in 1 .. MaxSent : i # h => Intact(E, i)
    BY <1>2, ChangedFrames
<1>4. CASE Len(b) = 0
  <2>1. b = << >> /\ ~Ready(b)
      BY <1>1, <1>4 DEF Buffers, Ready, MagicAt
  <2>2. r.frame = {} /\ r.rest = << >>
      BY <1>1, <2>1, PopNothing
  <2> HIDE DEF r
  <2>3. (d + Len(b)) - Len(r.rest) = d
      BY <1>1, <1>4, <2>1, <2>2
  <2>4. Waits(r, d + Len(b), d)
      BY <2>2, <2>3, WaitsAt
  <2> QED
      BY <2>4 DEF r
<1>5. CASE Len(b) = 1
  <2>1. b[1] = A
    <3>1. 1 \in 1 .. Len(b) /\ d + 1 = 5 * h - 5 + 1 /\ 1 \in 1 .. 5 /\ 1 # o
        BY <1>1, <1>5
    <3>2. b[1] = Encode(h)[1]
        BY <1>1, <1>3, <3>1
    <3> QED
        BY <1>2, <3>2, EncodeIs
  <2>2. ~Ready(b)
      BY <1>5 DEF Ready, MagicAt
  <2>3. r.cut = (b # << >> /\ b[Len(b)] = A)
      BY <1>1, <2>2, PopNothing
  <2>4. b # << >>
      BY <1>5
  <2>5. b[Len(b)] = A
      BY <1>5, <2>1
  <2>6. r.cut = TRUE
      BY <2>3, <2>4, <2>5, Zenon
  <2> HIDE DEF r
  <2>7. Waits(r, d + Len(b), d)
      BY <2>6, Zenon DEF Waits
  <2> QED
      BY <2>7 DEF r
<1>6. CASE Len(b) >= 2
  <2>1. ASSUME NEW u \in 1 .. 3, u <= Len(b) PROVE b[u] = Encode(h)[u]
    <3>1. u \in 1 .. Len(b) /\ d + u = 5 * h - 5 + u /\ u \in 1 .. 5 /\ u # o
        BY <1>1, <2>1
    <3> QED
        BY <1>1, <1>3, <3>1
  <2>2. HasHead(b)
    <3>1. 1 \in 1 .. 3 /\ 2 \in 1 .. 3 /\ 3 \in 1 .. 3 /\ 1 <= Len(b) /\ 2 <= Len(b)
        BY <1>1, <1>6
    <3>2. /\ b[1] = Encode(h)[1] /\ b[2] = Encode(h)[2]
          /\ 3 <= Len(b) => b[3] = Encode(h)[3]
        BY <2>1, <3>1
    <3>3. Len(b) >= 3 => b[3] = 1
        BY <1>1, <1>2, <3>2, EncodeIs
    <3> QED
        BY <1>1, <1>2, <1>6, <3>2, <3>3, EncodeIs DEF HasHead
  <2>3. CASE Len(b) < 5
    <3>1. Turn(b) = Result({}, b, FALSE, FALSE)
        BY <2>2, <2>3, HeadTurns
    <3>2. Turn(b).again = FALSE
        BY <3>1 DEF Result
    <3>3. r = Result({}, b, FALSE, FALSE)
        BY <1>1, <3>1, <3>2, PopUnfolds
    <3>4. r.frame = {} /\ r.rest = b
        BY <3>3 DEF Result
    <3> HIDE DEF r
    <3>5. (d + Len(b)) - Len(r.rest) = d
        BY <1>1, <3>4
    <3>6. Waits(r, d + Len(b), d)
        BY <3>4, <3>5, WaitsAt
    <3> QED
        BY <3>6 DEF r
  <2>4. CASE Len(b) >= 5
    <3> DEFINE raw == SubSeq(b, 1, 5)
               q == 5
               c == SubSeq(b, q + 1, Len(b))
    <3>1. raw \in Buffers /\ Len(raw) = 5 /\ \A u \in 1 .. 5 : raw[u] = b[u]
      <4>1. 5 \in Nat /\ 5 <= Len(b)
          BY <1>1, <2>4
      <4> QED
          BY <1>1, <4>1, FirstBytes
    <3>2. \A u \in 1 .. 5 : raw[u] = E[5 * h - 5 + u]
      <4>1. ASSUME NEW u \in 1 .. 5 PROVE raw[u] = E[5 * h - 5 + u]
        <5>1. u \in 1 .. Len(b) /\ d + u = 5 * h - 5 + u
            BY <1>1, <2>4
        <5> HIDE DEF raw
        <5> QED
            BY <1>1, <3>1, <5>1
      <4> QED
          BY <4>1
    <3> HIDE DEF raw
    <3>3. ASSUME NEW j \in Decode(raw) PROVE FALSE
      <4>1. j \in 1 .. MaxSent
          BY DEF Decode
      <4>2. FrameAt(raw, 1, j)
          BY <3>1, <4>1, DecodeIs
      <4>3. \A u \in 1 .. 5 : raw[u] = Encode(j)[u]
        <5>1. ASSUME NEW u \in 1 .. 5 PROVE raw[u] = Encode(j)[u]
          <6>1. 1 + u - 1 = u
              OBVIOUS
          <6> QED
              BY <4>2, <6>1 DEF FrameAt
        <5> QED
            BY <5>1
      <4> DEFINE p == 5 * h - 4
      <4>4. FrameAt(E, p, j)
        <5>1. ASSUME NEW u \in 1 .. 5 PROVE E[p + u - 1] = Encode(j)[u]
          <6>1. p + u - 1 = 5 * h - 5 + u
              BY <1>1
          <6> QED
              BY <3>2, <4>3, <6>1
        <5>2. p + 4 <= Len(E)
          <6>1. d + Len(b) <= Len(E) /\ Len(E) \in Nat
              BY DEF Shows, Buffers
          <6> QED
              BY <1>1, <2>4, <6>1
        <5> QED
            BY <5>1, <5>2 DEF FrameAt
      <4>5. p \in 1 .. 5 * MaxSent
          BY <1>1, <1>2
      <4>6. p \in {5 * j - 5, 5 * j - 4}
          BY <4>1, <4>4, <4>5 DEF Detects
      <4>7. j = h
          BY <1>1, <4>1, <4>6
      <4> QED
          BY <1>2, <1>3, <3>2, <4>3, <4>7
    <3>4. Decode(raw) = {}
        BY <3>3
    <3>5. q \in 0 .. Len(b) /\ q + 1 = 6
        BY <1>1, <2>4
    <3>6. r = PopFrame(c)
      <4>1. r = PopFrame(SubSeq(b, 6, Len(b)))
          BY <2>2, <2>4, <3>4, PopBroken DEF raw
      <4> QED
          BY <3>5, <4>1
    <3>7. Shows(c, E, d + q) /\ Len(c) = Len(b) - q
      <4> HIDE DEF q
      <4> QED
          BY <3>5, ShowsRest
    <3> DEFINE m == h + 1
    <3>8. /\ d + q = 5 * m - 5 /\ d + q + Len(c) = d + Len(b) /\ d + q \in Nat
          /\ m \in 1 .. sent + 1
      <4> HIDE DEF c
      <4> QED
          BY <1>1, <3>7
    <3>9. m \in 1 .. sent => Intact(E, m)
      <4>1. m # h
          BY <1>1
      <4>2. m \in 1 .. sent => m \in 1 .. MaxSent
          BY <1>1
      <4> QED
          BY <1>3, <4>1, <4>2
    <3> HIDE DEF r, q, c, m
    <3>10. d + q + Len(c) <= 5 * sent
        BY <3>8
    <3>11. Lands(PopFrame(c), d + q + Len(c), m)
        BY <3>7, <3>8, <3>9, <3>10, ReadIntact
    <3>12. Lands(r, d + Len(b), m)
        BY <3>6, <3>8, <3>11
    <3> QED
        BY <3>12 DEF r, m
  <2> QED
      BY <1>1, <2>3, <2>4
<1> QED
  <2>1. \A n \in Nat : n = 0 \/ n = 1 \/ n >= 2
      OBVIOUS
  <2> QED
      BY <1>1, <1>4, <1>5, <1>6, <2>1, Zenon

(* The rest of a frame whose MAGIC was changed.                            *)
LEMMA NoMagicIn ==
    ASSUME NEW E, NEW h \in 1 .. MaxSent, NEW o \in 1 .. 2, NEW v \in Bytes,
           ChangedIn(E, h, o, v), ~HalfMagicInside(h), NEW u \in 1 .. 5
    PROVE  ~(E[5 * h - 5 + u] = A /\ E[5 * h - 5 + u + 1] = R)
<1>1. /\ E[5 * h - 5 + o] # Encode(h)[o]
      /\ \A w \in 1 .. 5 : w # o => E[5 * h - 5 + w] = Encode(h)[w]
  <2>1. o \in 1 .. 5
      OBVIOUS
  <2> QED
      BY <2>1, ChangedFrames
<1>2. /\ Encode(h)[1] = A /\ Encode(h)[2] = R
      /\ Encode(h)[3] = 1 /\ Encode(h)[4] = Payload[h]
      /\ Encode(h)[5] = Crc[h]
    BY EncodeIs
<1>3. Payload[h] # A /\ Crc[h] # A
    BY DEF HalfMagicInside
<1>4. A # 1 /\ R # 1
    BY DEF A, R
<1> DEFINE g == 5 * h - 5
<1>5. g \in Int /\ MaxSent \in Nat
    BY LineIs
<1> HIDE DEF g
<1>6. u = 1 \/ u = 2 \/ u = 3 \/ u = 4 \/ u = 5
    OBVIOUS
<1>7. \A w \in 1 .. 5 : w # o => E[g + w] = Encode(h)[w]
    BY <1>1 DEF g
<1>8. E[g + o] # Encode(h)[o]
    BY <1>1 DEF g
<1>9. E[g + 3] = 1 /\ E[g + 4] = Payload[h] /\ E[g + 5] = Crc[h]
  <2>1. 3 \in 1 .. 5 /\ 4 \in 1 .. 5 /\ 5 \in 1 .. 5 /\ 3 # o /\ 4 # o /\ 5 # o
      OBVIOUS
  <2> QED
      BY <1>2, <1>7, <2>1
<1>10. E[g + 1] # A \/ E[g + 2] # R
  <2>1. o = 1 \/ o = 2
      OBVIOUS
  <2> QED
      BY <1>2, <1>8, <2>1
<1>11. ~(E[g + u] = A /\ E[g + u + 1] = R)
  <2>1. CASE u = 1
    <3>1. g + u = g + 1 /\ g + u + 1 = g + 2
        BY <1>5, <2>1
    <3> QED
        BY <1>10, <3>1
  <2>2. CASE u = 2
    <3>1. g + u + 1 = g + 3
        BY <1>5, <2>2
    <3> QED
        BY <1>4, <1>9, <3>1
  <2>3. CASE u = 3
      BY <1>4, <1>9, <2>3
  <2>4. CASE u = 4
      BY <1>3, <1>9, <2>4
  <2>5. CASE u = 5
      BY <1>3, <1>9, <2>5
  <2> QED
      BY <1>6, <2>1, <2>2, <2>3, <2>4, <2>5
<1> QED
    BY <1>11 DEF g

(* A changed MAGIC: what is left of the frame is dropped in one or more    *)
(* reads, the last of which goes on with the next frame.                   *)
LEMMA ReadJunk ==
    ASSUME NEW E \in Buffers, NEW d \in Nat, NEW b, Shows(b, E, d), sent \in 0 .. MaxSent,
           NEW h \in 1 .. sent, NEW o \in 1 .. 2, NEW v \in Bytes,
           ChangedIn(E, h, o, v), ~HalfMagicInside(h),
           5 * h - 5 <= d, d < 5 * h, d + Len(b) <= 5 * sent
    PROVE  \/ \E n \in d .. 5 * h - 1 : Waits(PopFrame(b), d + Len(b), n)
           \/ Lands(PopFrame(b), d + Len(b), h + 1)
<1> DEFINE r == PopFrame(b)
           k == 5 * h - d
           m == h + 1
<1>1. /\ b \in Buffers /\ Len(b) \in Nat /\ MaxSent \in Nat /\ sent \in Nat /\ h \in Nat
      /\ \A p \in 1 .. Len(b) : b[p] = E[d + p]
  <2>1. b \in Buffers /\ \A p \in 1 .. Len(b) : b[p] = E[d + p]
      BY DEF Shows
  <2>2. Len(b) \in Nat
      BY <2>1 DEF Buffers
  <2>3. MaxSent \in Nat /\ sent \in Nat /\ h \in Nat
      BY LineIs
  <2> QED
      BY <2>1, <2>2, <2>3
<1>2. h \in 1 .. MaxSent /\ o \in 1 .. 5 /\ k \in 1 .. 5 /\ d + k = 5 * h
    BY <1>1
<1> HIDE DEF k
<1>3. \A i \in 1 .. MaxSent : i # h => Intact(E, i)
    BY <1>2, ChangedFrames
<1>4. ASSUME NEW i \in 1 .. k, i + 1 <= Len(b)
      PROVE  ~(b[i] = A /\ b[i + 1] = R)
  <2> DEFINE u == d + i - (5 * h - 5)
  <2>1. /\ u \in 1 .. 5 /\ d + i = 5 * h - 5 + u /\ d + (i + 1) = 5 * h - 5 + u + 1
        /\ i \in 1 .. Len(b) /\ i + 1 \in 1 .. Len(b)
      BY <1>1, <1>2, <1>4
  <2> HIDE DEF u
  <2>2. ~(E[5 * h - 5 + u] = A /\ E[5 * h - 5 + u + 1] = R)
      BY <1>2, <2>1, NoMagicIn
  <2>3. b[i] = E[d + i] /\ b[i + 1] = E[d + (i + 1)]
      BY <1>1, <2>1
  <2>4. b[i] = E[5 * h - 5 + u] /\ b[i + 1] = E[5 * h - 5 + u + 1]
      BY <2>1, <2>3, Zenon
  <2> QED
      BY <2>2, <2>4, Zenon
<1>5. IsJunk(b, k)
    BY <1>4 DEF IsJunk
<1>6. ASSUME Len(b) > k
      PROVE  m \in 1 .. sent /\ m \in 1 .. MaxSent /\ b[k + 1] = A
  <2>1. m \in 1 .. sent /\ m \in 1 .. MaxSent /\ m # h
      BY <1>1, <1>2, <1>6
  <2>2. k + 1 \in 1 .. Len(b) /\ d + (k + 1) = 5 * m - 5 + 1 /\ 1 \in 1 .. 5
      BY <1>1, <1>2, <1>6
  <2>3. b[k + 1] = E[5 * m - 5 + 1]
      BY <1>1, <2>2
  <2>4. b[k + 1] = Encode(m)[1]
      BY <1>3, <2>1, <2>2, <2>3 DEF Intact
  <2> QED
      BY <2>1, <2>4, EncodeIs
<1>7. ASSUME Len(b) <= k + 1
      PROVE  ~Ready(b)
  <2>1. \A i \in 1 .. Len(b) : i + 1 <= Len(b) => i \in 1 .. k
      BY <1>1, <1>2, <1>7
  <2>2. IsJunk(b, Len(b))
      BY <1>5, <2>1 DEF IsJunk
  <2> QED
      BY <1>1, <2>2, JunkOnly
<1>8. CASE Len(b) < k
  <2>1. r.frame = {} /\ r.rest = << >>
    <3>1. Len(b) <= k + 1
        BY <1>1, <1>2, <1>8
    <3> QED
        BY <1>1, <1>7, <3>1, PopNothing
  <2> HIDE DEF r
  <2> DEFINE n == d + Len(b)
  <2>2. n \in d .. 5 * h - 1 /\ n - Len(r.rest) = n
      BY <1>1, <1>2, <1>8, <2>1
  <2>3. Waits(r, n, n)
    <3> HIDE DEF n
    <3> QED
        BY <2>1, <2>2, WaitsAt
  <2> QED
      BY <2>2, <2>3 DEF r
<1>9. CASE Len(b) = k
  <2>1. r.frame = {} /\ r.rest = << >>
    <3>1. Len(b) <= k + 1
        BY <1>1, <1>2, <1>9
    <3> QED
        BY <1>1, <1>7, <3>1, PopNothing
  <2> HIDE DEF r
  <2>2. (d + Len(b)) - Len(r.rest) = 5 * m - 5
      BY <1>1, <1>2, <1>9, <2>1
  <2>3. Lands(r, d + Len(b), m)
    <3> HIDE DEF m
    <3> QED
        BY <2>1, <2>2 DEF Lands
  <2> QED
      BY <2>3 DEF r
<1>10. CASE Len(b) = k + 1
  <2>1. ~Ready(b)
    <3>1. Len(b) <= k + 1
        BY <1>1, <1>2, <1>10
    <3> QED
        BY <1>7, <3>1
  <2>2. r.cut = (b # << >> /\ b[Len(b)] = A)
      BY <1>1, <2>1, PopNothing
  <2>3. b[Len(b)] = A
    <3>1. Len(b) > k
        BY <1>1, <1>2, <1>10
    <3> QED
        BY <1>6, <1>10, <3>1
  <2>4. b # << >>
    <3>1. Len(b) > 0
        BY <1>1, <1>2, <1>10
    <3> QED
        BY <3>1
  <2>5. r.cut = TRUE
      BY <2>2, <2>3, <2>4, Zenon
  <2> HIDE DEF r
  <2>6. Lands(r, d + Len(b), m)
      BY <2>5, Zenon DEF Lands
  <2> QED
      BY <2>6 DEF r
<1>11. CASE Len(b) >= k + 2
  <2>1. Len(b) > k /\ k \in Nat /\ k \in 0 .. Len(b) /\ k + 2 <= Len(b)
      BY <1>1, <1>2, <1>11
  <2>2. m \in 1 .. sent /\ m \in 1 .. MaxSent /\ b[k + 1] = A
      BY <1>6, <2>1
  <2>3. b[k + 2] = R
    <3>1. k + 2 \in 1 .. Len(b) /\ d + (k + 2) = 5 * m - 5 + 2 /\ 2 \in 1 .. 5 /\ m # h
        BY <1>1, <1>2, <2>1
    <3>2. b[k + 2] = E[5 * m - 5 + 2]
        BY <1>1, <3>1
    <3>3. b[k + 2] = Encode(m)[2]
        BY <1>3, <2>2, <3>1, <3>2 DEF Intact
    <3> QED
        BY <2>2, <3>3, EncodeIs
  <2> DEFINE c == SubSeq(b, k + 1, Len(b))
  <2>4. r = PopFrame(c)
      BY <1>1, <1>5, <2>1, <2>2, <2>3, PopJunk
  <2>5. Shows(c, E, d + k) /\ Len(c) = Len(b) - k
      BY <2>1, ShowsRest
  <2>6. m \in 1 .. sent => Intact(E, m)
    <3>1. m # h
        BY <1>1
    <3> QED
        BY <1>3, <2>2, <3>1
  <2> HIDE DEF c
  <2>7. /\ d + k = 5 * m - 5 /\ d + k + Len(c) = d + Len(b) /\ d + k \in Nat
        /\ m \in 1 .. sent + 1 /\ d + k + Len(c) <= 5 * sent
      BY <1>1, <1>2, <2>1, <2>5
  <2> HIDE DEF m, r
  <2>8. Lands(PopFrame(c), d + k + Len(c), m)
      BY <2>5, <2>6, <2>7, ReadIntact
  <2>9. Lands(r, d + Len(b), m)
      BY <2>4, <2>7, <2>8
  <2> QED
      BY <2>9 DEF r, m
<1>12. \A x \in Nat : \A y \in 1 .. 5 : x < y \/ x = y \/ x = y + 1 \/ x >= y + 2
    OBVIOUS
<1>13. Len(b) < k \/ Len(b) = k \/ Len(b) = k + 1 \/ Len(b) >= k + 2
    BY <1>1, <1>2, <1>12
<1> QED
    BY <1>8, <1>9, <1>10, <1>11, <1>13, Zenon

(* What is still to be read: the line from behind its byte d on.           *)
ToBeRead(E, slip, d) ==
    /\ Shows(buffer, E, d) /\ Shows(wire, E, d + Len(buffer))
    /\ d + Len(buffer) + Len(wire) = 5 * sent - slip

(* What has been returned came before that, in order.                      *)
Returned(d) ==
    /\ delivered \in Seq(1 .. MaxSent)
    /\ \A i \in 1 .. Len(delivered) : 5 * delivered[i] - 1 <= d
    /\ \A i \in 1 .. Len(delivered) - 1 : delivered[i] < delivered[i + 1]

(* While the damage is local, what is to be read begins with a frame, or   *)
(* with the rest of the one frame whose MAGIC was changed; all the frames  *)
(* in front of it were returned, but the damaged one.                      *)
Local ==
    /\ ~magic_cut /\ ~misaligned
    /\ noise = 1 => \A i \in 1 .. sent : ~HalfMagicInside(i)

Got(m) ==
    /\ ToSet(delivered) = (1 .. m - 1) \ hit
    /\ noise = 0 => Len(delivered) = m - 1

AtFrame(d, m) == m \in 1 .. sent + 1 /\ d = 5 * m - 5 /\ Got(m)

InJunk(E, d, h) ==
    /\ h \in 1 .. sent /\ hit = {h} /\ noise = 1 /\ d \in 5 * h - 5 .. 5 * h - 1
    /\ \E o \in 1 .. 2 : E[5 * h - 5 + o] # Encode(h)[o]
    /\ Got(h)

Aligned(E, d) == (\E m : AtFrame(d, m)) \/ (\E h : InJunk(E, d, h))

Yields(r, e, m) ==
    m \in 1 .. sent /\ m \notin hit /\ Got(m) /\ r.frame = {m} /\ e - Len(r.rest) = 5 * m

Outcome(E, r, e) ==
    \/ r.frame = {} /\ Aligned(E, e - Len(r.rest))
    \/ \E m : Yields(r, e, m)

LEMMA LandsWell ==
    ASSUME NEW E, NEW r, NEW e, NEW m \in 1 .. sent + 1, Lands(r, e, m), ~r.cut,
           Got(m), m \notin hit
    PROVE  Outcome(E, r, e)
<1>1. CASE r.frame = {} /\ e - Len(r.rest) = 5 * m - 5
  <2>1. AtFrame(e - Len(r.rest), m)
      BY <1>1, Zenon DEF AtFrame
  <2> QED
      BY <1>1, <2>1, Zenon DEF Outcome, Aligned
<1>2. CASE m \in 1 .. sent /\ r.frame = {m} /\ e - Len(r.rest) = 5 * m
  <2>1. Yields(r, e, m)
      BY <1>2, Zenon DEF Yields
  <2> QED
      BY <2>1, Zenon DEF Outcome
<1> QED
    BY <1>1, <1>2, Zenon DEF Lands

LEMMA WaitsWell ==
    ASSUME NEW E, NEW r, NEW e, NEW d, Waits(r, e, d), ~r.cut, Aligned(E, d)
    PROVE  Outcome(E, r, e)
    BY Zenon DEF Waits, Outcome

LEMMA ReadAtFrame ==
    ASSUME NEW E \in Buffers, NEW d \in Nat, NEW b, Shows(b, E, d), sent \in 0 .. MaxSent,
           NEW m, AtFrame(d, m), m \in 1 .. sent => Intact(E, m), m \notin hit,
           d + Len(b) <= 5 * sent, ~PopFrame(b).cut
    PROVE  Outcome(E, PopFrame(b), d + Len(b))
<1>1. m \in 1 .. sent + 1 /\ d = 5 * m - 5 /\ Got(m)
    BY DEF AtFrame
<1>2. Lands(PopFrame(b), d + Len(b), m)
    BY <1>1, ReadIntact
<1> DEFINE r == PopFrame(b)
<1> HIDE DEF r
<1>3. Outcome(E, r, d + Len(b))
    BY <1>1, <1>2, LandsWell DEF r
<1> QED
    BY <1>3 DEF r

(* The frame behind the damaged one is the next to come.                   *)
LEMMA GotBehind ==
    ASSUME NEW h \in Nat, hit = {h}, noise = 1, Got(h)
    PROVE  Got(h + 1) /\ h + 1 \notin hit
<1>1. (1 .. h - 1) \ {h} = (1 .. h + 1 - 1) \ {h}
    OBVIOUS
<1>2. h + 1 # h /\ noise # 0
    OBVIOUS
<1> QED
    BY <1>1, <1>2 DEF Got

LEMMA ReadAtDamage ==
    ASSUME NEW E \in Buffers, Detects(E), NEW d \in Nat, NEW b, Shows(b, E, d),
           sent \in 0 .. MaxSent, NEW h \in 1 .. sent, NEW o \in 4 .. 5,
           NEW v \in Bytes, ChangedIn(E, h, o, v), AtFrame(d, h),
           d + Len(b) <= 5 * sent, ~PopFrame(b).cut
    PROVE  Outcome(E, PopFrame(b), d + Len(b))
<1>1. d = 5 * h - 5 /\ Got(h) /\ hit = {h} /\ noise = 1
    BY DEF AtFrame, ChangedIn
<1>2. Aligned(E, d)
    BY Zenon DEF Aligned
<1> DEFINE r == PopFrame(b)
           m == h + 1
<1>3. MaxSent \in Nat /\ h \in Nat /\ m \in 1 .. sent + 1
  <2>1. \A t \in Nat : \A i \in 1 .. t : i \in Nat /\ i + 1 \in 1 .. t + 1
      OBVIOUS
  <2>2. MaxSent \in Nat /\ sent \in Nat
      BY LineIs
  <2> QED
      BY <2>1, <2>2, Zenon
<1>4. Got(m) /\ m \notin hit
    BY <1>1, <1>3, GotBehind
<1>5. Waits(r, d + Len(b), d) \/ Lands(r, d + Len(b), m)
    BY <1>1, ReadBroken
<1>6. ~r.cut
    OBVIOUS
<1> HIDE DEF r, m
<1>7. Outcome(E, r, d + Len(b))
    BY <1>2, <1>3, <1>4, <1>5, <1>6, LandsWell, WaitsWell
<1> QED
    BY <1>7 DEF r

LEMMA ReadInJunk ==
    ASSUME NEW E \in Buffers, NEW d \in Nat, NEW b, Shows(b, E, d), sent \in 0 .. MaxSent,
           NEW h, InJunk(E, d, h), NEW o \in 1 .. 2, NEW v \in Bytes,
           ChangedIn(E, h, o, v), ~HalfMagicInside(h),
           d + Len(b) <= 5 * sent, ~PopFrame(b).cut
    PROVE  Outcome(E, PopFrame(b), d + Len(b))
<1>1. h \in 1 .. sent /\ hit = {h} /\ noise = 1 /\ d \in 5 * h - 5 .. 5 * h - 1 /\ Got(h)
    BY DEF InJunk
<1> DEFINE r == PopFrame(b)
           m == h + 1
<1>2. /\ MaxSent \in Nat /\ h \in Nat /\ m \in 1 .. sent + 1 /\ 5 * h - 5 <= d /\ d < 5 * h
    BY <1>1, LineIs
<1>3. Got(m) /\ m \notin hit
    BY <1>1, <1>2, GotBehind
<1>4. (\E n \in d .. 5 * h - 1 : Waits(r, d + Len(b), n)) \/ Lands(r, d + Len(b), m)
    BY <1>1, <1>2, ReadJunk
<1>5. ~r.cut
    OBVIOUS
<1>6. ASSUME NEW n \in d .. 5 * h - 1 PROVE Aligned(E, n)
  <2>1. n \in 5 * h - 5 .. 5 * h - 1
      BY <1>1, <1>2
  <2>2. InJunk(E, n, h)
      BY <2>1, Zenon DEF InJunk
  <2> QED
      BY <2>2, Zenon DEF Aligned
<1> HIDE DEF r, m
<1>7. Outcome(E, r, d + Len(b))
  <2>1. CASE Lands(r, d + Len(b), m)
      BY <1>2, <1>3, <1>5, <2>1, LandsWell
  <2>2. CASE \E n \in d .. 5 * h - 1 : Waits(r, d + Len(b), n)
    <3>1. PICK n \in d .. 5 * h - 1 : Waits(r, d + Len(b), n)
        BY <2>2
    <3> QED
        BY <1>5, <1>6, <3>1, WaitsWell
  <2> QED
      BY <1>4, <2>1, <2>2
<1> QED
    BY <1>7 DEF r

(* A read while the damage is local.                                       *)
LEMMA ReadAligned ==
    ASSUME NEW E, NEW slip, OnLine(E, slip), NEW d \in Nat, NEW b, Shows(b, E, d),
           sent \in 0 .. MaxSent, Local, Aligned(E, d), d + Len(b) <= 5 * sent,
           ~PopFrame(b).cut
    PROVE  Outcome(E, PopFrame(b), d + Len(b))
<1>1. E \in Buffers /\ Detects(E) /\ MaxSent \in Nat /\ \A i \in 1 .. sent : i \in 1 .. MaxSent
    BY OnLineIs, LineIs
<1>2. CASE Clean(E)
  <2>1. noise = 0 /\ hit = {} /\ \A i \in 1 .. sent : Intact(E, i)
      BY <1>1, <1>2, CleanFrames DEF Clean
  <2>2. PICK m : AtFrame(d, m)
      BY <2>1 DEF Aligned, InJunk
  <2>3. m \notin hit /\ (m \in 1 .. sent => Intact(E, m))
      BY <2>1
  <2> QED
      BY <1>1, <2>2, <2>3, ReadAtFrame
<1>3. CASE OneChanged(E)
  <2>1. PICK h \in 1 .. sent, o \in 1 .. 5, v \in Bytes : ChangedIn(E, h, o, v)
      BY <1>3 DEF OneChanged
  <2>2. h \in 1 .. MaxSent /\ hit = {h} /\ noise = 1 /\ o # 3 /\ ~HalfMagicInside(h)
      BY <1>1, <2>1 DEF ChangedIn, Local
  <2>3. /\ E[5 * h - 5 + o] # Encode(h)[o]
        /\ \A u \in 1 .. 5 : u # o => E[5 * h - 5 + u] = Encode(h)[u]
        /\ \A i \in 1 .. MaxSent : i # h => Intact(E, i)
      BY <2>1, <2>2, ChangedFrames
  <2>4. CASE \E m : AtFrame(d, m) /\ m # h
    <3>1. PICK m : AtFrame(d, m) /\ m # h
        BY <2>4
    <3>2. m \notin hit /\ (m \in 1 .. sent => Intact(E, m))
        BY <1>1, <2>2, <2>3, <3>1
    <3> QED
        BY <1>1, <3>1, <3>2, ReadAtFrame
  <2>5. CASE AtFrame(d, h) /\ o \in 4 .. 5
      BY <1>1, <2>1, <2>5, ReadAtDamage
  <2>6. CASE AtFrame(d, h) /\ o \in 1 .. 2
    <3>1. h \in 1 .. sent /\ d \in 5 * h - 5 .. 5 * h - 1 /\ Got(h)
        BY <1>1, <2>6 DEF AtFrame
    <3>2. \E u \in 1 .. 2 : E[5 * h - 5 + u] # Encode(h)[u]
        BY <2>3, <2>6
    <3>3. InJunk(E, d, h)
        BY <2>2, <3>1, <3>2, Zenon DEF InJunk
    <3> QED
        BY <1>1, <2>1, <2>2, <2>6, <3>3, ReadInJunk
  <2>7. CASE \E g : InJunk(E, d, g)
    <3>1. PICK g : InJunk(E, d, g)
        BY <2>7
    <3>2. g = h
        BY <2>2, <3>1 DEF InJunk
    <3>3. PICK u \in 1 .. 2 : E[5 * h - 5 + u] # Encode(h)[u]
        BY <3>1, <3>2 DEF InJunk
    <3>4. o \in 1 .. 2
      <4>1. u \in 1 .. 5
          OBVIOUS
      <4>2. u = o
          BY <2>3, <3>3, <4>1
      <4> QED
          BY <4>2
    <3> QED
        BY <1>1, <2>1, <2>2, <3>1, <3>2, <3>4, ReadInJunk
  <2>8. o \in 4 .. 5 \/ o \in 1 .. 2
      BY <2>2
  <2> QED
      BY <2>4, <2>5, <2>6, <2>7, <2>8, Zenon DEF Aligned
<1>4. CASE OneLost(E)
    BY <1>4 DEF OneLost, Local
<1> QED
    BY <1>2, <1>3, <1>4, Zenon DEF OnLine

SerialTypes ==
    /\ sent \in 0 .. MaxSent /\ noise \in {0, 1}
    /\ magic_cut \in BOOLEAN /\ misaligned \in BOOLEAN

(* The inductive invariant: with the damage so far the line is E, slip     *)
(* bytes shorter than what was sent, and d bytes of it have been taken.    *)
SerialHolds(E, slip, d) ==
    /\ OnLine(E, slip) /\ ToBeRead(E, slip, d) /\ Returned(d)
    /\ Local => Aligned(E, d)

SerialInv ==
    SerialTypes /\ \E E : \E slip : \E d \in Nat : SerialHolds(E, slip, d)

(* One more frame returned.                                                *)
LEMMA OneMore ==
    ASSUME NEW s \in Seq(1 .. MaxSent), NEW i \in 1 .. MaxSent
    PROVE  /\ s \o <<i>> \in Seq(1 .. MaxSent) /\ Len(s \o <<i>>) = Len(s) + 1
           /\ \A x \in 1 .. Len(s) : (s \o <<i>>)[x] = s[x]
           /\ (s \o <<i>>)[Len(s) + 1] = i
           /\ ToSet(s \o <<i>>) = ToSet(s) \cup {i}
<1> DEFINE t == s \o <<i>>
           u == <<i>>
<1>1. u \in Seq(1 .. MaxSent) /\ Len(u) = 1 /\ u[1] = i
    OBVIOUS
<1>2. Len(s) \in Nat /\ DOMAIN s = 1 .. Len(s)
    BY LenProperties
<1> HIDE DEF u
<1>3. /\ s \o u \in Seq(1 .. MaxSent) /\ Len(s \o u) = Len(s) + Len(u)
      /\ \A x \in 1 .. Len(s) + Len(u) :
            (s \o u)[x] = IF x <= Len(s) THEN s[x] ELSE u[x - Len(s)]
    BY <1>1, ConcatProperties
<1>4. t = s \o u
    BY DEF u
<1> HIDE DEF t
<1>5. t \in Seq(1 .. MaxSent) /\ Len(t) = Len(s) + 1 /\ DOMAIN t = 1 .. Len(t)
    BY <1>1, <1>2, <1>3, <1>4, LenProperties
<1>6. \A x \in 1 .. Len(s) : t[x] = s[x]
  <2>1. ASSUME NEW x \in 1 .. Len(s) PROVE x \in 1 .. Len(s) + Len(u) /\ x <= Len(s)
      BY <1>1, <1>2
  <2> QED
      BY <1>3, <1>4, <2>1
<1>7. t[Len(s) + 1] = i
  <2>1. /\ Len(s) + 1 \in 1 .. Len(s) + Len(u) /\ ~(Len(s) + 1 <= Len(s))
        /\ Len(s) + 1 - Len(s) = 1
      BY <1>1, <1>2
  <2> QED
      BY <1>1, <1>3, <1>4, <2>1
<1>8. ToSet(t) = ToSet(s) \cup {i}
  <2>1. \A x \in DOMAIN t : t[x] \in ToSet(s) \cup {i}
    <3>1. ASSUME NEW x \in DOMAIN t PROVE t[x] \in ToSet(s) \cup {i}
      <4>1. x \in 1 .. Len(s) \/ x = Len(s) + 1
          BY <1>2, <1>5
      <4> QED
          BY <1>2, <1>6, <1>7, <4>1 DEF ToSet
    <3> QED
        BY <3>1
  <2>2. \A x \in DOMAIN s : x \in DOMAIN t /\ t[x] = s[x]
      BY <1>2, <1>5, <1>6
  <2>3. Len(s) + 1 \in DOMAIN t
      BY <1>2, <1>5
  <2> QED
      BY <1>7, <2>1, <2>2, <2>3 DEF ToSet
<1> QED
    BY <1>5, <1>6, <1>7, <1>8 DEF t

(* At most one frame is returned, and where it was.                        *)
LEMMA PopsOne ==
    ASSUME NEW b \in Buffers, NEW q, Taken(b, PopFrame(b), q)
    PROVE  \/ PopFrame(b).frame = {}
           \/ \E i \in 1 .. MaxSent :
                 /\ PopFrame(b).frame = {i} /\ q >= 5 /\ q \in Nat
                 /\ FrameAt(b, q - 4, i)
<1> DEFINE r == PopFrame(b)
<1>1. q \in Nat
    BY DEF Taken, Buffers
<1>2. \A i \in r.frame : i \in 1 .. MaxSent /\ q >= 5 /\ FrameAt(b, q - 4, i)
    BY DEF Taken
<1> HIDE DEF r
<1>3. ASSUME NEW i \in r.frame, NEW j \in r.frame PROVE i = j
  <2>1. \A o \in 1 .. 5 : Encode(i)[o] = Encode(j)[o]
      BY <1>2 DEF FrameAt
  <2> QED
      BY <1>2, <2>1, FramesDiffer
<1>4. r.frame = {} \/ \E i \in r.frame : r.frame = {i}
    BY <1>3
<1> QED
    BY <1>1, <1>2, <1>4 DEF r

(* The same with the line in place of the buffer: frame i ends at byte     *)
(* d + q, or one in front of where it was sent.                            *)
LEMMA ReturnsNext ==
    ASSUME NEW E, NEW slip, OnLine(E, slip), sent \in 0 .. MaxSent, NEW d \in Nat,
           NEW b, Shows(b, E, d), d + Len(b) <= 5 * sent,
           NEW q \in 0 .. Len(b), q >= 5, NEW i \in 1 .. MaxSent, FrameAt(b, q - 4, i)
    PROVE  i \in 1 .. sent /\ 5 * i - 1 <= d + q /\ d + q <= 5 * i
<1>1. /\ E \in Buffers /\ Detects(E) /\ MaxSent \in Nat /\ slip \in {0, 1}
      /\ Len(E) = 5 * MaxSent - slip
    BY OnLineIs, LineIs
<1>2. Len(b) \in Nat /\ q \in Nat /\ d + Len(b) <= Len(E)
    BY DEF Shows, Buffers
<1> DEFINE p == q - 4
           g == d + p
<1>3. p \in Nat /\ p > 0 /\ FrameAt(b, p, i)
    BY <1>2
<1> HIDE DEF p
<1>4. FrameAt(E, g, i)
    BY <1>1, <1>3, ShowsFrame
<1>5. g \in 1 .. 5 * MaxSent /\ g = d + q - 4
    BY <1>1, <1>2, <1>3 DEF p
<1> HIDE DEF g
<1>6. g \in {5 * i - 5, 5 * i - 4}
    BY <1>1, <1>4, <1>5 DEF Detects
<1>7. 5 * i - 1 <= d + q /\ d + q <= 5 * i
    BY <1>2, <1>5, <1>6
<1>8. i \in 1 .. sent
    BY <1>1, <1>2, <1>7
<1> QED
    BY <1>7, <1>8

LEMMA SerialStarts == SerialInit => SerialInv
<1> SUFFICES ASSUME SerialInit PROVE SerialInv
    OBVIOUS
<1> DEFINE d == 0
<1>1. /\ sent = 0 /\ wire = << >> /\ noise = 0 /\ hit = {} /\ misaligned = FALSE
      /\ buffer = << >> /\ delivered = << >> /\ magic_cut = FALSE
    BY DEF SerialInit
<1>2. MaxSent \in Nat /\ Line \in Buffers /\ Len(Line) = 5 * MaxSent
    BY LineIs
<1>3. SerialTypes
  <2>1. sent \in 0 .. MaxSent /\ noise \in {0, 1}
      BY <1>1, <1>2
  <2>2. magic_cut \in BOOLEAN /\ misaligned \in BOOLEAN
      BY <1>1, Zenon
  <2> QED
      BY <2>1, <2>2, Zenon DEF SerialTypes
<1>4. OnLine(Line, 0)
  <2>1. Clean(Line)
      BY <1>1, Zenon DEF Clean
  <2> QED
      BY <2>1 DEF OnLine
<1>5. Shows(<< >>, Line, 0)
    BY <1>2 DEF Shows, Buffers
<1>6. ToBeRead(Line, 0, 0)
  <2>1. Len(<< >>) = 0 /\ 0 + 0 = 0 /\ 0 + 0 + 0 = 5 * 0 - 0
      OBVIOUS
  <2> QED
      BY <1>1, <1>5, <2>1 DEF ToBeRead
<1>7. Returned(0)
    BY <1>1 DEF Returned
<1>8. Aligned(Line, 0)
  <2>1. ToSet(<< >>) = {}
      BY DEF ToSet
  <2>2. Got(1)
      BY <1>1, <2>1 DEF Got
  <2>3. AtFrame(0, 1)
      BY <1>1, <2>2 DEF AtFrame
  <2> QED
      BY <2>3, Zenon DEF Aligned
<1>9. SerialHolds(Line, 0, 0)
    BY <1>4, <1>6, <1>7, <1>8, Zenon DEF SerialHolds
<1>10. 0 \in Nat
    OBVIOUS
<1> QED
    BY <1>3, <1>9, <1>10, Zenon DEF SerialInv

LEMMA SendKeeps ==
    ASSUME SerialTypes, NEW E, NEW slip, NEW d \in Nat, SerialHolds(E, slip, d), McuSends
    PROVE  SerialInv'
<1>1. /\ OnLine(E, slip) /\ ToBeRead(E, slip, d) /\ Returned(d) /\ (Local => Aligned(E, d))
    BY DEF SerialHolds
<1>2. /\ sent < MaxSent /\ sent' = sent + 1 /\ wire' = wire \o Encode(sent + 1)
      /\ UNCHANGED <<noise, hit, misaligned, buffer, delivered, magic_cut>>
    BY DEF McuSends
<1>3. /\ sent \in 0 .. MaxSent /\ MaxSent \in Nat /\ sent \in Nat /\ sent' \in 0 .. MaxSent
      /\ sent' \in Nat /\ sent + 1 \in 1 .. MaxSent
    BY <1>2, LineIs DEF SerialTypes
<1>4. E \in Buffers /\ slip \in {0, 1} /\ Len(E) = 5 * MaxSent - slip /\ Len(E) \in Nat
    BY <1>1, <1>3, OnLineIs DEF Buffers
<1>5. SerialTypes'
    BY <1>2, <1>3 DEF SerialTypes
<1>6. OnLine(E, slip)'
  <2>1. ASSUME Clean(E) PROVE Clean(E)'
      BY <1>2, <2>1, Zenon DEF Clean
  <2>2. ASSUME OneChanged(E) PROVE OneChanged(E)'
    <3>1. PICK h \in 1 .. sent, o \in 1 .. 5, v \in Bytes : ChangedIn(E, h, o, v)
        BY <2>2 DEF OneChanged
    <3>2. ChangedIn(E, h, o, v)'
        BY <1>2, <3>1, Zenon DEF ChangedIn
    <3>3. h \in 1 .. sent'
        BY <1>2, <1>3
    <3> QED
        BY <3>2, <3>3, Zenon DEF OneChanged
  <2>3. ASSUME OneLost(E) PROVE OneLost(E)'
    <3>1. PICK z \in 1 .. 5 * sent : E = RemoveAt(Line, z)
        BY <2>3 DEF OneLost
    <3>2. z \in 1 .. 5 * sent'
        BY <1>2, <1>3
    <3>3. noise' = 1 /\ misaligned'
        BY <1>2, <2>3, Zenon DEF OneLost
    <3> QED
        BY <3>1, <3>2, <3>3, Zenon DEF OneLost
  <2> QED
      BY <1>1, <2>1, <2>2, <2>3, Zenon DEF OnLine
<1> DEFINE e == Encode(sent + 1)
           g == d + Len(buffer)
<1>7. /\ Shows(buffer, E, d) /\ Shows(wire, E, g) /\ g + Len(wire) = 5 * sent - slip
    BY <1>1 DEF ToBeRead
<1>8. Len(buffer) \in Nat /\ Len(wire) \in Nat /\ g \in Nat
    BY <1>7 DEF Shows, Buffers
<1>9. e \in Buffers /\ Len(e) = 5
    BY <1>3, EncodeIs
<1> HIDE DEF e, g
<1>10. Shows(e, E, g + Len(wire))
  <2>1. ASSUME NEW o \in 1 .. Len(e) PROVE e[o] = E[g + Len(wire) + o]
    <3>1. o \in 1 .. 5
        BY <1>9
    <3>2. E[5 * sent - slip + o] = Encode(sent + 1)[o]
        BY <1>1, <1>2, <1>3, <3>1, TailIs
    <3> QED
        BY <1>7, <3>2, Zenon DEF e
  <2>2. g + Len(wire) + Len(e) <= Len(E)
      BY <1>2, <1>3, <1>4, <1>7, <1>9
  <2> QED
      BY <1>9, <2>1, <2>2 DEF Shows
<1>11. Shows(wire \o e, E, g) /\ Len(wire \o e) = Len(wire) + Len(e)
    BY <1>4, <1>7, <1>8, <1>10, ShowsBoth
<1>12. ToBeRead(E, slip, d)'
  <2>1. wire' = wire \o e /\ buffer' = buffer
      BY <1>2 DEF e
  <2>2. g + Len(wire') = 5 * sent' - slip
      BY <1>2, <1>3, <1>4, <1>7, <1>8, <1>9, <1>11, <2>1
  <2> QED
      BY <1>7, <1>11, <2>1, <2>2 DEF ToBeRead, g
<1>13. Returned(d)'
    BY <1>1, <1>2 DEF Returned
<1>14. ASSUME Local' PROVE Aligned(E, d)'
  <2>1. \A i \in 1 .. sent : i \in 1 .. sent'
      BY <1>2, <1>3
  <2>2. Local
      BY <1>2, <1>14, <2>1, Zenon DEF Local
  <2>3. ASSUME NEW m, AtFrame(d, m) PROVE AtFrame(d, m)'
    <3>1. m \in 1 .. sent' + 1
        BY <1>2, <1>3, <2>3 DEF AtFrame
    <3> QED
        BY <1>2, <2>3, <3>1, Zenon DEF AtFrame, Got
  <2>4. ASSUME NEW h, InJunk(E, d, h) PROVE InJunk(E, d, h)'
      BY <1>2, <2>1, <2>4, Zenon DEF InJunk, Got
  <2> QED
      BY <1>1, <2>2, <2>3, <2>4, Zenon DEF Aligned
<1>15. SerialHolds(E, slip, d)'
    BY <1>6, <1>12, <1>13, <1>14, Zenon DEF SerialHolds
<1> QED
    BY <1>5, <1>15, Zenon DEF SerialInv

(* What a read has returned.                                               *)
LEMMA ReadReturns ==
    ASSUME NEW d \in Nat, Returned(d), NEW n \in Nat, d <= n,
           NEW S, delivered' = delivered \o SetToSeq(S),
           S = {} \/ \E i \in 1 .. MaxSent : S = {i} /\ d + 5 <= n /\ 5 * i - 1 <= n /\ n <= 5 * i
    PROVE  Returned(n)'
<1>1. MaxSent \in Nat /\ delivered \in Seq(1 .. MaxSent)
    BY LineIs DEF Returned
<1>2. /\ Len(delivered) \in Nat /\ \A x \in 1 .. Len(delivered) : delivered[x] \in 1 .. MaxSent
    BY <1>1, ElementOfSeq, LenProperties
<1>3. /\ \A x \in 1 .. Len(delivered) : 5 * delivered[x] - 1 <= d
      /\ \A x \in 1 .. Len(delivered) - 1 : delivered[x] < delivered[x + 1]
    BY DEF Returned
<1>4. CASE S = {}
  <2>1. delivered' = delivered
    <3>1. delivered \o << >> = delivered
        BY <1>1, ConcatEmptySeq
    <3> QED
        BY <1>4, <3>1, ListOfNone
  <2>2. \A x \in 1 .. Len(delivered) : 5 * delivered[x] - 1 <= n
      BY <1>2, <1>3
  <2> QED
      BY <1>1, <1>3, <2>1, <2>2 DEF Returned
<1>5. CASE \E i \in 1 .. MaxSent : S = {i} /\ d + 5 <= n /\ 5 * i - 1 <= n /\ n <= 5 * i
  <2>1. PICK i \in 1 .. MaxSent : S = {i} /\ d + 5 <= n /\ 5 * i - 1 <= n /\ n <= 5 * i
      BY <1>5
  <2> DEFINE t == delivered \o <<i>>
  <2>2. /\ t \in Seq(1 .. MaxSent) /\ Len(t) = Len(delivered) + 1
        /\ \A x \in 1 .. Len(delivered) : t[x] = delivered[x]
        /\ t[Len(delivered) + 1] = i
      BY <1>1, OneMore
  <2>3. delivered' = t
      BY <2>1, ListOfOne
  <2> HIDE DEF t
  <2>4. ASSUME NEW x \in 1 .. Len(t) PROVE 5 * t[x] - 1 <= n
    <3>1. CASE x \in 1 .. Len(delivered)
        BY <1>2, <1>3, <2>2, <3>1
    <3>2. CASE x = Len(delivered) + 1
        BY <2>1, <2>2, <3>2
    <3> QED
        BY <1>2, <2>2, <3>1, <3>2
  <2>5. ASSUME NEW x \in 1 .. Len(t) - 1 PROVE t[x] < t[x + 1]
    <3>1. x \in 1 .. Len(delivered)
        BY <1>2, <2>2
    <3>2. CASE x + 1 \in 1 .. Len(delivered)
      <4>1. x \in 1 .. Len(delivered) - 1
          BY <1>2, <3>1, <3>2
      <4> QED
          BY <1>3, <2>2, <3>1, <3>2, <4>1
    <3>3. CASE x + 1 = Len(delivered) + 1
      <4>1. delivered[x] < i
          BY <1>1, <1>2, <1>3, <2>1, <3>1
      <4>2. t[x] = delivered[x] /\ t[x + 1] = i
          BY <2>2, <3>1, <3>3
      <4> QED
          BY <4>1, <4>2
    <3> QED
        BY <1>2, <3>1, <3>2, <3>3
  <2> QED
      BY <2>2, <2>3, <2>4, <2>5 DEF Returned
<1> QED
    BY <1>4, <1>5

(* What is known of the frames once the read is over.                      *)
LEMMA ReadLeaves ==
    ASSUME sent \in 0 .. MaxSent, delivered \in Seq(1 .. MaxSent),
           NEW E, NEW r, NEW e, Outcome(E, r, e), NEW n \in Nat, n = e - Len(r.rest),
           delivered' = delivered \o SetToSeq(r.frame),
           UNCHANGED <<sent, noise, hit>>
    PROVE  Aligned(E, n)'
<1>1. MaxSent \in Nat /\ sent \in Nat /\ delivered \in Seq(1 .. MaxSent)
    BY LineIs DEF Returned
<1>2. CASE r.frame = {} /\ Aligned(E, n)
  <2>1. delivered' = delivered
    <3>1. delivered \o << >> = delivered
        BY <1>1, ConcatEmptySeq
    <3> QED
        BY <1>2, <3>1, ListOfNone
  <2>2. ASSUME NEW m, AtFrame(n, m) PROVE AtFrame(n, m)'
      BY <2>1, <2>2, Zenon DEF AtFrame, Got
  <2>3. ASSUME NEW h, InJunk(E, n, h) PROVE InJunk(E, n, h)'
      BY <2>1, <2>3, Zenon DEF InJunk, Got
  <2> QED
      BY <1>2, <2>2, <2>3, Zenon DEF Aligned
<1>3. CASE \E m : Yields(r, e, m)
  <2>1. PICK m : Yields(r, e, m)
      BY <1>3
  <2>2. m \in 1 .. sent /\ m \notin hit /\ Got(m) /\ r.frame = {m} /\ n = 5 * m
      BY <2>1, Zenon DEF Yields
  <2> DEFINE s == delivered
             t == s \o <<m>>
             k == m + 1
  <2>3. m \in 1 .. MaxSent /\ m \in Nat /\ k \in 1 .. sent + 1 /\ n = 5 * k - 5
      BY <1>1, <2>2
  <2>4. delivered' = t
      BY <2>2, ListOfOne
  <2>5. Len(t) = Len(s) + 1 /\ ToSet(t) = ToSet(s) \cup {m}
      BY <1>1, <2>3, OneMore
  <2> HIDE DEF t
  <2>6. Got(k)'
    <3>1. ToSet(delivered') = (1 .. k - 1) \ hit'
      <4>1. ToSet(s) = (1 .. m - 1) \ hit /\ hit' = hit
          BY <2>2 DEF Got
      <4>2. 1 .. k - 1 = (1 .. m - 1) \cup {m}
          BY <2>3
      <4> HIDE DEF k
      <4> QED
          BY <2>2, <2>4, <2>5, <4>1, <4>2
    <3>2. ASSUME noise' = 0 PROVE Len(delivered') = k - 1
      <4>1. Len(s) = m - 1
          BY <2>2, <3>2 DEF Got
      <4> QED
          BY <2>3, <2>4, <2>5, <4>1
    <3> HIDE DEF k
    <3> QED
        BY <3>1, <3>2, Zenon DEF Got
  <2> HIDE DEF k
  <2>7. k \in 1 .. sent' + 1
      BY <2>3
  <2>8. AtFrame(n, k)'
      BY <2>3, <2>6, <2>7, Zenon DEF AtFrame
  <2> QED
      BY <2>8, Zenon DEF Aligned
<1> QED
    BY <1>2, <1>3 DEF Outcome

LEMMA ReadKeeps ==
    ASSUME SerialTypes, NEW E, NEW slip, NEW d \in Nat, SerialHolds(E, slip, d),
           NEW n \in 0 .. Len(wire), ReadFrame(n)
    PROVE  SerialInv'
<1> DEFINE w == SubSeq(wire, 1, n)
           b == buffer \o w
           r == PopFrame(b)
           g == d + Len(buffer)
           e == d + Len(b)
<1>1. OnLine(E, slip) /\ ToBeRead(E, slip, d) /\ Returned(d) /\ (Local => Aligned(E, d))
    BY DEF SerialHolds
<1>2. /\ wire' = SubSeq(wire, n + 1, Len(wire)) /\ buffer' = r.rest
      /\ delivered' = delivered \o SetToSeq(r.frame)
      /\ magic_cut' = (magic_cut \/ r.cut)
      /\ UNCHANGED <<sent, noise, hit, misaligned>>
    BY DEF ReadFrame
<1>3. sent \in 0 .. MaxSent /\ MaxSent \in Nat /\ sent \in Nat
    BY LineIs DEF SerialTypes
<1>4. E \in Buffers /\ slip \in {0, 1} /\ Len(E) = 5 * MaxSent - slip
    BY <1>1, <1>3, OnLineIs
<1>5. Shows(buffer, E, d) /\ Shows(wire, E, g) /\ g + Len(wire) = 5 * sent - slip
    BY <1>1 DEF ToBeRead
<1>6. Len(buffer) \in Nat /\ Len(wire) \in Nat /\ g \in Nat
    BY <1>5 DEF Shows, Buffers
<1> HIDE DEF r, w, b
<1>7. Shows(w, E, g) /\ Len(w) = n
    BY <1>4, <1>5, <1>6, ShowsFirst DEF w
<1>8. Shows(b, E, d) /\ Len(b) = Len(buffer) + n
    BY <1>4, <1>5, <1>7, ShowsBoth DEF b
<1>9. b \in Buffers /\ Len(b) \in Nat
    BY <1>8 DEF Shows, Buffers
<1>10. PopsWell(b)
    BY <1>9, PopTakes
<1>11. PICK q : Taken(b, r, q)
    BY <1>10 DEF PopsWell, r
<1>12. q \in 0 .. Len(b) /\ q \in Nat /\ r.rest = SubSeq(b, q + 1, Len(b))
    BY <1>9, <1>11 DEF Taken
<1> DEFINE x == d + q
<1>13. x \in Nat /\ d <= x /\ e <= 5 * sent
    BY <1>3, <1>4, <1>5, <1>6, <1>8, <1>12
<1>14. Shows(r.rest, E, x) /\ Len(r.rest) = Len(b) - q
    BY <1>4, <1>8, <1>12, ShowsRest
<1>15. x = e - Len(r.rest) /\ x + Len(r.rest) = g + n
  <2>1. Len(r.rest) = Len(b) - q
      BY <1>14
  <2>2. Len(b) = Len(buffer) + n /\ Len(b) \in Nat /\ q \in Nat /\ n \in Nat
      BY <1>6, <1>8, <1>9, <1>12
  <2>3. (d + Len(b)) - (Len(b) - q) = d + q
      BY <2>2
  <2>4. (d + q) + (Len(b) - q) = d + Len(buffer) + n
      BY <1>6, <2>2
  <2> QED
      BY <2>1, <2>3, <2>4
<1>16. SerialTypes'
  <2>1. r.cut \in BOOLEAN
      BY <1>10 DEF PopsWell, r
  <2>2. magic_cut' \in BOOLEAN
      BY <1>2, <2>1, Zenon DEF SerialTypes
  <2>3. sent' \in 0 .. MaxSent /\ noise' \in {0, 1} /\ misaligned' \in BOOLEAN
      BY <1>2, Zenon DEF SerialTypes
  <2> QED
      BY <2>2, <2>3, Zenon DEF SerialTypes
<1>17. OnLine(E, slip)'
    BY <1>1, <1>2, Zenon DEF OnLine, Clean, OneChanged, OneLost, ChangedIn
<1>18. ToBeRead(E, slip, x)'
  <2>1. /\ Shows(SubSeq(wire, n + 1, Len(wire)), E, g + n)
        /\ Len(SubSeq(wire, n + 1, Len(wire))) = Len(wire) - n
      BY <1>4, <1>5, <1>6, ShowsRest
  <2>2. x + Len(r.rest) = g + n
      BY <1>15
  <2>3. g + n + (Len(wire) - n) = 5 * sent - slip
      BY <1>5, <1>6
  <2>4. x + Len(buffer') + Len(wire') = 5 * sent' - slip
      BY <1>2, <2>1, <2>2, <2>3
  <2> HIDE DEF x, g
  <2> QED
      BY <1>2, <1>14, <2>1, <2>2, <2>4 DEF ToBeRead
<1>19. Returned(x)'
  <2>1. r.frame = {} \/ \E i \in 1 .. MaxSent :
                           /\ r.frame = {i} /\ q >= 5 /\ q \in Nat /\ FrameAt(b, q - 4, i)
      BY <1>9, <1>11, PopsOne DEF r
  <2>2. ASSUME NEW i \in 1 .. MaxSent, r.frame = {i}, q >= 5, FrameAt(b, q - 4, i)
        PROVE  d + 5 <= x /\ 5 * i - 1 <= x /\ x <= 5 * i
    <3>1. i \in 1 .. sent /\ 5 * i - 1 <= d + q /\ d + q <= 5 * i
        BY <1>1, <1>3, <1>8, <1>12, <1>13, <2>2, ReturnsNext
    <3> QED
        BY <1>12, <2>2, <3>1
  <2> HIDE DEF x
  <2>3. r.frame = {} \/ \E i \in 1 .. MaxSent :
                           r.frame = {i} /\ d + 5 <= x /\ 5 * i - 1 <= x /\ x <= 5 * i
      BY <2>1, <2>2, Zenon
  <2> QED
      BY <1>1, <1>2, <1>13, <2>3, ReadReturns
<1>20. ASSUME Local' PROVE Aligned(E, x)'
  <2>1. Local /\ ~r.cut
      BY <1>2, <1>20, Zenon DEF Local
  <2>2. Outcome(E, r, e)
      BY <1>1, <1>3, <1>8, <1>13, <2>1, ReadAligned DEF r
  <2>3. delivered \in Seq(1 .. MaxSent)
      BY <1>1 DEF Returned
  <2> HIDE DEF x, e
  <2> QED
      BY <1>2, <1>3, <1>13, <1>15, <2>2, <2>3, ReadLeaves
<1> HIDE DEF x
<1>21. SerialHolds(E, slip, x)'
    BY <1>17, <1>18, <1>19, <1>20, Zenon DEF SerialHolds
<1> QED
    BY <1>13, <1>16, <1>21, Zenon DEF SerialInv

(* Byte k from the end of what was sent is byte o of frame h.              *)
LEMMA WhereHit ==
    ASSUME NEW s \in Nat, NEW k \in Nat, k < 5 * s
    PROVE  \E h \in 1 .. s : \E o \in 1 .. 5 :
              /\ 5 * s - k = 5 * h - 5 + o /\ s - k \div 5 = h
              /\ o = 3 => k % 5 = 2
<1> DEFINE x == k \div 5
           y == k % 5
           h == s - x
           o == 5 - y
<1>1. x \in Nat /\ y \in 0 .. 4 /\ k = 5 * x + y
    OBVIOUS
<1>2. s - k \div 5 = h /\ (o = 3 => k % 5 = 2)
  <2>1. y = k % 5
      OBVIOUS
  <2> HIDE DEF y
  <2> QED
      BY <1>1, <2>1
<1> HIDE DEF x, y
<1>3. h \in 1 .. s /\ o \in 1 .. 5 /\ 5 * s - k = 5 * h - 5 + o
    BY <1>1
<1> HIDE DEF h, o
<1> QED
    BY <1>2, <1>3

(* A line damaged at byte z, behind what a buffer shows.                   *)
LEMMA ShowsBefore ==
    ASSUME NEW b, NEW E \in Buffers, NEW F \in Buffers, NEW d \in Nat, Shows(b, E, d),
           NEW z \in Nat, d + Len(b) < z, Len(b) \in Nat, z <= Len(F) + 1,
           \A i \in 1 .. Len(F) : i < z => F[i] = E[i]
    PROVE  Shows(b, F, d)
<1>1. Len(F) \in Nat
    BY DEF Buffers
<1>2. d + Len(b) <= Len(F)
    BY <1>1
<1>3. ASSUME NEW p \in 1 .. Len(b) PROVE b[p] = F[d + p]
  <2>1. d + p \in 1 .. Len(F) /\ d + p < z
      BY <1>1
  <2> QED
      BY <2>1 DEF Shows
<1> QED
    BY <1>2, <1>3 DEF Shows

LEMMA DamageKeeps ==
    ASSUME MaxNoise \in {0, 1}, SerialTypes, NEW E, NEW slip, NEW d \in Nat,
           SerialHolds(E, slip, d), NEW k \in 0 .. 5 * MaxSent - 1, Damage(k)
    PROVE  SerialInv'
<1> DEFINE at == Len(wire) - k
           g == d + Len(buffer)
<1>1. OnLine(E, slip) /\ ToBeRead(E, slip, d) /\ Returned(d) /\ (Local => Aligned(E, d))
    BY DEF SerialHolds
<1>2. /\ noise < MaxNoise /\ k < Len(wire) /\ noise' = noise + 1
      /\ \/ /\ \E v \in Bytes \ {wire[at]} : wire' = ByteChanged(wire, at, v)
            /\ misaligned' = (k % 5 = 2)
         \/ wire' = RemoveAt(wire, at) /\ misaligned' = TRUE
      /\ hit' = {sent - k \div 5}
      /\ UNCHANGED <<sent, buffer, delivered, magic_cut>>
    BY DEF Damage, ByteChanged
<1>3. /\ sent \in 0 .. MaxSent /\ MaxSent \in Nat /\ sent \in Nat /\ k \in Nat
      /\ Line \in Buffers /\ Len(Line) = 5 * MaxSent
    BY LineIs DEF SerialTypes
<1>4. noise = 0 /\ noise' = 1
  <2>1. noise \in {0, 1}
      BY DEF SerialTypes
  <2> QED
      BY <1>2, <2>1
<1>5. Clean(E) /\ slip = 0
    BY <1>1, <1>4 DEF OnLine, OneChanged, OneLost, ChangedIn
<1>6. E = Line /\ E \in Buffers /\ Len(E) \in Nat /\ hit = {} /\ ~misaligned
    BY <1>3, <1>5 DEF Clean
<1>7. Shows(buffer, E, d) /\ Shows(wire, E, g) /\ g + Len(wire) = 5 * sent
    BY <1>1, <1>3, <1>5 DEF ToBeRead
<1>8. /\ buffer \in Buffers /\ wire \in Buffers /\ Len(buffer) \in Nat /\ Len(wire) \in Nat
      /\ g \in Nat /\ g = d + Len(buffer)
    BY <1>7 DEF Shows, Buffers
<1> HIDE DEF g
<1>9. PICK z : z = 5 * sent - k
    OBVIOUS
<1>10. /\ at \in 1 .. Len(wire) /\ at \in Nat /\ z = g + at /\ z \in 1 .. 5 * sent /\ z \in Nat
      /\ z \in 1 .. Len(Line) /\ k < 5 * sent
    BY <1>2, <1>3, <1>7, <1>8, <1>9
<1>11. PICK h \in 1 .. sent : \E o \in 1 .. 5 :
            z = 5 * h - 5 + o /\ sent - k \div 5 = h /\ (o = 3 => k % 5 = 2)
  <2>1. \E h \in 1 .. sent : \E o \in 1 .. 5 :
              /\ 5 * sent - k = 5 * h - 5 + o /\ sent - k \div 5 = h
              /\ o = 3 => k % 5 = 2
      BY <1>3, <1>10, WhereHit
  <2> QED
      BY <1>9, <2>1, Zenon
<1>12. PICK o \in 1 .. 5 : z = 5 * h - 5 + o /\ sent - k \div 5 = h /\ (o = 3 => k % 5 = 2)
    BY <1>11, Zenon
<1> HIDE DEF at
<1>13. hit' = {h}
    BY <1>2, <1>12
<1>14. wire[at] = Line[z]
    BY <1>6, <1>7, <1>10 DEF Shows
<1>15. sent' \in 0 .. MaxSent /\ noise' \in {0, 1} /\ magic_cut' \in BOOLEAN
  <2>1. magic_cut' \in BOOLEAN
      BY <1>2, Zenon DEF SerialTypes
  <2> QED
      BY <1>2, <1>3, <1>4, <2>1
<1>16. Returned(d)'
    BY <1>1, <1>2 DEF Returned
<1>17. CASE /\ \E v \in Bytes \ {wire[at]} : wire' = ByteChanged(wire, at, v)
            /\ misaligned' = (k % 5 = 2)
  <2>1. PICK v \in Bytes \ {wire[at]} : wire' = ByteChanged(wire, at, v)
      BY <1>17
  <2>2. PICK F : F = ByteChanged(Line, z, v)
      OBVIOUS
  <2>3. v \in Bytes /\ v # Line[z]
      BY <1>14
  <2>4. /\ F \in Buffers /\ Len(F) = Len(Line) /\ F[z] = v
        /\ \A i \in 1 .. Len(Line) : i # z => F[i] = Line[i]
    <3>1. Line \in Buffers /\ z \in 1 .. Len(Line) /\ v \in Bytes
        BY <1>3, <1>10, <2>3
    <3> QED
        BY <2>2, <3>1, ChangedIs
  <2>5. /\ wire' \in Buffers /\ Len(wire') = Len(wire) /\ wire'[at] = v
        /\ \A i \in 1 .. Len(wire) : i # at => wire'[i] = wire[i]
    <3>1. wire \in Buffers /\ at \in 1 .. Len(wire) /\ v \in Bytes
        BY <1>8, <1>10, <2>3
    <3> QED
        BY <2>1, <3>1, ChangedIs
  <2>6. ChangedIn(F, h, o, v)'
    <3>1. o = 3 => misaligned'
        BY <1>12, <1>17
    <3>2. v # Line[5 * h - 5 + o] /\ F = ByteChanged(Line, 5 * h - 5 + o, v)
        BY <1>12, <2>3, <2>2
    <3>3. Line' = Line
        BY DEF Line, Stream, Encode
    <3> QED
        BY <1>4, <1>13, <3>1, <3>2, <3>3, Zenon DEF ChangedIn
  <2>7. OnLine(F, 0)'
    <3>1. OneChanged(F)'
      <4>1. h \in 1 .. sent'
          BY <1>2
      <4> QED
          BY <2>3, <2>6, <4>1, Zenon DEF OneChanged
    <3> QED
        BY <3>1 DEF OnLine
  <2>8. Shows(buffer, F, d)
    <3>1. d + Len(buffer) < z /\ z <= Len(F) + 1
        BY <1>3, <1>8, <1>10, <2>4
    <3>2. \A i \in 1 .. Len(F) : i < z => F[i] = E[i]
      <4>1. \A i \in 1 .. Len(F) : i < z => i \in 1 .. Len(Line) /\ i # z
          BY <1>3, <1>10, <2>4
      <4> QED
          BY <1>6, <2>4, <4>1
    <3> QED
        BY <1>6, <1>7, <1>8, <1>10, <2>4, <3>1, <3>2, ShowsBefore
  <2>9. Shows(wire', F, g)
    <3>1. g + Len(wire') <= Len(F)
        BY <1>6, <1>7, <2>4, <2>5 DEF Shows
    <3>2. ASSUME NEW p \in 1 .. Len(wire') PROVE wire'[p] = F[g + p]
      <4>1. p \in 1 .. Len(wire) /\ g + p \in 1 .. Len(Line)
          BY <1>3, <1>7, <1>8, <2>5
      <4>2. CASE p = at
          BY <1>10, <2>4, <2>5, <4>2
      <4>3. CASE p # at
        <5>1. g + p # z
            BY <1>8, <1>10, <4>1, <4>3
        <5>2. wire[p] = Line[g + p]
            BY <1>6, <1>7, <4>1 DEF Shows
        <5> QED
            BY <2>4, <2>5, <4>1, <4>3, <5>1, <5>2
      <4> QED
          BY <4>2, <4>3
    <3> QED
        BY <2>5, <3>1, <3>2 DEF Shows
  <2>10. ToBeRead(F, 0, d)'
    <3>1. g + Len(wire') = 5 * sent' - 0 /\ buffer' = buffer
        BY <1>2, <1>3, <1>7, <2>5
    <3> QED
        BY <2>8, <2>9, <3>1 DEF ToBeRead, g
  <2>11. ASSUME Local' PROVE Aligned(F, d)'
    <3>1. Local
        BY <1>2, <1>4, <1>6, <2>11 DEF Local
    <3>2. PICK m : AtFrame(d, m)
        BY <1>1, <1>4, <3>1 DEF Aligned, InJunk
    <3>3. m \in 1 .. sent + 1 /\ d = 5 * m - 5 /\ ToSet(delivered) = (1 .. m - 1) \ {}
        BY <1>6, <3>2 DEF AtFrame, Got
    <3>4. h \notin 1 .. m - 1
        BY <1>3, <1>8, <1>10, <1>12, <3>3
    <3>5. (1 .. m - 1) \ {} = (1 .. m - 1) \ {h}
        BY <3>4
    <3>6. Got(m)'
      <4>1. delivered' = delivered /\ noise' # 0
          BY <1>2, <1>4
      <4> QED
          BY <1>13, <3>3, <3>5, <4>1, Zenon DEF Got
    <3>7. m \in 1 .. sent' + 1
        BY <1>2, <3>3
    <3>8. AtFrame(d, m)'
        BY <3>3, <3>6, <3>7, Zenon DEF AtFrame
    <3> QED
        BY <3>8, Zenon DEF Aligned
  <2>12. SerialHolds(F, 0, d)'
      BY <1>16, <2>7, <2>10, <2>11, Zenon DEF SerialHolds
  <2>13. misaligned' \in BOOLEAN
      BY <1>17, Zenon
  <2>14. SerialTypes'
      BY <1>15, <2>13, Zenon DEF SerialTypes
  <2> QED
      BY <2>12, <2>14, Zenon DEF SerialInv
<1>18. CASE wire' = RemoveAt(wire, at) /\ misaligned' = TRUE
  <2>1. PICK F : F = RemoveAt(Line, z)
      OBVIOUS
  <2>2. /\ F \in Buffers /\ Len(F) = Len(Line) - 1
        /\ \A i \in 1 .. Len(F) : F[i] = IF i < z THEN Line[i] ELSE Line[i + 1]
      BY <1>3, <1>10, <2>1, LostIs
  <2>3. /\ wire' \in Buffers /\ Len(wire') = Len(wire) - 1
        /\ \A i \in 1 .. Len(wire') : wire'[i] = IF i < at THEN wire[i] ELSE wire[i + 1]
      BY <1>8, <1>10, <1>18, LostIs
  <2>4. OneLost(F)'
    <3>1. z \in 1 .. 5 * sent' /\ Line' = Line
      <4>1. Line' = Line
          BY DEF Line, Stream, Encode
      <4> QED
          BY <1>2, <1>10, <4>1
    <3>2. noise' = 1 /\ misaligned'
        BY <1>4, <1>18, Zenon
    <3> QED
        BY <2>1, <3>1, <3>2, Zenon DEF OneLost
  <2>5. OnLine(F, 1)'
      BY <2>4 DEF OnLine
  <2>6. Shows(buffer, F, d)
    <3>1. d + Len(buffer) < z /\ z <= Len(F) + 1
        BY <1>3, <1>8, <1>10, <2>2
    <3>2. \A i \in 1 .. Len(F) : i < z => F[i] = E[i]
        BY <1>6, <2>2
    <3> QED
        BY <1>6, <1>7, <1>8, <1>10, <2>2, <3>1, <3>2, ShowsBefore
  <2>7. Shows(wire', F, g)
    <3>1. g + Len(wire') <= Len(F)
      <4>1. g + Len(wire) <= Len(Line)
          BY <1>6, <1>7 DEF Shows
      <4> QED
          BY <1>3, <1>8, <2>2, <2>3, <4>1
    <3>2. ASSUME NEW p \in 1 .. Len(wire') PROVE wire'[p] = F[g + p]
      <4>1. /\ p \in 1 .. Len(wire) /\ p + 1 \in 1 .. Len(wire) /\ g + p \in 1 .. Len(F)
            /\ g + (p + 1) = g + p + 1 /\ p \in Nat
          BY <1>3, <1>7, <1>8, <2>2, <2>3, <3>1
      <4>2. wire[p] = Line[g + p] /\ wire[p + 1] = Line[g + (p + 1)]
          BY <1>6, <1>7, <4>1 DEF Shows
      <4>3. CASE p < at
        <5>1. g + p < z
            BY <1>8, <1>10, <4>1, <4>3
        <5> QED
            BY <2>2, <2>3, <4>1, <4>2, <4>3, <5>1
      <4>4. CASE ~(p < at)
        <5>1. ~(g + p < z)
            BY <1>8, <1>10, <4>1, <4>4
        <5> QED
            BY <2>2, <2>3, <4>1, <4>2, <4>4, <5>1
      <4> QED
          BY <4>3, <4>4
    <3> QED
        BY <2>3, <3>1, <3>2 DEF Shows
  <2>8. ToBeRead(F, 1, d)'
    <3>1. g + Len(wire') = 5 * sent' - 1 /\ buffer' = buffer
        BY <1>2, <1>3, <1>7, <1>8, <2>3
    <3> QED
        BY <2>6, <2>7, <3>1 DEF ToBeRead, g
  <2>9. ~Local'
      BY <1>18, Zenon DEF Local
  <2>10. SerialHolds(F, 1, d)'
      BY <1>16, <2>5, <2>8, <2>9, Zenon DEF SerialHolds
  <2>11. misaligned' \in BOOLEAN
      BY <1>18, Zenon
  <2>12. SerialTypes'
      BY <1>15, <2>11, Zenon DEF SerialTypes
  <2> QED
      BY <2>10, <2>12, Zenon DEF SerialInv
<1> QED
    BY <1>2, <1>17, <1>18

(* What shows the whole frames from m on is their stream.                  *)
LEMMA ShowsStream ==
    ASSUME NEW s, NEW d \in Nat, NEW m \in 1 .. sent + 1, sent \in 0 .. MaxSent,
           Shows(s, Line, d), d = 5 * m - 5, d + Len(s) = 5 * sent
    PROVE  s = Stream(m, sent)
<1> DEFINE t == Stream(m, sent)
<1>1. /\ MaxSent \in Nat /\ sent \in Nat /\ m \in Nat
      /\ m \in 1 .. MaxSent + 1 /\ sent \in m - 1 .. MaxSent
    BY LineIs
<1>2. /\ t \in Buffers /\ Len(t) = 5 * (sent - m + 1)
      /\ \A i \in m .. sent : \A o \in 1 .. 5 : t[5 * (i - m) + o] = Encode(i)[o]
    BY <1>1, StreamIs
<1> HIDE DEF t
<1>3. s \in Buffers /\ Len(s) \in Nat /\ \A p \in 1 .. Len(s) : s[p] = Line[d + p]
    BY DEF Shows, Buffers
<1>4. Len(s) = Len(t)
    BY <1>1, <1>2, <1>3
<1>5. ASSUME NEW p \in 1 .. Len(s) PROVE s[p] = t[p]
  <2>1. p \in Nat /\ p > 0
      BY <1>3
  <2>2. PICK h \in Nat : \E o \in 1 .. 5 : h > 0 /\ p = 5 * h - 5 + o
      BY <2>1, InFives
  <2>3. PICK o \in 1 .. 5 : h > 0 /\ p = 5 * h - 5 + o
      BY <2>2
  <2> DEFINE i == m + h - 1
  <2>4. i \in m .. sent /\ i \in 1 .. MaxSent /\ p = 5 * (i - m) + o /\ d + p = 5 * i - 5 + o
    <3>1. p <= 5 * sent - (5 * m - 5)
        BY <1>1, <1>3
    <3>2. 5 * h - 4 <= 5 * sent - 5 * m + 5 /\ i \in Nat /\ i = m + h - 1
        BY <1>1, <2>3, <3>1
    <3> HIDE DEF i
    <3>3. m <= i /\ i <= sent
        BY <1>1, <2>3, <3>2
    <3> QED
        BY <1>1, <2>3, <3>2, <3>3
  <2> HIDE DEF i
  <2>5. t[5 * (i - m) + o] = Encode(i)[o]
      BY <1>2, <2>4
  <2>6. Line[5 * i - 5 + o] = Encode(i)[o]
      BY <2>4, LineIs
  <2>7. s[p] = Line[d + p]
      BY <1>3
  <2> QED
      BY <2>4, <2>5, <2>6, <2>7, Zenon
<1>6. s = t
    BY <1>2, <1>3, <1>4, <1>5, SeqEqual DEF Buffers
<1> QED
    BY <1>6 DEF t

LEMMA SerialShows == SerialInv => FramesSurvive
<1> SUFFICES ASSUME SerialInv PROVE FramesSurvive
    OBVIOUS
<1>1. PICK E : \E slip : \E d \in Nat : SerialHolds(E, slip, d)
    BY Zenon DEF SerialInv
<1>2. PICK slip : \E d \in Nat : SerialHolds(E, slip, d)
    BY <1>1, Zenon
<1>3. PICK d \in Nat : SerialHolds(E, slip, d)
    BY <1>2, Zenon
<1>4. OnLine(E, slip) /\ ToBeRead(E, slip, d) /\ Returned(d) /\ (Local => Aligned(E, d))
    BY <1>3 DEF SerialHolds
<1>5. SerialTypes
    BY Zenon DEF SerialInv
<1>6. sent \in 0 .. MaxSent /\ MaxSent \in Nat /\ sent \in Nat
    BY <1>5, LineIs DEF SerialTypes
<1>7. E \in Buffers /\ slip \in {0, 1}
    BY <1>4, <1>6, OnLineIs
<1>8. /\ Shows(buffer, E, d) /\ Shows(wire, E, d + Len(buffer))
      /\ d + Len(buffer) + Len(wire) = 5 * sent - slip
    BY <1>4 DEF ToBeRead
<1>9. buffer \in Buffers /\ wire \in Buffers /\ Len(buffer) \in Nat /\ Len(wire) \in Nat
    BY <1>8 DEF Shows, Buffers
<1>10. InOrder
  <2>1. /\ delivered \in Seq(1 .. MaxSent)
        /\ \A i \in 1 .. Len(delivered) : 5 * delivered[i] - 1 <= d
        /\ \A i \in 1 .. Len(delivered) - 1 : delivered[i] < delivered[i + 1]
      BY <1>4 DEF Returned
  <2>2. d <= 5 * sent
      BY <1>6, <1>7, <1>8, <1>9
  <2>3. ASSUME NEW i \in 1 .. Len(delivered) PROVE delivered[i] \in 1 .. sent
    <3>1. delivered[i] \in 1 .. MaxSent
        BY <2>1, ElementOfSeq
    <3>2. 5 * delivered[i] - 1 <= 5 * sent
        BY <1>6, <2>1, <2>2, <3>1
    <3> QED
        BY <1>6, <3>1, <3>2
  <2> QED
      BY <1>9, <2>1, <2>3 DEF InOrder, Buffers
<1>11. CleanLineLossless
  <2>1. SUFFICES ASSUME noise = 0, ~magic_cut
                 PROVE  buffer \o wire = Stream(Len(delivered) + 1, sent)
      BY DEF CleanLineLossless
  <2>2. E = Line /\ slip = 0 /\ ~misaligned
      BY <1>4, <2>1 DEF OnLine, OneChanged, OneLost, ChangedIn, Clean
  <2>3. Local
      BY <2>1, <2>2 DEF Local
  <2>4. PICK m : AtFrame(d, m)
      BY <1>4, <2>1, <2>3 DEF Aligned, InJunk
  <2>5. m \in 1 .. sent + 1 /\ d = 5 * m - 5 /\ Len(delivered) = m - 1
      BY <2>1, <2>4 DEF AtFrame, Got
  <2> DEFINE s == buffer \o wire
  <2>6. Shows(s, E, d) /\ Len(s) = Len(buffer) + Len(wire)
      BY <1>7, <1>8, ShowsBoth
  <2> HIDE DEF s
  <2>7. d + Len(s) = 5 * sent
      BY <1>6, <1>8, <1>9, <2>2, <2>6
  <2>8. s = Stream(m, sent)
      BY <1>6, <2>2, <2>5, <2>6, <2>7, ShowsStream
  <2>9. m = Len(delivered) + 1
      BY <1>6, <2>5
  <2> QED
      BY <2>8, <2>9 DEF s
<1>12. DamageStaysLocal
  <2>1. SUFFICES ASSUME ~magic_cut, ~misaligned, wire = << >>, buffer = << >>,
                        \A i \in 1 .. sent : ~HalfMagicInside(i)
                 PROVE  ToSet(delivered) = 1 .. sent \ hit
      BY DEF DamageStaysLocal
  <2>2. Local
      BY <2>1 DEF Local
  <2>3. slip = 0
      BY <1>4, <2>1 DEF OnLine, OneLost
  <2>4. d = 5 * sent
    <3>1. Len(buffer) = 0 /\ Len(wire) = 0
        BY <2>1
    <3> QED
        BY <1>6, <1>8, <2>3, <3>1
  <2>5. ASSUME NEW h, InJunk(E, d, h) PROVE FALSE
    <3>1. h \in 1 .. sent /\ d \in 5 * h - 5 .. 5 * h - 1
        BY <2>5 DEF InJunk
    <3> QED
        BY <1>6, <2>4, <3>1
  <2>6. PICK m : AtFrame(d, m)
      BY <1>4, <2>2, <2>5 DEF Aligned
  <2>7. m \in 1 .. sent + 1 /\ d = 5 * m - 5 /\ ToSet(delivered) = (1 .. m - 1) \ hit
      BY <2>6 DEF AtFrame, Got
  <2>8. m - 1 = sent
      BY <1>6, <2>4, <2>7
  <2> QED
      BY <2>7, <2>8
<1> QED
    BY <1>10, <1>11, <1>12 DEF FramesSurvive

LEMMA SerialKeeps ==
    ASSUME MaxNoise \in {0, 1}, SerialInv, [SerialNext]_serialVars
    PROVE  SerialInv'
<1>1. PICK E : \E slip : \E d \in Nat : SerialHolds(E, slip, d)
    BY Zenon DEF SerialInv
<1>2. PICK slip : \E d \in Nat : SerialHolds(E, slip, d)
    BY <1>1, Zenon
<1>3. PICK d \in Nat : SerialHolds(E, slip, d)
    BY <1>2, Zenon
<1>4. SerialTypes
    BY Zenon DEF SerialInv
<1>5. CASE McuSends
    BY <1>3, <1>4, <1>5, SendKeeps
<1>6. ASSUME NEW k \in 0 .. 5 * MaxSent - 1, Damage(k) PROVE SerialInv'
    BY <1>3, <1>4, <1>6, DamageKeeps
<1>7. ASSUME NEW n \in 0 .. Len(wire), ReadFrame(n) PROVE SerialInv'
    BY <1>3, <1>4, <1>7, ReadKeeps
<1>8. CASE UNCHANGED serialVars
  <2>1. UNCHANGED <<sent, wire, noise, hit, misaligned, buffer, delivered, magic_cut>>
      BY <1>8 DEF serialVars
  <2>2. OnLine(E, slip)'
      BY <1>3, <2>1, Zenon DEF SerialHolds, OnLine, Clean, OneChanged, OneLost, ChangedIn
  <2>3. ToBeRead(E, slip, d)' /\ Returned(d)'
      BY <1>3, <2>1 DEF SerialHolds, ToBeRead, Returned
  <2>4. ASSUME Local' PROVE Aligned(E, d)'
    <3>1. Local
        BY <2>1, <2>4, Zenon DEF Local
    <3>2. Aligned(E, d)
        BY <1>3, <3>1 DEF SerialHolds
    <3> QED
        BY <2>1, <3>2, Zenon DEF Aligned, AtFrame, InJunk, Got
  <2>5. SerialHolds(E, slip, d)'
      BY <2>2, <2>3, <2>4, Zenon DEF SerialHolds
  <2>6. SerialTypes'
      BY <1>4, <2>1, Zenon DEF SerialTypes
  <2> QED
      BY <2>5, <2>6, Zenon DEF SerialInv
<1> QED
    BY <1>5, <1>6, <1>7, <1>8 DEF SerialNext

(* What the parser owes the bridge: frames come out in the order in which  *)
(* they went in and none of them twice; on an undamaged line none is lost  *)
(* however the bytes are cut into chunks; and one changed byte outside the *)
(* length costs the frame it is in and nothing else.                       *)
THEOREM FramesAlwaysSurvive ==
    ASSUME MaxNoise \in {0, 1}
    PROVE  SerialSpec => []FramesSurvive
<1>1. SerialInv /\ [SerialNext]_serialVars => SerialInv'
    BY SerialKeeps
<1>2. SerialInit => SerialInv
    BY SerialStarts
<1>3. SerialInv => FramesSurvive
    BY SerialShows
<1> QED
    BY <1>1, <1>2, <1>3, PTL DEF SerialSpec
=============================================================================
