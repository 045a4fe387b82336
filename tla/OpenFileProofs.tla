--------------------------- MODULE OpenFileProofs ---------------------------
(***************************************************************************)
(* What a db and the storage have to be like so that core.Open gives a     *)
(* reader the bytes that were scanned, through a bundle or not: the        *)
(* lemmas about sizes and offsets, sorted groups, and Open itself.         *)
(***************************************************************************)
EXTENDS OpenFile, FiniteSetTheorems, SequenceTheorems, WellFoundedInduction, TLAPS

-----------------------------------------------------------------------------
(***************************************************************************)
(* Induction on natural numbers, for sets of them.                         *)
(***************************************************************************)
LEMMA LeastOne ==
  ASSUME NEW B \in SUBSET Nat, B # {}
  PROVE  \E n \in B : \A m \in B : n <= m
<1>1. PICK x \in B : \A y \in B : ~(<<y, x>> \in OpToRel(<, Nat))
  BY NatLessThanWellFounded, WFMin, Zenon
<1>2. ASSUME NEW q \in B PROVE x <= q
  <2>1. <<q, x>> \in Nat \X Nat
    OBVIOUS
  <2>2. ~(q < x)
    BY <1>1, <2>1 DEF OpToRel
  <2>3. QED
    BY <2>2
<1>3. QED
  BY <1>2

LEMMA Induct ==
  ASSUME NEW S, 0 \in S, \A n \in Nat : n \in S => n + 1 \in S
  PROVE  Nat \subseteq S
<1> DEFINE B == {n \in Nat : n \notin S}
<1>1. CASE B = {}
  BY <1>1
<1>2. CASE B # {}
  <2>1. B \in SUBSET Nat
    OBVIOUS
  <2>2. PICK n \in B : \A m \in B : n <= m
    BY <1>2, <2>1, LeastOne
  <2>3. n # 0
    OBVIOUS
  <2>4. n - 1 \in Nat /\ ~(n <= n - 1) /\ (n - 1) + 1 = n
    BY <2>3
  <2>5. n - 1 \in S
    BY <2>2, <2>4
  <2>6. n \in S
    BY <2>4, <2>5
  <2>7. QED
    BY <2>6
<1>3. QED
  BY <1>1, <1>2

LEMMA MaxIsElement ==
  ASSUME NEW n \in Nat, NEW s \in SUBSET (1..n), s # {}
  PROVE  Max(s) \in s /\ \A y \in s : Max(s) >= y
<1> DEFINE Bound == {k \in Nat : \A y \in s : y <= k}
<1>1. n \in Bound
  OBVIOUS
<1>2. Bound \in SUBSET Nat /\ Bound # {}
  BY <1>1
<1> HIDE DEF Bound
<1>3. PICK k \in Bound : \A m \in Bound : k <= m
  BY <1>2, LeastOne, Zenon
<1>4. k \in Nat /\ \A y \in s : y <= k
  BY <1>3 DEF Bound
<1>5. k \in s
  <2>1. SUFFICES ASSUME k \notin s PROVE FALSE
    OBVIOUS
  <2>2. PICK y \in s : TRUE
    OBVIOUS
  <2>3. y \in 1..n /\ y <= k
    BY <1>4
  <2>4. k - 1 \in Nat
    BY <1>4, <2>3
  <2>5. \A z \in s : z <= k - 1
    <3>1. ASSUME NEW z \in s PROVE z <= k - 1
      <4>1. z \in 1..n /\ z <= k /\ z # k
        BY <1>4, <2>1
      <4>2. QED
        BY <1>4, <4>1
    <3>2. QED
      BY <3>1
  <2>6. k - 1 \in Bound
    BY <2>4, <2>5 DEF Bound
  <2>7. QED
    BY <1>3, <1>4, <2>6
<1>6. \A y \in s : k >= y
  BY <1>4, <1>5
<1>7. QED
  BY <1>5, <1>6, Zenon DEF Max

-----------------------------------------------------------------------------
(***************************************************************************)
(* Sums: f[k] is the sum of the first k numbers of w.                      *)
(***************************************************************************)
Adds(f, w, n) ==
  /\ f \in [0..n -> Nat] /\ f[0] = 0
  /\ \A i \in 1..n : f[i] = f[i - 1] + w[i]

LEMMA SumsAgree ==
  ASSUME NEW n \in Nat, NEW m \in Nat, NEW k \in Nat, k <= n, k <= m,
         NEW f, NEW g, NEW w, NEW v, Adds(f, w, n), Adds(g, v, m),
         \A i \in 1..k : w[i] = v[i]
  PROVE  f[k] = g[k]
<1> DEFINE S == {j \in Nat : j <= k => f[j] = g[j]}
<1>1. 0 \in S
  BY DEF Adds
<1>2. ASSUME NEW j \in Nat, j \in S PROVE j + 1 \in S
  <2>1. SUFFICES ASSUME j + 1 <= k PROVE f[j + 1] = g[j + 1]
    OBVIOUS
  <2>2. f[j] = g[j]
    BY <1>2, <2>1
  <2>3. j + 1 \in 1..k /\ j + 1 \in 1..n /\ j + 1 \in 1..m /\ (j + 1) - 1 = j
    BY <2>1
  <2>4. f[j + 1] = f[j] + w[j + 1] /\ g[j + 1] = g[j] + v[j + 1]
    BY <2>3 DEF Adds
  <2>5. QED
    BY <2>2, <2>3, <2>4
<1>3. Nat \subseteq S
  <2> HIDE DEF S
  <2>1. QED
    BY <1>1, <1>2, Induct
<1>4. QED
  BY <1>3

LEMMA SumsGrow ==
  ASSUME NEW n \in Nat, NEW f, NEW w, Adds(f, w, n),
         \A i \in 1..n : w[i] \in Nat \ {0}
  PROVE  \A i, j \in 0..n : i < j => f[i] < f[j]
<1> DEFINE S == {d \in Nat : \A i \in 0..n : i + d + 1 <= n => f[i] < f[i + d + 1]}
<1>1. ASSUME NEW i \in 0..n, i + 1 <= n
      PROVE  f[i] \in Nat /\ f[i + 1] \in Nat /\ f[i] < f[i + 1]
  <2>1. i + 1 \in 1..n /\ (i + 1) - 1 = i /\ i + 1 \in 0..n
    BY <1>1
  <2>2. f[i + 1] = f[i] + w[i + 1] /\ w[i + 1] \in Nat \ {0}
    BY <2>1 DEF Adds
  <2>3. f[i] \in Nat /\ f[i + 1] \in Nat
    BY <2>1 DEF Adds
  <2>4. QED
    BY <2>2, <2>3
<1>2. 0 \in S
  <2>1. \A i \in 0..n : i + 0 + 1 = i + 1
    OBVIOUS
  <2>2. QED
    BY <1>1, <2>1
<1>3. ASSUME NEW d \in Nat, d \in S PROVE d + 1 \in S
  <2>1. SUFFICES ASSUME NEW i \in 0..n, i + (d + 1) + 1 <= n
                 PROVE  f[i] < f[i + (d + 1) + 1]
    OBVIOUS
  <2> DEFINE e == i + d + 1
  <2>2. e \in 0..n /\ e <= n /\ e + 1 <= n /\ i + (d + 1) + 1 = e + 1
    BY <2>1
  <2>3. f[i] < f[e]
    BY <1>3, <2>2
  <2>4. f[e] \in Nat /\ f[e + 1] \in Nat /\ f[e] < f[e + 1]
    BY <1>1, <2>2
  <2>5. f[i] \in Nat
    BY DEF Adds
  <2>6. QED
    BY <2>2, <2>3, <2>4, <2>5
<1>4. Nat \subseteq S
  <2> HIDE DEF S
  <2>1. QED
    BY <1>2, <1>3, Induct
<1>5. ASSUME NEW i \in 0..n, NEW j \in 0..n, i < j
      PROVE  f[i] < f[j]
  <2>1. j - i - 1 \in Nat /\ i + (j - i - 1) + 1 = j /\ i + (j - i - 1) + 1 <= n
    BY <1>5
  <2>2. j - i - 1 \in S
    BY <1>4, <2>1
  <2>3. QED
    BY <2>1, <2>2
<1>6. QED
  BY <1>5

-----------------------------------------------------------------------------
(***************************************************************************)
(* Folds add up.  FoldLeft is a recursion over the sets of indexes that    *)
(* are left; Fold is one round of it.                                      *)
(***************************************************************************)
Fold(g, w, n) ==
  [s \in SUBSET (1..n) |-> IF s = {} THEN 0 ELSE g[s \ {Max(s)}] + w[Max(s)]]

LEMMA FoldExists ==
  ASSUME NEW w, NEW n \in Nat
  PROVE  \E g : g = Fold(g, w, n)
<1> DEFINE S == {m \in Nat : \E g : g = Fold(g, w, m)}
<1>1. 0 \in S
  <2> DEFINE g == [s \in SUBSET (1..0) |-> 0]
  <2>1. 1..0 = {}
    OBVIOUS
  <2>2. \A s \in SUBSET (1..0) : s = {}
    BY <2>1, Zenon
  <2>3. g = Fold(g, w, 0)
    BY <2>2, Zenon DEF Fold
  <2> HIDE DEF g
  <2>4. QED
    BY <2>3
<1>2. ASSUME NEW m \in Nat, m \in S PROVE m + 1 \in S
  <2>1. PICK g : g = Fold(g, w, m)
    BY <1>2
  <2> DEFINE h == [s \in SUBSET (1..(m + 1)) |->
                     IF m + 1 \in s THEN g[s \ {m + 1}] + w[m + 1] ELSE g[s]]
  <2>2. ASSUME NEW s \in SUBSET (1..(m + 1))
        PROVE  h[s] = IF s = {} THEN 0 ELSE h[s \ {Max(s)}] + w[Max(s)]
    <3>1. CASE m + 1 \in s
      <4>1. s # {} /\ m + 1 \in Nat
        BY <3>1
      <4>2. Max(s) \in s /\ \A y \in s : Max(s) >= y
        BY <4>1, MaxIsElement
      <4>3. Max(s) = m + 1
        <5>1. Max(s) \in 1..(m + 1) /\ Max(s) >= m + 1
          BY <3>1, <4>2, Zenon
        <5>2. QED
          BY <5>1
      <4>4. s \ {m + 1} \in SUBSET (1..(m + 1)) /\ m + 1 \notin s \ {m + 1}
        OBVIOUS
      <4>5. h[s \ {m + 1}] = g[s \ {m + 1}]
        BY <4>4, Zenon
      <4>6. h[s] = g[s \ {m + 1}] + w[m + 1]
        BY <3>1, Zenon
      <4>7. QED
        BY <4>1, <4>3, <4>5, <4>6, Zenon
    <3>2. CASE m + 1 \notin s
      <4>1. s \in SUBSET (1..m)
        BY <3>2
      <4>2. g[s] = IF s = {} THEN 0 ELSE g[s \ {Max(s)}] + w[Max(s)]
        BY <2>1, <4>1, Zenon DEF Fold
      <4>3. h[s] = g[s]
        BY <3>2, Zenon
      <4>4. s \ {Max(s)} \in SUBSET (1..(m + 1)) /\ m + 1 \notin s \ {Max(s)}
        BY <3>2, Zenon
      <4>5. h[s \ {Max(s)}] = g[s \ {Max(s)}]
        BY <4>4, Zenon
      <4>6. QED
        BY <4>2, <4>3, <4>5, Zenon
    <3>3. QED
      BY <3>1, <3>2
  <2>3. h = [s \in SUBSET (1..(m + 1)) |-> h[s]]
    BY Zenon
  <2> HIDE DEF h
  <2>4. h = Fold(h, w, m + 1)
    BY <2>2, <2>3, Zenon DEF Fold
  <2>5. m + 1 \in Nat
    OBVIOUS
  <2>6. QED
    BY <2>4, <2>5, Zenon
<1>3. Nat \subseteq S
  <2> HIDE DEF S
  <2>1. QED
    BY <1>1, <1>2, Induct
<1>4. QED
  BY <1>3

LEMMA FoldAdds ==
  ASSUME NEW n \in Nat, NEW w, \A i \in 1..n : w[i] \in Nat,
         NEW g, g = Fold(g, w, n)
  PROVE  Adds([k \in 0..n |-> g[1..k]], w, n)
<1>1. g[{}] = 0
  BY Zenon DEF Fold
<1>2. 1..0 = {}
  OBVIOUS
<1>3. ASSUME NEW i \in 1..n PROVE g[1..i] = g[1..(i - 1)] + w[i]
  <2>1. 1..i \in SUBSET (1..n) /\ 1..i # {}
    OBVIOUS
  <2>2. Max(1..i) \in 1..i /\ \A y \in 1..i : Max(1..i) >= y
    BY <2>1, MaxIsElement
  <2>3. Max(1..i) = i
    BY <2>2
  <2>4. (1..i) \ {i} = 1..(i - 1)
    OBVIOUS
  <2>5. g[1..i] = g[(1..i) \ {Max(1..i)}] + w[Max(1..i)]
    BY <2>1, Zenon DEF Fold
  <2>6. QED
    BY <2>3, <2>4, <2>5, Zenon
<1> DEFINE f == [k \in 0..n |-> g[1..k]]
<1>4. f[0] = 0
  BY <1>1, <1>2
<1>5. \A i \in 1..n : f[i] = f[i - 1] + w[i]
  <2>1. ASSUME NEW i \in 1..n PROVE f[i] = f[i - 1] + w[i]
    <3>1. i \in 0..n /\ i - 1 \in 0..n
      OBVIOUS
    <3>2. f[i] = g[1..i] /\ f[i - 1] = g[1..(i - 1)]
      BY <3>1, Zenon
    <3>3. QED
      BY <1>3, <3>2, Zenon
  <2>2. QED
    BY <2>1
<1> DEFINE S == {k \in Nat : k <= n => f[k] \in Nat}
<1>6. 0 \in S
  BY <1>4
<1> HIDE DEF f
<1>7. ASSUME NEW k \in Nat, k \in S PROVE k + 1 \in S
  <2>1. SUFFICES ASSUME k + 1 <= n PROVE f[k + 1] \in Nat
    OBVIOUS
  <2>2. k + 1 \in 1..n /\ (k + 1) - 1 = k /\ f[k] \in Nat
    BY <1>7, <2>1
  <2>3. f[k + 1] = f[k] + w[k + 1] /\ w[k + 1] \in Nat
    BY <1>5, <2>2
  <2>4. QED
    BY <2>2, <2>3
<1>8. Nat \subseteq S
  <2> HIDE DEF S
  <2>1. QED
    BY <1>6, <1>7, Induct
<1>9. f \in [0..n -> Nat]
  <2>1. \A k \in 0..n : f[k] \in Nat
    BY <1>8
  <2>2. f = [k \in 0..n |-> f[k]]
    BY Zenon DEF f
  <2>3. QED
    BY <2>1, <2>2, Zenon
<1>10. Adds(f, w, n)
  BY <1>4, <1>5, <1>9, Zenon DEF Adds
<1>11. QED
  BY <1>10, Zenon DEF f

\* What the two folds of the model add up: the sizes of stored chunks, ...
Piece == Seq(Chunk \X BOOLEAN)

Sizes(piece) == [i \in 1..Len(piece) |-> StoredSize(piece[i][1], piece[i][2])]

LEMMA SizesArePositive ==
  ASSUME NEW piece \in Piece
  PROVE  \A i \in 1..Len(piece) : Sizes(piece)[i] \in Nat \ {0}
<1>1. ASSUME NEW i \in 1..Len(piece) PROVE Sizes(piece)[i] \in Nat \ {0}
  <2>1. piece[i] \in Chunk \X BOOLEAN
    BY DEF Piece
  <2>2. piece[i][1] \in Chunk
    BY <2>1
  <2>3. PlainSize[piece[i][1]] \in Nat \ {0} /\ ComprSize[piece[i][1]] \in Nat \ {0}
    <3>1. PlainSize[piece[i][1]] \in 1..PartSize /\ PartSize \in Nat
      BY <2>2, SizeAssumption
    <3>2. QED
      BY <2>2, <3>1, SizeAssumption
  <2>4. Sizes(piece)[i] = StoredSize(piece[i][1], piece[i][2])
    BY Zenon DEF Sizes
  <2>5. QED
    BY <2>3, <2>4, Zenon DEF StoredSize
<1>2. QED
  BY <1>1

LEMMA SizeIsSum ==
  ASSUME NEW piece \in Piece
  PROVE  \E f : /\ Adds(f, Sizes(piece), Len(piece))
                /\ f[Len(piece)] = SizeOf(piece)
<1> DEFINE n == Len(piece)
           w == Sizes(piece)
           size(i) == StoredSize(piece[i][1], piece[i][2])
           step(f) == [s \in SUBSET (1..n) |->
                         IF s = {} THEN 0 ELSE f[s \ {Max(s)}] + size(Max(s))]
           iter == CHOOSE f : f = step(f)
<1>1. DOMAIN piece = 1..n /\ n \in Nat
  BY DEF Piece
<1>2. SizeOf(piece) = iter[1..n]
  BY <1>1, Zenon DEF SizeOf, FoldLeft, MapThenFoldSet
<1>3. ASSUME NEW f PROVE step(f) = Fold(f, w, n)
  <2>1. ASSUME NEW s \in SUBSET (1..n), s # {} PROVE w[Max(s)] = size(Max(s))
    <3>1. Max(s) \in 1..n
      BY <1>1, <2>1, MaxIsElement
    <3>2. QED
      BY <3>1, Zenon DEF Sizes
  <2> HIDE DEF w, size
  <2>2. QED
    BY <2>1, Zenon DEF Fold
<1> HIDE DEF w, n, step
<1>4. PICK g : g = Fold(g, w, n)
  BY <1>1, FoldExists
<1>5. g = step(g)
  BY <1>3, <1>4, Zenon
<1>6. iter = step(iter)
  BY <1>5, Zenon
<1> HIDE DEF iter
<1>7. iter = Fold(iter, w, n)
  BY <1>3, <1>6, Zenon
<1>8. \A i \in 1..n : w[i] \in Nat
  BY SizesArePositive DEF w, n
<1>9. Adds([k \in 0..n |-> iter[1..k]], w, n)
  BY <1>1, <1>7, <1>8, FoldAdds
<1>10. [k \in 0..n |-> iter[1..k]][n] = SizeOf(piece)
  <2>1. n \in 0..n
    BY <1>1
  <2>2. QED
    BY <1>2, <2>1, Zenon
<1>11. QED
  BY <1>9, <1>10, Zenon DEF w, n

\* ... and those of the files before the target in posInBundle.
Before(vDb, ps) == FoldLeft(LAMBDA n, p : n + ElementSize(vDb, p), 0, ps)

LEMMA BeforeIsSum ==
  ASSUME NEW vDb, NEW ps, NEW n \in Nat, DOMAIN ps = 1..n,
         \A i \in 1..n : ElementSize(vDb, ps[i]) \in Nat
  PROVE  \E f : /\ Adds(f, [i \in 1..n |-> ElementSize(vDb, ps[i])], n)
                /\ f[n] = Before(vDb, ps)
<1> DEFINE w == [i \in 1..n |-> ElementSize(vDb, ps[i])]
           step(f) == [s \in SUBSET (1..n) |->
                         IF s = {} THEN 0
                         ELSE f[s \ {Max(s)}] + ElementSize(vDb, ps[Max(s)])]
           iter == CHOOSE f : f = step(f)
<1>2. Before(vDb, ps) = iter[1..n]
  BY Zenon DEF Before, FoldLeft, MapThenFoldSet
<1>3. ASSUME NEW f PROVE step(f) = Fold(f, w, n)
  <2>1. ASSUME NEW s \in SUBSET (1..n), s # {}
        PROVE  w[Max(s)] = ElementSize(vDb, ps[Max(s)])
    <3>1. Max(s) \in 1..n
      BY <2>1, MaxIsElement
    <3>2. QED
      BY <3>1, Zenon
  <2> HIDE DEF w
  <2>2. QED
    BY <2>1, Zenon DEF Fold
<1> HIDE DEF step
<1>4. PICK g : g = Fold(g, w, n)
  BY FoldExists
<1>5. g = step(g)
  BY <1>3, <1>4, Zenon
<1>6. iter = step(iter)
  BY <1>5, Zenon
<1> HIDE DEF iter
<1>7. iter = Fold(iter, w, n)
  BY <1>3, <1>6, Zenon
<1>8. \A i \in 1..n : w[i] \in Nat
  OBVIOUS
<1> HIDE DEF w
<1>9. Adds([k \in 0..n |-> iter[1..k]], w, n)
  BY <1>7, <1>8, FoldAdds
<1>10. [k \in 0..n |-> iter[1..k]][n] = Before(vDb, ps)
  <2>1. n \in 0..n
    OBVIOUS
  <2>2. QED
    BY <1>2, <2>1, Zenon
<1>11. QED
  BY <1>9, <1>10, Zenon DEF w

-----------------------------------------------------------------------------
(***************************************************************************)
(* Offsets in stored bytes: different chunks begin at different offsets,   *)
(* so an offset and a size cut out one chunk.                              *)
(***************************************************************************)
LEMMA OffsetIsSum ==
  ASSUME NEW piece \in Piece, NEW f, Adds(f, Sizes(piece), Len(piece)),
         NEW k \in 1..(Len(piece) + 1)
  PROVE  Offset(piece, k) = f[k - 1]
<1> DEFINE n == Len(piece)
           sub == SubSeq(piece, 1, k - 1)
<1>1. n \in Nat /\ k - 1 \in Nat /\ k - 1 <= n /\ k - 1 \in 0..n
  BY DEF Piece
<1>2. sub \in Piece /\ Len(sub) = k - 1 /\ \A i \in 1..(k - 1) : sub[i] = piece[i]
  BY <1>1, SubSeqProperties DEF Piece
<1> HIDE DEF sub
<1>3. PICK g : Adds(g, Sizes(sub), Len(sub)) /\ g[Len(sub)] = SizeOf(sub)
  BY <1>2, SizeIsSum
<1>4. \A i \in 1..(k - 1) : Sizes(piece)[i] = Sizes(sub)[i]
  <2>1. ASSUME NEW i \in 1..(k - 1) PROVE Sizes(piece)[i] = Sizes(sub)[i]
    <3>1. i \in 1..Len(piece) /\ i \in 1..Len(sub)
      BY <1>1, <1>2
    <3>2. QED
      BY <1>2, <3>1, Zenon DEF Sizes
  <2>2. QED
    BY <2>1
<1>5. f[k - 1] = g[k - 1]
  <2>1. Adds(g, Sizes(sub), k - 1)
    BY <1>2, <1>3, Zenon
  <2>2. k - 1 <= k - 1
    BY <1>1
  <2>3. QED
    BY <1>1, <1>4, <2>1, <2>2, SumsAgree
<1>6. QED
  BY <1>2, <1>3, <1>5, Zenon DEF Offset, sub

LEMMA SliceOfOne ==
  ASSUME NEW piece \in Piece, NEW k \in 1..Len(piece)
  PROVE  Slice(piece, Offset(piece, k), Sizes(piece)[k]) = Stored(<<piece[k]>>)
<1> DEFINE n == Len(piece)
           off == Offset(piece, k)
           size == Sizes(piece)[k]
           Whole == {s \in (1..n) \X (1..n) :
                       /\ s[1] <= s[2]
                       /\ Offset(piece, s[1]) = off
                       /\ Offset(piece, s[2] + 1) = off + size}
<1>1. n \in Nat
  BY DEF Piece
<1>2. PICK f : Adds(f, Sizes(piece), n)
  BY SizeIsSum
<1>3. \A i, j \in 0..n : i < j => f[i] < f[j]
  BY <1>1, <1>2, SizesArePositive, SumsGrow
<1>4. \A i \in 0..n : f[i] \in Nat
  BY <1>2 DEF Adds
<1>5. \A i, j \in 0..n : f[i] = f[j] => i = j
  <2>1. ASSUME NEW i \in 0..n, NEW j \in 0..n, f[i] = f[j] PROVE i = j
    <3>1. f[i] \in Nat /\ f[j] \in Nat /\ ~(f[i] < f[j]) /\ ~(f[j] < f[i])
      BY <1>4, <2>1
    <3>2. ~(i < j) /\ ~(j < i)
      BY <1>3, <3>1
    <3>3. QED
      BY <3>2
  <2>2. QED
    BY <2>1
<1>6. \A i \in 1..(n + 1) : Offset(piece, i) = f[i - 1]
  BY <1>2, OffsetIsSum
<1>7. off = f[k - 1] /\ off + size = f[k] /\ k - 1 \in 0..n /\ k \in 0..n
  <2>1. k \in 1..(n + 1) /\ k \in 1..n
    BY <1>1
  <2>2. f[k] = f[k - 1] + Sizes(piece)[k]
    BY <1>2, <2>1 DEF Adds
  <2>3. QED
    BY <1>1, <1>6, <2>1, <2>2
<1> HIDE DEF off, size
<1>8. <<k, k>> \in Whole
  <2>1. Offset(piece, k) = off
    BY Zenon DEF off
  <2>2. k + 1 \in 1..(n + 1) /\ (k + 1) - 1 = k
    BY <1>1
  <2>3. Offset(piece, k + 1) = off + size
    BY <1>6, <1>7, <2>2
  <2>4. QED
    BY <2>1, <2>3
<1>9. ASSUME NEW s \in Whole PROVE s = <<k, k>>
  <2>1. s \in (1..n) \X (1..n) /\ s[1] \in 1..n /\ s[2] \in 1..n
    OBVIOUS
  <2>2. Offset(piece, s[1]) = off /\ Offset(piece, s[2] + 1) = off + size
    OBVIOUS
  <2>3. /\ s[1] \in 1..(n + 1) /\ s[2] + 1 \in 1..(n + 1) /\ (s[2] + 1) - 1 = s[2]
        /\ s[1] - 1 \in 0..n /\ s[2] \in 0..n
    BY <1>1, <2>1
  <2>4. f[s[1] - 1] = f[k - 1] /\ f[s[2]] = f[k]
    BY <1>6, <1>7, <2>2, <2>3, Zenon
  <2>5. s[1] - 1 = k - 1 /\ s[2] = k
    BY <1>5, <1>7, <2>3, <2>4
  <2>6. QED
    BY <2>1, <2>5
<1>10. Whole = {<<k, k>>}
  BY <1>8, <1>9, Zenon
<1>11. (CHOOSE s \in Whole : TRUE) = <<k, k>> /\ Whole # {}
  BY <1>10
<1>12. Slice(piece, off, size)
         = Stored(SubSeq(piece, (CHOOSE s \in Whole : TRUE)[1],
                                (CHOOSE s \in Whole : TRUE)[2]))
  BY <1>11, Zenon DEF Slice
<1>13. SubSeq(piece, k, k) = <<piece[k]>>
  <2> DEFINE sub == SubSeq(piece, k, k)
  <2>1. /\ sub \in Seq(Chunk \X BOOLEAN) /\ Len(sub) = 1
        /\ \A i \in 1..1 : sub[i] = piece[k + i - 1]
    BY <1>1, SubSeqProperties DEF Piece
  <2> HIDE DEF sub
  <2>2. 1 \in 1..1 /\ k + 1 - 1 = k
    OBVIOUS
  <2>3. sub[1] = piece[k]
    BY <2>1, <2>2
  <2>4. sub = <<sub[1]>>
    BY <2>1
  <2>5. QED
    BY <2>3, <2>4, Zenon DEF sub
<1> HIDE DEF Whole
<1>14. QED
  <2> DEFINE s == CHOOSE s \in Whole : TRUE
  <2>1. s = <<k, k>>
    BY <1>11
  <2>2. Slice(piece, off, size) = Stored(SubSeq(piece, s[1], s[2]))
    BY <1>12
  <2> HIDE DEF s
  <2>3. s[1] = k /\ s[2] = k
    BY <2>1
  <2>4. QED
    BY <1>13, <2>2, <2>3, Zenon DEF off, size

\* The parts of a file in a row are its content again.
LEMMA FlattenOnes ==
  ASSUME NEW n \in Nat, NEW c, NEW seqs, seqs = [i \in 1..n |-> <<c[i]>>]
  PROVE  FlattenSeq(seqs) = [i \in 1..n |-> c[i]]
<1>1. Len(seqs) = n /\ DOMAIN seqs = 1..n
  OBVIOUS
<1>2. CASE n = 0
  <2>1. FlattenSeq(seqs) = seqs
    BY <1>1, <1>2, Zenon DEF FlattenSeq
  <2>2. 1..n = {}
    BY <1>2
  <2>3. seqs = [i \in 1..n |-> c[i]]
    BY <2>2, Zenon
  <2>4. QED
    BY <2>1, <2>3, Zenon
<1>3. CASE n # 0
  <2> DEFINE step(f) == [i \in 1..n |-> IF i = 1 THEN seqs[i] ELSE f[i - 1] \o seqs[i]]
             h == [i \in 1..n |-> [j \in 1..i |-> c[j]]]
             flatten == CHOOSE f : f = step(f)
  <2>1. FlattenSeq(seqs) = flatten[n]
    BY <1>1, <1>3, Zenon DEF FlattenSeq
  <2>2. ASSUME NEW i \in 1..n, NEW g, i # 1 => g[i - 1] = [j \in 1..(i - 1) |-> c[j]]
        PROVE  (IF i = 1 THEN seqs[i] ELSE g[i - 1] \o seqs[i]) = [j \in 1..i |-> c[j]]
    <3>1. seqs[i] = <<c[i]>>
      OBVIOUS
    <3>2. CASE i = 1
      BY <3>1, <3>2
    <3>3. CASE i # 1
      <4>1. [j \in 1..(i - 1) |-> c[j]] \o <<c[i]>> = [j \in 1..i |-> c[j]]
        BY <3>3
      <4>2. QED
        BY <2>2, <3>1, <3>3, <4>1, Zenon
    <3>4. QED
      BY <3>2, <3>3
  <2>3. h = step(h)
    <3>1. ASSUME NEW i \in 1..n, i # 1 PROVE h[i - 1] = [j \in 1..(i - 1) |-> c[j]]
      <4>1. i - 1 \in 1..n
        BY <3>1
      <4>2. QED
        BY <4>1, Zenon
    <3> HIDE DEF h
    <3>2. ASSUME NEW i \in 1..n
          PROVE  (IF i = 1 THEN seqs[i] ELSE h[i - 1] \o seqs[i]) = [j \in 1..i |-> c[j]]
      BY <2>2, <3>1
    <3>3. QED
      BY <3>2, Zenon DEF h
  <2>4. flatten = step(flatten)
    BY <2>3, Zenon
  <2> HIDE DEF flatten
  <2> DEFINE S == {i \in Nat : i \in 1..n => flatten[i] = [j \in 1..i |-> c[j]]}
  <2>5. ASSUME NEW i \in 1..n, i # 1 => flatten[i - 1] = [j \in 1..(i - 1) |-> c[j]]
        PROVE  flatten[i] = [j \in 1..i |-> c[j]]
    <3>1. flatten[i] = IF i = 1 THEN seqs[i] ELSE flatten[i - 1] \o seqs[i]
      BY <2>4, Zenon
    <3>2. QED
      BY <2>2, <2>5, <3>1, Zenon
  <2>6. 0 \in S
    OBVIOUS
  <2>7. ASSUME NEW i \in Nat, i \in S PROVE i + 1 \in S
    <3>1. SUFFICES ASSUME i + 1 \in 1..n
                   PROVE  flatten[i + 1] = [j \in 1..(i + 1) |-> c[j]]
      OBVIOUS
    <3>2. (i + 1) - 1 = i /\ (i + 1 # 1 => i \in 1..n)
      BY <3>1
    <3>3. i + 1 # 1 => flatten[(i + 1) - 1] = [j \in 1..((i + 1) - 1) |-> c[j]]
      BY <2>7, <3>2
    <3>4. QED
      BY <2>5, <3>1, <3>3
  <2>8. Nat \subseteq S
    <3> HIDE DEF S
    <3>1. QED
      BY <2>6, <2>7, Induct
  <2>9. flatten[n] = [j \in 1..n |-> c[j]]
    BY <1>3, <2>8
  <2>10. QED
    BY <2>1, <2>9, Zenon
<1>4. QED
  BY <1>2, <1>3

-----------------------------------------------------------------------------
(***************************************************************************)
(* Open gives what was scanned.  It takes a db whose files are scans and   *)
(* whose bundles list files of one part (WellFormed), and stored bundles   *)
(* that hold what their names say (RightStored): ByAttr compares the md5   *)
(* of parts only.                                                          *)
(***************************************************************************)
ScanOf(entry, content) ==
  /\ entry.Parts = ScanFile(content).Parts
  /\ entry.UseCompression = ScanFile(content).UseCompression

Single(vFiles) == {p \in DOMAIN vFiles : Len(vFiles[p].Parts) = 1}

WellFormed(db) ==
  /\ \A p \in DOMAIN db.VFiles :
       \E content \in Seq(Chunk) : ScanOf(db.VFiles[p], content)
  /\ \A id \in DOMAIN db.Bundles :
       /\ db.Bundles[id].Content \in Seq(Single(db.VFiles))
       /\ db.Bundles[id].StorageName = GroupId(db.VFiles, db.Bundles[id].Content)
       /\ db.Bundles[id].StorageName = id /\ db.Bundles[id].StorageMd5 = AnyMd5

\* What the bundle of these plain contents should hold.
RightBytes(cs) == [i \in 1..Len(cs) |-> <<cs[i], UseCompression(<<cs[i]>>)>>]

RightStored(fs) ==
  \A f \in fs : f.name.kind = "bundle" => f.body = Stored(RightBytes(f.name.plain))

LEMMA ScanParts ==
  ASSUME NEW entry, NEW content \in Seq(Chunk), ScanOf(entry, content)
  PROVE  /\ entry.UseCompression = UseCompression(content)
         /\ Len(entry.Parts) = Len(content) /\ DOMAIN entry.Parts = 1..Len(content)
         /\ \A i \in 1..Len(content) :
              entry.Parts[i] = VFilePart(content[i], UseCompression(content))
  BY DEF ScanOf, ScanFile

LEMMA OnePart ==
  ASSUME NEW entry, NEW content \in Seq(Chunk), ScanOf(entry, content),
         Len(entry.Parts) = 1
  PROVE  \E c \in Chunk :
           /\ content = <<c>>
           /\ entry.UseCompression = UseCompression(<<c>>)
           /\ entry.Parts[1] = VFilePart(c, UseCompression(<<c>>))
<1>1. Len(content) = 1
  BY ScanParts
<1>2. content[1] \in Chunk /\ content = <<content[1]>>
  BY <1>1
<1>3. 1 \in 1..Len(content)
  BY <1>1
<1>4. /\ entry.UseCompression = UseCompression(content)
      /\ entry.Parts[1] = VFilePart(content[1], UseCompression(content))
  BY <1>3, ScanParts
<1>5. QED
  BY <1>2, <1>4, Zenon

LEMMA PartFields ==
  ASSUME NEW c, NEW compr, NEW part, part = VFilePart(c, compr)
  PROVE  /\ part.StorageName = PartName(c)
         /\ part.StorageSize = StoredSize(c, compr)
         /\ part.StorageMd5 = Stored(<< <<c, compr>> >>)
         /\ part.StorageMd5.bytes[1] = <<c, compr>>
         /\ part.StorageMd5 # AnyMd5
         /\ PlainOf(part)[1] = c
<1>1. "bytes" \in DOMAIN Stored(<< <<c, compr>> >>) /\ "bytes" \notin DOMAIN AnyMd5
  BY DEF Stored, AnyMd5
<1>2. Stored(<< <<c, compr>> >>) # AnyMd5
  BY <1>1, Zenon
<1>3. Stored(<< <<c, compr>> >>).bytes = << <<c, compr>> >>
  BY DEF Stored
<1>4. << <<c, compr>> >>[1] = <<c, compr>>
  OBVIOUS
<1>5. PartName(c).plain[1] = c
  BY DEF PartName
<1>6. QED
  BY <1>2, <1>3, <1>4, <1>5 DEF VFilePart, PlainOf

\* Bytes of one chunk that was stored right.
LEMMA RightDecoded ==
  ASSUME NEW c, NEW compr \in BOOLEAN
  PROVE  Decode(Stored(<< <<c, compr>> >>), compr) = Text(<<c>>)
<1> DEFINE got == Stored(<< <<c, compr>> >>)
<1>1. got.bytes = << <<c, compr>> >>
  BY DEF Stored
<1>2. got # Garbled
  <2>1. "bytes" \in DOMAIN got /\ "bytes" \notin DOMAIN Garbled
    BY DEF Stored, Garbled
  <2>2. QED
    BY <2>1, Zenon
<1> HIDE DEF got
<1>3. /\ Len(got.bytes) = 1 /\ got.bytes[1] = <<c, compr>>
      /\ got.bytes[1][1] = c /\ got.bytes[1][2] = compr
      /\ DOMAIN got.bytes = {1}
  BY <1>1
<1>4. CASE compr
  <2>1. Decode(got, compr) = Text(<<got.bytes[1][1]>>)
    BY <1>2, <1>3, <1>4, Zenon DEF Decode
  <2>2. QED
    BY <1>3, <2>1, Zenon DEF got
<1>5. CASE ~compr
  <2>1. ~(\E x \in ToSet(got.bytes) : x[2])
    BY <1>1, <1>5 DEF ToSet
  <2>2. Decode(got, compr) = Text([i \in DOMAIN got.bytes |-> got.bytes[i][1]])
    BY <1>2, <1>5, <2>1, Zenon DEF Decode
  <2>3. [i \in DOMAIN got.bytes |-> got.bytes[i][1]] = <<c>>
    BY <1>1
  <2>4. QED
    BY <2>2, <2>3, Zenon DEF got
<1>6. QED
  BY <1>4, <1>5

\* The bytes of a bundle are those of its files, in its order.
LEMMA BundleBytes ==
  ASSUME NEW db, WellFormed(db), NEW id \in DOMAIN db.Bundles
  PROVE  LET b == db.Bundles[id]
             piece == RightBytes(b.StorageName.plain)
         IN  /\ b.StorageName.kind = "bundle"
             /\ piece \in Piece /\ Len(piece) = Len(b.Content)
             /\ GroupBytes(db.VFiles, b.Content) = piece
             /\ \A i \in 1..Len(b.Content) :
                  /\ ElementSize(db, b.Content[i]) = Sizes(piece)[i]
                  /\ \E c \in Chunk :
                       /\ piece[i] = <<c, UseCompression(<<c>>)>>
                       /\ ScanOf(db.VFiles[b.Content[i]], <<c>>)
<1> DEFINE b == db.Bundles[id]
           group == b.Content
           plain == [i \in 1..Len(group) |-> PlainOf(db.VFiles[group[i]].Parts[1])[1]]
           piece == RightBytes(plain)
<1>1. group \in Seq(Single(db.VFiles)) /\ b.StorageName = GroupId(db.VFiles, group)
  BY DEF WellFormed
<1>2. b.StorageName.kind = "bundle" /\ b.StorageName.plain = plain
  <2>1. GroupId(db.VFiles, group) = BundleName(plain)
    BY Zenon DEF GroupId
  <2> HIDE DEF plain
  <2>2. BundleName(plain).kind = "bundle" /\ BundleName(plain).plain = plain
    BY DEF BundleName
  <2>3. QED
    BY <1>1, <2>1, <2>2, Zenon
<1> HIDE DEF b
<1>3. Len(group) \in Nat /\ DOMAIN group = 1..Len(group)
  BY <1>1
<1>4. Len(plain) = Len(group)
  BY <1>3
<1>5. piece = [i \in 1..Len(group) |-> <<plain[i], UseCompression(<<plain[i]>>)>>]
  BY <1>4, Zenon DEF RightBytes
<1>6. ASSUME NEW i \in 1..Len(group)
      PROVE  \E c \in Chunk :
               /\ plain[i] = c /\ ScanOf(db.VFiles[group[i]], <<c>>)
               /\ db.VFiles[group[i]].Parts[1] = VFilePart(c, UseCompression(<<c>>))
  <2>1. group[i] \in Single(db.VFiles)
    BY <1>1
  <2>2. PICK content \in Seq(Chunk) : ScanOf(db.VFiles[group[i]], content)
    BY <2>1 DEF WellFormed, Single
  <2>3. PICK c \in Chunk :
          /\ content = <<c>>
          /\ db.VFiles[group[i]].Parts[1] = VFilePart(c, UseCompression(<<c>>))
    BY <2>1, <2>2, OnePart DEF Single
  <2> DEFINE part == db.VFiles[group[i]].Parts[1]
  <2>4. plain[i] = PlainOf(part)[1] /\ part = VFilePart(c, UseCompression(<<c>>))
    BY <2>3, Zenon
  <2> HIDE DEF part, plain
  <2>5. plain[i] = c
    BY <2>4, PartFields
  <2>6. QED
    BY <2>2, <2>3, <2>5, Zenon
<1> HIDE DEF plain
<1>7. piece \in Piece /\ Len(piece) = Len(group)
  <2>1. ASSUME NEW i \in 1..Len(group)
        PROVE  <<plain[i], UseCompression(<<plain[i]>>)>> \in Chunk \X BOOLEAN
    <3>1. plain[i] \in Chunk
      BY <1>6
    <3>2. UseCompression(<<plain[i]>>) \in BOOLEAN
      BY DEF UseCompression
    <3>3. QED
      BY <3>1, <3>2
  <2>2. piece \in [1..Len(group) -> Chunk \X BOOLEAN]
    BY <1>5, <2>1, Zenon
  <2> HIDE DEF piece
  <2>3. QED
    BY <1>3, <2>2 DEF Piece
<1> HIDE DEF piece
<1>8. ASSUME NEW i \in 1..Len(group)
      PROVE  /\ db.VFiles[group[i]].Parts[1].StorageMd5.bytes[1] = piece[i]
             /\ ElementSize(db, group[i]) = Sizes(piece)[i]
             /\ \E c \in Chunk :
                  /\ piece[i] = <<c, UseCompression(<<c>>)>>
                  /\ ScanOf(db.VFiles[group[i]], <<c>>)
  <2>1. PICK c \in Chunk :
          /\ plain[i] = c /\ ScanOf(db.VFiles[group[i]], <<c>>)
          /\ db.VFiles[group[i]].Parts[1] = VFilePart(c, UseCompression(<<c>>))
    BY <1>6
  <2>2. piece[i] = <<c, UseCompression(<<c>>)>>
    BY <1>5, <2>1, Zenon
  <2> DEFINE part == db.VFiles[group[i]].Parts[1]
  <2>3. ASSUME NEW u, u = UseCompression(<<c>>)
        PROVE  part.StorageMd5.bytes[1] = <<c, u>> /\ part.StorageSize = StoredSize(c, u)
    <3>1. part = VFilePart(c, u)
      BY <2>1, <2>3, Zenon
    <3> HIDE DEF part
    <3>2. part.StorageSize = StoredSize(c, u)
      BY <3>1 DEF VFilePart
    <3>3. part.StorageMd5 = Stored(<< <<c, u>> >>)
      BY <3>1, PartFields
    <3>4. part.StorageMd5.bytes[1] = <<c, u>>
      BY <3>3 DEF Stored
    <3>5. QED
      BY <3>2, <3>4
  <2>4. /\ part.StorageMd5.bytes[1] = <<c, UseCompression(<<c>>)>>
        /\ ElementSize(db, group[i]) = StoredSize(c, UseCompression(<<c>>))
    BY <2>3, Zenon DEF ElementSize
  <2>5. piece[i][1] = c /\ piece[i][2] = UseCompression(<<c>>)
    BY <2>2
  <2>6. Sizes(piece)[i] = StoredSize(piece[i][1], piece[i][2])
    BY <1>7, Zenon DEF Sizes
  <2>7. QED
    BY <2>1, <2>2, <2>4, <2>5, <2>6, Zenon
<1>9. GroupBytes(db.VFiles, group) = piece
  <2>1. GroupBytes(db.VFiles, group) = [i \in 1..Len(group) |-> piece[i]]
    BY <1>8, Zenon DEF GroupBytes
  <2>2. piece = [i \in 1..Len(group) |-> piece[i]]
    BY <1>5, Zenon
  <2>3. QED
    BY <2>1, <2>2, Zenon
<1>10. QED
  BY <1>2, <1>7, <1>8, <1>9, Zenon DEF piece, b

\* posInBundle finds the file's own bytes.
LEMMA PosIsRight ==
  ASSUME NEW db, WellFormed(db), NEW id \in DOMAIN db.Bundles, NEW p,
         PosInBundle(db.Bundles[id], db, p).ok
  PROVE  \E k \in 1..Len(db.Bundles[id].Content) :
           /\ db.Bundles[id].Content[k] = p
           /\ PosInBundle(db.Bundles[id], db, p).off
                = Offset(RightBytes(db.Bundles[id].StorageName.plain), k)
<1> DEFINE b == db.Bundles[id]
           group == b.Content
           piece == RightBytes(b.StorageName.plain)
           At == {i \in DOMAIN group : group[i] = p}
           k == Min(At)
           upTo == SubSeq(group, 1, k)
<1>1. group \in Seq(Single(db.VFiles)) /\ Len(group) \in Nat
      /\ DOMAIN group = 1..Len(group)
  BY DEF WellFormed
<1>2. /\ piece \in Piece /\ Len(piece) = Len(group)
      /\ \A i \in 1..Len(group) : ElementSize(db, group[i]) = Sizes(piece)[i]
  BY BundleBytes
<1>3. At # {} /\ PosInBundle(b, db, p).off = Before(db, Front(upTo))
  <2> DEFINE good == /\ At # {}
                     /\ \A q \in ToSet(upTo) : /\ q \in DOMAIN db.VFiles
                                               /\ Len(db.VFiles[q].Parts) = 1
             yes == [ok |-> TRUE, off |-> Before(db, Front(upTo))]
             no == [ok |-> FALSE, off |-> 0]
  <2>1. PosInBundle(b, db, p) = IF good THEN yes ELSE no
    BY Zenon DEF PosInBundle, Before
  <2>2. PosInBundle(b, db, p).ok
    OBVIOUS
  <2>3. ~no.ok /\ yes.off = Before(db, Front(upTo))
    OBVIOUS
  <2> HIDE DEF yes, no
  <2>4. good
    BY <2>1, <2>2, <2>3, Zenon
  <2>5. PosInBundle(b, db, p) = yes
    BY <2>1, <2>4, Zenon
  <2>6. QED
    BY <2>3, <2>4, <2>5, Zenon
<1>4. k \in At
  <2>1. At \in SUBSET Nat
    BY <1>1
  <2>2. PICK n \in At : \A m \in At : n <= m
    BY <1>3, <2>1, LeastOne
  <2>3. QED
    BY <2>2, Zenon DEF Min
<1>5. k \in 1..Len(group) /\ group[k] = p
  BY <1>1, <1>4
<1> HIDE DEF b, k, At, piece
<1>6. /\ DOMAIN Front(upTo) = 1..(k - 1)
      /\ \A i \in 1..(k - 1) : Front(upTo)[i] = group[i]
  <2>1. upTo \in Seq(Single(db.VFiles)) /\ Len(upTo) = k
        /\ \A i \in 1..k : upTo[i] = group[i]
    BY <1>1, <1>5, SubSeqProperties
  <2> HIDE DEF upTo
  <2>2. Front(upTo) = SubSeq(upTo, 1, k - 1)
    BY <2>1, Zenon DEF Front
  <2>3. 1 \in Nat /\ k - 1 \in 0..Len(upTo)
    BY <1>5, <2>1
  <2>4. /\ Front(upTo) \in Seq(Single(db.VFiles)) /\ Len(Front(upTo)) = k - 1
        /\ \A i \in 1..(k - 1) : Front(upTo)[i] = upTo[i]
    BY <1>5, <2>1, <2>2, SubSeqProperties
  <2>5. \A i \in 1..(k - 1) : i \in 1..k
    BY <1>5
  <2>6. DOMAIN Front(upTo) = 1..(k - 1)
    BY <2>4, LenProperties
  <2>7. QED
    BY <2>1, <2>4, <2>5, <2>6, Zenon
<1> HIDE DEF upTo
<1>7. PICK f : Adds(f, Sizes(piece), Len(piece))
  BY <1>2, SizeIsSum
<1>8. /\ k - 1 \in Nat /\ k - 1 <= Len(group) /\ k - 1 <= k - 1
      /\ k \in 1..(Len(group) + 1)
      /\ \A i \in 1..(k - 1) : i \in 1..Len(group)
  BY <1>1, <1>5
<1> DEFINE v == [i \in 1..(k - 1) |-> ElementSize(db, Front(upTo)[i])]
<1>9. \A i \in 1..(k - 1) : /\ ElementSize(db, Front(upTo)[i]) = Sizes(piece)[i]
                            /\ ElementSize(db, Front(upTo)[i]) \in Nat
  <2>1. ASSUME NEW i \in 1..(k - 1)
        PROVE  /\ ElementSize(db, Front(upTo)[i]) = Sizes(piece)[i]
               /\ Sizes(piece)[i] \in Nat
    <3>1. i \in 1..Len(group)
      BY <1>8
    <3>2. Sizes(piece)[i] \in Nat \ {0}
      BY <1>2, <3>1, SizesArePositive
    <3>3. ElementSize(db, Front(upTo)[i]) = Sizes(piece)[i]
      BY <1>2, <1>6, <3>1, Zenon
    <3>4. QED
      BY <3>2, <3>3
  <2>2. QED
    BY <2>1
<1>10. PICK g : Adds(g, v, k - 1) /\ g[k - 1] = Before(db, Front(upTo))
  BY <1>6, <1>8, <1>9, BeforeIsSum
<1>11. \A i \in 1..(k - 1) : Sizes(piece)[i] = v[i]
  BY <1>9
<1> HIDE DEF v
<1>12. f[k - 1] = g[k - 1]
  BY <1>1, <1>2, <1>7, <1>8, <1>10, <1>11, SumsAgree
<1>13. Offset(piece, k) = f[k - 1]
  BY <1>2, <1>7, <1>8, OffsetIsSum
<1>14. QED
  BY <1>3, <1>5, <1>10, <1>12, <1>13, Zenon DEF b, piece

\* A file of one part is read from a bundle, or from its part: either way it is
\* the chunk that was scanned.
LEMMA OneIsRight ==
  ASSUME NEW db, WellFormed(db), NEW fs, RightStored(fs),
         NEW p \in DOMAIN db.VFiles, Len(db.VFiles[p].Parts) = 1,
         NEW c \in Chunk, NEW compr \in BOOLEAN,
         ScanOf(db.VFiles[p], <<c>>),
         compr = UseCompression(<<c>>), db.VFiles[p].UseCompression = compr,
         db.VFiles[p].Parts[1] = VFilePart(c, compr),
         NEW src \in BundleOrPart(p, db.VFiles[p], db, fs)
  PROVE  Decode(Fetch(src), db.VFiles[p].UseCompression) = Text(<<c>>)
<1>0. ASSUME NEW id \in DOMAIN db.Bundles, PosInBundle(db.Bundles[id], db, p).ok
      PROVE  \E k \in 1..Len(db.Bundles[id].Content) :
               /\ db.Bundles[id].Content[k] = p
               /\ PosInBundle(db.Bundles[id], db, p).off
                    = Offset(RightBytes(db.Bundles[id].StorageName.plain), k)
  BY <1>0, PosIsRight
<1> DEFINE vf == db.VFiles[p]
           part == vf.Parts[1]
           inBundle == db.Bundles[vf.AlsoInBundle]
           pos == PosInBundle(inBundle, db, p)
           source(f, off, key) == [sf |-> f, off |-> off, n |-> part.StorageSize, key |-> key]
<1>1. SUFFICES Fetch(src) = Stored(<< <<c, compr>> >>)
  BY RightDecoded, Zenon
<1>2. \/ /\ vf.AlsoInBundle \in DOMAIN db.Bundles /\ pos.ok
         /\ \E f \in ByAttr(fs, inBundle) :
              src = source(f, pos.off, inBundle.StorageName)
      \/ \E f \in ByAttr(fs, part) : src = source(f, 0, part.StorageName)
  BY Zenon DEF BundleOrPart
<1>3. part.StorageSize = StoredSize(c, compr) /\ part.StorageMd5 = Stored(<< <<c, compr>> >>)
      /\ part.StorageMd5 # AnyMd5
  <2>1. part = VFilePart(c, compr)
    OBVIOUS
  <2> HIDE DEF part
  <2>2. Stored(<< <<c, compr>> >>) # AnyMd5
    <3>1. /\ "bytes" \in DOMAIN Stored(<< <<c, compr>> >>)
          /\ "bytes" \notin DOMAIN AnyMd5
      BY DEF Stored, AnyMd5
    <3>2. QED
      BY <3>1, Zenon
  <2>3. QED
    BY <2>1, <2>2 DEF VFilePart
<1> HIDE DEF part
<1>4. ASSUME NEW f \in ByAttr(fs, part), src = source(f, 0, part.StorageName)
      PROVE  Fetch(src) = Stored(<< <<c, compr>> >>)
  <2> DEFINE piece == << <<c, compr>> >>
  <2>1. f.name = part.StorageName /\ f.body = part.StorageMd5
    BY <1>3, Zenon DEF ByAttr
  <2>2. /\ src.key = part.StorageName /\ src.sf = f /\ src.off = 0
        /\ src.n = part.StorageSize
    BY <1>4
  <2>3. piece \in Piece /\ Len(piece) = 1 /\ piece[1] = <<c, compr>>
        /\ piece[1][1] = c /\ piece[1][2] = compr
    BY DEF Piece
  <2>4. f.body.bytes = piece
    BY <1>3, <2>1 DEF Stored
  <2> HIDE DEF piece
  <2>5. 1 \in 1..Len(piece) /\ 1 \in 1..(Len(piece) + 1) /\ 1 - 1 = 0
    BY <2>3
  <2>6. PICK g : Adds(g, Sizes(piece), Len(piece))
    BY <2>3, SizeIsSum
  <2>7. Offset(piece, 1) = 0
    <3>1. Offset(piece, 1) = g[1 - 1]
      BY <2>3, <2>5, <2>6, OffsetIsSum
    <3>2. g[0] = 0
      BY <2>6, Zenon DEF Adds
    <3>3. QED
      BY <2>5, <3>1, <3>2
  <2>8. Sizes(piece)[1] = part.StorageSize
    BY <1>3, <2>3, <2>5, Zenon DEF Sizes
  <2>9. Slice(piece, 0, part.StorageSize) = Stored(<<piece[1]>>)
    BY <2>3, <2>5, <2>7, <2>8, SliceOfOne, Zenon
  <2>10. Fetch(src) = Slice(piece, 0, part.StorageSize)
    BY <2>1, <2>2, <2>4, Zenon DEF Fetch
  <2>11. QED
    BY <2>3, <2>9, <2>10, Zenon
<1>5. ASSUME vf.AlsoInBundle \in DOMAIN db.Bundles, pos.ok,
             NEW f \in ByAttr(fs, inBundle),
             src = source(f, pos.off, inBundle.StorageName)
      PROVE  Fetch(src) = Stored(<< <<c, compr>> >>)
  <2> DEFINE piece == RightBytes(inBundle.StorageName.plain)
  <2>1. /\ inBundle.StorageName.kind = "bundle"
        /\ piece \in Piece /\ Len(piece) = Len(inBundle.Content)
        /\ \A i \in 1..Len(inBundle.Content) :
             \E d \in Chunk : /\ piece[i] = <<d, UseCompression(<<d>>)>>
                              /\ ScanOf(db.VFiles[inBundle.Content[i]], <<d>>)
    BY <1>5, BundleBytes
  <2>2. PICK k \in 1..Len(inBundle.Content) :
          inBundle.Content[k] = p /\ pos.off = Offset(piece, k)
    BY <1>0, <1>5, Zenon
  <2>3. PICK d \in Chunk : /\ piece[k] = <<d, UseCompression(<<d>>)>>
                           /\ ScanOf(db.VFiles[p], <<d>>)
    BY <2>1, <2>2, Zenon
  <2>4. d = c
    <3>1. <<c>> \in Seq(Chunk) /\ <<d>> \in Seq(Chunk)
          /\ 1 \in 1..Len(<<d>>) /\ 1 \in 1..Len(<<c>>)
      OBVIOUS
    <3>2. /\ part = VFilePart((<<d>>)[1], UseCompression(<<d>>))
          /\ part = VFilePart((<<c>>)[1], UseCompression(<<c>>))
      BY <2>3, <3>1, ScanParts, Zenon DEF part
    <3>3. ASSUME NEW x, NEW u PROVE PlainOf(VFilePart(x, u))[1] = x
      BY DEF PlainOf, VFilePart, PartName
    <3>4. PlainOf(part)[1] = (<<d>>)[1] /\ PlainOf(part)[1] = (<<c>>)[1]
      BY <3>2, <3>3, Zenon
    <3>5. QED
      BY <3>4
  <2>5. piece[k] = <<c, compr>>
    BY <2>3, <2>4, Zenon
  <2>6. f.name = inBundle.StorageName /\ f \in fs
    BY <1>5, Zenon DEF ByAttr
  <2>7. f.body.bytes = piece
    <3>1. f.body = Stored(piece)
      BY <2>1, <2>6, Zenon DEF RightStored
    <3> HIDE DEF piece
    <3>2. QED
      BY <3>1 DEF Stored
  <2>8. /\ src.key = inBundle.StorageName /\ src.sf = f /\ src.off = pos.off
        /\ src.n = part.StorageSize
    BY <1>5
  <2> HIDE DEF piece
  <2>9. k \in 1..Len(piece)
    BY <2>1, <2>2, Zenon
  <2>10. Sizes(piece)[k] = part.StorageSize
    <3>1. piece[k][1] = c /\ piece[k][2] = compr
      BY <2>5
    <3>2. QED
      BY <1>3, <2>9, <3>1, Zenon DEF Sizes
  <2>11. Slice(piece, pos.off, part.StorageSize) = Stored(<<piece[k]>>)
    BY <2>1, <2>2, <2>9, <2>10, SliceOfOne, Zenon DEF piece
  <2>12. Fetch(src) = Slice(piece, pos.off, part.StorageSize)
    BY <2>6, <2>7, <2>8, Zenon DEF Fetch
  <2>13. QED
    BY <2>5, <2>11, <2>12, Zenon
<1>6. QED
  BY <1>2, <1>4, <1>5, Zenon

LEMMA OneFileOpens ==
  ASSUME NEW db, WellFormed(db), NEW fs, RightStored(fs),
         NEW p \in DOMAIN db.VFiles, Len(db.VFiles[p].Parts) = 1
  PROVE  LET got == Open(p, db.VFiles[p], db, fs)
             right == ScannedContent(db.VFiles[p])
         IN  /\ got \subseteq {Failed, right}
             /\ (\A i \in DOMAIN db.VFiles[p].Parts :
                   ByAttr(fs, db.VFiles[p].Parts[i]) # {}) => got = {right}
<1> DEFINE vf == db.VFiles[p]
           sources == BundleOrPart(p, vf, db, fs)
           got == Open(p, vf, db, fs)
<1>1. PICK content \in Seq(Chunk) : ScanOf(vf, content)
  BY DEF WellFormed
<1>2. PICK c \in Chunk : /\ content = <<c>>
                         /\ vf.UseCompression = UseCompression(<<c>>)
                         /\ vf.Parts[1] = VFilePart(c, UseCompression(<<c>>))
  BY <1>1, OnePart
<1>3. PICK compr \in BOOLEAN : compr = UseCompression(<<c>>)
  BY DEF UseCompression
<1>4. ASSUME NEW src \in sources
      PROVE  Decode(Fetch(src), vf.UseCompression) = Text(<<c>>)
  BY <1>1, <1>2, <1>3, <1>4, OneIsRight, Zenon
<1>5. ScannedContent(vf) = Text(<<c>>)
  <2>1. DOMAIN vf.Parts = {1}
    <3>1. DOMAIN vf.Parts = 1..Len(content) /\ Len(content) = 1
      BY <1>1, <1>2, ScanParts
    <3>2. QED
      BY <3>1
  <2>2. ASSUME NEW x, NEW u PROVE PlainOf(VFilePart(x, u))[1] = x
    BY DEF PlainOf, VFilePart, PartName
  <2>3. PlainOf(vf.Parts[1])[1] = c
    BY <1>2, <2>2, Zenon
  <2>4. [i \in DOMAIN vf.Parts |-> PlainOf(vf.Parts[i])[1]] = [i \in {1} |-> c]
    BY <2>1, <2>3, Zenon
  <2>5. [i \in {1} |-> c] = <<c>>
    OBVIOUS
  <2>6. QED
    BY <2>4, <2>5, Zenon DEF ScannedContent
<1>6. got = IF sources = {} THEN {Failed}
            ELSE {Decode(Fetch(s), vf.UseCompression) : s \in sources}
  <2>1. Len(vf.Parts) # 0
    OBVIOUS
  <2>2. QED
    BY <2>1, Zenon DEF Open
<1> HIDE DEF got, sources
<1>7. CASE sources = {}
  <2>1. got = {Failed}
    BY <1>6, <1>7, Zenon
  <2>2. ByAttr(fs, vf.Parts[1]) = {}
    <3>1. SUFFICES ASSUME ByAttr(fs, vf.Parts[1]) # {} PROVE FALSE
      OBVIOUS
    <3> DEFINE b == db.Bundles[vf.AlsoInBundle]
               src(f, off, key) ==
                 [sf |-> f, off |-> off, n |-> vf.Parts[1].StorageSize, key |-> key]
    <3>2. CASE /\ vf.AlsoInBundle \in DOMAIN db.Bundles
               /\ ByAttr(fs, b) # {} /\ PosInBundle(b, db, p).ok
      <4>1. sources = {src(f, PosInBundle(b, db, p).off, b.StorageName) :
                         f \in ByAttr(fs, b)}
        BY <3>1, <3>2, Zenon DEF sources, BundleOrPart
      <4>2. QED
        BY <1>7, <3>2, <4>1, Zenon
    <3>3. CASE ~(/\ vf.AlsoInBundle \in DOMAIN db.Bundles
                 /\ ByAttr(fs, b) # {} /\ PosInBundle(b, db, p).ok)
      <4>1. sources = {src(f, 0, vf.Parts[1].StorageName) : f \in ByAttr(fs, vf.Parts[1])}
        BY <3>1, <3>3, Zenon DEF sources, BundleOrPart
      <4>2. QED
        BY <1>7, <3>1, <4>1, Zenon
    <3>4. QED
      BY <3>2, <3>3
  <2>3. 1 \in DOMAIN vf.Parts
    BY <1>1, <1>2, ScanParts
  <2>4. QED
    BY <2>1, <2>2, <2>3, Zenon DEF got
<1>8. CASE sources # {}
  <2>1. got = {Decode(Fetch(s), vf.UseCompression) : s \in sources}
    BY <1>6, <1>8, Zenon
  <2>2. got = {Text(<<c>>)}
    BY <1>4, <1>8, <2>1, Zenon
  <2>3. QED
    BY <1>5, <2>2, Zenon DEF got
<1>9. QED
  BY <1>7, <1>8

LEMMA ManyPartsOpen ==
  ASSUME NEW db, WellFormed(db), NEW fs,
         NEW p \in DOMAIN db.VFiles, Len(db.VFiles[p].Parts) # 1
  PROVE  LET got == Open(p, db.VFiles[p], db, fs)
             right == ScannedContent(db.VFiles[p])
         IN  /\ got \subseteq {Failed, right}
             /\ (\A i \in DOMAIN db.VFiles[p].Parts :
                   ByAttr(fs, db.VFiles[p].Parts[i]) # {}) => got = {right}
<1> DEFINE vf == db.VFiles[p]
           n == Len(vf.Parts)
           found(i) == ByAttr(fs, vf.Parts[i])
           text(i) == Decode((CHOOSE f \in found(i) : TRUE).body, FALSE)
           got == Open(p, vf, db, fs)
<1>1. PICK content \in Seq(Chunk) : ScanOf(vf, content)
  BY DEF WellFormed
<1>2. Len(content) = n /\ DOMAIN vf.Parts = 1..n /\ n \in Nat
  BY <1>1, ScanParts
<1>3. UseCompression(content) = FALSE
  BY <1>2 DEF UseCompression
<1>4. \A i \in 1..n : vf.Parts[i] = VFilePart(content[i], FALSE)
  <2>1. \A i \in 1..Len(content) :
          vf.Parts[i] = VFilePart(content[i], UseCompression(content))
    BY <1>1, ScanParts, Zenon
  <2>2. QED
    BY <1>2, <1>3, <2>1, Zenon
<1>5. ScannedContent(vf) = Text([i \in 1..n |-> content[i]])
  <2>1. ASSUME NEW x, NEW u PROVE PlainOf(VFilePart(x, u))[1] = x
    BY DEF PlainOf, VFilePart, PartName
  <2>2. \A i \in 1..n : PlainOf(vf.Parts[i])[1] = content[i]
    BY <1>4, <2>1, Zenon
  <2>3. QED
    BY <1>2, <2>2, Zenon DEF ScannedContent
<1>6. CASE n = 0
  <2>1. got = {Text(<< >>)}
    BY <1>6, Zenon DEF Open
  <2>2. [i \in 1..n |-> content[i]] = << >>
    BY <1>6
  <2>3. QED
    BY <1>5, <2>1, <2>2, Zenon
<1>7. CASE n # 0
  <2>1. got = IF \E i \in DOMAIN vf.Parts : found(i) = {} THEN {Failed}
              ELSE {Text(FlattenSeq([i \in DOMAIN vf.Parts |-> text(i).text]))}
    BY <1>7, Zenon DEF Open
  <2>2. CASE \E i \in DOMAIN vf.Parts : found(i) = {}
    BY <2>1, <2>2, Zenon
  <2>3. CASE \A i \in DOMAIN vf.Parts : found(i) # {}
    <3>1. ASSUME NEW i \in 1..n PROVE text(i).text = <<content[i]>>
      <4>1. PICK f \in found(i) : f = CHOOSE g \in found(i) : TRUE
        BY <1>2, <2>3
      <4>2. vf.Parts[i].StorageMd5 = Stored(<< <<content[i], FALSE>> >>)
        <5>1. ASSUME NEW x, NEW u
              PROVE  VFilePart(x, u).StorageMd5 = Stored(<< <<x, u>> >>)
          BY DEF VFilePart
        <5>2. QED
          BY <1>4, <5>1, Zenon
      <4>3. Stored(<< <<content[i], FALSE>> >>) # AnyMd5
        <5>1. /\ "bytes" \in DOMAIN Stored(<< <<content[i], FALSE>> >>)
              /\ "bytes" \notin DOMAIN AnyMd5
          BY DEF Stored, AnyMd5
        <5>2. QED
          BY <5>1, Zenon
      <4>4. f.body = Stored(<< <<content[i], FALSE>> >>)
        BY <4>2, <4>3, Zenon DEF ByAttr
      <4>5. FALSE \in BOOLEAN
        OBVIOUS
      <4>6. text(i) = Text(<<content[i]>>)
        BY <4>1, <4>4, <4>5, RightDecoded, Zenon
      <4>7. ASSUME NEW x PROVE Text(x).text = x
        BY DEF Text
      <4>8. QED
        BY <4>6, <4>7, Zenon
    <3> HIDE DEF text
    <3>2. [i \in DOMAIN vf.Parts |-> text(i).text] = [i \in 1..n |-> <<content[i]>>]
      BY <1>2, <3>1, Zenon
    <3>3. FlattenSeq([i \in 1..n |-> <<content[i]>>]) = [i \in 1..n |-> content[i]]
      BY <1>2, FlattenOnes, Zenon
    <3>4. got = {Text([i \in 1..n |-> content[i]])}
      BY <2>1, <2>3, <3>2, <3>3, Zenon
    <3>5. QED
      BY <1>5, <3>4, Zenon
  <2>4. QED
    BY <2>2, <2>3, Zenon
<1>8. QED
  BY <1>6, <1>7

\* core.Open, with any db MakeBundles may have made of a scan: a reader gets the
\* content that was scanned, or an error; and no error if all parts are there.
THEOREM OpenIsRight ==
  ASSUME NEW db, WellFormed(db), NEW fs, RightStored(fs), NEW p \in DOMAIN db.VFiles
  PROVE  LET got == Open(p, db.VFiles[p], db, fs)
             right == ScannedContent(db.VFiles[p])
         IN  /\ got \subseteq {Failed, right}
             /\ (\A i \in DOMAIN db.VFiles[p].Parts :
                   ByAttr(fs, db.VFiles[p].Parts[i]) # {}) => got = {right}
<1>1. CASE Len(db.VFiles[p].Parts) = 1
  BY <1>1, OneFileOpens, Zenon
<1>2. CASE Len(db.VFiles[p].Parts) # 1
  BY <1>2, ManyPartsOpen, Zenon
<1>3. QED
  BY <1>1, <1>2

\* Files with the right bytes can be added.
LEMMA SavedIsRight ==
  ASSUME RightStored(store), NEW name, NEW size, NEW body, Save(name, size, body),
         name.kind = "bundle" => body = Stored(RightBytes(name.plain))
  PROVE  RightStored(store')
<1> DEFINE new == [id |-> lastId + 1, name |-> name, size |-> size, body |-> body]
<1>1. store' = store \cup {new}
  BY Zenon DEF Save
<1>2. new.name = name /\ new.body = body
  BY SMT
<1> HIDE DEF new
<1> QED
  BY Zenon, <1>1, <1>2 DEF RightStored

-----------------------------------------------------------------------------
(***************************************************************************)
(* The db of MakeBundles is well formed: groups are lists of their files.  *)
(***************************************************************************)
LEMMA MakeBundlesFacts ==
  ASSUME NEW D, NEW content, NEW groups,
         NEW db, db = MakeBundles([p \in D |-> ScanFile(content[p])], groups)
  PROVE  /\ DOMAIN db.VFiles = D
         /\ \A p \in D :
              /\ db.VFiles[p].Parts = ScanFile(content[p]).Parts
              /\ db.VFiles[p].UseCompression = ScanFile(content[p]).UseCompression
         /\ \A id \in DOMAIN db.Bundles :
              /\ db.Bundles[id].StorageMd5 = AnyMd5
              /\ db.Bundles[id].StorageName # IndexName
<1> DEFINE vf == [p \in D |-> ScanFile(content[p])]
<1>1. DOMAIN db.VFiles = D
  BY DEF MakeBundles
<1>2. ASSUME NEW p \in D
      PROVE  /\ db.VFiles[p].Parts = ScanFile(content[p]).Parts
             /\ db.VFiles[p].UseCompression = ScanFile(content[p]).UseCompression
  <2>1. vf[p] = ScanFile(content[p])
    OBVIOUS
  <2>2. \E id : db.VFiles[p] = [vf[p] EXCEPT !.AlsoInBundle = id]
    BY DEF MakeBundles
  <2>3. PICK id : db.VFiles[p] = [ScanFile(content[p]) EXCEPT !.AlsoInBundle = id]
    BY <2>1, <2>2
  <2>4. QED
    BY <2>3 DEF ScanFile
<1>3. ASSUME NEW id \in DOMAIN db.Bundles
      PROVE  /\ db.Bundles[id].StorageMd5 = AnyMd5
             /\ db.Bundles[id].StorageName # IndexName
  <2>1. \E g : db.Bundles[id] = NewBundle(vf, g)
    BY DEF MakeBundles
  <2>2. PICK g : db.Bundles[id] = NewBundle(vf, g)
    BY <2>1
  <2>3. QED
    BY <2>2 DEF NewBundle, GroupId, BundleName, IndexName
<1>4. QED
  BY <1>1, <1>2, <1>3

UpTo(S, p) == {q \in S : q <= p}

LEMMA RanksExist ==
  ASSUME NEW S \in SUBSET Nat, IsFiniteSet(S), NEW i \in 1..Cardinality(S)
  PROVE  \E p \in S : Cardinality(UpTo(S, p)) = i
<1> DEFINE Good == {n \in Nat : \A T \in SUBSET Nat :
                      IsFiniteSet(T) /\ Cardinality(T) = n
                        => \A j \in 1..n : \E p \in T : Cardinality(UpTo(T, p)) = j}
<1>1. 0 \in Good
  OBVIOUS
<1>2. ASSUME NEW n \in Nat, n \in Good PROVE n + 1 \in Good
  <2>1. SUFFICES ASSUME NEW T \in SUBSET Nat, IsFiniteSet(T), Cardinality(T) = n + 1,
                        NEW j \in 1..(n + 1)
                 PROVE  \E p \in T : Cardinality(UpTo(T, p)) = j
    <3>1. n + 1 \in Nat
      OBVIOUS
    <3>2. QED
      BY <3>1, Zenon
  <2>2. T # {}
    BY <2>1, FS_EmptySet
  <2>3. PICK m \in T : \A q \in T : m <= q
    BY <2>2, LeastOne
  <2> DEFINE R == T \ {m}
  <2>4. IsFiniteSet(R) /\ Cardinality(R) = n
    <3>1. Cardinality(R) = Cardinality(T) - 1 /\ IsFiniteSet(R)
      BY <2>1, <2>3, FS_RemoveElement
    <3>2. QED
      BY <2>1, <3>1
  <2>5. CASE j = 1
    <3>1. UpTo(T, m) = {m}
      <4>1. ASSUME NEW q \in UpTo(T, m) PROVE q = m
        <5>1. q \in T /\ q <= m
          BY DEF UpTo
        <5>2. q \in Nat /\ m \in Nat /\ m <= q
          BY <2>3, <5>1
        <5>3. QED
          BY <5>1, <5>2
      <4>2. m \in Nat /\ m <= m
        BY <2>3
      <4>3. m \in UpTo(T, m)
        BY <2>3, <4>2 DEF UpTo
      <4>4. QED
        BY <4>1, <4>3, Zenon
    <3>2. Cardinality({m}) = 1
      BY FS_Singleton
    <3>3. QED
      BY <2>3, <2>5, <3>1, <3>2, Zenon
  <2>6. CASE j # 1
    <3>1. j - 1 \in 1..n /\ (j - 1) + 1 = j
      BY <2>6
    <3>2. PICK p \in R : Cardinality(UpTo(R, p)) = j - 1
      BY <1>2, <2>4, <3>1
    <3>3. p \in T /\ p \in Nat /\ m <= p /\ m \in Nat
      BY <2>3, <3>2
    <3>4. UpTo(T, p) = UpTo(R, p) \cup {m}
      BY <2>3, <3>3 DEF UpTo
    <3>5. m \notin UpTo(R, p)
      BY DEF UpTo
    <3>6. UpTo(R, p) \in SUBSET R
      BY DEF UpTo
    <3>7. IsFiniteSet(UpTo(R, p))
      BY <2>4, <3>6, FS_Subset
    <3>8. Cardinality(UpTo(T, p)) = Cardinality(UpTo(R, p)) + 1
      BY <3>4, <3>5, <3>7, FS_AddElement
    <3>9. QED
      BY <3>1, <3>2, <3>3, <3>8
  <2>7. QED
    BY <2>5, <2>6
<1>3. Nat \subseteq Good
  <2> HIDE DEF Good
  <2>1. QED
    BY <1>1, <1>2, Induct
<1>4. Cardinality(S) \in Nat
  BY FS_CardinalityType
<1>5. QED
  BY <1>3, <1>4

\* What a sorted list of a set of paths is.
LEMMA AscendingFacts ==
  ASSUME NEW S \in SUBSET Nat, IsFiniteSet(S)
  PROVE  /\ Ascending(S) \in Seq(S) /\ Len(Ascending(S)) = Cardinality(S)
         /\ \A i \in 1..Cardinality(S) :
              Ascending(S)[i] \in S /\ Cardinality(UpTo(S, Ascending(S)[i])) = i
<1> DEFINE rank(p) == Cardinality(UpTo(S, p))
           a == Ascending(S)
           n == Cardinality(S)
<1>1. n \in Nat
  BY FS_CardinalityType
<1>2. a = [i \in 1..n |-> CHOOSE p \in S : rank(p) = i]
  BY Zenon DEF Ascending, UpTo
<1>3. \A i \in 1..n : \E p \in S : rank(p) = i
  BY RanksExist
<1> HIDE DEF rank, a, n
<1>4. \A i \in 1..n : a[i] \in S /\ rank(a[i]) = i
  BY <1>2, <1>3, Zenon
<1>5. a \in [1..n -> S]
  BY <1>2, <1>3, Zenon
<1>6. a \in Seq(S) /\ Len(a) = n
  BY <1>1, <1>5
<1>7. QED
  BY <1>4, <1>6, Zenon DEF rank, a, n

\* Another path of higher rank is larger.
LEMMA RankIsOrder ==
  ASSUME NEW S \in SUBSET Nat, IsFiniteSet(S), NEW p \in S, NEW q \in S
  PROVE  Cardinality(UpTo(S, p)) < Cardinality(UpTo(S, q)) => p < q
<1>1. SUFFICES ASSUME q <= p
               PROVE  ~(Cardinality(UpTo(S, p)) < Cardinality(UpTo(S, q)))
  <2>1. p \in Nat /\ q \in Nat
    OBVIOUS
  <2>2. QED
    BY <2>1
<1>2. UpTo(S, q) \in SUBSET UpTo(S, p) /\ UpTo(S, p) \in SUBSET S
  <2>1. ASSUME NEW x \in UpTo(S, q) PROVE x \in UpTo(S, p)
    <3>1. x \in S /\ x <= q
      BY DEF UpTo
    <3>2. x \in Nat /\ q \in Nat /\ p \in Nat
      BY <3>1
    <3>3. x <= p
      BY <1>1, <3>1, <3>2
    <3>4. QED
      BY <3>1, <3>3 DEF UpTo
  <2>2. UpTo(S, p) \in SUBSET S
    BY DEF UpTo
  <2>3. QED
    BY <2>1, <2>2
<1>3. IsFiniteSet(UpTo(S, p))
  BY <1>2, FS_Subset
<1>4. Cardinality(UpTo(S, q)) <= Cardinality(UpTo(S, p))
  BY <1>2, <1>3, FS_Subset
<1>5. Cardinality(UpTo(S, q)) \in Nat /\ Cardinality(UpTo(S, p)) \in Nat
  BY <1>2, <1>3, FS_Subset, FS_CardinalityType
<1>6. QED
  BY <1>4, <1>5

LEMMA MakeBundlesIsWellFormed ==
  ASSUME NEW D \in SUBSET Path, NEW content, \A p \in D : content[p] \in Seq(Chunk),
         NEW vf, vf = [p \in D |-> ScanFile(content[p])],
         NEW groups \in Groupings(vf),
         NEW db, db = MakeBundles(vf, groups)
  PROVE  WellFormed(db)
<1> USE DEF ScanOf
<1>1. /\ DOMAIN vf = D /\ DOMAIN db.VFiles = D
      /\ \A p \in D : ScanOf(db.VFiles[p], content[p])
                      /\ db.VFiles[p].Parts = vf[p].Parts
  <2>1. DOMAIN db.VFiles = D
    BY MakeBundlesFacts
  <2>2. \A p \in D : ScanOf(db.VFiles[p], content[p])
    BY MakeBundlesFacts
  <2>3. \A p \in D : vf[p] = ScanFile(content[p])
    OBVIOUS
  <2>4. QED
    BY <2>1, <2>2, <2>3
<1>2. \A p \in DOMAIN db.VFiles : \E c \in Seq(Chunk) : ScanOf(db.VFiles[p], c)
  BY <1>1, Zenon
<1>3. Single(vf) = Single(db.VFiles)
  BY <1>1, Zenon DEF Single
<1>9. PICK k \in Nat : \E l :
        groups = [i \in 1..k |-> Ascending({p \in Bundleable(vf) : l[p] = i})]
  <2> DEFINE B == Bundleable(vf)
             lists(k) == {[i \in 1..k |-> Ascending({p \in B : l[p] = i})] :
                            l \in {m \in [B -> 0..k] :
                                     \A i \in 1..k : Cardinality({p \in B : m[p] = i}) > 1}}
  <2>1. Groupings(vf) = UNION {lists(k) : k \in 0..(Cardinality(B) \div 2)}
    BY Zenon DEF Groupings
  <2>2. PICK k \in 0..(Cardinality(B) \div 2) : groups \in lists(k)
    <3> HIDE DEF lists, B
    <3>1. QED
      BY <2>1, Zenon
  <2>3. \E l : groups = [i \in 1..k |-> Ascending({p \in B : l[p] = i})]
    BY <2>2, Zenon
  <2>4. k \in Nat
    OBVIOUS
  <2>5. QED
    BY <2>3, <2>4, Zenon
<1>4. PICK l :
        groups = [i \in 1..k |-> Ascending({p \in Bundleable(vf) : l[p] = i})]
  BY <1>9, Zenon
<1>5. DOMAIN groups = 1..Len(groups) /\ Len(groups) \in Nat
  BY <1>4
<1>6. \A i \in DOMAIN groups : groups[i] \in Seq(Single(vf))
  <2>1. ASSUME NEW i \in 1..k
        PROVE  Ascending({p \in Bundleable(vf) : l[p] = i}) \in Seq(Single(vf))
    <3> DEFINE M == {p \in Bundleable(vf) : l[p] = i}
    <3>1. M \in SUBSET Single(vf) /\ M \in SUBSET Path /\ M \in SUBSET Nat
      BY <1>1, PathAssumption DEF Bundleable, Single
    <3>2. IsFiniteSet(M)
      BY <3>1, PathAssumption, FS_Subset
    <3> HIDE DEF M
    <3>3. Ascending(M) \in Seq(M)
      BY <3>1, <3>2, AscendingFacts
    <3>4. Ascending(M) \in Seq(Single(vf))
      BY <3>1, <3>3, SeqMonotonic
    <3>5. QED
      BY <3>4, Zenon DEF M
  <2>2. QED
    BY <1>4, <2>1, Zenon
<1>7. ASSUME NEW id \in DOMAIN db.Bundles
      PROVE  /\ db.Bundles[id].Content \in Seq(Single(vf))
             /\ db.Bundles[id].StorageName = GroupId(db.VFiles, db.Bundles[id].Content)
             /\ db.Bundles[id].StorageName = id /\ db.Bundles[id].StorageMd5 = AnyMd5
  <2> DEFINE I == {i \in 1..Len(groups) : GroupId(vf, groups[i]) = id}
             last == SelectLastInSeq(groups, LAMBDA g : GroupId(vf, g) = id)
             g == groups[last]
  <2>1. id \in {GroupId(vf, groups[i]) : i \in DOMAIN groups}
        /\ db.Bundles[id] = NewBundle(vf, g)
    BY Zenon DEF MakeBundles
  <2>2. I # {} /\ I \in SUBSET (1..Len(groups))
    BY <1>5, <2>1
  <2>3. last = Max(I)
    BY <2>2, Zenon DEF SelectLastInSeq
  <2>4. last \in I
    BY <1>5, <2>2, <2>3, MaxIsElement
  <2>5. g \in Seq(Single(vf))
    BY <1>5, <1>6, <2>4
  <2>9. GroupId(vf, g) = id
    BY <2>4
  <2> HIDE DEF g
  <2>6. /\ db.Bundles[id].Content = g /\ db.Bundles[id].StorageName = GroupId(vf, g)
        /\ db.Bundles[id].StorageMd5 = AnyMd5
    BY <2>1 DEF NewBundle
  <2>7. GroupId(vf, g) = GroupId(db.VFiles, g)
    <3>1. ASSUME NEW i \in 1..Len(g) PROVE g[i] \in D
      <4>1. g[i] \in Single(vf)
        BY <2>5
      <4>2. QED
        BY <1>1, <4>1, Zenon DEF Single
    <3>2. QED
      BY <1>1, <3>1, Zenon DEF GroupId
  <2>8. QED
    BY <2>5, <2>6, <2>7, <2>9, Zenon
<1>8. QED
  BY <1>2, <1>3, <1>7, Zenon DEF WellFormed

LEMMA SnapshotIsWellFormed ==
  ASSUME NEW db, IsSnapshot(db)
  PROVE  /\ WellFormed(db)
         /\ db = [VFiles |-> db.VFiles, Bundles |-> db.Bundles]
         /\ \A part \in AllDbParts(db) : part.StorageName # IndexName
<1> DEFINE folder == FolderOf(db)
           D == DOMAIN folder
           vf == [p \in D |-> ScanFile(folder[p])]
<1>1. /\ D \in SUBSET Path
      /\ \A p \in D : folder[p] \in Seq(Chunk)
      /\ \E groups \in Groupings(vf) : db = MakeBundles(vf, groups)
  BY Zenon DEF IsSnapshot
<1> HIDE DEF folder
<1>2. PICK groups \in Groupings(vf) : db = MakeBundles(vf, groups)
  BY <1>1
<1>3. WellFormed(db)
  BY <1>1, <1>2, MakeBundlesIsWellFormed, Zenon
<1>4. db = [VFiles |-> db.VFiles, Bundles |-> db.Bundles]
  BY <1>2 DEF MakeBundles
<1>5. ASSUME NEW p \in DOMAIN db.VFiles, NEW part \in ToSet(db.VFiles[p].Parts)
      PROVE  part.StorageName # IndexName
  <2>1. PICK content \in Seq(Chunk) : ScanOf(db.VFiles[p], content)
    BY <1>3, Zenon DEF WellFormed
  <2>2. PICK i \in 1..Len(content) :
          part = VFilePart(content[i], UseCompression(content))
    BY <1>5, <2>1, ScanParts DEF ToSet
  <2>3. part.StorageName = PartName(content[i])
    BY <2>2 DEF VFilePart
  <2>4. PartName(content[i]) # IndexName
    BY DEF PartName, IndexName
  <2>5. QED
    BY <2>3, <2>4, Zenon
<1>6. ASSUME NEW id \in DOMAIN db.Bundles
      PROVE  AsPart(db.Bundles[id]).StorageName # IndexName
  <2>1. db.Bundles[id].StorageName # IndexName
    BY <1>2, MakeBundlesFacts
  <2>2. QED
    BY <2>1 DEF AsPart
<1>7. QED
  <2>1. ASSUME NEW part \in AllDbParts(db) PROVE part.StorageName # IndexName
    BY <1>5, <1>6, Zenon DEF AllDbParts
  <2>2. QED
    BY <1>3, <1>4, <2>1, Zenon

=============================================================================
