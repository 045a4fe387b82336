------------------------------ MODULE DbProofs ------------------------------
(***************************************************************************)
(* Package db, for all folders, contents, sizes and bounds.                *)
(*                                                                         *)
(* MakeBundles: whatever the order of the range over the map, it keeps the *)
(* promise the other modules rely on, and forgets no file.                 *)
(*                                                                         *)
(* FromScan: a scan that nobody disturbs is exact, and one that finds no   *)
(* change is right, after any scans that were disturbed or broken.         *)
(***************************************************************************)
EXTENDS ScanFolder, Bundles, OpenFileProofs

-----------------------------------------------------------------------------
(***************************************************************************)
(* Folds in a set A: G is one round of the fold, and the fold a recursion  *)
(* over the sets of indexes that are left.                                 *)
(***************************************************************************)
Round(g, G, base, s) == IF s = {} THEN base ELSE G[<<g[s \ {Max(s)}], Max(s)>>]

IsRound(G, A, n) == G \in [A \X (1..n) -> A]

Rounds(g, A, G, base, n) ==
  /\ g \in [SUBSET (1..n) -> A]
  /\ \A s \in SUBSET (1..n) : g[s] = Round(g, G, base, s)

LEMMA RoundsExist ==
  ASSUME NEW A, NEW n \in Nat, NEW G, IsRound(G, A, n), NEW base \in A
  PROVE  \E g : Rounds(g, A, G, base, n)
<1> DEFINE Good(m) == \E g \in [SUBSET (1..m) -> A] :
                        \A s \in SUBSET (1..m) : g[s] = Round(g, G, base, s)
           S == {m \in Nat : m <= n => Good(m)}
<1>0. G \in [A \X (1..n) -> A]
  BY DEF IsRound
<1>1. 0 \in S
  <2> DEFINE g == [s \in SUBSET (1..0) |-> base]
  <2>1. \A s \in SUBSET (1..0) : s = {}
    OBVIOUS
  <2>2. g \in [SUBSET (1..0) -> A] /\ \A s \in SUBSET (1..0) : g[s] = base
    BY Zenon
  <2> HIDE DEF g
  <2>3. \A s \in SUBSET (1..0) : g[s] = Round(g, G, base, s)
    BY <2>1, <2>2, Zenon DEF Round
  <2>4. QED
    BY <2>2, <2>3
<1>2. ASSUME NEW m \in Nat, m \in S PROVE m + 1 \in S
  <2> HIDE DEF Good
  <2>1. SUFFICES ASSUME m + 1 <= n PROVE Good(m + 1)
    OBVIOUS
  <2>2. Good(m)
    BY <1>2, <2>1
  <2> USE DEF Good
  <2>3. PICK g \in [SUBSET (1..m) -> A] :
          \A s \in SUBSET (1..m) : g[s] = Round(g, G, base, s)
    BY <2>2
  <2> DEFINE h == [s \in SUBSET (1..(m + 1)) |->
                     IF m + 1 \in s THEN G[<<g[s \ {m + 1}], m + 1>>] ELSE g[s]]
  <2>4. \A s \in SUBSET (1..(m + 1)) :
          s \ {m + 1} \in SUBSET (1..m) /\ (m + 1 \notin s => s \in SUBSET (1..m))
    OBVIOUS
  <2>5. h \in [SUBSET (1..(m + 1)) -> A]
    <3>1. ASSUME NEW s \in SUBSET (1..(m + 1)) PROVE h[s] \in A
      <4>1. m + 1 \in 1..n
        BY <2>1
      <4>2. g[s \ {m + 1}] \in A /\ (m + 1 \notin s => g[s] \in A)
        BY <2>3, <2>4, Zenon
      <4>3. <<g[s \ {m + 1}], m + 1>> \in A \X (1..n)
        BY <4>1, <4>2, Zenon
      <4>4. QED
        BY <1>0, <4>2, <4>3, Zenon
    <3>2. QED
      BY <3>1, Zenon
  <2>6. ASSUME NEW s \in SUBSET (1..(m + 1)) PROVE h[s] = Round(h, G, base, s)
    <3>1. CASE m + 1 \in s
      <4>1. s # {} /\ m + 1 \in Nat
        BY <3>1
      <4>2. Max(s) \in s /\ \A y \in s : Max(s) >= y
        BY <4>1, MaxIsElement
      <4>3. Max(s) = m + 1
        <5>1. Max(s) \in 1..(m + 1) /\ Max(s) >= m + 1
          BY <3>1, <4>2, Zenon
        <5>2. QED
          BY <5>1
      <4>4. s \ {m + 1} \in SUBSET (1..(m + 1)) /\ m + 1 \notin s \ {m + 1}
        OBVIOUS
      <4>5. h[s \ {m + 1}] = g[s \ {m + 1}]
        BY <4>4, Zenon
      <4>6. h[s] = G[<<g[s \ {m + 1}], m + 1>>]
        BY <3>1, Zenon
      <4>7. QED
        BY <4>1, <4>3, <4>5, <4>6, Zenon DEF Round
    <3>2. CASE m + 1 \notin s
      <4>1. g[s] = Round(g, G, base, s)
        BY <2>3, <2>4, <3>2, Zenon
      <4>2. h[s] = g[s]
        BY <3>2, Zenon
      <4>3. s \ {Max(s)} \in SUBSET (1..(m + 1)) /\ m + 1 \notin s \ {Max(s)}
        BY <3>2, Zenon
      <4>4. h[s \ {Max(s)}] = g[s \ {Max(s)}]
        BY <4>3, Zenon
      <4>5. QED
        BY <4>1, <4>2, <4>4, Zenon DEF Round
    <3>3. QED
      BY <3>1, <3>2
  <2> HIDE DEF h
  <2>7. QED
    BY <2>5, <2>6
<1>3. Nat \subseteq S
  <2> HIDE DEF S
  <2>1. QED
    BY <1>1, <1>2, Induct
<1>4. n \in S /\ n <= n
  <2> HIDE DEF S
  <2> QED
    BY <1>3
<1>5. QED
  BY <1>4, Zenon DEF Rounds

\* The values of a fold, one element after the other.
Steps(f, A, G, base, n) ==
  /\ f \in [0..n -> A] /\ f[0] = base
  /\ \A i \in 1..n : f[i] = G[<<f[i - 1], i>>]

LEMMA RoundsAreSteps ==
  ASSUME NEW A, NEW n \in Nat, NEW G, IsRound(G, A, n), NEW base \in A,
         NEW g, g[{}] = base,
         \A s \in SUBSET (1..n) :
           s # {} /\ g[s \ {Max(s)}] \in A => g[s] = Round(g, G, base, s)
  PROVE  Steps([k \in 0..n |-> g[1..k]], A, G, base, n)
<1> DEFINE f == [k \in 0..n |-> g[1..k]]
<1>1. 1..0 = {} /\ 0 \in 0..n
  OBVIOUS
<1>2. f[0] = base
  BY <1>1, Zenon
<1>3. ASSUME NEW i \in 1..n, f[i - 1] \in A PROVE f[i] = G[<<f[i - 1], i>>]
  <2>1. 1..i \in SUBSET (1..n) /\ 1..i # {}
    OBVIOUS
  <2>2. Max(1..i) \in 1..i /\ \A y \in 1..i : Max(1..i) >= y
    BY <2>1, MaxIsElement
  <2>3. Max(1..i) = i
    BY <2>2
  <2>4. (1..i) \ {i} = 1..(i - 1) /\ i \in 0..n /\ i - 1 \in 0..n
    OBVIOUS
  <2>5. f[i] = g[1..i] /\ f[i - 1] = g[1..(i - 1)]
    BY <2>4, Zenon
  <2>6. g[1..i] = Round(g, G, base, 1..i)
    BY <1>3, <2>1, <2>3, <2>4, <2>5, Zenon
  <2>7. QED
    BY <2>1, <2>3, <2>4, <2>5, <2>6, Zenon DEF Round
<1> DEFINE S == {k \in Nat : k <= n => f[k] \in A}
<1>4. f = [k \in 0..n |-> f[k]]
  BY Zenon
<1> HIDE DEF f
<1>5. 0 \in S
  BY <1>2
<1>6. ASSUME NEW k \in Nat, k \in S PROVE k + 1 \in S
  <2>1. SUFFICES ASSUME k + 1 <= n PROVE f[k + 1] \in A
    OBVIOUS
  <2>2. k + 1 \in 1..n /\ (k + 1) - 1 = k /\ f[k] \in A
    BY <1>6, <2>1
  <2>3. f[k + 1] = G[<<f[k], k + 1>>]
    BY <1>3, <2>2
  <2>4. <<f[k], k + 1>> \in A \X (1..n)
    BY <2>2, Zenon
  <2>5. QED
    BY <2>3, <2>4, Zenon DEF IsRound
<1>7. Nat \subseteq S
  <2> HIDE DEF S
  <2>1. QED
    BY <1>5, <1>6, Induct
<1>8. \A k \in 0..n : f[k] \in A
  BY <1>7
<1>9. f \in [0..n -> A]
  BY <1>4, <1>8, Zenon
<1>10. \A i \in 1..n : f[i] = G[<<f[i - 1], i>>]
  <2>1. \A i \in 1..n : i - 1 \in 0..n
    OBVIOUS
  <2>2. QED
    BY <1>3, <1>8, <2>1, Zenon
<1>11. QED
  BY <1>2, <1>9, <1>10, Zenon DEF Steps, f

-----------------------------------------------------------------------------
(***************************************************************************)
(* Only keeps some elements of a list, in their order.                     *)
(***************************************************************************)
LEMMA OnlyIsFold ==
  ASSUME NEW E, NEW s \in Seq(E), NEW S
  PROVE  \E f \in [0..Len(s) -> Seq(E)] :
           /\ f[0] = << >> /\ f[Len(s)] = Only(s, S)
           /\ \A i \in 1..Len(s) : f[i] = IF s[i] \in S THEN Append(f[i - 1], s[i])
                                                   ELSE f[i - 1]
<1> DEFINE A == Seq(E)
           n == Len(s)
           none == << >>
           next(kept, x) == IF x \in S THEN Append(kept, x) ELSE kept
           G == [x \in A \X (1..n) |-> next(x[1], s[x[2]])]
           step(g) == [t \in SUBSET (1..n) |->
                         IF t = {} THEN none
                         ELSE next(g[t \ {Max(t)}], s[Max(t)])]
           iter == CHOOSE g : g = step(g)
<1>0. n \in Nat /\ DOMAIN s = 1..n
  OBVIOUS
<1>1. Only(s, S) = iter[1..n]
  BY <1>0, Zenon DEF Only, FoldLeft, MapThenFoldSet
<1>2. IsRound(G, A, n) /\ none \in A
  <2>1. ASSUME NEW x \in A \X (1..n) PROVE next(x[1], s[x[2]]) \in A
    <3>1. x[1] \in Seq(E) /\ s[x[2]] \in E
      OBVIOUS
    <3>2. QED
      BY <3>1
  <2>2. none \in A
    OBVIOUS
  <2> HIDE DEF next, A, none
  <2>3. QED
    BY <2>1, <2>2, Zenon DEF IsRound
<1>3. ASSUME NEW a \in A, NEW i \in 1..n PROVE G[<<a, i>>] = next(a, s[i])
  <2>1. <<a, i>> \in A \X (1..n) /\ <<a, i>>[1] = a /\ <<a, i>>[2] = i
    OBVIOUS
  <2> HIDE DEF next, A
  <2>2. QED
    BY <2>1, Zenon
<1> HIDE DEF A, G, next, none, n
<1>4. PICK g : Rounds(g, A, G, none, n)
  BY <1>0, <1>2, RoundsExist, Zenon
<1>5. \A t \in SUBSET (1..n) :
        t # {} => Max(t) \in 1..n /\ t \ {Max(t)} \in SUBSET (1..n)
  BY <1>0, MaxIsElement
<1>6. g = step(g)
  <2>1. ASSUME NEW t \in SUBSET (1..n)
        PROVE  g[t] = IF t = {} THEN none ELSE next(g[t \ {Max(t)}], s[Max(t)])
    <3>1. CASE t = {}
      BY <1>4, <3>1, Zenon DEF Rounds, Round
    <3>2. CASE t # {}
      <4>1. g[t \ {Max(t)}] \in A
        BY <1>4, <1>5, <3>2, Zenon DEF Rounds
      <4>2. QED
        BY <1>3, <1>4, <1>5, <3>2, <4>1, Zenon DEF Rounds, Round
    <3>3. QED
      BY <3>1, <3>2, Zenon
  <2>2. QED
    BY <1>4, <2>1, Zenon DEF Rounds
<1>7. iter = step(iter)
  BY <1>6, Zenon
<1> HIDE DEF iter
<1>8. {} \in SUBSET (1..n)
  OBVIOUS
<1>9. iter[{}] = none
  BY <1>7, <1>8, Zenon
<1>10. ASSUME NEW t \in SUBSET (1..n), t # {}, iter[t \ {Max(t)}] \in A
       PROVE  iter[t] = Round(iter, G, none, t)
  <2>1. iter[t] = next(iter[t \ {Max(t)}], s[Max(t)])
    BY <1>7, <1>10, Zenon
  <2>2. QED
    BY <1>3, <1>5, <1>10, <2>1, Zenon DEF Round
<1> DEFINE f == [k \in 0..n |-> iter[1..k]]
<1>11. Steps(f, A, G, none, n)
  BY <1>0, <1>2, <1>9, <1>10, RoundsAreSteps, Zenon
<1>12. f[n] = Only(s, S)
  <2>1. n \in 0..n
    BY <1>0
  <2>2. QED
    BY <1>1, <2>1, Zenon
<1> HIDE DEF f
<1>13. ASSUME NEW i \in 1..n PROVE f[i] = next(f[i - 1], s[i])
  <2>1. i - 1 \in 0..n
    BY <1>0
  <2>2. f[i - 1] \in A /\ f[i] = G[<<f[i - 1], i>>]
    BY <1>11, <2>1, Zenon DEF Steps
  <2>3. QED
    BY <1>3, <2>2, Zenon
<1>14. f \in [0..n -> A] /\ f[0] = none
  BY <1>11, Zenon DEF Steps
<1>15. QED
  BY <1>12, <1>13, <1>14, Zenon DEF A, next, none, n

-----------------------------------------------------------------------------
(***************************************************************************)
(* Lists whose elements stand in a relation to all that follow: ascending  *)
(* paths, or groups without a common file.                                 *)
(***************************************************************************)
Related(s, R) == \A i, j \in DOMAIN s : i < j => <<s[i], s[j]>> \in R

LEMMA SeqFacts ==
  ASSUME NEW E, NEW s \in Seq(E)
  PROVE  /\ Len(s) \in Nat /\ DOMAIN s = 1..Len(s) /\ s \in [1..Len(s) -> E]
         /\ ToSet(s) = {s[i] : i \in 1..Len(s)} /\ ToSet(s) \in SUBSET E
<1>1. Len(s) \in Nat /\ DOMAIN s = 1..Len(s) /\ s \in [1..Len(s) -> E]
  OBVIOUS
<1>2. ToSet(s) = {s[i] : i \in 1..Len(s)}
  BY <1>1, Zenon DEF ToSet
<1>3. \A i \in 1..Len(s) : s[i] \in E
  BY <1>1, Zenon
<1>4. QED
  BY <1>1, <1>2, <1>3, Zenon

LEMMA AppendFacts ==
  ASSUME NEW E, NEW s \in Seq(E), NEW x \in E
  PROVE  /\ Append(s, x) \in Seq(E) /\ Len(Append(s, x)) = Len(s) + 1
         /\ \A i \in 1..Len(s) : Append(s, x)[i] = s[i]
         /\ Append(s, x)[Len(s) + 1] = x
         /\ ToSet(Append(s, x)) = ToSet(s) \cup {x}
<1> DEFINE t == Append(s, x)
           n == Len(s)
<1>1. n \in Nat /\ ToSet(s) = {s[i] : i \in 1..n}
  BY SeqFacts, Zenon
<1>2. /\ t \in Seq(E) /\ Len(t) = n + 1
      /\ \A i \in 1..n : t[i] = s[i]
      /\ t[n + 1] = x
  OBVIOUS
<1> HIDE DEF t, n
<1>3. ToSet(t) = {t[i] : i \in 1..(n + 1)}
  BY <1>2, SeqFacts, Zenon
<1>4. n + 1 \in 1..(n + 1)
      /\ \A i : i \in 1..(n + 1) <=> (i \in 1..n \/ i = n + 1)
  BY <1>1
<1>5. ToSet(t) = ToSet(s) \cup {x}
  <2>1. \A y : y \in ToSet(t) <=> \E i \in 1..(n + 1) : y = t[i]
    BY <1>3, Zenon
  <2>2. \A y : y \in ToSet(s) <=> \E i \in 1..n : y = s[i]
    BY <1>1, Zenon
  <2>3. \A y : y \in ToSet(t) <=> (y \in ToSet(s) \/ y = x)
    <3>1. ASSUME NEW y \in ToSet(t) PROVE y \in ToSet(s) \/ y = x
      <4>1. PICK i \in 1..(n + 1) : y = t[i]
        BY <2>1, Zenon
      <4>2. CASE i \in 1..n
        BY <1>2, <2>2, <4>1, <4>2, Zenon
      <4>3. CASE i = n + 1
        BY <1>2, <4>1, <4>3, Zenon
      <4>4. QED
        BY <1>4, <4>2, <4>3, Zenon
    <3>2. ASSUME NEW y \in ToSet(s) PROVE y \in ToSet(t)
      <4>1. PICK i \in 1..n : y = s[i]
        BY <2>2, Zenon
      <4>2. i \in 1..(n + 1) /\ y = t[i]
        BY <1>2, <1>4, <4>1, Zenon
      <4>3. QED
        BY <2>1, <4>2, Zenon
    <3>3. x \in ToSet(t)
      BY <1>2, <1>4, <2>1, Zenon
    <3>4. QED
      BY <3>1, <3>2, <3>3, Zenon
  <2>4. QED
    BY <2>3, Zenon
<1>6. QED
  BY <1>2, <1>5, Zenon DEF t, n

LEMMA AppendRelated ==
  ASSUME NEW E, NEW s \in Seq(E), NEW x \in E, NEW R, Related(s, R),
         \A y \in ToSet(s) : <<y, x>> \in R
  PROVE  Related(Append(s, x), R)
<1> DEFINE t == Append(s, x)
           n == Len(s)
<1>1. /\ n \in Nat /\ DOMAIN s = 1..n /\ ToSet(s) = {s[i] : i \in 1..n}
      /\ t \in Seq(E) /\ Len(t) = n + 1
      /\ \A i \in 1..n : t[i] = s[i]
      /\ t[n + 1] = x
  <2>1. n \in Nat /\ DOMAIN s = 1..n /\ ToSet(s) = {s[i] : i \in 1..n}
    BY SeqFacts, Zenon
  <2>2. /\ t \in Seq(E) /\ Len(t) = n + 1
        /\ \A i \in 1..n : t[i] = s[i]
        /\ t[n + 1] = x
    OBVIOUS
  <2>3. QED
    BY <2>1, <2>2, Zenon
<1> HIDE DEF t, n
<1>2. DOMAIN t = 1..(n + 1)
  BY <1>1, SeqFacts, Zenon
<1>3. ASSUME NEW i \in 1..(n + 1), NEW j \in 1..(n + 1), i < j
      PROVE  <<t[i], t[j]>> \in R
  <2>1. CASE j = n + 1
    <3>1. i \in 1..n
      BY <1>1, <1>3, <2>1
    <3>2. s[i] \in ToSet(s) /\ t[i] = s[i] /\ t[j] = x
      BY <1>1, <2>1, <3>1, Zenon
    <3>3. QED
      BY <3>2, Zenon
  <2>2. CASE j # n + 1
    <3>1. i \in 1..n /\ j \in 1..n
      BY <1>1, <1>3, <2>2
    <3>2. <<s[i], s[j]>> \in R
      BY <1>1, <1>3, <3>1, Zenon DEF Related
    <3>3. QED
      BY <1>1, <3>1, <3>2, Zenon
  <2>3. QED
    BY <2>1, <2>2, Zenon
<1>4. QED
  BY <1>2, <1>3, Zenon DEF Related, t

LEMMA OnlyFacts ==
  ASSUME NEW E, NEW s \in Seq(E), NEW S, NEW R, Related(s, R)
  PROVE  /\ Only(s, S) \in Seq(E)
         /\ ToSet(Only(s, S)) = ToSet(s) \cap S
         /\ Related(Only(s, S), R)
<1> DEFINE n == Len(s)
<1>1. n \in Nat /\ DOMAIN s = 1..n /\ s \in [1..n -> E]
      /\ ToSet(s) = {s[i] : i \in 1..n}
  BY SeqFacts
<1>2. PICK f \in [0..n -> Seq(E)] :
        /\ f[0] = << >> /\ f[n] = Only(s, S)
        /\ \A i \in 1..n : f[i] = IF s[i] \in S THEN Append(f[i - 1], s[i])
                                                ELSE f[i - 1]
  BY OnlyIsFold
<1> HIDE DEF n
<1> DEFINE Upto(k) == {s[i] : i \in 1..k}
           Good(k) == ToSet(f[k]) = Upto(k) \cap S /\ Related(f[k], R)
           K == {k \in Nat : k <= n => Good(k)}
<1>3. 0 \in K
  <2>1. f[0] = << >> /\ DOMAIN f[0] = {} /\ 1..0 = {}
    BY <1>2
  <2>2. Good(0)
    BY <2>1, Zenon DEF ToSet, Related
  <2> HIDE DEF Good
  <2>3. QED
    BY <2>2
<1>4. ASSUME NEW k \in Nat, k \in K PROVE k + 1 \in K
  <2> HIDE DEF Good
  <2>1. SUFFICES ASSUME k + 1 <= n PROVE Good(k + 1)
    OBVIOUS
  <2>2. Good(k) /\ k + 1 \in 1..n /\ k \in 0..n /\ (k + 1) - 1 = k
    BY <1>1, <1>4, <2>1
  <2> DEFINE x == s[k + 1]
             kept == f[k]
  <2>3. x \in E /\ kept \in Seq(E)
    BY <1>1, <1>2, <2>2, Zenon
  <2>4. f[k + 1] = IF x \in S THEN Append(kept, x) ELSE kept
    BY <1>2, <2>2, Zenon
  <2>5. ToSet(kept) = Upto(k) \cap S /\ Related(kept, R)
    BY <2>2, Zenon DEF Good
  <2>6. Upto(k + 1) = Upto(k) \cup {x}
    <3>1. \A i : i \in 1..(k + 1) <=> (i \in 1..k \/ i = k + 1)
      OBVIOUS
    <3>2. QED
      BY <3>1, Zenon
  <2>7. ASSUME NEW y \in Upto(k) PROVE <<y, x>> \in R
    <3>1. PICK i \in 1..k : y = s[i]
      BY <2>7, Zenon
    <3>2. i \in 1..n /\ i < k + 1
      BY <1>1, <2>1
    <3>3. QED
      BY <1>1, <2>2, <3>1, <3>2, Zenon DEF Related
  <2> HIDE DEF Upto, x, kept
  <2>8. CASE x \in S
    <3>1. f[k + 1] = Append(kept, x)
      BY <2>4, <2>8, Zenon
    <3>2. ToSet(f[k + 1]) = ToSet(kept) \cup {x}
      BY <2>3, <3>1, AppendFacts
    <3>3. Related(f[k + 1], R)
      BY <2>3, <2>5, <2>7, <3>1, AppendRelated, Zenon
    <3>4. QED
      BY <2>5, <2>6, <2>8, <3>2, <3>3, Zenon DEF Good
  <2>9. CASE x \notin S
    <3>1. f[k + 1] = kept
      BY <2>4, <2>9, Zenon
    <3>2. QED
      BY <2>5, <2>6, <2>9, <3>1, Zenon DEF Good
  <2>10. QED
    BY <2>8, <2>9, Zenon
<1>5. Nat \subseteq K
  <2> HIDE DEF K
  <2>1. QED
    BY <1>3, <1>4, Induct
<1>6. n \in K /\ n <= n /\ n \in 0..n
  <2> HIDE DEF K
  <2>1. QED
    BY <1>1, <1>5
<1>7. Good(n)
  <2> HIDE DEF Good
  <2>1. QED
    BY <1>6, Zenon
<1>8. ToSet(f[n]) = ToSet(s) \cap S /\ Related(f[n], R)
  BY <1>1, <1>7, Zenon
<1> HIDE DEF Good
<1>9. f[n] = Only(s, S) /\ f[n] \in Seq(E)
  BY <1>2, <1>6, Zenon
<1>10. QED
  BY <1>8, <1>9, Zenon

LEMMA ConcatFacts ==
  ASSUME NEW E, NEW s \in Seq(E), NEW t \in Seq(E)
  PROVE  s \o t \in Seq(E) /\ ToSet(s \o t) = ToSet(s) \cup ToSet(t)
<1> DEFINE u == s \o t
           m == Len(s)
           n == Len(t)
<1>1. /\ m \in Nat /\ n \in Nat /\ u \in Seq(E) /\ Len(u) = m + n
      /\ \A i \in 1..m : u[i] = s[i]
      /\ \A i \in 1..n : u[m + i] = t[i]
  OBVIOUS
<1>2. /\ \A y : y \in ToSet(s) <=> \E i \in 1..m : y = s[i]
      /\ \A y : y \in ToSet(t) <=> \E i \in 1..n : y = t[i]
  <2>1. ToSet(s) = {s[i] : i \in 1..m} /\ ToSet(t) = {t[i] : i \in 1..n}
    BY SeqFacts
  <2>2. QED
    BY <2>1, Zenon
<1> HIDE DEF u, m, n
<1>3. \A y : y \in ToSet(u) <=> \E i \in 1..(m + n) : y = u[i]
  <2>1. ToSet(u) = {u[i] : i \in 1..(m + n)}
    BY <1>1, SeqFacts
  <2>2. QED
    BY <2>1, Zenon
<1>4. ASSUME NEW y \in ToSet(u) PROVE y \in ToSet(s) \/ y \in ToSet(t)
  <2>1. PICK i \in 1..(m + n) : y = u[i]
    BY <1>3, Zenon
  <2>2. CASE i \in 1..m
    BY <1>1, <1>2, <2>1, <2>2, Zenon
  <2>3. CASE i \notin 1..m
    <3>1. i - m \in 1..n /\ m + (i - m) = i
      BY <1>1, <2>3
    <3>2. y = t[i - m]
      BY <1>1, <2>1, <3>1, Zenon
    <3>3. QED
      BY <1>2, <3>1, <3>2, Zenon
  <2>4. QED
    BY <2>2, <2>3, Zenon
<1>5. ASSUME NEW y \in ToSet(s) PROVE y \in ToSet(u)
  <2>1. PICK i \in 1..m : y = s[i]
    BY <1>2, Zenon
  <2>2. i \in 1..(m + n)
    BY <1>1
  <2>3. QED
    BY <1>1, <1>3, <2>1, <2>2, Zenon
<1>6. ASSUME NEW y \in ToSet(t) PROVE y \in ToSet(u)
  <2>1. PICK i \in 1..n : y = t[i]
    BY <1>2, Zenon
  <2>2. m + i \in 1..(m + n)
    BY <1>1
  <2>3. QED
    BY <1>1, <1>3, <2>1, <2>2, Zenon
<1>7. ToSet(u) = ToSet(s) \cup ToSet(t)
  BY <1>4, <1>5, <1>6, Zenon
<1>8. QED
  BY <1>1, <1>7, Zenon DEF u

LEMMA ConcatRelated ==
  ASSUME NEW E, NEW s \in Seq(E), NEW t \in Seq(E), NEW R,
         Related(s, R), Related(t, R),
         \A x \in ToSet(s), y \in ToSet(t) : <<x, y>> \in R
  PROVE  Related(s \o t, R)
<1> DEFINE u == s \o t
           m == Len(s)
           n == Len(t)
<1>1. /\ m \in Nat /\ n \in Nat /\ u \in Seq(E) /\ DOMAIN u = 1..(m + n)
      /\ DOMAIN s = 1..m /\ DOMAIN t = 1..n
      /\ \A i \in 1..m : u[i] = s[i]
      /\ \A i \in 1..n : u[m + i] = t[i]
  OBVIOUS
<1>2. (\A i \in 1..m : s[i] \in ToSet(s)) /\ (\A i \in 1..n : t[i] \in ToSet(t))
  BY <1>1, Zenon DEF ToSet
<1> HIDE DEF u, m, n
<1>3. ASSUME NEW i \in 1..(m + n), NEW j \in 1..(m + n), i < j
      PROVE  <<u[i], u[j]>> \in R
  <2>1. CASE j \in 1..m
    <3>1. i \in 1..m
      BY <1>1, <1>3, <2>1
    <3>2. <<s[i], s[j]>> \in R
      BY <1>1, <1>3, <2>1, <3>1, Zenon DEF Related
    <3>3. QED
      BY <1>1, <2>1, <3>1, <3>2, Zenon
  <2>2. CASE i \in 1..m /\ j \notin 1..m
    <3>1. j - m \in 1..n /\ m + (j - m) = j
      BY <1>1, <2>2
    <3>2. u[i] = s[i] /\ u[j] = t[j - m]
      BY <1>1, <2>2, <3>1, Zenon
    <3>3. s[i] \in ToSet(s) /\ t[j - m] \in ToSet(t)
      BY <1>2, <2>2, <3>1, Zenon
    <3>4. QED
      BY <3>2, <3>3, Zenon
  <2>3. CASE i \notin 1..m
    <3>1. /\ i - m \in 1..n /\ m + (i - m) = i /\ j - m \in 1..n /\ m + (j - m) = j
          /\ i - m < j - m
      BY <1>1, <1>3, <2>3
    <3>2. u[i] = t[i - m] /\ u[j] = t[j - m]
      BY <1>1, <3>1, Zenon
    <3>3. <<t[i - m], t[j - m]>> \in R
      BY <1>1, <3>1, Zenon DEF Related
    <3>4. QED
      BY <3>2, <3>3, Zenon
  <2>4. QED
    BY <2>1, <2>2, <2>3, Zenon
<1>4. QED
  BY <1>1, <1>3, Zenon DEF Related, u

-----------------------------------------------------------------------------
(***************************************************************************)
(* A list of lists, one after the other.                                   *)
(***************************************************************************)
LEMMA FlattenIsFold ==
  ASSUME NEW E, NEW seqs \in Seq(Seq(E))
  PROVE  \E f \in [0..Len(seqs) -> Seq(E)] :
           /\ f[0] = << >> /\ f[Len(seqs)] = FlattenSeq(seqs)
           /\ \A i \in 1..Len(seqs) : f[i] = f[i - 1] \o seqs[i]
<1> DEFINE A == Seq(E)
           n == Len(seqs)
           none == << >>
           G == [x \in A \X (1..n) |-> x[1] \o seqs[x[2]]]
<1>1. n \in Nat /\ DOMAIN seqs = 1..n /\ \A i \in 1..n : seqs[i] \in A
  OBVIOUS
<1>2. IsRound(G, A, n) /\ none \in A
  <2>1. ASSUME NEW x \in A \X (1..n) PROVE x[1] \o seqs[x[2]] \in A
    <3>1. x[1] \in Seq(E) /\ seqs[x[2]] \in Seq(E)
      OBVIOUS
    <3>2. QED
      BY <3>1
  <2>2. none \in A
    OBVIOUS
  <2> HIDE DEF A, none, n
  <2>3. QED
    BY <2>1, <2>2, Zenon DEF IsRound
<1>3. ASSUME NEW a \in A, NEW i \in 1..n PROVE G[<<a, i>>] = a \o seqs[i]
  <2>1. <<a, i>> \in A \X (1..n) /\ <<a, i>>[1] = a /\ <<a, i>>[2] = i
    OBVIOUS
  <2> HIDE DEF A, n
  <2>2. QED
    BY <2>1, Zenon
<1>4. none \o seqs[1] = seqs[1] \/ n = 0
  BY <1>1
<1>5. n = 0 => seqs = none
  OBVIOUS
<1> HIDE DEF A, G, n, none
<1>6. PICK g : Rounds(g, A, G, none, n)
  BY <1>1, <1>2, RoundsExist, Zenon
<1>7. {} \in SUBSET (1..n) /\ g[{}] = none
  BY <1>6, Zenon DEF Rounds, Round
<1>8. \A s \in SUBSET (1..n) : g[s] = Round(g, G, none, s)
  BY <1>6, Zenon DEF Rounds
<1> DEFINE f == [k \in 0..n |-> g[1..k]]
<1>9. Steps(f, A, G, none, n)
  BY <1>1, <1>2, <1>7, <1>8, RoundsAreSteps, Zenon
<1> HIDE DEF f
<1>10. f \in [0..n -> A] /\ f[0] = none
  BY <1>9, Zenon DEF Steps
<1>11. ASSUME NEW i \in 1..n PROVE f[i] = f[i - 1] \o seqs[i]
  <2>1. i - 1 \in 0..n
    BY <1>1
  <2>2. f[i - 1] \in A /\ f[i] = G[<<f[i - 1], i>>]
    BY <1>9, <2>1, Zenon DEF Steps
  <2>3. QED
    BY <1>3, <2>2, Zenon
<1>12. f[n] = FlattenSeq(seqs)
  <2>1. CASE n = 0
    <3>1. FlattenSeq(seqs) = seqs
      BY <2>1, Zenon DEF FlattenSeq, n
    <3>2. QED
      BY <1>5, <1>10, <2>1, <3>1, Zenon
  <2>2. CASE n # 0
    <3> DEFINE step(h) == [i \in 1..n |-> IF i = 1 THEN seqs[i] ELSE h[i - 1] \o seqs[i]]
               flatten == CHOOSE h : h = step(h)
               h == [i \in 1..n |-> f[i]]
    <3>1. FlattenSeq(seqs) = flatten[n]
      BY <2>2, Zenon DEF FlattenSeq, n
    <3>2. \A i \in 1..n : f[i] = IF i = 1 THEN seqs[i] ELSE f[i - 1] \o seqs[i]
      <4>1. ASSUME NEW i \in 1..n, i = 1 PROVE f[i] = seqs[i]
        <5>1. f[i] = f[i - 1] \o seqs[i]
          BY <1>11, Zenon
        <5>2. i - 1 = 0
          BY <4>1
        <5>3. QED
          BY <1>4, <1>10, <2>2, <4>1, <5>1, <5>2, Zenon
      <4>2. QED
        BY <1>11, <4>1, Zenon
    <3>3. \A i \in 1..n : i # 1 => i - 1 \in 1..n
      BY <1>1
    <3>4. h = step(h)
      <4>1. \A i \in 1..n : i # 1 => h[i - 1] = f[i - 1]
        BY <3>3, Zenon
      <4>2. \A i \in 1..n : f[i] = IF i = 1 THEN seqs[i] ELSE h[i - 1] \o seqs[i]
        BY <3>2, <4>1, Zenon
      <4>3. QED
        BY <4>2, Zenon
    <3>5. flatten = step(flatten)
      BY <3>4, Zenon
    <3> HIDE DEF flatten, h
    <3> DEFINE S == {i \in Nat : i \in 1..n => flatten[i] = f[i]}
    <3>6. 0 \in S
      OBVIOUS
    <3>7. ASSUME NEW i \in Nat, i \in S PROVE i + 1 \in S
      <4>1. SUFFICES ASSUME i + 1 \in 1..n PROVE flatten[i + 1] = f[i + 1]
        OBVIOUS
      <4> DEFINE j == i + 1
      <4>2. j \in 1..n /\ j - 1 = i /\ (j # 1 => i \in 1..n)
        BY <1>1, <4>1
      <4>3. j # 1 => flatten[j - 1] = f[j - 1]
        BY <3>7, <4>2
      <4> HIDE DEF j
      <4>4. flatten[j] = IF j = 1 THEN seqs[j] ELSE flatten[j - 1] \o seqs[j]
        BY <3>5, <4>2, Zenon
      <4>5. flatten[j] = f[j]
        BY <3>2, <4>2, <4>3, <4>4, Zenon
      <4>6. QED
        BY <4>5, Zenon DEF j
    <3>8. Nat \subseteq S
      <4> HIDE DEF S
      <4>1. QED
        BY <3>6, <3>7, Induct
    <3>9. n \in 1..n
      BY <1>1, <2>2
    <3>10. flatten[n] = f[n]
      BY <1>1, <3>8, <3>9
    <3>11. QED
      BY <3>1, <3>10, Zenon
  <2>3. QED
    BY <2>1, <2>2, Zenon
<1>13. QED
  BY <1>10, <1>11, <1>12, Zenon DEF A, n, none

\* The files of a list of groups.
FilesOf(gs) == UNION {ToSet(gs[i]) : i \in DOMAIN gs}

LEMMA FlattenFacts ==
  ASSUME NEW E, NEW seqs \in Seq(Seq(E)), NEW R,
         \A i \in DOMAIN seqs : Related(seqs[i], R),
         \A i, j \in DOMAIN seqs : i < j =>
           \A x \in ToSet(seqs[i]), y \in ToSet(seqs[j]) : <<x, y>> \in R
  PROVE  /\ FlattenSeq(seqs) \in Seq(E)
         /\ ToSet(FlattenSeq(seqs)) = FilesOf(seqs)
         /\ Related(FlattenSeq(seqs), R)
<1> DEFINE n == Len(seqs)
<1>1. n \in Nat /\ DOMAIN seqs = 1..n /\ \A i \in 1..n : seqs[i] \in Seq(E)
  OBVIOUS
<1>2. PICK f \in [0..n -> Seq(E)] :
        /\ f[0] = << >> /\ f[n] = FlattenSeq(seqs)
        /\ \A i \in 1..n : f[i] = f[i - 1] \o seqs[i]
  BY FlattenIsFold
<1> HIDE DEF n
<1> DEFINE Upto(k) == UNION {ToSet(seqs[i]) : i \in 1..k}
           Good(k) == ToSet(f[k]) = Upto(k) /\ Related(f[k], R)
           K == {k \in Nat : k <= n => Good(k)}
<1>3. 0 \in K
  <2>1. f[0] = << >> /\ DOMAIN f[0] = {} /\ 1..0 = {}
    BY <1>2
  <2>2. Good(0)
    BY <2>1, Zenon DEF ToSet, Related
  <2> HIDE DEF Good
  <2>3. QED
    BY <2>2
<1>4. ASSUME NEW k \in Nat, k \in K PROVE k + 1 \in K
  <2> HIDE DEF Good
  <2>1. SUFFICES ASSUME k + 1 <= n PROVE Good(k + 1)
    OBVIOUS
  <2>2. Good(k) /\ k + 1 \in 1..n /\ k \in 0..n /\ (k + 1) - 1 = k
    BY <1>1, <1>4, <2>1
  <2> DEFINE s == f[k]
             t == seqs[k + 1]
  <2>3. s \in Seq(E) /\ t \in Seq(E) /\ f[k + 1] = s \o t
    BY <1>1, <1>2, <2>2, Zenon
  <2>4. ToSet(s) = Upto(k) /\ Related(s, R) /\ Related(t, R)
    BY <1>1, <2>2, Zenon DEF Good
  <2>5. Upto(k + 1) = Upto(k) \cup ToSet(t)
    <3>1. \A i : i \in 1..(k + 1) <=> (i \in 1..k \/ i = k + 1)
      OBVIOUS
    <3>2. QED
      BY <3>1, Zenon
  <2>6. ASSUME NEW x \in Upto(k), NEW y \in ToSet(t) PROVE <<x, y>> \in R
    <3>1. PICK i \in 1..k : x \in ToSet(seqs[i])
      BY <2>6, Zenon
    <3>2. i \in 1..n /\ i < k + 1
      BY <1>1, <2>1
    <3>3. QED
      BY <1>1, <2>2, <3>1, <3>2, Zenon
  <2> HIDE DEF Upto, s, t
  <2>7. ToSet(s \o t) = ToSet(s) \cup ToSet(t)
    BY <2>3, ConcatFacts
  <2>8. Related(s \o t, R)
    BY <2>3, <2>4, <2>6, ConcatRelated, Zenon
  <2>9. QED
    BY <2>3, <2>4, <2>5, <2>7, <2>8, Zenon DEF Good
<1>5. Nat \subseteq K
  <2> HIDE DEF K
  <2>1. QED
    BY <1>3, <1>4, Induct
<1>6. n \in K /\ n <= n /\ n \in 0..n
  <2> HIDE DEF K
  <2>1. QED
    BY <1>1, <1>5
<1>7. Good(n)
  <2> HIDE DEF Good
  <2>1. QED
    BY <1>6, Zenon
<1>8. ToSet(f[n]) = FilesOf(seqs) /\ Related(f[n], R)
  BY <1>1, <1>7, Zenon DEF FilesOf
<1> HIDE DEF Good
<1>9. f[n] = FlattenSeq(seqs) /\ f[n] \in Seq(E)
  BY <1>2, <1>6, Zenon
<1>10. QED
  BY <1>8, <1>9, Zenon

-----------------------------------------------------------------------------
(***************************************************************************)
(* Groups in path order that share no file.                                *)
(***************************************************************************)
Below == {x \in Path \X Path : x[1] < x[2]}
Apart == {x \in Seq(Path) \X Seq(Path) : ToSet(x[1]) \cap ToSet(x[2]) = {}}

Grouped(gs, E) ==
  /\ gs \in Seq(Seq(E))
  /\ \A i \in DOMAIN gs : Related(gs[i], Below)
  /\ Related(gs, Apart)

LEMMA BelowIsLess ==
  ASSUME NEW p \in Path, NEW q \in Path
  PROVE  <<p, q>> \in Below <=> p < q
  BY DEF Below

LEMMA ApartIsDisjoint ==
  ASSUME NEW E \in SUBSET Path, NEW g \in Seq(E), NEW h \in Seq(E)
  PROVE  <<g, h>> \in Apart <=> ToSet(g) \cap ToSet(h) = {}
<1>1. g \in Seq(Path) /\ h \in Seq(Path)
  BY SeqMonotonic
<1>2. <<g, h>> \in Seq(Path) \X Seq(Path) /\ <<g, h>>[1] = g /\ <<g, h>>[2] = h
  BY <1>1
<1>3. QED
  BY <1>2, Zenon DEF Apart

LEMMA OneMoreGroup ==
  ASSUME NEW E \in SUBSET Path, NEW gs, Grouped(gs, E), NEW g \in Seq(E),
         Related(g, Below), FilesOf(gs) \cap ToSet(g) = {}
  PROVE  /\ Grouped(Append(gs, g), E)
         /\ FilesOf(Append(gs, g)) = FilesOf(gs) \cup ToSet(g)
<1> DEFINE t == Append(gs, g)
           n == Len(gs)
<1>1. gs \in Seq(Seq(E)) /\ Related(gs, Apart)
      /\ \A i \in DOMAIN gs : Related(gs[i], Below)
  BY Zenon DEF Grouped
<1>2. /\ n \in Nat /\ DOMAIN gs = 1..n /\ DOMAIN t = 1..(n + 1) /\ t \in Seq(Seq(E))
      /\ \A i \in 1..n : t[i] = gs[i] /\ gs[i] \in Seq(E)
      /\ t[n + 1] = g
  BY <1>1
<1>3. \A i : i \in 1..(n + 1) <=> (i \in 1..n \/ i = n + 1)
  BY <1>2
<1>4. ASSUME NEW h \in ToSet(gs) PROVE <<h, g>> \in Apart
  <2>1. PICK i \in 1..n : h = gs[i]
    BY <1>2, <1>4, Zenon DEF ToSet
  <2>2. h \in Seq(E) /\ ToSet(h) \cap ToSet(g) = {}
    BY <1>2, <2>1, Zenon DEF FilesOf
  <2>3. QED
    BY <2>2, ApartIsDisjoint
<1>5. Related(t, Apart)
  BY <1>1, <1>4, AppendRelated, Zenon
<1> HIDE DEF t, n
<1>6. \A i \in 1..(n + 1) : Related(t[i], Below)
  BY <1>1, <1>2, <1>3, Zenon
<1>7. FilesOf(t) = FilesOf(gs) \cup ToSet(g)
  <2>1. ASSUME NEW p PROVE p \in FilesOf(t) <=> p \in FilesOf(gs) \/ p \in ToSet(g)
    <3>1. p \in FilesOf(t) <=> \E i \in 1..(n + 1) : p \in ToSet(t[i])
      BY <1>2, Zenon DEF FilesOf
    <3>2. p \in FilesOf(gs) <=> \E i \in 1..n : p \in ToSet(t[i])
      BY <1>2, Zenon DEF FilesOf
    <3>3. QED
      BY <1>2, <1>3, <3>1, <3>2, Zenon
  <2>2. QED
    BY <2>1, Zenon
<1>8. QED
  BY <1>2, <1>5, <1>6, <1>7, Zenon DEF Grouped, t


-----------------------------------------------------------------------------
(***************************************************************************)
(* A list of paths is in path order just when it is Ascending.             *)
(***************************************************************************)
LEMMA AscendingIsSorted ==
  ASSUME NEW S \in SUBSET Path
  PROVE  /\ Ascending(S) \in Seq(S) /\ Related(Ascending(S), Below)
         /\ ToSet(Ascending(S)) = S
<1> DEFINE rank(p) == Cardinality(UpTo(S, p))
           a == Ascending(S)
           n == Cardinality(S)
<1>1. S \in SUBSET Nat /\ IsFiniteSet(S) /\ n \in Nat
  BY PathAssumption, FS_Subset, FS_CardinalityType
<1>2. a \in Seq(S) /\ Len(a) = n /\ \A i \in 1..n : a[i] \in S /\ rank(a[i]) = i
  BY <1>1, AscendingFacts
<1>3. a \in [1..n -> S] /\ DOMAIN a = 1..n /\ ToSet(a) = {a[i] : i \in 1..n}
  BY <1>2, SeqFacts
<1>4. ASSUME NEW i \in 1..n, NEW j \in 1..n, i < j PROVE <<a[i], a[j]>> \in Below
  <2>1. rank(a[i]) < rank(a[j]) /\ a[i] \in S /\ a[j] \in S
    BY <1>2, <1>4, Zenon
  <2> HIDE DEF a
  <2>2. a[i] < a[j]
    BY <1>1, <2>1, RankIsOrder
  <2>3. QED
    BY <2>1, <2>2, BelowIsLess
<1>5. ASSUME NEW i \in 1..n, NEW j \in 1..n, a[i] = a[j] PROVE i = j
  BY <1>2, <1>5, Zenon
<1> HIDE DEF a, n
<1>6. Related(a, Below)
  BY <1>3, <1>4, Zenon DEF Related
<1>7. a \in Injection(1..n, S)
  BY <1>3, <1>5, Zenon DEF Injection, IsInjective
<1>8. IsFiniteSet(1..n) /\ Cardinality(1..n) = n
  BY <1>1, FS_Interval
<1>9. a \in Surjection(1..n, S)
  BY <1>1, <1>7, <1>8, FS_Injection, Zenon DEF n
<1>10. \A x \in S : \E i \in 1..n : a[i] = x
  BY <1>9, Zenon DEF Surjection
<1>11. ToSet(a) = S
  BY <1>3, <1>10, Zenon
<1>12. QED
  BY <1>2, <1>6, <1>11, Zenon DEF a

LEMMA SortedIsAscending ==
  ASSUME NEW E \in SUBSET Path, NEW g \in Seq(E), Related(g, Below)
  PROVE  g = Ascending(ToSet(g)) /\ Len(g) = Cardinality(ToSet(g))
<1> DEFINE n == Len(g)
           T == ToSet(g)
           rank(p) == Cardinality(UpTo(T, p))
           a == Ascending(T)
<1>1. /\ n \in Nat /\ DOMAIN g = 1..n /\ g \in [1..n -> E]
      /\ T = {g[i] : i \in 1..n} /\ T \in SUBSET E
  BY SeqFacts
<1>2. T \in SUBSET Nat /\ IsFiniteSet(T)
  BY <1>1, PathAssumption, FS_Subset
<1> HIDE DEF n, T
<1>3. \A i \in 1..n : g[i] \in T /\ g[i] \in Path /\ g[i] \in Nat
  BY <1>1, <1>2, Zenon
<1>4. \A i, j \in 1..n : i < j => g[i] < g[j]
  BY <1>1, <1>3, BelowIsLess, Zenon DEF Related
<1>5. \A i, j \in 1..n : g[i] <= g[j] <=> i <= j
  <2>1. ASSUME NEW i \in 1..n, NEW j \in 1..n PROVE g[i] <= g[j] <=> i <= j
    <3>1. g[i] \in Nat /\ g[j] \in Nat /\ (i < j => g[i] < g[j]) /\ (j < i => g[j] < g[i])
      BY <1>3, <1>4, Zenon
    <3>2. (i < j \/ j < i \/ i = j) /\ i \in Nat /\ j \in Nat
      BY <1>1
    <3>3. QED
      BY <3>1, <3>2
  <2>2. QED
    BY <2>1, Zenon
<1>6. \A i, j \in 1..n : g[i] = g[j] => i = j
  <2>1. ASSUME NEW i \in 1..n, NEW j \in 1..n, g[i] = g[j] PROVE i = j
    <3>1. g[i] <= g[j] /\ g[j] <= g[i]
      BY <1>3, <2>1
    <3>2. i <= j /\ j <= i
      BY <1>5, <3>1, Zenon
    <3>3. QED
      BY <1>1, <3>2
  <2>2. QED
    BY <2>1, Zenon
<1>7. ASSUME NEW i \in 1..n PROVE rank(g[i]) = i
  <2> DEFINE h == [j \in 1..i |-> g[j]]
             U == UpTo(T, g[i])
  <2>1. \A j \in 1..i : j \in 1..n /\ j <= i
    BY <1>1
  <2>2. \A j \in 1..i : g[j] \in U
    BY <1>3, <1>5, <2>1, Zenon DEF UpTo
  <2>3. h \in [1..i -> U]
    BY <2>2, Zenon
  <2>4. \A j, k \in 1..i : h[j] = h[k] => j = k
    BY <1>6, <2>1, Zenon
  <2>5. ASSUME NEW x \in U PROVE \E j \in 1..i : h[j] = x
    <3>1. x \in T /\ x <= g[i]
      BY Zenon DEF UpTo
    <3>2. PICK j \in 1..n : x = g[j]
      BY <1>1, <3>1, Zenon
    <3>3. j <= i
      BY <1>5, <3>1, <3>2, Zenon
    <3>4. j \in 1..i
      BY <3>3
    <3>5. QED
      BY <3>2, <3>4, Zenon
  <2> HIDE DEF h, U
  <2>6. h \in Bijection(1..i, U)
    BY <2>3, <2>4, <2>5, Zenon DEF Bijection, Injection, Surjection, IsInjective
  <2>7. ExistsBijection(1..i, U)
    BY <2>6, Zenon DEF ExistsBijection
  <2>8. IsFiniteSet(1..i) /\ Cardinality(1..i) = i
    BY FS_Interval
  <2>9. Cardinality(U) = i
    BY <2>7, <2>8, FS_Bijection, Zenon
  <2>10. QED
    BY <2>9, Zenon DEF U
<1>8. Cardinality(T) = n
  <2>1. g \in Bijection(1..n, T)
    <3>1. g \in [1..n -> T]
      BY <1>1, <1>3, Zenon
    <3>2. \A x \in T : \E i \in 1..n : g[i] = x
      BY <1>1, Zenon
    <3>3. QED
      BY <1>6, <3>1, <3>2, Zenon DEF Bijection, Injection, Surjection, IsInjective
  <2>2. ExistsBijection(1..n, T)
    BY <2>1, Zenon DEF ExistsBijection
  <2>3. IsFiniteSet(1..n) /\ Cardinality(1..n) = n
    <3>1. n \in Nat
      BY <1>1
    <3>2. QED
      BY <3>1, FS_Interval
  <2>4. QED
    BY <2>2, <2>3, FS_Bijection, Zenon
<1>9. /\ a \in Seq(T) /\ Len(a) = n
      /\ \A i \in 1..n : a[i] \in T /\ rank(a[i]) = i
  BY <1>2, <1>8, AscendingFacts
<1>10. ASSUME NEW i \in 1..n PROVE a[i] = g[i]
  <2>1. PICK j \in 1..n : a[i] = g[j]
    BY <1>1, <1>9, Zenon
  <2>2. rank(g[j]) = j /\ rank(a[i]) = i
    BY <1>7, <1>9, Zenon
  <2>3. i = j
    BY <2>1, <2>2, Zenon
  <2>4. QED
    BY <2>1, <2>3, Zenon
<1>11. a \in [1..n -> T]
  BY <1>9
<1> HIDE DEF a
<1>12. a = g
  BY <1>1, <1>10, <1>11
<1>13. QED
  BY <1>8, <1>12, Zenon DEF a, n, T


-----------------------------------------------------------------------------
(***************************************************************************)
(* The total size of a group.                                              *)
(***************************************************************************)
SizesIn(size, g) == [i \in 1..Len(g) |-> size[g[i]]]

LEMMA TotalIsSum ==
  ASSUME NEW E, NEW size, \A p \in E : size[p] \in Nat, NEW g \in Seq(E)
  PROVE  \E f : Adds(f, SizesIn(size, g), Len(g)) /\ f[Len(g)] = TotalSize(size, g)
<1> DEFINE n == Len(g)
           w == SizesIn(size, g)
           step(f) == [s \in SUBSET (1..n) |->
                         IF s = {} THEN 0 ELSE f[s \ {Max(s)}] + size[g[Max(s)]]]
           iter == CHOOSE f : f = step(f)
<1>1. DOMAIN g = 1..n /\ n \in Nat /\ \A i \in 1..n : g[i] \in E
  OBVIOUS
<1>2. TotalSize(size, g) = iter[1..n]
  BY <1>1, Zenon DEF TotalSize, FoldLeft, MapThenFoldSet
<1>3. ASSUME NEW f PROVE step(f) = Fold(f, w, n)
  <2>1. ASSUME NEW s \in SUBSET (1..n), s # {} PROVE w[Max(s)] = size[g[Max(s)]]
    <3>1. Max(s) \in 1..n
      BY <1>1, <2>1, MaxIsElement
    <3>2. QED
      BY <3>1, Zenon DEF SizesIn
  <2> HIDE DEF w
  <2>2. QED
    BY <2>1, Zenon DEF Fold
<1> HIDE DEF step
<1>4. \A i \in 1..n : w[i] \in Nat
  BY <1>1, Zenon DEF SizesIn
<1> HIDE DEF w, n
<1>5. PICK h : h = Fold(h, w, n)
  BY <1>1, FoldExists
<1>6. h = step(h)
  BY <1>3, <1>5, Zenon
<1>7. iter = step(iter)
  BY <1>6, Zenon
<1> HIDE DEF iter
<1>8. iter = Fold(iter, w, n)
  BY <1>3, <1>7, Zenon
<1>9. Adds([k \in 0..n |-> iter[1..k]], w, n)
  BY <1>1, <1>4, <1>8, FoldAdds
<1>10. [k \in 0..n |-> iter[1..k]][n] = TotalSize(size, g)
  <2>1. n \in 0..n
    BY <1>1
  <2>2. QED
    BY <1>2, <2>1, Zenon
<1>11. QED
  BY <1>9, <1>10, Zenon DEF w, n

LEMMA TotalSizeFacts ==
  ASSUME NEW E, NEW size, \A p \in E : size[p] \in Nat, NEW g \in Seq(E)
  PROVE  /\ TotalSize(size, g) \in Nat
         /\ g = << >> => TotalSize(size, g) = 0
         /\ \A x \in E : TotalSize(size, Append(g, x)) = TotalSize(size, g) + size[x]
<1> DEFINE n == Len(g)
<1>1. n \in Nat /\ (g = << >> => n = 0) /\ \A i \in 1..n : g[i] \in E
  OBVIOUS
<1>2. PICK f : Adds(f, SizesIn(size, g), n) /\ f[n] = TotalSize(size, g)
  BY TotalIsSum
<1> HIDE DEF n
<1>3. f[n] \in Nat /\ (n = 0 => f[n] = 0)
  <2>1. n \in 0..n
    BY <1>1
  <2>2. QED
    BY <1>2, <2>1, Zenon DEF Adds
<1>4. ASSUME NEW x \in E
      PROVE  TotalSize(size, Append(g, x)) = TotalSize(size, g) + size[x]
  <2> DEFINE t == Append(g, x)
             v == SizesIn(size, t)
             w == SizesIn(size, g)
  <2>1. /\ t \in Seq(E) /\ Len(t) = n + 1 /\ t[n + 1] = x
        /\ \A i \in 1..n : t[i] = g[i]
    BY DEF n
  <2>2. w = [i \in 1..n |-> size[g[i]]]
    BY Zenon DEF SizesIn, n
  <2> HIDE DEF t
  <2>3. v = [i \in 1..(n + 1) |-> size[t[i]]]
    BY <2>1, Zenon DEF SizesIn
  <2>4. PICK h : Adds(h, v, n + 1) /\ h[n + 1] = TotalSize(size, t)
    <3>1. \E h : Adds(h, v, Len(t)) /\ h[Len(t)] = TotalSize(size, t)
      BY <2>1, TotalIsSum
    <3>2. QED
      BY <2>1, <3>1, Zenon
  <2>5. n + 1 \in 1..(n + 1) /\ (n + 1) - 1 = n /\ \A i \in 1..n : i \in 1..(n + 1)
    BY <1>1
  <2> HIDE DEF v, w
  <2>6. v[n + 1] = size[x] /\ \A i \in 1..n : v[i] = w[i]
    <3>1. v[n + 1] = size[t[n + 1]]
      BY <2>3, <2>5, Zenon
    <3>2. ASSUME NEW i \in 1..n PROVE v[i] = w[i]
      BY <2>1, <2>2, <2>3, <2>5, Zenon
    <3>3. QED
      BY <2>1, <3>1, <3>2, Zenon
  <2>7. h[n + 1] = h[n] + v[n + 1]
    BY <2>4, <2>5, Zenon DEF Adds
  <2>8. h[n] = f[n]
    <3>1. n + 1 \in Nat /\ n <= n + 1 /\ n <= n
      BY <1>1
    <3>2. Adds(f, w, n)
      BY <1>2 DEF w
    <3>3. QED
      BY <1>1, <2>4, <2>6, <3>1, <3>2, SumsAgree
  <2>9. QED
    BY <1>2, <2>4, <2>6, <2>7, <2>8, Zenon DEF t
<1>5. QED
  BY <1>1, <1>2, <1>3, <1>4, Zenon


-----------------------------------------------------------------------------
(***************************************************************************)
(* MakeBundles: the inductive invariant.                                   *)
(***************************************************************************)
FolderIsScanned ==
  \E content \in Folders : vFiles = [p \in DOMAIN content |-> ScanFile(content[p])]

\* Groups and waiting files are in path order, apart from each other, and all
\* there is.
NothingLost ==
  /\ Grouped(found, Candidates)
  /\ files \in Seq(Candidates) /\ Related(files, Below)
  /\ ~made => /\ FilesOf(found) \cap ToSet(files) = {}
              /\ FilesOf(found) \cup ToSet(files) = Candidates

\* In the last round no file is left behind by the groups still to be visited.
RoundOK ==
  /\ cutAt \in Nat /\ made \in BOOLEAN
  /\ \A g \in DOMAIN visit : visit[g] \in Nat
  /\ cutAt = 0 => \A p \in ToSet(files) : Prefix(p, cutAt) \in DOMAIN visit

GroupsFinished ==
  made => /\ files = << >> /\ DOMAIN visit = {}
          /\ \A i \in DOMAIN found :
               /\ ManyFiles(found[i])
               /\ TotalSize(StorageSize, found[i]) <= 2 * PartSize

BundleInv == FolderIsScanned /\ NothingLost /\ RoundOK /\ GroupsFinished

\* Files that can be bundled have one part, and a part is stored in at most
\* PartSize bytes: the ratio keeps a file that compresses badly as it is.
LEMMA CandidateFacts ==
  ASSUME FolderIsScanned
  PROVE  /\ Candidates \in SUBSET Path /\ IsFiniteSet(Candidates)
         /\ \A p \in Candidates :
              /\ StorageSize[p] \in Nat /\ StorageSize[p] <= PartSize
              /\ FileSize[p] \in Nat
<1>1. PICK content \in Folders : vFiles = [p \in DOMAIN content |-> ScanFile(content[p])]
  BY DEF FolderIsScanned
<1>2. DOMAIN content \in SUBSET Path /\ \A p \in DOMAIN content : content[p] \in Seq(Chunk)
  BY BundlesAssumption
<1>3. \A p \in Candidates : p \in DOMAIN content /\ Len(vFiles[p].Parts) = 1
  BY <1>1, Zenon DEF Candidates, Bundleable
<1>4. Candidates \in SUBSET Path
  BY <1>2, <1>3
<1>5. IsFiniteSet(Candidates)
  BY <1>4, PathAssumption, FS_Subset
<1>6. ASSUME NEW p \in Candidates
      PROVE  /\ StorageSize[p] \in Nat /\ StorageSize[p] <= PartSize
             /\ FileSize[p] \in Nat
  <2>1. ScanOf(vFiles[p], content[p]) /\ content[p] \in Seq(Chunk)
    BY <1>1, <1>2, <1>3, Zenon DEF ScanOf
  <2>2. PICK c \in Chunk :
          /\ content[p] = <<c>>
          /\ vFiles[p].Parts[1] = VFilePart(c, UseCompression(<<c>>))
    BY <1>3, <2>1, OnePart, Zenon
  <2>3. ThePart(p).StorageSize = StoredSize(c, UseCompression(<<c>>))
        /\ PlainOf(ThePart(p))[1] = c
    <3> DEFINE part == ThePart(p)
               compr == UseCompression(<<c>>)
    <3>1. part = VFilePart(c, compr)
      BY <2>2, Zenon DEF ThePart
    <3> HIDE DEF part, compr
    <3>2. part.StorageSize = StoredSize(c, compr)
      BY <3>1 DEF VFilePart
    <3>3. PlainOf(part)[1] = c
      BY <3>1, PartFields
    <3>4. QED
      BY <3>2, <3>3, Zenon DEF part, compr
  <2>4. StorageSize[p] = StoredSize(c, UseCompression(<<c>>)) /\ FileSize[p] = PlainSize[c]
    BY <2>3, Zenon DEF StorageSize, FileSize
  <2>5. /\ PlainSize[c] \in 1..PartSize /\ PartSize \in Nat \ {0}
        /\ ComprSize[c] \in Nat \ {0}
    BY SizeAssumption
  <2>6. UseCompression(<<c>>) => 10 * ComprSize[c] < 8 * PlainSize[c]
    BY DEF UseCompression
  <2>7. \/ StorageSize[p] = ComprSize[c] /\ UseCompression(<<c>>)
        \/ StorageSize[p] = PlainSize[c]
    BY <2>4, Zenon DEF StoredSize
  <2>8. QED
    BY <2>4, <2>5, <2>6, <2>7
<1>7. QED
  BY <1>4, <1>5, <1>6, Zenon


-----------------------------------------------------------------------------
(***************************************************************************)
(* A large group is cut into groups of at most two parts.                  *)
(***************************************************************************)
Cuts(E) == [subs : Seq(Seq(E)), cur : Seq(E), size : Nat]

NoCut == [subs |-> << >>, cur |-> << >>, size |-> 0]

LEMMA SplitIsFold ==
  ASSUME NEW E, \A p \in E : StorageSize[p] \in Nat, PartSize \in Nat, NEW s \in Seq(E)
  PROVE  \E f \in [0..Len(s) -> Cuts(E)] :
           /\ f[0] = NoCut
           /\ SplitGroup(s) = Append(f[Len(s)].subs, f[Len(s)].cur)
           /\ \A i \in 1..Len(s) : f[i] = AddFile(f[i - 1], s[i])
<1> DEFINE A == Cuts(E)
           n == Len(s)
           none == NoCut
           G == [x \in A \X (1..n) |-> AddFile(x[1], s[x[2]])]
           step(g) == [t \in SUBSET (1..n) |->
                         IF t = {} THEN none
                         ELSE AddFile(g[t \ {Max(t)}], s[Max(t)])]
           iter == CHOOSE g : g = step(g)
<1>0. n \in Nat /\ DOMAIN s = 1..n /\ \A i \in 1..n : s[i] \in E
  OBVIOUS
<1>1. SplitGroup(s) = Append(iter[1..n].subs, iter[1..n].cur)
  BY <1>0, Zenon DEF SplitGroup, FoldLeft, MapThenFoldSet, NoCut
<1>2. IsRound(G, A, n) /\ none \in A
  <2>1. ASSUME NEW x \in A \X (1..n) PROVE AddFile(x[1], s[x[2]]) \in A
    <3>1. x[1] \in A /\ x[2] \in 1..n
      OBVIOUS
    <3>2. s[x[2]] \in E
      BY <1>0, <3>1, Zenon
    <3> HIDE DEF n
    <3>3. ASSUME NEW acc \in A, NEW p \in E PROVE AddFile(acc, p) \in A
      <4>1. /\ acc.subs \in Seq(Seq(E)) /\ acc.cur \in Seq(E) /\ acc.size \in Nat
            /\ StorageSize[p] \in Nat
        BY DEF Cuts
      <4>2. /\ Append(acc.cur, p) \in Seq(E) /\ acc.size + StorageSize[p] \in Nat
            /\ Append(acc.subs, Append(acc.cur, p)) \in Seq(Seq(E))
            /\ << >> \in Seq(E) /\ 0 \in Nat
        BY <4>1
      <4>3. QED
        BY <4>1, <4>2 DEF AddFile, Cuts
    <3>4. QED
      BY <3>1, <3>2, <3>3, Zenon
  <2>2. none \in A
    BY DEF NoCut, Cuts
  <2> HIDE DEF A, none
  <2>3. QED
    BY <2>1, <2>2, Zenon DEF IsRound
<1>3. ASSUME NEW a \in A, NEW i \in 1..n PROVE G[<<a, i>>] = AddFile(a, s[i])
  <2>1. <<a, i>> \in A \X (1..n) /\ <<a, i>>[1] = a /\ <<a, i>>[2] = i
    OBVIOUS
  <2> HIDE DEF A
  <2>2. QED
    BY <2>1, Zenon
<1> HIDE DEF A, G, none, n
<1>4. PICK g : Rounds(g, A, G, none, n)
  BY <1>0, <1>2, RoundsExist, Zenon
<1>5. \A t \in SUBSET (1..n) :
        t # {} => Max(t) \in 1..n /\ t \ {Max(t)} \in SUBSET (1..n)
  BY <1>0, MaxIsElement
<1>6. g = step(g)
  <2>1. ASSUME NEW t \in SUBSET (1..n)
        PROVE  g[t] = IF t = {} THEN none ELSE AddFile(g[t \ {Max(t)}], s[Max(t)])
    <3>1. CASE t = {}
      BY <1>4, <3>1, Zenon DEF Rounds, Round
    <3>2. CASE t # {}
      <4>1. g[t \ {Max(t)}] \in A
        BY <1>4, <1>5, <3>2, Zenon DEF Rounds
      <4>2. QED
        BY <1>3, <1>4, <1>5, <3>2, <4>1, Zenon DEF Rounds, Round
    <3>3. QED
      BY <3>1, <3>2, Zenon
  <2>2. QED
    BY <1>4, <2>1, Zenon DEF Rounds
<1>7. iter = step(iter)
  BY <1>6, Zenon
<1> HIDE DEF iter
<1>8. {} \in SUBSET (1..n)
  OBVIOUS
<1>9. iter[{}] = none
  BY <1>7, <1>8, Zenon
<1>10. ASSUME NEW t \in SUBSET (1..n), t # {}, iter[t \ {Max(t)}] \in A
       PROVE  iter[t] = Round(iter, G, none, t)
  <2>1. iter[t] = AddFile(iter[t \ {Max(t)}], s[Max(t)])
    BY <1>7, <1>10, Zenon
  <2>2. QED
    BY <1>3, <1>5, <1>10, <2>1, Zenon DEF Round
<1> DEFINE f == [k \in 0..n |-> iter[1..k]]
<1>11. Steps(f, A, G, none, n)
  BY <1>0, <1>2, <1>9, <1>10, RoundsAreSteps, Zenon
<1>12. f[n] = iter[1..n]
  <2>1. n \in 0..n
    BY <1>0
  <2>2. QED
    BY <2>1, Zenon
<1> HIDE DEF f
<1>13. ASSUME NEW i \in 1..n PROVE f[i] = AddFile(f[i - 1], s[i])
  <2>1. i - 1 \in 0..n
    BY <1>0
  <2>2. f[i - 1] \in A /\ f[i] = G[<<f[i - 1], i>>]
    BY <1>11, <2>1, Zenon DEF Steps
  <2>3. QED
    BY <1>3, <2>2, Zenon
<1>14. f \in [0..n -> A] /\ f[0] = none
  BY <1>11, Zenon DEF Steps
<1>15. SplitGroup(s) = Append(f[n].subs, f[n].cur)
  BY <1>1, <1>12, Zenon
<1>16. QED
  BY <1>13, <1>14, <1>15, Zenon DEF A, none, n

\* The groups that are cut off and the one that grows, after the files in U.
SplitOK(acc, U, E) ==
  /\ Grouped(acc.subs, E) /\ acc.cur \in Seq(E) /\ Related(acc.cur, Below)
  /\ FilesOf(acc.subs) \cap ToSet(acc.cur) = {}
  /\ FilesOf(acc.subs) \cup ToSet(acc.cur) = U
  /\ acc.size = TotalSize(StorageSize, acc.cur) /\ acc.size <= PartSize
  /\ \A i \in DOMAIN acc.subs : TotalSize(StorageSize, acc.subs[i]) <= 2 * PartSize

LEMMA AddFileKeeps ==
  ASSUME NEW E \in SUBSET Path, PartSize \in Nat,
         \A p \in E : StorageSize[p] \in Nat /\ StorageSize[p] <= PartSize,
         NEW acc, NEW U, SplitOK(acc, U, E),
         NEW p \in E, \A q \in U : <<q, p>> \in Below
  PROVE  SplitOK(AddFile(acc, p), U \cup {p}, E)
<1> DEFINE cur == Append(acc.cur, p)
           size == acc.size + StorageSize[p]
           T(g) == TotalSize(StorageSize, g)
<1>1. /\ Grouped(acc.subs, E) /\ acc.cur \in Seq(E) /\ Related(acc.cur, Below)
      /\ FilesOf(acc.subs) \cap ToSet(acc.cur) = {}
      /\ FilesOf(acc.subs) \cup ToSet(acc.cur) = U
      /\ acc.size = T(acc.cur) /\ acc.size <= PartSize
      /\ \A i \in DOMAIN acc.subs : T(acc.subs[i]) <= 2 * PartSize
  BY Zenon DEF SplitOK
<1>2. cur \in Seq(E) /\ ToSet(cur) = ToSet(acc.cur) \cup {p}
  BY <1>1, AppendFacts
<1>3. Related(cur, Below)
  BY <1>1, AppendRelated, Zenon
<1>4. p \notin U
  <2>1. p \in Nat
    BY PathAssumption
  <2>2. <<p, p>> \notin Below
    BY <2>1 DEF Below
  <2>3. QED
    BY <2>2, Zenon
<1>5. FilesOf(acc.subs) \cap ToSet(cur) = {} /\ FilesOf(acc.subs) \cup ToSet(cur) = U \cup {p}
  <2>1. \A x : x \in ToSet(cur) <=> x \in ToSet(acc.cur) \/ x = p
    BY <1>2, Zenon
  <2> HIDE DEF cur
  <2>2. QED
    BY <1>1, <1>4, <2>1, Zenon
<1>6. /\ size = T(cur) /\ T(acc.cur) \in Nat /\ StorageSize[p] \in Nat
      /\ StorageSize[p] <= PartSize
  <2>1. \A x \in E : StorageSize[x] \in Nat
    OBVIOUS
  <2>2. T(cur) = T(acc.cur) + StorageSize[p] /\ T(acc.cur) \in Nat
    BY <1>1, <2>1, TotalSizeFacts
  <2> HIDE DEF T
  <2>3. QED
    BY <1>1, <2>2, Zenon
<1> HIDE DEF cur, T
<1>7. CASE size > PartSize
  <2> DEFINE new == [subs |-> Append(acc.subs, cur), cur |-> << >>, size |-> 0]
             subs == new.subs
  <2>1. AddFile(acc, p) = new
    BY <1>7, Zenon DEF AddFile, cur
  <2>2. subs = Append(acc.subs, cur) /\ new.cur = << >> /\ new.size = 0
    OBVIOUS
  <2> HIDE DEF new, subs
  <2>3. Grouped(subs, E) /\ FilesOf(subs) = U \cup {p}
    BY <1>1, <1>2, <1>3, <1>5, <2>2, OneMoreGroup
  <2>4. T(cur) <= 2 * PartSize
    BY <1>1, <1>6
  <2>5. \A i \in DOMAIN subs : T(subs[i]) <= 2 * PartSize
    <3>1. acc.subs \in Seq(Seq(E))
      BY <1>1, Zenon DEF Grouped
    <3>2. /\ DOMAIN acc.subs = 1..Len(acc.subs)
          /\ \A i \in DOMAIN subs : subs[i] = cur \/ (i \in DOMAIN acc.subs /\ subs[i] = acc.subs[i])
      BY <1>2, <2>2, <3>1
    <3>3. QED
      BY <1>1, <2>4, <3>2, Zenon
  <2>6. /\ new.cur \in Seq(E) /\ DOMAIN new.cur = {}
        /\ 0 <= PartSize
    BY <2>2
  <2>7. Related(new.cur, Below) /\ ToSet(new.cur) = {}
    BY <2>6, Zenon DEF Related, ToSet
  <2>8. T(new.cur) = 0
    <3>1. \A x \in E : StorageSize[x] \in Nat
      OBVIOUS
    <3>2. QED
      BY <2>2, <2>6, <3>1, TotalSizeFacts DEF T
  <2>9. QED
    BY <2>1, <2>2, <2>3, <2>5, <2>6, <2>7, <2>8, Zenon DEF SplitOK, T, subs
<1>8. CASE ~(size > PartSize)
  <2> DEFINE new == [subs |-> acc.subs, cur |-> cur, size |-> size]
  <2>1. AddFile(acc, p) = new
    BY <1>8, Zenon DEF AddFile, cur
  <2>2. new.subs = acc.subs /\ new.cur = cur /\ new.size = size
    OBVIOUS
  <2>3. size <= PartSize
    BY <1>1, <1>6, <1>8
  <2> HIDE DEF new
  <2>4. QED
    BY <1>1, <1>2, <1>3, <1>5, <1>6, <2>1, <2>2, <2>3, Zenon DEF SplitOK, T
<1>9. QED
  BY <1>7, <1>8, Zenon


LEMMA SplitGroupFacts ==
  ASSUME NEW E \in SUBSET Path, PartSize \in Nat,
         \A p \in E : StorageSize[p] \in Nat /\ StorageSize[p] <= PartSize,
         NEW s \in Seq(E), Related(s, Below)
  PROVE  /\ Grouped(SplitGroup(s), E) /\ FilesOf(SplitGroup(s)) = ToSet(s)
         /\ \A i \in DOMAIN SplitGroup(s) :
              TotalSize(StorageSize, SplitGroup(s)[i]) <= 2 * PartSize
<1> DEFINE n == Len(s)
           T(g) == TotalSize(StorageSize, g)
<1>1. n \in Nat /\ DOMAIN s = 1..n /\ s \in [1..n -> E] /\ ToSet(s) = {s[i] : i \in 1..n}
  BY SeqFacts
<1>2. PICK f \in [0..n -> Cuts(E)] :
        /\ f[0] = NoCut
        /\ SplitGroup(s) = Append(f[n].subs, f[n].cur)
        /\ \A i \in 1..n : f[i] = AddFile(f[i - 1], s[i])
  BY SplitIsFold
<1> HIDE DEF n
<1> DEFINE Upto(k) == {s[i] : i \in 1..k}
           K == {k \in Nat : k <= n => SplitOK(f[k], Upto(k), E)}
<1>3. 0 \in K
  <2>1. f[0].subs = << >> /\ f[0].cur = << >> /\ f[0].size = 0
    BY <1>2 DEF NoCut
  <2>2. << >> \in Seq(E) /\ << >> \in Seq(Seq(E)) /\ DOMAIN << >> = {} /\ 1..0 = {}
        /\ 0 <= PartSize
    OBVIOUS
  <2>3. T(<< >>) = 0
    <3>1. \A x \in E : StorageSize[x] \in Nat
      OBVIOUS
    <3>2. QED
      BY <2>2, <3>1, TotalSizeFacts
  <2>4. /\ ToSet(<< >>) = {} /\ Related(<< >>, Below) /\ Related(<< >>, Apart)
        /\ FilesOf(<< >>) = {} /\ Upto(0) = {}
    BY <2>2, Zenon DEF ToSet, Related, FilesOf
  <2>5. Grouped(<< >>, E)
    BY <2>2, <2>4, Zenon DEF Grouped
  <2> HIDE DEF Upto
  <2>6. SplitOK(f[0], Upto(0), E)
    BY <2>1, <2>2, <2>3, <2>4, <2>5, Zenon DEF SplitOK
  <2>7. QED
    BY <2>6
<1>4. ASSUME NEW k \in Nat, k \in K PROVE k + 1 \in K
  <2>1. SUFFICES ASSUME k + 1 <= n PROVE SplitOK(f[k + 1], Upto(k + 1), E)
    OBVIOUS
  <2>2. k + 1 \in 1..n /\ (k + 1) - 1 = k /\ SplitOK(f[k], Upto(k), E)
    BY <1>1, <1>4, <2>1
  <2> DEFINE p == s[k + 1]
  <2>3. p \in E /\ f[k + 1] = AddFile(f[k], p)
    BY <1>1, <1>2, <2>2, Zenon
  <2>4. Upto(k + 1) = Upto(k) \cup {p}
    <3>1. \A i : i \in 1..(k + 1) <=> (i \in 1..k \/ i = k + 1)
      OBVIOUS
    <3>2. QED
      BY <3>1, Zenon
  <2>5. ASSUME NEW q \in Upto(k) PROVE <<q, p>> \in Below
    <3>1. PICK i \in 1..k : q = s[i]
      BY <2>5, Zenon
    <3>2. i \in 1..n /\ i < k + 1
      BY <1>1, <2>1
    <3>3. QED
      BY <1>1, <2>2, <3>1, <3>2, Zenon DEF Related
  <2> HIDE DEF Upto, p
  <2>6. SplitOK(AddFile(f[k], p), Upto(k) \cup {p}, E)
    BY <2>2, <2>3, <2>5, AddFileKeeps, Zenon
  <2>7. QED
    BY <2>3, <2>4, <2>6, Zenon
<1>5. Nat \subseteq K
  <2> HIDE DEF K
  <2>1. QED
    BY <1>3, <1>4, Induct
<1>6. n \in K /\ n <= n /\ n \in 0..n
  <2> HIDE DEF K
  <2>1. QED
    BY <1>1, <1>5
<1> DEFINE subs == f[n].subs
           cur == f[n].cur
<1>7. /\ Grouped(subs, E) /\ cur \in Seq(E) /\ Related(cur, Below)
      /\ FilesOf(subs) \cap ToSet(cur) = {} /\ FilesOf(subs) \cup ToSet(cur) = ToSet(s)
      /\ f[n].size = T(cur) /\ f[n].size <= PartSize
      /\ \A i \in DOMAIN subs : T(subs[i]) <= 2 * PartSize
  <2>1. SplitOK(f[n], Upto(n), E)
    <3> HIDE DEF Upto
    <3>1. QED
      BY <1>6, Zenon
  <2>2. Upto(n) = ToSet(s)
    BY <1>1, Zenon
  <2> HIDE DEF Upto
  <2>3. QED
    BY <2>1, <2>2, Zenon DEF SplitOK
<1>8. SplitGroup(s) = Append(subs, cur)
  BY <1>2, Zenon
<1> HIDE DEF subs, cur, T
<1>9. Grouped(Append(subs, cur), E) /\ FilesOf(Append(subs, cur)) = ToSet(s)
  BY <1>7, OneMoreGroup
<1>10. T(cur) <= 2 * PartSize
  <2>1. T(cur) \in Nat
    <3>1. \A x \in E : StorageSize[x] \in Nat
      OBVIOUS
    <3>2. QED
      BY <1>7, <3>1, TotalSizeFacts DEF T
  <2>2. QED
    BY <1>7, <2>1
<1>11. ASSUME NEW i \in DOMAIN Append(subs, cur)
       PROVE  T(Append(subs, cur)[i]) <= 2 * PartSize
  <2>1. subs \in Seq(Seq(E))
    BY <1>7, Zenon DEF Grouped
  <2>2. Append(subs, cur)[i] = cur
        \/ (i \in DOMAIN subs /\ Append(subs, cur)[i] = subs[i])
    BY <1>7, <2>1
  <2>3. QED
    BY <1>7, <1>10, <2>2, Zenon
<1>12. QED
  BY <1>8, <1>9, <1>11, Zenon DEF T

LEMMA FilesOfElements ==
  ASSUME NEW gs, NEW p
  PROVE  p \in FilesOf(gs) <=> \E g \in ToSet(gs) : p \in ToSet(g)
<1>1. p \in FilesOf(gs) <=> \E i \in DOMAIN gs : p \in ToSet(gs[i])
  BY Zenon DEF FilesOf
<1>2. \A g : g \in ToSet(gs) <=> \E i \in DOMAIN gs : g = gs[i]
  BY Zenon DEF ToSet
<1>3. QED
  BY <1>1, <1>2, Zenon

LEMMA SplitBigFacts ==
  ASSUME NEW E \in SUBSET Path, PartSize \in Nat,
         \A p \in E : StorageSize[p] \in Nat /\ StorageSize[p] <= PartSize,
         NEW gs, Grouped(gs, E)
  PROVE  /\ Grouped(SplitBigBundles(gs), E)
         /\ FilesOf(SplitBigBundles(gs)) = FilesOf(gs)
         /\ \A g \in ToSet(SplitBigBundles(gs)) : TotalSize(StorageSize, g) <= 2 * PartSize
<1> DEFINE T(g) == TotalSize(StorageSize, g)
           cut(g) == IF T(g) <= 2 * PartSize THEN <<g>> ELSE SplitGroup(g)
           parts == [i \in DOMAIN gs |-> cut(gs[i])]
           all == FlattenSeq(parts)
           n == Len(gs)
<1>1. /\ n \in Nat /\ DOMAIN gs = 1..n /\ \A i \in 1..n : gs[i] \in Seq(E)
      /\ \A i \in 1..n : Related(gs[i], Below)
      /\ Related(gs, Apart)
  <2>1. gs \in Seq(Seq(E)) /\ Related(gs, Apart) /\ \A i \in DOMAIN gs : Related(gs[i], Below)
    BY Zenon DEF Grouped
  <2>2. n \in Nat /\ DOMAIN gs = 1..n /\ \A i \in 1..n : gs[i] \in Seq(E)
    BY <2>1
  <2>3. QED
    BY <2>1, <2>2, Zenon
<1>2. SplitBigBundles(gs) = all
  BY Zenon DEF SplitBigBundles
<1>3. DOMAIN parts = 1..n /\ \A i \in 1..n : parts[i] = cut(gs[i])
  BY <1>1, Zenon
<1> HIDE DEF parts, n, T
<1>4. ASSUME NEW i \in 1..n
      PROVE  /\ Grouped(parts[i], E) /\ FilesOf(parts[i]) = ToSet(gs[i])
             /\ \A g \in ToSet(parts[i]) : T(g) <= 2 * PartSize
  <2> DEFINE g == gs[i]
             ps == parts[i]
  <2>1. g \in Seq(E) /\ Related(g, Below) /\ ps = cut(g)
    BY <1>1, <1>3, Zenon
  <2> HIDE DEF g, ps
  <2>2. CASE T(g) <= 2 * PartSize
    <3>1. ps = <<g>>
      BY <2>1, <2>2, Zenon
    <3>2. /\ <<g>> \in Seq(Seq(E)) /\ DOMAIN <<g>> = {1} /\ <<g>>[1] = g
          /\ ~(1 < 1)
      BY <2>1
    <3>3. Grouped(<<g>>, E)
      BY <2>1, <3>2, Zenon DEF Grouped, Related
    <3>4. ToSet(<<g>>) = {g} /\ FilesOf(<<g>>) = ToSet(g)
      <4>1. ToSet(<<g>>) = {g}
        BY <3>2, Zenon DEF ToSet
      <4>2. \A p : p \in FilesOf(<<g>>) <=> p \in ToSet(g)
        BY <4>1, FilesOfElements, Zenon
      <4>3. QED
        BY <4>1, <4>2, Zenon
    <3>5. QED
      BY <2>2, <3>1, <3>3, <3>4, Zenon DEF g, ps
  <2>3. CASE ~(T(g) <= 2 * PartSize)
    <3>1. ps = SplitGroup(g)
      BY <2>1, <2>3, Zenon
    <3>2. /\ Grouped(ps, E) /\ FilesOf(ps) = ToSet(g)
          /\ \A k \in DOMAIN ps : T(ps[k]) <= 2 * PartSize
      BY <2>1, <3>1, SplitGroupFacts, Zenon DEF T
    <3>3. \A h \in ToSet(ps) : T(h) <= 2 * PartSize
      BY <3>2, Zenon DEF ToSet
    <3>4. QED
      BY <3>2, <3>3, Zenon DEF g, ps
  <2>4. QED
    BY <2>2, <2>3, Zenon
<1>5. ASSUME NEW i \in 1..n
      PROVE  /\ parts[i] \in Seq(Seq(E)) /\ Related(parts[i], Apart)
             /\ \A g \in ToSet(parts[i]) :
                  g \in Seq(E) /\ Related(g, Below) /\ ToSet(g) \in SUBSET ToSet(gs[i])
  <2> DEFINE ps == parts[i]
  <2>1. /\ ps \in Seq(Seq(E)) /\ Related(ps, Apart) /\ FilesOf(ps) = ToSet(gs[i])
        /\ \A k \in DOMAIN ps : Related(ps[k], Below)
    BY <1>4, Zenon DEF Grouped
  <2>2. \A k \in DOMAIN ps : ps[k] \in Seq(E)
    BY <2>1
  <2> HIDE DEF ps
  <2>3. ASSUME NEW g \in ToSet(ps)
        PROVE  g \in Seq(E) /\ Related(g, Below) /\ ToSet(g) \in SUBSET ToSet(gs[i])
    <3>1. g \in Seq(E) /\ Related(g, Below)
      BY <2>1, <2>2, Zenon DEF ToSet
    <3>2. \A p \in ToSet(g) : p \in FilesOf(ps)
      BY FilesOfElements, Zenon
    <3>3. QED
      BY <2>1, <3>1, <3>2, Zenon
  <2>4. QED
    BY <2>1, <2>3, Zenon DEF ps
<1>6. parts \in Seq(Seq(Seq(E)))
  <2>1. parts = [i \in 1..n |-> parts[i]]
    BY <1>1, Zenon DEF parts
  <2>2. parts \in [1..n -> Seq(Seq(E))]
    BY <1>5, <2>1, Zenon
  <2>3. QED
    BY <1>1, <2>2
<1>7. ASSUME NEW i \in 1..n, NEW j \in 1..n, i < j,
             NEW x \in ToSet(parts[i]), NEW y \in ToSet(parts[j])
      PROVE  <<x, y>> \in Apart
  <2>1. <<gs[i], gs[j]>> \in Apart /\ gs[i] \in Seq(E) /\ gs[j] \in Seq(E)
    BY <1>1, <1>7, Zenon DEF Related
  <2>2. ToSet(gs[i]) \cap ToSet(gs[j]) = {}
    BY <2>1, ApartIsDisjoint
  <2>3. x \in Seq(E) /\ y \in Seq(E) /\ ToSet(x) \cap ToSet(y) = {}
    BY <1>5, <2>2, Zenon
  <2>4. QED
    BY <2>3, ApartIsDisjoint
<1>8. all \in Seq(Seq(E)) /\ ToSet(all) = FilesOf(parts) /\ Related(all, Apart)
  BY <1>3, <1>5, <1>6, <1>7, FlattenFacts, Zenon
<1> HIDE DEF all
<1>9. \A g : g \in ToSet(all) <=> \E i \in 1..n : g \in ToSet(parts[i])
  BY <1>3, <1>8, Zenon DEF FilesOf
<1>10. \A k \in DOMAIN all : Related(all[k], Below)
  <2>1. \A k \in DOMAIN all : all[k] \in ToSet(all)
    BY Zenon DEF ToSet
  <2>2. QED
    BY <1>5, <1>9, <2>1, Zenon
<1>11. FilesOf(all) = FilesOf(gs)
  <2>1. ASSUME NEW p PROVE p \in FilesOf(all) <=> p \in FilesOf(gs)
    <3>1. p \in FilesOf(all) <=> \E g \in ToSet(all) : p \in ToSet(g)
      BY FilesOfElements, Zenon
    <3>2. \A i \in 1..n : p \in FilesOf(parts[i])
                            <=> \E g \in ToSet(parts[i]) : p \in ToSet(g)
      BY FilesOfElements, Zenon
    <3>3. p \in FilesOf(gs) <=> \E i \in 1..n : p \in ToSet(gs[i])
      BY <1>1, Zenon DEF FilesOf
    <3>4. \A i \in 1..n : FilesOf(parts[i]) = ToSet(gs[i])
      BY <1>4, Zenon
    <3>5. p \in FilesOf(gs) <=> \E i \in 1..n : \E g \in ToSet(parts[i]) : p \in ToSet(g)
      BY <3>2, <3>3, <3>4, Zenon
    <3>6. QED
      BY <1>9, <3>1, <3>5, Zenon
  <2>2. QED
    BY <2>1, Zenon
<1>12. \A g \in ToSet(all) : T(g) <= 2 * PartSize
  BY <1>4, <1>9, Zenon
<1>13. QED
  BY <1>2, <1>8, <1>10, <1>11, <1>12, Zenon DEF Grouped, T


-----------------------------------------------------------------------------
(***************************************************************************)
(* The first two phases.                                                   *)
(***************************************************************************)
LEMMA MaxOfFinite ==
  ASSUME NEW S \in SUBSET Nat, IsFiniteSet(S), S # {}
  PROVE  Max(S) \in S /\ \A y \in S : Max(S) >= y
<1> DEFINE n == Cardinality(S)
<1>1. n \in 1..n
  <2>1. n \in Nat /\ n # 0
    BY FS_CardinalityType, FS_EmptySet
  <2>2. QED
    BY <2>1
<1>2. PICK p \in S : Cardinality(UpTo(S, p)) = n
  BY <1>1, RanksExist
<1>3. UpTo(S, p) \in SUBSET S
  BY DEF UpTo
<1>4. S = UpTo(S, p)
  BY <1>2, <1>3, FS_Subset
<1>5. \A y \in S : p >= y
  <2>1. \A y \in S : y <= p
    BY <1>4, Zenon DEF UpTo
  <2>2. QED
    BY <2>1
<1>6. QED
  BY <1>5, Zenon DEF Max

LEMMA FirstCut ==
  ASSUME NEW T \in SUBSET Path, cutAt = Max({0} \cup {Len(RelPath[p]) : p \in T})
  PROVE  cutAt \in Nat /\ (cutAt = 0 => T = {})
<1> DEFINE I == {Len(RelPath[p]) : p \in T}
           L == {0} \cup I
           f == [p \in T |-> Len(RelPath[p])]
<1>1. \A p \in T : Len(RelPath[p]) \in Nat /\ Len(RelPath[p]) # 0
  <2>1. \A p \in T : RelPath[p] \in Seq(Nat) \ {<< >>}
    BY BundlesAssumption
  <2>2. \A s \in Seq(Nat) \ {<< >>} : Len(s) \in Nat /\ Len(s) # 0
    OBVIOUS
  <2>3. QED
    BY <2>1, <2>2, Zenon
<1>2. IsFiniteSet(T)
  BY PathAssumption, FS_Subset
<1>3. f \in Surjection(T, I)
  BY Zenon DEF Surjection
<1> HIDE DEF f
<1>4. I \in SUBSET Nat /\ \A p \in T : Len(RelPath[p]) \in I
  BY <1>1, Zenon
<1> HIDE DEF I
<1>5. IsFiniteSet(I)
  BY <1>2, <1>3, FS_Surjection, Zenon
<1>6. IsFiniteSet(L)
  BY <1>5, FS_Union, FS_Singleton, Zenon
<1>7. L \in SUBSET Nat /\ L # {}
  BY <1>4
<1>8. cutAt = Max(L)
  BY Zenon DEF I
<1>9. cutAt \in L /\ \A y \in L : cutAt >= y
  <2> HIDE DEF L
  <2>1. QED
    BY <1>6, <1>7, <1>8, MaxOfFinite, Zenon
<1>10. ASSUME cutAt = 0, NEW p \in T PROVE FALSE
  <2>1. Len(RelPath[p]) \in L /\ Len(RelPath[p]) \in Nat /\ Len(RelPath[p]) # 0
    BY <1>1, <1>4, Zenon
  <2> DEFINE l == Len(RelPath[p])
  <2> HIDE DEF L, l
  <2>2. l \in Nat /\ l # 0 /\ cutAt >= l
    BY <1>9, <2>1, Zenon DEF l
  <2>3. QED
    BY <1>10, <2>2
<1>11. QED
  BY <1>7, <1>9, <1>10, Zenon

LEMMA InitInv == BundleInit => BundleInv
<1> SUFFICES ASSUME BundleInit PROVE BundleInv
  OBVIOUS
<1> DEFINE C == Candidates
           all == Ascending(C)
           small == {p \in C : StorageSize[p] < SmallSize}
           medium == {p \in C \ small : vFiles[p].UseCompression}
           large == C \ (small \cup medium)
           s1 == Only(all, small)
           s2 == Only(all, medium)
<1>1. /\ FolderIsScanned
      /\ found = <<s1, s2>> /\ files = Only(all, large)
      /\ cutAt = Max({0} \cup {Len(RelPath[p]) : p \in ToSet(files)})
      /\ visit = << >> /\ made = FALSE
  BY Zenon DEF BundleInit, FolderIsScanned
<1>2. C \in SUBSET Path
  BY <1>1, CandidateFacts, Zenon
<1>3. /\ small \in SUBSET C /\ medium \in SUBSET C /\ large \in SUBSET C
      /\ small \cap medium = {} /\ (small \cup medium) \cap large = {}
      /\ (small \cup medium) \cup large = C
  BY Zenon
<1> HIDE DEF C, small, medium, large
<1>4. all \in Seq(C) /\ Related(all, Below) /\ ToSet(all) = C
  BY <1>2, AscendingIsSorted, Zenon
<1> HIDE DEF all
<1>5. s1 \in Seq(C) /\ Related(s1, Below) /\ ToSet(s1) = small
  <2>1. s1 \in Seq(C) /\ Related(s1, Below) /\ ToSet(s1) = ToSet(all) \cap small
    BY <1>4, OnlyFacts
  <2>2. QED
    BY <1>3, <1>4, <2>1, Zenon
<1>6. s2 \in Seq(C) /\ Related(s2, Below) /\ ToSet(s2) = medium
  <2>1. s2 \in Seq(C) /\ Related(s2, Below) /\ ToSet(s2) = ToSet(all) \cap medium
    BY <1>4, OnlyFacts
  <2>2. QED
    BY <1>3, <1>4, <2>1, Zenon
<1>7. files \in Seq(C) /\ Related(files, Below) /\ ToSet(files) = large
  <2>1. files \in Seq(C) /\ Related(files, Below) /\ ToSet(files) = ToSet(all) \cap large
    BY <1>1, <1>4, OnlyFacts
  <2>2. QED
    BY <1>3, <1>4, <2>1, Zenon
<1> HIDE DEF s1, s2
<1>8. /\ found \in Seq(Seq(C)) /\ DOMAIN found = {1, 2} /\ found[1] = s1 /\ found[2] = s2
      /\ \A i, j \in {1, 2} : i < j => i = 1 /\ j = 2
  BY <1>1, <1>5, <1>6
<1>9. FilesOf(found) = small \cup medium
  BY <1>5, <1>6, <1>8, Zenon DEF FilesOf
<1>10. Grouped(found, C)
  <2>1. <<s1, s2>> \in Apart
    BY <1>2, <1>3, <1>5, <1>6, ApartIsDisjoint
  <2>2. QED
    BY <1>5, <1>6, <1>8, <2>1, Zenon DEF Grouped, Related
<1>11. NothingLost
  BY <1>3, <1>7, <1>9, <1>10, Zenon DEF NothingLost, C
<1>12. cutAt \in Nat /\ (cutAt = 0 => ToSet(files) = {})
  <2>1. ToSet(files) \in SUBSET Path
    BY <1>2, <1>3, <1>7, Zenon
  <2>2. QED
    BY <1>1, <2>1, FirstCut, Zenon
<1>13. DOMAIN visit = {}
  BY <1>1
<1>14. RoundOK
  BY <1>1, <1>12, <1>13, Zenon DEF RoundOK
<1>15. GroupsFinished
  BY <1>1, Zenon DEF GroupsFinished
<1>16. QED
  BY <1>1, <1>11, <1>14, <1>15, Zenon DEF BundleInv


-----------------------------------------------------------------------------
(***************************************************************************)
(* The steps.                                                              *)
(***************************************************************************)
LEMMA SameFiles ==
  ASSUME vFiles' = vFiles
  PROVE  /\ Candidates' = Candidates /\ StorageSize' = StorageSize
         /\ FolderIsScanned => FolderIsScanned'
<1>1. Candidates' = Candidates
  BY Zenon DEF Candidates
<1>2. StorageSize' = StorageSize
  BY <1>1, Zenon DEF StorageSize, ThePart
<1>3. FolderIsScanned => FolderIsScanned'
  BY Zenon DEF FolderIsScanned
<1>4. QED
  BY <1>1, <1>2, <1>3, Zenon

LEMMA NextRoundKeeps ==
  ASSUME BundleInv, NextRound PROVE BundleInv'
<1>1. FolderIsScanned /\ NothingLost /\ RoundOK
  BY Zenon DEF BundleInv
<1>2. /\ ~made /\ ~LastRound /\ cutAt' = cutAt - 1
      /\ visit' = [g \in {Prefix(p, cutAt') : p \in ToSet(files)} |->
                     TotalSize(FileSize, Only(files, WithPrefix(g, cutAt')))]
      /\ vFiles' = vFiles /\ files' = files /\ found' = found /\ made' = made
  BY Zenon DEF NextRound
<1>3. FolderIsScanned' /\ Candidates' = Candidates
  BY <1>1, <1>2, SameFiles, Zenon
<1>4. NothingLost'
  BY <1>1, <1>2, <1>3, Zenon DEF NothingLost
<1>5. cutAt' \in Nat
  BY <1>1, <1>2 DEF RoundOK, LastRound
<1>6. files \in Seq(Candidates) /\ Related(files, Below)
  BY <1>1, Zenon DEF NothingLost
<1>7. ASSUME NEW S PROVE TotalSize(FileSize, Only(files, S)) \in Nat
  <2>1. \A p \in Candidates : FileSize[p] \in Nat
    BY <1>1, CandidateFacts, Zenon
  <2>2. Only(files, S) \in Seq(Candidates)
    BY <1>6, OnlyFacts
  <2>3. QED
    BY <2>1, <2>2, TotalSizeFacts, Zenon
<1>8. /\ \A g \in DOMAIN visit' : visit'[g] \in Nat
      /\ \A p \in ToSet(files) : Prefix(p, cutAt') \in DOMAIN visit'
  BY <1>2, <1>7, Zenon
<1>9. RoundOK'
  <2>1. (\A p \in ToSet(files) : Prefix(p, cutAt) \in DOMAIN visit)'
    BY <1>2, <1>8, Zenon DEF Prefix
  <2>2. made' \in BOOLEAN
    BY <1>1, <1>2, Zenon DEF RoundOK
  <2>3. QED
    BY <1>5, <1>8, <2>1, <2>2, Zenon DEF RoundOK
<1>10. GroupsFinished'
  BY <1>2, Zenon DEF GroupsFinished
<1>11. QED
  BY <1>3, <1>4, <1>9, <1>10, Zenon DEF BundleInv

LEMMA VisitGroupKeeps ==
  ASSUME BundleInv, VisitGroup PROVE BundleInv'
<1>1. FolderIsScanned /\ NothingLost /\ RoundOK /\ GroupsFinished
  BY Zenon DEF BundleInv
<1>2. PICK g \in DOMAIN visit :
        /\ visit' = [h \in DOMAIN visit \ {g} |-> visit[h]]
        /\ IF Take(g)
             THEN /\ found' = Append(found, Only(files, WithPrefix(g, cutAt)))
                  /\ files' = Without(g)
             ELSE UNCHANGED <<found, files>>
  BY Zenon DEF VisitGroup
<1>3. vFiles' = vFiles /\ cutAt' = cutAt /\ made' = made
  BY Zenon DEF VisitGroup
<1>4. ~made /\ ~made'
  BY <1>1, <1>2, <1>3, Zenon DEF GroupsFinished
<1>5. FolderIsScanned' /\ Candidates' = Candidates
  BY <1>1, <1>3, SameFiles, Zenon
<1>6. /\ DOMAIN visit' = DOMAIN visit \ {g}
      /\ \A h \in DOMAIN visit' : visit'[h] \in Nat
  BY <1>1, <1>2, Zenon DEF RoundOK
<1>7. GroupsFinished'
  BY <1>4, Zenon DEF GroupsFinished
<1>8. cutAt' \in Nat /\ made' \in BOOLEAN
  BY <1>1, <1>3, Zenon DEF RoundOK
<1>9. CASE Take(g)
  <2> DEFINE W == WithPrefix(g, cutAt)
             group == Only(files, W)
             rest == ToSet(files) \ W
  <2>1. found' = Append(found, group) /\ files' = Only(files, rest)
    BY <1>2, <1>9, Zenon DEF Without
  <2>2. /\ Grouped(found, Candidates) /\ files \in Seq(Candidates) /\ Related(files, Below)
        /\ FilesOf(found) \cap ToSet(files) = {}
        /\ FilesOf(found) \cup ToSet(files) = Candidates
    BY <1>1, <1>4, Zenon DEF NothingLost
  <2>3. \A p : p \in W <=> p \in ToSet(files) /\ Prefix(p, cutAt) = g
    BY Zenon DEF WithPrefix
  <2> HIDE DEF W
  <2>4. /\ group \in Seq(Candidates) /\ Related(group, Below)
        /\ ToSet(group) = ToSet(files) \cap W
    <3>1. group = Only(files, W)
      OBVIOUS
    <3> HIDE DEF group
    <3>2. QED
      BY <2>2, <3>1, OnlyFacts
  <2> HIDE DEF rest
  <2>5. /\ files' \in Seq(Candidates) /\ Related(files', Below)
        /\ ToSet(files') = ToSet(files) \cap rest
    BY <2>1, <2>2, OnlyFacts
  <2>6. ToSet(files') = ToSet(files) \ W
    BY <2>5, Zenon DEF rest
  <2> HIDE DEF group
  <2>7. Grouped(found', Candidates) /\ FilesOf(found') = FilesOf(found) \cup ToSet(group)
    <3>1. Candidates \in SUBSET Path
      BY <1>1, CandidateFacts, Zenon
    <3>2. FilesOf(found) \cap ToSet(group) = {}
      BY <2>2, <2>4, Zenon
    <3>3. QED
      BY <2>1, <2>2, <2>4, <3>1, <3>2, OneMoreGroup
  <2>8. NothingLost'
    <3>1. FilesOf(found') \cap ToSet(files') = {}
      BY <2>2, <2>4, <2>6, <2>7, Zenon
    <3>2. FilesOf(found') \cup ToSet(files') = Candidates
      BY <2>2, <2>4, <2>6, <2>7, Zenon
    <3>3. QED
      BY <1>5, <2>5, <2>7, <3>1, <3>2, Zenon DEF NothingLost
  <2>9. RoundOK'
    <3>1. ASSUME cutAt = 0, NEW p \in ToSet(files') PROVE Prefix(p, cutAt) \in DOMAIN visit'
      BY <1>1, <1>6, <2>3, <2>6, <3>1, Zenon DEF RoundOK
    <3>2. (cutAt = 0 => \A p \in ToSet(files) : Prefix(p, cutAt) \in DOMAIN visit)'
      BY <1>3, <3>1, Zenon DEF Prefix
    <3>3. QED
      BY <1>6, <1>8, <3>2, Zenon DEF RoundOK
  <2>10. QED
    BY <1>5, <1>7, <2>8, <2>9, Zenon DEF BundleInv
<1>10. CASE ~Take(g)
  <2>1. found' = found /\ files' = files
    BY <1>2, <1>10, Zenon
  <2>2. cutAt' # 0
    BY <1>3, <1>10, Zenon DEF Take, LastRound
  <2>3. NothingLost'
    BY <1>1, <1>3, <1>5, <2>1, Zenon DEF NothingLost
  <2>4. RoundOK'
    BY <1>6, <1>8, <2>2, Zenon DEF RoundOK
  <2>5. QED
    BY <1>5, <1>7, <2>3, <2>4, Zenon DEF BundleInv
<1>11. QED
  BY <1>9, <1>10, Zenon

\* In the last round every file has been taken when the last group was visited.
LEMMA AllTaken ==
  ASSUME BundleInv, cutAt = 0, DOMAIN visit = {}
  PROVE  files = << >>
<1>1. files \in Seq(Candidates) /\ \A p \in ToSet(files) : Prefix(p, cutAt) \in DOMAIN visit
  BY Zenon DEF BundleInv, NothingLost, RoundOK
<1>2. ToSet(files) = {}
  BY <1>1, Zenon
<1>3. DOMAIN files = {}
  BY <1>2, Zenon DEF ToSet
<1>4. QED
  BY <1>1, <1>3

LEMMA FinishKeeps ==
  ASSUME BundleInv, Finish PROVE BundleInv'
<1> DEFINE groups == SplitBigBundles(found)
           Many == {g \in ToSet(groups) : ManyFiles(g)}
           T(g) == TotalSize(StorageSize, g)
<1>1. FolderIsScanned /\ NothingLost /\ RoundOK
  BY Zenon DEF BundleInv
<1>2. /\ DOMAIN visit = {} /\ LastRound /\ made' = TRUE
      /\ found' = Only(groups, Many)
      /\ vFiles' = vFiles /\ files' = files /\ cutAt' = cutAt /\ visit' = visit
  BY Zenon DEF Finish
<1>3. FolderIsScanned' /\ Candidates' = Candidates /\ StorageSize' = StorageSize
  BY <1>1, <1>2, SameFiles, Zenon
<1>4. files = << >>
  BY <1>2, AllTaken, Zenon DEF LastRound
<1>5. /\ Grouped(groups, Candidates)
      /\ \A g \in ToSet(groups) : T(g) <= 2 * PartSize
  <2>1. /\ Candidates \in SUBSET Path
        /\ \A p \in Candidates : StorageSize[p] \in Nat /\ StorageSize[p] <= PartSize
    BY <1>1, CandidateFacts, Zenon
  <2>2. PartSize \in Nat
    BY SizeAssumption
  <2>3. Grouped(found, Candidates)
    BY <1>1, Zenon DEF NothingLost
  <2>4. QED
    BY <2>1, <2>2, <2>3, SplitBigFacts, Zenon
<1> HIDE DEF groups, T
<1>6. /\ groups \in Seq(Seq(Candidates)) /\ Related(groups, Apart)
      /\ \A g \in ToSet(groups) : Related(g, Below)
  BY <1>5, Zenon DEF Grouped, ToSet
<1>7. /\ found' \in Seq(Seq(Candidates)) /\ Related(found', Apart)
      /\ ToSet(found') = ToSet(groups) \cap Many
  <2> HIDE DEF Many
  <2>1. QED
    BY <1>2, <1>6, OnlyFacts
<1>8. \A i \in DOMAIN found' : found'[i] \in ToSet(groups) /\ ManyFiles(found'[i])
  <2>1. \A i \in DOMAIN found' : found'[i] \in ToSet(found')
    BY Zenon DEF ToSet
  <2>2. QED
    BY <1>7, <2>1, Zenon
<1>9. Grouped(found', Candidates)
  BY <1>6, <1>7, <1>8, Zenon DEF Grouped
<1>10. NothingLost'
  <2>1. files \in Seq(Candidates) /\ Related(files, Below)
    BY <1>1, Zenon DEF NothingLost
  <2>2. QED
    BY <1>2, <1>3, <1>9, <2>1, Zenon DEF NothingLost
<1>11. RoundOK'
  <2>1. ToSet(files) = {}
    <3>1. DOMAIN files = {}
      BY <1>4
    <3>2. QED
      BY <3>1, Zenon DEF ToSet
  <2>2. QED
    BY <1>1, <1>2, <2>1, Zenon DEF RoundOK
<1>12. GroupsFinished'
  <2>1. \A i \in DOMAIN found' : T(found'[i]) <= 2 * PartSize
    BY <1>5, <1>8, Zenon
  <2>2. QED
    BY <1>2, <1>3, <1>4, <1>8, <2>1, Zenon DEF GroupsFinished, ManyFiles, T
<1>13. QED
  BY <1>3, <1>10, <1>11, <1>12, Zenon DEF BundleInv

LEMMA StutterKeeps ==
  ASSUME BundleInv, UNCHANGED bundleVars PROVE BundleInv'
<1>1. /\ vFiles' = vFiles /\ files' = files /\ found' = found /\ cutAt' = cutAt
      /\ visit' = visit /\ made' = made
  BY DEF bundleVars
<1>2. /\ Candidates' = Candidates /\ StorageSize' = StorageSize
      /\ FolderIsScanned => FolderIsScanned'
  BY <1>1, SameFiles, Zenon
<1>3. NothingLost => NothingLost'
  BY <1>1, <1>2, Zenon DEF NothingLost
<1>4. RoundOK => RoundOK'
  BY <1>1, Zenon DEF RoundOK, Prefix
<1>5. GroupsFinished => GroupsFinished'
  BY <1>1, <1>2, Zenon DEF GroupsFinished
<1>6. QED
  BY <1>2, <1>3, <1>4, <1>5, Zenon DEF BundleInv

\* Every reachable state of MakeBundles satisfies the inductive invariant.
THEOREM BundlesInvariant == BundleSpec => []BundleInv
<1>1. BundleInit => BundleInv
  BY InitInv
<1>2. BundleInv /\ [BundleNext]_bundleVars => BundleInv'
  BY NextRoundKeeps, VisitGroupKeeps, FinishKeeps, StutterKeeps DEF BundleNext
<1>3. QED
  BY <1>1, <1>2, PTL DEF BundleSpec


\* No file in two groups, or twice in one: a file stands once in their line.
LEMMA GroupedLine ==
  ASSUME NEW E \in SUBSET Path, NEW gs, Grouped(gs, E)
  PROVE  /\ ToSet(FlattenSeq(gs)) = FilesOf(gs)
         /\ Len(FlattenSeq(gs)) = Cardinality(FilesOf(gs))
<1> DEFINE Unequal == {x \in Path \X Path : x[1] # x[2]}
           line == FlattenSeq(gs)
           n == Len(line)
<1>1. gs \in Seq(Seq(E)) /\ Related(gs, Apart) /\ \A i \in DOMAIN gs : Related(gs[i], Below)
  BY Zenon DEF Grouped
<1>2. \A i \in DOMAIN gs : gs[i] \in Seq(E) /\ gs[i] \in Seq(Path)
  BY <1>1, SeqMonotonic
<1>3. \A p, q \in Path : (<<p, q>> \in Unequal <=> p # q) /\ (p < q => p # q)
  BY PathAssumption
<1> HIDE DEF Unequal
<1>4. ASSUME NEW i \in DOMAIN gs PROVE Related(gs[i], Unequal)
  <2> DEFINE g == gs[i]
  <2>1. g \in Seq(Path) /\ Related(g, Below)
    BY <1>1, <1>2, Zenon
  <2> HIDE DEF g
  <2>2. \A j \in DOMAIN g : g[j] \in Path
    BY <2>1
  <2>3. ASSUME NEW j \in DOMAIN g, NEW k \in DOMAIN g, j < k
        PROVE  <<g[j], g[k]>> \in Unequal
    <3>1. g[j] \in Path /\ g[k] \in Path /\ g[j] < g[k]
      BY <2>1, <2>2, <2>3, BelowIsLess, Zenon DEF Related
    <3>2. g[j] # g[k]
      BY <1>3, <3>1, Zenon
    <3>3. QED
      BY <1>3, <3>1, <3>2, Zenon
  <2>4. QED
    BY <2>3, Zenon DEF Related, g
<1>5. ASSUME NEW i \in DOMAIN gs, NEW j \in DOMAIN gs, i < j,
             NEW x \in ToSet(gs[i]), NEW y \in ToSet(gs[j])
      PROVE  <<x, y>> \in Unequal
  <2>1. gs[i] \in Seq(E) /\ gs[j] \in Seq(E) /\ <<gs[i], gs[j]>> \in Apart
    BY <1>1, <1>2, <1>5, Zenon DEF Related
  <2>2. ToSet(gs[i]) \cap ToSet(gs[j]) = {}
    BY <2>1, ApartIsDisjoint
  <2>3. ToSet(gs[i]) \in SUBSET E /\ ToSet(gs[j]) \in SUBSET E
    BY <2>1, SeqFacts
  <2>4. x \in Path /\ y \in Path /\ x # y
    BY <2>2, <2>3, Zenon
  <2>5. QED
    BY <1>3, <2>4, Zenon
<1>6. line \in Seq(E) /\ ToSet(line) = FilesOf(gs) /\ Related(line, Unequal)
  BY <1>1, <1>4, <1>5, FlattenFacts, Zenon
<1> HIDE DEF line
<1>7. /\ n \in Nat /\ DOMAIN line = 1..n /\ line \in [1..n -> E]
      /\ ToSet(line) = {line[i] : i \in 1..n} /\ ToSet(line) \in SUBSET E
  BY <1>6, SeqFacts
<1> HIDE DEF n
<1>8. ASSUME NEW i \in 1..n, NEW j \in 1..n, line[i] = line[j] PROVE i = j
  <2>1. \A p \in Path : <<p, p>> \notin Unequal
    BY <1>3, Zenon
  <2>2. line[i] \in Path /\ line[j] \in Path
    BY <1>7, Zenon
  <2>3. ~(i < j) /\ ~(j < i)
    BY <1>6, <1>7, <1>8, <2>1, <2>2, Zenon DEF Related
  <2>4. QED
    BY <1>7, <2>3
<1>9. line \in Bijection(1..n, ToSet(line))
  <2>1. line \in [1..n -> ToSet(line)] /\ \A x \in ToSet(line) : \E i \in 1..n : line[i] = x
    BY <1>7, Zenon
  <2>2. QED
    BY <1>8, <2>1, Zenon DEF Bijection, Injection, Surjection, IsInjective
<1>10. ExistsBijection(1..n, ToSet(line))
  BY <1>9, Zenon DEF ExistsBijection
<1>11. IsFiniteSet(1..n) /\ Cardinality(1..n) = n
  BY <1>7, FS_Interval
<1>12. Cardinality(ToSet(line)) = n
  BY <1>10, <1>11, FS_Bijection, Zenon
<1>13. QED
  BY <1>6, <1>12, Zenon DEF line, n

-----------------------------------------------------------------------------
(***************************************************************************)
(* What MakeBundles promises.                                              *)
(***************************************************************************)
\* The state of findGroups has the types of bundle.go.
THEOREM BundlesTypeCorrect == BundleSpec => []BundleTypeOK
<1>1. ASSUME BundleInv PROVE BundleTypeOK
  <2>1. files \in Seq(Candidates) /\ found \in Seq(Seq(Candidates)) /\ RoundOK
    BY <1>1, Zenon DEF BundleInv, NothingLost, Grouped
  <2>2. ToSet(files) \in SUBSET Candidates
    BY <2>1, SeqFacts
  <2>3. ASSUME NEW i \in DOMAIN found PROVE ToSet(found[i]) \in SUBSET Candidates
    <3>1. found[i] \in Seq(Candidates)
      BY <2>1, <2>3
    <3>2. QED
      BY <3>1, SeqFacts
  <2>4. QED
    BY <2>1, <2>2, <2>3, Zenon DEF BundleTypeOK, RoundOK
<1>2. QED
  BY <1>1, BundlesInvariant, PTL

\* The phases of findGroups lose and repeat no file, and neither would
\* splitBigBundles.
THEOREM FilesStayOnce == BundleSpec => []EachFileOnce
<1>1. ASSUME BundleInv, ~made, NEW groups \in {found, SplitBigBundles(found)}
      PROVE  LET line == FlattenSeq(Append(groups, files))
             IN  Len(line) = Cardinality(Candidates) /\ ToSet(line) = Candidates
  <2>1. /\ FolderIsScanned /\ Grouped(found, Candidates)
        /\ files \in Seq(Candidates) /\ Related(files, Below)
        /\ FilesOf(found) \cap ToSet(files) = {}
        /\ FilesOf(found) \cup ToSet(files) = Candidates
    BY <1>1, Zenon DEF BundleInv, NothingLost
  <2>2. /\ Candidates \in SUBSET Path
        /\ \A p \in Candidates : StorageSize[p] \in Nat /\ StorageSize[p] <= PartSize
    BY <2>1, CandidateFacts, Zenon
  <2>3. PartSize \in Nat
    BY SizeAssumption
  <2>4. Grouped(groups, Candidates) /\ FilesOf(groups) = FilesOf(found)
    <3>1. /\ Grouped(SplitBigBundles(found), Candidates)
          /\ FilesOf(SplitBigBundles(found)) = FilesOf(found)
      BY <2>1, <2>2, <2>3, SplitBigFacts, Zenon
    <3>2. QED
      BY <1>1, <2>1, <3>1, Zenon
  <2> DEFINE gs == Append(groups, files)
  <2>5. Grouped(gs, Candidates) /\ FilesOf(gs) = Candidates
    <3>1. FilesOf(groups) \cap ToSet(files) = {}
      BY <2>1, <2>4, Zenon
    <3>2. Grouped(gs, Candidates) /\ FilesOf(gs) = FilesOf(groups) \cup ToSet(files)
      BY <2>1, <2>2, <2>4, <3>1, OneMoreGroup
    <3> HIDE DEF gs
    <3>3. QED
      BY <2>1, <2>4, <3>2, Zenon
  <2> HIDE DEF gs
  <2>6. ToSet(FlattenSeq(gs)) = Candidates /\ Len(FlattenSeq(gs)) = Cardinality(Candidates)
    BY <2>2, <2>5, GroupedLine, Zenon
  <2>7. QED
    BY <2>6, Zenon DEF gs
<1>2. BundleInv => EachFileOnce
  BY <1>1, Zenon DEF EachFileOnce
<1>3. QED
  BY <1>2, BundlesInvariant, PTL

\* splitBigBundles keeps every bundle within two parts.
THEOREM BundlesAreSmall == BundleSpec => []BundleSizes
<1>1. BundleInv => BundleSizes
  BY Zenon DEF BundleInv, GroupsFinished, BundleSizes
<1>2. QED
  BY <1>1, BundlesInvariant, PTL

\* The rounds of findGroups reach every file: none waits when they are over.
THEOREM AllFilesTaken == BundleSpec => []NobodyForgotten
<1>1. BundleInv => NobodyForgotten
  <2>1. BundleInv /\ made => files = << >>
    BY Zenon DEF BundleInv, GroupsFinished
  <2>2. QED
    BY <2>1, AllTaken, Zenon DEF NobodyForgotten
<1>2. QED
  BY <1>1, BundlesInvariant, PTL


\* Groups of two or more take two files each.
LEMMA TwoPerGroup ==
  ASSUME NEW E \in SUBSET Path, NEW gs, Grouped(gs, E),
         \A i \in DOMAIN gs : Len(gs[i]) > 1
  PROVE  Len(gs) \in Nat /\ 2 * Len(gs) <= Cardinality(E)
<1> DEFINE k == Len(gs)
           D == (1..k) \X {1, 2}
           h == [x \in D |-> gs[x[1]][x[2]]]
<1>1. gs \in Seq(Seq(E)) /\ Related(gs, Apart) /\ \A i \in DOMAIN gs : Related(gs[i], Below)
  BY Zenon DEF Grouped
<1>2. /\ k \in Nat /\ DOMAIN gs = 1..k
      /\ \A i \in 1..k : gs[i] \in Seq(E) /\ Len(gs[i]) > 1
  BY <1>1
<1> HIDE DEF k
<1>3. ASSUME NEW i \in 1..k, NEW e \in {1, 2}
      PROVE  e \in DOMAIN gs[i] /\ gs[i][e] \in E /\ gs[i][e] \in ToSet(gs[i])
  <2> DEFINE g == gs[i]
  <2>1. g \in Seq(E) /\ Len(g) > 1
    BY <1>2, Zenon
  <2> HIDE DEF g
  <2>2. e \in DOMAIN g /\ g[e] \in E
    BY <2>1
  <2>3. QED
    BY <2>2, Zenon DEF ToSet, g
<1>4. ASSUME NEW i \in 1..k, NEW j \in 1..k, NEW e \in {1, 2}, NEW d \in {1, 2},
             gs[i][e] = gs[j][d]
      PROVE  i = j /\ e = d
  <2>1. ASSUME NEW m \in 1..k, NEW n \in 1..k, m < n,
               NEW x \in ToSet(gs[m]), x \in ToSet(gs[n])
        PROVE  FALSE
    <3>1. <<gs[m], gs[n]>> \in Apart /\ gs[m] \in Seq(E) /\ gs[n] \in Seq(E)
      BY <1>1, <1>2, <2>1, Zenon DEF Related
    <3>2. ToSet(gs[m]) \cap ToSet(gs[n]) = {}
      BY <3>1, ApartIsDisjoint
    <3>3. QED
      BY <2>1, <3>2, Zenon
  <2>2. ~(i < j) /\ ~(j < i)
    BY <1>3, <1>4, <2>1, Zenon
  <2>3. i = j
    BY <1>2, <2>2
  <2>4. gs[i][1] < gs[i][2]
    <3>1. /\ 1 \in {1, 2} /\ 2 \in {1, 2} /\ 1 < 2
          /\ \A p \in E : p \in Path
      OBVIOUS
    <3>2. <<gs[i][1], gs[i][2]>> \in Below
      BY <1>1, <1>2, <1>3, <3>1, Zenon DEF Related
    <3>3. gs[i][1] \in Path /\ gs[i][2] \in Path
      BY <1>3, <3>1, Zenon
    <3>4. QED
      BY <3>2, <3>3, BelowIsLess, Zenon
  <2>5. gs[i][1] # gs[i][2]
    <3>1. \A p, q \in Path : p < q => p # q
      BY PathAssumption
    <3>2. gs[i][1] \in Path /\ gs[i][2] \in Path
      BY <1>3
    <3>3. QED
      BY <2>4, <3>1, <3>2, Zenon
  <2>6. QED
    BY <1>4, <2>3, <2>5
<1>5. h \in [D -> E]
  <2>1. ASSUME NEW x \in D PROVE gs[x[1]][x[2]] \in E
    <3>1. x[1] \in 1..k /\ x[2] \in {1, 2}
      OBVIOUS
    <3>2. QED
      BY <1>3, <3>1, Zenon
  <2> HIDE DEF D
  <2>2. QED
    BY <2>1, Zenon
<1>6. ASSUME NEW x \in D, NEW y \in D, h[x] = h[y] PROVE x = y
  <2>1. /\ x[1] \in 1..k /\ x[2] \in {1, 2} /\ y[1] \in 1..k /\ y[2] \in {1, 2}
        /\ (x[1] = y[1] /\ x[2] = y[2] => x = y)
    OBVIOUS
  <2>2. gs[x[1]][x[2]] = gs[y[1]][y[2]]
    BY <1>6, Zenon
  <2>3. x[1] = y[1] /\ x[2] = y[2]
    <3> DEFINE i == x[1]
               j == y[1]
               e == x[2]
               d == y[2]
    <3>1. i \in 1..k /\ j \in 1..k /\ e \in {1, 2} /\ d \in {1, 2} /\ gs[i][e] = gs[j][d]
      BY <2>1, <2>2, Zenon
    <3> HIDE DEF i, j, e, d
    <3>2. i = j /\ e = d
      BY <1>4, <3>1
    <3>3. QED
      BY <3>2, Zenon DEF i, j, e, d
  <2>4. QED
    BY <2>1, <2>3, Zenon
<1> HIDE DEF h, D
<1>7. h \in Injection(D, E)
  BY <1>5, <1>6, Zenon DEF Injection, IsInjective
<1>8. IsFiniteSet(E)
  BY PathAssumption, FS_Subset
<1>9. Cardinality(D) <= Cardinality(E)
  BY <1>7, <1>8, FS_Injection, Zenon
<1>10. Cardinality(D) = k * 2
  <2>1. IsFiniteSet(1..k) /\ Cardinality(1..k) = k
    BY <1>2, FS_Interval
  <2>2. IsFiniteSet({1}) /\ Cardinality({1}) = 1
    BY FS_Singleton
  <2>3. IsFiniteSet({1} \cup {2}) /\ Cardinality({1} \cup {2}) = 2
    <3>1. 2 \notin {1} /\ 1 + 1 = 2
      OBVIOUS
    <3>2. IsFiniteSet({1} \cup {2}) /\ Cardinality({1} \cup {2}) = Cardinality({1}) + 1
      BY <2>2, <3>1, FS_AddElement, Zenon
    <3>3. QED
      BY <2>2, <3>1, <3>2, Zenon
  <2>4. {1} \cup {2} = {1, 2}
    OBVIOUS
  <2>5. Cardinality((1..k) \X {1, 2}) = Cardinality(1..k) * Cardinality({1, 2})
    BY <2>1, <2>3, <2>4, FS_Product, Zenon
  <2>6. QED
    BY <2>1, <2>3, <2>4, <2>5, Zenon DEF D
<1>11. QED
  BY <1>2, <1>9, <1>10 DEF k

\* MakeBundles keeps the promise that Upload, Clean and Open are proved with.
THEOREM PromiseKept == BundleSpec => []KeepsPromise
<1>1. ASSUME BundleInv, made PROVE found \in Groupings(vFiles)
  <2> DEFINE B == Bundleable(vFiles)
             k == Len(found)
             In(p, i) == p \in ToSet(found[i])
             l == [p \in B |-> IF \E i \in 1..k : In(p, i)
                                 THEN CHOOSE i \in 1..k : In(p, i)
                                 ELSE 0]
             Members(m, i) == {p \in B : m[p] = i}
  <2>1. /\ B = Candidates /\ Grouped(found, B) /\ FolderIsScanned
        /\ \A i \in DOMAIN found : ManyFiles(found[i])
    BY <1>1, Zenon DEF BundleInv, NothingLost, GroupsFinished, Candidates
  <2>2. B \in SUBSET Path /\ IsFiniteSet(B)
    BY <2>1, CandidateFacts, Zenon
  <2> HIDE DEF B
  <2>3. /\ found \in Seq(Seq(B)) /\ Related(found, Apart)
        /\ \A i \in DOMAIN found : Related(found[i], Below)
    BY <2>1, Zenon DEF Grouped
  <2>4. /\ k \in Nat /\ DOMAIN found = 1..k /\ \A i \in 1..k : found[i] \in Seq(B)
        /\ found = [i \in 1..k |-> found[i]]
    BY <2>3
  <2>5. 2 * k <= Cardinality(B)
    BY <2>1, <2>2, TwoPerGroup DEF ManyFiles
  <2>6. k \in 0..(Cardinality(B) \div 2)
    <3>1. Cardinality(B) \in Nat
      BY <2>2, FS_CardinalityType
    <3> HIDE DEF k
    <3>2. QED
      BY <2>4, <2>5, <3>1
  <2> HIDE DEF k
  <2>7. ASSUME NEW i \in 1..k PROVE ToSet(found[i]) = Members(l, i)
    <3>1. ToSet(found[i]) \in SUBSET B
      BY <2>4, SeqFacts
    <3>2. ASSUME NEW j \in 1..k, NEW p \in ToSet(found[i]), p \in ToSet(found[j])
          PROVE  i = j
      <4>1. ASSUME NEW m \in 1..k, NEW n \in 1..k, m < n,
                   p \in ToSet(found[m]), p \in ToSet(found[n])
            PROVE  FALSE
        <5>1. /\ <<found[m], found[n]>> \in Apart
              /\ found[m] \in Seq(B) /\ found[n] \in Seq(B)
          BY <2>3, <2>4, <4>1, Zenon DEF Related
        <5>2. ToSet(found[m]) \cap ToSet(found[n]) = {}
          BY <2>2, <5>1, ApartIsDisjoint
        <5>3. QED
          BY <4>1, <5>2, Zenon
      <4>2. ~(i < j) /\ ~(j < i)
        BY <3>2, <4>1, Zenon
      <4>3. QED
        BY <2>4, <4>2
    <3>3. ASSUME NEW p \in ToSet(found[i]) PROVE p \in B /\ l[p] = i
      <4>1. p \in B /\ In(p, i)
        BY <3>1, Zenon
      <4>2. \A j \in 1..k : In(p, j) => j = i
        BY <3>2, Zenon
      <4>3. (CHOOSE j \in 1..k : In(p, j)) = i
        BY <4>1, <4>2, Zenon
      <4>4. QED
        BY <4>1, <4>3, Zenon
    <3>4. ASSUME NEW p \in B, l[p] = i PROVE p \in ToSet(found[i])
      <4>1. i # 0
        BY <2>4
      <4>2. \E j \in 1..k : In(p, j)
        BY <3>4, <4>1, Zenon
      <4>3. In(p, CHOOSE j \in 1..k : In(p, j)) /\ l[p] = CHOOSE j \in 1..k : In(p, j)
        BY <4>2, Zenon
      <4>4. QED
        BY <3>4, <4>3, Zenon
    <3> HIDE DEF l
    <3>5. QED
      BY <3>3, <3>4, Zenon
  <2>8. ASSUME NEW i \in 1..k
        PROVE  found[i] = Ascending(Members(l, i)) /\ Cardinality(Members(l, i)) > 1
    <3>1. found[i] = Ascending(ToSet(found[i])) /\ Len(found[i]) = Cardinality(ToSet(found[i]))
      BY <2>2, <2>3, <2>4, SortedIsAscending, Zenon
    <3>2. Len(found[i]) > 1
      BY <2>1, <2>4, Zenon DEF ManyFiles
    <3> HIDE DEF Members
    <3>3. QED
      BY <2>7, <3>1, <3>2, Zenon
  <2>9. l \in [B -> 0..k]
    <3>1. ASSUME NEW p \in B
          PROVE  (IF \E i \in 1..k : In(p, i) THEN CHOOSE i \in 1..k : In(p, i) ELSE 0) \in 0..k
      <4>1. 0 \in 0..k /\ \A i \in 1..k : i \in 0..k
        BY <2>4
      <4>2. QED
        BY <4>1, Zenon
    <3> HIDE DEF In
    <3>2. QED
      BY <3>1, Zenon
  <2> HIDE DEF l
  <2> DEFINE lists(n) == {[i \in 1..n |-> Ascending(Members(m, i))] :
                            m \in {m \in [B -> 0..n] :
                                     \A i \in 1..n : Cardinality(Members(m, i)) > 1}}
  <2>10. Groupings(vFiles) = UNION {lists(n) : n \in 0..(Cardinality(B) \div 2)}
    BY Zenon DEF Groupings, B
  <2>11. found \in lists(k)
    <3>1. found = [i \in 1..k |-> Ascending(Members(l, i))]
      BY <2>4, <2>8, Zenon
    <3> HIDE DEF Members
    <3>2. QED
      BY <2>8, <2>9, <3>1, Zenon
  <2> HIDE DEF lists
  <2>12. QED
    BY <2>6, <2>10, <2>11, Zenon
<1>2. BundleInv => KeepsPromise
  BY <1>1, Zenon DEF KeepsPromise
<1>3. QED
  BY <1>2, BundlesInvariant, PTL

LEMMA MakeBundlesIsSnapshot ==
  ASSUME NEW D \in SUBSET Path, NEW content, \A p \in D : content[p] \in Seq(Chunk),
         NEW vf, vf = [p \in D |-> ScanFile(content[p])],
         NEW groups \in Groupings(vf),
         NEW db, db = MakeBundles(vf, groups)
  PROVE  IsSnapshot(db)
<1> DEFINE dir == FolderOf(db)
           plain(p) == [i \in DOMAIN db.VFiles[p].Parts |-> PlainOf(db.VFiles[p].Parts[i])[1]]
<1>1. DOMAIN db.VFiles = D /\ \A p \in D : ScanOf(db.VFiles[p], content[p])
  BY MakeBundlesFacts DEF ScanOf
<1>2. ASSUME NEW p \in D PROVE plain(p) = content[p]
  <2> DEFINE c == content[p]
             parts == db.VFiles[p].Parts
  <2>1. c \in Seq(Chunk) /\ ScanOf(db.VFiles[p], c)
    BY <1>1, Zenon
  <2> HIDE DEF c
  <2>2. /\ DOMAIN parts = 1..Len(c)
        /\ \A i \in 1..Len(c) : parts[i] = VFilePart(c[i], UseCompression(c))
    BY <2>1, ScanParts, Zenon
  <2> HIDE DEF parts
  <2>3. ASSUME NEW i \in 1..Len(c) PROVE PlainOf(parts[i])[1] = c[i]
    <3> DEFINE part == parts[i]
               x == c[i]
               compr == UseCompression(c)
    <3>1. part = VFilePart(x, compr)
      BY <2>2, Zenon
    <3> HIDE DEF part, x, compr
    <3>2. PlainOf(part)[1] = x
      BY <3>1, PartFields
    <3>3. QED
      BY <3>2, Zenon DEF part, x
  <2>4. [i \in DOMAIN parts |-> PlainOf(parts[i])[1]] = [i \in 1..Len(c) |-> c[i]]
    BY <2>2, <2>3, Zenon
  <2>5. [i \in 1..Len(c) |-> c[i]] = c
    BY <2>1
  <2>6. QED
    BY <2>4, <2>5, Zenon DEF parts, c
<1>3. dir = [p \in D |-> plain(p)]
  BY <1>1, Zenon DEF FolderOf
<1>4. DOMAIN dir = D /\ \A p \in D : dir[p] = content[p]
  BY <1>2, <1>3, Zenon
<1> HIDE DEF dir
<1>5. [p \in DOMAIN dir |-> ScanFile(dir[p])] = vf
  BY <1>4, Zenon
<1>6. DOMAIN dir \subseteq Path /\ \A p \in DOMAIN dir : dir[p] \in Seq(Chunk)
  BY <1>4, Zenon
<1>7. \E gs \in Groupings(vf) : db = MakeBundles(vf, gs)
  BY Zenon
<1>8. QED
  BY <1>5, <1>6, <1>7, Zenon DEF IsSnapshot, dir

\* What the scan and MakeBundles hand to Upload, Clean and Open is a db as their
\* modules expect it.
THEOREM SnapshotMade ==
  BundleSpec => [](made => IsSnapshot(MakeBundles(vFiles, found)))
<1>1. BundleInv /\ KeepsPromise => (made => IsSnapshot(MakeBundles(vFiles, found)))
  <2> SUFFICES ASSUME BundleInv, KeepsPromise, made
               PROVE  IsSnapshot(MakeBundles(vFiles, found))
    OBVIOUS
  <2>1. PICK content \in Folders :
          vFiles = [p \in DOMAIN content |-> ScanFile(content[p])]
    BY Zenon DEF BundleInv, FolderIsScanned
  <2>2. DOMAIN content \in SUBSET Path /\ \A p \in DOMAIN content : content[p] \in Seq(Chunk)
    BY BundlesAssumption
  <2>3. found \in Groupings(vFiles)
    BY Zenon DEF KeepsPromise
  <2>4. QED
    BY <2>1, <2>2, <2>3, MakeBundlesIsSnapshot, Zenon
<1>2. QED
  BY <1>1, BundlesInvariant, PromiseKept, PTL

-----------------------------------------------------------------------------
(***************************************************************************)
(* FromScan: the inductive invariant.                                      *)
(***************************************************************************)
Part == {VFilePart(c, compr) : c \in Chunk, compr \in BOOLEAN}

Scanning == pc \in {"stat", "compr", "open", "hash", "md5"}
InFile == pc \in {"compr", "open", "hash", "md5"}

\* Nobody has changed what is at p since the entry was begun: an edit leaves a
\* later mtime, or is the second one of its second.
Unedited(entry, p) == entry.MTime = mtime[p] /\ p \notin blurred

FoldersOK ==
  /\ disk \in [DOMAIN disk -> Contents \cup {Dir}]
  /\ lastEdit = mtime
  /\ DOMAIN newDb \subseteq Path \cup {Root}
  /\ DOMAIN oldDb \subseteq Path \cup {Root}
  /\ Scanning => path \in Path
  /\ pc \in {"walk", "list", "kinds"} => newDb = << >>

\* An entry of a db is right as long as it is unedited.
RightFile(entry, p) ==
  /\ IsFile(p)
  /\ entry.Parts = ScanFile(disk[p]).Parts
  /\ entry.UseCompression = ScanFile(disk[p]).UseCompression

RightEntry(entry, p) ==
  /\ entry.MTime \in 0..mtime[p]
  /\ p \in Path /\ Unedited(entry, p) /\ ~entry.IsDir => RightFile(entry, p)
  /\ p = Root /\ Unedited(entry, p) => entry.FolderContent = Listing(DOMAIN disk)

RightDb(db) == \A p \in DOMAIN db : RightEntry(db[p], p)

\* The same for the entry of the folder while it is made ...
RootOK ==
  pc \in {"walk", "list", "kinds"} =>
    /\ rootEntry.MTime \in 0..mtime[Root]
    /\ pc = "kinds" /\ Unedited(rootEntry, Root) => listed = DOMAIN disk

\* ... and for that of a file.  Compr is what tryCompression finds.
Compr(content) ==
  /\ PlainLength(content) <= MaxFileSizeForCompression
  /\ PlainLength(content) < PartSize
  /\ 10 * ComprLength(content) < 8 * PlainLength(content)

PartsSoFar ==
  /\ vFile.Parts \in Seq(Part) /\ Len(vFile.Parts) <= Len(fh)
  /\ \A i \in 1..Len(vFile.Parts) :
       vFile.Parts[i] = VFilePart(fh[i], vFile.UseCompression)
  /\ vFile.UseCompression => Len(vFile.Parts) <= 1
  /\ pc = "md5" => partNo <= Len(fh) /\ sha = <<fh[partNo]>>

FileOK ==
  InFile =>
    /\ DOMAIN vFile = {"IsDir", "FileSize", "MTime", "FolderContent", "Parts",
                       "UseCompression"}
    /\ vFile.MTime \in 0..mtime[path]
    /\ Unedited(vFile, path) =>
         /\ IsFile(path) /\ vFile.FileSize = PlainLength(disk[path])
         /\ pc # "compr" => vFile.UseCompression = Compr(disk[path])
         /\ pc \in {"compr", "open"} => vFile.Parts = << >>
         /\ pc \in {"hash", "md5"} => fh = disk[path] /\ PartsSoFar

\* What nobody disturbs: the names are those of the folder, and each element is
\* in newDb, or still to be visited.
CalmOK ==
  calm =>
    /\ pc \in {"list", "kinds"} => names = DOMAIN disk
    /\ pc = "kinds" => listed = DOMAIN disk
    /\ pc = "visit" \/ Scanning =>
         /\ Root \in DOMAIN newDb
         /\ newDb[Root].FolderContent = Listing(DOMAIN disk)
         /\ \A p \in DOMAIN newDb \ {Root} :
              p \in DOMAIN disk /\ StatOf(newDb[p]) = Stat(p)
         /\ names \subseteq DOMAIN disk
         /\ \A p \in DOMAIN disk : \/ p \in DOMAIN newDb \/ p \in names
                                   \/ Scanning /\ p = path
    /\ Scanning => path \in DOMAIN disk
    /\ InFile => StatOf(vFile) = Stat(path)

\* The old db, while it is worked off.
OldDbOK ==
  pc # "idle" =>
    /\ \A p \in DOMAIN oldDb : p \in DOMAIN localDb /\ oldDb[p] = localDb[p]
    /\ DOMAIN localDb \subseteq DOMAIN oldDb \cup DOMAIN newDb
    /\ Scanning => changed
    /\ ~changed => \A p \in DOMAIN newDb \ {Root} :
                     p \in DOMAIN localDb /\ newDb[p] = localDb[p]
    /\ ~changed /\ calm => /\ Root \in DOMAIN localDb
                           /\ localDb[Root].MTime = mtime[Root]

IInv ==
  /\ TypeOK /\ FoldersOK /\ RightDb(localDb) /\ RightDb(newDb)
  /\ RootOK /\ FileOK /\ CalmOK /\ OldDbOK

-----------------------------------------------------------------------------
(***************************************************************************)
(* Lengths, compression, and the order of the walk.                        *)
(***************************************************************************)
\* The length of the contents that can be compressed.
LEMMA LengthFacts ==
  /\ PlainLength(<< >>) = 0 /\ ComprLength(<< >>) = 0
  /\ \A c \in Chunk : /\ PlainLength(<<c>>) = PlainSize[c]
                      /\ ComprLength(<<c>>) = ComprSize[c]
<1>1. ASSUME NEW size, \A c \in Chunk : size[c] \in Nat
      PROVE  /\ TotalSize(size, << >>) = 0
             /\ \A c \in Chunk : TotalSize(size, <<c>>) = size[c]
  <2>1. << >> \in Seq(Chunk) /\ \A c : Append(<< >>, c) = <<c>>
    OBVIOUS
  <2>2. /\ TotalSize(size, << >>) = 0
        /\ \A c \in Chunk : TotalSize(size, Append(<< >>, c)) = TotalSize(size, << >>) + size[c]
    BY <1>1, <2>1, TotalSizeFacts
  <2>3. ASSUME NEW c \in Chunk PROVE TotalSize(size, <<c>>) = size[c]
    <3>1. TotalSize(size, <<c>>) = 0 + size[c]
      BY <2>1, <2>2, Zenon
    <3>2. QED
      BY <1>1, <3>1
  <2>4. QED
    BY <2>2, <2>3, Zenon
<1>2. /\ \A content : PlainLength(content) = TotalSize(PlainSize, content)
      /\ \A content : ComprLength(content) = TotalSize(ComprSize, content)
  BY Zenon DEF PlainLength, ComprLength, TotalSize
<1>3. \A c \in Chunk : PlainSize[c] \in Nat /\ ComprSize[c] \in Nat
  BY SizeAssumption
<1>4. QED
  BY <1>1, <1>2, <1>3, Zenon

LEMMA SmallestIsElement ==
  ASSUME NEW S \in SUBSET Path, S # {}
  PROVE  Smallest(S) \in S
<1>1. S \in SUBSET Nat
  BY PathAssumption
<1>2. \E x \in S : \A q \in S : x <= q
  BY <1>1, LeastOne
<1>3. QED
  BY <1>2, Zenon DEF Smallest

LEMMA LengthCases ==
  ASSUME NEW content \in Seq(Chunk)
  PROVE  /\ Len(content) = 0 \/ Len(content) = 1 \/ Len(content) > 1
         /\ Len(content) > 1 => Len(content) # 1 /\ ~(Len(content) <= 1)
<1>1. Len(content) \in Nat
  BY LenProperties, Zenon
<1>2. \A n \in Nat : /\ n = 0 \/ n = 1 \/ n > 1
                     /\ n > 1 => n # 1 /\ ~(n <= 1)
  OBVIOUS
<1>3. QED
  BY <1>1, <1>2, Zenon

\* For the contents it can be true of, tryCompression finds what ScanFile says.
LEMMA ComprIsUseCompression ==
  ASSUME NEW content \in Seq(Chunk), Compr(content) => Len(content) <= 1
  PROVE  Compr(content) = UseCompression(content)
<1>1. Compr(content) <=> UseCompression(content)
  <2>1. CASE Len(content) = 0
    <3>1. content = << >>
      BY <2>1
    <3>2. ~Compr(content)
      BY <3>1, LengthFacts DEF Compr
    <3>3. ~UseCompression(content)
      BY <2>1 DEF UseCompression
    <3>4. QED
      BY <3>2, <3>3, Zenon
  <2>2. CASE Len(content) = 1
    <3>1. content = <<content[1]>> /\ content[1] \in Chunk
      BY <2>2
    <3>2. /\ PlainLength(content) = PlainSize[content[1]]
          /\ ComprLength(content) = ComprSize[content[1]]
      BY <3>1, LengthFacts, Zenon
    <3>3. QED
      BY <2>2, <3>2 DEF Compr, UseCompression
  <2>3. CASE Len(content) > 1
    BY <2>3, LengthCases, Zenon DEF UseCompression
  <2>4. QED
    BY <2>1, <2>2, <2>3, LengthCases, Zenon
<1>2. QED
  BY <1>1 DEF Compr, UseCompression

-----------------------------------------------------------------------------
(***************************************************************************)
(* Edits, and what they leave alone.                                       *)
(***************************************************************************)
Seen == <<disk, mtime, blurred>>

LEMMA SameDbs ==
  ASSUME UNCHANGED Seen, NEW db, RightDb(db)
  PROVE  RightDb(db)'
  BY DEF Seen, RightDb, RightEntry, RightFile, Unedited, IsFile, Listing

LEMMA InitInvariant ==
  ASSUME Init
  PROVE  IInv
<1>1. TypeOK
  BY ScanAssumption DEF Init, TypeOK
<1>2. FoldersOK
  BY DEF Init, FoldersOK, Scanning
<1>3. RightDb(localDb) /\ RightDb(newDb)
  BY DEF Init, RightDb
<1>4. RootOK /\ FileOK
  BY DEF Init, RootOK, FileOK, InFile
<1>5. CalmOK /\ OldDbOK
  BY DEF Init, CalmOK, OldDbOK, InFile, Scanning
<1>6. QED
  BY <1>1, <1>2, <1>3, <1>4, <1>5 DEF IInv

\* An edit is at a path, and changes S.  It leaves a mtime, or blurs one.
EditOf(p, S) ==
  /\ p \in Path /\ p \in S /\ S \subseteq {p, Root} /\ Touch(S)
  /\ DOMAIN disk' \subseteq Path
  /\ disk' \in [DOMAIN disk' -> Contents \cup {Dir}]
  /\ \A q \in Path \ {p} : /\ q \in DOMAIN disk' <=> q \in DOMAIN disk
                           /\ q \in DOMAIN disk => disk'[q] = disk[q]
  /\ Root \notin S => /\ DOMAIN disk' = DOMAIN disk
                      /\ p \in DOMAIN disk => disk[p] # Dir /\ disk'[p] # Dir
  /\ fh' = fh \/ p = path

LEMMA EditFacts ==
  ASSUME TypeOK, FoldersOK, Edit
  PROVE  \E p, S : EditOf(p, S)
<1>1. PICK p \in Path :
       \/ /\ p \in DOMAIN disk /\ disk[p] # Dir
          /\ \E c \in Contents \ {disk[p]} :
               /\ disk' = [disk EXCEPT ![p] = c]
               /\ \/ fh' = fh /\ Touch({p, Root})
                  \/ /\ fh' = IF pc \in {"hash", "md5"} /\ p = path THEN c ELSE fh
                     /\ Touch({p})
       \/ /\ p \notin DOMAIN disk
          /\ \E c \in Contents \cup {Dir} :
               disk' = [q \in DOMAIN disk \cup {p} |-> IF q = p THEN c ELSE disk[q]]
          /\ fh' = fh /\ Touch({p, Root})
       \/ /\ p \in DOMAIN disk
          /\ disk' = [q \in DOMAIN disk \ {p} |-> disk[q]]
          /\ fh' = fh /\ Touch({p, Root})
  BY DEF Edit
<1> USE DEF EditOf
<1>2. disk \in [DOMAIN disk -> Contents \cup {Dir}] /\ DOMAIN disk \subseteq Path
  BY DEF FoldersOK, TypeOK
<1>3. CASE /\ p \in DOMAIN disk /\ disk[p] # Dir
           /\ \E c \in Contents \ {disk[p]} :
                /\ disk' = [disk EXCEPT ![p] = c]
                /\ \/ fh' = fh /\ Touch({p, Root})
                   \/ /\ fh' = IF pc \in {"hash", "md5"} /\ p = path THEN c ELSE fh
                      /\ Touch({p})
  <2>1. PICK c \in Contents \ {disk[p]} :
             /\ disk' = [disk EXCEPT ![p] = c]
             /\ \/ fh' = fh /\ Touch({p, Root})
                \/ /\ fh' = IF pc \in {"hash", "md5"} /\ p = path THEN c ELSE fh
                   /\ Touch({p})
    BY <1>3
  <2>2. /\ DOMAIN disk' = DOMAIN disk /\ disk'[p] = c /\ c # Dir
        /\ disk' \in [DOMAIN disk' -> Contents \cup {Dir}]
        /\ \A q \in Path \ {p} : q \in DOMAIN disk => disk'[q] = disk[q]
    <3>1. c # Dir
      BY ScanAssumption
    <3>2. QED
      BY <1>2, <1>3, <2>1, <3>1
  <2>3. fh' = fh \/ p = path
    BY <2>1
  <2>4. CASE Touch({p, Root})
    <3>1. EditOf(p, {p, Root})
      BY <1>2, <2>2, <2>3, <2>4, Zenon
    <3>2. QED
      BY <3>1, Zenon
  <2>5. CASE Touch({p})
    <3>1. EditOf(p, {p})
      BY <1>2, <1>3, <2>2, <2>3, <2>5, Zenon
    <3>2. QED
      BY <3>1, Zenon
  <2>6. QED
    BY <2>1, <2>4, <2>5
<1>4. CASE /\ p \notin DOMAIN disk
           /\ \E c \in Contents \cup {Dir} :
                disk' = [q \in DOMAIN disk \cup {p} |-> IF q = p THEN c ELSE disk[q]]
           /\ fh' = fh /\ Touch({p, Root})
  <2>1. PICK c \in Contents \cup {Dir} :
             disk' = [q \in DOMAIN disk \cup {p} |-> IF q = p THEN c ELSE disk[q]]
    BY <1>4
  <2>2. /\ DOMAIN disk' = DOMAIN disk \cup {p}
        /\ disk' \in [DOMAIN disk' -> Contents \cup {Dir}]
        /\ \A q \in DOMAIN disk \ {p} : disk'[q] = disk[q]
    BY <1>2, <2>1
  <2>3. EditOf(p, {p, Root})
    BY <1>2, <1>4, <2>2
  <2>4. QED
    BY <2>3, Zenon
<1>5. CASE /\ p \in DOMAIN disk
           /\ disk' = [q \in DOMAIN disk \ {p} |-> disk[q]]
           /\ fh' = fh /\ Touch({p, Root})
  <2>1. /\ DOMAIN disk' = DOMAIN disk \ {p}
        /\ disk' \in [DOMAIN disk' -> Contents \cup {Dir}]
        /\ \A q \in DOMAIN disk \ {p} : disk'[q] = disk[q]
    BY <1>2, <1>5
  <2>2. EditOf(p, {p, Root})
    BY <1>2, <1>5, <2>1
  <2>3. QED
    BY <2>2, Zenon
<1>6. QED
  BY <1>1, <1>3, <1>4, <1>5

\* Without a change of the folder itself, names and kinds stay.
LEMMA SameListing ==
  ASSUME TypeOK, NEW p, NEW S, EditOf(p, S), Root \notin S
  PROVE  DOMAIN disk' = DOMAIN disk /\ Listing(DOMAIN disk)' = Listing(DOMAIN disk)
<1>1. DOMAIN disk' = DOMAIN disk
  BY DEF EditOf
<1>2. \A q \in DOMAIN disk : (disk'[q] = Dir) = (disk[q] = Dir)
  BY DEF EditOf, TypeOK
<1>3. QED
  BY <1>1, <1>2, Zenon DEF Listing

\* What an entry describes is changed, and the entry is then no longer unedited.
LEMMA EditIsSeen ==
  ASSUME TypeOK, FoldersOK, NEW p, NEW S, EditOf(p, S),
         NEW entry, NEW q \in Path \cup {Root}, entry.MTime \in 0..mtime[q]
  PROVE  /\ entry.MTime \in 0..mtime'[q]
         /\ Unedited(entry, q)' => Unedited(entry, q) /\ q \notin S
<1>1. /\ DOMAIN mtime = Path \cup {Root} /\ lastEdit = mtime
      /\ mtime[q] \in 0..clock /\ clock \in Nat
  BY DEF TypeOK, FoldersOK
<1>2. /\ mtime'[q] = IF q \in S THEN clock ELSE mtime[q]
      /\ q \in blurred' <=> (q \in blurred /\ q \notin S) \/ (q \in S /\ mtime[q] = clock)
  BY <1>1, Zenon DEF EditOf, Touch
<1>3. CASE q \in S
  <2>1. mtime'[q] = clock /\ (mtime[q] = clock => q \in blurred')
    BY <1>2, <1>3
  <2>2. entry.MTime \in 0..mtime'[q]
    BY <1>1, <2>1
  <2>3. entry.MTime = mtime'[q] => mtime[q] = clock
    BY <1>1, <2>1
  <2>4. QED
    BY <2>1, <2>2, <2>3, Zenon DEF Unedited
<1>4. CASE q \notin S
  BY <1>2, <1>4, Zenon DEF Unedited
<1>5. QED
  BY <1>3, <1>4

LEMMA EditKeepsDbs ==
  ASSUME TypeOK, FoldersOK, NEW p, NEW S, EditOf(p, S),
         NEW db, RightDb(db), DOMAIN db \subseteq Path \cup {Root}
  PROVE  RightDb(db)'
<1>1. SUFFICES ASSUME NEW q \in DOMAIN db
               PROVE  RightEntry(db[q], q)'
  BY DEF RightDb
<1>2. RightEntry(db[q], q) /\ q \in Path \cup {Root}
  BY DEF RightDb
<1>3. /\ db[q].MTime \in 0..mtime'[q]
      /\ Unedited(db[q], q)' => Unedited(db[q], q) /\ q \notin S
  BY <1>2, EditIsSeen DEF RightEntry
<1>4. ASSUME q \in Path, Unedited(db[q], q)', ~db[q].IsDir
      PROVE  RightFile(db[q], q)'
  <2>1. q # p
    BY <1>3, <1>4 DEF EditOf
  <2>2. RightFile(db[q], q)
    BY <1>2, <1>3, <1>4, Zenon DEF RightEntry
  <2>3. /\ q \in DOMAIN disk' <=> q \in DOMAIN disk
        /\ q \in DOMAIN disk => disk'[q] = disk[q]
    BY <1>4, <2>1, Zenon DEF EditOf
  <2>4. QED
    BY <2>2, <2>3, Zenon DEF RightFile, IsFile
<1>5. ASSUME q = Root, Unedited(db[q], q)'
      PROVE  db[q].FolderContent = Listing(DOMAIN disk)'
  <2>1. db[q].FolderContent = Listing(DOMAIN disk) /\ Root \notin S
    BY <1>2, <1>3, <1>5, Zenon DEF RightEntry
  <2>2. QED
    BY <2>1, SameListing, Zenon
<1>6. QED
  BY <1>3, <1>4, <1>5, Zenon DEF RightEntry

LEMMA EditKeeps ==
  ASSUME IInv, Edit
  PROVE  IInv'
<1>1. TypeOK /\ FoldersOK
  BY DEF IInv
<1>2. PICK p, S : EditOf(p, S)
  BY <1>1, EditFacts
<1>3. /\ UNCHANGED <<clock, localDb, pc, names, scan, path, vFile, comprSize, sha>>
      /\ calm' = FALSE
  BY DEF Edit
<1>4. UNCHANGED <<listed, rootEntry, oldDb, newDb, changed>>
  BY <1>3 DEF scan
<1>5. TypeOK' /\ FoldersOK'
  <2>1. /\ mtime' \in [Path \cup {Root} -> 0..clock]
        /\ lastEdit' = mtime'
        /\ blurred' \subseteq Path \cup {Root}
    <3>1. /\ mtime \in [Path \cup {Root} -> 0..clock] /\ lastEdit = mtime
          /\ blurred \subseteq Path \cup {Root} /\ S \subseteq Path \cup {Root}
          /\ clock \in 0..clock
      BY <1>1, <1>2 DEF TypeOK, FoldersOK, EditOf
    <3>2. mtime' = [q \in Path \cup {Root} |-> IF q \in S THEN clock ELSE mtime[q]]
      BY <1>2, <3>1, Zenon DEF EditOf, Touch
    <3>3. lastEdit' = mtime' /\ blurred' \subseteq Path \cup {Root}
      BY <1>2, <3>1, Zenon DEF EditOf, Touch
    <3>4. QED
      BY <3>1, <3>2, <3>3
  <2>2. TypeOK'
    BY <1>1, <1>2, <1>3, <1>4, <2>1, Zenon DEF TypeOK, EditOf
  <2>3. FoldersOK'
    BY <1>1, <1>2, <1>3, <1>4, <2>1, Zenon DEF FoldersOK, EditOf, Scanning
  <2>4. QED
    BY <2>2, <2>3
<1>6. RightDb(localDb)' /\ RightDb(newDb)'
  <2>1. /\ RightDb(localDb) /\ RightDb(newDb)
        /\ DOMAIN localDb \subseteq Path \cup {Root}
        /\ DOMAIN newDb \subseteq Path \cup {Root}
    BY DEF IInv, TypeOK, FoldersOK
  <2>2. QED
    BY <1>1, <1>2, <1>3, <1>4, <2>1, EditKeepsDbs
<1>7. RootOK'
  <2>1. SUFFICES ASSUME pc \in {"walk", "list", "kinds"}
                 PROVE  /\ rootEntry.MTime \in 0..mtime'[Root]
                        /\ pc = "kinds" /\ Unedited(rootEntry, Root)' => listed = DOMAIN disk'
    BY <1>3, <1>4, Zenon DEF RootOK, Unedited
  <2>2. /\ rootEntry.MTime \in 0..mtime[Root]
        /\ pc = "kinds" /\ Unedited(rootEntry, Root) => listed = DOMAIN disk
    BY <2>1, Zenon DEF IInv, RootOK
  <2>3. /\ rootEntry.MTime \in 0..mtime'[Root]
        /\ rootEntry.MTime = mtime'[Root] /\ Root \notin blurred'
             => Unedited(rootEntry, Root) /\ Root \notin S
    BY <1>1, <1>2, <2>2, EditIsSeen DEF Unedited
  <2>4. QED
    BY <1>1, <1>2, <1>4, <2>2, <2>3, SameListing, Zenon DEF Unedited
<1>8. FileOK'
  <2>1. SUFFICES ASSUME InFile
                 PROVE  FileOK'
    BY <1>3, Zenon DEF FileOK, InFile
  <2>2. path \in Path
    BY <1>1, <2>1 DEF FoldersOK, InFile, Scanning
  <2>3. vFile.MTime \in 0..mtime[path]
    BY <2>1, Zenon DEF IInv, FileOK
  <2>4. /\ vFile.MTime \in 0..mtime'[path]
        /\ vFile.MTime = mtime'[path] /\ path \notin blurred'
             => Unedited(vFile, path) /\ path \notin S
    BY <1>1, <1>2, <2>2, <2>3, EditIsSeen DEF Unedited
  <2>5. ASSUME path \notin S
        PROVE  /\ IsFile(path)' <=> IsFile(path)
               /\ IsFile(path) => disk'[path] = disk[path]
               /\ fh' = fh
    BY <1>2, <1>3, <2>2, <2>5 DEF EditOf, IsFile
  <2>6. ASSUME fh' = fh PROVE PartsSoFar' <=> PartsSoFar
    BY <1>3, <2>6, Zenon DEF PartsSoFar, partNo
  <2>7. QED
    BY <1>3, <2>1, <2>4, <2>5, <2>6, Zenon DEF IInv, FileOK, Unedited, InFile
<1>9. CalmOK'
  BY <1>3 DEF CalmOK
<1>10. OldDbOK'
  BY <1>3, <1>4, Zenon DEF IInv, OldDbOK, Scanning
<1>11. QED
  BY <1>5, <1>6, <1>7, <1>8, <1>9, <1>10 DEF IInv

-----------------------------------------------------------------------------
(***************************************************************************)
(* The steps of a scan.                                                    *)
(***************************************************************************)
LEMMA SameFile ==
  ASSUME FileOK, UNCHANGED Seen, UNCHANGED pc, UNCHANGED scanFile
  PROVE  FileOK'
  BY Zenon DEF FileOK, Seen, scanFile, InFile, Unedited, IsFile, PartsSoFar, partNo

LEMMA SameCalm ==
  ASSUME CalmOK,
         UNCHANGED <<disk, mtime, pc, names, listed, newDb, path, vFile, calm>>
  PROVE  CalmOK'
  BY Zenon DEF CalmOK, InFile, Scanning, Listing, Stat

LEMMA TickKeeps ==
  ASSUME IInv, Tick
  PROVE  IInv'
<1>1. /\ clock < MaxClock /\ clock' = clock + 1
      /\ UNCHANGED <<folder, localDb, pc, names, scan, scanFile, calm, ghosts>>
  BY DEF Tick
<1>2. /\ UNCHANGED <<disk, mtime, localDb, pc, names, listed, rootEntry>>
      /\ UNCHANGED <<oldDb, newDb, changed>>
      /\ UNCHANGED <<path, vFile, comprSize, fh, sha, calm, lastEdit, blurred>>
  BY <1>1 DEF folder, scan, scanFile, ghosts
<1>3. TypeOK'
  <2>1. TypeOK
    BY DEF IInv
  <2>2. clock' \in 1..MaxClock /\ mtime' \in [Path \cup {Root} -> 0..clock']
    <3>1. clock \in 1..MaxClock /\ mtime \in [Path \cup {Root} -> 0..clock]
      BY <2>1 DEF TypeOK
    <3>2. clock' \in 1..MaxClock /\ 0..clock \subseteq 0..clock'
      BY <1>1, <3>1, ScanAssumption
    <3>3. QED
      BY <1>2, <3>1, <3>2
  <2>3. QED
    BY <1>2, <2>1, <2>2, Zenon DEF TypeOK
<1>4. FoldersOK' /\ RightDb(localDb)' /\ RightDb(newDb)'
  <2>1. FoldersOK'
    BY <1>2, Zenon DEF IInv, FoldersOK, Scanning
  <2>2. QED
    BY <1>2, <2>1, SameDbs DEF IInv, Seen
<1>5. RootOK' /\ FileOK' /\ OldDbOK'
  <2>1. RootOK'
    BY <1>2, Zenon DEF IInv, RootOK, Unedited
  <2>2. FileOK'
    BY <1>2, SameFile, Zenon DEF IInv, Seen, scanFile
  <2>3. OldDbOK'
    BY <1>2, Zenon DEF IInv, OldDbOK, Scanning
  <2>4. QED
    BY <2>1, <2>2, <2>3
<1>6. CalmOK'
  BY <1>2, SameCalm, Zenon DEF IInv, scanFile
<1>7. QED
  BY <1>3, <1>4, <1>5, <1>6 DEF IInv

LEMMA ScanErrorKeeps ==
  ASSUME IInv, ScanError, UNCHANGED <<folder, clock, calm, ghosts>>
  PROVE  IInv'
<1>1. /\ pc' = "idle"
      /\ UNCHANGED <<disk, mtime, clock, localDb, names, listed, rootEntry, oldDb, newDb>>
      /\ UNCHANGED <<changed, path, calm, lastEdit, blurred>>
  BY DEF ScanError, folder, scan, scanFile, ghosts
<1>2. TypeOK' /\ FoldersOK'
  BY <1>1, Zenon DEF IInv, TypeOK, FoldersOK, Scanning
<1>3. RightDb(localDb)' /\ RightDb(newDb)'
  BY <1>1, SameDbs DEF IInv, Seen
<1>4. RootOK' /\ FileOK' /\ OldDbOK' /\ CalmOK'
  BY <1>1 DEF RootOK, FileOK, OldDbOK, CalmOK, InFile, Scanning
<1>5. QED
  BY <1>2, <1>3, <1>4 DEF IInv

LEMMA StartScanKeeps ==
  ASSUME IInv, StartScan
  PROVE  IInv'
<1>1. /\ pc' = "walk" /\ oldDb' = localDb /\ newDb' = << >>
      /\ rootEntry' = FolderEntry(mtime[Root], << >>)
      /\ changed' = ~(Root \in DOMAIN localDb /\ localDb[Root].MTime = mtime[Root])
      /\ UNCHANGED <<disk, mtime, clock, localDb, names, listed, path, lastEdit, blurred>>
  BY DEF StartScan, folder, scanFile, ghosts
<1>2. DOMAIN newDb' = {}
  BY <1>1
<1>3. TypeOK' /\ FoldersOK'
  <2>1. TypeOK'
    BY <1>1, <1>2, Zenon DEF IInv, TypeOK
  <2>2. FoldersOK'
    BY <1>1, <1>2 DEF IInv, FoldersOK, TypeOK, Scanning
  <2>3. QED
    BY <2>1, <2>2
<1>4. RightDb(localDb)' /\ RightDb(newDb)'
  <2>1. RightDb(localDb)'
    BY <1>1, SameDbs DEF IInv, Seen
  <2>2. RightDb(newDb)'
    BY <1>2, Zenon DEF RightDb
  <2>3. QED
    BY <2>1, <2>2
<1>5. RootOK'
  <2>1. mtime[Root] \in 0..clock /\ clock \in Nat
    BY DEF IInv, TypeOK
  <2>2. rootEntry'.MTime = mtime[Root]
    BY <1>1 DEF FolderEntry
  <2>3. QED
    BY <1>1, <2>1, <2>2 DEF RootOK
<1>6. FileOK' /\ CalmOK'
  BY <1>1 DEF FileOK, CalmOK, InFile, Scanning
<1>7. OldDbOK'
  BY <1>1, <1>2, Zenon DEF OldDbOK, Scanning
<1>8. QED
  BY <1>3, <1>4, <1>5, <1>6, <1>7 DEF IInv

LEMMA WalkNamesKeeps ==
  ASSUME IInv, WalkNames
  PROVE  IInv'
<1>1. /\ pc = "walk" /\ pc' = "list" /\ names' = DOMAIN disk
      /\ UNCHANGED <<disk, mtime, clock, localDb, rootEntry, oldDb, newDb, changed>>
      /\ UNCHANGED <<listed, path, calm, lastEdit, blurred>>
  BY DEF WalkNames, folder, scan, scanFile, ghosts
<1>2. TypeOK' /\ FoldersOK'
  <2>1. TypeOK'
    BY <1>1, Zenon DEF IInv, TypeOK
  <2>2. FoldersOK'
    BY <1>1 DEF IInv, FoldersOK, Scanning
  <2>3. QED
    BY <2>1, <2>2
<1>3. RightDb(localDb)' /\ RightDb(newDb)'
  BY <1>1, SameDbs DEF IInv, Seen
<1>4. RootOK' /\ FileOK' /\ CalmOK'
  <2>1. RootOK'
    BY <1>1, Zenon DEF IInv, RootOK, Unedited
  <2>2. FileOK' /\ CalmOK'
    BY <1>1 DEF IInv, FileOK, CalmOK, InFile, Scanning
  <2>3. QED
    BY <2>1, <2>2
<1>5. OldDbOK'
  BY <1>1 DEF IInv, OldDbOK, Scanning
<1>6. QED
  BY <1>2, <1>3, <1>4, <1>5 DEF IInv

LEMMA ListNamesKeeps ==
  ASSUME IInv, ListNames
  PROVE  IInv'
<1>1. /\ pc = "list" /\ pc' = "kinds" /\ listed' = DOMAIN disk
      /\ UNCHANGED <<disk, mtime, clock, localDb, rootEntry, oldDb, newDb, changed>>
      /\ UNCHANGED <<names, path, calm, lastEdit, blurred>>
  BY DEF ListNames, folder, scan, scanFile, ghosts
<1>2. TypeOK' /\ FoldersOK'
  <2>1. TypeOK'
    BY <1>1, Zenon DEF IInv, TypeOK
  <2>2. FoldersOK'
    BY <1>1 DEF IInv, FoldersOK, Scanning
  <2>3. QED
    BY <2>1, <2>2
<1>3. RightDb(localDb)' /\ RightDb(newDb)'
  BY <1>1, SameDbs DEF IInv, Seen
<1>4. RootOK' /\ FileOK' /\ CalmOK'
  <2>1. RootOK'
    BY <1>1, Zenon DEF IInv, RootOK, Unedited
  <2>2. FileOK' /\ CalmOK'
    BY <1>1 DEF IInv, FileOK, CalmOK, InFile, Scanning
  <2>3. QED
    BY <2>1, <2>2
<1>5. OldDbOK'
  BY <1>1 DEF IInv, OldDbOK, Scanning
<1>6. QED
  BY <1>2, <1>3, <1>4, <1>5 DEF IInv

LEMMA VisitedFacts ==
  ASSUME TypeOK, FoldersOK, NEW p \in Path \cup {Root}, NEW entry, Visited(p, entry)
  PROVE  /\ DOMAIN newDb' = DOMAIN newDb \cup {p} /\ newDb'[p] = entry
         /\ \A q \in DOMAIN newDb \ {p} : newDb'[q] = newDb[q]
         /\ DOMAIN oldDb' = DOMAIN oldDb \ {p}
         /\ \A q \in DOMAIN oldDb \ {p} : oldDb'[q] = oldDb[q]
         /\ DOMAIN oldDb' \cap DOMAIN newDb' = {}
         /\ DOMAIN newDb' \subseteq Path \cup {Root}
         /\ DOMAIN oldDb' \subseteq Path \cup {Root}
<1>1. /\ DOMAIN newDb' = DOMAIN newDb \cup {p} /\ newDb'[p] = entry
      /\ \A q \in DOMAIN newDb \ {p} : newDb'[q] = newDb[q]
  BY Zenon DEF Visited
<1>2. /\ DOMAIN oldDb' = DOMAIN oldDb \ {p}
      /\ \A q \in DOMAIN oldDb \ {p} : oldDb'[q] = oldDb[q]
  BY Zenon DEF Visited
<1>3. QED
  BY <1>1, <1>2, Zenon DEF TypeOK, FoldersOK

\* An entry that is right goes into the new db.
LEMMA VisitedIsRight ==
  ASSUME TypeOK, FoldersOK, RightDb(newDb), UNCHANGED Seen,
         NEW p \in Path \cup {Root}, NEW entry, Visited(p, entry), RightEntry(entry, p)
  PROVE  RightDb(newDb)'
<1>1. ASSUME NEW q \in DOMAIN newDb' PROVE RightEntry(newDb'[q], q)
  <2>1. CASE q = p
    BY <2>1, VisitedFacts
  <2>2. CASE q # p
    <3>1. DOMAIN newDb' = DOMAIN newDb \cup {p}
      BY VisitedFacts
    <3>2. q \in DOMAIN newDb
      BY <1>1, <2>2, <3>1
    <3>3. newDb'[q] = newDb[q]
      BY <2>2, <3>2, VisitedFacts
    <3>4. QED
      BY <3>2, <3>3 DEF RightDb
  <2>3. QED
    BY <2>1, <2>2
<1>2. ASSUME NEW e, NEW q, RightEntry(e, q) PROVE RightEntry(e, q)'
  BY <1>2, Zenon DEF RightEntry, RightFile, Unedited, IsFile, Listing, Seen
<1>3. QED
  BY <1>1, <1>2, Zenon DEF RightDb

LEMMA ListKindsKeeps ==
  ASSUME IInv, ListKinds
  PROVE  IInv'
<1>1. CASE ScanError
  BY <1>1, ScanErrorKeeps DEF ListKinds
<1>2. CASE ~ScanError
  <2> DEFINE entry == FolderEntry(rootEntry.MTime, Listing(listed))
  <2>1. /\ pc = "kinds" /\ pc' = "visit"
        /\ rootEntry' = entry /\ Visited(Root, entry)
        /\ UNCHANGED <<disk, mtime, clock, localDb, names, listed, changed>>
        /\ UNCHANGED <<path, calm, lastEdit, blurred>>
    BY <1>2 DEF ListKinds, folder, scanFile, ghosts
  <2>2. /\ TypeOK /\ FoldersOK /\ newDb = << >> /\ DOMAIN newDb = {}
        /\ RightDb(localDb) /\ RightDb(newDb)
    BY <2>1 DEF IInv, FoldersOK
  <2>3. /\ entry.MTime = rootEntry.MTime /\ entry.FolderContent = Listing(listed)
        /\ entry.IsDir
    BY DEF FolderEntry
  <2> HIDE DEF entry
  <2>4. /\ DOMAIN newDb' = {Root} /\ newDb'[Root] = entry
        /\ DOMAIN oldDb' = DOMAIN oldDb \ {Root}
        /\ \A q \in DOMAIN oldDb' : oldDb'[q] = oldDb[q]
        /\ DOMAIN oldDb' \cap DOMAIN newDb' = {}
        /\ DOMAIN newDb' \subseteq Path \cup {Root}
        /\ DOMAIN oldDb' \subseteq Path \cup {Root}
    BY <2>1, <2>2, VisitedFacts, Zenon
  <2>5. TypeOK' /\ FoldersOK'
    <3>1. TypeOK'
      BY <2>1, <2>2, <2>4, Zenon DEF TypeOK
    <3>2. FoldersOK'
      BY <2>1, <2>2, <2>4 DEF FoldersOK, Scanning
    <3>3. QED
      BY <3>1, <3>2
  <2>6. RightDb(localDb)' /\ RightDb(newDb)'
    <3>1. RightEntry(entry, Root)
      BY <2>1, <2>3, ScanAssumption, Zenon DEF IInv, RootOK, RightEntry, Unedited
    <3>2. QED
      BY <2>1, <2>2, <3>1, VisitedIsRight, SameDbs DEF Seen
  <2>7. RootOK' /\ FileOK'
    BY <2>1 DEF RootOK, FileOK, InFile
  <2>8. CalmOK'
    <3>1. calm => names = DOMAIN disk /\ listed = DOMAIN disk
      BY <2>1, Zenon DEF IInv, CalmOK
    <3>2. calm => newDb'[Root].FolderContent = Listing(DOMAIN disk)'
      BY <2>1, <2>3, <2>4, <3>1, Zenon DEF Listing
    <3>3. DOMAIN newDb' \ {Root} = {}
      BY <2>4
    <3>4. /\ pc' \notin {"list", "kinds"} /\ ~Scanning' /\ ~InFile'
          /\ calm' = calm /\ names' = names /\ disk' = disk /\ Root \in DOMAIN newDb'
      BY <2>1, <2>4 DEF InFile, Scanning
    <3>5. calm => \A p \in DOMAIN disk : p \in names
      BY <3>1
    <3>6. QED
      BY <3>1, <3>2, <3>3, <3>4, <3>5, Zenon DEF CalmOK
  <2>9. OldDbOK'
    <3>1. OldDbOK /\ pc # "idle" /\ pc' # "idle" /\ ~Scanning'
      BY <2>1 DEF IInv, Scanning
    <3>2. DOMAIN localDb \subseteq DOMAIN oldDb' \cup DOMAIN newDb'
      BY <2>2, <2>4, <3>1, Zenon DEF OldDbOK
    <3>3. \A p \in DOMAIN oldDb' : p \in DOMAIN localDb /\ oldDb'[p] = localDb[p]
      BY <2>4, <3>1, Zenon DEF OldDbOK
    <3>4. \A p \in DOMAIN newDb' \ {Root} : FALSE
      BY <2>4
    <3>5. ~changed /\ calm => Root \in DOMAIN localDb /\ localDb[Root].MTime = mtime[Root]
      BY <3>1, Zenon DEF OldDbOK
    <3>6. QED
      BY <2>1, <3>1, <3>2, <3>3, <3>4, <3>5, Zenon DEF OldDbOK
  <2>10. QED
    BY <2>5, <2>6, <2>7, <2>8, <2>9 DEF IInv
<1>3. QED
  BY <1>1, <1>2

\* What is common to the elements that are visited: taken over, folder, or file.
LEMMA ElementVisited ==
  ASSUME IInv, pc = "visit" \/ Scanning, pc' = "visit",
         UNCHANGED <<disk, mtime, clock, localDb, listed, path, calm, lastEdit, blurred>>,
         NEW p \in Path, NEW entry, Visited(p, entry), RightEntry(entry, p),
         names' \subseteq Path,
         calm => /\ p \in DOMAIN disk /\ StatOf(entry) = Stat(p)
                 /\ names' \subseteq DOMAIN disk
                 /\ \A q \in DOMAIN disk : q \in DOMAIN newDb \/ q \in names' \/ q = p,
         \/ changed'
         \/ changed' = changed /\ p \in DOMAIN oldDb /\ entry = oldDb[p]
  PROVE  IInv'
<1>1. /\ TypeOK /\ FoldersOK /\ RightDb(localDb) /\ RightDb(newDb)
      /\ CalmOK /\ OldDbOK /\ pc # "idle" /\ p # Root
      /\ ~Scanning' /\ ~InFile'
  BY ScanAssumption DEF IInv, Scanning, InFile
<1>2. /\ DOMAIN newDb' = DOMAIN newDb \cup {p} /\ newDb'[p] = entry
      /\ \A q \in DOMAIN newDb \ {p} : newDb'[q] = newDb[q]
      /\ DOMAIN oldDb' = DOMAIN oldDb \ {p}
      /\ \A q \in DOMAIN oldDb \ {p} : oldDb'[q] = oldDb[q]
      /\ DOMAIN oldDb' \cap DOMAIN newDb' = {}
      /\ DOMAIN newDb' \subseteq Path \cup {Root}
      /\ DOMAIN oldDb' \subseteq Path \cup {Root}
  BY <1>1, VisitedFacts
<1>3. TypeOK' /\ FoldersOK'
  <2>1. TypeOK'
    BY <1>1, <1>2, Zenon DEF TypeOK
  <2>2. pc' \notin {"walk", "list", "kinds"}
    OBVIOUS
  <2>3. FoldersOK'
    BY <1>1, <1>2, <2>2, Zenon DEF FoldersOK
  <2>4. QED
    BY <2>1, <2>3
<1>4. RightDb(localDb)' /\ RightDb(newDb)'
  <2>1. UNCHANGED Seen
    BY DEF Seen
  <2>2. RightDb(localDb)'
    BY <1>1, <2>1, SameDbs
  <2>3. RightDb(newDb)'
    BY <1>1, <2>1, VisitedIsRight
  <2>4. QED
    BY <2>2, <2>3
<1>5. RootOK' /\ FileOK'
  BY <1>1 DEF RootOK, FileOK
<1>6. CalmOK'
  <2>1. SUFFICES ASSUME calm
                 PROVE  /\ Root \in DOMAIN newDb'
                        /\ newDb'[Root].FolderContent = Listing(DOMAIN disk)
                        /\ \A q \in DOMAIN newDb' \ {Root} :
                             q \in DOMAIN disk /\ StatOf(newDb'[q]) = Stat(q)
                        /\ names' \subseteq DOMAIN disk
                        /\ \A q \in DOMAIN disk : q \in DOMAIN newDb' \/ q \in names'
    <3>1. pc' \notin {"list", "kinds"} /\ calm' = calm
      OBVIOUS
    <3>2. disk' = disk /\ mtime' = mtime
      OBVIOUS
    <3>3. QED
      BY <1>1, <2>1, <3>1, <3>2, SMT DEF CalmOK, Listing, Stat
  <2>2. /\ Root \in DOMAIN newDb
        /\ newDb[Root].FolderContent = Listing(DOMAIN disk)
        /\ \A q \in DOMAIN newDb \ {Root} : q \in DOMAIN disk /\ StatOf(newDb[q]) = Stat(q)
    BY <1>1, <2>1, Zenon DEF CalmOK
  <2>3. Root \in DOMAIN newDb' /\ newDb'[Root].FolderContent = Listing(DOMAIN disk)
    BY <1>1, <1>2, <2>2
  <2>4. ASSUME NEW q \in DOMAIN newDb' \ {Root}
        PROVE  q \in DOMAIN disk /\ StatOf(newDb'[q]) = Stat(q)
    <3>1. CASE q = p
      BY <1>2, <2>1, <3>1, Zenon
    <3>2. CASE q # p
      <4>1. q \in DOMAIN newDb \ {Root}
        BY <1>2, <2>4, <3>2
      <4>2. newDb'[q] = newDb[q]
        BY <1>2, <3>2, <4>1
      <4>3. QED
        BY <2>2, <4>1, <4>2, Zenon
    <3>3. QED
      BY <3>1, <3>2
  <2>5. /\ names' \subseteq DOMAIN disk
        /\ \A q \in DOMAIN disk : q \in DOMAIN newDb' \/ q \in names'
    BY <1>2, <2>1, Zenon
  <2>6. QED
    BY <2>3, <2>4, <2>5
<1>7. OldDbOK'
  <2>1. /\ \A q \in DOMAIN oldDb : q \in DOMAIN localDb /\ oldDb[q] = localDb[q]
        /\ DOMAIN localDb \subseteq DOMAIN oldDb \cup DOMAIN newDb
        /\ ~changed => \A q \in DOMAIN newDb \ {Root} :
                         q \in DOMAIN localDb /\ newDb[q] = localDb[q]
        /\ ~changed /\ calm => /\ Root \in DOMAIN localDb
                               /\ localDb[Root].MTime = mtime[Root]
    BY <1>1, Zenon DEF OldDbOK
  <2>2. /\ \A q \in DOMAIN oldDb' : q \in DOMAIN localDb /\ oldDb'[q] = localDb[q]
        /\ DOMAIN localDb \subseteq DOMAIN oldDb' \cup DOMAIN newDb'
    BY <1>2, <2>1, Zenon
  <2>3. ASSUME ~changed', NEW q \in DOMAIN newDb' \ {Root}
        PROVE  q \in DOMAIN localDb /\ newDb'[q] = localDb[q]
    <3>1. ~changed /\ p \in DOMAIN oldDb /\ entry = oldDb[p]
      BY <2>3
    <3>2. CASE q = p
      BY <1>2, <2>1, <3>1, <3>2, Zenon
    <3>3. CASE q # p
      <4>1. q \in DOMAIN newDb \ {Root}
        BY <1>2, <2>3, <3>3
      <4>2. newDb'[q] = newDb[q]
        BY <1>2, <3>3, <4>1
      <4>3. QED
        BY <2>1, <3>1, <4>1, <4>2, Zenon
    <3>4. QED
      BY <3>2, <3>3
  <2>4. ~changed' => ~changed
    OBVIOUS
  <2>5. QED
    BY <1>1, <2>1, <2>2, <2>3, <2>4, Zenon DEF OldDbOK
<1>8. QED
  BY <1>3, <1>4, <1>5, <1>6, <1>7 DEF IInv

LEMMA VisitKeeps ==
  ASSUME IInv, Visit
  PROVE  IInv'
<1> DEFINE p == Smallest(names)
<1>1. /\ pc = "visit" /\ names # {}
      /\ UNCHANGED <<disk, mtime, clock, calm, lastEdit, blurred>>
      /\ UNCHANGED <<folder, clock, calm, ghosts>>
  BY DEF Visit, folder, ghosts
<1>2. /\ TypeOK /\ FoldersOK /\ RightDb(localDb) /\ CalmOK /\ OldDbOK
      /\ names \subseteq Path
  BY DEF IInv, TypeOK
<1>3. p \in names /\ p \in Path /\ p # Root
  BY <1>1, <1>2, SmallestIsElement, ScanAssumption, Zenon
<1> HIDE DEF p
<1>4. CASE p \notin DOMAIN disk
  BY <1>1, <1>4, ScanErrorKeeps DEF Visit, p
<1>5. CASE p \in DOMAIN disk
  <2>1. /\ names' = names \ {p}
        /\ UNCHANGED <<localDb, listed, rootEntry, vFile, comprSize, fh, sha>>
        /\ \/ Unchanged(p, Stat(p)) /\ Visited(p, oldDb[p]) /\ UNCHANGED <<pc, changed, path>>
           \/ /\ changed' = TRUE /\ disk[p] = Dir
              /\ Visited(p, FolderEntry(mtime[p], << >>))
              /\ UNCHANGED <<pc, path>>
           \/ /\ changed' = TRUE /\ disk[p] # Dir
              /\ pc' = "stat" /\ path' = p
              /\ UNCHANGED <<oldDb, newDb>>
    BY <1>5, Zenon DEF Visit, p
  <2>2. names' \subseteq Path
    BY <1>2, <2>1
  <2>3. calm => /\ names' \subseteq DOMAIN disk
                /\ \A q \in DOMAIN disk : q \in DOMAIN newDb \/ q \in names' \/ q = p
    <3>1. ~Scanning
      BY <1>1 DEF Scanning
    <3>2. calm => /\ names \subseteq DOMAIN disk
                  /\ \A q \in DOMAIN disk : q \in DOMAIN newDb \/ q \in names
      BY <1>1, <1>2, <3>1, Zenon DEF CalmOK
    <3>3. QED
      BY <2>1, <3>2
  <2>4. CASE Unchanged(p, Stat(p)) /\ Visited(p, oldDb[p]) /\ UNCHANGED <<pc, changed, path>>
    <3>1. p \in DOMAIN oldDb /\ StatOf(oldDb[p]) = Stat(p)
      BY <2>4 DEF Unchanged
    <3>2. p \in DOMAIN localDb /\ oldDb[p] = localDb[p]
      BY <1>1, <1>2, <3>1 DEF OldDbOK
    <3>3. RightEntry(oldDb[p], p)
      BY <1>2, <3>2 DEF RightDb
    <3>4. QED
      BY <1>1, <1>3, <1>5, <2>1, <2>2, <2>3, <2>4, <3>1, <3>3, ElementVisited
  <2>5. CASE /\ changed' = TRUE /\ disk[p] = Dir
             /\ Visited(p, FolderEntry(mtime[p], << >>))
             /\ UNCHANGED <<pc, path>>
    <3> DEFINE entry == FolderEntry(mtime[p], << >>)
    <3>1. entry.IsDir /\ entry.MTime = mtime[p] /\ StatOf(entry) = Stat(p)
      BY <2>5 DEF FolderEntry, StatOf, Stat
    <3>2. RightEntry(entry, p)
      <4>1. mtime[p] \in 0..clock /\ clock \in Nat
        BY <1>2, <1>3 DEF TypeOK
      <4>2. mtime[p] \in 0..mtime[p]
        BY <4>1
      <4>3. QED
        BY <1>3, <3>1, <4>2, Zenon DEF RightEntry
    <3> HIDE DEF entry
    <3>3. Visited(p, entry)
      BY <2>5 DEF entry
    <3>4. QED
      BY <1>1, <1>3, <1>5, <2>1, <2>2, <2>3, <2>5, <3>1, <3>2, <3>3, ElementVisited
  <2>6. CASE /\ changed' = TRUE /\ disk[p] # Dir
             /\ pc' = "stat" /\ path' = p
             /\ UNCHANGED <<oldDb, newDb>>
    <3>1. Scanning' /\ ~InFile' /\ ~Scanning
      BY <1>1, <2>6 DEF Scanning, InFile
    <3>2. TypeOK' /\ FoldersOK'
      <4>1. TypeOK'
        BY <1>1, <1>2, <1>3, <2>1, <2>2, <2>6, Zenon DEF TypeOK
      <4>2. pc' \notin {"walk", "list", "kinds"}
        BY <2>6
      <4>3. FoldersOK'
        BY <1>1, <1>2, <1>3, <2>1, <2>6, <4>2, Zenon DEF FoldersOK
      <4>4. QED
        BY <4>1, <4>3
    <3>3. RightDb(localDb)' /\ RightDb(newDb)'
      BY <1>1, <2>1, <2>6, SameDbs DEF IInv, Seen
    <3>4. RootOK' /\ FileOK'
      BY <2>6, <3>1 DEF RootOK, FileOK
    <3>5. CalmOK'
      <4>1. pc' \notin {"list", "kinds"}
        BY <2>6
      <4>2. disk' = disk /\ mtime' = mtime /\ calm' = calm /\ newDb' = newDb
        BY <1>1, <2>6
      <4>3. calm => /\ Root \in DOMAIN newDb
                    /\ newDb[Root].FolderContent = Listing(DOMAIN disk)
                    /\ \A q \in DOMAIN newDb \ {Root} :
                         q \in DOMAIN disk /\ StatOf(newDb[q]) = Stat(q)
        BY <1>1, <1>2, Zenon DEF CalmOK
      <4>4. QED
        BY <1>1, <1>5, <2>3, <2>6, <3>1, <4>1, <4>2, <4>3, SMT DEF CalmOK, Listing, Stat
    <3>6. OldDbOK'
      <4>1. pc # "idle"
        BY <1>1
      <4>2. QED
        BY <1>1, <1>2, <2>1, <2>6, <4>1, Zenon DEF OldDbOK
    <3>7. QED
      BY <3>2, <3>3, <3>4, <3>5, <3>6 DEF IInv
  <2>7. QED
    BY <2>1, <2>4, <2>5, <2>6
<1>6. QED
  BY <1>4, <1>5

\* What is common to the steps of ScanFile but the last one.
LEMMA FileStepKeeps ==
  ASSUME IInv, Scanning, pc' \in {"compr", "open", "hash", "md5"},
         UNCHANGED <<disk, mtime, clock, localDb, names, scan, path, calm, ghosts>>,
         FileOK', calm => StatOf(vFile') = Stat(path)
  PROVE  IInv'
<1>1. /\ TypeOK /\ FoldersOK /\ CalmOK /\ OldDbOK /\ pc # "idle"
      /\ pc' # "idle" /\ pc' \notin {"walk", "list", "kinds"} /\ Scanning'
      /\ UNCHANGED <<listed, rootEntry, oldDb, newDb, changed, lastEdit, blurred>>
  BY DEF IInv, Scanning, scan, ghosts
<1>2. TypeOK'
  <2>1. pc' \in {"idle", "walk", "list", "kinds", "visit", "stat", "compr", "open",
                 "hash", "md5"}
    OBVIOUS
  <2>2. QED
    BY <1>1, <2>1, Zenon DEF TypeOK
<1>3. FoldersOK'
  BY <1>1, Zenon DEF FoldersOK
<1>4. RightDb(localDb)' /\ RightDb(newDb)'
  BY <1>1, SameDbs DEF IInv, Seen
<1>5. RootOK'
  BY <1>1 DEF RootOK
<1>6. CalmOK'
  <2>1. calm' = calm /\ disk' = disk /\ mtime' = mtime /\ newDb' = newDb
    BY <1>1
  <2>2. calm => /\ Root \in DOMAIN newDb
                /\ newDb[Root].FolderContent = Listing(DOMAIN disk)
                /\ \A q \in DOMAIN newDb \ {Root} :
                     q \in DOMAIN disk /\ StatOf(newDb[q]) = Stat(q)
                /\ names \subseteq DOMAIN disk
                /\ \A q \in DOMAIN disk : \/ q \in DOMAIN newDb \/ q \in names
                                          \/ q = path
                /\ path \in DOMAIN disk
    BY <1>1, Zenon DEF CalmOK
  <2>3. pc' \notin {"list", "kinds"}
    BY <1>1
  <2>4. QED
    BY <1>1, <2>1, <2>2, <2>3, SMT DEF CalmOK, Listing, Stat
<1>7. OldDbOK'
  BY <1>1, Zenon DEF OldDbOK
<1>8. QED
  BY <1>2, <1>3, <1>4, <1>5, <1>6, <1>7 DEF IInv

LEMMA StatFileKeeps ==
  ASSUME IInv, StatFile
  PROVE  IInv'
<1>1. pc = "stat" /\ UNCHANGED <<folder, clock, calm, ghosts>>
  BY DEF StatFile
<1>2. CASE ScanError
  BY <1>1, <1>2, ScanErrorKeeps
<1>3. CASE ~ScanError
  <2>1. /\ IsFile(path) /\ pc' = "compr"
        /\ vFile' = [IsDir |-> FALSE, FileSize |-> Stat(path).FileSize,
                     MTime |-> mtime[path], FolderContent |-> << >>,
                     Parts |-> << >>, UseCompression |-> FALSE]
        /\ UNCHANGED <<localDb, names, scan, path, comprSize, fh, sha>>
    BY <1>3 DEF StatFile
  <2>2. Stat(path).FileSize = PlainLength(disk[path])
    BY <2>1 DEF Stat, IsFile
  <2>3. mtime[path] \in 0..mtime[path]
    <3>1. mtime[path] \in 0..clock /\ clock \in Nat
      BY DEF IInv, TypeOK
    <3>2. QED
      BY <3>1
  <2>4. FileOK'
    <3>1. UNCHANGED <<disk, mtime, blurred>>
      BY <1>1 DEF folder, ghosts
    <3>2. /\ DOMAIN vFile' = {"IsDir", "FileSize", "MTime", "FolderContent", "Parts",
                             "UseCompression"}
          /\ vFile'.MTime = mtime[path] /\ vFile'.FileSize = PlainLength(disk[path])
          /\ vFile'.Parts = << >>
      BY <2>1, <2>2
    <3>3. pc' \notin {"hash", "md5"}
      BY <2>1
    <3>4. QED
      BY <2>1, <2>3, <3>1, <3>2, <3>3, Zenon DEF FileOK, IsFile
  <2>5. StatOf(vFile') = Stat(path)
    BY <2>1 DEF StatOf, Stat, IsFile
  <2>6. Scanning /\ UNCHANGED <<disk, mtime, ghosts>>
    BY <1>1 DEF Scanning, folder
  <2>7. QED
    BY <1>1, <2>1, <2>4, <2>5, <2>6, FileStepKeeps
<1>4. QED
  BY <1>2, <1>3

LEMMA TryCompressionKeeps ==
  ASSUME IInv, TryCompression
  PROVE  IInv'
<1>1. pc = "compr" /\ UNCHANGED <<folder, clock, calm, ghosts>>
  BY DEF TryCompression
<1>2. CASE ScanError
  BY <1>1, <1>2, ScanErrorKeeps
<1>3. CASE ~ScanError
  <2> DEFINE small == vFile.FileSize <= MaxFileSizeForCompression /\ vFile.FileSize < PartSize
             compr == small /\ 10 * ComprLength(disk[path]) < 8 * PlainLength(disk[path])
  <2>1. /\ pc' = "open" /\ vFile' = [vFile EXCEPT !.UseCompression = compr]
        /\ UNCHANGED <<localDb, names, scan, path, fh, sha>>
    BY <1>3 DEF TryCompression
  <2>2. FileOK /\ InFile /\ Scanning
    BY <1>1 DEF IInv, InFile, Scanning
  <2>3. /\ DOMAIN vFile = {"IsDir", "FileSize", "MTime", "FolderContent", "Parts",
                           "UseCompression"}
        /\ vFile.MTime \in 0..mtime[path]
        /\ Unedited(vFile, path) => /\ IsFile(path)
                                    /\ vFile.FileSize = PlainLength(disk[path])
                                    /\ vFile.Parts = << >>
    BY <1>1, <2>2 DEF FileOK
  <2>4. vFile.FileSize = PlainLength(disk[path]) => compr = Compr(disk[path])
    BY DEF Compr
  <2> HIDE DEF compr
  <2>5. /\ DOMAIN vFile' = DOMAIN vFile
        /\ vFile'.MTime = vFile.MTime /\ vFile'.FileSize = vFile.FileSize
        /\ vFile'.IsDir = vFile.IsDir
        /\ vFile'.Parts = vFile.Parts /\ vFile'.UseCompression = compr
    BY <2>1, <2>3
  <2>6. FileOK'
    <3>1. UNCHANGED <<disk, mtime, blurred, path>>
      BY <1>1, <2>1 DEF folder, ghosts
    <3>2. pc' \notin {"hash", "md5"}
      BY <2>1
    <3>3. QED
      BY <2>1, <2>3, <2>4, <2>5, <3>1, <3>2, Zenon DEF FileOK, IsFile, Unedited
  <2>7. calm => StatOf(vFile') = Stat(path)
    <3>1. calm => StatOf(vFile) = Stat(path)
      BY <2>2 DEF IInv, CalmOK
    <3>2. StatOf(vFile') = StatOf(vFile)
      BY <2>5, Zenon DEF StatOf
    <3>3. QED
      BY <3>1, <3>2
  <2>8. UNCHANGED <<disk, mtime, ghosts>>
    BY <1>1 DEF folder
  <2>9. QED
    BY <1>1, <2>1, <2>2, <2>6, <2>7, <2>8, FileStepKeeps
<1>4. QED
  BY <1>2, <1>3

LEMMA OpenFileKeeps ==
  ASSUME IInv, OpenFile
  PROVE  IInv'
<1>1. pc = "open" /\ UNCHANGED <<folder, clock, calm, ghosts>>
  BY DEF OpenFile
<1>2. CASE ScanError
  BY <1>1, <1>2, ScanErrorKeeps
<1>3. CASE ~ScanError
  <2>1. /\ pc' = "hash" /\ fh' = disk[path]
        /\ UNCHANGED <<localDb, names, scan, path, vFile, comprSize, sha>>
    BY <1>3 DEF OpenFile
  <2>2. FileOK /\ InFile /\ Scanning /\ UNCHANGED <<disk, mtime, blurred, ghosts>>
    BY <1>1 DEF IInv, InFile, Scanning, folder, ghosts
  <2>3. ASSUME Unedited(vFile, path)
        PROVE  PartsSoFar'
    <3>1. vFile.Parts = << >> /\ IsFile(path)
      BY <1>1, <2>2, <2>3 DEF FileOK
    <3>2. disk[path] \in Seq(Chunk)
      BY <3>1, ScanAssumption DEF IInv, FoldersOK, IsFile
    <3>3. vFile'.Parts = << >> /\ pc' # "md5"
      BY <2>1, <3>1
    <3>4. Len(fh') \in Nat
      BY <2>1, <3>2
    <3>5. QED
      BY <3>3, <3>4 DEF PartsSoFar
  <2>4. FileOK'
    <3>1. pc # "compr" /\ pc' \notin {"compr", "open"}
      BY <1>1, <2>1
    <3>2. QED
      BY <2>1, <2>2, <2>3, <3>1, Zenon DEF FileOK, IsFile, Unedited
  <2>5. calm => StatOf(vFile') = Stat(path)
    BY <2>1, <2>2 DEF IInv, CalmOK
  <2>6. QED
    BY <1>1, <2>1, <2>2, <2>4, <2>5, FileStepKeeps
<1>4. QED
  BY <1>2, <1>3

\* The entry of a file nobody has changed is what ScanFile makes of its content.
LEMMA FinishedEntryIsRight ==
  ASSUME IInv, pc = "hash", ~(partNo <= Len(fh))
  PROVE  RightEntry(vFile, path)
<1>1. FileOK /\ InFile /\ path \in Path /\ path # Root
  BY ScanAssumption DEF IInv, InFile, FoldersOK, Scanning
<1>2. ASSUME Unedited(vFile, path)
      PROVE  RightFile(vFile, path)
  <2> DEFINE content == disk[path]
             parts == vFile.Parts
  <2>1. /\ IsFile(path) /\ fh = content /\ PartsSoFar
        /\ vFile.UseCompression = Compr(content)
    BY <1>1, <1>2 DEF FileOK
  <2>2. content \in Seq(Chunk)
    BY <2>1, ScanAssumption DEF IInv, FoldersOK, IsFile
  <2>3. parts \in Seq(Part) /\ Len(parts) = Len(content)
    BY <2>1, <2>2 DEF PartsSoFar, partNo
  <2>4. Compr(content) => Len(content) <= 1
    BY <2>1, <2>3, Zenon DEF PartsSoFar
  <2>5. vFile.UseCompression = UseCompression(content)
    BY <2>1, <2>2, <2>4, ComprIsUseCompression
  <2>6. parts = [i \in 1..Len(content) |-> VFilePart(content[i], UseCompression(content))]
    <3>1. parts = [i \in 1..Len(content) |-> parts[i]]
      <4>1. parts \in [1..Len(parts) -> Part]
        BY <2>3, LenProperties
      <4>2. QED
        BY <2>3, <4>1, Zenon
    <3>2. \A i \in 1..Len(content) :
            parts[i] = VFilePart(content[i], UseCompression(content))
      BY <2>1, <2>3, <2>5, Zenon DEF PartsSoFar
    <3>3. QED
      BY <3>1, <3>2, Zenon
  <2>7. /\ ScanFile(content).Parts
             = [i \in 1..Len(content) |-> VFilePart(content[i], UseCompression(content))]
        /\ ScanFile(content).UseCompression = UseCompression(content)
    BY DEF ScanFile
  <2>8. QED
    BY <2>1, <2>5, <2>6, <2>7, Zenon DEF RightFile
<1>3. QED
  BY <1>1, <1>2, Zenon DEF RightEntry, FileOK

LEMMA HashPartKeeps ==
  ASSUME IInv, HashPart
  PROVE  IInv'
<1>1. /\ pc = "hash"
      /\ UNCHANGED <<disk, mtime, clock, localDb, names, listed, rootEntry, changed>>
      /\ UNCHANGED <<path, vFile>>
      /\ UNCHANGED <<comprSize, fh, calm, lastEdit, blurred, ghosts>>
  BY DEF HashPart, folder, ghosts
<1>2. FileOK /\ InFile /\ Scanning
  BY <1>1 DEF IInv, InFile, Scanning
<1>3. CASE partNo <= Len(fh)
  <2>1. pc' = "md5" /\ sha' = <<fh[partNo]>> /\ UNCHANGED <<oldDb, newDb>>
    BY <1>3 DEF HashPart
  <2>2. PartsSoFar => PartsSoFar'
    BY <1>1, <1>3, <2>1, Zenon DEF PartsSoFar, partNo
  <2>3. FileOK'
    <3>1. pc # "compr" /\ pc' \notin {"compr", "open"}
      BY <1>1, <2>1
    <3>2. QED
      BY <1>1, <1>2, <2>1, <2>2, <3>1, Zenon DEF FileOK, IsFile, Unedited
  <2>4. calm => StatOf(vFile') = Stat(path)
    BY <1>1, <1>2 DEF IInv, CalmOK
  <2>5. UNCHANGED scan
    BY <1>1, <2>1 DEF scan
  <2>6. QED
    BY <1>1, <1>2, <2>1, <2>3, <2>4, <2>5, FileStepKeeps
<1>4. CASE ~(partNo <= Len(fh))
  <2>1. pc' = "visit" /\ Visited(path, vFile)
    BY <1>4 DEF HashPart, EntryOfFile
  <2>2. RightEntry(vFile, path)
    BY <1>1, <1>4, FinishedEntryIsRight
  <2>3. path \in Path /\ names' \subseteq Path
    BY <1>1, <1>2 DEF IInv, FoldersOK, TypeOK
  <2>4. calm => /\ path \in DOMAIN disk /\ StatOf(vFile) = Stat(path)
                /\ names' \subseteq DOMAIN disk
                /\ \A q \in DOMAIN disk : q \in DOMAIN newDb \/ q \in names' \/ q = path
    BY <1>1, <1>2, Zenon DEF IInv, CalmOK
  <2>5. changed'
    BY <1>1, <1>2 DEF IInv, OldDbOK
  <2>6. QED
    BY <1>1, <1>2, <2>1, <2>2, <2>3, <2>4, <2>5, ElementVisited
<1>5. QED
  BY <1>3, <1>4

LEMMA CryptMd5Keeps ==
  ASSUME IInv, CryptMd5
  PROVE  IInv'
<1>1. pc = "md5" /\ UNCHANGED <<folder, clock, calm, ghosts>>
  BY DEF CryptMd5
<1>2. CASE ScanError
  BY <1>1, <1>2, ScanErrorKeeps
<1>3. CASE ~ScanError
  <2> DEFINE compr == vFile.UseCompression
             storageSize == IF compr THEN comprSize ELSE PlainSize[sha[1]]
             part == [StorageName |-> PartName(sha[1]), StorageSize |-> storageSize,
                      StorageMd5 |-> Stored(<< <<fh[partNo], compr>> >>)]
  <2>1. /\ ~(compr /\ partNo > 1) /\ ~(partNo > Len(fh))
        /\ StoredSize(fh[partNo], compr) = storageSize
        /\ pc' = "hash" /\ vFile' = [vFile EXCEPT !.Parts = Append(@, part)]
        /\ UNCHANGED <<localDb, names, scan, path, comprSize, fh, sha>>
    BY <1>3 DEF CryptMd5
  <2>2. /\ FileOK /\ InFile /\ Scanning
        /\ UNCHANGED <<disk, mtime, blurred, ghosts>>
    BY <1>1 DEF IInv, InFile, Scanning, folder, ghosts
  <2>3. /\ DOMAIN vFile = {"IsDir", "FileSize", "MTime", "FolderContent", "Parts",
                           "UseCompression"}
        /\ vFile.MTime \in 0..mtime[path]
        /\ Unedited(vFile, path) => /\ IsFile(path)
                                    /\ vFile.FileSize = PlainLength(disk[path])
                                    /\ compr = Compr(disk[path])
                                    /\ fh = disk[path] /\ PartsSoFar
    BY <1>1, <2>2 DEF FileOK
  <2> HIDE DEF part
  <2>4. /\ DOMAIN vFile' = DOMAIN vFile
        /\ vFile'.MTime = vFile.MTime /\ vFile'.FileSize = vFile.FileSize
        /\ vFile'.IsDir = vFile.IsDir /\ vFile'.UseCompression = compr
        /\ vFile'.Parts = Append(vFile.Parts, part)
    BY <2>1, <2>3
  <2>5. ASSUME Unedited(vFile, path)
        PROVE  PartsSoFar'
    <3>1. /\ fh \in Seq(Chunk) /\ compr \in BOOLEAN
          /\ fh' = fh /\ sha = <<fh[partNo]>> /\ partNo <= Len(fh)
          /\ vFile.Parts \in Seq(Part) /\ Len(vFile.Parts) <= Len(fh)
          /\ \A i \in 1..Len(vFile.Parts) : vFile.Parts[i] = VFilePart(fh[i], compr)
      <4>1. fh \in Seq(Chunk)
        BY <2>3, <2>5, ScanAssumption DEF IInv, FoldersOK, IsFile
      <4>2. compr \in BOOLEAN
        BY <2>3, <2>5, Zenon DEF Compr
      <4>3. QED
        BY <1>1, <2>1, <2>3, <2>5, <4>1, <4>2, Zenon DEF PartsSoFar
    <3> DEFINE n == Len(vFile.Parts)
    <3>2. n \in Nat /\ partNo = n + 1
      BY <3>1 DEF partNo
    <3>3. fh[n + 1] \in Chunk /\ part = VFilePart(fh[n + 1], compr)
      <4>1. fh[n + 1] \in Chunk
        BY <3>1, <3>2
      <4>2. sha[1] = fh[n + 1]
        BY <3>1, <3>2
      <4>3. QED
        BY <2>1, <3>2, <4>1, <4>2, Zenon DEF part, VFilePart
    <3>4. part \in Part
      <4>1. \E c \in Chunk, b \in BOOLEAN : part = VFilePart(c, b)
        BY <3>1, <3>3, Zenon
      <4>2. QED
        BY <4>1 DEF Part
    <3>5. /\ vFile'.Parts \in Seq(Part) /\ Len(vFile'.Parts) = n + 1
          /\ vFile'.Parts[n + 1] = part
          /\ \A i \in 1..n : vFile'.Parts[i] = vFile.Parts[i]
      BY <2>4, <3>1, <3>4, AppendProperties
    <3>6. n + 1 <= Len(fh) /\ (compr => n + 1 <= 1)
      <4>1. ~(n + 1 > 1) => n + 1 <= 1
        BY <3>2
      <4>2. QED
        BY <2>1, <3>1, <3>2, <4>1, Zenon
    <3>7. ASSUME NEW i \in 1..(n + 1)
          PROVE  vFile'.Parts[i] = VFilePart(fh[i], compr)
      <4>1. i = n + 1 \/ i \in 1..n
        BY <3>2
      <4>2. QED
        BY <3>1, <3>3, <3>5, <4>1, Zenon
    <3>8. pc' # "md5"
      BY <2>1
    <3>9. QED
      BY <2>4, <3>1, <3>5, <3>6, <3>7, <3>8, Zenon DEF PartsSoFar
  <2>6. FileOK'
    <3>1. pc' \notin {"compr", "open"}
      BY <2>1
    <3>2. QED
      BY <2>1, <2>2, <2>3, <2>4, <2>5, <3>1, Zenon DEF FileOK, IsFile, Unedited
  <2>7. calm => StatOf(vFile') = Stat(path)
    <3>1. calm => StatOf(vFile) = Stat(path)
      BY <2>2 DEF IInv, CalmOK
    <3>2. StatOf(vFile') = StatOf(vFile)
      BY <2>4, Zenon DEF StatOf
    <3>3. QED
      BY <3>1, <3>2
  <2>8. QED
    BY <1>1, <2>1, <2>2, <2>6, <2>7, FileStepKeeps
<1>4. QED
  BY <1>2, <1>3

LEMMA EndScanKeeps ==
  ASSUME IInv, EndScan
  PROVE  IInv'
<1>1. /\ pc' = "idle" /\ (localDb' = newDb \/ localDb' = localDb)
      /\ UNCHANGED <<disk, mtime, clock, names, listed, rootEntry, oldDb, newDb, changed>>
      /\ UNCHANGED <<path, calm, lastEdit, blurred>>
  BY DEF EndScan, folder, scan, scanFile, ghosts
<1>2. TypeOK' /\ FoldersOK'
  <2>1. DOMAIN localDb' \subseteq Path \cup {Root}
    BY <1>1 DEF IInv, TypeOK, FoldersOK
  <2>2. TypeOK'
    BY <1>1, <2>1, Zenon DEF IInv, TypeOK
  <2>3. FoldersOK'
    BY <1>1 DEF IInv, FoldersOK, Scanning
  <2>4. QED
    BY <2>2, <2>3
<1>3. RightDb(localDb)' /\ RightDb(newDb)'
  <2>1. RightDb(localDb) /\ RightDb(newDb) /\ UNCHANGED Seen
    BY <1>1 DEF IInv, Seen
  <2>2. QED
    BY <1>1, <2>1, SameDbs
<1>4. RootOK' /\ FileOK' /\ OldDbOK' /\ CalmOK'
  BY <1>1 DEF RootOK, FileOK, OldDbOK, CalmOK, InFile, Scanning
<1>5. QED
  BY <1>2, <1>3, <1>4 DEF IInv

-----------------------------------------------------------------------------
(***************************************************************************)
(* The theorems.                                                           *)
(***************************************************************************)
LEMMA NextKeeps ==
  ASSUME IInv, [Next]_vars
  PROVE  IInv'
<1>1. CASE Edit
  BY <1>1, EditKeeps
<1>2. CASE Tick
  BY <1>2, TickKeeps
<1>3. CASE StartScan
  BY <1>3, StartScanKeeps
<1>4. CASE WalkNames
  BY <1>4, WalkNamesKeeps
<1>5. CASE ListNames
  BY <1>5, ListNamesKeeps
<1>6. CASE ListKinds
  BY <1>6, ListKindsKeeps
<1>7. CASE Visit
  BY <1>7, VisitKeeps
<1>8. CASE StatFile
  BY <1>8, StatFileKeeps
<1>9. CASE TryCompression
  BY <1>9, TryCompressionKeeps
<1>10. CASE OpenFile
  BY <1>10, OpenFileKeeps
<1>11. CASE HashPart
  BY <1>11, HashPartKeeps
<1>12. CASE CryptMd5
  BY <1>12, CryptMd5Keeps
<1>13. CASE EndScan
  BY <1>13, EndScanKeeps
<1>14. CASE UNCHANGED vars
  <2>1. UNCHANGED <<folder, clock, localDb, pc, names, scan, scanFile, calm, ghosts>>
    BY <1>14 DEF vars
  <2>2. /\ UNCHANGED <<disk, mtime, clock, localDb, pc, names, listed, rootEntry>>
        /\ UNCHANGED <<oldDb, newDb>>
        /\ UNCHANGED <<changed, path, vFile, scanFile, calm, lastEdit, blurred>>
    BY <2>1 DEF folder, scan, scanFile, ghosts
  <2>3. TypeOK' /\ FoldersOK' /\ RootOK' /\ OldDbOK'
    BY <2>2, Zenon DEF IInv, TypeOK, FoldersOK, RootOK, OldDbOK, Scanning, Unedited
  <2>4. RightDb(localDb)' /\ RightDb(newDb)' /\ FileOK' /\ CalmOK'
    <3>1. FileOK' /\ CalmOK'
      BY <2>2, SameFile, SameCalm, Zenon DEF IInv, Seen
    <3>2. QED
      BY <2>2, <3>1, SameDbs DEF IInv, Seen
  <2>5. QED
    BY <2>3, <2>4 DEF IInv
<1>15. QED
  BY <1>1, <1>2, <1>3, <1>4, <1>5, <1>6, <1>7, <1>8, <1>9, <1>10, <1>11, <1>12,
     <1>13, <1>14 DEF Next, ScanStep

\* The new db at the end of a scan nobody disturbed.
LEMMA FinishedScan ==
  ASSUME IInv, pc = "visit", names = {}, calm
  PROVE  /\ DescribesFolder(newDb)
         /\ newDb[Root].FolderContent = Listing(DOMAIN disk)
<1>1. ~Scanning /\ TypeOK /\ CalmOK /\ RightDb(newDb)
  BY DEF Scanning, IInv
<1>2. /\ Root \in DOMAIN newDb
      /\ newDb[Root].FolderContent = Listing(DOMAIN disk)
      /\ \A p \in DOMAIN newDb \ {Root} : p \in DOMAIN disk /\ StatOf(newDb[p]) = Stat(p)
      /\ \A p \in DOMAIN disk : p \in DOMAIN newDb
  BY <1>1, Zenon DEF CalmOK
<1>3. DOMAIN newDb = DOMAIN disk \cup {Root}
  BY <1>2
<1>4. ASSUME NEW p \in DOMAIN disk
      PROVE  Describes(newDb[p], p)
  <2>1. /\ p \in Path /\ p # Root /\ p \in DOMAIN newDb
        /\ StatOf(newDb[p]) = Stat(p) /\ RightEntry(newDb[p], p)
    BY <1>1, <1>2, ScanAssumption DEF TypeOK, RightDb
  <2>2. newDb[p].MTime = mtime[p]
    BY <2>1 DEF StatOf, Stat
  <2>3. QED
    BY <2>1, <2>2, Zenon DEF RightEntry, Unedited, RightFile, Describes
<1>5. QED
  BY <1>2, <1>3, <1>4 DEF DescribesFolder

\* The inductive invariant: entries are right as long as nobody has edited what
\* they describe, which their mtime would tell but for edits in one second.
THEOREM ScanInvariant == Spec => []IInv
<1>1. Init => IInv
  BY InitInvariant
<1>2. IInv /\ [Next]_vars => IInv'
  BY NextKeeps
<1>3. QED
  BY <1>1, <1>2, PTL DEF Spec

\* The scan never leaves the folder, and what was visited is no longer left over
\* in the old db (FromScan deletes it from the clone).
THEOREM TypeCorrect == Spec => []TypeOK
<1>1. IInv => TypeOK
  BY DEF IInv
<1>2. QED
  BY <1>1, ScanInvariant, PTL

\* db.FromScan: a scan nobody disturbs returns the folder as it is, whichever
\* entries it took over from the scans before, and whatever became of those.
THEOREM UndisturbedScanIsExact == Spec => []ScanIsExact
<1>1. ASSUME IInv, pc = "visit", names = {}, calm
      PROVE  /\ DescribesFolder(newDb)
             /\ newDb[Root].FolderContent = Listing(DOMAIN disk)
  BY <1>1, FinishedScan
<1>2. IInv => ScanIsExact
  BY <1>1 DEF ScanIsExact
<1>3. QED
  BY <1>2, ScanInvariant, PTL

\* db.FromScan, "no change": the local db that is kept describes the folder.
THEOREM NoChangeIsCurrent == Spec => []UnchangedIsCurrent
<1>1. ASSUME IInv, pc = "visit", names = {}, calm, ~FinallyChanged
      PROVE  /\ DescribesFolder(localDb)
             /\ Root \notin blurred
                  => localDb[Root].FolderContent = Listing(DOMAIN disk)
  <2>1. /\ DescribesFolder(newDb)
        /\ newDb[Root].FolderContent = Listing(DOMAIN disk)
    BY <1>1, FinishedScan
  <2>2. ~changed /\ DOMAIN oldDb = {}
    BY <1>1 DEF FinallyChanged
  <2>3. /\ DOMAIN localDb \subseteq DOMAIN newDb
        /\ \A p \in DOMAIN newDb \ {Root} : p \in DOMAIN localDb /\ newDb[p] = localDb[p]
        /\ Root \in DOMAIN localDb /\ localDb[Root].MTime = mtime[Root]
    BY <1>1, <2>2 DEF IInv, OldDbOK
  <2>4. Root \notin DOMAIN disk
    <3>1. Root \notin Path /\ DOMAIN disk \subseteq Path
      BY <1>1, ScanAssumption DEF IInv, TypeOK
    <3>2. QED
      BY <3>1, Zenon
  <2>5. DescribesFolder(localDb)
    <3>1. DOMAIN localDb = DOMAIN disk \cup {Root}
      BY <2>1, <2>3, Zenon DEF DescribesFolder
    <3>2. ASSUME NEW p \in DOMAIN disk PROVE Describes(localDb[p], p)
      <4>1. p \in DOMAIN newDb \ {Root} /\ Describes(newDb[p], p)
        BY <2>1, <2>4, Zenon DEF DescribesFolder
      <4>2. newDb[p] = localDb[p]
        BY <2>3, <4>1
      <4>3. QED
        BY <4>1, <4>2
    <3>3. QED
      BY <3>1, <3>2 DEF DescribesFolder
  <2>6. ASSUME Root \notin blurred
        PROVE  localDb[Root].FolderContent = Listing(DOMAIN disk)
    <3>1. RightEntry(localDb[Root], Root) /\ Unedited(localDb[Root], Root)
      BY <1>1, <2>3, <2>6 DEF IInv, RightDb, Unedited
    <3>2. QED
      BY <3>1, Zenon DEF RightEntry
  <2>7. QED
    BY <2>5, <2>6
<1>2. IInv => UnchangedIsCurrent
  BY <1>1, Zenon DEF UnchangedIsCurrent
<1>3. QED
  BY <1>2, ScanInvariant, PTL

=============================================================================
