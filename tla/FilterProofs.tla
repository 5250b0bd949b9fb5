---------------------------- MODULE FilterProofs ----------------------------
(* What Where returns, for any list and any condition.                     *)
EXTENDS Filters, SequenceTheorems, WellFoundedInduction, TLAPS

-----------------------------------------------------------------------------
(* Induction *)

\* The pairs of numbers in ascending order.
Less == {p \in Nat \X Nat : p[1] < p[2]}

\* The order of the numbers has no infinite descent.
LEMMA LessIsWellFounded == IsWellFoundedOn(Less, Nat)
  BY NatLessThanWellFounded DEF Less, OpToRel

\* Induction over a set of numbers.
LEMMA Induction ==
  ASSUME NEW T, 0 \in T, \A n \in T \cap Nat : n + 1 \in T
  PROVE  Nat \subseteq T
<1> DEFINE U == Nat \ T
<1> SUFFICES ASSUME U # {} PROVE FALSE
  OBVIOUS
<1>1. PICK m \in U : \A k \in U : <<k, m>> \notin Less
  <2>1. U \subseteq Nat
    OBVIOUS
  <2> HIDE DEF U
  <2>2. QED
    BY <2>1, LessIsWellFounded, WFMin, Zenon
<1>2. m - 1 \in Nat /\ m - 1 < m
  BY <1>1
<1>3. m - 1 \notin U
  BY <1>1, <1>2 DEF Less
<1>4. m - 1 \in T \cap Nat
  BY <1>2, <1>3
<1>5. (m - 1) + 1 \in T
  BY <1>4
<1>6. QED
  BY <1>1, <1>5

-----------------------------------------------------------------------------
(* Sequences *)

\* Append as a function: the members of q, then e.
LEMMA Appended ==
  ASSUME NEW m \in Nat, NEW q, q = [k \in 1..m |-> q[k]]
  PROVE  /\ Len(q) = m
         /\ \A e : Append(q, e) = [k \in 1..(m + 1) |-> IF k <= m THEN q[k] ELSE e]
<1> DEFINE R == {q[k] : k \in 1..m}
<1>1. q \in [1..m -> R]
  OBVIOUS
<1>2. q \in Seq(R) /\ Len(q) = m
  <2> HIDE DEF R
  <2>1. QED
    BY <1>1
<1>3. ASSUME NEW e PROVE Append(q, e) = [k \in 1..(m + 1) |-> IF k <= m THEN q[k] ELSE e]
  <2>1. q \in Seq(R \cup {e}) /\ e \in R \cup {e}
    <3>1. q \in [1..m -> R \cup {e}]
      <4> HIDE DEF R
      <4>1. QED
        BY <1>1
    <3> HIDE DEF R
    <3>2. QED
      BY <3>1
  <2>2. /\ Append(q, e) \in Seq(R \cup {e}) /\ Len(Append(q, e)) = m + 1
        /\ \A k \in 1..m : Append(q, e)[k] = q[k]
        /\ Append(q, e)[m + 1] = e
    <3> HIDE DEF R
    <3>1. QED
      BY <1>2, <2>1, AppendProperties
  <2>3. Append(q, e) = [k \in 1..(m + 1) |-> Append(q, e)[k]]
    <3> HIDE DEF R
    <3>1. QED
      BY <2>2
  <2>4. \A k \in 1..(m + 1) : Append(q, e)[k] = IF k <= m THEN q[k] ELSE e
    BY <2>2
  <2>5. QED
    BY <2>3, <2>4
<1>4. QED
  BY <1>2, <1>3

\* What Where keeps of the first n members of s.
Keeps(f, s, S, n) ==
  f = [i \in 0..n |->
         IF i = 0 THEN <<>>
         ELSE IF s[i] \in S THEN Append(f[i - 1], s[i]) ELSE f[i - 1]]

\* The function Where computes with exists.
LEMMA KeepsExists ==
  ASSUME NEW s, NEW S, NEW n \in Nat
  PROVE  \E f : Keeps(f, s, S, n)
<1> DEFINE T == {k \in Nat : \E f : Keeps(f, s, S, k)}
<1>1. 0 \in T
  <2>1. Keeps([i \in 0..0 |-> <<>>], s, S, 0)
    BY DEF Keeps
  <2>2. QED
    BY <2>1
<1>2. ASSUME NEW k \in T \cap Nat PROVE k + 1 \in T
  <2>1. PICK f : Keeps(f, s, S, k)
    OBVIOUS
  <2> DEFINE g == [i \in 0..(k + 1) |->
                     IF i <= k THEN f[i]
                     ELSE IF s[k + 1] \in S THEN Append(f[k], s[k + 1]) ELSE f[k]]
  <2>2. ASSUME NEW i \in 0..(k + 1)
        PROVE  g[i] = IF i = 0 THEN <<>>
                      ELSE IF s[i] \in S THEN Append(g[i - 1], s[i]) ELSE g[i - 1]
    <3>1. CASE i <= k
      <4>1. i \in 0..k /\ i \in 0..(k+1) /\ g[i] = f[i]
        BY <3>1
      <4>2. f[i] = IF i = 0 THEN <<>>
                   ELSE IF s[i] \in S THEN Append(f[i - 1], s[i]) ELSE f[i - 1]
        BY <2>1, <4>1 DEF Keeps
      <4>3. i # 0 => i - 1 \in 0..(k + 1) /\ i - 1 <= k
        BY <4>1
      <4>4. i # 0 => g[i - 1] = f[i - 1]
        BY <4>3
      <4> HIDE DEF g
      <4>5. QED
        BY <4>1, <4>2, <4>4
    <3>2. CASE i = k + 1
      <4>1. g[i] = IF s[k + 1] \in S THEN Append(f[k], s[k + 1]) ELSE f[k]
        BY <3>2
      <4>2. k \in 0..(k + 1) /\ k <= k /\ i - 1 = k /\ i # 0
        BY <3>2
      <4>3. g[k] = f[k]
        BY <4>2
      <4> HIDE DEF g
      <4>4. QED
        BY <3>2, <4>1, <4>2, <4>3
    <3>3. QED
      BY <3>1, <3>2
  <2>3. Keeps(g, s, S, k + 1)
    <3>1. g = [i \in 0..(k + 1) |-> g[i]]
      OBVIOUS
    <3> HIDE DEF g
    <3>2. QED
      BY <2>2, <3>1 DEF Keeps
  <2>4. QED
    BY <2>3
<1>3. QED
  <2> HIDE DEF T
  <2>1. Nat \subseteq T
    BY <1>1, <1>2, Induction
  <2>2. QED
    BY <2>1 DEF T

\* q is what a filter by S makes of the first n members of s: those at the m
\* places g, in ascending order, where a member of S is.
Filtered(s, n, S, q, m, g) ==
    /\ m \in Nat /\ g \in [1..m -> 1..n]
    /\ q = [k \in 1..m |-> s[g[k]]]
    /\ \A j, k \in 1..m : j < k => g[j] < g[k]
    /\ \A k \in 1..m : s[g[k]] \in S
    /\ \A i \in 1..n : s[i] \in S => \E k \in 1..m : g[k] = i

\* Where is such a filter.
LEMMA WherePlaces ==
  ASSUME NEW X, NEW s \in Seq(X), NEW S
  PROVE  \E m, g : Filtered(s, Len(s), S, Where(s, S), m, g)
<1> DEFINE L == Len(s)
<1>0. L \in Nat
  OBVIOUS
<1>1. PICK f : Keeps(f, s, S, L) /\ Where(s, S) = f[L]
  <2> DEFINE W == CHOOSE f : Keeps(f, s, S, L)
  <2>1. Where(s, S) = W[L]
    BY DEF Where, Keeps
  <2>2. Keeps(W, s, S, L)
    <3> HIDE DEF L
    <3>1. QED
    BY <1>0, KeepsExists
  <2>3. QED
    BY <2>1, <2>2
<1> DEFINE T == {n \in Nat : n <= L => \E m, g : Filtered(s, n, S, f[n], m, g)}
<1>2. f[0] = <<>> /\ \A i \in 1..L : f[i] = IF s[i] \in S THEN Append(f[i - 1], s[i]) ELSE f[i - 1]
  <2>1. \A i \in 0..L : f[i] = IF i = 0 THEN <<>>
                              ELSE IF s[i] \in S THEN Append(f[i - 1], s[i]) ELSE f[i - 1]
    <3> HIDE DEF L
    <3>1. QED
      BY <1>0, <1>1 DEF Keeps
  <2>2. 0 \in 0..L /\ \A i \in 1..L : i \in 0..L /\ i # 0
    BY <1>0
  <2> HIDE DEF L
  <2>3. QED
    BY <2>1, <2>2
<1>3. 0 \in T
  <2>1. Filtered(s, 0, S, f[0], 0, <<>>)
    BY <1>2 DEF Filtered
  <2>2. QED
    BY <2>1
<1>4. ASSUME NEW n \in T \cap Nat PROVE n + 1 \in T
  <2> SUFFICES ASSUME n + 1 <= L PROVE \E m, g : Filtered(s, n + 1, S, f[n + 1], m, g)
    OBVIOUS
  <2>1. n <= L /\ n + 1 \in 1..L /\ (n + 1) - 1 = n
    BY <1>0
  <2>2. PICK m, g : Filtered(s, n, S, f[n], m, g)
    BY <2>1
  <2>3. f[n + 1] = IF s[n + 1] \in S THEN Append(f[n], s[n + 1]) ELSE f[n]
    BY <1>2, <2>1
  <2>4. CASE s[n + 1] \notin S
    <3>1. g \in [1..m -> 1..(n + 1)]
      BY <2>2 DEF Filtered
    <3>4. \A i \in 1..(n + 1) : s[i] \in S => \E k \in 1..m : g[k] = i
      <4>1. \A i \in 1..(n + 1) : i \in 1..n \/ i = n + 1
        OBVIOUS
      <4>2. QED
        BY <2>2, <2>4, <4>1 DEF Filtered
    <3>2. Filtered(s, n + 1, S, f[n + 1], m, g)
      BY <2>2, <2>3, <2>4, <3>1, <3>4 DEF Filtered
    <3>3. QED
      BY <3>2
  <2>5. CASE s[n + 1] \in S
    <3> DEFINE h == [k \in 1..(m + 1) |-> IF k <= m THEN g[k] ELSE n + 1]
    <3>1. m + 1 \in Nat /\ h \in [1..(m + 1) -> 1..(n + 1)]
      BY <2>2 DEF Filtered
    <3>2. \A k \in 1..m : h[k] = g[k] /\ h[k] \in 1..n
      BY <2>2 DEF Filtered
    <3>3. h[m + 1] = n + 1
      BY <2>2 DEF Filtered
    <3>4. f[n + 1] = [k \in 1..(m + 1) |-> s[h[k]]]
      <4>1. m \in Nat /\ f[n] = [k \in 1..m |-> f[n][k]]
        BY <2>2 DEF Filtered
      <4>2. Append(f[n], s[n + 1]) = [k \in 1..(m + 1) |-> IF k <= m THEN f[n][k] ELSE s[n + 1]]
        BY <4>1, Appended
      <4>3. \A k \in 1..(m + 1) : (IF k <= m THEN f[n][k] ELSE s[n + 1]) = s[h[k]]
        BY <2>2 DEF Filtered
      <4> HIDE DEF h
      <4>4. QED
        BY <2>3, <2>5, <4>2, <4>3
    <3>5. \A j, k \in 1..(m + 1) : j < k => h[j] < h[k]
      <4> HIDE DEF h
      <4>1. \A j, k \in 1..m : j < k => h[j] < h[k]
        BY <2>2, <3>2 DEF Filtered
      <4>2. \A j, k \in 1..(m + 1) : j < k => j \in 1..m /\ (k \in 1..m \/ k = m + 1)
        BY <2>2 DEF Filtered
      <4>3. \A k \in 1..m : h[k] < n + 1
        BY <3>2
      <4>4. QED
        BY <3>3, <4>1, <4>2, <4>3
    <3>6. \A k \in 1..(m + 1) : s[h[k]] \in S
      <4> HIDE DEF h
      <4>2. \A k \in 1..(m + 1) : k \in 1..m \/ k = m + 1
        BY <2>2 DEF Filtered
      <4>4. QED
        BY <2>2, <2>5, <3>2, <3>3, <4>2 DEF Filtered
    <3>9. ASSUME NEW i \in 1..(n + 1), s[i] \in S PROVE \E k \in 1..(m + 1) : h[k] = i
      <4>1. CASE i = n + 1
        <5>1. m + 1 \in 1..(m + 1)
          BY <2>2 DEF Filtered
        <5> HIDE DEF h
        <5>2. QED
          BY <3>3, <4>1, <5>1
      <4>2. CASE i # n + 1
        <5>1. i \in 1..n
          BY <4>2
        <5>2. PICK k \in 1..m : g[k] = i
          BY <2>2, <3>9, <5>1 DEF Filtered
        <5>3. k \in 1..(m + 1)
          BY <2>2 DEF Filtered
        <5> HIDE DEF h
        <5>4. QED
          BY <3>2, <5>2, <5>3
      <4>3. QED
        BY <4>1, <4>2
    <3>7. Filtered(s, n + 1, S, f[n + 1], m + 1, h)
      <4> HIDE DEF h
      <4>1. QED
        BY <3>1, <3>4, <3>5, <3>6, <3>9 DEF Filtered
    <3>8. QED
      BY <3>7, Zenon
  <2>6. QED
    BY <2>4, <2>5
<1>5. L \in T
  <2> HIDE DEF T
  <2>1. Nat \subseteq T
    BY <1>3, <1>4, Induction
  <2>2. QED
    BY <1>0, <2>1
<1>6. PICK m, g : Filtered(s, L, S, f[L], m, g)
  BY <1>0, <1>5
<1>7. Filtered(s, Len(s), S, Where(s, S), m, g)
  BY <1>1, <1>6 DEF Filtered
<1>8. QED
  BY <1>7

\* l places of 1..n in ascending order.
Ascending(f, l, n) ==
    /\ l \in Nat /\ f \in [1..l -> 1..n]
    /\ \A j, k \in 1..l : j < k => f[j] < f[k]

\* The places f are among the places g.
Among(f, l, g, m) == \A j \in 1..l : \E k \in 1..m : g[k] = f[j]

\* There is one way to put places in ascending order.
LEMMA AscendingAgree ==
  ASSUME NEW n \in Nat, NEW l, NEW m, NEW f, NEW g,
         Ascending(f, l, n), Ascending(g, m, n), Among(f, l, g, m), Among(g, m, f, l)
  PROVE  l = m /\ f = g
<1>0. /\ l \in Nat /\ m \in Nat /\ f \in [1..l -> 1..n] /\ g \in [1..m -> 1..n]
      /\ \A j, k \in 1..l : j < k => f[j] < f[k]
      /\ \A j, k \in 1..m : j < k => g[j] < g[k]
      /\ \A j \in 1..l : \E k \in 1..m : g[k] = f[j]
      /\ \A k \in 1..m : \E j \in 1..l : f[j] = g[k]
  BY DEF Ascending, Among
<1> DEFINE T == {i \in Nat : \A k \in 1..i : k <= l /\ k <= m => f[k] = g[k]}
<1>1. 0 \in T
  OBVIOUS
<1>2. ASSUME NEW i \in T \cap Nat PROVE i + 1 \in T
  <2>0. i \in Nat
    OBVIOUS
  <2>1. ASSUME i + 1 <= l, i + 1 <= m PROVE f[i + 1] = g[i + 1]
    <3>1. \A k \in 1..i : f[k] = g[k]
      BY <1>0, <2>0, <2>1
    <3>2. i + 1 \in 1..l /\ i + 1 \in 1..m /\ \A k \in 1..i : k \in 1..l /\ k \in 1..m
      BY <1>0, <2>0, <2>1
    <3> HIDE DEF T
    <3>7. PICK a \in Nat : a = f[i + 1]
      BY <1>0, <3>2
    <3>8. PICK c \in Nat : c = g[i + 1]
      BY <1>0, <3>2
    <3>3. a >= c
      <4>1. PICK k \in 1..m : g[k] = f[i + 1]
        BY <1>0, <2>0, <3>2
      <4>2. ~(k < i + 1)
        <5>1. SUFFICES ASSUME k < i + 1 PROVE FALSE
          OBVIOUS
        <5>2. k \in 1..i
          BY <1>0, <2>0, <5>1
        <5>3. k \in 1..l /\ k \in 1..m /\ f[k] = g[k]
          BY <1>0, <2>0, <3>1, <3>2, <5>2
        <5>5. f[k] < f[i + 1]
          BY <1>0, <2>0, <3>2, <5>1, <5>3
        <5>6. f[k] \in 1..n
          BY <1>0, <2>0, <5>3
        <5>4. QED
          BY <1>0, <2>0, <4>1, <5>3, <5>5, <5>6
      <4>3. k = i + 1 \/ i + 1 < k
        BY <1>0, <2>0, <4>2
      <4>4. k = i + 1 \/ g[i + 1] < g[k]
        BY <1>0, <2>0, <3>2, <4>3
      <4>5. QED
        BY <3>7, <3>8, <4>1, <4>4
    <3>4. c >= a
      <4>1. PICK k \in 1..l : f[k] = g[i + 1]
        BY <1>0, <2>0, <3>2
      <4>2. ~(k < i + 1)
        <5>1. SUFFICES ASSUME k < i + 1 PROVE FALSE
          OBVIOUS
        <5>2. k \in 1..i
          BY <1>0, <2>0, <5>1
        <5>3. k \in 1..l /\ k \in 1..m /\ f[k] = g[k]
          BY <1>0, <2>0, <3>1, <3>2, <5>2
        <5>5. g[k] < g[i + 1]
          BY <1>0, <2>0, <3>2, <5>1, <5>3
        <5>6. g[k] \in 1..n
          BY <1>0, <2>0, <5>3
        <5>4. QED
          BY <1>0, <2>0, <4>1, <5>3, <5>5, <5>6
      <4>3. k = i + 1 \/ i + 1 < k
        BY <1>0, <2>0, <4>2
      <4>4. k = i + 1 \/ f[i + 1] < f[k]
        BY <1>0, <2>0, <3>2, <4>3
      <4>5. QED
        BY <3>7, <3>8, <4>1, <4>4
    <3>5. a = c
      BY <3>3, <3>4
    <3>6. QED
      BY <3>5, <3>7, <3>8
  <2>2. \A k \in 1..(i + 1) : k \in 1..i \/ k = i + 1
    OBVIOUS
  <2>3. \A k \in 1..i : k <= l /\ k <= m => f[k] = g[k]
    OBVIOUS
  <2>4. \A k \in 1..(i + 1) : k <= l /\ k <= m => f[k] = g[k]
    BY <1>0, <2>0, <2>1, <2>2, <2>3
  <2>5. QED
    BY <1>0, <2>0, <2>4
<1>3. \A k \in Nat : k > 0 /\ k <= l /\ k <= m => f[k] = g[k]
  <2>1. ASSUME NEW k \in Nat, k > 0, k <= l, k <= m PROVE f[k] = g[k]
    <3>1. k \in T /\ k \in 1..k
      <4> HIDE DEF T
      <4>1. Nat \subseteq T
        BY <1>0, <1>1, <1>2, Induction
      <4>2. QED
        BY <1>0, <2>1, <4>1
    <3>2. QED
      BY <1>0, <2>1, <3>1
  <2>2. QED
    BY <1>0, <2>1
<1> HIDE DEF T
<1>4. ~(l < m)
  <2>1. SUFFICES ASSUME l < m PROVE FALSE
    OBVIOUS
  <2>2. m \in 1..m
    BY <1>0, <2>1
  <2>3. PICK j \in 1..l : f[j] = g[m]
    BY <1>0, <2>2
  <2>4. f[j] = g[j] /\ j \in 1..m /\ j < m
    BY <1>0, <1>3, <2>1
  <2>5. g[j] < g[m] /\ g[j] \in Nat
    BY <1>0, <2>2, <2>4
  <2>6. QED
    BY <1>0, <2>3, <2>4, <2>5
<1>5. ~(m < l)
  <2>1. SUFFICES ASSUME m < l PROVE FALSE
    OBVIOUS
  <2>2. l \in 1..l
    BY <1>0, <2>1
  <2>3. PICK j \in 1..m : g[j] = f[l]
    BY <1>0, <2>2
  <2>4. f[j] = g[j] /\ j \in 1..l /\ j < l
    BY <1>0, <1>3, <2>1
  <2>5. f[j] < f[l] /\ f[j] \in Nat
    BY <1>0, <2>2, <2>4
  <2>6. QED
    BY <1>0, <2>3, <2>4, <2>5
<1>6. l = m
  BY <1>0, <1>4, <1>5
<1>7. \A k \in 1..l : f[k] = g[k]
  BY <1>0, <1>3, <1>6
<1>8. QED
  BY <1>0, <1>6, <1>7

\* A filter of a list has one result.
LEMMA FilteredOnce ==
  ASSUME NEW s, NEW n \in Nat, NEW S, NEW p, NEW l, NEW f, NEW q, NEW m, NEW g,
         Filtered(s, n, S, p, l, f), Filtered(s, n, S, q, m, g)
  PROVE  p = q /\ l = m /\ f = g
<1>1. Ascending(f, l, n) /\ Ascending(g, m, n)
  BY DEF Filtered, Ascending
<1>2. Among(f, l, g, m)
  <2>1. ASSUME NEW j \in 1..l PROVE \E k \in 1..m : g[k] = f[j]
    <3>1. f[j] \in 1..n /\ s[f[j]] \in S
      BY DEF Filtered
    <3>2. QED
      BY <3>1 DEF Filtered
  <2>2. QED
    BY <2>1 DEF Among
<1>3. Among(g, m, f, l)
  <2>1. ASSUME NEW j \in 1..m PROVE \E k \in 1..l : f[k] = g[j]
    <3>1. g[j] \in 1..n /\ s[g[j]] \in S
      BY DEF Filtered
    <3>2. QED
      BY <3>1 DEF Filtered
  <2>2. QED
    BY <2>1 DEF Among
<1>4. l = m /\ f = g
  BY <1>1, <1>2, <1>3, AscendingAgree
<1>5. QED
  BY <1>4 DEF Filtered

\* So Where is found by naming the places it takes.
LEMMA WhereIs ==
  ASSUME NEW X, NEW s \in Seq(X), NEW S, NEW q, NEW m, NEW g,
         Filtered(s, Len(s), S, q, m, g)
  PROVE  Where(s, S) = q
<1>1. PICK l, f : Filtered(s, Len(s), S, Where(s, S), l, f)
  BY WherePlaces
<1>2. Len(s) \in Nat
  OBVIOUS
<1>3. QED
  BY <1>1, <1>2, FilteredOnce

\* A filter that all members pass.
LEMMA WhereAll ==
  ASSUME NEW X, NEW s \in Seq(X), NEW S, \A i \in 1..Len(s) : s[i] \in S
  PROVE  Where(s, S) = s
<1>1. Len(s) \in Nat /\ s = [k \in 1..Len(s) |-> s[k]]
  BY LenProperties
<1> DEFINE g == [k \in 1..Len(s) |-> k]
<1>2. Filtered(s, Len(s), S, s, Len(s), g)
  BY <1>1 DEF Filtered
<1> HIDE DEF g
<1>3. QED
  BY <1>2, WhereIs

\* A filter that none passes.
LEMMA WhereNone ==
  ASSUME NEW X, NEW s \in Seq(X), NEW S, \A i \in 1..Len(s) : s[i] \notin S
  PROVE  Where(s, S) = <<>>
<1>1. Filtered(s, Len(s), S, <<>>, 0, <<>>)
  BY DEF Filtered
<1>2. QED
  BY <1>1, WhereIs

\* What a filter keeps is in the list and passes it, and the other way round.
LEMMA WhereMembers ==
  ASSUME NEW X, NEW s \in Seq(X), NEW S
  PROVE  /\ Where(s, S) \in Seq(X \cap S)
         /\ \A k \in 1..Len(Where(s, S)) : \E i \in 1..Len(s) : s[i] = Where(s, S)[k]
         /\ \A i \in 1..Len(s) : s[i] \in S =>
              \E k \in 1..Len(Where(s, S)) : Where(s, S)[k] = s[i]
<1>1. PICK m, g : Filtered(s, Len(s), S, Where(s, S), m, g)
  BY WherePlaces
<1>2. m \in Nat /\ \A k \in 1..m : g[k] \in 1..Len(s)
  BY <1>1 DEF Filtered
<1>3. \A k \in 1..m : s[g[k]] \in X \cap S
  BY <1>1, <1>2, ElementOfSeq DEF Filtered
<1>4. Where(s, S) \in [1..m -> X \cap S] /\ \A k \in 1..m : Where(s, S)[k] = s[g[k]]
  BY <1>1, <1>3 DEF Filtered
<1>5. Where(s, S) \in Seq(X \cap S) /\ Len(Where(s, S)) = m
  BY <1>2, <1>4
<1>6. QED
  BY <1>1, <1>2, <1>4, <1>5 DEF Filtered

\* A filter looks at the members of the list alone.
LEMMA WhereSame ==
  ASSUME NEW X, NEW s \in Seq(X), NEW S, NEW U,
         \A i \in 1..Len(s) : s[i] \in S <=> s[i] \in U
  PROVE  Where(s, S) = Where(s, U)
<1>1. PICK m, g : Filtered(s, Len(s), S, Where(s, S), m, g)
  BY WherePlaces
<1>2. \A k \in 1..m : g[k] \in 1..Len(s)
  BY <1>1 DEF Filtered
<1>3. Filtered(s, Len(s), U, Where(s, S), m, g)
  BY <1>1, <1>2 DEF Filtered
<1>4. QED
  BY <1>3, WhereIs

\* A list in which nothing comes twice stays one.
LEMMA WhereDistinct ==
  ASSUME NEW X, NEW s \in Seq(X), NEW S,
         \A i, j \in 1..Len(s) : s[i] = s[j] => i = j
  PROVE  \A i, j \in 1..Len(Where(s, S)) : Where(s, S)[i] = Where(s, S)[j] => i = j
<1>1. PICK m, g : Filtered(s, Len(s), S, Where(s, S), m, g)
  BY WherePlaces
<1>2. /\ m \in Nat /\ \A k \in 1..m : g[k] \in 1..Len(s)
      /\ Where(s, S) = [k \in 1..m |-> s[g[k]]]
      /\ \A j, k \in 1..m : j < k => g[j] < g[k]
  BY <1>1 DEF Filtered
<1>3. Len(Where(s, S)) = m
  <2>1. Where(s, S) \in Seq(X \cap S)
    BY WhereMembers
  <2>2. QED
    BY <1>2, <2>1, LenProperties
<1>4. ASSUME NEW i \in 1..m, NEW j \in 1..m, Where(s, S)[i] = Where(s, S)[j] PROVE i = j
  <2>1. g[i] = g[j]
    BY <1>2, <1>4
  <2>2. ~(i < j) /\ ~(j < i)
    BY <1>2, <2>1
  <2>3. QED
    BY <1>2, <2>2
<1>5. QED
  BY <1>3, <1>4

\* What a list q keeps of s by the condition S.
Kept(q, s, S) ==
  /\ \A k \in 1..Len(q) : \E i \in 1..Len(s) : s[i] = q[k]
  /\ \A i \in 1..Len(s) : s[i] \in S => \E k \in 1..Len(q) : q[k] = s[i]

\* Where keeps so.
LEMMA WhereKept ==
  ASSUME NEW X, NEW s \in Seq(X), NEW S
  PROVE  Kept(Where(s, S), s, S)
<1>1. PICK m, g : Filtered(s, Len(s), S, Where(s, S), m, g)
  BY WherePlaces
<1>2. m \in Nat /\ \A k \in 1..m : g[k] \in 1..Len(s)
  BY <1>1 DEF Filtered
<1>3. PICK w : w = Where(s, S) /\ \A k \in 1..m : w[k] = s[g[k]]
  BY <1>1 DEF Filtered
<1>4. Len(w) = m
  <2>1. Where(s, S) = [k \in 1..m |-> s[g[k]]]
    BY <1>1 DEF Filtered
  <2>2. Where(s, S) \in Seq(X \cap S)
    BY WhereMembers
  <2>3. QED
    BY <1>2, <1>3, <2>1, <2>2, LenProperties
<1>5. \A k \in 1..Len(w) : \E i \in 1..Len(s) : s[i] = w[k]
  BY <1>2, <1>3, <1>4
<1>7. \A i \in 1..Len(s) : s[i] \in S => \E k \in 1..m : g[k] = i
  BY <1>1 DEF Filtered
<1>8. \A i \in 1..Len(s) : s[i] \in S => \E k \in 1..Len(w) : w[k] = s[i]
  BY <1>3, <1>4, <1>7
<1>9. Kept(w, s, S)
  BY <1>5, <1>8 DEF Kept
<1>6. QED
  BY <1>3, <1>9

\* Without its first n members a filter is that of what they are not.
LEMMA WhereTail ==
  ASSUME NEW X, NEW s \in Seq(X), NEW S, NEW U, NEW n \in 0..Len(Where(s, S)),
         \A i, j \in 1..Len(s) : s[i] = s[j] => i = j,
         \A i \in 1..Len(s) :
            s[i] \in U <=> s[i] \in S /\ \A k \in 1..n : Where(s, S)[k] # s[i]
  PROVE  Where(s, U) = SubSeq(Where(s, S), n + 1, Len(Where(s, S)))
<1>1. PICK m, g : Filtered(s, Len(s), S, Where(s, S), m, g)
  BY WherePlaces
<1>2. /\ m \in Nat /\ g \in [1..m -> 1..Len(s)] /\ Len(s) \in Nat
      /\ Where(s, S) = [k \in 1..m |-> s[g[k]]]
      /\ \A j, k \in 1..m : j < k => g[j] < g[k]
      /\ \A k \in 1..m : s[g[k]] \in S
      /\ \A i \in 1..Len(s) : s[i] \in S => \E k \in 1..m : g[k] = i
  BY <1>1 DEF Filtered
<1>3. Where(s, S) \in Seq(X \cap S) /\ Len(Where(s, S)) = m
  <2>1. Where(s, S) \in Seq(X \cap S)
    BY WhereMembers
  <2>2. QED
    BY <1>2, <2>1, LenProperties
<1>4. n \in 0..m /\ n \in Nat
  BY <1>2, <1>3
<1>5. \A j, k \in 1..m : g[j] = g[k] => j = k
  <2>1. ASSUME NEW j \in 1..m, NEW k \in 1..m, g[j] = g[k] PROVE j = k
    <3>1. ~(j < k) /\ ~(k < j)
      BY <1>2, <2>1
    <3>2. QED
      BY <1>2, <3>1
  <2>2. QED
    BY <2>1
<1> DEFINE h == [k \in 1..(m - n) |-> g[n + k]]
           q == SubSeq(Where(s, S), n + 1, m)
<1>6. /\ m - n \in Nat
      /\ \A k \in 1..(m - n) : n + k \in 1..m /\ h[k] = g[n + k] /\ h[k] \in 1..Len(s)
  <2>1. m - n \in Nat /\ \A k \in 1..(m - n) : n + k \in 1..m
    BY <1>2, <1>4
  <2>2. QED
    BY <1>2, <2>1
<1>7. h \in [1..(m - n) -> 1..Len(s)]
  <2>1. h = [k \in 1..(m - n) |-> h[k]]
    OBVIOUS
  <2> HIDE DEF h
  <2>2. QED
    BY <1>6, <2>1
<1>8. q = [k \in 1..(m - n) |-> s[h[k]]]
  <2>1. /\ q \in Seq(X \cap S) /\ Len(q) = m - n
        /\ \A k \in 1..(m - n) : q[k] = Where(s, S)[n + k]
    <3>1. /\ q \in Seq(X \cap S)
          /\ Len(q) = IF n + 1 <= m THEN m - (n + 1) + 1 ELSE 0
          /\ \A k \in 1..(m - (n + 1) + 1) : q[k] = Where(s, S)[(n + 1) + k - 1]
      BY <1>2, <1>3, <1>4, SubSeqProperties
    <3>2. m - (n + 1) + 1 = m - n /\ (n + 1 <= m \/ m - n = 0)
      BY <1>2, <1>4
    <3>3. \A k \in 1..(m - n) : (n + 1) + k - 1 = n + k
      BY <1>4
    <3> HIDE DEF q
    <3>4. QED
      BY <3>1, <3>2, <3>3
  <2>2. q = [k \in 1..(m - n) |-> q[k]]
    <3> HIDE DEF q
    <3>1. QED
      BY <2>1, LenProperties
  <2>3. \A k \in 1..(m - n) : q[k] = s[h[k]]
    <3>1. ASSUME NEW k \in 1..(m - n) PROVE q[k] = s[h[k]]
      <4>1. PICK j \in 1..m : j = n + k
        BY <1>6
      <4> HIDE DEF q, h
      <4>2. q[k] = Where(s, S)[j] /\ h[k] = g[j]
        BY <1>6, <2>1, <4>1
      <4>3. Where(s, S)[j] = s[g[j]]
        BY <1>2
      <4>4. QED
        BY <4>2, <4>3
    <3> HIDE DEF q, h
    <3>2. QED
      BY <3>1
  <2> HIDE DEF q, h
  <2>4. QED
    BY <2>2, <2>3
<1>9. \A j, k \in 1..(m - n) : j < k => h[j] < h[k]
  <2>1. ASSUME NEW j \in 1..(m - n), NEW k \in 1..(m - n), j < k PROVE h[j] < h[k]
    <3>1. n + j \in 1..m /\ n + k \in 1..m /\ n + j < n + k
      BY <1>4, <1>6, <2>1
    <3> HIDE DEF h
    <3>2. QED
      BY <1>2, <1>6, <3>1
  <2>2. QED
    BY <2>1
<1>10. \A k \in 1..(m - n) : s[h[k]] \in U
  <2>1. ASSUME NEW k \in 1..(m - n) PROVE s[h[k]] \in U
    <3>1. n + k \in 1..m /\ h[k] = g[n + k] /\ h[k] \in 1..Len(s)
      BY <1>6
    <3> HIDE DEF h
    <3>2. ASSUME NEW j \in 1..n PROVE Where(s, S)[j] # s[h[k]]
      <4>1. j \in 1..m /\ j # n + k
        BY <1>2, <1>4, <3>1
      <4>2. g[j] # g[n + k] /\ g[j] \in 1..Len(s)
        BY <1>2, <1>5, <3>1, <4>1
      <4>3. s[g[j]] # s[g[n + k]]
        BY <1>2, <3>1, <4>2
      <4>4. QED
        BY <1>2, <3>1, <4>1, <4>3
    <3>3. s[h[k]] \in S
      BY <1>2, <3>1
    <3>4. QED
      BY <3>1, <3>2, <3>3
  <2>2. QED
    BY <2>1
<1>11. ASSUME NEW i \in 1..Len(s), s[i] \in U PROVE \E k \in 1..(m - n) : h[k] = i
  <2>1. s[i] \in S /\ \A k \in 1..n : Where(s, S)[k] # s[i]
    BY <1>11
  <2>2. PICK j \in 1..m : g[j] = i
    BY <1>2, <2>1
  <2>3. j \notin 1..n
    BY <1>2, <2>1, <2>2
  <2>4. j - n \in 1..(m - n) /\ n + (j - n) = j
    BY <1>2, <1>4, <2>3
  <2>5. h[j - n] = i
    BY <2>2, <2>4
  <2> HIDE DEF h
  <2>6. QED
    BY <2>4, <2>5
<1>12. Filtered(s, Len(s), U, q, m - n, h)
  <2> HIDE DEF q, h
  <2>1. QED
    BY <1>6, <1>7, <1>8, <1>9, <1>10, <1>11 DEF Filtered
<1>13. Where(s, U) = q
  <2> HIDE DEF q, h
  <2>1. QED
    BY <1>12, WhereIs
<1>14. QED
  BY <1>3, <1>13
=============================================================================
