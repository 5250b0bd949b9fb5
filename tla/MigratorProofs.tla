--------------------------- MODULE MigratorProofs ---------------------------
(***************************************************************************)
(* Proofs about Migrator, for any processes, deploys, engines and bounds:  *)
(* the tracking table tells the truth about the schema, the history is one *)
(* order, a failed attempt is not run again, and a down run takes back     *)
(* what was applied, the newest first.                                     *)
(*                                                                         *)
(* The four are proved where a read sees what is committed (ReadsLatest).  *)
(* On an engine whose transactions read a frozen snapshot the history is   *)
(* not one order, see the README.                                          *)
(***************************************************************************)
EXTENDS Migrator, FilterProofs, FiniteSetTheorems, SequenceTheorems, TLAPS

USE DEF Phases

-----------------------------------------------------------------------------
(* Numbers and the order of application *)

\* There are finitely many ids.
LEMMA IdsFinite == IsFiniteSet(Ids)
  BY MigratorAssumption

\* Among finitely many ids one has the greatest number.
LEMMA Greatest ==
  ASSUME NEW f \in [Ids -> Nat], NEW S \in SUBSET Ids, S # {}
  PROVE  \E x \in S : \A y \in S : f[y] <= f[x]
<1> DEFINE Has(A) == \E x \in A : \A y \in A : f[y] <= f[x]
           T == {n \in Nat : \A A \in SUBSET Ids : Cardinality(A) = n + 1 => Has(A)}
<1>1. \A A \in SUBSET Ids : IsFiniteSet(A) /\ Cardinality(A) \in Nat
  BY IdsFinite, FS_Subset, FS_CardinalityType
<1>2. 0 \in T
  <2> SUFFICES ASSUME NEW A \in SUBSET Ids, Cardinality(A) = 0 + 1 PROVE Has(A)
    OBVIOUS
  <2>1. PICK x : A = {x}
    <3>1. IsFiniteSet(A) /\ Cardinality(A) = 1
      BY <1>1
    <3>2. QED
      BY <3>1, FS_Singleton
  <2>2. f[x] \in Nat /\ x \in A
    BY <2>1
  <2>3. QED
    BY <2>1, <2>2
<1>3. ASSUME NEW n \in T \cap Nat PROVE n + 1 \in T
  <2> SUFFICES ASSUME NEW A \in SUBSET Ids, Cardinality(A) = (n + 1) + 1 PROVE Has(A)
    OBVIOUS
  <2>1. PICK e : e \in A
    BY <1>1, FS_EmptySet
  <2>2. Cardinality(A \ {e}) = n + 1
    BY <1>1, <2>1, FS_RemoveElement
  <2>3. PICK x \in A \ {e} : \A y \in A \ {e} : f[y] <= f[x]
    BY <2>2
  <2>4. f[x] \in Nat /\ f[e] \in Nat /\ \A y \in A : f[y] \in Nat
    BY <2>1
  <2>5. CASE f[e] <= f[x]
    BY <2>3, <2>5
  <2>6. CASE f[x] < f[e]
    <3>1. \A y \in A : f[y] <= f[e]
      BY <2>3, <2>4, <2>6
    <3>2. QED
      BY <2>1, <3>1
  <2>7. QED
    BY <2>4, <2>5, <2>6
<1>4. PICK n \in Nat : Cardinality(S) = n + 1
  <2>1. Cardinality(S) # 0
    BY <1>1, FS_EmptySet
  <2>2. Cardinality(S) - 1 \in Nat
    BY <1>1, <2>1
  <2>3. QED
    BY <1>1, <2>2
<1>5. Nat \subseteq T
  <2> HIDE DEF T
  <2>1. QED
    BY <1>2, <1>3, Induction
<1>6. QED
  BY <1>4, <1>5

\* next_seq is above the seq of every row that was read.
LEMMA NextSeqFacts ==
  ASSUME NEW recs \in [Ids -> RowType]
  PROVE  /\ NextSeq(recs) \in Nat /\ NextSeq(recs) > 0
         /\ \A id \in Ids : recs[id].seq < NextSeq(recs)
<1> DEFINE f == [id \in Ids |-> recs[id].seq]
           M == {recs[id].seq : id \in Ids} \cup {0}
<1>1. f \in [Ids -> Nat]
  BY DEF RowType
<1>2. \E m \in M : m \in Nat /\ \A y \in M : m >= y
  <2>1. CASE Ids = {}
    <3>1. 0 \in M /\ \A y \in M : y = 0
      BY <2>1
    <3> HIDE DEF M
    <3>2. QED
      BY <3>1
  <2>2. CASE Ids # {}
    <3>1. PICK x \in Ids : \A y \in Ids : f[y] <= f[x]
      <4> HIDE DEF f
      <4>1. QED
        BY <1>1, <2>2, Greatest
    <3>2. f[x] \in Nat /\ f[x] \in M
      BY <1>1
    <3>3. \A y \in M : y = 0 \/ \E id \in Ids : y = f[id]
      OBVIOUS
    <3> HIDE DEF M, f
    <3>4. QED
      BY <1>1, <3>1, <3>2, <3>3
  <2>3. QED
    BY <2>1, <2>2
<1>3. Max(M) \in Nat /\ \A y \in M : Max(M) >= y
  <2> DEFINE Greater(x) == \A y \in M : x >= y
  <2>1. Max(M) = CHOOSE x \in M : Greater(x)
    BY DEF Max
  <2>2. \E x \in M : Greater(x)
    BY <1>2
  <2>3. Max(M) \in M /\ Greater(Max(M))
    <3> HIDE DEF M, Greater
    <3>1. QED
      BY <2>1, <2>2
  <2>4. M \subseteq Nat
    BY DEF RowType
  <2> HIDE DEF M
  <2>5. QED
    BY <2>3, <2>4
<1>4. NextSeq(recs) = 1 + Max(M)
  BY DEF NextSeq
<1>5. \A id \in Ids : recs[id].seq \in M /\ recs[id].seq \in Nat
  BY DEF RowType
<1> HIDE DEF M
<1>6. QED
  BY <1>3, <1>4, <1>5

\* s has every id of S once, the one with the lowest seq first.
Sorted(recs, S, s) ==
  /\ s \in [1..Cardinality(S) -> S]
  /\ \A i, j \in DOMAIN s : i < j => s[i] # s[j] /\ recs[s[i]].seq <= recs[s[j]].seq

\* Any set of ids has such a sequence.
LEMMA SortedExists ==
  ASSUME NEW recs \in [Ids -> RowType], NEW S \in SUBSET Ids
  PROVE  \E s : Sorted(recs, S, s)
<1> DEFINE T == {n \in Nat : \A A \in SUBSET Ids : Cardinality(A) = n => \E s : Sorted(recs, A, s)}
<1>1. \A A \in SUBSET Ids : IsFiniteSet(A) /\ Cardinality(A) \in Nat
  BY IdsFinite, FS_Subset, FS_CardinalityType
<1>2. 0 \in T
  <2> SUFFICES ASSUME NEW A \in SUBSET Ids, Cardinality(A) = 0 PROVE \E s : Sorted(recs, A, s)
    OBVIOUS
  <2>1. 1..Cardinality(A) = {}
    OBVIOUS
  <2>2. Sorted(recs, A, [i \in {} |-> {}])
    BY <2>1 DEF Sorted
  <2>3. QED
    BY <2>2
<1>3. ASSUME NEW n \in T \cap Nat PROVE n + 1 \in T
  <2> SUFFICES ASSUME NEW A \in SUBSET Ids, Cardinality(A) = n + 1 PROVE \E s : Sorted(recs, A, s)
    OBVIOUS
  <2> DEFINE f == [id \in Ids |-> recs[id].seq]
  <2>1. f \in [Ids -> Nat] /\ A # {}
    BY <1>1, FS_EmptySet DEF RowType
  <2>2. PICK x \in A : \A y \in A : f[y] <= f[x]
    <3> HIDE DEF f
    <3>1. QED
      BY <2>1, Greatest
  <2>3. \A y \in A : recs[y].seq <= recs[x].seq
    BY <2>2
  <2>4. Cardinality(A \ {x}) = n
    <3>1. IsFiniteSet(A) /\ x \in A
      BY <1>1
    <3>2. Cardinality(A \ {x}) = Cardinality(A) - 1
      BY <3>1, FS_RemoveElement
    <3>3. QED
      BY <3>2
  <2>5. PICK s : Sorted(recs, A \ {x}, s)
    BY <2>4
  <2> DEFINE t == [i \in 1..(n + 1) |-> IF i <= n THEN s[i] ELSE x]
  <2>6. s \in [1..n -> A \ {x}]
    BY <2>4, <2>5 DEF Sorted
  <2>7. t \in [1..(n + 1) -> A]
    BY <2>6
  <2>8. ASSUME NEW i \in 1..(n + 1), NEW j \in 1..(n + 1), i < j
        PROVE  t[i] # t[j] /\ recs[t[i]].seq <= recs[t[j]].seq
    <3>1. i \in 1..n /\ t[i] = s[i] /\ s[i] \in A \ {x}
      BY <2>6, <2>8
    <3>2. CASE j = n + 1
      <4>1. t[j] = x
        BY <3>2
      <4> HIDE DEF t
      <4>2. QED
        BY <2>3, <3>1, <4>1
    <3>3. CASE j # n + 1
      <4>1. j \in 1..n /\ t[j] = s[j]
        BY <3>3
      <4>2. s[i] # s[j] /\ recs[s[i]].seq <= recs[s[j]].seq
        BY <2>5, <2>6, <2>8, <3>1, <4>1 DEF Sorted
      <4> HIDE DEF t
      <4>3. QED
        BY <3>1, <4>1, <4>2
    <3>4. QED
      BY <3>2, <3>3
  <2>9. Sorted(recs, A, t)
    <3> HIDE DEF t
    <3>1. QED
      BY <2>7, <2>8 DEF Sorted
  <2>10. QED
    BY <2>9
<1>4. Nat \subseteq T
  <2> HIDE DEF T
  <2>1. QED
    BY <1>2, <1>3, Induction
<1>5. QED
  BY <1>1, <1>4

\* BySeq is such a sequence, and names every id of S.
LEMMA BySeqFacts ==
  ASSUME NEW recs \in [Ids -> RowType], NEW S \in SUBSET Ids
  PROVE  /\ BySeq(recs, S) \in Seq(S) /\ Sorted(recs, S, BySeq(recs, S))
         /\ \A id \in S : \E i \in DOMAIN BySeq(recs, S) : BySeq(recs, S)[i] = id
<1> DEFINE n == Cardinality(S)
<1>1. IsFiniteSet(S) /\ n \in Nat
  BY IdsFinite, FS_Subset, FS_CardinalityType
<1>2. PICK s : Sorted(recs, S, s) /\ s = BySeq(recs, S)
  <2>1. \E t \in [1..n -> S] :
           \A i, j \in DOMAIN t : i < j => t[i] # t[j] /\ recs[t[i]].seq <= recs[t[j]].seq
    BY SortedExists DEF Sorted
  <2>2. QED
    BY <2>1 DEF Sorted, BySeq
<1>3. s \in [1..n -> S] /\ DOMAIN s = 1..n
  BY <1>2 DEF Sorted
<1>4. s \in Injection(1..n, S)
  <2>1. \A i, j \in 1..n : i < j => s[i] # s[j]
    BY <1>2, <1>3 DEF Sorted
  <2>2. \A i, j \in 1..n : s[i] = s[j] => i = j
    BY <1>1, <2>1
  <2>3. QED
    BY <1>3, <2>2 DEF Injection, IsInjective
<1>5. s \in Surjection(1..n, S)
  <2>1. IsFiniteSet(1..n) /\ Cardinality(1..n) = n
    BY <1>1, FS_Interval
  <2> HIDE DEF n
  <2>2. QED
    BY <1>1, <1>4, <2>1, FS_Injection DEF n
<1>6. \A id \in S : \E i \in 1..n : s[i] = id
  BY <1>5 DEF Surjection
<1>7. QED
  BY <1>1, <1>2, <1>3, <1>6

-----------------------------------------------------------------------------
(* What a run plans *)

\* A migration of a deploy.
EntryType == [id : Ids, edition : Editions]

\* No id comes twice.
DistinctIds(s) == \A i, j \in DOMAIN s : s[i].id = s[j].id => i = j

\* A deploy names each id once.
LEMMA DeployFacts ==
  ASSUME NEW d \in Deploys
  PROVE  d \in Seq(EntryType) /\ DistinctIds(d)
  BY MigratorAssumption DEF EntryType, DistinctIds

\* A filter keeps the types of a sequence and names no id twice.
LEMMA WhereFacts ==
  ASSUME NEW X, NEW s \in Seq(X), NEW S
  PROVE  /\ Where(s, S) \in Seq(X \cap S)
         /\ DistinctIds(s) => DistinctIds(Where(s, S))
<1>1. PICK m, g : Filtered(s, Len(s), S, Where(s, S), m, g)
  BY WherePlaces
<1>0. m \in Nat /\ \A k \in 1..m : g[k] \in 1..Len(s)
  BY <1>1 DEF Filtered
<1>2. \A k \in 1..m : s[g[k]] \in X \cap S
  BY <1>0, <1>1, ElementOfSeq DEF Filtered
<1>3. Where(s, S) \in [1..m -> X \cap S]
  BY <1>1, <1>2 DEF Filtered
<1>4. ASSUME DistinctIds(s), NEW j \in 1..m, NEW k \in 1..m, s[g[j]].id = s[g[k]].id
      PROVE  j = k
  <2>1. g[j] \in DOMAIN s /\ g[k] \in DOMAIN s
    BY <1>0, LenProperties
  <2>2. g[j] = g[k]
    BY <1>4, <2>1 DEF DistinctIds
  <2>3. ~(j < k) /\ ~(k < j)
    BY <1>0, <1>1, <2>2 DEF Filtered
  <2>4. QED
    BY <1>0, <2>3
<1>5. DistinctIds(s) => DistinctIds(Where(s, S))
  <2>1. DOMAIN Where(s, S) = 1..m /\ \A k \in 1..m : Where(s, S)[k] = s[g[k]]
    BY <1>1 DEF Filtered
  <2>2. QED
    BY <1>4, <2>1 DEF DistinctIds
<1>6. QED
  BY <1>0, <1>3, <1>5

\* The versioned and the repeatable migrations of a deploy.
LEMMA VersionedFacts ==
  ASSUME NEW d \in Deploys
  PROVE  /\ Versioned(d) \in Seq({m \in EntryType : m.id \notin Repeatables})
         /\ DistinctIds(Versioned(d))
         /\ RepeatablesOf(d) \in Seq({m \in EntryType : m.id \in Repeatables})
         /\ DistinctIds(RepeatablesOf(d))
<1>1. d \in Seq(EntryType) /\ DistinctIds(d)
  BY DeployFacts
<1> DEFINE V == {m \in Entries(d) : m.id \notin Repeatables}
           R == {m \in Entries(d) : m.id \in Repeatables}
<1>2. /\ Where(d, V) \in Seq(EntryType \cap V) /\ DistinctIds(Where(d, V))
      /\ Where(d, R) \in Seq(EntryType \cap R) /\ DistinctIds(Where(d, R))
  <2> HIDE DEF V, R
  <2>1. QED
    BY <1>1, WhereFacts
<1>3. /\ EntryType \cap V \subseteq {m \in EntryType : m.id \notin Repeatables}
      /\ EntryType \cap R \subseteq {m \in EntryType : m.id \in Repeatables}
  OBVIOUS
<1>4. Versioned(d) = Where(d, V) /\ RepeatablesOf(d) = Where(d, R)
  BY DEF Versioned, RepeatablesOf
<1> HIDE DEF V, R
<1>5. QED
  BY <1>2, <1>3, <1>4, SeqMonotonic

\* A target is a versioned migration of the deploy, or None for all of them.
Targets(d) == {None} \cup {m.id : m \in Entries(Versioned(d))}

\* The versioned migrations up to a target.
LEMMA ThroughFacts ==
  ASSUME NEW d \in Deploys, NEW target \in Targets(d)
  PROVE  /\ VersionedThrough(d, target) \in Seq({m \in EntryType : m.id \notin Repeatables})
         /\ DistinctIds(VersionedThrough(d, target))
<1> DEFINE E == {m \in EntryType : m.id \notin Repeatables}
<1>1. PICK v : v = Versioned(d)
  OBVIOUS
<1>2. v \in Seq(E) /\ DistinctIds(v)
  BY <1>1, VersionedFacts
<1> HIDE DEF E
<1>3. CASE target = None
  BY <1>1, <1>2, <1>3 DEF VersionedThrough, E
<1>4. CASE target # None
  <2>1. \E i \in DOMAIN v : v[i].id = target
    BY <1>1, <1>4 DEF Targets, Entries
  <2>2. PICK i \in DOMAIN v : VersionedThrough(d, target) = SubSeq(v, 1, i)
    BY <1>1, <1>4, <2>1 DEF VersionedThrough
  <2>3. i \in 1..Len(v) /\ Len(v) \in Nat /\ DOMAIN v = 1..Len(v)
    BY <1>2, LenProperties
  <2>4. /\ SubSeq(v, 1, i) \in Seq(E) /\ Len(SubSeq(v, 1, i)) = i
        /\ \A k \in 1..i : SubSeq(v, 1, i)[k] = v[k]
    <3>1. 1 \in Int /\ i \in Int /\ 1 <= i /\ i - 1 + 1 = i
      BY <2>3
    <3>2. \A k \in 1..i : v[k] \in E
      BY <1>2, <2>3, ElementOfSeq
    <3>3. /\ SubSeq(v, 1, i) \in Seq(E) /\ Len(SubSeq(v, 1, i)) = i - 1 + 1
          /\ \A k \in 1..(i - 1 + 1) : SubSeq(v, 1, i)[k] = v[1 + k - 1]
      BY <3>1, <3>2, SubSeqProperties
    <3>4. \A k \in 1..i : 1 + k - 1 = k
      BY <3>1
    <3>5. QED
      BY <3>1, <3>3, <3>4
  <2>5. DistinctIds(SubSeq(v, 1, i))
    <3>1. DOMAIN SubSeq(v, 1, i) = 1..i
      BY <2>4, LenProperties
    <3>2. \A k \in 1..i : k \in DOMAIN v
      BY <2>3
    <3>3. QED
      BY <1>2, <2>4, <3>1, <3>2 DEF DistinctIds
  <2>6. QED
    BY <2>2, <2>4, <2>5 DEF E
<1>5. QED
  BY <1>3, <1>4

\* Versioned migrations first, then repeatables: no id comes twice.
LEMMA ConcatDistinct ==
  ASSUME NEW v \in Seq({m \in EntryType : m.id \notin Repeatables}), DistinctIds(v),
         NEW r \in Seq({m \in EntryType : m.id \in Repeatables}), DistinctIds(r)
  PROVE  v \o r \in Seq(EntryType) /\ DistinctIds(v \o r)
<1> DEFINE E == {m \in EntryType : m.id \notin Repeatables}
           F == {m \in EntryType : m.id \in Repeatables}
<1>1. /\ Len(v) \in Nat /\ Len(r) \in Nat /\ Len(v \o r) = Len(v) + Len(r)
      /\ DOMAIN v = 1..Len(v) /\ DOMAIN r = 1..Len(r)
      /\ \A i \in 1..Len(v) : v[i] \in E
      /\ \A i \in 1..Len(r) : r[i] \in F
  <2>1. v \in Seq(E) /\ r \in Seq(F)
    OBVIOUS
  <2> HIDE DEF E, F
  <2>2. QED
    BY <2>1, LenProperties, ElementOfSeq
<1>2. v \in Seq(EntryType) /\ r \in Seq(EntryType)
  <2>1. E \subseteq EntryType /\ F \subseteq EntryType /\ v \in Seq(E) /\ r \in Seq(F)
    OBVIOUS
  <2> HIDE DEF E, F
  <2>2. QED
    BY <2>1, SeqMonotonic
<1>3. v \o r \in Seq(EntryType) /\ DOMAIN (v \o r) = 1..(Len(v) + Len(r))
  BY <1>1, <1>2, ConcatProperties, LenProperties
<1>4. \A i \in 1..(Len(v) + Len(r)) :
         (v \o r)[i] = IF i <= Len(v) THEN v[i] ELSE r[i - Len(v)]
  BY <1>2, ConcatProperties
<1>5. \A i \in 1..(Len(v) + Len(r)) :
         \/ i \in 1..Len(v) /\ (v \o r)[i] = v[i] /\ (v \o r)[i].id \notin Repeatables
         \/ /\ i > Len(v) /\ i - Len(v) \in 1..Len(r) /\ (v \o r)[i] = r[i - Len(v)]
            /\ (v \o r)[i].id \in Repeatables
  BY <1>1, <1>4
<1>6. ASSUME NEW i \in 1..(Len(v) + Len(r)), NEW j \in 1..(Len(v) + Len(r)),
             (v \o r)[i].id = (v \o r)[j].id
      PROVE  i = j
  <2>1. CASE (v \o r)[i].id \notin Repeatables
    <3>1. i \in 1..Len(v) /\ j \in 1..Len(v) /\ v[i].id = v[j].id
      BY <1>5, <1>6, <2>1
    <3>2. QED
      BY <1>1, <3>1 DEF DistinctIds
  <2>2. CASE (v \o r)[i].id \in Repeatables
    <3>1. /\ i - Len(v) \in 1..Len(r) /\ j - Len(v) \in 1..Len(r)
          /\ r[i - Len(v)].id = r[j - Len(v)].id
      BY <1>5, <1>6, <2>2
    <3>2. i - Len(v) = j - Len(v)
      BY <1>1, <3>1 DEF DistinctIds
    <3>3. QED
      BY <1>1, <3>2
  <2>3. QED
    BY <2>1, <2>2
<1>7. QED
  BY <1>3, <1>6 DEF DistinctIds

\* An up run's steps: a migration that has a row already is a repeatable, and
\* its row is updated.
UpPlan(u, recs) ==
    /\ u \in Seq(WorkType) /\ DistinctIds(u)
    /\ \A i \in DOMAIN u :
          /\ u[i].way = "up"
          /\ u[i].update <=> Recorded(recs, u[i].id)
          /\ u[i].update => u[i].id \in Repeatables

\* A down run's steps: applied migrations that the deploy takes back, each
\* after every one of those applied later.
DownPlan(u, recs) ==
    /\ u \in Seq(WorkType) /\ DistinctIds(u)
    /\ \A i \in DOMAIN u :
          /\ u[i].way = "down" /\ ~u[i].update
          /\ u[i].id \notin Repeatables
          /\ Ok(recs, u[i].id)
          /\ ~u[i].forced => u[i].edition = recs[u[i].id].edition
          /\ \A id \in Ids \ Repeatables :
                Ok(recs, id) => \/ recs[id].seq <= recs[u[i].id].seq
                                \/ \E j \in 1..(i - 1) : u[j].id = id

\* What RunUp plans, for the rows it has read.
LEMMA UpStepsFacts ==
  ASSUME NEW d \in Deploys, NEW recs \in [Ids -> RowType], NEW target \in Targets(d),
         \A m \in Entries(VersionedNow(d, recs, target)) : ~Recorded(recs, m.id)
  PROVE  UpPlan(UpSteps(d, recs, target), recs)
<1> DEFINE E == {m \in EntryType : m.id \notin Repeatables}
           F == {m \in EntryType : m.id \in Repeatables}
<1>1. PICK v : v = VersionedNow(d, recs, target)
  OBVIOUS
<1>2. PICK r : r = RepeatablesNow(d, recs, target)
  OBVIOUS
<1>3. v \in Seq(E) /\ DistinctIds(v)
  <2>1. PICK S : v = Where(VersionedThrough(d, target), S)
    BY <1>1 DEF VersionedNow
  <2>2. VersionedThrough(d, target) \in Seq(E) /\ DistinctIds(VersionedThrough(d, target))
    BY ThroughFacts
  <2> HIDE DEF E
  <2>3. v \in Seq(E \cap S) /\ DistinctIds(v)
    BY <2>1, <2>2, WhereFacts
  <2>4. QED
    BY <2>3, SeqMonotonic
<1>4. r \in Seq(F) /\ DistinctIds(r)
  <2>1. CASE target # None
    <3>1. r = <<>>
      BY <1>2, <2>1 DEF RepeatablesNow
    <3> HIDE DEF F
    <3>2. QED
      BY <3>1 DEF DistinctIds
  <2>2. CASE target = None
    <3>1. PICK S : r = Where(RepeatablesOf(d), S)
      BY <1>2, <2>2 DEF RepeatablesNow
    <3>2. RepeatablesOf(d) \in Seq(F) /\ DistinctIds(RepeatablesOf(d))
      BY VersionedFacts
    <3> HIDE DEF F
    <3>3. r \in Seq(F \cap S) /\ DistinctIds(r)
      BY <3>1, <3>2, WhereFacts
    <3>4. QED
      BY <3>3, SeqMonotonic
  <2>3. QED
    BY <2>1, <2>2
<1>5. PICK ms : ms = v \o r
  OBVIOUS
<1>6. ms \in Seq(EntryType) /\ DistinctIds(ms)
  BY <1>3, <1>4, <1>5, ConcatDistinct
<1>7. PICK n \in Nat : DOMAIN ms = 1..n /\ \A i \in 1..n : ms[i] \in EntryType
  BY <1>6, LenProperties, ElementOfSeq
<1>8. PICK u : u = UpSteps(d, recs, target) /\ u = [i \in 1..n |-> UpStep(recs, ms[i])]
  BY <1>1, <1>2, <1>5, <1>7 DEF UpSteps
<1>9. ASSUME NEW i \in 1..n
      PROVE  /\ u[i] \in WorkType /\ u[i].way = "up" /\ u[i].id = ms[i].id
             /\ u[i].update <=> Recorded(recs, ms[i].id)
  <2>1. /\ ms[i].id \in Ids /\ ms[i].edition \in Nat
    BY <1>7, MigratorAssumption DEF EntryType
  <2>2. Recorded(recs, ms[i].id) \in BOOLEAN
    BY DEF Recorded
  <2>3. u[i] = [id |-> ms[i].id, edition |-> ms[i].edition, way |-> "up",
                update |-> Recorded(recs, ms[i].id), forced |-> FALSE]
    BY <1>8 DEF UpStep
  <2> HIDE DEF E, F
  <2>4. QED
    BY <2>1, <2>2, <2>3 DEF WorkType
<1>10. ASSUME NEW i \in 1..n, u[i].update PROVE u[i].id \in Repeatables
  <2>1. Recorded(recs, ms[i].id) /\ u[i].id = ms[i].id
    BY <1>9, <1>10
  <2>2. /\ Len(v) \in Nat /\ Len(r) \in Nat /\ n = Len(v) + Len(r)
        /\ ms[i] = IF i <= Len(v) THEN v[i] ELSE r[i - Len(v)]
    <3>1. E \subseteq EntryType /\ F \subseteq EntryType
      OBVIOUS
    <3>2. v \in Seq(EntryType) /\ r \in Seq(EntryType)
      <4> HIDE DEF E, F
      <4>1. QED
        BY <1>3, <1>4, <3>1, SeqMonotonic
    <3>3. /\ Len(ms) = Len(v) + Len(r) /\ Len(v) \in Nat /\ Len(r) \in Nat /\ DOMAIN ms = 1..Len(ms)
      BY <1>5, <1>6, <3>2, ConcatProperties, LenProperties
    <3>4. n = Len(ms)
      BY <1>7, <3>3
    <3>5. QED
      BY <1>5, <3>2, <3>3, <3>4, ConcatProperties
  <2>3. CASE i <= Len(v)
    <3>1. i \in DOMAIN v /\ ms[i] = v[i]
      BY <1>3, <2>2, <2>3, LenProperties
    <3>2. ms[i] \in Entries(v)
      BY <3>1 DEF Entries
    <3>3. QED
      BY <1>1, <2>1, <3>2
  <2>4. CASE i > Len(v)
    <3>1. i - Len(v) \in 1..Len(r) /\ ms[i] = r[i - Len(v)]
      BY <2>2, <2>4
    <3>2. ms[i] \in F
      <4> HIDE DEF F
      <4>1. QED
        BY <1>4, <3>1, ElementOfSeq
    <3>3. QED
      BY <2>1, <3>2
  <2>5. QED
    BY <2>2, <2>3, <2>4
<1>11. DOMAIN u = 1..n
  BY <1>8
<1>12. u \in Seq(WorkType)
  <2>1. u \in [1..n -> WorkType]
    BY <1>8, <1>9, <1>11
  <2> HIDE DEF E, F
  <2>2. QED
    BY <2>1
<1>13. DistinctIds(u)
  BY <1>6, <1>7, <1>9, <1>11 DEF DistinctIds
<1>14. QED
  BY <1>8, <1>9, <1>10, <1>11, <1>12, <1>13 DEF UpPlan

\* The end of a sequence, back to front.
LEMMA SuffixReversed ==
  ASSUME NEW X, NEW a \in Seq(X), NEW k \in 1..(Len(a) + 1)
  PROVE  LET r == Reverse(SubSeq(a, k, Len(a)))
             n == Len(a) - k + 1
         IN  /\ n \in Nat /\ n <= Len(a) /\ r \in Seq(X) /\ DOMAIN r = 1..n
             /\ \A i \in 1..n : r[i] = a[Len(a) - i + 1] /\ Len(a) - i + 1 \in k..Len(a)
<1> DEFINE L == Len(a)
           n == L - k + 1
           s == SubSeq(a, k, L)
<1>1. L \in Nat /\ k \in Int /\ L \in Int /\ n \in Nat /\ n <= L
  OBVIOUS
<1>2. \A i \in k..L : a[i] \in X
  <2>1. \A i \in k..L : i \in 1..L
    BY <1>1
  <2>2. QED
    BY <2>1, ElementOfSeq
<1>3. s \in Seq(X) /\ Len(s) = n /\ \A i \in 1..n : s[i] = a[k + i - 1]
  <2>1. /\ s \in Seq(X) /\ Len(s) = IF k <= L THEN L - k + 1 ELSE 0
        /\ \A i \in 1..(L - k + 1) : s[i] = a[k + i - 1]
    <3> HIDE DEF L
    <3>1. QED
      BY <1>1, <1>2, SubSeqProperties
  <2>2. k > L => n = 0
    BY <1>1
  <2> HIDE DEF L, s
  <2>3. QED
    BY <1>1, <2>1, <2>2
<1>4. PICK r : r = Reverse(s)
  OBVIOUS
<1>5. r = [i \in 1..n |-> s[n - i + 1]]
  <2> HIDE DEF s, n, L
  <2>1. QED
    BY <1>3, <1>4 DEF Reverse
<1>6. ASSUME NEW i \in 1..n
      PROVE  r[i] = a[L - i + 1] /\ L - i + 1 \in k..L /\ r[i] \in X
  <2>1. n - i + 1 \in 1..n /\ k + (n - i + 1) - 1 = L - i + 1 /\ L - i + 1 \in k..L
    BY <1>1
  <2>2. r[i] = s[n - i + 1]
    BY <1>5
  <2>3. s[n - i + 1] = a[k + (n - i + 1) - 1]
    <3> HIDE DEF s, n, L
    <3>1. QED
      BY <1>3, <2>1
  <2> HIDE DEF s, n, L
  <2>4. QED
    BY <1>2, <2>1, <2>2, <2>3
<1>7. r \in Seq(X) /\ DOMAIN r = 1..n
  <2>1. r \in [1..n -> X]
    BY <1>5, <1>6
  <2> HIDE DEF s, n, L
  <2>2. QED
    BY <1>1, <2>1
<1>8. QED
  BY <1>1, <1>4, <1>6, <1>7

\* What RunDown plans, for the rows it has read: its window is the newest
\* applied migrations, the last applied one first.
LEMMA DownStepsFacts ==
  ASSUME NEW p \in Processes, NEW recs \in [Ids -> RowType], deploy[p] \in Deploys,
         run[p].verb \in {"down", "down_to"}, NEW count \in 1..2, NEW forced \in BOOLEAN,
         ~DownRefused(p, recs, count, forced)
  PROVE  DownPlan([i \in DOMAIN Window(p, recs, count) |->
                     DownStep(EntryOf(deploy[p], Window(p, recs, count)[i]), forced)], recs)
<1>1. PICK d \in Deploys : d = deploy[p]
  OBVIOUS
<1>2. PICK A : A = {id \in Ids : Ok(recs, id) /\ ~(id \in Repeatables /\ Registered(d, id))}
  OBVIOUS
<1>3. PICK a : a = AppliedVersioned(d, recs) /\ a = BySeq(recs, A)
  BY <1>2 DEF AppliedVersioned
<1>4. /\ a \in Seq(A) /\ DOMAIN a = 1..Len(a) /\ Len(a) \in Nat
      /\ \A i, j \in 1..Len(a) : i < j => a[i] # a[j] /\ recs[a[i]].seq <= recs[a[j]].seq
      /\ \A id \in A : \E i \in 1..Len(a) : a[i] = id
  <2>1. A \in SUBSET Ids
    BY <1>2
  <2>2. a \in Seq(A) /\ Sorted(recs, A, a) /\ \A id \in A : \E i \in DOMAIN a : a[i] = id
    BY <1>3, <2>1, BySeqFacts
  <2>3. DOMAIN a = 1..Len(a) /\ Len(a) \in Nat
    BY <2>2, LenProperties
  <2>4. QED
    BY <2>2, <2>3 DEF Sorted
<1>5. PICK w : w = Window(p, recs, count)
  OBVIOUS
<1>6. PICK k \in 1..(Len(a) + 1) : w = Reverse(SubSeq(a, k, Len(a)))
  <2>1. CASE run[p].verb = "down"
    <3>1. w = LastOf(a, count)
      BY <1>1, <1>3, <1>5, <2>1 DEF Window
    <3> DEFINE k == IF count < Len(a) THEN Len(a) - count + 1 ELSE 1
    <3>2. w = Reverse(SubSeq(a, k, Len(a)))
      BY <3>1 DEF LastOf
    <3>3. k \in 1..(Len(a) + 1)
      BY <1>4
    <3>4. QED
      BY <3>2, <3>3
  <2>2. CASE run[p].verb = "down_to"
    <3>1. w = AboveTarget(a, run[p].target)
      BY <1>1, <1>3, <1>5, <2>2 DEF Window
    <3>2. \E i \in DOMAIN a : a[i] = run[p].target
      BY <1>1, <1>3, <2>2 DEF DownRefused, ToSet
    <3>3. PICK i \in DOMAIN a : w = Reverse(SubSeq(a, 1 + i, Len(a)))
      BY <3>1, <3>2 DEF AboveTarget
    <3>4. 1 + i \in 1..(Len(a) + 1)
      BY <1>4
    <3>5. QED
      BY <3>3, <3>4
  <2>3. QED
    BY <2>1, <2>2
<1>7. PICK n \in Nat :
         /\ n = Len(a) - k + 1 /\ n <= Len(a) /\ w \in Seq(A) /\ DOMAIN w = 1..n
         /\ \A i \in 1..n : w[i] = a[Len(a) - i + 1] /\ Len(a) - i + 1 \in k..Len(a)
  BY <1>4, <1>6, SuffixReversed
<1>8. ASSUME NEW i \in 1..n
      PROVE  /\ w[i] \in Ids /\ Ok(recs, w[i]) /\ w[i] \notin Repeatables /\ Registered(d, w[i])
             /\ ~forced => recs[w[i]].edition = EntryOf(d, w[i]).edition
  <2>1. w[i] \in A
    BY <1>7, ElementOfSeq, LenProperties
  <2>2. ~WindowProblem(d, recs, w, forced)
    BY <1>1, <1>5 DEF DownRefused
  <2>3. Registered(d, w[i]) /\ (~forced => recs[w[i]].edition = EntryOf(d, w[i]).edition)
    BY <1>7, <2>2 DEF WindowProblem
  <2>4. QED
    BY <1>2, <2>1, <2>3
<1>9. PICK u : u = [i \in 1..n |-> DownStep(EntryOf(d, w[i]), forced)]
  OBVIOUS
<1>10. ASSUME NEW i \in 1..n
       PROVE  /\ u[i] \in WorkType /\ u[i].way = "down" /\ u[i].update = FALSE
              /\ u[i].forced = forced /\ u[i].id = w[i] /\ u[i].edition = EntryOf(d, w[i]).edition
  <2>1. PICK m \in Entries(d) : m.id = w[i] /\ m = EntryOf(d, w[i])
    BY <1>8 DEF Registered, EntryOf
  <2>2. m.id \in Ids /\ m.edition \in Nat
    <3>1. PICK j \in DOMAIN d : m = d[j]
      BY DEF Entries
    <3>2. m \in EntryType
      BY <3>1, DeployFacts, ElementOfSeq, LenProperties
    <3>3. QED
      BY <3>2, MigratorAssumption DEF EntryType
  <2>3. u[i] = [id |-> m.id, edition |-> m.edition, way |-> "down",
                update |-> FALSE, forced |-> forced]
    BY <1>9, <2>1 DEF DownStep
  <2>4. QED
    BY <2>1, <2>2, <2>3 DEF WorkType
<1>11. u \in Seq(WorkType) /\ DOMAIN u = 1..n
  <2>1. u \in [1..n -> WorkType]
    BY <1>9, <1>10
  <2>2. QED
    BY <2>1
<1>12. \A i, j \in 1..n : w[i] = w[j] => i = j
  <2> SUFFICES ASSUME NEW i \in 1..n, NEW j \in 1..n, i < j PROVE w[i] # w[j]
    OBVIOUS
  <2>1. /\ Len(a) - i + 1 \in 1..Len(a) /\ Len(a) - j + 1 \in 1..Len(a)
        /\ Len(a) - j + 1 < Len(a) - i + 1
    <3>1. PICK l \in Nat : l = Len(a)
      BY <1>4
    <3>2. n \in Nat /\ n <= l
      BY <1>7, <3>1
    <3>3. /\ l - i + 1 \in 1..l /\ l - j + 1 \in 1..l
          /\ l - j + 1 < l - i + 1
      BY <3>2
    <3>4. QED
      BY <3>1, <3>3
  <2>2. PICK x \in 1..Len(a), y \in 1..Len(a) : y < x /\ w[i] = a[x] /\ w[j] = a[y]
    BY <1>7, <2>1
  <2>3. QED
    BY <1>4, <2>2
<1>13. ASSUME NEW i \in 1..n, NEW id \in Ids \ Repeatables, Ok(recs, id),
              \A j \in 1..(i - 1) : w[j] # id
       PROVE  recs[id].seq <= recs[w[i]].seq
  <2>1. PICK l \in 1..Len(a) : a[l] = id
    BY <1>2, <1>4, <1>13
  <2>2. l <= Len(a) - i + 1
    <3> SUFFICES ASSUME l > Len(a) - i + 1 PROVE FALSE
      BY <1>4
    <3>1. Len(a) - l + 1 \in 1..(i - 1) /\ Len(a) - l + 1 \in 1..n
          /\ Len(a) - (Len(a) - l + 1) + 1 = l
      BY <1>4
    <3>2. w[Len(a) - l + 1] = a[l]
      BY <1>7, <3>1
    <3>3. QED
      BY <1>13, <2>1, <3>1, <3>2
  <2>3. w[i] = a[Len(a) - i + 1] /\ Len(a) - i + 1 \in 1..Len(a)
    BY <1>4, <1>7
  <2>4. CASE l = Len(a) - i + 1
    <3>1. id = w[i] /\ recs[id].seq \in Nat
      BY <2>1, <2>3, <2>4 DEF RowType
    <3>2. QED
      BY <3>1
  <2>5. CASE l < Len(a) - i + 1
    BY <1>4, <2>1, <2>3, <2>5
  <2>6. QED
    BY <2>2, <2>4, <2>5
<1>14. DownPlan(u, recs)
  <2>1. DistinctIds(u)
    <3> SUFFICES ASSUME NEW i \in 1..n, NEW j \in 1..n, u[i].id = u[j].id PROVE i = j
      BY <1>11 DEF DistinctIds
    <3>1. u[i].id = w[i] /\ u[j].id = w[j]
      BY <1>10
    <3>2. QED
      BY <1>12, <3>1
  <2>2. ASSUME NEW i \in 1..n, NEW id \in Ids \ Repeatables, Ok(recs, id)
        PROVE  recs[id].seq <= recs[u[i].id].seq \/ \E j \in 1..(i - 1) : u[j].id = id
    <3>1. \A j \in 1..(i - 1) : j \in 1..n
      OBVIOUS
    <3>2. u[i].id = w[i] /\ \A j \in 1..(i - 1) : u[j].id = w[j]
      BY <1>10, <3>1
    <3>3. CASE \E j \in 1..(i - 1) : w[j] = id
      BY <3>2, <3>3
    <3>4. CASE \A j \in 1..(i - 1) : w[j] # id
      BY <1>13, <2>2, <3>2, <3>4
    <3>5. QED
      BY <3>3, <3>4
  <2>3. ASSUME NEW i \in 1..n
        PROVE  /\ u[i].way = "down" /\ ~u[i].update
               /\ u[i].id \notin Repeatables /\ Ok(recs, u[i].id)
               /\ ~u[i].forced => u[i].edition = recs[u[i].id].edition
    <3>1. /\ u[i].way = "down" /\ u[i].update = FALSE /\ u[i].forced = forced
          /\ u[i].id = w[i] /\ u[i].edition = EntryOf(d, w[i]).edition
      BY <1>10
    <3>2. QED
      BY <1>8, <3>1
  <2>4. QED
    BY <1>11, <2>1, <2>2, <2>3 DEF DownPlan
<1>15. QED
  BY <1>1, <1>5, <1>7, <1>9, <1>14

-----------------------------------------------------------------------------
(* The types, the lock and the phases of a run *)

\* Where a run works under the lock, if the engine has one.
Locked == {"read", "run", "step", "row", "failing", "write", "unlock"}

\* The lock is held by every run that works under it, and by one session at most.
LockInv ==
  /\ \A p \in Processes : pc[p] \in {"lock", "unlock"} => engine.lock
  /\ \A p \in Processes : engine.lock /\ pc[p] \in Locked => held[p] > 0
  /\ \A p, q \in Processes : held[p] > 0 /\ held[q] > 0 => p = q

\* A run has a plan only while it takes its steps, and a step outside a
\* transaction is of a migration that has none.
PhaseInv ==
  \A p \in Processes :
    /\ pc[p] \in {"idle", "lock", "read", "write", "unlock"} => todo[p] = <<>>
    /\ InBareStep(p) => todo[p] # <<>> /\ ~Transactional(Work(p).id)
    /\ pc[p] = "write" => known[p] \in [Ids -> RowType]

BaseInv == TypeOK /\ LockInv /\ PhaseInv

\* A read returns rows, from the table or from a snapshot.
LEMMA RecordsSeen ==
  ASSUME TypeOK, NEW p \in Processes
  PROVE  RowsSeen(p) \in [Ids -> RowType]
<1>1. rows \in [Ids -> RowType] /\ view[p] \in {None} \cup [Ids -> RowType]
  BY DEF TypeOK
<1>2. QED
  BY <1>1 DEF RowsSeen, Reads

\* The types after a read.
LEMMA TypedRead ==
  ASSUME TypeOK, NEW p \in Processes, AfterRead(p)
  PROVE  /\ ready' \in [Processes -> BOOLEAN]
         /\ view' \in [Processes -> {None} \cup [Ids -> RowType]]
<1>1. RowsSeen(p) \in [Ids -> RowType]
  BY RecordsSeen
<1>2. /\ ready \in [Processes -> BOOLEAN]
      /\ view \in [Processes -> {None} \cup [Ids -> RowType]]
  BY DEF TypeOK
<1>3. QED
  BY <1>1, <1>2 DEF AfterRead

\* The types after the end of a run.
LEMMA TypedEnd ==
  ASSUME TypeOK, NEW p \in Processes, BodyEnds(p)
  PROVE  /\ pc' \in [Processes -> Phases]
         /\ run' \in [Processes -> [verb : Commands \cup {"none"}, target : Ids \cup {None}]]
         /\ todo' \in [Processes -> Seq(WorkType)]
         /\ seq' \in [Processes -> Nat]
         /\ known' \in [Processes -> {None} \cup [Ids -> RowType]]
<1>1. <<>> \in Seq(WorkType) /\ Idle \in [verb : Commands \cup {"none"}, target : Ids \cup {None}]
  BY DEF Idle
<1>2. QED
  BY <1>1 DEF TypeOK, BodyEnds

\* The first step of a plan and the rest of it.
LEMMA WorkFacts ==
  ASSUME NEW p \in Processes, todo \in [Processes -> Seq(WorkType)], todo[p] # <<>>
  PROVE  /\ Work(p) \in WorkType /\ Work(p) = todo[p][1] /\ 1 \in DOMAIN todo[p]
         /\ Tail(todo[p]) \in Seq(WorkType)
         /\ \A i \in DOMAIN Tail(todo[p]) :
              i \in Nat /\ i + 1 \in DOMAIN todo[p] /\ i > 0 /\ Tail(todo[p])[i] = todo[p][i + 1]
<1>1. PICK u \in Seq(WorkType) : u = todo[p] /\ u # <<>>
  OBVIOUS
<1>2. /\ Len(u) \in Nat /\ Len(u) # 0 /\ DOMAIN u = 1..Len(u)
  BY <1>1, EmptySeq, LenProperties
<1>3. Head(u) = u[1] /\ Head(u) \in WorkType /\ Tail(u) \in Seq(WorkType)
  BY <1>1, HeadTailProperties, LenProperties
<1>4. Len(Tail(u)) = Len(u) - 1 /\ \A i \in 1..Len(Tail(u)) : Tail(u)[i] = u[i + 1]
  BY <1>1, HeadTailProperties
<1>5. DOMAIN Tail(u) = 1..Len(Tail(u))
  BY <1>3, LenProperties
<1>6. QED
  BY <1>1, <1>2, <1>3, <1>4, <1>5 DEF Work

\* What is cut short is an id.
LEMMA LooseTyped ==
  ASSUME TypeOK, PhaseInv, NEW p \in Processes,
         \/ CutShort(p)
         \/ InBareStep(p) /\ loose' = loose \cup {Work(p).id}
         \/ UNCHANGED loose
  PROVE  loose' \subseteq Ids
<1>1. InBareStep(p) => Work(p) \in WorkType
  BY WorkFacts DEF TypeOK, PhaseInv
<1>2. InBareStep(p) => Work(p).id \in Ids
  BY <1>1 DEF WorkType
<1>3. loose \subseteq Ids
  BY DEF TypeOK
<1>4. QED
  BY <1>2, <1>3 DEF CutShort

\* The types after the actions that only end a run.
LEMMA TypedEndActions ==
  ASSUME TypeOK, PhaseInv, NEW p \in Processes,
         \/ RunUpRefused(p) \/ RunDownRefused(p) \/ TransactionRolledBack(p)
         \/ FailureRowLost(p) \/ RunFinished(p) \/ WritesRolledBack(p) \/ Interrupted(p)
  PROVE  TypeOK'
<1>1. BodyEnds(p) /\ UNCHANGED <<engine, schema, rows, held, deploy>>
  BY DEF RunUpRefused, RunDownRefused, TransactionRolledBack, FailureRowLost, RunFinished,
         WritesRolledBack, Interrupted, BodyFails, database
<1>2. /\ UNCHANGED view \/ NewTransaction(p)
      /\ UNCHANGED ready \/ ready' = [ready EXCEPT ![p] = TRUE]
      /\ UNCHANGED runs
      /\ UNCHANGED faults \/ Fault
  BY DEF RunUpRefused, RunDownRefused, TransactionRolledBack, FailureRowLost, RunFinished,
         WritesRolledBack, Interrupted, BodyFails, database
<1>3. \/ CutShort(p)
      \/ InBareStep(p) /\ loose' = loose \cup {Work(p).id}
      \/ UNCHANGED loose
  BY DEF RunUpRefused, RunDownRefused, TransactionRolledBack, FailureRowLost, RunFinished,
         WritesRolledBack, Interrupted, database, InBareStep
<1>4. loose' \subseteq Ids
  BY <1>3, LooseTyped
<1>5. faults' \in 0..MaxFaults
  BY <1>2, MigratorAssumption DEF TypeOK, Fault
<1>6. ready' \in [Processes -> BOOLEAN] /\ view' \in [Processes -> {None} \cup [Ids -> RowType]]
  BY <1>2 DEF TypeOK, NewTransaction
<1>7. QED
  BY <1>1, <1>2, <1>4, <1>5, <1>6, TypedEnd DEF TypeOK

\* The types after the actions up to the lock.
LEMMA TypedStarts ==
  ASSUME TypeOK, NEW p \in Processes,
         \/ Start(p) \/ StartDownTo(p) \/ TakeLock(p) \/ LockRefused(p)
  PROVE  TypeOK'
<1>0. Idle \in [verb : Commands \cup {"none"}, target : Ids \cup {None}]
  BY DEF Idle
<1>1. ASSUME NEW verb, NEW target \in Ids \cup {None}, Begin(p, verb, target),
             ready' \in [Processes -> BOOLEAN],
             view' \in [Processes -> {None} \cup [Ids -> RowType]]
      PROVE  TypeOK'
  <2>1. runs' \in 0..MaxRuns
    BY <1>1, MigratorAssumption DEF TypeOK, Begin
  <2>2. [verb |-> verb, target |-> target] \in [verb : Commands \cup {"none"}, target : Ids \cup {None}]
    BY <1>1 DEF Begin
  <2>3. run' \in [Processes -> [verb : Commands \cup {"none"}, target : Ids \cup {None}]]
    BY <1>1, <2>2 DEF TypeOK, Begin
  <2>4. UNCHANGED <<engine, schema, rows, loose, held, deploy, known, todo, seq, faults>>
    BY <1>1 DEF Begin, database
  <2>5. pc' \in [Processes -> Phases]
    BY <1>1 DEF TypeOK, Begin
  <2>6. QED
    BY <1>1, <2>1, <2>3, <2>4, <2>5 DEF TypeOK
<1>2. CASE Start(p)
  <2>1. PICK verb : Begin(p, verb, None) /\ UNCHANGED <<ready, view>>
    BY <1>2 DEF Start, CallUp, CallDown, CallRepair, CallBaseline, Call
  <2>2. QED
    BY <1>1, <2>1 DEF TypeOK
<1>3. CASE StartDownTo(p)
  <2>1. PICK a, i : /\ a = AppliedVersioned(deploy[p], RowsSeen(p))
                    /\ i \in DOMAIN a /\ Begin(p, "down_to", a[i])
    BY <1>3 DEF StartDownTo
  <2>2. a[i] \in Ids
    <3>1. PICK S \in SUBSET Ids : a = BySeq(RowsSeen(p), S)
      BY <2>1 DEF AppliedVersioned
    <3>2. a \in Seq(S) /\ i \in 1..Len(a)
      BY <2>1, <3>1, RecordsSeen, BySeqFacts, LenProperties
    <3>3. QED
      BY <3>2, ElementOfSeq
  <2>3. AfterRead(p)
    BY <1>3 DEF StartDownTo
  <2>4. QED
    BY <1>1, <2>1, <2>2, <2>3, TypedRead
<1>4. CASE TakeLock(p)
  <2>1. held' \in [Processes -> Nat]
    BY <1>4 DEF TypeOK, TakeLock
  <2>2. pc' \in [Processes -> Phases]
    BY <1>4 DEF TypeOK, TakeLock
  <2>3. QED
    BY <1>4, <2>1, <2>2 DEF TypeOK, TakeLock, database, plan
<1>5. CASE LockRefused(p)
  <2>1. faults' \in 0..MaxFaults
    BY <1>5, MigratorAssumption DEF TypeOK, LockRefused, Fault
  <2>2. pc' \in [Processes -> Phases]
    BY <1>5 DEF TypeOK, LockRefused
  <2>3. run' \in [Processes -> [verb : Commands \cup {"none"}, target : Ids \cup {None}]]
    BY <1>0, <1>5 DEF TypeOK, LockRefused
  <2>4. QED
    BY <1>5, <2>1, <2>2, <2>3 DEF TypeOK, LockRefused, database
<1>6. QED
  BY <1>2, <1>3, <1>4, <1>5

\* The types after the actions that give the lock back or close the session.
LEMMA TypedCloses ==
  ASSUME TypeOK, PhaseInv, LockInv, NEW p \in Processes,
         Unlock(p) \/ UnlockRefused(p) \/ Crash(p) \/ Disconnect(p)
  PROVE  TypeOK'
<1>0. /\ Idle \in [verb : Commands \cup {"none"}, target : Ids \cup {None}]
      /\ <<>> \in Seq(WorkType)
  BY DEF Idle
<1>1. CASE Unlock(p)
  <2>1. held[p] \in Nat /\ held[p] > 0
    BY <1>1 DEF TypeOK, LockInv, Locked, Unlock
  <2>2. held[p] - 1 \in Nat
    BY <2>1
  <2>3. held' \in [Processes -> Nat]
    BY <1>1, <2>2 DEF TypeOK, Unlock
  <2>4. pc' \in [Processes -> Phases]
    BY <1>1 DEF TypeOK, Unlock
  <2>5. QED
    BY <1>1, <2>3, <2>4 DEF TypeOK, Unlock, database, plan
<1>2. CASE UnlockRefused(p)
  <2>1. faults' \in 0..MaxFaults
    BY <1>2, MigratorAssumption DEF TypeOK, UnlockRefused, Fault
  <2>2. pc' \in [Processes -> Phases]
    BY <1>2 DEF TypeOK, UnlockRefused
  <2>3. QED
    BY <1>2, <2>1, <2>2 DEF TypeOK, UnlockRefused, database, plan
<1>3. ASSUME NewConnection(p)
      PROVE  /\ held' \in [Processes -> Nat] /\ ready' \in [Processes -> BOOLEAN]
             /\ view' \in [Processes -> {None} \cup [Ids -> RowType]]
             /\ deploy' \in [Processes -> Deploys]
  BY <1>3 DEF TypeOK, NewConnection, NewTransaction
<1>4. CASE Crash(p)
  <2>1. faults' \in 0..MaxFaults
    BY <1>4, MigratorAssumption DEF TypeOK, Crash, Fault
  <2>2. loose' \subseteq Ids
    BY <1>4, LooseTyped DEF Crash
  <2>3. /\ pc' \in [Processes -> Phases]
        /\ run' \in [Processes -> [verb : Commands \cup {"none"}, target : Ids \cup {None}]]
        /\ todo' \in [Processes -> Seq(WorkType)]
        /\ seq' \in [Processes -> Nat]
        /\ known' \in [Processes -> {None} \cup [Ids -> RowType]]
    BY <1>0, <1>4 DEF TypeOK, Crash
  <2>4. NewConnection(p) /\ UNCHANGED <<engine, schema, rows, runs>>
    BY <1>4 DEF Crash
  <2>5. QED
    BY <1>3, <2>1, <2>2, <2>3, <2>4 DEF TypeOK
<1>5. CASE Disconnect(p)
  <2>1. NewConnection(p) /\ UNCHANGED <<database, pc, plan, runs, faults>>
    BY <1>5 DEF Disconnect
  <2>2. QED
    BY <1>3, <2>1 DEF TypeOK, database, plan
<1>6. QED
  BY <1>1, <1>2, <1>4, <1>5

\* The types after the reads under the lock.
LEMMA TypedPlans ==
  ASSUME TypeOK, NEW p \in Processes, RunUp(p) \/ RunDown(p) \/ RecordsRead(p)
  PROVE  TypeOK'
<1>1. PICK recs \in [Ids -> RowType] : recs = RowsSeen(p)
  BY RecordsSeen
<1>2. PICK d \in Deploys : d = deploy[p]
  BY DEF TypeOK
<1>3. pc' \in [Processes -> Phases]
  BY DEF TypeOK, RunUp, RunDown, RecordsRead
<1>4. /\ ready' \in [Processes -> BOOLEAN]
      /\ view' \in [Processes -> {None} \cup [Ids -> RowType]]
  BY TypedRead DEF RunUp, RunDown, RecordsRead
<1>5. UNCHANGED <<engine, schema, rows, loose, held, deploy, run, runs, faults>>
  BY DEF RunUp, RunDown, RecordsRead, database
<1>6. CASE RunUp(p)
  <2>1. PICK target \in Targets(d) :
           /\ \A m \in Entries(VersionedNow(d, recs, target)) : ~Recorded(recs, m.id)
           /\ todo' = [todo EXCEPT ![p] = UpSteps(d, recs, target)]
           /\ seq' = [seq EXCEPT ![p] = NextSeq(recs)]
    BY <1>1, <1>2, <1>6 DEF RunUp, Targets
  <2>2. UpSteps(d, recs, target) \in Seq(WorkType)
    BY <2>1, UpStepsFacts DEF UpPlan
  <2>3. NextSeq(recs) \in Nat
    BY NextSeqFacts
  <2>4. /\ todo' \in [Processes -> Seq(WorkType)] /\ seq' \in [Processes -> Nat]
    BY <2>1, <2>2, <2>3 DEF TypeOK
  <2>5. QED
    BY <1>3, <1>4, <1>5, <1>6, <2>4 DEF TypeOK, RunUp
<1>7. CASE RunDown(p)
  <2>1. PICK count \in 1..2, forced \in BOOLEAN :
           /\ ~DownRefused(p, recs, count, forced)
           /\ todo' = [todo EXCEPT ![p] =
            [i \in DOMAIN Window(p, recs, count) |->
               DownStep(EntryOf(deploy[p], Window(p, recs, count)[i]), forced)]]
    BY <1>1, <1>7 DEF RunDown
  <2>2. PICK u : u = [i \in DOMAIN Window(p, recs, count) |->
               DownStep(EntryOf(deploy[p], Window(p, recs, count)[i]), forced)]
    OBVIOUS
  <2>3. u \in Seq(WorkType)
    BY <1>2, <1>7, <2>1, <2>2, DownStepsFacts DEF DownPlan, RunDown, Reading
  <2>4. todo' \in [Processes -> Seq(WorkType)]
    BY <2>1, <2>2, <2>3 DEF TypeOK
  <2>5. QED
    BY <1>3, <1>4, <1>5, <1>7, <2>4 DEF TypeOK, RunDown
<1>8. CASE RecordsRead(p)
  <2>1. known' \in [Processes -> {None} \cup [Ids -> RowType]]
    BY <1>1, <1>8 DEF TypeOK, RecordsRead
  <2>2. QED
    BY <1>3, <1>4, <1>5, <1>8, <2>1 DEF TypeOK, RecordsRead
<1>9. QED
  BY <1>6, <1>7, <1>8

\* What the row of a step's migration becomes.
LEMMA RowsAfterFacts ==
  ASSUME rows \in [Ids -> RowType], NEW w \in WorkType, NEW number \in Nat, NEW ok \in BOOLEAN
  PROVE  /\ RowsAfter(w, number, ok) \in [Ids -> RowType]
         /\ \A id \in Ids \ {w.id} : RowsAfter(w, number, ok)[id] = rows[id]
         /\ w.way = "down" => RowsAfter(w, number, ok)[w.id] = NoRow
         /\ w.way = "up" /\ ~w.update =>
              RowsAfter(w, number, ok)[w.id] = [seq |-> number, ok |-> ok, edition |-> w.edition]
         /\ w.way = "up" /\ w.update /\ rows[w.id] = NoRow => RowsAfter(w, number, ok)[w.id] = NoRow
         /\ w.way = "up" /\ w.update /\ rows[w.id] # NoRow =>
              RowsAfter(w, number, ok)[w.id] = [seq |-> rows[w.id].seq, ok |-> ok, edition |-> w.edition]
<1>1. w.id \in Ids /\ w.edition \in Nat /\ NoRow \in RowType /\ rows[w.id] \in RowType
  BY DEF WorkType, NoRow, RowType
<1>2. PICK r : r = IF w.way = "down" THEN NoRow
     ELSE IF ~w.update THEN [seq |-> number, ok |-> ok, edition |-> w.edition]
     ELSE IF rows[w.id] = NoRow THEN NoRow
     ELSE [rows[w.id] EXCEPT !.ok = ok, !.edition = w.edition]
  OBVIOUS
<1>3. RowsAfter(w, number, ok) = [rows EXCEPT ![w.id] = r]
  BY <1>2 DEF RowsAfter
<1>4. [rows[w.id] EXCEPT !.ok = ok, !.edition = w.edition]
        = [seq |-> rows[w.id].seq, ok |-> ok, edition |-> w.edition]
  <2>1. PICK q, e : q = rows[w.id] /\ e = w.edition /\ q \in RowType
    BY <1>1
  <2>2. PICK x : x = [q EXCEPT !.ok = ok, !.edition = e]
    OBVIOUS
  <2>3. e \in Nat
    BY <1>1, <2>1
  <2>4. x \in RowType /\ x.seq = q.seq /\ x.ok = ok /\ x.edition = e
    BY <2>1, <2>2, <2>3 DEF RowType
  <2>5. x = [seq |-> x.seq, ok |-> x.ok, edition |-> x.edition]
    BY <2>4 DEF RowType
  <2>6. QED
    BY <2>1, <2>2, <2>4, <2>5
<1>5. rows[w.id].seq \in Nat
  BY <1>1 DEF RowType
<1>6. r \in RowType
  BY <1>1, <1>2, <1>4, <1>5 DEF RowType
<1>7. /\ w.way = "down" => r = NoRow
      /\ w.way = "up" /\ ~w.update => r = [seq |-> number, ok |-> ok, edition |-> w.edition]
      /\ w.way = "up" /\ w.update /\ rows[w.id] = NoRow => r = NoRow
      /\ w.way = "up" /\ w.update /\ rows[w.id] # NoRow =>
           r = [seq |-> rows[w.id].seq, ok |-> ok, edition |-> w.edition]
  BY <1>2, <1>4
<1>8. QED
  BY <1>1, <1>3, <1>6, <1>7

\* What a step leaves behind is an object.
LEMMA EffectTyped ==
  ASSUME NEW s \in ObjectType, NEW w \in WorkType
  PROVE  Effect(s, w) \in ObjectType /\ Absent \in ObjectType /\ Object("partial", 0) \in ObjectType
  BY DEF Effect, Absent, Object, ObjectType, WorkType

\* The types after the steps of a plan.
LEMMA TypedSteps ==
  ASSUME TypeOK, PhaseInv, NEW p \in Processes,
         \/ AppliesInTransaction(p) \/ BareStepBegins(p) \/ BareStepHalfway(p)
         \/ BareStepDone(p) \/ BareRowWritten(p) \/ BareStepRaises(p)
  PROVE  TypeOK'
<1>1. PICK w \in WorkType : w = Work(p) /\ Tail(todo[p]) \in Seq(WorkType) /\ w.id \in Ids
  <2>1. todo[p] # <<>>
    BY DEF PhaseInv, InBareStep, AppliesInTransaction, BareStepBegins, BareStepHalfway,
           BareStepDone, BareRowWritten, BareStepRaises
  <2>2. Work(p) \in WorkType /\ Tail(todo[p]) \in Seq(WorkType)
    BY <2>1, WorkFacts DEF TypeOK
  <2>3. QED
    BY <2>2 DEF WorkType
<1>2. pc' \in [Processes -> Phases]
  BY DEF TypeOK, AppliesInTransaction, BareStepBegins, BareStepHalfway,
         BareStepDone, BareRowWritten, BareStepRaises
<1>3. UNCHANGED <<engine, loose, held, run, deploy, ready, known, runs>>
  BY DEF database, plan, AppliesInTransaction, BareStepBegins, BareStepHalfway,
         BareStepDone, BareRowWritten, BareStepRaises
<1>4. view' \in [Processes -> {None} \cup [Ids -> RowType]]
  BY DEF TypeOK, NewTransaction, database, plan, AppliesInTransaction, BareStepBegins, BareStepHalfway,
         BareStepDone, BareRowWritten, BareStepRaises
<1>5. faults' \in 0..MaxFaults
  <2>1. UNCHANGED faults \/ Fault
    BY DEF database, plan, AppliesInTransaction, BareStepBegins, BareStepHalfway,
         BareStepDone, BareRowWritten, BareStepRaises
  <2>2. QED
    BY <2>1, MigratorAssumption DEF TypeOK, Fault
<1>6. schema' \in [Ids -> ObjectType]
  <2>1. \/ UNCHANGED schema \/ schema' = [schema EXCEPT ![w.id] = Effect(@, w)]
        \/ schema' = [schema EXCEPT ![w.id] = Object("partial", 0)]
    BY <1>1 DEF database, AppliesInTransaction, BareStepBegins, BareStepHalfway,
         BareStepDone, BareRowWritten, BareStepRaises
  <2>2. schema \in [Ids -> ObjectType] /\ Effect(schema[w.id], w) \in ObjectType
        /\ Object("partial", 0) \in ObjectType
    BY <1>1, EffectTyped DEF TypeOK
  <2>3. QED
    BY <1>1, <2>1, <2>2
<1>7. rows' \in [Ids -> RowType]
  <2>1. UNCHANGED rows \/ rows' = RowsAfter(w, seq[p], TRUE)
    BY <1>1 DEF database, AppliesInTransaction, BareStepBegins, BareStepHalfway,
         BareStepDone, BareRowWritten, BareStepRaises
  <2>2. PICK n \in Nat : n = seq[p]
    BY DEF TypeOK
  <2>3. PICK yes \in BOOLEAN : yes = TRUE
    OBVIOUS
  <2>4. rows \in [Ids -> RowType]
    BY DEF TypeOK
  <2>5. RowsAfter(w, n, yes) \in [Ids -> RowType]
    BY <2>4, RowsAfterFacts
  <2>6. QED
    BY <2>1, <2>2, <2>3, <2>4, <2>5
<1>8. todo' \in [Processes -> Seq(WorkType)]
  <2>1. UNCHANGED todo \/ NextStep(p)
    BY DEF database, plan, AppliesInTransaction, BareStepBegins, BareStepHalfway,
         BareStepDone, BareRowWritten, BareStepRaises
  <2>2. QED
    BY <1>1, <2>1 DEF TypeOK, NextStep
<1>9. seq' \in [Processes -> Nat]
  <2>1. UNCHANGED seq \/ SeqAfter(p, w)
    BY <1>1 DEF database, plan, AppliesInTransaction, BareStepBegins, BareStepHalfway,
         BareStepDone, BareRowWritten, BareStepRaises
  <2>2. seq \in [Processes -> Nat] /\ seq[p] + 1 \in Nat
    BY DEF TypeOK
  <2>3. seq' \in {seq, [seq EXCEPT ![p] = seq[p] + 1]}
    BY <2>1, <2>2 DEF SeqAfter
  <2>4. QED
    BY <2>2, <2>3
<1>10. QED
  BY <1>2, <1>3, <1>4, <1>5, <1>6, <1>7, <1>8, <1>9 DEF TypeOK

\* The types after a failed attempt went on record.
LEMMA TypedFailure ==
  ASSUME TypeOK, PhaseInv, NEW p \in Processes, FailureRecorded(p)
  PROVE  TypeOK'
<1>1. PICK w \in WorkType : w = Work(p) /\ w.id \in Ids
  <2>1. todo[p] # <<>>
    BY DEF PhaseInv, InBareStep, FailureRecorded
  <2>2. Work(p) \in WorkType
    BY <2>1, WorkFacts DEF TypeOK
  <2>3. QED
    BY <2>2 DEF WorkType
<1>2. rows' \in [Ids -> RowType]
  <2>1. rows' = IF w.way = "up" THEN RowsAfter(w, seq[p], FALSE) ELSE [rows EXCEPT ![w.id].ok = FALSE]
    BY <1>1 DEF FailureRecorded
  <2>2. rows \in [Ids -> RowType] /\ seq[p] \in Nat
    BY DEF TypeOK
  <2>3. [rows[w.id] EXCEPT !.ok = FALSE] \in RowType
    BY <1>1, <2>2 DEF RowType
  <2>4. [rows EXCEPT ![w.id].ok = FALSE] \in [Ids -> RowType]
    BY <2>2, <2>3
  <2>5. QED
    BY <2>1, <2>2, <2>4, RowsAfterFacts
<1>3. view' \in [Processes -> {None} \cup [Ids -> RowType]]
  BY DEF TypeOK, NewTransaction, FailureRecorded, BodyFails
<1>4. BodyEnds(p) /\ UNCHANGED <<engine, schema, loose, held, deploy, ready, runs, faults>>
  BY DEF FailureRecorded, BodyFails
<1>5. QED
  BY <1>2, <1>3, <1>4, TypedEnd DEF TypeOK

\* What a repair leaves of a row.
LEMMA RepairedFacts ==
  ASSUME NEW d \in Deploys, NEW recs \in [Ids -> RowType], rows \in [Ids -> RowType], NEW id \in Ids
  PROVE  /\ Repaired(d, recs, id) \in RowType
         /\ \/ Repaired(d, recs, id) = rows[id]
            \/ Failed(rows, id) /\ Repaired(d, recs, id) = NoRow
            \/ /\ id \notin Repeatables /\ Recorded(rows, id)
               /\ Repaired(d, recs, id).seq = rows[id].seq
               /\ Repaired(d, recs, id).ok = rows[id].ok
<1>1. NoRow \in RowType /\ rows[id] \in RowType
  BY DEF NoRow, RowType
<1> DEFINE Recounted == /\ Ok(recs, id) /\ Registered(d, id) /\ id \notin Repeatables
                        /\ Recorded(rows, id) /\ ~Failed(recs, id)
<1>2. CASE Recounted
  <2>1. EntryOf(d, id).edition \in Nat
    <3>1. PICK m \in Entries(d) : m = EntryOf(d, id)
      BY <1>2 DEF Registered, EntryOf
    <3>2. PICK j \in DOMAIN d : m = d[j]
      BY DEF Entries
    <3>3. m \in EntryType
      BY <3>2, DeployFacts, ElementOfSeq, LenProperties
    <3>4. QED
      BY <3>1, <3>3, MigratorAssumption DEF EntryType
  <2>2. Repaired(d, recs, id) = [rows[id] EXCEPT !.edition = EntryOf(d, id).edition]
    BY <1>2 DEF Repaired
  <2>3. QED
    BY <1>1, <1>2, <2>1, <2>2 DEF RowType
<1>3. CASE ~Recounted
  BY <1>1, <1>3 DEF Repaired
<1>4. QED
  BY <1>2, <1>3

\* What a baseline writes: a row for each id in ms, numbered from n on.
Baselined(p, ms, n) ==
  /\ ms \in Seq(EntryType) /\ n \in Nat /\ n > 0
  /\ \A id \in Ids : known[p][id].seq < n
  /\ \A id \in Ids : Registered(ms, id) => ~Recorded(rows, id)
  /\ \A id \in Ids : IF Registered(ms, id)
                     THEN \E i \in DOMAIN ms :
                            /\ ms[i].id = id /\ rows'[id].seq = n - 1 + i
                            /\ rows'[id].ok = TRUE /\ rows'[id].edition \in Nat
                     ELSE rows'[id] = rows[id]
  /\ \A id \in Ids : Registered(ms, id) => id \in loose' \/ schema[id].state = "legacy"
  /\ rows' \in [Ids -> RowType]
  /\ loose \subseteq loose' /\ loose' \subseteq Ids

\* Baseline() writes such rows.
LEMMA BaselineFacts ==
  ASSUME TypeOK, PhaseInv, NEW p \in Processes, Baseline(p)
  PROVE  \E ms, n : Baselined(p, ms, n)
<1>1. PICK d \in Deploys : d = deploy[p]
  BY DEF TypeOK
<1>2. PICK recs \in [Ids -> RowType] : recs = known[p]
  BY DEF TypeOK, PhaseInv, Baseline
<1>3. PICK ms : \E target \in Targets(d) :
         /\ ms = BaselineCandidates(d, recs, target)
         /\ \A m \in Entries(ms) : ~Recorded(recs, m.id) /\ ~Recorded(rows, m.id)
         /\ rows' = [id \in Ids |->
                     IF Registered(ms, id)
                     THEN [seq |-> NextSeq(recs) - 1 + CHOOSE i \in DOMAIN ms : ms[i].id = id,
                           ok |-> TRUE, edition |-> EntryOf(ms, id).edition]
                     ELSE rows[id]]
         /\ loose' = loose \cup {m.id : m \in {x \in Entries(ms) : schema[x.id].state # "legacy"}}
  BY <1>1, <1>2 DEF Baseline, Targets
<1>4. ms \in Seq(EntryType)
  <2>0. PICK target \in Targets(d) : ms = BaselineCandidates(d, recs, target)
    BY <1>3
  <2>1. VersionedThrough(d, target) \o RepeatablesOf(d) \in Seq(EntryType)
    BY ThroughFacts, VersionedFacts, ConcatDistinct
  <2>2. PICK S : ms = Where(VersionedThrough(d, target) \o RepeatablesOf(d), S)
    BY <2>0 DEF BaselineCandidates
  <2>3. ms \in Seq(EntryType \cap S)
    BY <2>1, <2>2, WhereFacts
  <2>4. QED
    BY <2>3, SeqMonotonic
<1>5. \A i \in DOMAIN ms : i \in Nat /\ i > 0 /\ ms[i] \in EntryType
  BY <1>4, LenProperties, ElementOfSeq
<1>6. PICK n \in Nat : n = NextSeq(recs) /\ n > 0 /\ \A id \in Ids : recs[id].seq < n
  BY NextSeqFacts
<1>7. ASSUME NEW id \in Ids, Registered(ms, id)
      PROVE  /\ ~Recorded(rows, id)
             /\ \E i \in DOMAIN ms :
                  /\ ms[i].id = id /\ rows'[id].seq = n - 1 + i
                  /\ rows'[id].ok = TRUE /\ rows'[id].edition \in Nat
             /\ rows'[id] \in RowType
             /\ id \in loose' \/ schema[id].state = "legacy"
  <2>1. PICK m \in Entries(ms) : m.id = id
    BY <1>7 DEF Registered
  <2>2. PICK i \in DOMAIN ms : i = (CHOOSE j \in DOMAIN ms : ms[j].id = id) /\ ms[i].id = id
    BY <2>1 DEF Entries
  <2>3. PICK e \in Nat : e = EntryOf(ms, id).edition
    <3>1. PICK x \in Entries(ms) : x = EntryOf(ms, id)
      BY <1>7 DEF Registered, EntryOf
    <3>2. x \in EntryType
      BY <1>5 DEF Entries
    <3>3. QED
      BY <3>1, <3>2, MigratorAssumption DEF EntryType
  <2>4. rows'[id] = [seq |-> n - 1 + i, ok |-> TRUE, edition |-> e]
    BY <1>3, <1>6, <1>7, <2>2, <2>3
  <2>5. n - 1 + i \in Nat
    BY <1>5, <1>6
  <2>8. rows'[id] \in RowType /\ rows'[id].seq = n - 1 + i /\ rows'[id].ok = TRUE
        /\ rows'[id].edition \in Nat
    <3>1. PICK k \in Nat : k = n - 1 + i
      BY <2>5
    <3>2. QED
      BY <2>4, <3>1 DEF RowType
  <2>6. id \in loose' \/ schema[id].state = "legacy"
    BY <1>3, <2>1
  <2>7. QED
    BY <1>3, <2>1, <2>2, <2>6, <2>8
<1>8. rows' \in [Ids -> RowType]
  <2>1. ASSUME NEW id \in Ids PROVE rows'[id] \in RowType
    <3>1. CASE Registered(ms, id)
      BY <1>7, <3>1
    <3>2. CASE ~Registered(ms, id)
      <4>1. rows'[id] = rows[id]
        BY <1>3, <3>2
      <4>2. QED
        BY <4>1 DEF TypeOK
    <3>3. QED
      BY <3>1, <3>2
  <2>2. rows' = [id \in Ids |-> rows'[id]]
    BY <1>3
  <2>3. QED
    BY <2>1, <2>2
<1>9. loose \subseteq loose' /\ loose' \subseteq Ids
  <2>1. \A m \in Entries(ms) : m.id \in Ids
    BY <1>5 DEF Entries, EntryType
  <2>2. loose \subseteq Ids
    BY DEF TypeOK
  <2>3. QED
    BY <1>3, <2>1, <2>2
<1>10. \A id \in Ids : ~Registered(ms, id) => rows'[id] = rows[id]
  BY <1>3
<1>11. Baselined(p, ms, n)
  BY <1>2, <1>4, <1>6, <1>7, <1>8, <1>9, <1>10 DEF Baselined
<1>12. QED
  BY <1>11

\* A repair, of every row or of the first ones.
RepairStep(p) == RepairRows(p) \/ RepairKeptInPart(p)

\* The types after a repair and after a baseline.
LEMMA TypedWrites ==
  ASSUME TypeOK, PhaseInv, NEW p \in Processes, RepairStep(p) \/ Baseline(p)
  PROVE  TypeOK'
<1>1. view' \in [Processes -> {None} \cup [Ids -> RowType]]
  BY DEF TypeOK, NewTransaction, RepairStep, RepairRows, RepairKeptInPart, RepairsOf, Baseline
<1>2. BodyEnds(p) /\ UNCHANGED <<engine, schema, held, deploy, ready, runs>> /\ faults' \in 0..MaxFaults
  BY MigratorAssumption DEF RepairStep, RepairRows, RepairKeptInPart, RepairsOf, Baseline, Fault, TypeOK
<1>3. CASE RepairStep(p)
  <2>1. PICK d \in Deploys : d = deploy[p]
    BY DEF TypeOK
  <2>2. PICK recs \in [Ids -> RowType] : recs = known[p]
    BY <1>3 DEF TypeOK, PhaseInv, RepairStep, RepairRows, RepairKeptInPart
  <2>3. PICK ids \in SUBSET Ids : RepairsOf(p, ids)
    BY <1>3 DEF RepairStep, RepairRows, RepairKeptInPart
  <2>4. rows' \in [Ids -> RowType]
    <3>1. rows' = [id \in Ids |-> IF id \in ids THEN Repaired(d, recs, id) ELSE rows[id]]
      BY <2>1, <2>2, <2>3 DEF RepairsOf
    <3>2. QED
      BY <3>1, RepairedFacts DEF TypeOK
  <2>5. loose' \subseteq Ids
    BY <1>3 DEF RepairStep, RepairRows, RepairKeptInPart, RepairsOf, TypeOK
  <2>6. QED
    BY <1>1, <1>2, <2>4, <2>5, TypedEnd DEF TypeOK
<1>4. CASE Baseline(p)
  <2>1. rows' \in [Ids -> RowType] /\ loose' \subseteq Ids
    BY <1>4, BaselineFacts DEF Baselined
  <2>2. QED
    BY <1>1, <1>2, <2>1, TypedEnd DEF TypeOK
<1>5. QED
  BY <1>3, <1>4

\* The types after the operator cleaned up.
LEMMA TypedCleanUp ==
  ASSUME TypeOK, NEW id \in Ids, CleanUp(id)
  PROVE  TypeOK'
<1>1. schema' \in [Ids -> ObjectType] /\ loose' \subseteq Ids
  <2>1. Object("done", rows[id].edition) \in ObjectType /\ Absent \in ObjectType
    BY DEF TypeOK, RowType, Object, ObjectType, Absent
  <2>2. QED
    BY <2>1 DEF TypeOK, CleanUp
<1>2. QED
  BY <1>1 DEF TypeOK, CleanUp

\* Every step keeps the types.
LEMMA TypeOKStep ==
  ASSUME TypeOK, LockInv, PhaseInv, [Next]_vars
  PROVE  TypeOK'
<1>1. CASE UNCHANGED vars
  BY <1>1 DEF TypeOK, vars
<1>2. ASSUME NEW p \in Processes, Start(p) \/ StartDownTo(p) \/ TakeLock(p) \/ LockRefused(p)
                                  \/ Runs(p) \/ BareStepHalfway(p) \/ UnlockRefused(p)
                                  \/ Interrupted(p) \/ Crash(p) \/ Disconnect(p)
      PROVE  TypeOK'
  BY <1>2, TypedStarts, TypedCloses, TypedPlans, TypedEndActions, TypedSteps, TypedFailure, TypedWrites
     DEF Runs, RepairStep
<1>3. ASSUME NEW id \in Ids, CleanUp(id) PROVE TypeOK'
  BY <1>3, TypedCleanUp
<1>4. QED
  BY <1>1, <1>2, <1>3 DEF Next

-----------------------------------------------------------------------------
(* What a step changes of the lock and the phases *)

\* The steps of one process.
StepOf(p) ==
  \/ Start(p) \/ StartDownTo(p) \/ TakeLock(p) \/ LockRefused(p)
  \/ Runs(p) \/ BareStepHalfway(p) \/ UnlockRefused(p)
  \/ Interrupted(p) \/ Crash(p) \/ Disconnect(p)

\* What a step of p leaves to the others.
Alone(p) ==
  /\ UNCHANGED engine
  /\ \A q \in Processes \ {p} :
       /\ pc'[q] = pc[q] /\ todo'[q] = todo[q] /\ seq'[q] = seq[q] /\ known'[q] = known[q]

\* Every step of p leaves the others as they were.
LEMMA StepsAlone ==
  ASSUME TypeOK, NEW p \in Processes, StepOf(p)
  PROVE  Alone(p)
<1> USE DEF Alone, TypeOK
<1>1. ASSUME BodyEnds(p), UNCHANGED engine PROVE Alone(p)
  BY <1>1 DEF BodyEnds
<1>2. CASE RunUpRefused(p) \/ RunDownRefused(p) \/ TransactionRolledBack(p)
         \/ FailureRowLost(p) \/ RunFinished(p) \/ WritesRolledBack(p) \/ Interrupted(p)
         \/ FailureRecorded(p) \/ RepairStep(p) \/ Baseline(p)
  <2>1. BodyEnds(p) /\ UNCHANGED engine
    BY <1>2 DEF RunUpRefused, RunDownRefused, TransactionRolledBack, FailureRowLost, RunFinished,
         WritesRolledBack, Interrupted, BodyFails, database, FailureRecorded, RepairStep,
         RepairRows, RepairKeptInPart, RepairsOf, Baseline
  <2>2. QED
    BY <1>1, <2>1
<1>3. CASE Start(p)
  <2>1. PICK verb : Begin(p, verb, None)
    BY <1>3 DEF Start, CallUp, CallDown, CallRepair, CallBaseline, Call
  <2>2. QED
    BY <2>1 DEF Begin, database
<1>4. CASE StartDownTo(p)
  <2>1. PICK target : Begin(p, "down_to", target)
    BY <1>4 DEF StartDownTo
  <2>2. QED
    BY <2>1 DEF Begin, database
<1>5. CASE TakeLock(p) \/ LockRefused(p) \/ Unlock(p) \/ UnlockRefused(p) \/ Crash(p) \/ Disconnect(p)
  BY <1>5 DEF TakeLock, LockRefused, Unlock, UnlockRefused, Crash, Disconnect, plan, database
<1>6. CASE RunUp(p)
  BY <1>6 DEF RunUp, database
<1>7. CASE RunDown(p)
  BY <1>7 DEF RunDown, database
<1>8. CASE RecordsRead(p)
  BY <1>8 DEF RecordsRead, database
<1>9. CASE AppliesInTransaction(p) \/ BareRowWritten(p)
  BY <1>9 DEF AppliesInTransaction, BareRowWritten, NextStep, SeqAfter
<1>10. CASE BareStepBegins(p) \/ BareStepHalfway(p) \/ BareStepDone(p) \/ BareStepRaises(p)
  BY <1>10 DEF BareStepBegins, BareStepHalfway, BareStepDone, BareStepRaises, database, plan
<1>11. QED
  BY <1>2, <1>3, <1>4, <1>5, <1>6, <1>7, <1>8, <1>9, <1>10 DEF StepOf, Runs, RepairStep

\* What a step of p does to the lock.
LockMove(p) ==
  \/ /\ UNCHANGED held /\ pc[p] \in Locked
     /\ pc'[p] \in Locked /\ (pc'[p] = "unlock" => engine.lock)
  \/ UNCHANGED held /\ pc'[p] = "idle"
  \/ UNCHANGED held /\ pc'[p] = IF engine.lock THEN "lock" ELSE "read"
  \/ /\ \A q \in Processes \ {p} : held[q] = 0
     /\ held' = [held EXCEPT ![p] = @ + 1]
     /\ pc'[p] = "read"
  \/ held' = [held EXCEPT ![p] = 0] /\ pc'[p] = "idle"
  \/ held' = [held EXCEPT ![p] = @ - 1] /\ held[p] > 0 /\ pc'[p] = "idle"

\* The lock is taken where nobody else has it and worked under where it is held.
LEMMA LockMoves ==
  ASSUME TypeOK, LockInv, NEW p \in Processes, StepOf(p)
  PROVE  LockMove(p)
<1> USE DEF LockMove
<1>0. pc \in [Processes -> Phases]
  BY DEF TypeOK
<1>1. ASSUME BodyEnds(p), UNCHANGED held, pc[p] \in Locked PROVE LockMove(p)
  BY <1>0, <1>1 DEF BodyEnds, Locked
<1>2. CASE RunUpRefused(p) \/ RunDownRefused(p) \/ TransactionRolledBack(p)
         \/ FailureRowLost(p) \/ RunFinished(p) \/ WritesRolledBack(p) \/ Interrupted(p)
         \/ FailureRecorded(p) \/ RepairStep(p) \/ Baseline(p)
  <2>1. BodyEnds(p) /\ UNCHANGED held
    BY <1>2 DEF RunUpRefused, RunDownRefused, TransactionRolledBack, FailureRowLost, RunFinished,
         WritesRolledBack, Interrupted, BodyFails, database, FailureRecorded, RepairStep,
         RepairRows, RepairKeptInPart, RepairsOf, Baseline
  <2>2. pc[p] \in Locked
    BY <1>2 DEF RunUpRefused, RunDownRefused, TransactionRolledBack, FailureRowLost, RunFinished,
         WritesRolledBack, Interrupted, FailureRecorded, RepairStep, RepairRows,
         RepairKeptInPart, Baseline, Reading, Locked
  <2>3. QED
    BY <1>1, <2>1, <2>2
<1>3. CASE Start(p) \/ StartDownTo(p)
  <2>1. PICK verb, target : Begin(p, verb, target)
    BY <1>3 DEF Start, CallUp, CallDown, CallRepair, CallBaseline, Call, StartDownTo
  <2>2. QED
    BY <1>0, <2>1 DEF Begin
<1>4. CASE TakeLock(p)
  BY <1>0, <1>4 DEF TakeLock
<1>5. CASE LockRefused(p) \/ UnlockRefused(p)
  BY <1>0, <1>5 DEF LockRefused, UnlockRefused
<1>6. CASE Unlock(p)
  <2>1. held[p] > 0
    BY <1>6 DEF LockInv, Locked, Unlock
  <2>2. QED
    BY <1>0, <1>6, <2>1 DEF Unlock
<1>7. CASE Crash(p) \/ Disconnect(p)
  BY <1>0, <1>7 DEF Crash, Disconnect, NewConnection
<1>8. CASE RunUp(p) \/ RunDown(p) \/ RecordsRead(p)
  BY <1>0, <1>8 DEF RunUp, RunDown, RecordsRead, Locked, Reading
<1>9. CASE AppliesInTransaction(p) \/ BareRowWritten(p)
  BY <1>0, <1>9 DEF AppliesInTransaction, BareRowWritten, Locked
<1>10. CASE BareStepBegins(p) \/ BareStepHalfway(p) \/ BareStepDone(p) \/ BareStepRaises(p)
  BY <1>0, <1>10 DEF BareStepBegins, BareStepHalfway, BareStepDone, BareStepRaises, Locked
<1>11. QED
  BY <1>2, <1>3, <1>4, <1>5, <1>6, <1>7, <1>8, <1>9, <1>10 DEF StepOf, Runs, RepairStep

\* Where a step of p leads and what it leaves planned.
PhaseMove(p) ==
  \/ pc'[p] \in {"idle", "lock", "read", "unlock"} /\ todo'[p] = <<>>
  \/ pc'[p] = "write" /\ todo'[p] = <<>> /\ known'[p] \in [Ids -> RowType]
  \/ pc'[p] = "run"
  \/ /\ pc'[p] \in {"step", "row", "failing"} /\ todo'[p] = todo[p]
     /\ todo[p] # <<>> /\ ~Transactional(Work(p).id)

\* A run has steps left only where it takes them.
LEMMA PhaseMoves ==
  ASSUME TypeOK, PhaseInv, NEW p \in Processes, StepOf(p)
  PROVE  PhaseMove(p)
<1> USE DEF PhaseMove
<1>0. pc \in [Processes -> Phases]
      /\ todo \in [Processes -> Seq(WorkType)]
  BY DEF TypeOK
<1>1. ASSUME BodyEnds(p) PROVE PhaseMove(p)
  BY <1>0, <1>1 DEF BodyEnds
<1>2. CASE RunUpRefused(p) \/ RunDownRefused(p) \/ TransactionRolledBack(p)
         \/ FailureRowLost(p) \/ RunFinished(p) \/ WritesRolledBack(p) \/ Interrupted(p)
         \/ FailureRecorded(p) \/ RepairStep(p) \/ Baseline(p)
  <2>1. BodyEnds(p)
    BY <1>2 DEF RunUpRefused, RunDownRefused, TransactionRolledBack, FailureRowLost, RunFinished,
         WritesRolledBack, Interrupted, BodyFails, database, FailureRecorded, RepairStep,
         RepairRows, RepairKeptInPart, RepairsOf, Baseline
  <2>3. QED
    BY <1>1, <2>1
<1>3. CASE Start(p) \/ StartDownTo(p)
  <2>1. PICK verb, target : Begin(p, verb, target)
    BY <1>3 DEF Start, CallUp, CallDown, CallRepair, CallBaseline, Call, StartDownTo
  <2>2. QED
    BY <1>0, <2>1 DEF Begin, PhaseInv
<1>4. CASE TakeLock(p) \/ LockRefused(p) \/ Unlock(p) \/ UnlockRefused(p) \/ Disconnect(p)
  BY <1>0, <1>4 DEF TakeLock, LockRefused, UnlockRefused, Unlock, Disconnect, plan, PhaseInv
<1>7. CASE Crash(p)
  BY <1>0, <1>7 DEF Crash
<1>8. CASE RunUp(p) \/ RunDown(p)
  BY <1>0, <1>8 DEF RunUp, RunDown
<1>12. CASE RecordsRead(p)
  <2>1. known'[p] = RowsSeen(p)
    BY <1>12 DEF RecordsRead, TypeOK
  <2>2. QED
    BY <1>0, <1>12, <2>1, RecordsSeen DEF RecordsRead, Reading, PhaseInv
<1>9. CASE AppliesInTransaction(p) \/ BareRowWritten(p)
  BY <1>0, <1>9 DEF AppliesInTransaction, BareRowWritten
<1>10. CASE BareStepBegins(p) \/ BareStepHalfway(p) \/ BareStepDone(p) \/ BareStepRaises(p)
  BY <1>0, <1>10 DEF BareStepBegins, BareStepHalfway, BareStepDone, BareStepRaises, PhaseInv, plan, InBareStep
<1>11. QED
  BY <1>2, <1>3, <1>4, <1>7, <1>8, <1>9, <1>10, <1>12 DEF StepOf, Runs, RepairStep

\* Every step keeps the lock exclusive.
LEMMA LockInvStep ==
  ASSUME TypeOK, LockInv, [Next]_vars
  PROVE  LockInv'
<1>1. CASE UNCHANGED vars
  BY <1>1 DEF LockInv, vars, Locked
<1>2. ASSUME NEW id \in Ids, CleanUp(id) PROVE LockInv'
  BY <1>2 DEF LockInv, CleanUp, Locked
<1>3. ASSUME NEW p \in Processes, StepOf(p) PROVE LockInv'
  <2>1. Alone(p) /\ LockMove(p)
    BY <1>3, StepsAlone, LockMoves
  <2>2. held \in [Processes -> Nat]
    BY DEF TypeOK
  <2>3. \A q \in Processes \ {p} : held'[q] = held[q]
    BY <2>1, <2>2 DEF LockMove
  <2>4. pc'[p] \in {"lock", "unlock"} => engine.lock
    BY <2>1 DEF LockMove, Locked
  <2>5. engine.lock /\ pc'[p] \in Locked => held'[p] > 0
    BY <2>1, <2>2 DEF LockMove, LockInv, Locked
  <2>6. held'[p] > 0 => (held[p] > 0 \/ \A q \in Processes \ {p} : held[q] = 0)
    BY <2>1, <2>2 DEF LockMove
  <2>7. \A q \in Processes \ {p} : held'[p] > 0 => ~(held'[q] > 0)
    BY <2>2, <2>3, <2>6 DEF LockInv
  <2>8. /\ \A q \in Processes : pc'[q] \in {"lock", "unlock"} => engine.lock
        /\ \A q \in Processes : engine.lock /\ pc'[q] \in Locked => held'[q] > 0
    BY <2>1, <2>3, <2>4, <2>5 DEF LockInv, Alone
  <2>9. \A q, r \in Processes : held'[q] > 0 /\ held'[r] > 0 => q = r
    BY <2>3, <2>7 DEF LockInv
  <2>10. engine' = engine
    BY <2>1 DEF Alone
  <2>11. QED
    BY <2>8, <2>9, <2>10 DEF LockInv, Locked
<1>4. QED
  BY <1>1, <1>2, <1>3 DEF Next, StepOf

\* Every step keeps the plans where they belong.
LEMMA PhaseInvStep ==
  ASSUME TypeOK, PhaseInv, [Next]_vars
  PROVE  PhaseInv'
<1>1. CASE UNCHANGED vars
  BY <1>1 DEF PhaseInv, vars, InBareStep, Work, Transactional
<1>2. ASSUME NEW id \in Ids, CleanUp(id) PROVE PhaseInv'
  BY <1>2 DEF PhaseInv, CleanUp, InBareStep, Work, Transactional
<1>3. ASSUME NEW p \in Processes, StepOf(p) PROVE PhaseInv'
  <2>1. Alone(p) /\ PhaseMove(p)
    BY <1>3, StepsAlone, PhaseMoves
  <2>2. SUFFICES ASSUME NEW q \in Processes
                 PROVE /\ pc'[q] \in {"idle", "lock", "read", "write", "unlock"} => todo'[q] = <<>>
                       /\ InBareStep(q)' => todo'[q] # <<>> /\ ~Transactional(Work(q).id)'
                       /\ pc'[q] = "write" => known'[q] \in [Ids -> RowType]
    BY DEF PhaseInv
  <2>3. CASE q = p
    BY <2>1, <2>3 DEF PhaseMove, Alone, InBareStep, Work, Transactional
  <2>4. CASE q # p
    BY <2>1, <2>4 DEF PhaseInv, Alone, InBareStep, Work, Transactional
  <2>5. QED
    BY <2>3, <2>4
<1>4. QED
  BY <1>1, <1>2, <1>3 DEF Next, StepOf

-----------------------------------------------------------------------------
(* The inductive invariant *)

\* A read sees what is committed.
ReadsLatest == \A e \in Engines : ~e.frozen

\* No transaction reads from a snapshot.
FreshInv == ~engine.frozen /\ \A p \in Processes : view[p] = None

\* A row has a number, and a migration that runs in a transaction leaves no
\* failed attempt.
RowsInv ==
  \A id \in Ids : /\ Recorded(rows, id) => rows[id].seq > 0
                  /\ Transactional(id) => ~Failed(rows, id)

\* The i-th step that p has to take fits its row and its number.
SoundWork(p, i) ==
  /\ todo[p][i].update => todo[p][i].way = "up" /\ todo[p][i].id \in Repeatables
  /\ todo[p][i].way = "down" => todo[p][i].id \notin Repeatables
  /\ todo[p][i].way = "up" => seq[p] > 0
  /\ todo[p][i].update /\ Transactional(todo[p][i].id) => Recorded(rows, todo[p][i].id)

TodoInv == \A p \in Processes : \A i \in DOMAIN todo[p] : SoundWork(p, i)

\* The number of the next row is above those that are taken.
Above(p) ==
  (\E i \in DOMAIN todo[p] : todo[p][i].way = "up") => \A id \in Ids : rows[id].seq < seq[p]

\* Under the lock, what remains of p's plan is a plan for the rows as they are.
PlanKept(p) ==
  /\ UpPlan(todo[p], rows) \/ DownPlan(todo[p], rows)
  /\ Above(p)
  /\ pc[p] = "write" => known[p] = rows

PlanInv == engine.lock => \A p \in Processes : PlanKept(p)

\* Under the lock, what p's step in flight has done to its objects.
StepKept(p) ==
  InBareStep(p) /\ Work(p).id \notin loose =>
    /\ pc[p] = "step" /\ Work(p).way = "up" /\ Work(p).id \notin Repeatables
         => schema[Work(p).id].state \in {"absent", "legacy", "partial"}
    /\ pc[p] = "row" => IF Work(p).way = "up"
                        THEN schema[Work(p).id] = Object("done", Work(p).edition)
                        ELSE schema[Work(p).id] = Absent

StepInv == engine.lock => \A p \in Processes : StepKept(p)

\* The inductive invariant: the two properties of the table and what the
\* plans say of it.
DataInv == RowsInv /\ TodoInv /\ PlanInv /\ StepInv /\ RowsMatchSchema /\ HistoryIsOrdered

\* Where no snapshot is frozen a read returns the committed rows.
LEMMA FreshRead ==
  ASSUME FreshInv, NEW p \in Processes
  PROVE  RowsSeen(p) = rows
  BY DEF FreshInv, RowsSeen, Reads

\* No step freezes a snapshot.
LEMMA FreshInvStep ==
  ASSUME TypeOK, FreshInv, [Next]_vars
  PROVE  FreshInv'
<1>1. CASE UNCHANGED vars
  BY <1>1 DEF FreshInv, vars
<1>2. ASSUME NEW id \in Ids, CleanUp(id) PROVE FreshInv'
  BY <1>2 DEF FreshInv, CleanUp
<1>3. ASSUME NEW p \in Processes, StepOf(p) PROVE FreshInv'
  <2>1. engine' = engine
    BY <1>3, StepsAlone DEF Alone
  <2>2. UNCHANGED view \/ AfterRead(p) \/ NewTransaction(p)
    BY <1>3 DEF StepOf, Start, CallUp, CallDown, CallRepair, CallBaseline, Call, StartDownTo,
       TakeLock, LockRefused, Runs, Unlock, RunUp, RunUpRefused, RunDown, RunDownRefused,
       AppliesInTransaction, TransactionRolledBack, BareStepBegins, BareStepDone, BareRowWritten,
       BareStepRaises, FailureRecorded, FailureRowLost, RunFinished, RecordsRead, RepairRows,
       RepairKeptInPart, RepairsOf, Baseline, WritesRolledBack, BareStepHalfway, UnlockRefused, Interrupted, Crash, Disconnect,
       NewConnection, BodyFails
  <2>3. view \in [Processes -> {None} \cup [Ids -> RowType]]
    BY DEF TypeOK
  <2>4. QED
    BY <2>1, <2>2, <2>3 DEF FreshInv, AfterRead, NewTransaction
<1>4. QED
  BY <1>1, <1>2, <1>3 DEF Next, StepOf

\* While one session works under the lock the others have nothing planned.
LEMMA OthersRest ==
  ASSUME BaseInv, engine.lock, NEW p \in Processes, pc[p] \in Locked, NEW q \in Processes, q # p
  PROVE  todo[q] = <<>> /\ pc[q] \in {"idle", "lock"} /\ ~InBareStep(q)
<1>1. ~(held[q] > 0)
  BY DEF BaseInv, LockInv
<1>2. pc[q] \notin Locked
  BY <1>1 DEF BaseInv, LockInv
<1>3. pc[q] \in {"idle", "lock"}
  BY <1>2 DEF BaseInv, TypeOK, Locked
<1>4. QED
  BY <1>3 DEF BaseInv, PhaseInv, InBareStep

\* Nothing left to do is a plan for any rows.
LEMMA NothingPlanned ==
  ASSUME NEW recs
  PROVE  UpPlan(<<>>, recs) /\ DOMAIN <<>> = {}
<1>1. <<>> \in Seq(WorkType) /\ DOMAIN <<>> = {}
  OBVIOUS
<1>2. QED
  BY <1>1 DEF UpPlan, DistinctIds

-----------------------------------------------------------------------------
(* Steps that leave no plan and touch no row *)

\* A step that touches no row and no object and leaves nothing planned.
Quiet(p) ==
  /\ UNCHANGED <<schema, rows>>
  /\ todo'[p] = <<>> /\ pc'[p] \notin {"step", "row", "failing"}
  /\ pc'[p] = "write" => known'[p] = rows
  /\ loose \subseteq loose'
  /\ InBareStep(p) => Work(p).id \in loose'

\* The actions that are such steps.
QuietStep(p) ==
  \/ Start(p) \/ StartDownTo(p) \/ TakeLock(p) \/ LockRefused(p) \/ Unlock(p)
  \/ UnlockRefused(p) \/ Disconnect(p) \/ Crash(p) \/ RunUpRefused(p) \/ RunDownRefused(p)
  \/ TransactionRolledBack(p) \/ FailureRowLost(p) \/ RunFinished(p) \/ WritesRolledBack(p)
  \/ Interrupted(p) \/ RecordsRead(p)

\* Every action that touches no row and leaves nothing planned is such a step.
LEMMA QuietSteps ==
  ASSUME BaseInv, FreshInv, NEW p \in Processes, QuietStep(p)
  PROVE  Quiet(p)
<1> USE DEF Quiet
<1>0. /\ pc \in [Processes -> Phases]
      /\ todo \in [Processes -> Seq(WorkType)]
      /\ known \in [Processes -> {None} \cup [Ids -> RowType]]
      /\ pc[p] \in {"idle", "lock", "read", "write", "unlock"} => todo[p] = <<>>
  BY DEF BaseInv, TypeOK, PhaseInv
<1>1. CASE RunUpRefused(p) \/ RunDownRefused(p) \/ TransactionRolledBack(p)
         \/ FailureRowLost(p) \/ RunFinished(p) \/ WritesRolledBack(p) \/ Interrupted(p)
  <2>1. BodyEnds(p) /\ UNCHANGED <<schema, rows>>
    BY <1>1 DEF RunUpRefused, RunDownRefused, TransactionRolledBack, FailureRowLost, RunFinished,
         WritesRolledBack, Interrupted, BodyFails, database
  <2>2. todo'[p] = <<>> /\ pc'[p] \in {"unlock", "idle"}
    BY <1>0, <2>1 DEF BodyEnds
  <2>3. loose \subseteq loose' /\ (InBareStep(p) => Work(p).id \in loose')
    BY <1>1 DEF RunUpRefused, RunDownRefused, TransactionRolledBack, FailureRowLost, RunFinished,
         WritesRolledBack, Interrupted, database, InBareStep, CutShort, Reading
  <2>4. QED
    BY <2>1, <2>2, <2>3
<1>2. CASE Start(p) \/ StartDownTo(p)
  <2>1. PICK verb, target : Begin(p, verb, target)
    BY <1>2 DEF Start, CallUp, CallDown, CallRepair, CallBaseline, Call, StartDownTo
  <2>2. QED
    BY <1>0, <2>1 DEF Begin, database, InBareStep
<1>3. CASE TakeLock(p) \/ LockRefused(p) \/ Unlock(p) \/ UnlockRefused(p) \/ Disconnect(p)
  BY <1>0, <1>3 DEF TakeLock, LockRefused, UnlockRefused, Unlock, Disconnect, plan, database, InBareStep
<1>4. CASE Crash(p)
  BY <1>0, <1>4 DEF Crash, CutShort
<1>5. CASE RecordsRead(p)
  <2>1. known'[p] = rows
    BY <1>0, <1>5, FreshRead DEF RecordsRead
  <2>2. QED
    BY <1>0, <1>5, <2>1 DEF RecordsRead, Reading, database, InBareStep
<1>6. QED
  BY <1>1, <1>2, <1>3, <1>4, <1>5 DEF QuietStep

\* Such a step keeps the invariant.
LEMMA QuietKeeps ==
  ASSUME BaseInv, DataInv, NEW p \in Processes, Alone(p), Quiet(p)
  PROVE  DataInv'
<1> USE DEF Quiet
<1>1. RowsInv'
  BY DEF DataInv, RowsInv, Alone, Transactional
<1>2. TodoInv'
  <2> SUFFICES ASSUME NEW q \in Processes, NEW i \in DOMAIN todo'[q] PROVE SoundWork(q, i)'
    BY DEF TodoInv
  <2>1. q # p
    BY NothingPlanned
  <2>2. QED
    BY <2>1 DEF DataInv, TodoInv, SoundWork, Alone, Transactional
<1>3. PlanInv'
  <2> SUFFICES ASSUME engine.lock, NEW q \in Processes PROVE PlanKept(q)'
    BY DEF PlanInv, Alone
  <2>1. CASE q = p
    BY <2>1, NothingPlanned DEF PlanKept, Above
  <2>2. CASE q # p
    BY <2>2 DEF DataInv, PlanInv, PlanKept, Alone, Above
  <2>3. QED
    BY <2>1, <2>2
<1>4. StepInv'
  <2> SUFFICES ASSUME engine.lock, NEW q \in Processes, InBareStep(q)', Work(q)'.id \notin loose'
               PROVE  StepKept(q)'
    BY DEF StepInv, StepKept, Alone
  <2>1. q # p
    BY DEF InBareStep
  <2>2. InBareStep(q) /\ Work(q)' = Work(q) /\ pc'[q] = pc[q]
    BY <2>1 DEF Alone, InBareStep, Work
  <2>3. QED
    BY <2>2 DEF DataInv, StepInv, StepKept
<1>5. RowsMatchSchema'
  <2>1. ASSUME NEW id \in Ids, Promised(id)' PROVE Promised(id)
    <3>1. id \notin loose
      BY <2>1 DEF Promised
    <3>2. ASSUME NEW q \in Processes, InBareStep(q), Work(q).id = id PROVE FALSE
      <4>1. q # p
        BY <2>1, <3>2 DEF Promised
      <4>2. InBareStep(q)' /\ Work(q)' = Work(q)
        BY <3>2, <4>1 DEF Alone, InBareStep, Work
      <4>3. QED
        BY <2>1, <3>2, <4>2 DEF Promised, InFlight
    <3>3. QED
      BY <2>1, <3>1, <3>2 DEF Promised, InFlight, Alone, Transactional
  <2>2. QED
    BY <2>1 DEF DataInv, RowsMatchSchema
<1>6. HistoryIsOrdered'
  BY DEF DataInv, HistoryIsOrdered, Alone
<1>7. QED
  BY <1>1, <1>2, <1>3, <1>4, <1>5, <1>6 DEF DataInv

-----------------------------------------------------------------------------
(* Steps that plan *)

\* A step that plans a run for the committed rows.
Planned(p) ==
  /\ UNCHANGED <<schema, rows, loose>> /\ pc[p] = "read" /\ pc'[p] = "run"
  /\ \/ UpPlan(todo'[p], rows) /\ seq'[p] > 0 /\ \A id \in Ids : rows[id].seq < seq'[p]
     \/ DownPlan(todo'[p], rows)

\* RunUp and RunDown plan for the committed rows.
LEMMA PlanningSteps ==
  ASSUME BaseInv, FreshInv, NEW p \in Processes, RunUp(p) \/ RunDown(p)
  PROVE  Planned(p)
<1>1. /\ rows \in [Ids -> RowType] /\ deploy[p] \in Deploys
      /\ pc \in [Processes -> Phases]
      /\ todo \in [Processes -> Seq(WorkType)] /\ seq \in [Processes -> Nat]
  BY DEF BaseInv, TypeOK
<1>2. UNCHANGED <<schema, rows, loose>> /\ pc[p] = "read" /\ pc'[p] = "run"
  BY <1>1 DEF RunUp, RunDown, database, Reading
<1>3. CASE RunUp(p)
  <2>1. PICK target \in Targets(deploy[p]) :
           /\ \A m \in Entries(VersionedNow(deploy[p], rows, target)) : ~Recorded(rows, m.id)
           /\ todo' = [todo EXCEPT ![p] = UpSteps(deploy[p], rows, target)]
           /\ seq' = [seq EXCEPT ![p] = NextSeq(rows)]
    BY <1>3, FreshRead DEF RunUp, Targets
  <2>2. UpPlan(UpSteps(deploy[p], rows, target), rows)
    BY <1>1, <2>1, UpStepsFacts
  <2>3. NextSeq(rows) > 0 /\ \A id \in Ids : rows[id].seq < NextSeq(rows)
    BY <1>1, NextSeqFacts
  <2>4. todo'[p] = UpSteps(deploy[p], rows, target) /\ seq'[p] = NextSeq(rows)
    BY <1>1, <2>1
  <2>5. QED
    BY <1>2, <2>2, <2>3, <2>4 DEF Planned
<1>4. CASE RunDown(p)
  <2>1. PICK count \in 1..2, forced \in BOOLEAN :
           /\ ~DownRefused(p, rows, count, forced)
           /\ todo' = [todo EXCEPT ![p] =
            [i \in DOMAIN Window(p, rows, count) |->
               DownStep(EntryOf(deploy[p], Window(p, rows, count)[i]), forced)]]
    BY <1>4, FreshRead DEF RunDown
  <2>2. PICK u : u = [i \in DOMAIN Window(p, rows, count) |->
               DownStep(EntryOf(deploy[p], Window(p, rows, count)[i]), forced)]
    OBVIOUS
  <2>3. DownPlan(u, rows)
    <3>1. run[p].verb \in {"down", "down_to"} /\ rows \in [Ids -> RowType] /\ deploy[p] \in Deploys
      BY <1>1, <1>4 DEF RunDown, Reading
    <3>2. DownPlan([i \in DOMAIN Window(p, rows, count) |->
                      DownStep(EntryOf(deploy[p], Window(p, rows, count)[i]), forced)], rows)
      BY <2>1, <3>1, DownStepsFacts
    <3>3. QED
      BY <2>2, <3>2
  <2>4. todo'[p] = u
    BY <1>1, <2>1, <2>2
  <2>5. QED
    BY <1>2, <2>3, <2>4 DEF Planned
<1>5. QED
  BY <1>3, <1>4

\* A step of p outside its own step in flight keeps what is promised of ids.
LEMMA StillPromised ==
  ASSUME NEW p \in Processes, Alone(p), NEW id \in Ids, Promised(id)', loose \subseteq loose',
         InBareStep(p) /\ Work(p).id = id => InBareStep(p)' /\ Work(p)' = Work(p)
  PROVE  Promised(id)
<1>1. id \notin loose /\ (engine.lock \/ Transactional(id))
  BY DEF Promised, Alone, Transactional
<1>2. ASSUME NEW q \in Processes, InBareStep(q), Work(q).id = id PROVE FALSE
  <2>1. CASE q = p
    BY <1>2, <2>1 DEF Promised, InFlight
  <2>2. CASE q # p
    <3>1. InBareStep(q)' /\ Work(q)' = Work(q)
      BY <1>2, <2>2 DEF Alone, InBareStep, Work
    <3>2. QED
      BY <1>2, <3>1 DEF Promised, InFlight
  <2>3. QED
    BY <2>1, <2>2
<1>3. QED
  BY <1>1, <1>2 DEF Promised, InFlight

\* The rows and the objects did not change.
LEMMA StillMatches ==
  ASSUME DataInv, NEW p \in Processes, Alone(p), UNCHANGED <<schema, rows, loose>>,
         InBareStep(p) => InBareStep(p)' /\ Work(p)' = Work(p)
  PROVE  RowsMatchSchema' /\ HistoryIsOrdered' /\ RowsInv'
<1>1. RowsMatchSchema'
  <2> SUFFICES ASSUME NEW id \in Ids, Promised(id)'
               PROVE  /\ ~Recorded(rows, id) => schema[id].state \in {"absent", "legacy"}
                      /\ Ok(rows, id) => \/ schema[id].state = "legacy"
                                         \/ /\ schema[id].state = "done"
                                            /\ id \in Repeatables => schema[id].edition = rows[id].edition
    BY DEF RowsMatchSchema
  <2>1. Promised(id)
    BY StillPromised
  <2>2. QED
    BY <2>1 DEF DataInv, RowsMatchSchema
<1>2. HistoryIsOrdered' /\ RowsInv'
  BY DEF DataInv, HistoryIsOrdered, RowsInv, Alone, Transactional
<1>3. QED
  BY <1>1, <1>2

\* A new plan keeps the invariant.
LEMMA PlannedKeeps ==
  ASSUME BaseInv, DataInv, NEW p \in Processes, Alone(p), Planned(p)
  PROVE  DataInv'
<1> USE DEF Planned
<1>1. RowsMatchSchema' /\ HistoryIsOrdered' /\ RowsInv'
  BY StillMatches DEF InBareStep
<1>2. TodoInv'
  <2> SUFFICES ASSUME NEW q \in Processes, NEW i \in DOMAIN todo'[q] PROVE SoundWork(q, i)'
    BY DEF TodoInv
  <2>1. CASE q = p
    BY <2>1 DEF SoundWork, UpPlan, DownPlan
  <2>2. CASE q # p
    BY <2>2 DEF DataInv, TodoInv, SoundWork, Alone, Transactional
  <2>3. QED
    BY <2>1, <2>2
<1>3. PlanInv'
  <2> SUFFICES ASSUME engine.lock, NEW q \in Processes PROVE PlanKept(q)'
    BY DEF PlanInv, Alone
  <2>1. CASE q = p
    <3>1. Above(p)'
      BY DEF Above, DownPlan
    <3>2. QED
      BY <2>1, <3>1 DEF PlanKept
  <2>2. CASE q # p
    BY <2>2 DEF DataInv, PlanInv, PlanKept, Alone, Above
  <2>3. QED
    BY <2>1, <2>2
<1>4. StepInv'
  <2> SUFFICES ASSUME engine.lock, NEW q \in Processes, InBareStep(q)', Work(q)'.id \notin loose'
               PROVE  StepKept(q)'
    BY DEF StepInv, StepKept, Alone
  <2>1. q # p
    BY DEF InBareStep
  <2>2. InBareStep(q) /\ Work(q)' = Work(q) /\ pc'[q] = pc[q]
    BY <2>1 DEF Alone, InBareStep, Work
  <2>3. QED
    BY <2>2 DEF DataInv, StepInv, StepKept
<1>5. QED
  BY <1>1, <1>2, <1>3, <1>4 DEF DataInv

-----------------------------------------------------------------------------
(* A step outside a transaction *)

\* A plan stays a plan while rows, numbers and what is to be done stay.
LEMMA PlansUnmoved ==
  ASSUME BaseInv, DataInv, NEW p \in Processes, Alone(p),
         UNCHANGED <<rows, todo, seq, known>>, pc'[p] # "write"
  PROVE  TodoInv' /\ PlanInv'
<1>1. TodoInv'
  BY DEF DataInv, TodoInv, SoundWork, Alone, Transactional
<1>2. PlanInv'
  <2> SUFFICES ASSUME engine.lock, NEW q \in Processes PROVE PlanKept(q)'
    BY DEF PlanInv, Alone
  <2>1. QED
    BY DEF DataInv, PlanInv, PlanKept, Alone, Above
<1>3. QED
  BY <1>1, <1>2

\* What the plan and the table say of a versioned step that is to run under
\* the lock.
LEMMA UpIsNew ==
  ASSUME BaseInv, DataInv, engine.lock, NEW p \in Processes, todo[p] # <<>>,
         Work(p).way = "up", Work(p).id \notin Repeatables
  PROVE  Work(p).id \in Ids /\ ~Recorded(rows, Work(p).id)
<1>1. Work(p) = todo[p][1] /\ 1 \in DOMAIN todo[p] /\ Work(p) \in WorkType
  BY WorkFacts DEF BaseInv, TypeOK
<1>2. UpPlan(todo[p], rows)
  BY <1>1 DEF DataInv, PlanInv, PlanKept, DownPlan
<1>3. QED
  BY <1>1, <1>2 DEF UpPlan, WorkType

\* A step outside a transaction begins, or raises.
LEMMA BareStepBeginsKeeps ==
  ASSUME BaseInv, DataInv, NEW p \in Processes, Alone(p),
         BareStepBegins(p) \/ BareStepRaises(p)
  PROVE  DataInv'
<1>0. pc \in [Processes -> Phases]
  BY DEF BaseInv, TypeOK
<1>1. /\ UNCHANGED <<schema, rows, loose, todo, seq, known>>
      /\ \/ pc[p] = "run" /\ pc'[p] = "step" /\ todo[p] # <<>>
         \/ pc[p] \in {"step", "row"} /\ pc'[p] = "failing"
  BY <1>0 DEF BareStepBegins, BareStepRaises, plan, database
<1>2. RowsMatchSchema' /\ HistoryIsOrdered' /\ RowsInv'
  BY <1>1, StillMatches DEF InBareStep, Work
<1>3. TodoInv' /\ PlanInv'
  BY <1>1, PlansUnmoved
<1>4. StepInv'
  <2> SUFFICES ASSUME engine.lock, NEW q \in Processes, InBareStep(q)', Work(q)'.id \notin loose'
               PROVE  StepKept(q)'
    BY DEF StepInv, StepKept, Alone
  <2>1. CASE q # p
    <3>1. InBareStep(q) /\ Work(q)' = Work(q) /\ pc'[q] = pc[q]
      BY <2>1 DEF Alone, InBareStep, Work
    <3>2. QED
      BY <1>1, <3>1 DEF DataInv, StepInv, StepKept
  <2>2. CASE q = p /\ pc'[p] = "failing"
    BY <2>2 DEF StepKept
  <2>3. CASE q = p /\ pc'[p] = "step"
    <3>1. pc[p] = "run" /\ todo[p] # <<>> /\ Work(p)' = Work(p)
      BY <1>1, <2>3 DEF Work
    <3>2. ASSUME Work(p).way = "up", Work(p).id \notin Repeatables
          PROVE  schema[Work(p).id].state \in {"absent", "legacy"}
      <4>1. Work(p).id \in Ids /\ ~Recorded(rows, Work(p).id)
        BY <3>1, <3>2, UpIsNew
      <4>2. ~InFlight(Work(p).id)
        <5> SUFFICES ASSUME NEW r \in Processes, InBareStep(r) PROVE FALSE
          BY DEF InFlight
        <5>1. r # p
          BY <3>1 DEF InBareStep
        <5>2. QED
          BY <3>1, <5>1, OthersRest DEF Locked
      <4>3. Work(p).id \notin loose
        BY <1>1, <2>3, <3>1
      <4>4. Promised(Work(p).id)
        BY <4>2, <4>3 DEF Promised
      <4>5. QED
        BY <4>1, <4>4 DEF DataInv, RowsMatchSchema
    <3>3. QED
      BY <1>1, <2>3, <3>1, <3>2 DEF StepKept
  <2>4. QED
    BY <1>1, <2>1, <2>2, <2>3
<1>5. QED
  BY <1>2, <1>3, <1>4 DEF DataInv

\* A step outside a transaction changes its objects.
LEMMA BareStepWorks ==
  ASSUME BaseInv, DataInv, NEW p \in Processes, Alone(p),
         BareStepHalfway(p) \/ BareStepDone(p)
  PROVE  DataInv'
<1>0. pc \in [Processes -> Phases]
      /\ schema \in [Ids -> ObjectType]
  BY DEF BaseInv, TypeOK
<1>1. PICK w \in WorkType : w = Work(p) /\ w = todo[p][1] /\ 1 \in DOMAIN todo[p] /\ w.id \in Ids
  <2>1. todo[p] # <<>>
    BY DEF BareStepHalfway, BareStepDone, BaseInv, PhaseInv, InBareStep
  <2>2. QED
    BY <2>1, WorkFacts DEF BaseInv, TypeOK, WorkType
<1>2. /\ UNCHANGED <<rows, loose, todo, seq, known>> /\ Work(p)' = w
      /\ pc[p] = "step" /\ ~MustRaise(schema[w.id], w)
      /\ pc'[p] \in {"step", "row"} /\ InBareStep(p) /\ InBareStep(p)'
  BY <1>0, <1>1 DEF BareStepHalfway, BareStepDone, plan, InBareStep, Work
<1>3. /\ \A id \in Ids \ {w.id} : schema'[id] = schema[id]
      /\ pc'[p] = "step" => schema'[w.id] = Object("partial", 0)
      /\ pc'[p] = "row" => schema'[w.id] = Effect(schema[w.id], w)
  BY <1>0, <1>1 DEF BareStepHalfway, BareStepDone
<1>4. TodoInv' /\ PlanInv'
  BY <1>2, PlansUnmoved
<1>5. HistoryIsOrdered' /\ RowsInv'
  BY <1>2 DEF DataInv, HistoryIsOrdered, RowsInv, Alone, Transactional
<1>6. RowsMatchSchema'
  <2> SUFFICES ASSUME NEW id \in Ids, Promised(id)'
               PROVE  /\ ~Recorded(rows, id) => schema'[id].state \in {"absent", "legacy"}
                      /\ Ok(rows, id) => \/ schema'[id].state = "legacy"
                                         \/ /\ schema'[id].state = "done"
                                            /\ id \in Repeatables => schema'[id].edition = rows[id].edition
    BY <1>2 DEF RowsMatchSchema
  <2>1. Promised(id)
    BY <1>1, <1>2, StillPromised
  <2>2. id # w.id
    BY <1>2 DEF Promised, InFlight
  <2>3. QED
    BY <1>3, <2>1, <2>2 DEF DataInv, RowsMatchSchema
<1>7. StepInv'
  <2> SUFFICES ASSUME engine.lock, NEW q \in Processes, InBareStep(q)', Work(q)'.id \notin loose'
               PROVE  StepKept(q)'
    BY DEF StepInv, StepKept, Alone
  <2>1. q = p
    <3> SUFFICES ASSUME q # p PROVE FALSE
      OBVIOUS
    <3>1. InBareStep(q)
      BY DEF Alone, InBareStep
    <3>2. QED
      BY <1>2, <3>1, OthersRest DEF Locked
  <2>2. CASE pc'[p] = "step"
    <3>1. schema'[w.id].state = "partial"
      BY <1>3, <2>2 DEF Object
    <3>2. QED
      BY <1>2, <2>1, <2>2, <3>1 DEF StepKept
  <2>3. CASE pc'[p] = "row"
    <3>1. schema'[w.id] = Effect(schema[w.id], w)
      BY <1>3, <2>3
    <3>2. w.way \in {"up", "down"}
      BY DEF WorkType
    <3>3. ASSUME w.way = "up", w.id \notin Repeatables
          PROVE  schema[w.id].state \in {"absent", "partial"}
      <4>1. schema[w.id].state \in {"absent", "legacy", "partial"}
        BY <1>1, <1>2, <2>1, <3>3 DEF DataInv, StepInv, StepKept
      <4>2. QED
        BY <1>2, <3>3, <4>1 DEF MustRaise
    <3>4. IF w.way = "up" THEN schema'[w.id] = Object("done", w.edition) ELSE schema'[w.id] = Absent
      BY <3>1, <3>2, <3>3 DEF Effect
    <3>5. QED
      BY <1>2, <2>1, <2>3, <3>4 DEF StepKept
  <2>4. QED
    BY <1>2, <2>2, <2>3
<1>8. QED
  BY <1>4, <1>5, <1>6, <1>7 DEF DataInv

-----------------------------------------------------------------------------
(* The operator *)

\* The operator puts right what no run can.
LEMMA CleanUpKeeps ==
  ASSUME BaseInv, DataInv, NEW x \in Ids, CleanUp(x)
  PROVE  DataInv'
<1>1. /\ UNCHANGED <<engine, rows, held, pc, run, deploy, ready, view, known, todo, seq>>
      /\ ~InFlight(x) /\ loose' = loose \ {x}
      /\ schema' = [schema EXCEPT ![x] = IF Ok(rows, x) THEN Object("done", rows[x].edition) ELSE Absent]
  BY DEF CleanUp
<1>2. schema \in [Ids -> ObjectType]
  BY DEF BaseInv, TypeOK
<1>3. RowsInv' /\ TodoInv' /\ HistoryIsOrdered'
  BY <1>1 DEF DataInv, RowsInv, TodoInv, HistoryIsOrdered, SoundWork, Transactional
<1>4. PlanInv'
  BY <1>1 DEF DataInv, PlanInv, PlanKept, Above
<1>5. StepInv'
  <2> SUFFICES ASSUME engine.lock, NEW q \in Processes, InBareStep(q)', Work(q)'.id \notin loose'
               PROVE  StepKept(q)'
    BY <1>1 DEF StepInv, StepKept
  <2>1. InBareStep(q) /\ Work(q)' = Work(q) /\ pc'[q] = pc[q]
    BY <1>1 DEF InBareStep, Work
  <2>2. Work(q).id # x
    BY <1>1, <2>1 DEF InFlight
  <2>3. Work(q).id \notin loose /\ schema'[Work(q).id] = schema[Work(q).id]
    BY <1>1, <1>2, <2>1, <2>2
  <2>4. QED
    BY <2>1, <2>3 DEF DataInv, StepInv, StepKept
<1>6. RowsMatchSchema'
  <2> SUFFICES ASSUME NEW id \in Ids, Promised(id)'
               PROVE  /\ ~Recorded(rows, id) => schema'[id].state \in {"absent", "legacy"}
                      /\ Ok(rows, id) => \/ schema'[id].state = "legacy"
                                         \/ /\ schema'[id].state = "done"
                                            /\ id \in Repeatables => schema'[id].edition = rows[id].edition
    BY <1>1 DEF RowsMatchSchema
  <2>1. CASE id = x
    <3>1. schema'[x] = IF Ok(rows, x) THEN Object("done", rows[x].edition) ELSE Absent
      BY <1>1, <1>2
    <3>2. Ok(rows, x) => Recorded(rows, x)
      BY DEF Ok, Recorded, NoRow
    <3>3. CASE Ok(rows, x)
      <4>1. schema'[x].state = "done" /\ schema'[x].edition = rows[x].edition
        BY <3>1, <3>3 DEF Object
      <4>2. QED
        BY <2>1, <3>2, <3>3, <4>1
    <3>4. CASE ~Ok(rows, x)
      <4>1. schema'[x].state = "absent"
        BY <3>1, <3>4 DEF Absent
      <4>2. QED
        BY <2>1, <3>4, <4>1
    <3>5. QED
      BY <3>3, <3>4
  <2>2. CASE id # x
    <3>1. InFlight(id)' = InFlight(id) /\ Transactional(id)' = Transactional(id)
      BY <1>1 DEF InFlight, InBareStep, Work, Transactional
    <3>2. Promised(id)
      BY <1>1, <2>2, <3>1 DEF Promised
    <3>3. QED
      BY <1>1, <1>2, <2>2, <3>2 DEF DataInv, RowsMatchSchema
  <2>3. QED
    BY <2>1, <2>2
<1>7. QED
  BY <1>3, <1>4, <1>5, <1>6 DEF DataInv

-----------------------------------------------------------------------------
(* A row is written *)

\* A tracking row.
Row(number, ok, edition) == [seq |-> number, ok |-> ok, edition |-> edition]

\* What the write of p's row did to the table.
Wrote(p, w, ok) ==
  /\ rows' \in [Ids -> RowType]
  /\ \A id \in Ids \ {w.id} : rows'[id] = rows[id]
  /\ \/ w.way = "down" /\ ok /\ rows'[w.id] = NoRow
     \/ w.way = "down" /\ ~ok /\ rows'[w.id] = Row(rows[w.id].seq, FALSE, rows[w.id].edition)
     \/ w.way = "up" /\ ~w.update /\ rows'[w.id] = Row(seq[p], ok, w.edition)
     \/ w.way = "up" /\ w.update /\ rows[w.id] = NoRow /\ rows'[w.id] = NoRow
     \/ /\ w.way = "up" /\ w.update /\ rows[w.id] # NoRow
        /\ rows'[w.id] = Row(rows[w.id].seq, ok, w.edition)

\* The writes of a step and of a failed one are such writes.
LEMMA RowsWritten ==
  ASSUME BaseInv, NEW p \in Processes, todo[p] # <<>>, NEW w, w = Work(p), NEW ok \in BOOLEAN,
         ok \/ w.way = "up" => rows' = RowsAfter(w, seq[p], ok),
         ~ok /\ w.way = "down" => rows' = [rows EXCEPT ![w.id].ok = FALSE]
  PROVE  Wrote(p, w, ok)
<1>1. w \in WorkType /\ w.id \in Ids /\ w.way \in {"up", "down"}
  BY WorkFacts DEF BaseInv, TypeOK, WorkType
<1>2. rows \in [Ids -> RowType] /\ seq[p] \in Nat
  BY DEF BaseInv, TypeOK
<1>3. CASE ok \/ w.way = "up"
  <2>0. PICK n \in Nat : n = seq[p]
    BY <1>2
  <2>1. PICK r : r = RowsAfter(w, n, ok) /\ rows' = r
    BY <1>3, <2>0
  <2>2. /\ r \in [Ids -> RowType]
        /\ \A id \in Ids \ {w.id} : r[id] = rows[id]
        /\ w.way = "down" => r[w.id] = NoRow
        /\ w.way = "up" /\ ~w.update => r[w.id] = Row(n, ok, w.edition)
        /\ w.way = "up" /\ w.update /\ rows[w.id] = NoRow => r[w.id] = NoRow
        /\ w.way = "up" /\ w.update /\ rows[w.id] # NoRow => r[w.id] = Row(rows[w.id].seq, ok, w.edition)
    BY <1>1, <1>2, <2>1, RowsAfterFacts DEF Row
  <2>3. QED
    BY <1>1, <1>3, <2>0, <2>1, <2>2 DEF Wrote
<1>4. CASE ~ok /\ w.way = "down"
  <2>1. PICK q \in RowType : q = rows[w.id]
    BY <1>1, <1>2
  <2>2. PICK x : x = [q EXCEPT !.ok = FALSE]
    OBVIOUS
  <2>3. x \in RowType /\ x.seq = q.seq /\ x.ok = FALSE /\ x.edition = q.edition
    BY <2>1, <2>2 DEF RowType
  <2>4. x = Row(q.seq, FALSE, q.edition)
    BY <2>3 DEF RowType, Row
  <2>5. rows' = [rows EXCEPT ![w.id] = x]
    BY <1>4, <2>1, <2>2
  <2>6. /\ rows' \in [Ids -> RowType] /\ rows'[w.id] = x
        /\ \A id \in Ids \ {w.id} : rows'[id] = rows[id]
    BY <1>1, <1>2, <2>3, <2>5
  <2>7. QED
    BY <1>4, <2>1, <2>4, <2>6 DEF Wrote
<1>5. QED
  BY <1>1, <1>3, <1>4

\* Such a write keeps the rows well-formed and the history ordered.
LEMMA WroteKeeps ==
  ASSUME BaseInv, DataInv, NEW p \in Processes, Alone(p), pc[p] \in Locked, todo[p] # <<>>,
         NEW w, w = Work(p), NEW ok \in BOOLEAN, Wrote(p, w, ok), ok \/ ~Transactional(w.id)
  PROVE  /\ RowsInv' /\ HistoryIsOrdered'
         /\ \A id \in Ids \cap Repeatables :
              Transactional(id) /\ Recorded(rows, id) => Recorded(rows', id)
<1>1. /\ w \in WorkType /\ w.id \in Ids /\ w.way \in {"up", "down"} /\ w = todo[p][1]
      /\ 1 \in DOMAIN todo[p]
  BY WorkFacts DEF BaseInv, TypeOK, WorkType
<1>2. /\ rows \in [Ids -> RowType] /\ rows' \in [Ids -> RowType]
      /\ \A id \in Ids : rows[id].seq \in Nat /\ rows'[id].seq \in Nat
  BY DEF BaseInv, TypeOK, Wrote, RowType
<1>3. SoundWork(p, 1)
  BY <1>1 DEF DataInv, TodoInv
<1>4. \A id \in Ids \ {w.id} : rows'[id] = rows[id]
  BY DEF Wrote
<1>5. \/ rows'[w.id] = NoRow
      \/ /\ w.way = "down" /\ ~ok
         /\ rows'[w.id] = Row(rows[w.id].seq, FALSE, rows[w.id].edition)
      \/ /\ w.way = "up" /\ ~w.update /\ seq[p] > 0
         /\ rows'[w.id] = Row(seq[p], ok, w.edition)
      \/ /\ w.way = "up" /\ w.update /\ Recorded(rows, w.id)
         /\ rows'[w.id] = Row(rows[w.id].seq, ok, w.edition)
  BY <1>1, <1>3 DEF Wrote, SoundWork, Recorded
<1>6. Recorded(rows', w.id) => rows'[w.id].seq > 0
  <2>1. CASE rows'[w.id] = NoRow
    BY <2>1 DEF Recorded
  <2>2. CASE w.way = "down" /\ ~ok /\ rows'[w.id] = Row(rows[w.id].seq, FALSE, rows[w.id].edition)
    <3>1. CASE rows[w.id] = NoRow
      BY <2>2, <3>1 DEF Recorded, NoRow, Row
    <3>2. CASE rows[w.id] # NoRow
      <4>1. rows[w.id].seq > 0
        BY <1>1, <3>2 DEF DataInv, RowsInv, Recorded
      <4>2. rows'[w.id].seq = rows[w.id].seq
        BY <2>2 DEF Row
      <4>3. QED
        BY <4>1, <4>2
    <3>3. QED
      BY <3>1, <3>2
  <2>3. CASE seq[p] > 0 /\ rows'[w.id] = Row(seq[p], ok, w.edition)
    <3>1. rows'[w.id].seq = seq[p]
      BY <2>3 DEF Row
    <3>2. QED
      BY <2>3, <3>1
  <2>4. CASE Recorded(rows, w.id) /\ rows'[w.id] = Row(rows[w.id].seq, ok, w.edition)
    <3>1. rows'[w.id].seq = rows[w.id].seq
      BY <2>4 DEF Row
    <3>2. rows[w.id].seq > 0
      BY <1>1, <2>4 DEF DataInv, RowsInv
    <3>3. QED
      BY <3>1, <3>2
  <2>5. QED
    BY <1>5, <2>1, <2>2, <2>3, <2>4
<1>7. ok => ~Failed(rows', w.id)
  <2>1. ok => rows'[w.id] = NoRow \/ rows'[w.id].ok = TRUE
    BY <1>5 DEF Row
  <2>2. QED
    BY <2>1 DEF Failed, Recorded
<1>8. RowsInv'
  <2> SUFFICES ASSUME NEW id \in Ids
               PROVE  /\ Recorded(rows', id) => rows'[id].seq > 0
                      /\ Transactional(id) => ~Failed(rows', id)
    BY DEF RowsInv, Alone, Transactional
  <2>1. CASE id = w.id
    BY <1>6, <1>7, <2>1
  <2>2. CASE id # w.id
    BY <1>4, <2>2 DEF DataInv, RowsInv, Recorded, Failed
  <2>3. QED
    BY <2>1, <2>2
<1>9. ASSUME NEW id \in Ids \cap Repeatables, Transactional(id), Recorded(rows, id)
      PROVE  Recorded(rows', id)
  <2>1. CASE id # w.id
    BY <1>4, <1>9, <2>1 DEF Recorded
  <2>2. CASE id = w.id
    <3>1. ok /\ w.way = "up"
      BY <1>1, <1>3, <1>9, <2>2 DEF SoundWork
    <3>2. rows'[w.id].ok = TRUE
      BY <1>9, <2>2, <3>1 DEF Wrote, Row, Recorded
    <3>3. QED
      BY <2>2, <3>2 DEF Recorded, NoRow
  <2>3. QED
    BY <2>1, <2>2
<1>10. HistoryIsOrdered'
  <2> SUFFICES ASSUME engine.lock, NEW a \in Ids, NEW b \in Ids, a # b,
                      Recorded(rows', a), Recorded(rows', b), rows'[a].seq = rows'[b].seq
               PROVE FALSE
    BY DEF HistoryIsOrdered, Alone
  <2>1. \A x, y \in Ids : Recorded(rows, x) /\ Recorded(rows, y) /\ rows[x].seq = rows[y].seq => x = y
    BY DEF DataInv, HistoryIsOrdered
  <2>2. PlanKept(p)
    BY DEF DataInv, PlanInv
  <2>3. ASSUME NEW x \in Ids \ {w.id}, Recorded(rows', x), Recorded(rows', w.id),
               rows'[x].seq = rows'[w.id].seq
        PROVE  FALSE
    <3>1. Recorded(rows, x) /\ rows'[x].seq = rows[x].seq
      BY <1>4, <2>3 DEF Recorded
    <3>2. CASE w.way = "up" /\ ~w.update /\ rows'[w.id] = Row(seq[p], ok, w.edition)
      <4>1. rows'[w.id].seq = seq[p]
        BY <3>2 DEF Row
      <4>2. rows[x].seq < seq[p]
        BY <1>1, <2>2, <3>2 DEF PlanKept, Above
      <4>3. seq[p] \in Nat /\ rows[x].seq \in Nat
        BY <1>2 DEF BaseInv, TypeOK
      <4>4. rows[x].seq = seq[p]
        BY <2>3, <3>1, <4>1
      <4>5. PICK n \in Nat : n = seq[p] /\ rows[x].seq = n
        BY <4>3, <4>4
      <4>6. QED
        BY <4>2, <4>5
    <3>3. CASE Recorded(rows, w.id) /\ rows'[w.id].seq = rows[w.id].seq
      BY <1>1, <2>1, <2>3, <3>1, <3>3
    <3>4. CASE w.way = "down" /\ rows'[w.id] = Row(rows[w.id].seq, FALSE, rows[w.id].edition)
      <4>1. rows'[w.id].seq = rows[w.id].seq
        BY <3>4 DEF Row
      <4>2. Recorded(rows, w.id)
        <5> SUFFICES ASSUME rows[w.id] = NoRow PROVE FALSE
          BY DEF Recorded
        <5>1. rows'[w.id] = NoRow
          BY <3>4 DEF NoRow, Row
        <5>2. QED
          BY <2>3, <5>1 DEF Recorded
      <4>3. QED
        BY <3>3, <4>1, <4>2
    <3>5. CASE rows'[w.id] = NoRow
      BY <2>3, <3>5 DEF Recorded
    <3>6. w.way = "up" /\ w.update /\ Recorded(rows, w.id)
            /\ rows'[w.id] = Row(rows[w.id].seq, ok, w.edition)
          => Recorded(rows, w.id) /\ rows'[w.id].seq = rows[w.id].seq
      BY DEF Row
    <3>7. QED
      BY <1>5, <3>2, <3>3, <3>4, <3>5, <3>6
  <2>4. CASE a # w.id /\ b # w.id
    BY <1>4, <2>1, <2>4 DEF Recorded
  <2>5. QED
    BY <2>3, <2>4
<1>11. QED
  BY <1>8, <1>9, <1>10

\* The rest of a plan is a plan for the table with the first row written.
LEMMA RestOfPlan ==
  ASSUME BaseInv, DataInv, engine.lock, NEW p \in Processes, todo[p] # <<>>,
         Wrote(p, Work(p), TRUE)
  PROVE  UpPlan(Tail(todo[p]), rows') \/ DownPlan(Tail(todo[p]), rows')
<1>1. PICK w \in WorkType : w = Work(p) /\ w = todo[p][1] /\ w.id \in Ids
  BY WorkFacts DEF BaseInv, TypeOK, WorkType
<1>0. PICK u, t : u = todo[p] /\ t = Tail(todo[p])
  OBVIOUS
<1>2. /\ u = todo[p] /\ t = Tail(todo[p]) /\ t \in Seq(WorkType) /\ 1 \in DOMAIN u
      /\ u \in Seq(WorkType)
      /\ \A i \in DOMAIN t : i \in Nat /\ i + 1 \in DOMAIN u /\ i > 0 /\ t[i] = u[i + 1]
  <2>1. todo \in [Processes -> Seq(WorkType)]
    BY DEF BaseInv, TypeOK
  <2>2. QED
    BY <1>0, <2>1, WorkFacts
<1>3. \A id \in Ids \ {w.id} : rows'[id] = rows[id]
  BY <1>1 DEF Wrote
<1>4. UpPlan(u, rows) \/ DownPlan(u, rows)
  BY <1>2 DEF DataInv, PlanInv, PlanKept
<1>5. DistinctIds(u) /\ DistinctIds(t)
  <2>1. DistinctIds(u)
    BY <1>4 DEF UpPlan, DownPlan
  <2>2. ASSUME NEW i \in DOMAIN t, NEW j \in DOMAIN t, t[i].id = t[j].id PROVE i = j
    <3>1. i + 1 = j + 1
      BY <1>2, <2>1, <2>2 DEF DistinctIds
    <3>2. QED
      BY <1>2, <3>1
  <2>3. QED
    BY <2>1, <2>2 DEF DistinctIds
<1>6. ASSUME NEW i \in DOMAIN t
      PROVE  /\ i + 1 \in DOMAIN u /\ t[i] = u[i + 1] /\ t[i].id \in Ids /\ t[i].id # w.id
             /\ rows'[t[i].id] = rows[t[i].id]
  <2>1. i + 1 \in DOMAIN u /\ t[i] = u[i + 1] /\ i + 1 # 1
    BY <1>2
  <2>2. t[i].id \in Ids
    <3>1. t[i] \in WorkType
      BY <1>2, ElementOfSeq, LenProperties
    <3>2. QED
      BY <3>1 DEF WorkType
  <2>3. t[i].id # w.id
    BY <1>1, <1>2, <1>5, <2>1 DEF DistinctIds
  <2>4. QED
    BY <1>3, <2>1, <2>2, <2>3
<1>7. CASE UpPlan(u, rows)
  <2>1. ASSUME NEW i \in DOMAIN t
        PROVE  /\ t[i].way = "up" /\ (t[i].update <=> Recorded(rows', t[i].id))
               /\ t[i].update => t[i].id \in Repeatables
    BY <1>6, <1>7 DEF UpPlan, Recorded
  <2>2. QED
    BY <1>2, <1>5, <2>1 DEF UpPlan
<1>8. CASE DownPlan(u, rows)
  <2>0. rows'[w.id] = NoRow
    <3>1. w.way = "down"
      BY <1>1, <1>2, <1>8 DEF DownPlan
    <3>2. QED
      BY <1>1, <3>1 DEF Wrote
  <2>1. ASSUME NEW i \in DOMAIN t
        PROVE  /\ t[i].way = "down" /\ ~t[i].update /\ t[i].id \notin Repeatables
               /\ Ok(rows', t[i].id)
               /\ ~t[i].forced => t[i].edition = rows'[t[i].id].edition
    BY <1>6, <1>8 DEF DownPlan, Ok
  <2>2. ASSUME NEW i \in DOMAIN t, NEW id \in Ids \ Repeatables, Ok(rows', id)
        PROVE  rows'[id].seq <= rows'[t[i].id].seq \/ \E j \in 1..(i - 1) : t[j].id = id
    <3>1. id # w.id
      BY <2>0, <2>2 DEF Ok, NoRow
    <3>2. rows'[id] = rows[id] /\ Ok(rows, id)
      BY <1>3, <2>2, <3>1 DEF Ok
    <3>3. rows[id].seq <= rows[u[i + 1].id].seq \/ \E j \in 1..((i + 1) - 1) : u[j].id = id
      BY <1>6, <1>8, <3>2 DEF DownPlan
    <3>4. CASE rows[id].seq <= rows[u[i + 1].id].seq
      BY <1>6, <3>2, <3>4
    <3>5. ASSUME NEW j \in 1..((i + 1) - 1), u[j].id = id
          PROVE  \E k \in 1..(i - 1) : t[k].id = id
      <4>1. i \in Nat
        BY <1>2
      <4>2. j # 1
        BY <1>1, <1>2, <3>1, <3>5
      <4>3. j - 1 \in 1..(i - 1) /\ (j - 1) + 1 = j
        BY <4>1, <4>2
      <4>4. j - 1 \in DOMAIN t
        <5>1. Len(t) \in Nat /\ DOMAIN t = 1..Len(t)
          BY <1>2, LenProperties
        <5>2. QED
          BY <4>1, <4>3, <5>1
      <4>5. t[j - 1] = u[j]
        BY <1>2, <4>3, <4>4
      <4>6. QED
        BY <3>5, <4>3, <4>5
    <3>6. QED
      BY <3>3, <3>4, <3>5
  <2>3. QED
    BY <1>2, <1>5, <2>1, <2>2 DEF DownPlan
<1>9. QED
  BY <1>2, <1>4, <1>7, <1>8

\* A step done with its row on record.
AppliedStep(p) == AppliesInTransaction(p) \/ BareRowWritten(p)

\* A step done and on record keeps the invariant.
LEMMA AppliedKeeps ==
  ASSUME BaseInv, DataInv, NEW p \in Processes, Alone(p), AppliedStep(p)
  PROVE  DataInv'
<1>0. /\ pc \in [Processes -> Phases]
      /\ todo \in [Processes -> Seq(WorkType)] /\ seq \in [Processes -> Nat]
      /\ schema \in [Ids -> ObjectType]
  BY DEF BaseInv, TypeOK
<1>1. todo[p] # <<>> /\ pc[p] \in {"run", "row"}
  BY DEF AppliedStep, AppliesInTransaction, BareRowWritten, BaseInv, PhaseInv, InBareStep
<1>2. PICK w \in WorkType : /\ w = Work(p) /\ w = todo[p][1] /\ w.id \in Ids /\ 1 \in DOMAIN todo[p]
                            /\ w.way \in {"up", "down"}
  BY <1>1, WorkFacts DEF BaseInv, TypeOK, WorkType
<1>3. /\ rows' = RowsAfter(w, seq[p], TRUE) /\ NextStep(p) /\ SeqAfter(p, w)
      /\ UNCHANGED loose /\ pc'[p] = "run" /\ ~Conflict(w)
  BY <1>0, <1>2 DEF AppliedStep, AppliesInTransaction, BareRowWritten
<1>4. todo'[p] = Tail(todo[p])
  BY <1>0, <1>3 DEF NextStep
<1>5. seq'[p] = IF w.way = "up" /\ ~w.update THEN seq[p] + 1 ELSE seq[p]
  BY <1>0, <1>3 DEF SeqAfter
<1>6. PICK ok \in BOOLEAN : ok = TRUE
  OBVIOUS
<1>7. Wrote(p, w, ok)
  BY <1>1, <1>2, <1>3, <1>6, RowsWritten
<1>8. /\ RowsInv' /\ HistoryIsOrdered'
      /\ \A id \in Ids \cap Repeatables :
           Transactional(id) /\ Recorded(rows, id) => Recorded(rows', id)
  BY <1>1, <1>2, <1>6, <1>7, WroteKeeps DEF Locked
<1>9. \A id \in Ids \ {w.id} : rows'[id] = rows[id]
  BY <1>7 DEF Wrote
<1>10. seq[p] \in Nat /\ seq'[p] \in Nat /\ seq'[p] >= seq[p]
  BY <1>0, <1>5
<1>11. ASSUME NEW q \in Processes, NEW i \in DOMAIN todo[q], SoundWork(q, i)
       PROVE  todo[q][i].update /\ Transactional(todo[q][i].id) => Recorded(rows', todo[q][i].id)
  <2>1. todo[q][i] \in WorkType
    BY <1>0, ElementOfSeq, LenProperties
  <2>2. QED
    BY <1>8, <1>11, <2>1 DEF SoundWork, WorkType
<1>12. TodoInv'
  <2> SUFFICES ASSUME NEW q \in Processes, NEW i \in DOMAIN todo'[q] PROVE SoundWork(q, i)'
    BY DEF TodoInv
  <2>1. CASE q # p
    <3>1. todo'[q] = todo[q] /\ seq'[q] = seq[q] /\ i \in DOMAIN todo[q]
      BY <2>1 DEF Alone
    <3>2. SoundWork(q, i)
      BY <3>1 DEF DataInv, TodoInv
    <3>3. QED
      BY <1>11, <3>1, <3>2 DEF SoundWork, Transactional, Alone
  <2>2. CASE q = p
    <3>1. i + 1 \in DOMAIN todo[p] /\ todo'[p][i] = todo[p][i + 1]
      BY <1>0, <1>1, <1>4, <2>2, WorkFacts
    <3>2. PICK j \in DOMAIN todo[p] : todo'[p][i] = todo[p][j]
      BY <3>1
    <3>3. SoundWork(p, j)
      BY DEF DataInv, TodoInv
    <3>4. seq[p] > 0 => seq'[p] > 0
      BY <1>10
    <3>5. QED
      BY <1>11, <2>2, <3>2, <3>3, <3>4 DEF SoundWork, Transactional, Alone
  <2>3. QED
    BY <2>1, <2>2
<1>13. PlanInv'
  <2> SUFFICES ASSUME engine.lock, NEW q \in Processes PROVE PlanKept(q)'
    BY DEF PlanInv, Alone
  <2>1. CASE q # p
    <3>1. todo'[q] = <<>> /\ pc'[q] # "write"
      BY <1>1, <2>1, OthersRest DEF Alone, Locked
    <3>2. QED
      BY <3>1, NothingPlanned DEF PlanKept, Above
  <2>2. CASE q = p
    <3>1. UpPlan(todo'[p], rows') \/ DownPlan(todo'[p], rows')
      BY <1>1, <1>2, <1>4, <1>6, <1>7, RestOfPlan
    <3>2. Above(p)'
      <4> SUFFICES ASSUME NEW i \in DOMAIN todo'[p], todo'[p][i].way = "up", NEW id \in Ids
                   PROVE  rows'[id].seq < seq'[p]
        BY DEF Above
      <4>1. PICK j \in DOMAIN todo[p] : todo'[p][i] = todo[p][j]
        BY <1>0, <1>1, <1>4, WorkFacts
      <4>2. \A x \in Ids : rows[x].seq < seq[p] /\ rows[x].seq \in Nat
        BY <4>1 DEF DataInv, PlanInv, PlanKept, Above, BaseInv, TypeOK, RowType
      <4>3. UpPlan(todo[p], rows)
        BY <4>1 DEF DataInv, PlanInv, PlanKept, DownPlan
      <4>4. CASE id # w.id
        BY <1>9, <1>10, <4>2, <4>4
      <4>5. CASE id = w.id
        <5>1. w.way = "up"
          BY <1>2, <4>3 DEF UpPlan
        <5>2. CASE ~w.update
          <6>1. rows'[id].seq = seq[p]
            BY <1>7, <4>5, <5>1, <5>2 DEF Wrote, Row
          <6>2. seq'[p] = seq[p] + 1
            BY <1>5, <5>1, <5>2
          <6>3. QED
            BY <1>10, <6>1, <6>2
        <5>3. CASE w.update
          <6>1. rows'[id].seq = rows[id].seq
            BY <1>7, <4>5, <5>1, <5>3 DEF Wrote, Row, NoRow
          <6>2. QED
            BY <1>10, <4>2, <6>1
        <5>4. QED
          BY <5>2, <5>3
      <4>6. QED
        BY <4>4, <4>5
    <3>3. QED
      BY <1>3, <2>2, <3>1, <3>2 DEF PlanKept
  <2>3. QED
    BY <2>1, <2>2
<1>14. StepInv'
  <2> SUFFICES ASSUME engine.lock, NEW q \in Processes, InBareStep(q)' PROVE FALSE
    BY DEF StepInv, StepKept, Alone
  <2>1. q # p
    BY <1>3 DEF InBareStep
  <2>2. InBareStep(q)
    BY <2>1 DEF Alone, InBareStep
  <2>3. QED
    BY <1>1, <2>1, <2>2, OthersRest DEF Locked
<1>15. RowsMatchSchema'
  <2> DEFINE Matches(x) ==
                /\ ~Recorded(rows', x) => schema'[x].state \in {"absent", "legacy"}
                /\ Ok(rows', x) => \/ schema'[x].state = "legacy"
                                   \/ /\ schema'[x].state = "done"
                                      /\ x \in Repeatables => schema'[x].edition = rows'[x].edition
             Fits == \/ w.way = "down" /\ schema'[w.id] = Absent
                     \/ /\ w.way = "up" /\ schema'[w.id] = Object("done", w.edition)
                        /\ w.update => Recorded(rows, w.id)
  <2> SUFFICES ASSUME NEW id \in Ids, Promised(id)' PROVE Matches(id)
    BY DEF RowsMatchSchema
  <2>0. id \notin loose /\ (engine.lock \/ Transactional(id))
    BY <1>3 DEF Promised, Alone, Transactional
  <2>1. CASE id # w.id
    <3>1. Promised(id)
      BY <1>2, <1>3, <2>1, StillPromised
    <3>2. schema'[id] = schema[id]
      BY <1>0, <1>2, <2>1 DEF AppliedStep, AppliesInTransaction, BareRowWritten
    <3>3. QED
      BY <1>9, <2>1, <3>1, <3>2 DEF DataInv, RowsMatchSchema, Recorded, Ok
  <2>2. ASSUME Fits PROVE Matches(w.id)
    <3>1. CASE w.way = "down" /\ schema'[w.id] = Absent
      <4>1. rows'[w.id] = NoRow
        BY <1>6, <1>7, <3>1 DEF Wrote
      <4>2. QED
        BY <3>1, <4>1 DEF Ok, NoRow, Absent
    <3>2. CASE w.way = "up" /\ schema'[w.id] = Object("done", w.edition) /\ (w.update => Recorded(rows, w.id))
      <4>1. rows'[w.id].ok = TRUE /\ rows'[w.id].edition = w.edition
        BY <1>6, <1>7, <3>2 DEF Wrote, Row, Recorded
      <4>2. Recorded(rows', w.id)
        BY <4>1 DEF Recorded, NoRow
      <4>3. schema'[w.id].state = "done" /\ schema'[w.id].edition = w.edition
        BY <3>2 DEF Object
      <4>4. QED
        BY <4>1, <4>2, <4>3
    <3>3. QED
      BY <2>2, <3>1, <3>2
  <2>3. SoundWork(p, 1) /\ w = todo[p][1]
    BY <1>2 DEF DataInv, TodoInv
  <2>4. ASSUME id = w.id, AppliesInTransaction(p) PROVE Fits
    <3>1. /\ Transactional(w.id) /\ pc[p] = "run" /\ ~MustRaise(schema[w.id], w)
          /\ schema'[w.id] = Effect(schema[w.id], w)
      BY <1>0, <1>2, <2>4 DEF AppliesInTransaction
    <3>2. Promised(id)
      BY <1>3, <3>1, StillPromised DEF InBareStep
    <3>3. CASE w.way = "down"
      BY <3>1, <3>3 DEF Effect
    <3>4. CASE w.way = "up"
      <4>1. w.update => Recorded(rows, w.id)
        BY <2>3, <3>1 DEF SoundWork
      <4>2. CASE w.id \in Repeatables
        BY <3>1, <3>4, <4>1, <4>2 DEF Effect
      <4>3. CASE w.id \notin Repeatables
        <5>1. ~w.update
          BY <2>3, <4>3 DEF SoundWork
        <5>2. ~Recorded(rows, w.id)
          BY <1>3, <3>4, <5>1 DEF Conflict
        <5>3. schema[w.id].state \in {"absent", "legacy"}
          BY <2>4, <3>2, <5>2 DEF DataInv, RowsMatchSchema
        <5>4. schema[w.id].state = "absent"
          BY <3>1, <3>4, <4>3, <5>3 DEF MustRaise
        <5>5. QED
          BY <3>1, <3>4, <4>1, <5>4 DEF Effect
      <4>4. QED
        BY <4>2, <4>3
    <3>5. QED
      BY <1>2, <3>3, <3>4
  <2>5. ASSUME id = w.id, BareRowWritten(p) PROVE Fits
    <3>1. pc[p] = "row" /\ UNCHANGED schema
      BY <1>2, <2>5 DEF BareRowWritten
    <3>2. ~Transactional(w.id) /\ InBareStep(p)
      BY <1>2, <3>1 DEF BaseInv, PhaseInv, InBareStep
    <3>3. engine.lock
      BY <2>0, <2>5, <3>2
    <3>4. IF w.way = "up" THEN schema[w.id] = Object("done", w.edition) ELSE schema[w.id] = Absent
      BY <1>2, <2>0, <2>5, <3>1, <3>2, <3>3 DEF DataInv, StepInv, StepKept
    <3>5. w.update => Recorded(rows, w.id)
      BY <1>2, <3>3 DEF DataInv, PlanInv, PlanKept, UpPlan, DownPlan
    <3>6. QED
      BY <1>2, <3>1, <3>4, <3>5
  <2>6. QED
    BY <2>1, <2>2, <2>4, <2>5 DEF AppliedStep
<1>16. QED
  BY <1>8, <1>12, <1>13, <1>14, <1>15 DEF DataInv

-----------------------------------------------------------------------------
(* Runs that end with rows written *)

\* A run ends with rows written: what its end leaves of the plans.
LEMMA EndsWritten ==
  ASSUME BaseInv, DataInv, NEW p \in Processes, Alone(p), pc[p] \in Locked,
         todo'[p] = <<>>, pc'[p] \in {"unlock", "idle"},
         UNCHANGED schema, loose \subseteq loose',
         \A id \in Ids \cap Repeatables :
           Transactional(id) /\ Recorded(rows, id) => Recorded(rows', id)
  PROVE  TodoInv' /\ PlanInv' /\ StepInv'
<1>1. TodoInv'
  <2> SUFFICES ASSUME NEW q \in Processes, NEW i \in DOMAIN todo'[q] PROVE SoundWork(q, i)'
    BY DEF TodoInv
  <2>1. q # p
    BY NothingPlanned
  <2>2. todo'[q] = todo[q] /\ seq'[q] = seq[q] /\ i \in DOMAIN todo[q]
    BY <2>1 DEF Alone
  <2>3. todo[q][i].id \in Ids
    <3>1. todo[q][i] \in WorkType
      BY <2>2, ElementOfSeq, LenProperties DEF BaseInv, TypeOK
    <3>2. QED
      BY <3>1 DEF WorkType
  <2>4. SoundWork(q, i)
    BY <2>2 DEF DataInv, TodoInv
  <2>5. QED
    BY <2>2, <2>3, <2>4 DEF SoundWork, Transactional, Alone
<1>2. PlanInv'
  <2> SUFFICES ASSUME engine.lock, NEW q \in Processes PROVE PlanKept(q)'
    BY DEF PlanInv, Alone
  <2>1. todo'[q] = <<>> /\ pc'[q] # "write"
    <3>1. CASE q = p
      BY <3>1
    <3>2. CASE q # p
      BY <3>2, OthersRest DEF Alone
    <3>3. QED
      BY <3>1, <3>2
  <2>2. QED
    BY <2>1, NothingPlanned DEF PlanKept, Above
<1>3. StepInv'
  <2> SUFFICES ASSUME engine.lock, NEW q \in Processes, InBareStep(q)' PROVE FALSE
    BY DEF StepInv, StepKept, Alone
  <2>1. q # p
    BY DEF InBareStep
  <2>2. InBareStep(q)
    BY <2>1 DEF Alone, InBareStep
  <2>3. QED
    BY <2>1, <2>2, OthersRest
<1>4. QED
  BY <1>1, <1>2, <1>3

\* A failed attempt on record keeps the invariant.
LEMMA FailureRecordedKeeps ==
  ASSUME BaseInv, DataInv, NEW p \in Processes, Alone(p), FailureRecorded(p)
  PROVE  DataInv'
<1>0. /\ pc \in [Processes -> Phases]
      /\ todo \in [Processes -> Seq(WorkType)]
  BY DEF BaseInv, TypeOK
<1>1. pc[p] = "failing" /\ InBareStep(p) /\ todo[p] # <<>> /\ ~Transactional(Work(p).id)
  BY DEF FailureRecorded, BaseInv, PhaseInv, InBareStep
<1>2. PICK w \in WorkType : /\ w = Work(p) /\ w = todo[p][1] /\ w.id \in Ids /\ 1 \in DOMAIN todo[p]
                            /\ w.way \in {"up", "down"}
  BY <1>1, WorkFacts DEF BaseInv, TypeOK, WorkType
<1>3. /\ rows' = IF w.way = "up" THEN RowsAfter(w, seq[p], FALSE) ELSE [rows EXCEPT ![w.id].ok = FALSE]
      /\ UNCHANGED <<schema, loose>> /\ BodyEnds(p)
  BY <1>2 DEF FailureRecorded, BodyFails
<1>4. todo'[p] = <<>> /\ pc'[p] \in {"unlock", "idle"}
  BY <1>0, <1>3 DEF BodyEnds
<1>5. PICK ok \in BOOLEAN : ok = FALSE
  OBVIOUS
<1>6. Wrote(p, w, ok)
  <2>1. /\ ok \/ w.way = "up" => rows' = RowsAfter(w, seq[p], ok)
        /\ ~ok /\ w.way = "down" => rows' = [rows EXCEPT ![w.id].ok = FALSE]
    BY <1>3, <1>5
  <2>2. QED
    BY <1>1, <1>2, <2>1, RowsWritten
<1>7. /\ RowsInv' /\ HistoryIsOrdered'
      /\ \A id \in Ids \cap Repeatables :
           Transactional(id) /\ Recorded(rows, id) => Recorded(rows', id)
  BY <1>1, <1>2, <1>6, WroteKeeps DEF Locked
<1>8. TodoInv' /\ PlanInv' /\ StepInv'
  BY <1>1, <1>3, <1>4, <1>7, EndsWritten DEF Locked
<1>9. RowsMatchSchema'
  <2> DEFINE Matches(x) ==
                /\ ~Recorded(rows', x) => schema[x].state \in {"absent", "legacy"}
                /\ Ok(rows', x) => \/ schema[x].state = "legacy"
                                   \/ /\ schema[x].state = "done"
                                      /\ x \in Repeatables => schema[x].edition = rows'[x].edition
  <2> SUFFICES ASSUME NEW id \in Ids, Promised(id)' PROVE Matches(id)
    BY <1>3 DEF RowsMatchSchema
  <2>1. CASE id # w.id
    <3>1. Promised(id)
      BY <1>2, <1>3, <2>1, StillPromised
    <3>2. rows'[id] = rows[id]
      BY <1>6, <2>1 DEF Wrote
    <3>3. QED
      BY <3>1, <3>2 DEF DataInv, RowsMatchSchema, Recorded, Ok
  <2>2. CASE id = w.id
    <3>1. engine.lock
      BY <1>1, <1>2, <2>2 DEF Promised, Alone, Transactional
    <3>2. PlanKept(p) /\ SoundWork(p, 1)
      BY <1>2, <3>1 DEF DataInv, PlanInv, TodoInv
    <3>3. CASE w.way = "up" /\ ~w.update
      <4>1. rows'[w.id] = Row(seq[p], FALSE, w.edition) /\ seq[p] > 0
        BY <1>2, <1>5, <1>6, <3>2, <3>3 DEF Wrote, SoundWork
      <4>2. rows'[w.id].seq > 0 /\ rows'[w.id].ok = FALSE
        BY <4>1 DEF Row
      <4>3. Recorded(rows', w.id) /\ ~Ok(rows', w.id)
        BY <4>2 DEF Recorded, NoRow, Ok
      <4>4. QED
        BY <2>2, <4>3
    <3>4. CASE ~(w.way = "up" /\ ~w.update)
      <4>1. Recorded(rows, w.id)
        <5>1. CASE w.way = "up"
          BY <1>2, <3>2, <3>4, <5>1 DEF PlanKept, UpPlan, DownPlan
        <5>2. CASE w.way = "down"
          <6>1. Ok(rows, w.id)
            BY <1>2, <3>2, <5>2 DEF PlanKept, UpPlan, DownPlan
          <6>2. QED
            BY <6>1 DEF Ok, Recorded, NoRow
        <5>3. QED
          BY <1>2, <5>1, <5>2
      <4>2. \E e : rows'[w.id] = Row(rows[w.id].seq, FALSE, e)
        BY <1>2, <1>5, <1>6, <3>4, <4>1 DEF Wrote, Recorded
      <4>3. rows'[w.id].seq > 0 /\ rows'[w.id].ok = FALSE
        BY <1>2, <4>1, <4>2 DEF Row, DataInv, RowsInv
      <4>4. Recorded(rows', w.id) /\ ~Ok(rows', w.id)
        BY <4>3 DEF Recorded, NoRow, Ok
      <4>5. QED
        BY <2>2, <4>4
    <3>5. QED
      BY <3>3, <3>4
  <2>3. QED
    BY <2>1, <2>2
<1>10. QED
  BY <1>7, <1>8, <1>9 DEF DataInv

\* repair() keeps the invariant.
LEMMA RepairKeeps ==
  ASSUME BaseInv, DataInv, NEW p \in Processes, Alone(p), RepairStep(p)
  PROVE  DataInv'
<1>0. /\ pc \in [Processes -> Phases]
      /\ todo \in [Processes -> Seq(WorkType)] /\ rows \in [Ids -> RowType]
  BY DEF BaseInv, TypeOK
<1>1. PICK d \in Deploys, recs \in [Ids -> RowType], ids \in SUBSET Ids :
         /\ rows' = [id \in Ids |-> IF id \in ids THEN Repaired(d, recs, id) ELSE rows[id]]
         /\ loose' = loose \cup {id \in Ids : /\ Recorded(rows, id) /\ ~Recorded(rows', id)
                                              /\ schema[id].state \notin {"absent", "legacy"}}
  <2>1. deploy[p] \in Deploys /\ known[p] \in [Ids -> RowType]
    BY DEF BaseInv, TypeOK, PhaseInv, RepairStep, RepairRows, RepairKeptInPart
  <2>2. PICK ids \in SUBSET Ids : RepairsOf(p, ids)
    BY DEF RepairStep, RepairRows, RepairKeptInPart
  <2>3. QED
    BY <2>1, <2>2 DEF RepairsOf
<1>2. UNCHANGED schema /\ BodyEnds(p) /\ pc[p] = "write"
  BY DEF RepairStep, RepairRows, RepairKeptInPart, RepairsOf
<1>3. todo'[p] = <<>> /\ pc'[p] \in {"unlock", "idle"}
  BY <1>0, <1>2 DEF BodyEnds
<1>4. ASSUME NEW id \in Ids
      PROVE  \/ rows'[id] = rows[id]
             \/ Failed(rows, id) /\ rows'[id] = NoRow
             \/ /\ id \notin Repeatables /\ Recorded(rows, id) /\ Recorded(rows', id)
                /\ rows'[id].seq = rows[id].seq /\ rows'[id].ok = rows[id].ok
  <2>1. \/ rows'[id] = rows[id]
        \/ Failed(rows, id) /\ rows'[id] = NoRow
        \/ /\ id \notin Repeatables /\ Recorded(rows, id)
           /\ rows'[id].seq = rows[id].seq /\ rows'[id].ok = rows[id].ok
    BY <1>0, <1>1, RepairedFacts
  <2>2. Recorded(rows, id) => rows[id].seq > 0
    BY DEF DataInv, RowsInv
  <2>3. rows'[id].seq > 0 => Recorded(rows', id)
    BY DEF Recorded, NoRow
  <2>4. QED
    BY <2>1, <2>2, <2>3
<1>5. RowsInv'
  <2> SUFFICES ASSUME NEW id \in Ids
               PROVE  /\ Recorded(rows', id) => rows'[id].seq > 0
                      /\ Transactional(id) => ~Failed(rows', id)
    BY DEF RowsInv, Alone, Transactional
  <2>1. /\ Recorded(rows, id) => rows[id].seq > 0
        /\ Transactional(id) => ~Failed(rows, id)
    BY DEF DataInv, RowsInv
  <2>2. QED
    BY <1>4, <2>1 DEF Recorded, Failed
<1>6. HistoryIsOrdered'
  <2> SUFFICES ASSUME engine.lock, NEW a \in Ids, NEW b \in Ids,
                      Recorded(rows', a), Recorded(rows', b), rows'[a].seq = rows'[b].seq
               PROVE a = b
    BY DEF HistoryIsOrdered, Alone
  <2>1. /\ Recorded(rows, a) /\ rows'[a].seq = rows[a].seq
        /\ Recorded(rows, b) /\ rows'[b].seq = rows[b].seq
    BY <1>4 DEF Recorded
  <2>2. QED
    BY <2>1 DEF DataInv, HistoryIsOrdered
<1>7. ASSUME NEW id \in Ids \cap Repeatables, Transactional(id), Recorded(rows, id)
      PROVE  Recorded(rows', id)
  <2>1. ~Failed(rows, id)
    BY <1>7 DEF DataInv, RowsInv
  <2>2. QED
    BY <1>4, <1>7, <2>1 DEF Recorded
<1>8. TodoInv' /\ PlanInv' /\ StepInv'
  BY <1>1, <1>2, <1>3, <1>7, EndsWritten DEF Locked
<1>9. RowsMatchSchema'
  <2> SUFFICES ASSUME NEW id \in Ids, Promised(id)'
               PROVE  /\ ~Recorded(rows', id) => schema[id].state \in {"absent", "legacy"}
                      /\ Ok(rows', id) => \/ schema[id].state = "legacy"
                                          \/ /\ schema[id].state = "done"
                                             /\ id \in Repeatables => schema[id].edition = rows'[id].edition
    BY <1>2 DEF RowsMatchSchema
  <2>1. Promised(id) /\ id \notin loose'
    BY <1>1, <1>2, StillPromised DEF InBareStep, Promised
  <2>2. /\ ~Recorded(rows, id) => schema[id].state \in {"absent", "legacy"}
        /\ Ok(rows, id) => \/ schema[id].state = "legacy"
                           \/ /\ schema[id].state = "done"
                              /\ id \in Repeatables => schema[id].edition = rows[id].edition
    BY <2>1 DEF DataInv, RowsMatchSchema
  <2>3. CASE rows'[id] = rows[id]
    BY <2>2, <2>3 DEF Recorded, Ok
  <2>4. CASE Failed(rows, id) /\ rows'[id] = NoRow
    <3>1. Recorded(rows, id) /\ ~Recorded(rows', id) /\ ~Ok(rows', id)
      BY <2>4 DEF Failed, Recorded, Ok, NoRow
    <3>2. schema[id].state \in {"absent", "legacy"}
      BY <1>1, <2>1, <3>1
    <3>3. QED
      BY <3>1, <3>2
  <2>5. CASE /\ id \notin Repeatables /\ Recorded(rows, id) /\ Recorded(rows', id)
             /\ rows'[id].seq = rows[id].seq /\ rows'[id].ok = rows[id].ok
    BY <2>2, <2>5 DEF Ok
  <2>6. QED
    BY <1>4, <2>3, <2>4, <2>5
<1>10. QED
  BY <1>5, <1>6, <1>8, <1>9 DEF DataInv

\* baseline() keeps the invariant.
LEMMA BaselineKeeps ==
  ASSUME BaseInv, DataInv, NEW p \in Processes, Alone(p), Baseline(p)
  PROVE  DataInv'
<1>0. /\ pc \in [Processes -> Phases]
      /\ todo \in [Processes -> Seq(WorkType)] /\ rows \in [Ids -> RowType]
  BY DEF BaseInv, TypeOK
<1>1. PICK ms, n : Baselined(p, ms, n)
  BY BaselineFacts DEF BaseInv
<1>2. UNCHANGED schema /\ BodyEnds(p) /\ pc[p] = "write"
  BY DEF Baseline
<1>3. todo'[p] = <<>> /\ pc'[p] \in {"unlock", "idle"}
  BY <1>0, <1>2 DEF BodyEnds
<1>4. \A i \in DOMAIN ms : i \in Nat /\ i > 0
  BY <1>1, LenProperties DEF Baselined
<1>5. n \in Nat /\ n > 0
  BY <1>1 DEF Baselined
<1>6. ASSUME NEW id \in Ids
      PROVE  \/ ~Registered(ms, id) /\ rows'[id] = rows[id]
             \/ /\ Registered(ms, id) /\ ~Recorded(rows, id)
                /\ rows'[id].ok = TRUE /\ Recorded(rows', id)
                /\ \E i \in DOMAIN ms : ms[i].id = id /\ rows'[id].seq = n - 1 + i
                /\ rows'[id].seq >= n
                /\ id \in loose' \/ schema[id].state = "legacy"
  <2>1. CASE ~Registered(ms, id)
    BY <1>1, <2>1 DEF Baselined
  <2>2. CASE Registered(ms, id)
    <3>1. PICK i \in DOMAIN ms : ms[i].id = id /\ rows'[id].seq = n - 1 + i /\ rows'[id].ok = TRUE
      BY <1>1, <2>2 DEF Baselined
    <3>2. n - 1 + i >= n
      BY <1>4, <1>5
    <3>3. rows'[id].seq >= n
      BY <3>1, <3>2
    <3>4. Recorded(rows', id)
      BY <3>1 DEF Recorded, NoRow
    <3>5. ~Recorded(rows, id) /\ (id \in loose' \/ schema[id].state = "legacy")
      BY <1>1, <2>2 DEF Baselined
    <3>6. QED
      BY <2>2, <3>1, <3>3, <3>4, <3>5
  <2>3. QED
    BY <2>1, <2>2
<1>7. RowsInv'
  <2> SUFFICES ASSUME NEW id \in Ids
               PROVE  /\ Recorded(rows', id) => rows'[id].seq > 0
                      /\ Transactional(id) => ~Failed(rows', id)
    BY DEF RowsInv, Alone, Transactional
  <2>1. /\ Recorded(rows, id) => rows[id].seq > 0
        /\ Transactional(id) => ~Failed(rows, id)
    BY DEF DataInv, RowsInv
  <2>2. rows'[id].seq \in Nat
    BY <1>1 DEF Baselined, RowType
  <2>3. rows'[id].seq >= n => rows'[id].seq > 0
    BY <1>5, <2>2
  <2>4. QED
    BY <1>6, <2>1, <2>3 DEF Recorded, Failed
<1>8. HistoryIsOrdered'
  <2> SUFFICES ASSUME engine.lock, NEW a \in Ids, NEW b \in Ids, a # b,
                      Recorded(rows', a), Recorded(rows', b), rows'[a].seq = rows'[b].seq
               PROVE FALSE
    BY DEF HistoryIsOrdered, Alone
  <2>1. \A id \in Ids : rows[id].seq < n
    <3>1. known[p] = rows
      BY <1>2 DEF DataInv, PlanInv, PlanKept
    <3>2. QED
      BY <1>1, <3>1 DEF Baselined
  <2>2. ASSUME NEW x \in Ids, NEW y \in Ids, Registered(ms, x), ~Registered(ms, y),
               rows'[x].seq = rows'[y].seq
        PROVE  FALSE
    <3>1. rows'[x].seq >= n /\ rows'[y] = rows[y]
      BY <1>6, <2>2
    <3>2. PICK k \in Nat : k = rows[y].seq
      BY <1>0 DEF RowType
    <3>3. k < n /\ k >= n
      BY <2>1, <2>2, <3>1, <3>2
    <3>4. QED
      BY <1>5, <3>3
  <2>3. CASE Registered(ms, a) /\ Registered(ms, b)
    <3>1. PICK i \in DOMAIN ms : ms[i].id = a /\ rows'[a].seq = n - 1 + i
      BY <1>6, <2>3
    <3>2. PICK j \in DOMAIN ms : ms[j].id = b /\ rows'[b].seq = n - 1 + j
      BY <1>6, <2>3
    <3>3. n - 1 + i = n - 1 + j
      BY <3>1, <3>2
    <3>4. i = j
      BY <1>4, <1>5, <3>3
    <3>5. QED
      BY <3>1, <3>2, <3>4
  <2>4. CASE ~Registered(ms, a) /\ ~Registered(ms, b)
    <3>1. rows'[a] = rows[a] /\ rows'[b] = rows[b]
      BY <1>6, <2>4
    <3>2. QED
      BY <3>1 DEF DataInv, HistoryIsOrdered, Recorded
  <2>5. QED
    BY <2>2, <2>3, <2>4
<1>9. \A id \in Ids : Recorded(rows, id) => Recorded(rows', id)
  BY <1>6 DEF Recorded
<1>10. TodoInv' /\ PlanInv' /\ StepInv'
  <2>1. loose \subseteq loose'
    BY <1>1 DEF Baselined
  <2>2. QED
    BY <1>2, <1>3, <1>9, <2>1, EndsWritten DEF Locked
<1>11. RowsMatchSchema'
  <2> SUFFICES ASSUME NEW id \in Ids, Promised(id)'
               PROVE  /\ ~Recorded(rows', id) => schema[id].state \in {"absent", "legacy"}
                      /\ Ok(rows', id) => \/ schema[id].state = "legacy"
                                          \/ /\ schema[id].state = "done"
                                             /\ id \in Repeatables => schema[id].edition = rows'[id].edition
    BY <1>2 DEF RowsMatchSchema
  <2>0. loose \subseteq loose'
    BY <1>1 DEF Baselined
  <2>1. Promised(id) /\ id \notin loose'
    BY <1>2, <2>0, StillPromised DEF InBareStep, Promised
  <2>2. CASE rows'[id] = rows[id]
    BY <2>1, <2>2 DEF DataInv, RowsMatchSchema, Recorded, Ok
  <2>3. CASE Recorded(rows', id) /\ schema[id].state = "legacy"
    BY <2>3
  <2>4. QED
    BY <1>6, <2>1, <2>2, <2>3
<1>12. QED
  BY <1>7, <1>8, <1>10, <1>11 DEF DataInv

-----------------------------------------------------------------------------
(* The invariant from the first state on *)

\* Every step keeps the invariant.
LEMMA DataInvStep ==
  ASSUME BaseInv, FreshInv, DataInv, [Next]_vars
  PROVE  DataInv'
<1>1. CASE UNCHANGED vars
  <2>1. RowsInv' /\ TodoInv' /\ HistoryIsOrdered'
    BY <1>1 DEF vars, DataInv, RowsInv, TodoInv, HistoryIsOrdered, SoundWork, Transactional
  <2>2. PlanInv'
    BY <1>1 DEF vars, DataInv, PlanInv, PlanKept, Above
  <2>3. StepInv'
    BY <1>1 DEF vars, DataInv, StepInv, StepKept, InBareStep, Work
  <2>4. RowsMatchSchema'
    BY <1>1 DEF vars, DataInv, RowsMatchSchema, Promised, InFlight, InBareStep, Work, Transactional
  <2>5. QED
    BY <2>1, <2>2, <2>3, <2>4 DEF DataInv
<1>2. ASSUME NEW id \in Ids, CleanUp(id) PROVE DataInv'
  BY <1>2, CleanUpKeeps
<1>3. ASSUME NEW p \in Processes, StepOf(p) PROVE DataInv'
  <2>1. Alone(p)
    BY <1>3, StepsAlone DEF BaseInv
  <2>2. \/ QuietStep(p) \/ RunUp(p) \/ RunDown(p) \/ BareStepBegins(p) \/ BareStepRaises(p)
        \/ BareStepHalfway(p) \/ BareStepDone(p) \/ AppliedStep(p) \/ FailureRecorded(p)
        \/ RepairStep(p) \/ Baseline(p)
    BY <1>3 DEF StepOf, Runs, QuietStep, AppliedStep, RepairStep
  <2>3. CASE QuietStep(p)
    BY <2>1, <2>3, QuietSteps, QuietKeeps
  <2>4. CASE RunUp(p) \/ RunDown(p)
    BY <2>1, <2>4, PlanningSteps, PlannedKeeps
  <2>5. CASE BareStepBegins(p) \/ BareStepRaises(p)
    BY <2>1, <2>5, BareStepBeginsKeeps
  <2>6. CASE BareStepHalfway(p) \/ BareStepDone(p)
    BY <2>1, <2>6, BareStepWorks
  <2>7. CASE AppliedStep(p)
    BY <2>1, <2>7, AppliedKeeps
  <2>8. CASE FailureRecorded(p) \/ RepairStep(p) \/ Baseline(p)
    BY <2>1, <2>8, FailureRecordedKeeps, RepairKeeps, BaselineKeeps
  <2>9. QED
    BY <2>2, <2>3, <2>4, <2>5, <2>6, <2>7, <2>8
<1>4. QED
  BY <1>1, <1>2, <1>3 DEF Next, StepOf

\* The initial states have the types, no run and a free lock.
LEMMA BaseInvInit ==
  ASSUME Init
  PROVE  BaseInv
<1>1. engine \in EngineType
  BY MigratorAssumption DEF Init
<1>2. schema \in [Ids -> ObjectType]
  <2>1. PICK legacy \in LegacySets :
          schema = [id \in Ids |-> IF id \in legacy THEN Object("legacy", 0) ELSE Absent]
    BY DEF Init
  <2>2. Object("legacy", 0) \in ObjectType /\ Absent \in ObjectType
    BY DEF Object, ObjectType, Absent
  <2>3. QED
    BY <2>1, <2>2
<1>3. rows \in [Ids -> RowType] /\ loose \subseteq Ids /\ held \in [Processes -> Nat]
  BY DEF Init, RowType, NoRow
<1>4. /\ pc \in [Processes -> Phases]
      /\ run \in [Processes -> [verb : Commands \cup {"none"}, target : Ids \cup {None}]]
      /\ deploy \in [Processes -> Deploys]
      /\ ready \in [Processes -> BOOLEAN]
  BY DEF Init, Idle
<1>5. /\ view \in [Processes -> {None} \cup [Ids -> RowType]]
      /\ known \in [Processes -> {None} \cup [Ids -> RowType]]
      /\ seq \in [Processes -> Nat]
  BY DEF Init
<1>6. todo \in [Processes -> Seq(WorkType)]
  <2>1. <<>> \in Seq(WorkType)
    OBVIOUS
  <2>2. QED
    BY <2>1 DEF Init
<1>7. runs \in 0..MaxRuns /\ faults \in 0..MaxFaults
  BY MigratorAssumption DEF Init
<1>8. TypeOK
  BY <1>1, <1>2, <1>3, <1>4, <1>5, <1>6, <1>7 DEF TypeOK
<1>9. LockInv /\ PhaseInv
  BY DEF Init, LockInv, PhaseInv, Locked, InBareStep
<1>10. QED
  BY <1>8, <1>9 DEF BaseInv

\* The initial states have an empty table.
LEMMA DataInvInit ==
  ASSUME ReadsLatest, Init
  PROVE  FreshInv /\ DataInv
<1>1. FreshInv
  BY DEF Init, FreshInv, ReadsLatest
<1>2. \A id \in Ids : rows[id] = NoRow /\ ~Recorded(rows, id) /\ ~Ok(rows, id) /\ ~Failed(rows, id)
  BY DEF Init, Recorded, Ok, Failed, NoRow
<1>3. \A p \in Processes : todo[p] = <<>> /\ pc[p] = "idle"
  BY DEF Init
<1>4. RowsInv /\ HistoryIsOrdered
  BY <1>2 DEF RowsInv, HistoryIsOrdered
<1>5. TodoInv
  BY <1>3, NothingPlanned DEF TodoInv
<1>6. PlanInv
  BY <1>3, NothingPlanned DEF PlanInv, PlanKept, Above
<1>7. StepInv
  BY <1>3 DEF StepInv, StepKept, InBareStep
<1>8. RowsMatchSchema
  <2>1. PICK legacy \in LegacySets :
          schema = [id \in Ids |-> IF id \in legacy THEN Object("legacy", 0) ELSE Absent]
    BY DEF Init
  <2>2. \A id \in Ids : schema[id].state \in {"absent", "legacy"}
    BY <2>1 DEF Object, Absent
  <2>3. QED
    BY <1>2, <2>2 DEF RowsMatchSchema
<1>9. QED
  BY <1>1, <1>4, <1>5, <1>6, <1>7, <1>8 DEF DataInv

-----------------------------------------------------------------------------
(* The theorems *)

\* The types, the lock and the phases hold in every reachable state, on every
\* engine.
THEOREM BaseInvHolds == Spec => []BaseInv
<1>1. Init => BaseInv
  BY BaseInvInit
<1>2. BaseInv /\ [Next]_vars => BaseInv'
  BY TypeOKStep, LockInvStep, PhaseInvStep DEF BaseInv
<1>3. QED
  BY <1>1, <1>2, PTL DEF Spec

\* The variables keep their types.
THEOREM TypeCorrect == Spec => []TypeOK
<1>1. BaseInv => TypeOK
  BY DEF BaseInv
<1>2. QED
  BY <1>1, BaseInvHolds, PTL

\* No two runs work under the lock at once.
OneRunUnderTheLock ==
  engine.lock => \A p, q \in Processes : pc[p] \in Locked /\ pc[q] \in Locked => p = q

\* On an engine with the lock one run at a time reads the table and acts on
\* what it read, whatever runs fail, die or leave the lock behind.
THEOREM RunsExclude == Spec => []OneRunUnderTheLock
<1>1. BaseInv => OneRunUnderTheLock
  BY DEF BaseInv, LockInv, OneRunUnderTheLock
<1>2. QED
  BY <1>1, BaseInvHolds, PTL

\* The inductive invariant holds in every reachable state.
THEOREM DataInvHolds ==
  ASSUME ReadsLatest
  PROVE  Spec => [](BaseInv /\ FreshInv /\ DataInv)
<1>1. Init => BaseInv /\ FreshInv /\ DataInv
  BY BaseInvInit, DataInvInit
<1>2. (BaseInv /\ FreshInv /\ DataInv) /\ [Next]_vars => (BaseInv /\ FreshInv /\ DataInv)'
  <2> SUFFICES ASSUME BaseInv, FreshInv, DataInv, [Next]_vars
               PROVE  BaseInv' /\ FreshInv' /\ DataInv'
    OBVIOUS
  <2>1. BaseInv'
    BY TypeOKStep, LockInvStep, PhaseInvStep DEF BaseInv
  <2>2. FreshInv'
    BY FreshInvStep DEF BaseInv
  <2>3. QED
    BY <2>1, <2>2, DataInvStep
<1>3. QED
  BY <1>1, <1>2, PTL DEF Spec

\* The tracking table tells the truth (RowsMatchSchema): whatever runs raced,
\* failed or were cut short, an applied row has its objects, once, and an id
\* without a row has none.
THEOREM TableTellsTheTruth ==
  ASSUME ReadsLatest
  PROVE  Spec => []RowsMatchSchema
<1>1. BaseInv /\ FreshInv /\ DataInv => RowsMatchSchema
  BY DEF DataInv
<1>2. QED
  BY <1>1, DataInvHolds, PTL

\* On an engine with the lock no two rows share a seq (HistoryIsOrdered).
THEOREM OneOrderOfApplication ==
  ASSUME ReadsLatest
  PROVE  Spec => []HistoryIsOrdered
<1>1. BaseInv /\ FreshInv /\ DataInv => HistoryIsOrdered
  BY DEF DataInv
<1>2. QED
  BY <1>1, DataInvHolds, PTL

\* On an engine with the lock a versioned migration with a failed attempt on
\* record is not run again until a repair removed the row.
THEOREM FailedAttemptStaysFailed ==
  ASSUME ReadsLatest
  PROVE  Spec => FailedAttemptNotRerun
<1>1. ASSUME BaseInv, DataInv, engine.lock, NEW id \in Ids \ Repeatables, Failed(rows, id)
      PROVE  ~StepTaken(id, "up") /\ ~StepTaken(id, "down")
  <2> SUFFICES ASSUME NEW p \in Processes, todo[p] # <<>>, Work(p).id = id PROVE FALSE
    BY DEF StepTaken
  <2>1. Work(p) = todo[p][1] /\ 1 \in DOMAIN todo[p]
    BY <1>1, WorkFacts DEF BaseInv, TypeOK
  <2>2. PlanKept(p)
    BY <1>1 DEF DataInv, PlanInv
  <2>3. CASE UpPlan(todo[p], rows)
    BY <1>1, <2>1, <2>3 DEF UpPlan, Failed
  <2>4. CASE DownPlan(todo[p], rows)
    BY <1>1, <2>1, <2>4 DEF DownPlan, Failed, Ok
  <2>5. QED
    BY <2>2, <2>3, <2>4 DEF PlanKept
<1>2. BaseInv /\ FreshInv /\ DataInv =>
        [engine.lock => \A id \in Ids \ Repeatables :
           Failed(rows, id) => ~StepTaken(id, "up") /\ ~StepTaken(id, "down")]_vars
  BY <1>1
<1>3. QED
  BY <1>2, DataInvHolds, PTL DEF FailedAttemptNotRerun

\* On an engine with the lock a down run takes back the newest applied
\* migrations first, with the content that was applied.
THEOREM DownRunsRevertTheHistory ==
  ASSUME ReadsLatest
  PROVE  Spec => RevertsTheHistory
<1>1. ASSUME BaseInv, DataInv, engine.lock, NEW p \in Processes, todo[p] # <<>>, Work(p).way = "down"
      PROVE  /\ \A id \in Ids \ Repeatables : Ok(rows, id) => rows[id].seq <= rows[Work(p).id].seq
             /\ ~Work(p).forced => Work(p).edition = rows[Work(p).id].edition
  <2>1. Work(p) = todo[p][1] /\ 1 \in DOMAIN todo[p]
    BY <1>1, WorkFacts DEF BaseInv, TypeOK
  <2>2. DownPlan(todo[p], rows)
    BY <1>1, <2>1 DEF DataInv, PlanInv, PlanKept, UpPlan
  <2>3. 1..(1 - 1) = {}
    OBVIOUS
  <2>4. QED
    BY <2>1, <2>2, <2>3 DEF DownPlan
<1>2. BaseInv /\ FreshInv /\ DataInv =>
        [engine.lock => \A p \in Processes :
           (pc[p] \in {"run", "step"} /\ todo[p] # <<>> /\ Work(p).way = "down"
              /\ StepTaken(Work(p).id, "down"))
           => \A id \in Ids \ Repeatables :
                Ok(rows, id) => rows[id].seq <= rows[Work(p).id].seq]_vars
  BY <1>1
<1>3. BaseInv /\ FreshInv /\ DataInv =>
        [engine.lock => \A p \in Processes :
           (pc[p] \in {"run", "step"} /\ todo[p] # <<>> /\ Work(p).way = "down"
              /\ ~Work(p).forced /\ StepTaken(Work(p).id, "down"))
           => Work(p).edition = rows[Work(p).id].edition]_vars
  BY <1>1
<1>4. QED
  BY <1>2, <1>3, DataInvHolds, PTL DEF RevertsTheHistory, RevertsNewestFirst, RevertsWhatWasApplied
=============================================================================
