------------------------ MODULE RehearsalGateProofs ------------------------
(***************************************************************************)
(* What the gate before a run that removes data promises, for migrations,  *)
(* editions and histories of any number: it refuses nothing that a         *)
(* rehearsal without a fault has proved (GateComplete), and lets nothing   *)
(* through that none has (GateSound).                                      *)
(*                                                                         *)
(* First the sweep: its results pass exactly where it met no fault that it *)
(* can see (SweepHonest).  Then the keys, as parts of the pending list;    *)
(* then what a run that stopped anywhere leaves pending; then the          *)
(* invariant.                                                              *)
(***************************************************************************)
EXTENDS RehearsalGate, FilterProofs, SequenceTheorems, TLAPS

-----------------------------------------------------------------------------
(* The sweep of a rehearsal *)

\* A set of numbers that is not empty has a least one, which Min chooses.
LEMMA MinIsLeast ==
  ASSUME NEW S, S \subseteq Nat, S # {}
  PROVE  Min(S) \in S /\ \A y \in S : Min(S) <= y
<1>1. PICK m \in S : \A k \in S : <<k, m>> \notin Less
  BY LessIsWellFounded, WFMin, Zenon
<1>2. \A k \in S : m <= k
  <2>1. ASSUME NEW k \in S PROVE m <= k
    <3>1. ~(k < m) /\ k \in Nat /\ m \in Nat
      BY <1>1 DEF Less
    <3>2. QED
      BY <3>1
  <2>2. QED
    BY <2>1
<1>3. QED
  BY <1>1, <1>2 DEF Min

\* The places of the migrations whose up step raises.
RaisingAt(run, fault) ==
  {i \in DOMAIN run : run[i] \notin Bare /\ fault = Fault("up", run[i].id)}

\* The part of the run that is reached, what of it has run, and what failed.
ReachedBy(run, fault) ==
  IF RaisingAt(run, fault) = {} THEN run ELSE SubSeq(run, 1, Min(RaisingAt(run, fault)) - 1)
RanBy(run, fault) == Transactional(ReachedBy(run, fault))
FailedBy(run, fault) ==
  IF RaisingAt(run, fault) = {} THEN <<>> ELSE <<run[Min(RaisingAt(run, fault))]>>
DownsBy(run, fault) ==
  IF FailedBy(run, fault) = <<>> THEN RehearseDown(RanBy(run, fault), fault)
  ELSE [i \in DOMAIN RanBy(run, fault) |-> "unproved"]
LeftBy(run, fault, read) ==
  ReversalProvable(RanBy(run, fault), DownsBy(run, fault))
    /\ LeftOver(RanBy(run, fault), fault, read)

\* The three parts of a rehearsal's results.
RanResults(run, fault, read) ==
  [i \in DOMAIN RanBy(run, fault) |->
     [id |-> RanBy(run, fault)[i].id, up |-> "ok", down |-> DownsBy(run, fault)[i],
      leftover |-> LeftBy(run, fault, read) /\ DownsBy(run, fault)[i] = "ok"]]
FailedResults(run, fault) ==
  [i \in DOMAIN FailedBy(run, fault) |->
     [id |-> FailedBy(run, fault)[i].id, up |-> "failed", down |-> "unproved",
      leftover |-> FALSE]]

\* The results of a sweep inside one transaction are these three parts.
LEMMA PinnedIs ==
  ASSUME NEW run, NEW fault, NEW read
  PROVE  RehearsePinned(run, fault, read) =
           (RanResults(run, fault, read) \o FailedResults(run, fault))
             \o SkippedResults(Where(ReachedBy(run, fault), Bare))
  BY DEF RehearsePinned, RehearsalResults, RanResults, FailedResults, RaisingAt, ReachedBy,
         RanBy, FailedBy, DownsBy, LeftBy

\* What is reached, what ran and what failed are contents of the run.
LEMMA ReachedFacts ==
  ASSUME NEW run \in Seq(Content), NEW fault
  PROVE  /\ ReachedBy(run, fault) \in Seq(Content)
         /\ \A i \in 1..Len(ReachedBy(run, fault)) :
              \E j \in 1..Len(run) : ReachedBy(run, fault)[i] = run[j]
         /\ RaisingAt(run, fault) # {} =>
              \E j \in 1..Len(run) : /\ FailedBy(run, fault) = <<run[j]>>
                                     /\ j \in RaisingAt(run, fault)
<1>1. Len(run) \in Nat /\ DOMAIN run = 1..Len(run) /\ \A i \in 1..Len(run) : run[i] \in Content
  BY LenProperties, ElementOfSeq
<1>2. CASE RaisingAt(run, fault) = {}
  BY <1>1, <1>2 DEF ReachedBy
<1>3. CASE RaisingAt(run, fault) # {}
  <2>1. RaisingAt(run, fault) \subseteq 1..Len(run)
    BY <1>1 DEF RaisingAt
  <2>2. Min(RaisingAt(run, fault)) \in RaisingAt(run, fault)
    <3>1. RaisingAt(run, fault) \subseteq Nat
      BY <1>1, <2>1
    <3>2. QED
      BY <1>3, <3>1, MinIsLeast
  <2>3. PICK n \in 1..Len(run) : n = Min(RaisingAt(run, fault))
    BY <2>1, <2>2
  <2>4. ReachedBy(run, fault) = SubSeq(run, 1, n - 1)
    BY <1>3, <2>3 DEF ReachedBy
  <2>5. /\ SubSeq(run, 1, n - 1) \in Seq(Content) /\ Len(SubSeq(run, 1, n - 1)) = n - 1
        /\ \A i \in 1..(n - 1) : SubSeq(run, 1, n - 1)[i] = run[i]
    BY <1>1, <2>3, SubSeqProperties
  <2>6. \A i \in 1..(n - 1) : i \in 1..Len(run)
    BY <1>1
  <2>7. FailedBy(run, fault) = <<run[n]>>
    BY <1>3, <2>3 DEF FailedBy
  <2>8. QED
    BY <2>2, <2>3, <2>4, <2>5, <2>6, <2>7
<1>4. QED
  BY <1>2, <1>3

\* All results of two lists pass, or some result of one does not.
LEMMA PassedBoth ==
  ASSUME NEW X, NEW a \in Seq(X), NEW b \in Seq(X)
  PROVE  Passed(a \o b) <=> Passed(a) /\ Passed(b)
<1>1. /\ Len(a) \in Nat /\ Len(b) \in Nat
      /\ DOMAIN a = 1..Len(a) /\ DOMAIN b = 1..Len(b)
      /\ a \o b \in Seq(X) /\ Len(a \o b) = Len(a) + Len(b)
      /\ DOMAIN (a \o b) = 1..(Len(a) + Len(b))
  BY ConcatProperties, LenProperties
<1>2. /\ \A i \in 1..Len(a) : i \in 1..(Len(a) + Len(b)) /\ (a \o b)[i] = a[i]
      /\ \A i \in 1..Len(b) : /\ i + Len(a) \in 1..(Len(a) + Len(b))
                              /\ (a \o b)[i + Len(a)] = b[i]
  BY <1>1, ConcatProperties
<1>3. \A i \in 1..(Len(a) + Len(b)) :
        i \in 1..Len(a) \/ \E j \in 1..Len(b) : i = j + Len(a)
  <2>1. ASSUME NEW i \in 1..(Len(a) + Len(b)), i \notin 1..Len(a)
        PROVE  \E j \in 1..Len(b) : i = j + Len(a)
    <3>1. i - Len(a) \in 1..Len(b) /\ i = (i - Len(a)) + Len(a)
      BY <1>1, <2>1
    <3>2. QED
      BY <3>1
  <2>2. QED
    BY <2>1
<1>4. ASSUME Passed(a), Passed(b) PROVE Passed(a \o b)
  <2>1. /\ \A i \in 1..Len(a) : ~RehearsalFailed(a[i])
        /\ \A i \in 1..Len(b) : ~RehearsalFailed(b[i])
    BY <1>1, <1>4 DEF Passed
  <2>2. ASSUME NEW i \in 1..(Len(a) + Len(b)) PROVE ~RehearsalFailed((a \o b)[i])
    <3>1. CASE i \in 1..Len(a)
      BY <1>2, <2>1, <3>1
    <3>2. CASE \E j \in 1..Len(b) : i = j + Len(a)
      <4>1. PICK j \in 1..Len(b) : i = j + Len(a)
        BY <3>2
      <4>2. (a \o b)[i] = b[j]
        BY <1>2, <4>1
      <4>3. QED
        BY <2>1, <4>2
    <3>3. QED
      BY <1>3, <3>1, <3>2
  <2>3. QED
    BY <1>1, <2>2 DEF Passed
<1>5. ASSUME Passed(a \o b) PROVE Passed(a) /\ Passed(b)
  <2>1. ASSUME NEW i \in 1..Len(a) PROVE ~RehearsalFailed(a[i])
    BY <1>1, <1>2, <1>5 DEF Passed
  <2>2. ASSUME NEW i \in 1..Len(b) PROVE ~RehearsalFailed(b[i])
    BY <1>1, <1>2, <1>5 DEF Passed
  <2>3. QED
    BY <1>1, <2>1, <2>2 DEF Passed
<1>6. QED
  BY <1>4, <1>5

\* The places of the run at which a transactional migration is.
Placing(run, m, g) ==
  /\ Filtered(run, Len(run), Content \ Bare, Transactional(run), m, g)
  /\ m \in Nat /\ DOMAIN Transactional(run) = 1..m /\ Len(Transactional(run)) = m
  /\ \A i \in 1..m : /\ g[i] \in 1..Len(run)
                     /\ Transactional(run)[i] = run[g[i]] /\ run[g[i]] \in Content \ Bare

\* What the filter of a run keeps has places in it.
LEMMA PlacingExists ==
  ASSUME NEW run \in Seq(Content)
  PROVE  \E m, g : Placing(run, m, g)
<1>1. PICK m, g : Filtered(run, Len(run), Content \ Bare, Transactional(run), m, g)
  BY WherePlaces DEF Transactional
<1>2. Transactional(run) \in Seq(Content)
  BY WhereMembers, SeqMonotonic DEF Transactional
<1>3. m \in Nat /\ Transactional(run) = [k \in 1..m |-> run[g[k]]]
  BY <1>1 DEF Filtered
<1>4. DOMAIN Transactional(run) = 1..m /\ Len(Transactional(run)) = m
  BY <1>2, <1>3, LenProperties
<1>5. Placing(run, m, g)
  BY <1>1, <1>3, <1>4 DEF Placing, Filtered
<1>6. QED
  BY <1>5

\* A down step is reached where no versioned migration from there on, bare ones
\* aside, has none.
LEMMA DownReachedIs ==
  ASSUME NEW run \in Seq(Content), NEW m, NEW g, Placing(run, m, g), NEW i \in 1..m
  PROVE  DownReached(Transactional(run), i) <=>
           /\ IsVersioned(run[g[i]])
           /\ \A j \in 1..Len(run) : j >= g[i] /\ run[j] \notin Bare /\ IsVersioned(run[j])
                                       => run[j] \notin NoDown
<1>1. /\ m \in Nat /\ Len(Transactional(run)) = m /\ Len(run) \in Nat
      /\ \A k \in 1..m : /\ g[k] \in 1..Len(run)
                         /\ Transactional(run)[k] = run[g[k]] /\ run[g[k]] \notin Bare
  BY DEF Placing
<1>2. \A j \in 1..Len(run) : run[j] \in Content
  BY ElementOfSeq
<1>3. \A j \in 1..Len(run) : run[j] \notin Bare => \E k \in 1..m : g[k] = j
  BY <1>2 DEF Placing, Filtered
<1>4. \A j, k \in 1..m : j < k => g[j] < g[k]
  BY DEF Placing, Filtered
<1>5. \A k \in 1..m : k >= i <=> g[k] >= g[i]
  <2>1. ASSUME NEW k \in 1..m PROVE k >= i <=> g[k] >= g[i]
    <3>1. PICK a \in Nat : a = g[i]
      BY <1>1
    <3>2. PICK b \in Nat : b = g[k]
      BY <1>1
    <3>3. (k < i => b < a) /\ (i < k => a < b) /\ (k = i => a = b)
      BY <1>4, <3>1, <3>2
    <3>4. i \in Nat /\ k \in Nat
      BY <1>1
    <3>5. k >= i <=> b >= a
      BY <3>3, <3>4
    <3>6. QED
      BY <3>1, <3>2, <3>5
  <2>2. QED
    BY <2>1
<1>6. ASSUME NEW k \in i..Len(Transactional(run)) PROVE k \in 1..m /\ k >= i
  BY <1>1
<1>7. ASSUME NEW k \in 1..m, k >= i PROVE k \in i..Len(Transactional(run))
  BY <1>1, <1>7
<1> DEFINE Takes(x) == IsVersioned(x) => x \notin NoDown
<1>8. (\A k \in i..Len(Transactional(run)) : Takes(Transactional(run)[k]))
      <=> (\A k \in 1..m : g[k] >= g[i] => Takes(run[g[k]]))
  <2> HIDE DEF Takes
  <2>1. \A k \in 1..m : Transactional(run)[k] = run[g[k]]
    BY <1>1
  <2>2. \A k \in 1..m : k \in i..Len(Transactional(run)) <=> g[k] >= g[i]
    BY <1>5, <1>6, <1>7
  <2>3. \A k \in i..Len(Transactional(run)) : k \in 1..m
    BY <1>6
  <2>4. QED
    BY <2>1, <2>2, <2>3, Zenon
<1>9. (\A k \in 1..m : g[k] >= g[i] => Takes(run[g[k]]))
      <=> (\A j \in 1..Len(run) : j >= g[i] /\ run[j] \notin Bare => Takes(run[j]))
  <2> HIDE DEF Takes
  <2>1. ASSUME \A k \in 1..m : g[k] >= g[i] => Takes(run[g[k]]),
               NEW j \in 1..Len(run), j >= g[i], run[j] \notin Bare
        PROVE  Takes(run[j])
    <3>1. PICK k \in 1..m : g[k] = j
      BY <1>3, <2>1
    <3>2. QED
      BY <2>1, <3>1
  <2>2. ASSUME \A j \in 1..Len(run) : j >= g[i] /\ run[j] \notin Bare => Takes(run[j]),
               NEW k \in 1..m, g[k] >= g[i]
        PROVE  Takes(run[g[k]])
    BY <1>1, <2>2
  <2>3. QED
    BY <2>1, <2>2
<1>10. Transactional(run)[i] = run[g[i]]
  BY <1>1
<1>11. QED
  BY <1>8, <1>9, <1>10 DEF DownReached

\* Where no up step raises the results of what ran decide.
LEMMA PassedIs ==
  ASSUME NEW run \in Seq(Content), NEW fault, NEW read, RaisingAt(run, fault) = {}
  PROVE  Passed(RehearsePinned(run, fault, read)) <=>
           /\ \A i \in DOMAIN Transactional(run) : DownsBy(run, fault)[i] # "failed"
           /\ LeftBy(run, fault, read) =>
                \A i \in DOMAIN Transactional(run) : DownsBy(run, fault)[i] # "ok"
<1>1. PICK m, g : Placing(run, m, g)
  BY PlacingExists
<1>2. /\ ReachedBy(run, fault) = run /\ FailedBy(run, fault) = <<>>
      /\ RanBy(run, fault) = Transactional(run)
  BY DEF ReachedBy, FailedBy, RanBy
<1> DEFINE a == RanResults(run, fault, read)
           b == FailedResults(run, fault)
           c == SkippedResults(Where(ReachedBy(run, fault), Bare))
           ids == {run[i].id : i \in 1..Len(run)}
           X == {a[i] : i \in 1..m} \cup {c[i] : i \in DOMAIN c}
<1>3. a \in Seq(X)
  <2>1. a \in [1..m -> X]
    BY <1>1, <1>2 DEF RanResults, Placing
  <2>2. m \in Nat
    BY <1>1 DEF Placing
  <2> HIDE DEF a, X
  <2>3. QED
    BY <2>1, <2>2
<1>4. b = <<>>
  BY <1>2 DEF FailedResults
<1>5. c \in Seq(X)
  <2>1. Where(run, Bare) \in Seq(Content \cap Bare)
    BY WhereMembers
  <2>2. PICK n \in Nat : n = Len(Where(run, Bare)) /\ DOMAIN Where(run, Bare) = 1..n
    BY <2>1, LenProperties
  <2>3. c = [i \in 1..n |-> c[i]]
    BY <1>2, <2>2 DEF SkippedResults
  <2>4. DOMAIN c = 1..n
    BY <2>3
  <2>5. c \in [1..n -> X]
    <3> HIDE DEF a, c
    <3>1. QED
      BY <2>3, <2>4
  <2> HIDE DEF a, c, X
  <2>6. QED
    BY <2>2, <2>5
<1>6. Passed(c)
  BY DEF Passed, SkippedResults, RehearsalFailed
<1>7. Passed(a) <=>
           /\ \A i \in DOMAIN Transactional(run) : DownsBy(run, fault)[i] # "failed"
           /\ LeftBy(run, fault, read) =>
                \A i \in DOMAIN Transactional(run) : DownsBy(run, fault)[i] # "ok"
  BY <1>2 DEF Passed, RanResults, RehearsalFailed
<1>8. RehearsePinned(run, fault, read) = (a \o b) \o c
  BY PinnedIs
<1>9. a \o b = a
  <2> HIDE DEF a, b, c, X
  <2>1. QED
    BY <1>3, <1>4, ConcatEmptySeq
<1>10. Passed(a \o c) <=> Passed(a) /\ Passed(c)
  <2> HIDE DEF a, b, c, X
  <2>1. QED
    BY <1>3, <1>5, PassedBoth
<1> HIDE DEF a, b, c, X
<1>11. QED
  BY <1>6, <1>7, <1>8, <1>9, <1>10

\* The parts of the results are lists.
LEMMA PartsTyped ==
  ASSUME NEW run \in Seq(Content), NEW fault, NEW read
  PROVE  \E X : /\ RanResults(run, fault, read) \in Seq(X)
                /\ FailedResults(run, fault) \in Seq(X)
                /\ SkippedResults(Where(ReachedBy(run, fault), Bare)) \in Seq(X)
<1> DEFINE a == RanResults(run, fault, read)
           b == FailedResults(run, fault)
           c == SkippedResults(Where(ReachedBy(run, fault), Bare))
           X == {a[i] : i \in DOMAIN a} \cup {b[i] : i \in DOMAIN b} \cup {c[i] : i \in DOMAIN c}
<1>1. PICK k \in Nat : DOMAIN a = 1..k /\ a = [i \in 1..k |-> a[i]]
  <2>1. RanBy(run, fault) \in Seq(Content \cap (Content \ Bare))
    BY ReachedFacts, WhereMembers DEF RanBy, Transactional
  <2>2. PICK k \in Nat : DOMAIN RanBy(run, fault) = 1..k
    BY <2>1, LenProperties
  <2>3. QED
    BY <2>2 DEF RanResults
<1>2. PICK l \in Nat : DOMAIN b = 1..l /\ b = [i \in 1..l |-> b[i]]
  <2>1. DOMAIN FailedBy(run, fault) = 1..0 \/ DOMAIN FailedBy(run, fault) = 1..1
    BY DEF FailedBy
  <2>2. QED
    BY <2>1 DEF FailedResults
<1>3. PICK n \in Nat : DOMAIN c = 1..n /\ c = [i \in 1..n |-> c[i]]
  <2>1. Where(ReachedBy(run, fault), Bare) \in Seq(Content \cap Bare)
    BY ReachedFacts, WhereMembers
  <2>2. PICK n \in Nat : DOMAIN Where(ReachedBy(run, fault), Bare) = 1..n
    BY <2>1, LenProperties
  <2>3. QED
    BY <2>2 DEF SkippedResults
<1> HIDE DEF a, b, c
<1>4. a \in [1..k -> X] /\ b \in [1..l -> X] /\ c \in [1..n -> X]
  BY <1>1, <1>2, <1>3
<1> HIDE DEF X
<1>5. a \in Seq(X) /\ b \in Seq(X) /\ c \in Seq(X)
  BY <1>1, <1>2, <1>3, <1>4
<1>6. QED
  BY <1>5 DEF a, b, c

\* A fault that a rehearsal may meet.
IsFault(fault) ==
  /\ fault.step \in {"none", "up", "down", "leaves"}
  /\ fault = Fault(fault.step, fault.id)

\* A down step that raises is met where it is reached.
LEMMA DownsHonest ==
  ASSUME NEW run \in Seq(Content), NEW fault, IsFault(fault), fault.step = "down", NEW read
  PROVE  Passed(RehearsePinned(run, fault, read)) <=> Unseen(run, fault, read)
<1>0. RaisingAt(run, fault) = {} /\ ~LeftBy(run, fault, read)
  BY DEF RaisingAt, Fault, LeftBy, LeftOver, DiffSnapshots
<1>1. PICK m, g : Placing(run, m, g)
  BY PlacingExists
<1>2. /\ DOMAIN Transactional(run) = 1..m /\ m \in Nat
      /\ DownsBy(run, fault) = RehearseDown(Transactional(run), fault)
  BY <1>0, <1>1 DEF Placing, DownsBy, RanBy, ReachedBy, FailedBy
<1>3. ASSUME NEW i \in 1..m
      PROVE  DownsBy(run, fault)[i] = "failed" <=>
               DownReached(Transactional(run), i) /\ run[g[i]].id = fault.id
  <2>1. Transactional(run)[i] = run[g[i]]
    BY <1>1 DEF Placing
  <2>2. fault = Fault("down", run[g[i]].id) <=> run[g[i]].id = fault.id
    BY DEF IsFault, Fault
  <2>3. QED
    BY <1>2, <2>1, <2>2 DEF RehearseDown
<1> DEFINE at == {i \in DOMAIN run : run[i].id = fault.id /\ run[i] \notin Bare}
           stays == {i \in DOMAIN run : IsVersioned(run[i]) /\ run[i] \in NoDown \ Bare}
           comes == {i \in DOMAIN run : IsVersioned(run[i]) /\ run[i] \notin NoDown \cup Bare}
<1>4. DOMAIN run = 1..Len(run) /\ Len(run) \in Nat /\ \A j \in 1..Len(run) : run[j] \in Content
  BY LenProperties, ElementOfSeq
<1>5. ASSUME NEW i \in 1..m, DownsBy(run, fault)[i] = "failed"
      PROVE  g[i] \in at \cap comes /\ \A j \in stays : ~(j > g[i])
  <2>1. g[i] \in 1..Len(run) /\ run[g[i]] \notin Bare
    BY <1>1 DEF Placing
  <2>2. /\ IsVersioned(run[g[i]]) /\ run[g[i]].id = fault.id
        /\ \A j \in 1..Len(run) : j >= g[i] /\ run[j] \notin Bare /\ IsVersioned(run[j])
                                       => run[j] \notin NoDown
    BY <1>1, <1>3, <1>5, DownReachedIs
  <2>3. run[g[i]] \notin NoDown
    BY <2>1, <2>2
  <2>4. \A j \in stays : ~(j > g[i])
    BY <1>4, <2>1, <2>2
  <2>5. QED
    BY <1>4, <2>1, <2>2, <2>3, <2>4
<1>6. ASSUME NEW p \in at \cap comes, \A j \in stays : ~(j > p)
      PROVE  \E i \in 1..m : DownsBy(run, fault)[i] = "failed"
  <2>1. p \in 1..Len(run) /\ run[p] \in Content \ Bare
    BY <1>4
  <2>2. PICK i \in 1..m : g[i] = p
    BY <1>1, <2>1 DEF Placing, Filtered
  <2>3. ASSUME NEW j \in 1..Len(run), j >= p, run[j] \notin Bare, IsVersioned(run[j])
        PROVE  run[j] \notin NoDown
    <3>1. CASE j = p
      BY <3>1
    <3>2. CASE j # p
      <4>1. j > p
        BY <2>1, <2>3, <3>2
      <4>2. QED
        BY <1>4, <1>6, <2>3, <4>1
    <3>3. QED
      BY <3>1, <3>2
  <2>4. DownReached(Transactional(run), i)
    BY <1>1, <2>2, <2>3, DownReachedIs
  <2>5. QED
    BY <1>3, <2>2, <2>4
<1>7. Unseen(run, fault, read) <=> \A i \in at : i \notin comes \/ \E j \in stays : j > i
  BY DEF Unseen
<1>8. Passed(RehearsePinned(run, fault, read))
        <=> \A i \in 1..m : DownsBy(run, fault)[i] # "failed"
  BY <1>0, <1>2, PassedIs
<1> HIDE DEF at, stays, comes
<1>9. QED
  BY <1>5, <1>6, <1>7, <1>8

\* An object left behind is met where the run was meant to come back whole.
LEMMA LeftoversHonest ==
  ASSUME NEW run \in Seq(Content), NEW fault, IsFault(fault), fault.step = "leaves",
         NEW read \in BOOLEAN
  PROVE  Passed(RehearsePinned(run, fault, read)) <=> Unseen(run, fault, read)
<1>0. RaisingAt(run, fault) = {}
  BY DEF RaisingAt, Fault
<1>1. PICK m, g : Placing(run, m, g)
  BY PlacingExists
<1>2. /\ DOMAIN Transactional(run) = 1..m /\ m \in Nat
      /\ RanBy(run, fault) = Transactional(run)
      /\ DownsBy(run, fault) = RehearseDown(Transactional(run), fault)
  BY <1>0, <1>1 DEF Placing, DownsBy, RanBy, ReachedBy, FailedBy
<1>3. ASSUME NEW i \in 1..m
      PROVE  /\ DownsBy(run, fault)[i] # "failed"
             /\ DownsBy(run, fault)[i] = "ok" <=> DownReached(Transactional(run), i)
  <2>1. \A x : fault # Fault("down", x)
    BY DEF Fault
  <2>2. QED
    BY <1>2, <2>1 DEF RehearseDown
<1> DEFINE at == {i \in DOMAIN run : run[i].id = fault.id /\ run[i] \notin Bare}
           stays == {i \in DOMAIN run : IsVersioned(run[i]) /\ run[i] \in NoDown \ Bare}
           comes == {i \in DOMAIN run : IsVersioned(run[i]) /\ run[i] \notin NoDown \cup Bare}
           ran == Transactional(run)
<1>4. DOMAIN run = 1..Len(run) /\ Len(run) \in Nat /\ \A j \in 1..Len(run) : run[j] \in Content
  BY LenProperties, ElementOfSeq
<1>5. /\ \A i \in 1..m : g[i] \in 1..Len(run) /\ ran[i] = run[g[i]] /\ run[g[i]] \notin Bare
      /\ \A p \in 1..Len(run) : run[p] \notin Bare => \E i \in 1..m : g[i] = p
  <2>1. \A p \in 1..Len(run) : run[p] \in Content \ Bare => \E i \in 1..m : g[i] = p
    BY <1>1 DEF Placing, Filtered
  <2>2. QED
    BY <1>1, <1>4, <2>1 DEF Placing
<1>6. \A i \in 1..m : g[i] >= g[i]
  BY <1>5
<1>7. LeftBy(run, fault, read) <=>
        /\ \E i \in 1..m : DownReached(ran, i)
        /\ \A i \in 1..m : IsVersioned(ran[i]) => DownReached(ran, i)
        /\ read /\ \E i \in 1..m : ran[i].id = fault.id
  BY <1>2, <1>3 DEF LeftBy, ReversalProvable, LeftOver, DiffSnapshots
<1>8. (\E i \in 1..m : ran[i].id = fault.id) <=> at # {}
  BY <1>4, <1>5
<1>9. ASSUME NEW i \in 1..m, DownReached(ran, i) PROVE g[i] \in comes
  <2>1. run[g[i]] \notin NoDown /\ IsVersioned(run[g[i]])
    BY <1>1, <1>5, <1>6, <1>9, DownReachedIs
  <2>2. QED
    BY <1>4, <1>5, <2>1
<1>10. ASSUME \A i \in 1..m : IsVersioned(ran[i]) => DownReached(ran, i) PROVE stays = {}
  <2>1. ASSUME NEW p \in stays PROVE FALSE
    <3>1. PICK i \in 1..m : g[i] = p
      BY <1>4, <1>5
    <3>2. DownReached(ran, i)
      BY <1>5, <1>10, <3>1
    <3>3. QED
      BY <1>9, <3>1, <3>2
  <2>2. QED
    BY <2>1
<1>11. ASSUME stays = {}, NEW i \in 1..m, IsVersioned(ran[i]) PROVE DownReached(ran, i)
  <2>1. \A j \in 1..Len(run) : run[j] \notin Bare /\ IsVersioned(run[j]) => run[j] \notin NoDown
    BY <1>4, <1>11
  <2>2. QED
    BY <1>1, <1>5, <1>11, <2>1, DownReachedIs
<1>12. ASSUME stays = {}, comes # {} PROVE \E i \in 1..m : DownReached(ran, i)
  <2>1. PICK p \in comes : TRUE
    BY <1>12
  <2>2. PICK i \in 1..m : g[i] = p
    BY <1>4, <1>5
  <2>3. IsVersioned(ran[i])
    BY <1>5, <2>2
  <2>4. QED
    BY <1>11, <1>12, <2>3
<1>13. Unseen(run, fault, read) <=> at = {} \/ ~read \/ stays # {} \/ comes = {}
  BY DEF Unseen
<1>14. Passed(RehearsePinned(run, fault, read)) <=> ~LeftBy(run, fault, read)
  <2>1. Passed(RehearsePinned(run, fault, read)) <=>
           (LeftBy(run, fault, read) => \A i \in 1..m : ~DownReached(ran, i))
    BY <1>0, <1>2, <1>3, PassedIs
  <2>2. QED
    BY <1>7, <2>1
<1> HIDE DEF at, stays, comes, ran
<1>15. QED
  BY <1>7, <1>8, <1>9, <1>10, <1>11, <1>12, <1>13, <1>14

\* An up step that raises is met, unless its migration does not run.
LEMMA UpsHonest ==
  ASSUME NEW run \in Seq(Content), NEW fault, IsFault(fault), fault.step \in {"none", "up"},
         NEW read
  PROVE  Passed(RehearsePinned(run, fault, read)) <=> Unseen(run, fault, read)
<1>0. ~LeftBy(run, fault, read)
  BY DEF LeftBy, LeftOver, DiffSnapshots
<1>1. CASE RaisingAt(run, fault) = {}
  <2>1. DownsBy(run, fault) = RehearseDown(Transactional(run), fault)
    BY <1>1 DEF DownsBy, RanBy, ReachedBy, FailedBy
  <2>2. \A x : fault # Fault("down", x)
    BY DEF Fault
  <2>3. \A i \in DOMAIN Transactional(run) : DownsBy(run, fault)[i] # "failed"
    BY <2>1, <2>2 DEF RehearseDown
  <2>4. Passed(RehearsePinned(run, fault, read))
    BY <1>0, <1>1, <2>3, PassedIs
  <2>5. Unseen(run, fault, read)
    <3>1. CASE fault.step = "none"
      BY <3>1 DEF Unseen
    <3>2. CASE fault.step = "up"
      <4>1. \A i \in DOMAIN run : run[i].id = fault.id => fault = Fault("up", run[i].id)
        BY <3>2 DEF IsFault
      <4>2. {i \in DOMAIN run : run[i].id = fault.id /\ run[i] \notin Bare} = {}
        BY <1>1, <4>1 DEF RaisingAt
      <4>3. QED
        BY <4>2 DEF Unseen
    <3>3. QED
      BY <3>1, <3>2
  <2>6. QED
    BY <2>4, <2>5
<1>2. CASE RaisingAt(run, fault) # {}
  <2>1. PICK j \in 1..Len(run) : FailedBy(run, fault) = <<run[j]>> /\ j \in RaisingAt(run, fault)
    BY <1>2, ReachedFacts
  <2>2. fault.step = "up" /\ run[j].id = fault.id /\ run[j] \notin Bare /\ j \in DOMAIN run
    BY <2>1 DEF RaisingAt, Fault
  <2>3. ~Unseen(run, fault, read)
    BY <2>2 DEF Unseen
  <2>4. ~Passed(FailedResults(run, fault))
    <3>1. 1 \in DOMAIN FailedResults(run, fault) /\ FailedResults(run, fault)[1].up = "failed"
      BY <2>1 DEF FailedResults
    <3>2. QED
      BY <3>1 DEF Passed, RehearsalFailed
  <2>5. ~Passed(RehearsePinned(run, fault, read))
    <3>1. PICK X : /\ RanResults(run, fault, read) \in Seq(X)
                   /\ FailedResults(run, fault) \in Seq(X)
                   /\ SkippedResults(Where(ReachedBy(run, fault), Bare)) \in Seq(X)
      BY PartsTyped
    <3>2. PICK a \in Seq(X) : a = RanResults(run, fault, read)
      BY <3>1
    <3>3. PICK b \in Seq(X) : b = FailedResults(run, fault)
      BY <3>1
    <3>4. PICK c \in Seq(X) : c = SkippedResults(Where(ReachedBy(run, fault), Bare))
      BY <3>1
    <3>5. ~Passed(a \o b)
      BY <2>4, <3>3, PassedBoth
    <3>6. a \o b \in Seq(X)
      BY ConcatProperties
    <3>7. ~Passed((a \o b) \o c)
      BY <3>5, <3>6, PassedBoth
    <3>8. QED
      BY <3>2, <3>3, <3>4, <3>7, PinnedIs
  <2>6. QED
    BY <2>3, <2>5
<1>3. QED
  BY <1>1, <1>2

\* A sweep is that of some fault, with a database that reports its schema or not.
IsSweep(sweep, run, fault, read) ==
  /\ IsFault(fault) /\ read \in BOOLEAN
  /\ sweep = [results |-> RehearsePinned(run, fault, read), clean |-> Unseen(run, fault, read)]

\* Every sweep is one of these.
LEMMA SweepIs ==
  ASSUME NEW run, NEW sweep \in Sweeps(run)
  PROVE  \E fault, read : IsSweep(sweep, run, fault, read)
<1> DEFINE F == Faults({m.id : m \in ToSet(run)})
           E(f, r) == [results |-> RehearsePinned(run, f, r), clean |-> Unseen(run, f, r)]
<1>1. Sweeps(run) = {E(f, r) : f \in F, r \in BOOLEAN}
  BY DEF Sweeps
<1>2. PICK fault \in F, read \in BOOLEAN : sweep = E(fault, read)
  <2> HIDE DEF F, E
  <2>1. QED
    BY <1>1
<1>3. IsFault(fault)
  BY DEF Faults, Fault, IsFault
<1>4. IsSweep(sweep, run, fault, read)
  BY <1>2, <1>3 DEF IsSweep
<1>5. QED
  BY <1>4

\* A rehearsal passes where it met no fault that it can see, and only there.
LEMMA SweepHonest ==
  ASSUME NEW run \in Seq(Content), NEW sweep \in Sweeps(run)
  PROVE  Passed(sweep.results) <=> sweep.clean
<1>1. PICK fault, read : IsSweep(sweep, run, fault, read)
  BY SweepIs
<1>2. IsFault(fault) /\ read \in BOOLEAN
  BY <1>1 DEF IsSweep
<1>3. Passed(RehearsePinned(run, fault, read)) <=> Unseen(run, fault, read)
  <2>1. fault.step \in {"none", "up", "down", "leaves"}
    BY <1>2 DEF IsFault
  <2>2. CASE fault.step \in {"none", "up"}
    BY <1>2, <2>2, UpsHonest
  <2>3. CASE fault.step = "down"
    BY <1>2, <2>3, DownsHonest
  <2>4. CASE fault.step = "leaves"
    BY <1>2, <2>4, LeftoversHonest
  <2>5. QED
    BY <2>1, <2>2, <2>3, <2>4
<1>4. QED
  BY <1>1, <1>3 DEF IsSweep

-----------------------------------------------------------------------------
(* Keys *)

\* Lists of one length with the same members are one.
LEMMA SameList ==
  ASSUME NEW X, NEW a \in Seq(X), NEW b \in Seq(X), Len(a) = Len(b),
         \A i \in 1..Len(a) : a[i] = b[i]
  PROVE  a = b
<1>1. /\ a = [i \in 1..Len(a) |-> a[i]]
      /\ b = [i \in 1..Len(b) |-> b[i]]
  BY LenProperties
<1>2. QED
  BY <1>1

\* A part of a list, as a list.
LEMMA PartFacts ==
  ASSUME NEW X, NEW p \in Seq(X), NEW i \in Nat, NEW j \in Nat, i <= j, j <= Len(p)
  PROVE  /\ SubSeq(p, i + 1, j) \in Seq(X) /\ Len(SubSeq(p, i + 1, j)) = j - i
         /\ \A k \in 1..(j - i) : SubSeq(p, i + 1, j)[k] = p[i + k]
<1>1. Len(p) \in Nat /\ \A k \in (i + 1)..j : p[k] \in X
  BY LenProperties, ElementOfSeq
<1>2. i + 1 \in Int /\ j \in Int /\ (IF i + 1 <= j THEN j - (i + 1) + 1 ELSE 0) = j - i
  OBVIOUS
<1>3. /\ SubSeq(p, i + 1, j) \in Seq(X)
      /\ Len(SubSeq(p, i + 1, j)) = IF i + 1 <= j THEN j - (i + 1) + 1 ELSE 0
      /\ \A k \in 1..(j - (i + 1) + 1) : SubSeq(p, i + 1, j)[k] = p[(i + 1) + k - 1]
  BY <1>1, <1>2, SubSeqProperties
<1>4. \A k \in 1..(j - i) : k \in 1..(j - (i + 1) + 1) /\ (i + 1) + k - 1 = i + k
  OBVIOUS
<1>5. QED
  BY <1>2, <1>3, <1>4

\* A part of the rest of a list is a part of the list.
LEMMA PartOfRest ==
  ASSUME NEW X, NEW p \in Seq(X), NEW n \in 0..Len(p),
         NEW s \in Nat, NEW e \in Nat, s <= e, e <= Len(p) - n
  PROVE  SubSeq(SubSeq(p, n + 1, Len(p)), s + 1, e) = SubSeq(p, (n + s) + 1, n + e)
<1> DEFINE t == SubSeq(p, n + 1, Len(p))
<1>1. n \in Nat /\ Len(p) \in Nat /\ n <= Len(p)
  BY LenProperties
<1>2. t \in Seq(X) /\ Len(t) = Len(p) - n /\ \A k \in 1..(Len(p) - n) : t[k] = p[n + k]
  BY <1>1, PartFacts
<1> HIDE DEF t
<1>3. /\ SubSeq(t, s + 1, e) \in Seq(X) /\ Len(SubSeq(t, s + 1, e)) = e - s
      /\ \A k \in 1..(e - s) : SubSeq(t, s + 1, e)[k] = t[s + k]
  BY <1>2, PartFacts
<1>4. n + s \in Nat /\ n + e \in Nat /\ n + s <= n + e /\ n + e <= Len(p)
  BY <1>1
<1>5. /\ SubSeq(p, (n + s) + 1, n + e) \in Seq(X)
      /\ Len(SubSeq(p, (n + s) + 1, n + e)) = (n + e) - (n + s)
      /\ \A k \in 1..((n + e) - (n + s)) : SubSeq(p, (n + s) + 1, n + e)[k] = p[(n + s) + k]
  BY <1>4, PartFacts
<1>6. ASSUME NEW k \in 1..(e - s)
      PROVE  SubSeq(t, s + 1, e)[k] = SubSeq(p, (n + s) + 1, n + e)[k]
  <2>1. /\ s + k \in 1..(Len(p) - n) /\ n + (s + k) = (n + s) + k
        /\ k \in 1..((n + e) - (n + s))
    BY <1>1
  <2>2. PICK a \in Nat : a = n + (s + k)
    BY <1>1
  <2>3. t[s + k] = p[a] /\ SubSeq(p, (n + s) + 1, n + e)[k] = p[a]
    BY <1>2, <1>5, <2>1, <2>2
  <2>4. QED
    BY <1>3, <2>3
<1>7. (n + e) - (n + s) = e - s
  BY <1>1
<1>8. QED
  BY <1>3, <1>5, <1>6, <1>7, SameList DEF t

\* The parts up to n and from there on.
LEMMA PartsJoin ==
  ASSUME NEW X, NEW p \in Seq(X), NEW n \in 0..Len(p), NEW s \in Nat, s <= Len(p) - n
  PROVE  SubSeq(p, 1, n) \o SubSeq(SubSeq(p, n + 1, Len(p)), 1, s) = SubSeq(p, 1, n + s)
<1> DEFINE a == SubSeq(p, 0 + 1, n)
           b == SubSeq(p, n + 1, n + s)
           c == SubSeq(p, 0 + 1, n + s)
<1>1. n \in Nat /\ Len(p) \in Nat /\ n <= Len(p) /\ n + s \in Nat /\ n + s <= Len(p) /\ n <= n + s
  BY LenProperties
<1>2. a \in Seq(X) /\ Len(a) = n - 0 /\ \A k \in 1..(n - 0) : a[k] = p[0 + k]
  BY <1>1, PartFacts
<1>3. b \in Seq(X) /\ Len(b) = (n + s) - n /\ \A k \in 1..((n + s) - n) : b[k] = p[n + k]
  BY <1>1, PartFacts
<1>4. c \in Seq(X) /\ Len(c) = (n + s) - 0 /\ \A k \in 1..((n + s) - 0) : c[k] = p[0 + k]
  BY <1>1, PartFacts
<1>5. SubSeq(SubSeq(p, n + 1, Len(p)), 1, s) = b
  <2>1. SubSeq(SubSeq(p, n + 1, Len(p)), 0 + 1, s) = SubSeq(p, (n + 0) + 1, n + s)
    BY <1>1, PartOfRest
  <2>2. 0 + 1 = 1 /\ (n + 0) + 1 = n + 1
    BY <1>1
  <2>3. QED
    BY <2>1, <2>2
<1>6. SubSeq(p, 1, n) = a /\ SubSeq(p, 1, n + s) = c
  OBVIOUS
<1> HIDE DEF a, b, c
<1>11. /\ a \o b \in Seq(X) /\ Len(a \o b) = Len(a) + Len(b)
       /\ \A k \in 1..Len(a) + Len(b) : (a \o b)[k] = IF k <= Len(a) THEN a[k] ELSE b[k - Len(a)]
  <2>1. a \in Seq(X) /\ b \in Seq(X)
    BY <1>2, <1>3
  <2>2. QED
    BY <2>1, ConcatProperties
<1>12. Len(a) = n /\ Len(b) = s
  BY <1>1, <1>2, <1>3
<1>7. a \o b \in Seq(X) /\ Len(a \o b) = n + s
  BY <1>11, <1>12
<1>8. ASSUME NEW k \in 1..(n + s) PROVE (a \o b)[k] = c[k]
  <2>1. k \in Nat /\ (a \o b)[k] = IF k <= n THEN a[k] ELSE b[k - n]
    BY <1>1, <1>8, <1>11, <1>12
  <2>2. c[k] = p[k]
    BY <1>1, <1>4
  <2>3. CASE k <= n
    BY <1>1, <1>2, <2>1, <2>2, <2>3
  <2>4. CASE ~(k <= n)
    <3>1. PICK j \in 1..((n + s) - n) : j = k - n /\ n + j = k
      BY <1>1, <2>1, <2>4
    <3>2. b[j] = p[k]
      BY <1>3, <3>1
    <3>3. QED
      BY <2>1, <2>2, <2>4, <3>1, <3>2
  <2>5. QED
    BY <2>3, <2>4
<1>9. a \o b = c
  <2>1. PICK d \in Seq(X) : d = a \o b
    BY <1>7
  <2>2. Len(d) = n + s /\ \A k \in 1..(n + s) : d[k] = c[k]
    BY <1>7, <1>8, <2>1
  <2>3. Len(c) = n + s
    BY <1>1, <1>4
  <2>4. Len(d) = Len(c) /\ \A k \in 1..Len(d) : d[k] = c[k]
    BY <2>2, <2>3
  <2>5. d = c
    BY <1>4, <2>4, SameList
  <2>6. QED
    BY <2>1, <2>5
<1>10. QED
  BY <1>5, <1>6, <1>9

\* The key of a slice, and that of the rest with the repeatables.
SliceKey(k, applied, versioned) ==
  \E s, e \in 0..Len(versioned) :
    /\ Removes(SubSeq(versioned, s + 1, e))
    /\ k = Key(applied \o SubSeq(versioned, 1, s), SubSeq(versioned, s + 1, e))
RestKey(k, applied, versioned, repeatables) ==
  \E s \in 0..Len(versioned) :
    /\ repeatables # <<>>
    /\ Removes(SubSeq(versioned, s + 1, Len(versioned)) \o repeatables)
    /\ k = Key(applied \o SubSeq(versioned, 1, s),
               SubSeq(versioned, s + 1, Len(versioned)) \o repeatables)

\* _destructive_prefix_keys() returns these keys and no other.
LEMMA PrefixKeysAre ==
  ASSUME NEW a, NEW p, NEW r, NEW k
  PROVE  k \in PrefixKeys(a, p, r) <=> SliceKey(k, a, p) \/ RestKey(k, a, p, r)
<1> DEFINE from(start) == a \o SubSeq(p, 1, start)
           slice(start, end) == SubSeq(p, start + 1, end)
           rest(start) == slice(start, Len(p)) \o r
<1>1. PrefixKeys(a, p, r) =
        {Key(from(x[1]), slice(x[1], x[2])) : x \in
           {y \in (0..Len(p)) \X (0..Len(p)) : Removes(slice(y[1], y[2]))}}
        \cup
        {Key(from(s), rest(s)) : s \in {x \in 0..Len(p) : r # <<>> /\ Removes(rest(x))}}
  BY DEF PrefixKeys
<1>2. ASSUME k \in PrefixKeys(a, p, r) PROVE SliceKey(k, a, p) \/ RestKey(k, a, p, r)
  <2>1. CASE \E x \in {y \in (0..Len(p)) \X (0..Len(p)) : Removes(slice(y[1], y[2]))} :
               k = Key(from(x[1]), slice(x[1], x[2]))
    <3>1. PICK x \in (0..Len(p)) \X (0..Len(p)) :
            Removes(slice(x[1], x[2])) /\ k = Key(from(x[1]), slice(x[1], x[2]))
      <4> HIDE DEF from, slice, rest
      <4>1. QED
        BY <2>1
    <3>2. PICK s \in 0..Len(p), e \in 0..Len(p) : s = x[1] /\ e = x[2]
      OBVIOUS
    <3> HIDE DEF from, slice, rest
    <3>3. Removes(slice(s, e)) /\ k = Key(from(s), slice(s, e))
      BY <3>1, <3>2
    <3> USE DEF from, slice
    <3>4. QED
      BY <3>3, Zenon DEF SliceKey
  <2>2. CASE \E s \in {x \in 0..Len(p) : r # <<>> /\ Removes(rest(x))} :
               k = Key(from(s), rest(s))
    BY <2>2, Zenon DEF RestKey
  <2> HIDE DEF from, slice, rest
  <2>3. QED
    BY <1>1, <1>2, <2>1, <2>2
<1>3. ASSUME SliceKey(k, a, p) PROVE k \in PrefixKeys(a, p, r)
  <2>1. PICK s \in 0..Len(p), e \in 0..Len(p) :
          Removes(slice(s, e)) /\ k = Key(from(s), slice(s, e))
    BY <1>3 DEF SliceKey
  <2> HIDE DEF from, slice, rest
  <2>4. <<s, e>> \in (0..Len(p)) \X (0..Len(p)) /\ <<s, e>>[1] = s /\ <<s, e>>[2] = e
    OBVIOUS
  <2>2. PICK x : x = <<s, e>> /\ x \in (0..Len(p)) \X (0..Len(p)) /\ x[1] = s /\ x[2] = e
    BY <2>4
  <2>3. QED
    BY <1>1, <2>1, <2>2
<1>4. ASSUME RestKey(k, a, p, r) PROVE k \in PrefixKeys(a, p, r)
  <2>1. PICK s \in 0..Len(p) : r # <<>> /\ Removes(rest(s)) /\ k = Key(from(s), rest(s))
    BY <1>4 DEF RestKey
  <2> HIDE DEF from, slice, rest
  <2>2. QED
    BY <1>1, <2>1
<1>5. QED
  BY <1>2, <1>3, <1>4

\* A slice that removes data is not empty.
LEMMA RemovesNotEmpty ==
  ASSUME NEW X, NEW p \in Seq(X), NEW s \in Nat, NEW e \in Nat, Removes(SubSeq(p, s + 1, e))
  PROVE  s < e
<1>1. SUFFICES ASSUME ~(s < e) PROVE FALSE
  OBVIOUS
<1>2. SubSeq(p, s + 1, e) = <<>>
  BY <1>1, SubSeqEmpty
<1>3. \E i \in DOMAIN <<>> : <<>>[i] \in Destructive
  BY <1>2 DEF Removes
<1>4. QED
  BY <1>3

\* Joining lists is associative.
LEMMA Reassociated ==
  ASSUME NEW a \in Seq(Content), NEW b \in Seq(Content), NEW c \in Seq(Content)
  PROVE  (a \o b) \o c = a \o (b \o c)
BY ConcatAssociative

\* A key that begins with n migrations or more after those of a.
StartsAfter(k, a, n) ==
  \E j \in Nat, c \in Seq(Content) : j >= n /\ k[1] = c /\ Len(c) = Len(a) + j

\* After the first n migrations no key is needed that was not before, and each
\* begins with those that are applied now.
LEMMA LaterKeys ==
  ASSUME NEW a \in Seq(Content), NEW p \in Seq(Content), NEW r \in Seq(Content),
         NEW n \in 0..Len(p),
         NEW k \in PrefixKeys(a \o SubSeq(p, 1, n), SubSeq(p, n + 1, Len(p)), r)
  PROVE  /\ k \in PrefixKeys(a, p, r)
         /\ StartsAfter(k, a, n)
<1> DEFINE t == SubSeq(p, n + 1, Len(p))
           b == a \o SubSeq(p, 1, n)
<1>1. n \in Nat /\ Len(p) \in Nat /\ n <= Len(p)
  BY LenProperties
<1>2. t \in Seq(Content) /\ Len(t) = Len(p) - n
  BY <1>1, PartFacts
<1>3. ASSUME NEW s \in 0..Len(t)
      PROVE  /\ n + s \in 0..Len(p)
             /\ b \o SubSeq(t, 1, s) = a \o SubSeq(p, 1, n + s)
             /\ a \o SubSeq(p, 1, n + s) \in Seq(Content)
             /\ Len(a \o SubSeq(p, 1, n + s)) = Len(a) + (n + s)
  <2>1. s \in Nat /\ s <= Len(p) - n /\ n + s \in Nat /\ n + s <= Len(p)
    BY <1>1, <1>2
  <2>2. SubSeq(p, 1, n) \o SubSeq(t, 1, s) = SubSeq(p, 1, n + s)
    BY <2>1, PartsJoin
  <2>3. SubSeq(p, 1, n) \in Seq(Content)
    <3>1. SubSeq(p, 0 + 1, n) \in Seq(Content)
      BY <1>1, PartFacts
    <3>2. QED
      BY <3>1
  <2>4. SubSeq(t, 1, s) \in Seq(Content)
    <3>1. SubSeq(t, 0 + 1, s) \in Seq(Content)
      <4> HIDE DEF t
      <4>1. QED
        BY <1>1, <1>2, <2>1, PartFacts
    <3>2. QED
      BY <3>1
  <2>5. SubSeq(p, 1, n + s) \in Seq(Content) /\ Len(SubSeq(p, 1, n + s)) = n + s
    <3>1. SubSeq(p, 0 + 1, n + s) \in Seq(Content) /\ Len(SubSeq(p, 0 + 1, n + s)) = n + s - 0
      BY <2>1, PartFacts
    <3>2. n + s - 0 = n + s
      BY <2>1
    <3>3. QED
      BY <3>1, <3>2
  <2> HIDE DEF t
  <2>6. b \o SubSeq(t, 1, s) = a \o (SubSeq(p, 1, n) \o SubSeq(t, 1, s))
    <3>1. PICK u \in Seq(Content) : u = SubSeq(p, 1, n)
      BY <2>3
    <3>2. PICK v \in Seq(Content) : v = SubSeq(t, 1, s)
      BY <2>4
    <3>3. (a \o u) \o v = a \o (u \o v)
      <4>1. \A x, y \in Seq(Content) : (a \o x) \o y = a \o (x \o y)
        BY Reassociated, Zenon
      <4>2. QED
        BY <4>1
    <3>4. QED
      BY <3>1, <3>2, <3>3
  <2>7. /\ a \o SubSeq(p, 1, n + s) \in Seq(Content)
        /\ Len(a \o SubSeq(p, 1, n + s)) = Len(a) + Len(SubSeq(p, 1, n + s))
    <3> DEFINE u == SubSeq(p, 1, n + s)
    <3>1. u \in Seq(Content)
      BY <2>5
    <3> HIDE DEF u
    <3>2. a \o u \in Seq(Content) /\ Len(a \o u) = Len(a) + Len(u)
      BY <3>1, ConcatProperties
    <3>3. QED
      BY <3>2 DEF u
  <2> HIDE DEF b
  <2>8. n + s \in 0..Len(p)
    BY <2>1
  <2>9. QED
    BY <2>2, <2>5, <2>6, <2>7, <2>8
<1>4. ASSUME SliceKey(k, b, t)
      PROVE  SliceKey(k, a, p) /\ \E s \in 0..Len(t) : k[1] = a \o SubSeq(p, 1, n + s)
  <2>1. PICK s \in 0..Len(t), e \in 0..Len(t) :
          /\ Removes(SubSeq(t, s + 1, e))
          /\ k = Key(b \o SubSeq(t, 1, s), SubSeq(t, s + 1, e))
    BY <1>4 DEF SliceKey
  <2>2. s \in Nat /\ e \in Nat /\ e <= Len(p) - n
    BY <1>1, <1>2
  <2>3. s < e
    <3> HIDE DEF t
    <3>1. QED
      BY <1>2, <2>1, <2>2, RemovesNotEmpty
  <2>4. SubSeq(t, s + 1, e) = SubSeq(p, (n + s) + 1, n + e)
    BY <2>2, <2>3, PartOfRest
  <2>5. n + s \in 0..Len(p) /\ n + e \in 0..Len(p)
    BY <1>1, <1>2, <2>2
  <2>6. b \o SubSeq(t, 1, s) = a \o SubSeq(p, 1, n + s)
    BY <1>3
  <2> HIDE DEF t, b
  <2>7. SliceKey(k, a, p)
    BY <2>1, <2>4, <2>5, <2>6 DEF SliceKey
  <2>8. k[1] = a \o SubSeq(p, 1, n + s)
    BY <2>1, <2>6 DEF Key
  <2>9. QED
    BY <2>7, <2>8
<1>5. ASSUME RestKey(k, b, t, r)
      PROVE  RestKey(k, a, p, r) /\ \E s \in 0..Len(t) : k[1] = a \o SubSeq(p, 1, n + s)
  <2>1. PICK s \in 0..Len(t) :
          /\ r # <<>> /\ Removes(SubSeq(t, s + 1, Len(t)) \o r)
          /\ k = Key(b \o SubSeq(t, 1, s), SubSeq(t, s + 1, Len(t)) \o r)
    BY <1>5 DEF RestKey
  <2>2. s \in Nat /\ Len(p) - n \in Nat /\ s <= Len(p) - n /\ n + (Len(p) - n) = Len(p)
    BY <1>1, <1>2
  <2>3. SubSeq(t, s + 1, Len(p) - n) = SubSeq(p, (n + s) + 1, n + (Len(p) - n))
    BY <2>2, PartOfRest
  <2>4. SubSeq(t, s + 1, Len(t)) = SubSeq(p, (n + s) + 1, Len(p))
    BY <1>2, <2>2, <2>3
  <2>5. n + s \in 0..Len(p)
    BY <1>1, <2>2
  <2>6. b \o SubSeq(t, 1, s) = a \o SubSeq(p, 1, n + s)
    BY <1>3
  <2> HIDE DEF t, b
  <2>7. RestKey(k, a, p, r)
    BY <2>1, <2>4, <2>5, <2>6 DEF RestKey
  <2>8. k[1] = a \o SubSeq(p, 1, n + s)
    BY <2>1, <2>6 DEF Key
  <2>9. QED
    BY <2>7, <2>8
<1>6. SliceKey(k, b, t) \/ RestKey(k, b, t, r)
  BY PrefixKeysAre
<1>7. PICK s \in 0..Len(t) : k[1] = a \o SubSeq(p, 1, n + s)
  BY <1>4, <1>5, <1>6
<1>8. \E j \in Nat, c \in Seq(Content) : j >= n /\ k[1] = c /\ Len(c) = Len(a) + j
  <2>1. PICK j \in Nat : j = n + s /\ j >= n
    BY <1>1, <1>2
  <2>2. PICK c \in Seq(Content) : c = k[1] /\ Len(c) = Len(a) + j
    BY <1>3, <1>7, <2>1
  <2>3. QED
    BY <2>1, <2>2
<1>9. k \in PrefixKeys(a, p, r)
  BY <1>4, <1>5, <1>6, PrefixKeysAre
<1>10. QED
  BY <1>8, <1>9 DEF StartsAfter

-----------------------------------------------------------------------------
(* Pending runs and the rows they leave *)

RowType == [id : Ids, checksum : 1..MaxEdition, edition : 1..MaxEdition]

\* The types of the files and of the tracking rows, one per migration.
FilesTyped == files \in [Ids -> 1..MaxEdition]
OneRowEach(h) == /\ h \in Seq(RowType)
                 /\ \A i, j \in DOMAIN h : h[i].id = h[j].id => i = j

\* A list of migrations as the files have them now, none of them twice.
IsRun(run) ==
  /\ run \in Seq(Content)
  /\ \A i \in 1..Len(run) : run[i] = Now(run[i].id)
  /\ \A i, j \in 1..Len(run) : run[i].id = run[j].id => i = j

\* The configured lists hold ids, none of them twice.
LEMMA ListFacts ==
  /\ Versioned \in Seq(Ids) /\ Repeatable \in Seq(Ids)
  /\ \A i, j \in 1..Len(Versioned) : Versioned[i] = Versioned[j] => i = j
  /\ \A i, j \in 1..Len(Repeatable) : Repeatable[i] = Repeatable[j] => i = j
  /\ \A id : id \in ToSet(Versioned) <=> \E i \in 1..Len(Versioned) : Versioned[i] = id
  /\ \A id : id \in ToSet(Repeatable) <=> \E i \in 1..Len(Repeatable) : Repeatable[i] = id
<1>1. \A ids \in {Versioned, Repeatable} :
        /\ ids \in Seq(ToSet(ids))
        /\ \A i, j \in DOMAIN ids : ids[i] = ids[j] => i = j
  BY GateAssumption DEF GateAssumption
<1>2. /\ Versioned \in Seq(ToSet(Versioned)) /\ Repeatable \in Seq(ToSet(Repeatable))
      /\ \A i, j \in DOMAIN Versioned : Versioned[i] = Versioned[j] => i = j
      /\ \A i, j \in DOMAIN Repeatable : Repeatable[i] = Repeatable[j] => i = j
  BY <1>1
<1>3. DOMAIN Versioned = 1..Len(Versioned) /\ DOMAIN Repeatable = 1..Len(Repeatable)
  BY <1>2, LenProperties
<1>4. ASSUME NEW s, NEW V, s \in Seq(V), V \subseteq Ids PROVE s \in Seq(Ids)
  <2>1. Len(s) \in Nat /\ s \in [1..Len(s) -> V]
    BY <1>4, LenProperties
  <2>2. s \in [1..Len(s) -> Ids]
    BY <1>4, <2>1
  <2>3. QED
    BY <2>1, <2>2
<1>5. Versioned \in Seq(Ids) /\ Repeatable \in Seq(Ids)
  <2>1. ToSet(Versioned) \subseteq Ids /\ ToSet(Repeatable) \subseteq Ids
    BY DEF Ids
  <2>2. QED
    BY <1>2, <1>4, <2>1
<1>6. QED
  BY <1>2, <1>3, <1>5 DEF ToSet

\* The contents of a list of ids.
LEMMA ContentsAre ==
  ASSUME FilesTyped, NEW ids \in Seq(Ids)
  PROVE  /\ Contents(ids) \in Seq(Content) /\ Len(Contents(ids)) = Len(ids)
         /\ \A i \in 1..Len(ids) : /\ ids[i] \in Ids
                                   /\ Contents(ids)[i] = Now(ids[i])
                                   /\ Contents(ids)[i].id = ids[i]
<1>1. Len(ids) \in Nat /\ DOMAIN ids = 1..Len(ids) /\ \A i \in 1..Len(ids) : ids[i] \in Ids
  BY LenProperties, ElementOfSeq
<1>2. \A id \in Ids : Now(id) \in Content /\ Now(id).id = id
  BY DEF Now, Content, FilesTyped, Ids
<1>3. Contents(ids) = [i \in 1..Len(ids) |-> Now(ids[i])]
  BY <1>1 DEF Contents
<1>4. Contents(ids) \in Seq(Content) /\ Len(Contents(ids)) = Len(ids)
  <2>1. Contents(ids) \in [1..Len(ids) -> Content]
    BY <1>1, <1>2, <1>3
  <2>2. Contents(ids) \in Seq(Content)
    BY <1>1, <2>1
  <2>3. QED
    BY <1>1, <1>3, <2>2, LenProperties
<1>5. QED
  BY <1>1, <1>2, <1>3, <1>4

\* The pending lists: the ids that a filter keeps, as the files have them.
Unapplied == {id \in Ids : ~Applied(id)}
Stale == {id \in Ids : ~Applied(id) \/ RowOf(id).checksum # files[id]}

\* What is pending of a list of ids, of which a set S is to run.
PendingOf(p, s, S) ==
  /\ IsRun(p)
  /\ \A i \in 1..Len(p) : p[i].id \in S /\ \E j \in 1..Len(s) : s[j] = p[i].id
  /\ \A j \in 1..Len(s) : s[j] \in S => \E i \in 1..Len(p) : p[i].id = s[j]

\* What pending() makes of one configured list.
LEMMA PendingOfList ==
  ASSUME FilesTyped, NEW s \in Seq(Ids), NEW S,
         \A i, j \in 1..Len(s) : s[i] = s[j] => i = j
  PROVE  PendingOf(Contents(Where(s, S)), s, S)
<1>1. PICK w : w = Where(s, S)
  OBVIOUS
<1>10. w \in Seq(Ids \cap S) /\ Kept(w, s, S)
  BY <1>1, WhereMembers, WhereKept
<1>2. /\ w \in Seq(Ids \cap S)
      /\ \A k \in 1..Len(w) : \E i \in 1..Len(s) : s[i] = w[k]
      /\ \A i \in 1..Len(s) : s[i] \in S => \E k \in 1..Len(w) : w[k] = s[i]
  BY <1>10 DEF Kept
<1>3. \A i, j \in 1..Len(w) : w[i] = w[j] => i = j
  BY <1>1, WhereDistinct
<1>4. w \in Seq(Ids) /\ \A i \in 1..Len(w) : w[i] \in S
  <2>1. Len(w) \in Nat /\ w \in [1..Len(w) -> Ids \cap S]
    BY <1>2, LenProperties
  <2>2. w \in [1..Len(w) -> Ids] /\ \A i \in 1..Len(w) : w[i] \in S
    BY <2>1
  <2>3. QED
    BY <2>1, <2>2
<1>5. PICK p : p = Contents(w)
  OBVIOUS
<1>6. /\ p \in Seq(Content) /\ Len(p) = Len(w)
      /\ \A i \in 1..Len(w) : p[i] = Now(w[i]) /\ p[i].id = w[i]
  BY <1>4, <1>5, ContentsAre
<1>7. IsRun(p)
  BY <1>3, <1>6 DEF IsRun
<1>8. PendingOf(p, s, S)
  BY <1>2, <1>4, <1>6, <1>7 DEF PendingOf
<1>9. QED
  BY <1>1, <1>5, <1>8

\* pending() returns the unapplied versioned migrations and the repeatables
\* without a row or with another checksum.
LEMMA PendingAre ==
  ASSUME FilesTyped
  PROVE  /\ PendingOf(PendingVersioned, Versioned, Unapplied)
         /\ PendingOf(PendingRepeatables, Repeatable, Stale)
<1>1. /\ PendingVersioned = Contents(Where(Versioned, Unapplied))
      /\ PendingRepeatables = Contents(Where(Repeatable, Stale))
  BY DEF PendingVersioned, PendingRepeatables, Unapplied, Stale
<1>2. PendingOf(Contents(Where(Versioned, Unapplied)), Versioned, Unapplied)
  BY ListFacts, PendingOfList
<1>3. PendingOf(Contents(Where(Repeatable, Stale)), Repeatable, Stale)
  BY ListFacts, PendingOfList
<1>4. QED
  BY <1>1, <1>2, <1>3

\* All that is pending is one list.
LEMMA FullRunIs ==
  ASSUME FilesTyped
  PROVE  /\ IsRun(FullRun)
         /\ Len(FullRun) = Len(PendingVersioned) + Len(PendingRepeatables)
         /\ \A i \in 1..Len(PendingVersioned) : FullRun[i] = PendingVersioned[i]
         /\ \A i \in 1..Len(PendingRepeatables) :
              FullRun[Len(PendingVersioned) + i] = PendingRepeatables[i]
<1> DEFINE P == PendingVersioned
           R == PendingRepeatables
<1>1. /\ IsRun(P) /\ IsRun(R)
      /\ \A i \in 1..Len(P) : P[i].id \in ToSet(Versioned)
      /\ \A i \in 1..Len(R) : R[i].id \in ToSet(Repeatable)
  BY PendingAre, ListFacts DEF PendingOf
<1>2. ToSet(Versioned) \cap ToSet(Repeatable) = {}
  BY GateAssumption DEF GateAssumption
<1>3. FullRun = P \o R
  BY DEF FullRun
<1> HIDE DEF P, R
<1>4. /\ FullRun \in Seq(Content) /\ Len(FullRun) = Len(P) + Len(R)
      /\ Len(P) \in Nat /\ Len(R) \in Nat
      /\ \A i \in 1..Len(P) + Len(R) :
           FullRun[i] = IF i <= Len(P) THEN P[i] ELSE R[i - Len(P)]
  BY <1>1, <1>3, ConcatProperties, LenProperties DEF IsRun
<1>5. \A i \in 1..Len(P) : FullRun[i] = P[i]
  BY <1>4
<1>6. ASSUME NEW i \in 1..Len(R) PROVE FullRun[Len(P) + i] = R[i]
  <2>1. Len(P) + i \in 1..Len(P) + Len(R) /\ ~(Len(P) + i <= Len(P)) /\ Len(P) + i - Len(P) = i
    BY <1>4
  <2>2. QED
    BY <1>4, <2>1
<1>7. ASSUME NEW i \in 1..Len(P) + Len(R)
      PROVE  \/ i \in 1..Len(P) /\ FullRun[i] = P[i]
             \/ i - Len(P) \in 1..Len(R) /\ FullRun[i] = R[i - Len(P)]
  BY <1>4
<1>8. \A i \in 1..Len(FullRun) : FullRun[i] = Now(FullRun[i].id)
  <2>1. ASSUME NEW i \in 1..Len(FullRun) PROVE FullRun[i] = Now(FullRun[i].id)
    <3>1. i \in 1..Len(P) + Len(R)
      BY <1>4
    <3>2. CASE i \in 1..Len(P) /\ FullRun[i] = P[i]
      <4>1. P[i] = Now(P[i].id)
        BY <1>1, <3>2 DEF IsRun
      <4>2. QED
        BY <3>2, <4>1
    <3>3. CASE i - Len(P) \in 1..Len(R) /\ FullRun[i] = R[i - Len(P)]
      <4>1. R[i - Len(P)] = Now(R[i - Len(P)].id)
        BY <1>1, <3>3 DEF IsRun
      <4>2. QED
        BY <3>3, <4>1
    <3>4. QED
      BY <1>7, <3>1, <3>2, <3>3
  <2>2. QED
    BY <2>1
<1>9. ASSUME NEW i \in 1..Len(FullRun), NEW j \in 1..Len(FullRun), FullRun[i].id = FullRun[j].id
      PROVE  i = j
  <2>1. CASE /\ i \in 1..Len(P) /\ FullRun[i] = P[i]
             /\ j \in 1..Len(P) /\ FullRun[j] = P[j]
    BY <1>1, <1>9, <2>1 DEF IsRun
  <2>2. CASE /\ i - Len(P) \in 1..Len(R) /\ FullRun[i] = R[i - Len(P)]
             /\ j - Len(P) \in 1..Len(R) /\ FullRun[j] = R[j - Len(P)]
    <3>1. i - Len(P) = j - Len(P)
      BY <1>1, <1>9, <2>2 DEF IsRun
    <3>2. QED
      BY <1>4, <3>1
  <2>3. CASE /\ i \in 1..Len(P) /\ FullRun[i] = P[i]
             /\ j - Len(P) \in 1..Len(R) /\ FullRun[j] = R[j - Len(P)]
    BY <1>1, <1>2, <1>9, <2>3
  <2>4. CASE /\ i - Len(P) \in 1..Len(R) /\ FullRun[i] = R[i - Len(P)]
             /\ j \in 1..Len(P) /\ FullRun[j] = P[j]
    BY <1>1, <1>2, <1>9, <2>4
  <2>5. QED
    BY <1>4, <1>7, <2>1, <2>2, <2>3, <2>4
<1>10. QED
  BY <1>4, <1>5, <1>6, <1>8, <1>9 DEF IsRun, P, R

\* What up() may apply is all that is pending or a beginning of the versioned
\* part, and begins as all that is pending does.
LEMMA RunsAre ==
  ASSUME FilesTyped, NEW run \in RunSets
  PROVE  /\ IsRun(run) /\ \A i \in 1..Len(run) : i \in 1..Len(FullRun) /\ run[i] = FullRun[i]
         /\ run = FullRun \/ Len(run) <= Len(PendingVersioned)
<1> DEFINE P == PendingVersioned
<1>1. /\ IsRun(FullRun) /\ P \in Seq(Content) /\ Len(P) \in Nat
      /\ \A i \in 1..Len(P) : FullRun[i] = P[i] /\ i \in 1..Len(FullRun)
  <2>1. IsRun(P) /\ IsRun(PendingRepeatables)
    BY PendingAre DEF PendingOf
  <2>2. Len(P) \in Nat /\ Len(PendingRepeatables) \in Nat
    BY <2>1, LenProperties DEF IsRun
  <2>3. QED
    BY <2>1, <2>2, FullRunIs DEF IsRun
<1>2. CASE run = FullRun
  BY <1>1, <1>2
<1>3. CASE \E t \in 0..Len(P) : run = SubSeq(P, 0 + 1, t)
  <2>1. PICK t \in 0..Len(P) : run = SubSeq(P, 0 + 1, t)
    BY <1>3
  <2> HIDE DEF P
  <2>2. /\ run \in Seq(Content) /\ Len(run) = t - 0
        /\ \A k \in 1..(t - 0) : run[k] = P[0 + k]
    BY <1>1, <2>1, PartFacts
  <2>3. t \in Nat /\ Len(run) = t /\ t <= Len(P) /\ \A k \in 1..t : run[k] = P[k] /\ k \in 1..Len(P)
    BY <1>1, <2>2
  <2>4. \A i \in 1..Len(run) : i \in 1..Len(FullRun) /\ run[i] = FullRun[i]
    BY <1>1, <2>3
  <2>5. IsRun(run)
    BY <1>1, <2>2, <2>4 DEF IsRun
  <2>6. QED
    BY <2>3, <2>4, <2>5 DEF P
<1>4. run = FullRun \/ \E t \in 0..Len(P) : run = SubSeq(P, 0 + 1, t)
  BY DEF RunSets, RunTo
<1>5. QED
  BY <1>2, <1>3, <1>4

\* The rows after the first n migrations of a run: each is that of one of
\* these, or an old one that none of these has written.
AfterRun(h, run, n) ==
  /\ OneRowEach(h)
  /\ \A i \in DOMAIN h :
       \/ \E j \in 1..n : h[i] = Row(run[j])
       \/ \E k \in DOMAIN history :
            h[i] = history[k] /\ \A j \in 1..n : run[j].id # history[k].id
  /\ \A k \in DOMAIN history : \E i \in DOMAIN h : h[i].id = history[k].id
  /\ \A j \in 1..n : \E i \in DOMAIN h : h[i].id = run[j].id

\* The row of a migration as the files have it now.
LEMMA RowIs ==
  ASSUME FilesTyped, NEW m \in Content
  PROVE  Row(m) \in RowType /\ Row(m).id = m.id /\ Row(m).checksum = m.edition
BY DEF Row, RowType, Content, Ids

\* The rows after the first n migrations of a run are such rows.
LEMMA RowsAfterAre ==
  ASSUME FilesTyped, OneRowEach(history), NEW run, IsRun(run), NEW n \in 0..Len(run)
  PROVE  AfterRun(RowsAfter(run, n), run, n)
<1> DEFINE S == {m \in Content : ~Applied(m.id)}
<1>1. PICK u : u = SubSeq(run, 1, n)
  OBVIOUS
<1>2. /\ u \in Seq(Content) /\ Len(u) = n /\ n \in Nat /\ Len(run) \in Nat
      /\ \A k \in 1..n : u[k] = run[k] /\ k \in 1..Len(run)
  <2>1. run \in Seq(Content) /\ Len(run) \in Nat /\ n \in Nat /\ 0 <= n /\ n <= Len(run)
    BY LenProperties DEF IsRun
  <2>2. /\ SubSeq(run, 0 + 1, n) \in Seq(Content) /\ Len(SubSeq(run, 0 + 1, n)) = n - 0
        /\ \A k \in 1..(n - 0) : SubSeq(run, 0 + 1, n)[k] = run[0 + k]
    BY <2>1, PartFacts
  <2>3. n - 0 = n /\ 0 + 1 = 1 /\ \A k \in 1..n : 0 + k = k /\ k \in 1..Len(run)
    BY <2>1
  <2>4. QED
    BY <1>1, <2>1, <2>2, <2>3
<1>3. PICK f : f = Where(u, S)
  OBVIOUS
<1>4. /\ f \in Seq(Content \cap S) /\ Kept(f, u, S)
      /\ \A i, j \in 1..Len(f) : f[i] = f[j] => i = j
  <2>1. \A i, j \in 1..Len(u) : u[i] = u[j] => i = j
    BY <1>2 DEF IsRun
  <2>2. f \in Seq(Content \cap S) /\ Kept(f, u, S)
    BY <1>2, <1>3, WhereMembers, WhereKept
  <2>3. \A i, j \in 1..Len(f) : f[i] = f[j] => i = j
    BY <1>2, <1>3, <2>1, WhereDistinct
  <2>4. QED
    BY <2>2, <2>3
<1>5. /\ Len(f) \in Nat /\ DOMAIN f = 1..Len(f)
      /\ \A k \in 1..Len(f) : f[k] \in Content /\ ~Applied(f[k].id)
      /\ \A k \in 1..Len(f) : \E j \in 1..n : run[j] = f[k]
      /\ \A j \in 1..n : ~Applied(run[j].id) => \E k \in 1..Len(f) : f[k] = run[j]
  <2>1. Len(f) \in Nat /\ DOMAIN f = 1..Len(f) /\ \A k \in 1..Len(f) : f[k] \in Content \cap S
    BY <1>4, LenProperties, ElementOfSeq
  <2>2. \A k \in 1..Len(f) : \E j \in 1..n : run[j] = f[k]
    BY <1>2, <1>4 DEF Kept
  <2>3. ASSUME NEW j \in 1..n, ~Applied(run[j].id) PROVE \E k \in 1..Len(f) : f[k] = run[j]
    <3>1. j \in 1..Len(u) /\ u[j] = run[j] /\ u[j] \in S
      <4>1. j \in 1..Len(u) /\ u[j] = run[j]
        BY <1>2
      <4>2. u[j] \in Content
        BY <1>2, <4>1, ElementOfSeq
      <4>3. QED
        BY <2>3, <4>1, <4>2
    <3>2. \E k \in 1..Len(f) : f[k] = u[j]
      <4> HIDE DEF S
      <4>1. QED
        BY <1>4, <3>1 DEF Kept
    <3>3. QED
      BY <3>1, <3>2
  <2>4. QED
    BY <2>1, <2>2, <2>3
<1> DEFINE again(id) == \E i \in 1..n : run[i].id = id
<1>6. PICK m \in Nat : m = Len(history) /\ DOMAIN history = 1..m
  BY LenProperties DEF OneRowEach
<1>7. PICK a : a = [i \in 1..m |->
                      IF again(history[i].id) THEN Row(Now(history[i].id)) ELSE history[i]]
  OBVIOUS
<1>8. PICK b : b = [i \in 1..Len(f) |-> Row(f[i])]
  OBVIOUS
<1>9. RowsAfter(run, n) = a \o b
  BY <1>1, <1>3, <1>5, <1>6, <1>7, <1>8 DEF RowsAfter
<1>10. ASSUME NEW i \in 1..m
       PROVE  /\ a[i] \in RowType /\ a[i].id = history[i].id
              /\ \/ \E j \in 1..n : a[i] = Row(run[j])
                 \/ a[i] = history[i] /\ \A j \in 1..n : run[j].id # history[i].id
  <2>1. history[i] \in RowType
    BY <1>6, ElementOfSeq DEF OneRowEach
  <2>2. CASE again(history[i].id)
    <3>1. PICK j \in 1..n : run[j].id = history[i].id
      BY <2>2
    <3>2. run[j] \in Content /\ run[j] = Now(run[j].id)
      BY <1>2, ElementOfSeq DEF IsRun
    <3>3. a[i] = Row(run[j])
      BY <1>7, <2>2, <3>1, <3>2
    <3>4. QED
      BY <3>1, <3>2, <3>3, RowIs
  <2>3. CASE ~again(history[i].id)
    <3>1. a[i] = history[i]
      BY <1>7, <2>3
    <3>2. QED
      BY <2>1, <2>3, <3>1
  <2>4. QED
    BY <2>2, <2>3
<1>11. ASSUME NEW k \in 1..Len(f)
       PROVE  /\ b[k] \in RowType /\ b[k].id = f[k].id
              /\ \E j \in 1..n : run[j] = f[k] /\ b[k] = Row(run[j])
  <2>1. b[k] = Row(f[k]) /\ f[k] \in Content
    BY <1>5, <1>8
  <2>2. QED
    BY <1>5, <2>1, RowIs
<1>12. a \in Seq(RowType) /\ Len(a) = m /\ b \in Seq(RowType) /\ Len(b) = Len(f)
  <2>1. a \in [1..m -> RowType]
    BY <1>7, <1>10
  <2>2. b \in [1..Len(f) -> RowType]
    BY <1>8, <1>11
  <2>6. a \in Seq(RowType)
    BY <2>1
  <2>7. PICK l \in Nat : l = Len(f)
    BY <1>5
  <2>8. b \in [1..l -> RowType]
    BY <2>2, <2>7
  <2>9. b \in Seq(RowType)
    BY <2>8
  <2>3. a \in Seq(RowType) /\ b \in Seq(RowType)
    BY <2>6, <2>9
  <2>4. DOMAIN a = 1..m /\ DOMAIN b = 1..Len(f)
    BY <1>7, <1>8
  <2>5. QED
    BY <1>5, <2>3, <2>4, LenProperties
<1>13. PICK h : h = a \o b
  OBVIOUS
<1>14. /\ h \in Seq(RowType) /\ Len(h) = m + Len(f) /\ DOMAIN h = 1..(m + Len(f))
       /\ \A i \in 1..(m + Len(f)) : h[i] = IF i <= m THEN a[i] ELSE b[i - m]
  <2>1. /\ h \in Seq(RowType) /\ Len(h) = Len(a) + Len(b)
        /\ \A i \in 1..Len(a) + Len(b) : h[i] = IF i <= Len(a) THEN a[i] ELSE b[i - Len(a)]
    <3>1. a \in Seq(RowType) /\ b \in Seq(RowType)
      BY <1>12
    <3>2. QED
      BY <1>13, <3>1, ConcatProperties
  <2>2. Len(a) = m /\ Len(b) = Len(f)
    BY <1>12
  <2>3. DOMAIN h = 1..Len(h)
    BY <2>1, LenProperties
  <2>4. QED
    BY <2>1, <2>2, <2>3
<1>15. /\ \A i \in 1..m : i \in DOMAIN h /\ h[i] = a[i]
       /\ \A k \in 1..Len(f) : m + k \in DOMAIN h /\ h[m + k] = b[k]
       /\ \A i \in DOMAIN h : \/ i \in 1..m /\ h[i] = a[i]
                              \/ i - m \in 1..Len(f) /\ h[i] = b[i - m]
  <2>1. \A i \in 1..m : i \in 1..(m + Len(f)) /\ i <= m
    BY <1>5
  <2>2. \A k \in 1..Len(f) : m + k \in 1..(m + Len(f)) /\ ~(m + k <= m) /\ m + k - m = k
    BY <1>5
  <2>3. \A i \in 1..(m + Len(f)) : (i \in 1..m /\ i <= m) \/ (i - m \in 1..Len(f) /\ ~(i <= m))
    BY <1>5
  <2>4. QED
    BY <1>14, <2>1, <2>2, <2>3
<1>16. OneRowEach(h)
  <2>1. ASSUME NEW i \in DOMAIN h, NEW j \in DOMAIN h, h[i].id = h[j].id PROVE i = j
    <3>1. CASE i \in 1..m /\ h[i] = a[i] /\ j \in 1..m /\ h[j] = a[j]
      BY <1>6, <1>10, <2>1, <3>1 DEF OneRowEach
    <3>2. CASE i \in 1..m /\ h[i] = a[i] /\ j - m \in 1..Len(f) /\ h[j] = b[j - m]
      <4>1. history[i].id = f[j - m].id /\ ~Applied(f[j - m].id)
        BY <1>5, <1>10, <1>11, <2>1, <3>2
      <4>2. QED
        BY <1>6, <3>2, <4>1 DEF Applied
    <3>3. CASE j \in 1..m /\ h[j] = a[j] /\ i - m \in 1..Len(f) /\ h[i] = b[i - m]
      <4>1. history[j].id = f[i - m].id /\ ~Applied(f[i - m].id)
        BY <1>5, <1>10, <1>11, <2>1, <3>3
      <4>2. QED
        BY <1>6, <3>3, <4>1 DEF Applied
    <3>4. CASE /\ i - m \in 1..Len(f) /\ h[i] = b[i - m]
               /\ j - m \in 1..Len(f) /\ h[j] = b[j - m]
      <4>1. f[i - m].id = f[j - m].id
        BY <1>11, <2>1, <3>4
      <4>2. PICK x \in 1..n, y \in 1..n : run[x] = f[i - m] /\ run[y] = f[j - m]
        BY <1>11, <3>4
      <4>3. x = y
        BY <1>2, <4>1, <4>2 DEF IsRun
      <4>4. i - m = j - m
        BY <1>4, <3>4, <4>2, <4>3
      <4>5. i \in Int /\ j \in Int
        BY <1>14
      <4>6. QED
        BY <4>4, <4>5
    <3>5. QED
      BY <1>15, <3>1, <3>2, <3>3, <3>4
  <2>2. QED
    BY <1>14, <2>1 DEF OneRowEach
<1>17. ASSUME NEW i \in DOMAIN h
       PROVE  \/ \E j \in 1..n : h[i] = Row(run[j])
              \/ \E k \in DOMAIN history :
                   h[i] = history[k] /\ \A j \in 1..n : run[j].id # history[k].id
  <2>1. CASE i \in 1..m /\ h[i] = a[i]
    BY <1>6, <1>10, <2>1
  <2>2. CASE i - m \in 1..Len(f) /\ h[i] = b[i - m]
    BY <1>11, <2>2
  <2>3. QED
    BY <1>15, <2>1, <2>2
<1>18. ASSUME NEW k \in DOMAIN history PROVE \E i \in DOMAIN h : h[i].id = history[k].id
  BY <1>6, <1>10, <1>15
<1>19. ASSUME NEW j \in 1..n PROVE \E i \in DOMAIN h : h[i].id = run[j].id
  <2>1. CASE Applied(run[j].id)
    <3>1. PICK k \in DOMAIN history : history[k].id = run[j].id
      BY <2>1 DEF Applied
    <3>2. QED
      BY <1>18, <3>1
  <2>2. CASE ~Applied(run[j].id)
    <3>1. PICK k \in 1..Len(f) : f[k] = run[j]
      BY <1>5, <2>2
    <3>2. b[k].id = run[j].id /\ m + k \in DOMAIN h /\ h[m + k] = b[k]
      BY <1>11, <1>15, <3>1
    <3>3. QED
      BY <3>2
  <2>3. QED
    BY <2>1, <2>2
<1>20. QED
  <2>1. AfterRun(h, run, n)
    BY <1>16, <1>17, <1>18, <1>19 DEF AfterRun
  <2>2. QED
    BY <1>9, <1>13, <2>1

\* The row of a migration in a list of rows.
RowFor(h, id) == h[CHOOSE i \in DOMAIN h : h[i].id = id]

\* A migration has one row, which this finds.
LEMMA RowForIs ==
  ASSUME NEW h, OneRowEach(h), NEW i \in DOMAIN h, NEW id, h[i].id = id
  PROVE  RowFor(h, id) = h[i]
<1>1. PICK k : k = (CHOOSE j \in DOMAIN h : h[j].id = id)
  OBVIOUS
<1>2. k \in DOMAIN h /\ h[k].id = id
  BY <1>1
<1>3. k = i
  BY <1>2 DEF OneRowEach
<1>4. QED
  BY <1>1, <1>3 DEF RowFor

\* What is applied after the first n migrations of a run, and by which row.
LEMMA AppliedAfter ==
  ASSUME FilesTyped, OneRowEach(history), NEW run, IsRun(run), NEW n \in 0..Len(run),
         history' = RowsAfter(run, n)
  PROVE  /\ OneRowEach(history')
         /\ \A id : Applied(id)' <=> Applied(id) \/ \E j \in 1..n : run[j].id = id
         /\ \A j \in 1..n : RowOf(run[j].id)' = Row(run[j])
         /\ \A id : Applied(id) /\ (\A j \in 1..n : run[j].id # id) => RowOf(id)' = RowOf(id)
<1> DEFINE h == history'
<1>1. AfterRun(h, run, n)
  BY RowsAfterAre
<1>2. \A id : RowOf(id) = RowFor(history, id) /\ RowOf(id)' = RowFor(h, id)
  BY DEF RowOf, RowFor
<1>3. \A id : Applied(id)' <=> \E i \in DOMAIN h : h[i].id = id
  BY DEF Applied
<1>4. n \in Nat /\ Len(run) \in Nat /\ \A j \in 1..n : j \in 1..Len(run) /\ run[j] \in Content
  <2>1. run \in Seq(Content) /\ Len(run) \in Nat /\ n \in Nat /\ n <= Len(run)
    BY LenProperties DEF IsRun
  <2>2. \A j \in 1..n : j \in 1..Len(run)
    BY <2>1
  <2>3. QED
    BY <2>1, <2>2, ElementOfSeq
<1> HIDE DEF h
<1>5. OneRowEach(h)
  BY <1>1 DEF AfterRun
<1>6. ASSUME NEW i \in DOMAIN h, NEW j \in 1..n, h[i].id = run[j].id PROVE h[i] = Row(run[j])
  <2>1. CASE \E x \in 1..n : h[i] = Row(run[x])
    <3>1. PICK x \in 1..n : h[i] = Row(run[x])
      BY <2>1
    <3>2. run[x].id = run[j].id
      BY <1>4, <1>6, <3>1, RowIs
    <3>3. x = j
      BY <1>4, <3>2 DEF IsRun
    <3>4. QED
      BY <3>1, <3>3
  <2>2. CASE \E k \in DOMAIN history :
               h[i] = history[k] /\ \A x \in 1..n : run[x].id # history[k].id
    BY <1>6, <2>2
  <2>3. QED
    BY <1>1, <2>1, <2>2 DEF AfterRun
<1>7. ASSUME NEW id PROVE Applied(id)' <=> Applied(id) \/ \E j \in 1..n : run[j].id = id
  <2>1. ASSUME NEW i \in DOMAIN h, h[i].id = id
        PROVE  Applied(id) \/ \E j \in 1..n : run[j].id = id
    <3>1. CASE \E x \in 1..n : h[i] = Row(run[x])
      <4>1. PICK x \in 1..n : h[i] = Row(run[x])
        BY <3>1
      <4>2. run[x].id = id
        BY <1>4, <2>1, <4>1, RowIs
      <4>3. QED
        BY <4>2
    <3>2. CASE \E k \in DOMAIN history : h[i] = history[k]
      BY <2>1, <3>2 DEF Applied
    <3>3. QED
      BY <1>1, <3>1, <3>2 DEF AfterRun
  <2>2. ASSUME Applied(id) PROVE \E i \in DOMAIN h : h[i].id = id
    BY <1>1, <2>2 DEF Applied, AfterRun
  <2>3. ASSUME NEW j \in 1..n, run[j].id = id PROVE \E i \in DOMAIN h : h[i].id = id
    BY <1>1, <2>3 DEF AfterRun
  <2>4. QED
    BY <1>3, <2>1, <2>2, <2>3
<1>8. ASSUME NEW j \in 1..n PROVE RowOf(run[j].id)' = Row(run[j])
  <2>1. PICK i \in DOMAIN h : h[i].id = run[j].id
    BY <1>1 DEF AfterRun
  <2>2. RowFor(h, run[j].id) = h[i]
    BY <1>5, <2>1, RowForIs
  <2>3. QED
    BY <1>2, <1>6, <2>1, <2>2
<1>9. ASSUME NEW id, Applied(id), \A j \in 1..n : run[j].id # id PROVE RowOf(id)' = RowOf(id)
  <2>1. PICK k \in DOMAIN history : history[k].id = id
    BY <1>9 DEF Applied
  <2>2. PICK i \in DOMAIN h : h[i].id = id
    BY <1>1, <2>1 DEF AfterRun
  <2>3. ~\E x \in 1..n : h[i] = Row(run[x])
    BY <1>4, <1>9, <2>2, RowIs
  <2>4. PICK l \in DOMAIN history : h[i] = history[l]
    BY <1>1, <2>3 DEF AfterRun
  <2>5. RowFor(history, id) = history[l]
    BY <2>2, <2>4, RowForIs
  <2>6. RowFor(h, id) = h[i]
    BY <1>5, <2>2, RowForIs
  <2>7. QED
    BY <1>2, <2>4, <2>5, <2>6
<1>10. QED
  BY <1>5, <1>7, <1>8, <1>9 DEF h

\* A run that went through leaves nothing pending.
LEMMA NothingLeft ==
  ASSUME FilesTyped, OneRowEach(history), NEW run, run = FullRun,
         history' = RowsAfter(run, Len(run)), files' = files
  PROVE  PendingVersioned' = <<>> /\ PendingRepeatables' = <<>>
<1> DEFINE P == PendingVersioned
           R == PendingRepeatables
<1>1. /\ IsRun(run) /\ Len(run) = Len(P) + Len(R)
      /\ \A i \in 1..Len(P) : run[i] = P[i]
      /\ \A i \in 1..Len(R) : run[Len(P) + i] = R[i]
  BY FullRunIs
<1>2. PendingOf(P, Versioned, Unapplied) /\ PendingOf(R, Repeatable, Stale)
  BY PendingAre
<1>3. PICK n \in 0..Len(run) : n = Len(run)
  <2>1. Len(run) \in Nat
    BY <1>1, LenProperties DEF IsRun
  <2>2. QED
    BY <2>1
<1>4. /\ \A id : Applied(id)' <=> Applied(id) \/ \E j \in 1..n : run[j].id = id
      /\ \A j \in 1..n : RowOf(run[j].id)' = Row(run[j])
      /\ \A id : Applied(id) /\ (\A j \in 1..n : run[j].id # id) => RowOf(id)' = RowOf(id)
  BY <1>1, <1>3, AppliedAfter
<1> HIDE DEF P, R
<1>5. Len(P) \in Nat /\ Len(R) \in Nat
  BY <1>2, LenProperties DEF PendingOf, IsRun
<1>6. ASSUME NEW i \in 1..Len(Versioned) PROVE Versioned[i] \notin Unapplied'
  <2>1. CASE Versioned[i] \in Unapplied
    <3>1. PICK j \in 1..Len(P) : P[j].id = Versioned[i]
      BY <1>2, <2>1 DEF PendingOf
    <3>2. j \in 1..n /\ run[j].id = Versioned[i]
      BY <1>1, <1>3, <1>5, <3>1
    <3>3. QED
      BY <1>4, <3>2 DEF Unapplied
  <2>2. CASE Versioned[i] \notin Unapplied
    BY <1>4, <2>2 DEF Unapplied
  <2>3. QED
    BY <2>1, <2>2
<1>7. ASSUME NEW i \in 1..Len(Repeatable) PROVE Repeatable[i] \notin Stale'
  <2>1. CASE \E j \in 1..n : run[j].id = Repeatable[i]
    <3>1. PICK j \in 1..n : run[j].id = Repeatable[i]
      BY <2>1
    <3>2. run[j] = Now(run[j].id) /\ run[j] \in Content
      BY <1>1, <1>3, <3>1, ElementOfSeq DEF IsRun
    <3>3. RowOf(Repeatable[i])' = Row(run[j])
      BY <1>4, <3>1
    <3>4. Row(run[j]).checksum = files[Repeatable[i]]
      BY <3>1, <3>2, RowIs DEF Now
    <3>5. Applied(Repeatable[i])'
      BY <1>4, <3>1
    <3>6. RowOf(Repeatable[i])'.checksum = files'[Repeatable[i]]
      BY <3>3, <3>4
    <3>7. QED
      BY <3>5, <3>6 DEF Stale
  <2>2. CASE ~\E j \in 1..n : run[j].id = Repeatable[i]
    <3>1. Repeatable[i] \notin Stale
      <4>1. ASSUME Repeatable[i] \in Stale PROVE FALSE
        <5>1. PICK j \in 1..Len(R) : R[j].id = Repeatable[i]
          BY <1>2, <4>1 DEF PendingOf
        <5>2. Len(P) + j \in 1..n /\ run[Len(P) + j].id = Repeatable[i]
          BY <1>1, <1>3, <1>5, <5>1
        <5>3. QED
          BY <2>2, <5>2
      <4>2. QED
        BY <4>1
    <3>2. Repeatable[i] \in Ids
      BY ListFacts, ElementOfSeq
    <3>3. Applied(Repeatable[i]) /\ RowOf(Repeatable[i]).checksum = files[Repeatable[i]]
      BY <3>1, <3>2 DEF Stale
    <3>4. RowOf(Repeatable[i])' = RowOf(Repeatable[i]) /\ Applied(Repeatable[i])'
      BY <1>4, <2>2, <3>3
    <3>5. RowOf(Repeatable[i])'.checksum = files'[Repeatable[i]]
      BY <3>3, <3>4
    <3>6. QED
      BY <3>4, <3>5 DEF Stale
  <2>3. QED
    BY <2>1, <2>2
<1>8. Where(Versioned, Unapplied') = <<>> /\ Where(Repeatable, Stale') = <<>>
  BY <1>6, <1>7, ListFacts, WhereNone
<1>9. /\ PendingVersioned' = Contents(Where(Versioned, Unapplied'))
      /\ PendingRepeatables' = Contents(Where(Repeatable, Stale'))
  BY DEF PendingVersioned, PendingRepeatables, Unapplied, Stale, Contents, Now
<1>10. Contents(<<>>) = <<>>
  BY DEF Contents
<1>11. QED
  BY <1>8, <1>9, <1>10

\* What the tracking table says is applied, as a list of contents.
LEMMA RecordedIs ==
  ASSUME OneRowEach(history)
  PROVE  /\ Recorded \in Seq(Content) /\ Len(Recorded) = Len(history)
         /\ \A i \in 1..Len(history) :
              Recorded[i] = [id |-> history[i].id, edition |-> history[i].checksum]
<1>1. PICK m \in Nat : m = Len(history) /\ DOMAIN history = 1..m
  BY LenProperties DEF OneRowEach
<1>2. \A i \in 1..m : history[i] \in RowType
  BY <1>1, ElementOfSeq DEF OneRowEach
<1>3. Recorded = [i \in 1..m |-> [id |-> history[i].id, edition |-> history[i].checksum]]
  BY <1>1 DEF Recorded
<1>4. Recorded \in [1..m -> Content]
  BY <1>2, <1>3 DEF RowType, Content, Ids
<1>5. Recorded \in Seq(Content)
  BY <1>4
<1>6. QED
  BY <1>1, <1>3, <1>5, LenProperties

\* A part of the contents of a list of ids.
LEMMA ContentsPart ==
  ASSUME FilesTyped, NEW w \in Seq(Ids), NEW n \in 0..Len(w)
  PROVE  Contents(SubSeq(w, n + 1, Len(w))) = SubSeq(Contents(w), n + 1, Len(Contents(w)))
<1>1. PICK l \in Nat : l = Len(w)
  BY LenProperties
<1>2. n \in Nat /\ n <= l
  BY <1>1
<1>3. PICK v : v = SubSeq(w, n + 1, l)
  OBVIOUS
<1>4. v \in Seq(Ids) /\ Len(v) = l - n /\ \A k \in 1..(l - n) : v[k] = w[n + k]
  BY <1>1, <1>2, <1>3, PartFacts
<1>5. PICK c : c = Contents(w)
  OBVIOUS
<1>6. c \in Seq(Content) /\ Len(c) = l /\ \A i \in 1..l : c[i] = Now(w[i])
  BY <1>1, <1>5, ContentsAre
<1>7. PICK d : d = Contents(v)
  OBVIOUS
<1>8. d \in Seq(Content) /\ Len(d) = l - n /\ \A k \in 1..(l - n) : d[k] = Now(v[k])
  BY <1>4, <1>7, ContentsAre
<1>9. PICK e : e = SubSeq(c, n + 1, l)
  OBVIOUS
<1>10. e \in Seq(Content) /\ Len(e) = l - n /\ \A k \in 1..(l - n) : e[k] = c[n + k]
  <2>1. l <= Len(c) /\ c \in Seq(Content)
    BY <1>6
  <2>2. QED
    BY <1>2, <1>9, <2>1, PartFacts
<1>11. ASSUME NEW k \in 1..(l - n) PROVE d[k] = e[k]
  <2>1. PICK a \in 1..l : a = n + k
    BY <1>2
  <2>2. QED
    BY <1>4, <1>6, <1>8, <1>10, <2>1
<1>12. d = e
  BY <1>8, <1>10, <1>11, SameList
<1>13. QED
  BY <1>1, <1>3, <1>5, <1>6, <1>7, <1>9, <1>12

\* A run that stopped in its versioned part has moved its beginning from what
\* is pending to what is applied, and nothing else.
LEMMA RowsAppended ==
  ASSUME FilesTyped, OneRowEach(history), NEW run \in RunSets, NEW n \in 0..Len(run),
         n <= Len(PendingVersioned)
  PROVE  RowsAfter(run, n) = history \o [i \in 1..n |-> Row(run[i])]
<1> DEFINE S == {m \in Content : ~Applied(m.id)}
           again(id) == \E i \in 1..n : run[i].id = id
<1>1. IsRun(run) /\ \A i \in 1..Len(run) : run[i] = FullRun[i]
  BY RunsAre
<1>2. \A i \in 1..Len(PendingVersioned) :
        FullRun[i] = PendingVersioned[i] /\ ~Applied(PendingVersioned[i].id)
  BY FullRunIs, PendingAre DEF PendingOf, Unapplied
<1>3. /\ run \in Seq(Content) /\ Len(run) \in Nat /\ n \in Nat /\ n <= Len(run)
      /\ Len(PendingVersioned) \in Nat
  BY <1>1, PendingAre, LenProperties DEF IsRun, PendingOf
<1>4. \A i \in 1..n : i \in 1..Len(run) /\ run[i] \in Content /\ ~Applied(run[i].id)
  <2>1. \A i \in 1..n : i \in 1..Len(run) /\ i \in 1..Len(PendingVersioned)
    BY <1>3
  <2>2. QED
    BY <1>1, <1>2, <1>3, <2>1, ElementOfSeq
<1>5. PICK u : u = SubSeq(run, 1, n)
  OBVIOUS
<1>6. u \in Seq(Content) /\ Len(u) = n /\ \A k \in 1..n : u[k] = run[k]
  <2>1. /\ SubSeq(run, 0 + 1, n) \in Seq(Content) /\ Len(SubSeq(run, 0 + 1, n)) = n - 0
        /\ \A k \in 1..(n - 0) : SubSeq(run, 0 + 1, n)[k] = run[0 + k]
    BY <1>3, PartFacts
  <2>2. n - 0 = n /\ 0 + 1 = 1 /\ \A k \in 1..n : 0 + k = k
    BY <1>3
  <2>3. QED
    BY <1>5, <2>1, <2>2
<1>7. Where(u, S) = u
  <2>1. \A i \in 1..Len(u) : u[i] \in S
    BY <1>4, <1>6
  <2> HIDE DEF S
  <2>2. QED
    BY <1>6, <2>1, WhereAll
<1>8. \A i \in DOMAIN history : ~again(history[i].id)
  BY <1>4 DEF Applied
<1>9. RowsAfter(run, n) =
        [i \in DOMAIN history |->
           IF again(history[i].id) THEN Row(Now(history[i].id)) ELSE history[i]]
        \o [i \in DOMAIN u |-> Row(u[i])]
  BY <1>5, <1>7 DEF RowsAfter
<1>10. [i \in DOMAIN history |->
           IF again(history[i].id) THEN Row(Now(history[i].id)) ELSE history[i]] = history
  <2>1. history = [i \in DOMAIN history |-> history[i]]
    BY LenProperties DEF OneRowEach
  <2> HIDE DEF again
  <2>2. QED
    BY <1>8, <2>1
<1>11. [i \in DOMAIN u |-> Row(u[i])] = [i \in 1..n |-> Row(run[i])]
  <2>1. DOMAIN u = 1..n
    BY <1>6, LenProperties
  <2>2. QED
    BY <1>6, <2>1
<1>12. QED
  BY <1>9, <1>10, <1>11

\* After a run that stopped in its versioned part the rest of that part is
\* pending, from a history that its beginning extends.
LEMMA StoppedVersioned ==
  ASSUME FilesTyped, OneRowEach(history), NEW run \in RunSets, NEW n \in 0..Len(run),
         n <= Len(PendingVersioned), history' = RowsAfter(run, n), files' = files
  PROVE  /\ Recorded' = Recorded \o SubSeq(PendingVersioned, 1, n)
         /\ PendingVersioned' = SubSeq(PendingVersioned, n + 1, Len(PendingVersioned))
         /\ PendingRepeatables' = PendingRepeatables
<1>1. IsRun(run) /\ \A i \in 1..Len(run) : run[i] = FullRun[i]
  BY RunsAre
<1>2. PICK P : P = PendingVersioned
  OBVIOUS
<1>3. PICK l \in Nat : l = Len(P)
  BY <1>2, PendingAre, LenProperties DEF PendingOf, IsRun
<1>4. /\ IsRun(P) /\ P \in Seq(Content) /\ n \in Nat /\ n <= l /\ Len(run) \in Nat
      /\ \A i \in 1..l : FullRun[i] = P[i] /\ P[i].id \in Unapplied /\ P[i].id \in ToSet(Versioned)
  <2>1. PendingOf(P, Versioned, Unapplied) /\ \A i \in 1..l : FullRun[i] = P[i]
    BY <1>2, <1>3, FullRunIs, PendingAre
  <2>2. IsRun(P) /\ P \in Seq(Content)
    BY <2>1 DEF PendingOf, IsRun
  <2>3. \A i \in 1..l : P[i].id \in Unapplied /\ P[i].id \in ToSet(Versioned)
    BY <1>3, <2>1, ListFacts DEF PendingOf
  <2>4. Len(run) \in Nat
    BY <1>1, LenProperties DEF IsRun
  <2>5. n \in Nat /\ n <= l
    BY <1>2, <1>3, <2>4
  <2>6. QED
    BY <2>1, <2>2, <2>3, <2>4, <2>5
<1>5. \A i \in 1..n : i \in 1..l /\ i \in 1..Len(run) /\ run[i] = P[i] /\ run[i] \in Content
  <2>1. \A i \in 1..n : i \in 1..l /\ i \in 1..Len(run)
    BY <1>4
  <2>2. QED
    BY <1>1, <1>3, <1>4, <2>1, ElementOfSeq
<1>6. /\ OneRowEach(history')
      /\ \A id : Applied(id)' <=> Applied(id) \/ \E j \in 1..n : run[j].id = id
      /\ \A id : Applied(id) /\ (\A j \in 1..n : run[j].id # id) => RowOf(id)' = RowOf(id)
  BY <1>1, AppliedAfter
<1>7. Recorded' = Recorded \o SubSeq(P, 1, n)
  <2>1. PICK h : h = history'
    OBVIOUS
  <2>2. PICK m \in Nat : m = Len(history)
    BY LenProperties DEF OneRowEach
  <2>3. PICK c : c = [i \in 1..n |-> Row(run[i])]
    OBVIOUS
  <2>4. \A i \in 1..n : c[i] = Row(run[i]) /\ c[i] \in RowType
    BY <1>5, <2>3, RowIs
  <2>5. c \in Seq(RowType) /\ Len(c) = n
    <3>1. c \in [1..n -> RowType]
      BY <2>3, <2>4
    <3>2. c \in Seq(RowType)
      BY <1>4, <3>1
    <3>3. QED
      BY <1>4, <2>3, <3>2, LenProperties
  <2>6. h = history \o c
    BY <1>2, <1>3, <1>4, <2>1, <2>3, RowsAppended
  <2>7. /\ Len(h) = Len(history) + Len(c)
        /\ \A i \in 1..Len(history) + Len(c) :
             h[i] = IF i <= Len(history) THEN history[i] ELSE c[i - Len(history)]
    <3>1. history \in Seq(RowType)
      BY DEF OneRowEach
    <3>2. QED
      BY <2>5, <2>6, <3>1, ConcatProperties
  <2>8. /\ Len(h) = m + n /\ \A i \in 1..m + n : h[i] = IF i <= m THEN history[i] ELSE c[i - m]
    BY <2>2, <2>5, <2>7
  <2>9. PICK r : r = Recorded
    OBVIOUS
  <2>10. r \in Seq(Content) /\ Len(r) = m
         /\ \A i \in 1..m : r[i] = [id |-> history[i].id, edition |-> history[i].checksum]
    BY <2>2, <2>9, RecordedIs
  <2>11. PICK q : q = Recorded'
    OBVIOUS
  <2>12. q \in Seq(Content) /\ Len(q) = m + n
         /\ \A i \in 1..m + n : q[i] = [id |-> h[i].id, edition |-> h[i].checksum]
    <3>1. PICK x \in Nat : x = Len(h) /\ DOMAIN h = 1..x
      BY <1>6, <2>1, LenProperties DEF OneRowEach
    <3>2. \A i \in 1..x : h[i] \in RowType
      BY <1>6, <2>1, <3>1, ElementOfSeq DEF OneRowEach
    <3>3. q = [i \in 1..x |-> [id |-> h[i].id, edition |-> h[i].checksum]]
      BY <2>1, <2>11, <3>1 DEF Recorded
    <3>4. q \in [1..x -> Content]
      BY <3>2, <3>3 DEF RowType, Content, Ids
    <3>5. q \in Seq(Content)
      BY <3>4
    <3>6. Len(q) = x
      BY <3>3, <3>5, LenProperties
    <3>7. QED
      BY <2>8, <3>1, <3>3, <3>5, <3>6
  <2>13. PICK u : u = SubSeq(P, 1, n)
    OBVIOUS
  <2>14. u \in Seq(Content) /\ Len(u) = n /\ \A k \in 1..n : u[k] = P[k]
    <3>1. /\ SubSeq(P, 0 + 1, n) \in Seq(Content) /\ Len(SubSeq(P, 0 + 1, n)) = n - 0
          /\ \A k \in 1..(n - 0) : SubSeq(P, 0 + 1, n)[k] = P[0 + k]
      BY <1>3, <1>4, PartFacts
    <3>2. n - 0 = n /\ 0 + 1 = 1 /\ \A k \in 1..n : 0 + k = k
      BY <1>4
    <3>3. QED
      BY <2>13, <3>1, <3>2
  <2>15. /\ r \o u \in Seq(Content) /\ Len(r \o u) = Len(r) + Len(u)
         /\ \A i \in 1..Len(r) + Len(u) : (r \o u)[i] = IF i <= Len(r) THEN r[i] ELSE u[i - Len(r)]
    <3>1. r \in Seq(Content) /\ u \in Seq(Content)
      BY <2>10, <2>14
    <3>2. QED
      BY <3>1, ConcatProperties
  <2>16. PICK w \in Seq(Content) : w = r \o u
    BY <2>15
  <2>17. Len(w) = m + n /\ \A i \in 1..m + n : w[i] = IF i <= m THEN r[i] ELSE u[i - m]
    BY <2>10, <2>14, <2>15, <2>16
  <2>18. ASSUME NEW i \in 1..m + n PROVE q[i] = w[i]
    <3>1. CASE i <= m
      <4>1. i \in 1..m
        BY <3>1
      <4>2. QED
        BY <2>8, <2>10, <2>12, <2>17, <3>1, <4>1
    <3>2. CASE ~(i <= m)
      <4>1. PICK k \in 1..n : k = i - m
        BY <1>4, <3>2
      <4>2. h[i] = Row(run[k]) /\ w[i] = P[k]
        BY <2>4, <2>8, <2>14, <2>17, <3>2, <4>1
      <4>3. run[k] = P[k] /\ run[k] \in Content /\ run[k] = Now(run[k].id)
        BY <1>1, <1>5, <4>1 DEF IsRun
      <4>4. q[i] = [id |-> run[k].id, edition |-> run[k].edition]
        BY <2>12, <4>2, <4>3, RowIs
      <4>5. QED
        BY <4>2, <4>3, <4>4 DEF Content
    <3>3. QED
      BY <3>1, <3>2
  <2>19. q = w
    <3>1. Len(q) = Len(w) /\ \A i \in 1..Len(q) : q[i] = w[i]
      BY <2>12, <2>17, <2>18
    <3>2. QED
      BY <2>12, <2>16, <3>1, SameList
  <2>20. QED
    BY <2>9, <2>11, <2>13, <2>16, <2>19
<1>8. PendingVersioned' = SubSeq(P, n + 1, l)
  <2>1. PICK w : w = Where(Versioned, Unapplied)
    OBVIOUS
  <2>2. PendingVersioned = Contents(w)
    BY <2>1 DEF PendingVersioned, Unapplied
  <2>3. w \in Seq(Ids)
    <3>1. w \in Seq(Ids \cap Unapplied)
      BY <2>1, ListFacts, WhereMembers
    <3>2. PICK x \in Nat : x = Len(w) /\ w \in [1..x -> Ids \cap Unapplied]
      BY <3>1, LenProperties
    <3>3. w \in [1..x -> Ids]
      BY <3>2
    <3>4. QED
      BY <3>3
  <2>4. Len(w) = l /\ \A i \in 1..l : P[i].id = w[i]
    BY <1>2, <1>3, <2>2, <2>3, ContentsAre
  <2>5. \A i \in 1..Len(Versioned) :
          Versioned[i] \in Unapplied' <=>
            Versioned[i] \in Unapplied /\ \A k \in 1..n : w[k] # Versioned[i]
    <3>1. \A id \in Ids : id \in Unapplied' <=> id \in Unapplied /\ \A k \in 1..n : run[k].id # id
      BY <1>6 DEF Unapplied
    <3>2. \A k \in 1..n : run[k].id = w[k]
      BY <1>5, <2>4
    <3>3. \A i \in 1..Len(Versioned) : Versioned[i] \in Ids
      BY ListFacts, ElementOfSeq
    <3>4. QED
      BY <3>1, <3>2, <3>3
  <2>6. Where(Versioned, Unapplied') = SubSeq(w, n + 1, Len(w))
    <3>1. n \in 0..Len(w)
      BY <1>4, <2>4
    <3>2. Versioned \in Seq(Ids) /\ n \in 0..Len(Where(Versioned, Unapplied))
      BY <2>1, <3>1, ListFacts
    <3>3. \A i, j \in 1..Len(Versioned) : Versioned[i] = Versioned[j] => i = j
      BY ListFacts
    <3>4. \A i \in 1..Len(Versioned) :
            Versioned[i] \in Unapplied' <=>
              /\ Versioned[i] \in Unapplied
              /\ \A k \in 1..n : Where(Versioned, Unapplied)[k] # Versioned[i]
      BY <2>1, <2>5
    <3>5. QED
      BY <2>1, <3>2, <3>3, <3>4, WhereTail
  <2>7. PendingVersioned' = Contents(Where(Versioned, Unapplied'))
    BY DEF PendingVersioned, Unapplied, Contents, Now
  <2>8. n \in 0..Len(w)
    BY <1>4, <2>4
  <2>9. Contents(SubSeq(w, n + 1, Len(w))) = SubSeq(Contents(w), n + 1, Len(Contents(w)))
    BY <2>3, <2>8, ContentsPart
  <2>10. QED
    BY <1>2, <1>3, <2>2, <2>6, <2>7, <2>9
<1>9. PendingRepeatables' = PendingRepeatables
  <2>1. ASSUME NEW i \in 1..Len(Repeatable)
        PROVE  Repeatable[i] \in Stale <=> Repeatable[i] \in Stale'
    <3>1. Repeatable[i] \in Ids /\ Repeatable[i] \in ToSet(Repeatable)
      BY ListFacts, ElementOfSeq
    <3>2. \A j \in 1..n : run[j].id # Repeatable[i]
      <4>1. Repeatable[i] \notin ToSet(Versioned)
        BY <3>1, GateAssumption DEF GateAssumption
      <4>2. QED
        BY <1>4, <1>5, <4>1
    <3>3. Applied(Repeatable[i])' <=> Applied(Repeatable[i])
      BY <1>6, <3>2
    <3>4. Applied(Repeatable[i]) => RowOf(Repeatable[i])' = RowOf(Repeatable[i])
      BY <1>6, <3>2
    <3>5. Applied(Repeatable[i]) => RowOf(Repeatable[i])'.checksum = RowOf(Repeatable[i]).checksum
      BY <3>4
    <3>6. QED
      BY <3>1, <3>3, <3>5 DEF Stale
  <2>2. Where(Repeatable, Stale) = Where(Repeatable, Stale')
    BY <2>1, ListFacts, WhereSame
  <2>3. /\ PendingRepeatables' = Contents(Where(Repeatable, Stale'))
        /\ PendingRepeatables = Contents(Where(Repeatable, Stale))
    BY DEF PendingRepeatables, Stale, Contents, Now
  <2>4. QED
    BY <2>2, <2>3
<1>10. QED
  BY <1>2, <1>3, <1>7, <1>8, <1>9

\* The members of a list that is joined of two.
LEMMA JoinMembers ==
  ASSUME NEW X, NEW a \in Seq(X), NEW b \in Seq(X), NEW r \in ToSet(a \o b)
  PROVE  r \in ToSet(a) \/ r \in ToSet(b)
<1>1. PICK c \in Seq(X) : c = a \o b
  BY ConcatProperties
<1>2. /\ Len(c) = Len(a) + Len(b)
      /\ \A i \in 1..Len(a) + Len(b) : c[i] = IF i <= Len(a) THEN a[i] ELSE b[i - Len(a)]
  BY <1>1, ConcatProperties
<1>3. /\ DOMAIN a = 1..Len(a) /\ DOMAIN b = 1..Len(b) /\ DOMAIN c = 1..Len(c)
      /\ Len(a) \in Nat /\ Len(b) \in Nat
  BY LenProperties
<1>4. PICK i \in 1..Len(a) + Len(b) : r = c[i]
  BY <1>1, <1>2, <1>3 DEF ToSet
<1>5. CASE i <= Len(a)
  <2>1. i \in 1..Len(a) /\ r = a[i]
    BY <1>2, <1>3, <1>4, <1>5
  <2>2. QED
    BY <1>3, <2>1 DEF ToSet
<1>6. CASE ~(i <= Len(a))
  <2>1. i - Len(a) \in 1..Len(b) /\ r = b[i - Len(a)]
    BY <1>2, <1>3, <1>4, <1>6
  <2>2. QED
    BY <1>3, <2>1 DEF ToSet
<1>7. QED
  BY <1>5, <1>6

\* A rehearsal's results are of migrations of its run.
LEMMA ResultIds ==
  ASSUME NEW run \in Seq(Content), NEW sweep \in Sweeps(run), NEW r \in ToSet(sweep.results)
  PROVE  \E j \in 1..Len(run) : r.id = run[j].id
<1>1. PICK fault, read : IsSweep(sweep, run, fault, read)
  BY SweepIs
<1> DEFINE a == RanResults(run, fault, read)
           b == FailedResults(run, fault)
           c == SkippedResults(Where(ReachedBy(run, fault), Bare))
<1>2. sweep.results = (a \o b) \o c
  BY <1>1, PinnedIs DEF IsSweep
<1>3. PICK X : a \in Seq(X) /\ b \in Seq(X) /\ c \in Seq(X)
  BY PartsTyped
<1>4. PICK u : u = ReachedBy(run, fault)
  OBVIOUS
<1>5. u \in Seq(Content) /\ \A i \in 1..Len(u) : \E j \in 1..Len(run) : u[i] = run[j]
  BY <1>4, ReachedFacts
<1>6. ASSUME r \in ToSet(a) PROVE \E j \in 1..Len(run) : r.id = run[j].id
  <2>1. PICK w : w = Where(u, Content \ Bare)
    OBVIOUS
  <2>2. w \in Seq(Content \cap (Content \ Bare)) /\ Kept(w, u, Content \ Bare)
    BY <1>5, <2>1, WhereMembers, WhereKept
  <2>3. RanBy(run, fault) = w /\ DOMAIN w = 1..Len(w)
    BY <1>4, <2>1, <2>2, LenProperties DEF RanBy, Transactional
  <2>4. PICK i \in 1..Len(w) : r.id = w[i].id
    BY <1>6, <2>3 DEF ToSet, RanResults
  <2>5. QED
    BY <1>5, <2>2, <2>4 DEF Kept
<1>7. ASSUME r \in ToSet(b) PROVE \E j \in 1..Len(run) : r.id = run[j].id
  <2>1. RaisingAt(run, fault) # {}
    <3>1. SUFFICES ASSUME RaisingAt(run, fault) = {} PROVE FALSE
      OBVIOUS
    <3>2. FailedBy(run, fault) = <<>>
      BY <3>1 DEF FailedBy
    <3>3. DOMAIN b = {}
      BY <3>2 DEF FailedResults
    <3>4. QED
      BY <1>7, <3>3 DEF ToSet
  <2>2. PICK j \in 1..Len(run) : FailedBy(run, fault) = <<run[j]>>
    BY <2>1, ReachedFacts
  <2>3. DOMAIN b = {1} /\ b[1].id = run[j].id
    BY <2>2 DEF FailedResults
  <2>4. QED
    BY <1>7, <2>3 DEF ToSet
<1>8. ASSUME r \in ToSet(c) PROVE \E j \in 1..Len(run) : r.id = run[j].id
  <2>1. PICK w : w = Where(u, Bare)
    OBVIOUS
  <2>2. w \in Seq(Content \cap Bare) /\ Kept(w, u, Bare)
    BY <1>5, <2>1, WhereMembers, WhereKept
  <2>3. c = SkippedResults(w) /\ DOMAIN w = 1..Len(w)
    BY <1>4, <2>1, <2>2, LenProperties
  <2>6. c = [i \in 1..Len(w) |-> [id |-> w[i].id, up |-> "unproved", down |-> "unproved",
                                  leftover |-> FALSE]]
    BY <2>3 DEF SkippedResults
  <2> HIDE DEF c
  <2>7. PICK i \in 1..Len(w) : r = c[i]
    BY <1>8, <2>6 DEF ToSet
  <2>4. r.id = w[i].id
    BY <2>6, <2>7
  <2>5. QED
    BY <1>5, <2>2, <2>4 DEF Kept
<1>9. r \in ToSet(a) \/ r \in ToSet(b) \/ r \in ToSet(c)
  <2> HIDE DEF a, b, c
  <2>1. a \o b \in Seq(X)
    BY <1>3, ConcatProperties
  <2>2. r \in ToSet(a \o b) \/ r \in ToSet(c)
    BY <1>2, <1>3, <2>1, JoinMembers
  <2>3. QED
    BY <1>3, <2>2, JoinMembers
<1>10. QED
  BY <1>6, <1>7, <1>8, <1>9

\* The statements of a key are a part of the run, after those that precede it.
KeyOf(k, a, p, r) ==
  \E s \in 0..Len(p), e \in 0..Len(p \o r) :
     /\ s <= e
     /\ k = Key(a \o SubSeq(p, 1, s), SubSeq(p \o r, s + 1, e))

\* Each key a passed rehearsal writes is of a part of its run.
LEMMA PassedKeysAre ==
  ASSUME NEW a \in Seq(Content), NEW p \in Seq(Content), NEW r \in Seq(Content),
         NEW k \in PassedKeys(a, p, r)
  PROVE  KeyOf(k, a, p, r)
<1>1. PICK q \in Seq(Content) : q = p \o r
  BY ConcatProperties
<1>2. PICK l \in Nat, m \in Nat : l = Len(p) /\ m = Len(r)
  BY LenProperties
<1>3. Len(q) = l + m /\ \A i \in 1..l + m : q[i] = IF i <= l THEN p[i] ELSE r[i - l]
  BY <1>1, <1>2, ConcatProperties
<1>4. CASE k = Key(a, q)
  <2>1. SubSeq(p, 1, 0) = <<>>
    BY SubSeqEmpty
  <2>2. a \o <<>> = a
    BY ConcatEmptySeq
  <2>3. PICK v : v = SubSeq(q, 0 + 1, l + m)
    OBVIOUS
  <2>4. v \in Seq(Content) /\ Len(v) = l + m - 0 /\ \A i \in 1..(l + m - 0) : v[i] = q[0 + i]
    BY <1>3, <2>3, PartFacts
  <2>5. v = q
    <3>1. Len(v) = Len(q) /\ \A i \in 1..Len(v) : v[i] = q[i]
      BY <1>3, <2>4
    <3>2. QED
      BY <2>4, <3>1, SameList
  <2>6. k = Key(a \o SubSeq(p, 1, 0), SubSeq(q, 0 + 1, l + m))
    BY <1>4, <2>1, <2>2, <2>3, <2>5
  <2>7. 0 \in 0..Len(p) /\ l + m \in 0..Len(q) /\ 0 <= l + m
    BY <1>2, <1>3
  <2>8. QED
    BY <1>1, <2>6, <2>7 DEF KeyOf
<1>5. CASE SliceKey(k, a, p)
  <2>1. PICK s \in 0..Len(p), e \in 0..Len(p) :
          /\ Removes(SubSeq(p, s + 1, e))
          /\ k = Key(a \o SubSeq(p, 1, s), SubSeq(p, s + 1, e))
    BY <1>5 DEF SliceKey
  <2>2. s \in Nat /\ e \in Nat /\ e <= l
    BY <1>2
  <2>3. s < e
    BY <2>1, <2>2, RemovesNotEmpty
  <2>4. SubSeq(p, s + 1, e) = SubSeq(q, s + 1, e)
    <3>1. PICK v : v = SubSeq(p, s + 1, e)
      OBVIOUS
    <3>2. v \in Seq(Content) /\ Len(v) = e - s /\ \A i \in 1..(e - s) : v[i] = p[s + i]
      BY <1>2, <2>2, <2>3, <3>1, PartFacts
    <3>3. PICK w : w = SubSeq(q, s + 1, e)
      OBVIOUS
    <3>4. w \in Seq(Content) /\ Len(w) = e - s /\ \A i \in 1..(e - s) : w[i] = q[s + i]
      <4>1. e <= Len(q)
        BY <1>3, <2>2
      <4>2. QED
        BY <2>2, <2>3, <3>3, <4>1, PartFacts
    <3>5. \A i \in 1..(e - s) : s + i \in 1..l + m /\ s + i <= l
      BY <2>2
    <3>6. \A i \in 1..(e - s) : v[i] = w[i]
      BY <1>3, <3>2, <3>4, <3>5
    <3>7. v = w
      BY <3>2, <3>4, <3>6, SameList
    <3>8. QED
      BY <3>1, <3>3, <3>7
  <2>5. e \in 0..Len(q) /\ s <= e
    BY <1>3, <2>2, <2>3
  <2>6. QED
    BY <1>1, <2>1, <2>4, <2>5 DEF KeyOf
<1>6. CASE RestKey(k, a, p, r)
  <2>1. PICK s \in 0..Len(p) :
          k = Key(a \o SubSeq(p, 1, s), SubSeq(p, s + 1, Len(p)) \o r)
    BY <1>6 DEF RestKey
  <2>2. s \in Nat /\ s <= l
    BY <1>2
  <2>3. SubSeq(p, s + 1, Len(p)) \o r = SubSeq(q, s + 1, l + m)
    <3>1. PICK v : v = SubSeq(p, s + 1, Len(p))
      OBVIOUS
    <3>2. v \in Seq(Content) /\ Len(v) = l - s /\ \A i \in 1..(l - s) : v[i] = p[s + i]
      <4>1. l \in Nat /\ l <= Len(p) /\ v = SubSeq(p, s + 1, l)
        BY <1>2, <3>1
      <4>2. QED
        BY <2>2, <4>1, PartFacts
    <3>3. PICK w : w = SubSeq(q, s + 1, l + m)
      OBVIOUS
    <3>4. /\ w \in Seq(Content) /\ Len(w) = (l + m) - s
          /\ \A i \in 1..((l + m) - s) : w[i] = q[s + i]
      <4>1. s <= l + m /\ l + m <= Len(q) /\ l + m \in Nat
        BY <1>3, <2>2
      <4>2. QED
        BY <2>2, <3>3, <4>1, PartFacts
    <3>5. PICK x \in Seq(Content) : x = v \o r
      BY <3>2, ConcatProperties
    <3>6. /\ Len(x) = Len(v) + Len(r)
          /\ \A i \in 1..Len(v) + Len(r) : x[i] = IF i <= Len(v) THEN v[i] ELSE r[i - Len(v)]
      BY <3>2, <3>5, ConcatProperties
    <3>7. /\ Len(x) = (l - s) + m
          /\ \A i \in 1..(l - s) + m : x[i] = IF i <= l - s THEN v[i] ELSE r[i - (l - s)]
      BY <1>2, <3>2, <3>6
    <3>8. (l - s) + m = (l + m) - s
      BY <2>2
    <3>9. ASSUME NEW i \in 1..((l + m) - s) PROVE x[i] = w[i]
      <4>1. PICK j \in 1..l + m : j = s + i
        BY <2>2
      <4>2. w[i] = IF j <= l THEN p[j] ELSE r[j - l]
        BY <1>3, <3>4, <4>1
      <4>3. CASE i <= l - s
        <5>1. j <= l /\ i \in 1..(l - s)
          BY <2>2, <4>1, <4>3
        <5>2. QED
          BY <3>2, <3>7, <3>8, <4>1, <4>2, <4>3, <5>1
      <4>4. CASE ~(i <= l - s)
        <5>1. ~(j <= l) /\ j - l = i - (l - s)
          BY <2>2, <4>1, <4>4
        <5>2. QED
          BY <3>7, <3>8, <4>2, <4>4, <5>1
      <4>5. QED
        BY <4>3, <4>4
    <3>10. x = w
      BY <3>4, <3>7, <3>8, <3>9, SameList
    <3>11. QED
      BY <3>1, <3>3, <3>5, <3>10
  <2>4. l + m \in 0..Len(q) /\ s <= l + m
    BY <1>3, <2>2
  <2>5. QED
    BY <1>1, <2>1, <2>3, <2>4 DEF KeyOf
<1>7. k = Key(a, q) \/ SliceKey(k, a, p) \/ RestKey(k, a, p, r)
  <2>1. k = Key(a, q) \/ k \in PrefixKeys(a, p, r)
    BY <1>1 DEF PassedKeys
  <2>2. QED
    BY <2>1, PrefixKeysAre
<1>8. QED
  BY <1>4, <1>5, <1>6, <1>7

\* So it is a pair of lists of contents, the second of which is of the run.
LEMMA PassedKeysTyped ==
  ASSUME NEW a \in Seq(Content), NEW p \in Seq(Content), NEW r \in Seq(Content),
         NEW k \in PassedKeys(a, p, r)
  PROVE  /\ k \in Seq(Content) \X Seq(Content)
         /\ \A i \in 1..Len(k[2]) : \E j \in 1..Len(p \o r) : k[2][i] = (p \o r)[j]
<1>1. PICK q \in Seq(Content) : q = p \o r
  BY ConcatProperties
<1>2. PICK s \in 0..Len(p), e \in 0..Len(q) :
        s <= e /\ k = Key(a \o SubSeq(p, 1, s), SubSeq(q, s + 1, e))
  BY <1>1, PassedKeysAre DEF KeyOf
<1>3. s \in Nat /\ e \in Nat /\ s <= Len(p) /\ e <= Len(q) /\ Len(p) \in Nat /\ Len(q) \in Nat
  BY LenProperties
<1>4. PICK v : v = SubSeq(q, s + 1, e)
  OBVIOUS
<1>5. v \in Seq(Content) /\ Len(v) = e - s /\ \A i \in 1..(e - s) : v[i] = q[s + i]
  BY <1>2, <1>3, <1>4, PartFacts
<1>6. a \o SubSeq(p, 1, s) \in Seq(Content)
  <2>1. SubSeq(p, 0 + 1, s) \in Seq(Content)
    BY <1>3, PartFacts
  <2>2. SubSeq(p, 1, s) \in Seq(Content)
    BY <2>1
  <2>3. QED
    BY <2>2, ConcatProperties
<1>7. PICK u \in Seq(Content) : u = a \o SubSeq(p, 1, s)
  BY <1>6
<1>8. k = <<u, v>>
  BY <1>2, <1>4, <1>7 DEF Key
<1>9. k \in Seq(Content) \X Seq(Content) /\ k[2] = v
  BY <1>5, <1>8
<1>10. ASSUME NEW i \in 1..Len(v) PROVE \E j \in 1..Len(q) : v[i] = q[j]
  <2>1. s + i \in 1..Len(q) /\ i \in 1..(e - s)
    BY <1>3, <1>5
  <2>2. QED
    BY <1>5, <2>1
<1>11. QED
  BY <1>1, <1>9, <1>10

-----------------------------------------------------------------------------
(* The invariants *)

\* The rehearsal table holds a passed row for each of these keys.
KeysPassed(keys) == \A k \in keys : k \in DOMAIN outcome /\ outcome[k] = "passed"

\* After a rehearsal that met no fault: the rows that every run to come needs,
\* those that start after a targeted or failed one included.
CoveredKeys ==
  covered => KeysPassed(PrefixKeys(Recorded, PendingVersioned, PendingRepeatables))

\* The statements of a key ran in a rehearsal that met no fault.
ProvedRun(k, inPlace, onTheSide) ==
  \/ <<Transactional(k[1]), Transactional(k[2])>> \in inPlace
  \/ \E s \in onTheSide : RanOrEdited(k[2], s)

\* The rows name the statements that really ran.
Truthful(h) == \A i \in DOMAIN h : h[i].checksum = h[i].edition

\* Until a repair, the rows name what really ran, and a passed row is proved.
Justified ==
  ~repaired =>
    /\ Truthful(history)
    /\ \A k \in DOMAIN outcome : outcome[k] = "passed" => ProvedRun(k, proved, scratched)

\* Results that wait to be recorded name migrations that the rehearsal went over.
ScratchRan ==
  scratch.ok => \A id \in scratch.proved : \E m \in scratch.ran : m.id = id

IInv == TypeOK /\ CoveredKeys /\ Justified /\ ScratchRan

\* What the types say of the files and the rows.
LEMMA TypeFacts ==
  ASSUME TypeOK
  PROVE  /\ FilesTyped /\ OneRowEach(history)
         /\ Recorded \in Seq(Content)
         /\ PendingVersioned \in Seq(Content) /\ PendingRepeatables \in Seq(Content)
         /\ FullRun \in Seq(Content)
<1>1. FilesTyped /\ OneRowEach(history)
  BY DEF TypeOK, FilesTyped, OneRowEach, RowType
<1>2. PendingVersioned \in Seq(Content) /\ PendingRepeatables \in Seq(Content)
  BY <1>1, PendingAre DEF PendingOf, IsRun
<1>3. Recorded \in Seq(Content) /\ FullRun \in Seq(Content)
  BY <1>1, RecordedIs, FullRunIs DEF IsRun
<1>4. QED
  BY <1>1, <1>2, <1>3

\* The table after rows were written.
LEMMA RecordIs ==
  ASSUME NEW keys, NEW o, Record(keys, o)
  PROVE  /\ DOMAIN outcome' = DOMAIN outcome \cup keys
         /\ \A k \in DOMAIN outcome' : outcome'[k] = IF k \in keys THEN o ELSE outcome[k]
BY DEF Record, RehearsalWrites

\* With nothing pending no key is needed.
LEMMA NoKeys ==
  ASSUME NEW a, NEW k
  PROVE  k \notin PrefixKeys(a, <<>>, <<>>)
<1>1. ASSUME SliceKey(k, a, <<>>) PROVE FALSE
  <2>1. PICK s \in 0..Len(<<>>), e \in 0..Len(<<>>) : Removes(SubSeq(<<>>, s + 1, e))
    BY <1>1 DEF SliceKey
  <2>2. Len(<<>>) = 0
    OBVIOUS
  <2>3. s \in Nat /\ e \in Nat /\ ~(s < e)
    BY <2>1, <2>2
  <2>4. <<>> \in Seq(Content)
    OBVIOUS
  <2>5. QED
    BY <2>1, <2>3, <2>4, RemovesNotEmpty
<1>2. ~RestKey(k, a, <<>>, <<>>)
  BY DEF RestKey
<1>3. QED
  BY <1>1, <1>2, PrefixKeysAre

\* After a run that ended in its versioned part or went through, no key is
\* needed that was not before it, and none that starts where it did.
LEMMA NewKeys ==
  ASSUME FilesTyped, OneRowEach(history), NEW run \in RunSets, NEW n \in 1..Len(run),
         n <= Len(PendingVersioned) \/ n = Len(run),
         history' = RowsAfter(run, n), files' = files,
         NEW k, k \in PrefixKeys(Recorded, PendingVersioned, PendingRepeatables)'
  PROVE  k \in PrefixKeys(Recorded, PendingVersioned, PendingRepeatables) /\ k[1] # Recorded
<1>1. IsRun(run) /\ (run = FullRun \/ Len(run) <= Len(PendingVersioned))
  BY RunsAre
<1>2. k \in PrefixKeys(Recorded', PendingVersioned', PendingRepeatables')
  OBVIOUS
<1>3. CASE n <= Len(PendingVersioned)
  <2>1. PICK P : P = PendingVersioned
    OBVIOUS
  <2>2. PICK A : A = Recorded
    OBVIOUS
  <2>3. PICK R : R = PendingRepeatables
    OBVIOUS
  <2>4. Len(run) \in Nat /\ Len(P) \in Nat /\ P \in Seq(Content) /\ R \in Seq(Content)
    BY <1>1, <2>1, <2>3, PendingAre, LenProperties DEF PendingOf, IsRun
  <2>5. A \in Seq(Content) /\ Len(A) \in Nat
    BY <2>2, RecordedIs, LenProperties
  <2>6. n \in 0..Len(run) /\ n \in 0..Len(P)
    BY <1>3, <2>1, <2>4
  <2>7. /\ Recorded' = A \o SubSeq(P, 1, n)
        /\ PendingVersioned' = SubSeq(P, n + 1, Len(P))
        /\ PendingRepeatables' = R
    BY <1>3, <2>1, <2>2, <2>3, <2>6, StoppedVersioned
  <2>8. k \in PrefixKeys(A \o SubSeq(P, 1, n), SubSeq(P, n + 1, Len(P)), R)
    BY <1>2, <2>7
  <2>9. k \in PrefixKeys(A, P, R) /\ StartsAfter(k, A, n)
    BY <2>4, <2>5, <2>6, <2>8, LaterKeys
  <2>10. k[1] # A
    <3>1. PICK j \in Nat, c \in Seq(Content) : j >= n /\ k[1] = c /\ Len(c) = Len(A) + j
      BY <2>9 DEF StartsAfter
    <3>2. Len(c) # Len(A)
      BY <2>4, <2>5, <3>1
    <3>3. QED
      BY <3>1, <3>2
  <2>11. QED
    BY <2>1, <2>2, <2>3, <2>9, <2>10
<1>4. CASE ~(n <= Len(PendingVersioned))
  <2>1. n = Len(run) /\ run = FullRun
    BY <1>1, <1>4
  <2>2. PendingVersioned' = <<>> /\ PendingRepeatables' = <<>>
    BY <2>1, NothingLeft
  <2>3. k \in PrefixKeys(Recorded', <<>>, <<>>)
    BY <1>2, <2>2
  <2>4. QED
    BY <2>3, NoKeys
<1>5. QED
  BY <1>3, <1>4

\* The rows after a step back, and after a repair.
LEMMA RowRemoved ==
  ASSUME OneRowEach(history), NEW i \in DOMAIN history
  PROVE  /\ OneRowEach(RemoveAt(history, i))
         /\ \A j \in DOMAIN RemoveAt(history, i) :
              \E k \in DOMAIN history : RemoveAt(history, i)[j] = history[k]
<1>1. PICK l \in Nat : l = Len(history) /\ DOMAIN history = 1..l
  BY LenProperties DEF OneRowEach
<1>2. history \in Seq(RowType)
  BY DEF OneRowEach
<1>3. i \in Nat /\ i - 1 \in Nat /\ i <= l /\ i \in 1..l
  BY <1>1
<1>4. PICK a : a = SubSeq(history, 0 + 1, i - 1)
  OBVIOUS
<1>5. a \in Seq(RowType) /\ Len(a) = i - 1 - 0 /\ \A k \in 1..(i - 1 - 0) : a[k] = history[0 + k]
  BY <1>1, <1>2, <1>3, <1>4, PartFacts
<1>6. PICK b : b = SubSeq(history, i + 1, l)
  OBVIOUS
<1>7. b \in Seq(RowType) /\ Len(b) = l - i /\ \A k \in 1..(l - i) : b[k] = history[i + k]
  BY <1>1, <1>2, <1>3, <1>6, PartFacts
<1>8. PICK h \in Seq(RowType) : h = a \o b
  BY <1>5, <1>7, ConcatProperties
<1>9. /\ Len(h) = Len(a) + Len(b)
      /\ \A j \in 1..Len(a) + Len(b) : h[j] = IF j <= Len(a) THEN a[j] ELSE b[j - Len(a)]
  BY <1>5, <1>7, <1>8, ConcatProperties
<1>10. Len(a) = i - 1 /\ Len(b) = l - i /\ DOMAIN h = 1..Len(h)
  BY <1>3, <1>5, <1>7, LenProperties
<1>11. ASSUME NEW j \in DOMAIN h
       PROVE  /\ j < i => j \in 1..l /\ h[j] = history[j]
              /\ ~(j < i) => j + 1 \in 1..l /\ h[j] = history[j + 1]
  <2>1. j \in 1..(i - 1) + (l - i) /\ h[j] = IF j <= i - 1 THEN a[j] ELSE b[j - (i - 1)]
    BY <1>9, <1>10
  <2>2. CASE j < i
    <3>1. j \in 1..l /\ j <= i - 1 /\ j \in 1..(i - 1 - 0) /\ 0 + j = j
      BY <1>3, <2>1, <2>2
    <3>2. QED
      BY <1>5, <2>1, <2>2, <3>1
  <2>3. CASE ~(j < i)
    <3>5. /\ j \in Nat /\ j - (i - 1) \in 1..(l - i) /\ i + (j - (i - 1)) = j + 1
      BY <1>3, <2>1, <2>3
    <3>1. PICK k \in 1..(l - i) : k = j - (i - 1) /\ i + k = j + 1
      BY <3>5
    <3>2. ~(j <= i - 1) /\ j + 1 \in 1..l
      BY <1>3, <2>1, <2>3
    <3>3. b[k] = history[j + 1]
      BY <1>7, <3>1
    <3>4. QED
      BY <2>1, <2>3, <3>1, <3>2, <3>3
  <2>4. QED
    BY <2>2, <2>3
<1>12. ASSUME NEW x \in DOMAIN h, NEW y \in DOMAIN h, h[x].id = h[y].id PROVE x = y
  <2> DEFINE at(z) == IF z < i THEN z ELSE z + 1
  <2>1. at(x) \in 1..l /\ h[x] = history[at(x)] /\ at(y) \in 1..l /\ h[y] = history[at(y)]
    BY <1>11
  <2>2. \A p, q \in 1..l : history[p].id = history[q].id => p = q
    BY <1>1 DEF OneRowEach
  <2>3. at(x) = at(y)
    <3> HIDE DEF at
    <3>1. QED
      BY <1>12, <2>1, <2>2
  <2>4. x \in Nat /\ y \in Nat
    <3>1. Len(h) \in Nat /\ x \in 1..Len(h) /\ y \in 1..Len(h)
      BY <1>10, LenProperties
    <3>2. QED
      BY <3>1
  <2>5. QED
    BY <1>3, <2>3, <2>4
<1>13. OneRowEach(h)
  BY <1>12 DEF OneRowEach
<1>14. \A j \in DOMAIN h : \E k \in DOMAIN history : h[j] = history[k]
  BY <1>1, <1>11
<1>15. RemoveAt(history, i) = h
  BY <1>1, <1>4, <1>6, <1>8 DEF RemoveAt
<1>16. QED
  BY <1>13, <1>14, <1>15

\* repair() changes no row's migration.
LEMMA RowsRepaired ==
  ASSUME FilesTyped, OneRowEach(history), Repair
  PROVE  OneRowEach(history')
<1>1. PICK l \in Nat : l = Len(history) /\ DOMAIN history = 1..l
  BY LenProperties DEF OneRowEach
<1>2. \A i \in 1..l : history[i] \in RowType
  BY <1>1, ElementOfSeq DEF OneRowEach
<1>3. PICK h : h = history'
  OBVIOUS
<1>4. h = [i \in 1..l |-> IF history[i].id \in ToSet(Versioned)
                          THEN [history[i] EXCEPT !.checksum = files[history[i].id]]
                          ELSE history[i]]
  BY <1>1, <1>3 DEF Repair
<1>5. ASSUME NEW i \in 1..l PROVE h[i] \in RowType /\ h[i].id = history[i].id
  <2>1. files[history[i].id] \in 1..MaxEdition
    BY <1>2 DEF RowType, FilesTyped
  <2>2. CASE history[i].id \in ToSet(Versioned)
    <3>1. h[i] = [history[i] EXCEPT !.checksum = files[history[i].id]]
      BY <1>4, <2>2
    <3>2. QED
      BY <1>2, <2>1, <3>1 DEF RowType
  <2>3. CASE history[i].id \notin ToSet(Versioned)
    BY <1>2, <1>4, <2>3
  <2>4. QED
    BY <2>2, <2>3
<1>6. h \in [1..l -> RowType]
  BY <1>4, <1>5
<1>7. h \in Seq(RowType)
  BY <1>6
<1>8. \A i, j \in 1..l : h[i].id = h[j].id => i = j
  BY <1>1, <1>5 DEF OneRowEach
<1>9. QED
  BY <1>3, <1>4, <1>7, <1>8 DEF OneRowEach

-----------------------------------------------------------------------------
(* The steps *)

\* Where neither rows nor files change, all that is derived from them stays.
LEMMA SamePending ==
  ASSUME history' = history, files' = files
  PROVE  /\ Recorded' = Recorded
         /\ PendingVersioned' = PendingVersioned /\ PendingRepeatables' = PendingRepeatables
         /\ \A id : Now(id)' = Now(id)
<1>1. Recorded' = Recorded
  BY DEF Recorded
<1>2. \A id : Now(id)' = Now(id)
  BY DEF Now
<1>3. PendingVersioned' = PendingVersioned
  BY DEF PendingVersioned, Contents, Now, Applied
<1>4. PendingRepeatables' = PendingRepeatables
  BY DEF PendingRepeatables, Contents, Now, Applied, RowOf
<1>5. QED
  BY <1>1, <1>2, <1>3, <1>4

\* So the keys that are needed stay what they are.
LEMMA SameKeys ==
  ASSUME history' = history, files' = files
  PROVE  PrefixKeys(Recorded, PendingVersioned, PendingRepeatables)'
           = PrefixKeys(Recorded, PendingVersioned, PendingRepeatables)
<1>1. PrefixKeys(Recorded, PendingVersioned, PendingRepeatables)'
        = PrefixKeys(Recorded', PendingVersioned', PendingRepeatables')
  OBVIOUS
<1>2. QED
  BY <1>1, SamePending

\* Rows that tell the truth name what is really applied.
LEMMA RealIs ==
  ASSUME Truthful(history)
  PROVE  Real = Recorded
BY DEF Truthful, Real, Recorded

\* The transactional members of a run.
LEMMA TransactionalIn ==
  ASSUME NEW run \in Seq(Content)
  PROVE  /\ \A x \in ToSet(Transactional(run)) :
              x \in Content \ Bare /\ \E i \in 1..Len(run) : x = run[i]
         /\ \A i \in 1..Len(run) :
              run[i] \in Content /\ (run[i] \notin Bare => run[i] \in ToSet(Transactional(run)))
<1>1. PICK w : w = Where(run, Content \ Bare)
  OBVIOUS
<1>2. w \in Seq(Content \cap (Content \ Bare)) /\ Kept(w, run, Content \ Bare)
  BY <1>1, WhereMembers, WhereKept
<1>3. DOMAIN w = 1..Len(w) /\ \A k \in 1..Len(w) : w[k] \in Content \ Bare
  BY <1>2, LenProperties, ElementOfSeq
<1>4. \A x : x \in ToSet(w) <=> \E k \in 1..Len(w) : x = w[k]
  BY <1>3 DEF ToSet
<1>5. \A i \in 1..Len(run) : run[i] \in Content
  BY ElementOfSeq
<1>6. ASSUME NEW x \in ToSet(w) PROVE x \in Content \ Bare /\ \E i \in 1..Len(run) : x = run[i]
  <2>1. PICK k \in 1..Len(w) : x = w[k]
    BY <1>4
  <2>2. QED
    BY <1>2, <1>3, <2>1 DEF Kept
<1>7. ASSUME NEW i \in 1..Len(run), run[i] \notin Bare PROVE run[i] \in ToSet(w)
  <2>1. run[i] \in Content \ Bare
    BY <1>5, <1>7
  <2>2. QED
    BY <1>2, <1>4, <2>1 DEF Kept
<1>8. QED
  BY <1>1, <1>5, <1>6, <1>7 DEF Transactional

\* The keys of a table, and what writing some of them leaves.
KeysTyped ==
  \A k \in DOMAIN outcome : /\ k \in Seq(Content) \X Seq(Content)
                            /\ outcome[k] \in {"passed", "failed", "override"}

\* Writing rows keeps the types of the table.
LEMMA RecordKeeps ==
  ASSUME NEW keys, NEW o, Record(keys, o), KeysTyped,
         \A k \in keys : k \in Seq(Content) \X Seq(Content),
         o \in {"passed", "failed", "override"}
  PROVE  KeysTyped'
<1>1. /\ DOMAIN outcome' = DOMAIN outcome \cup keys
      /\ \A k \in DOMAIN outcome' : outcome'[k] = IF k \in keys THEN o ELSE outcome[k]
  BY RecordIs
<1>2. QED
  BY <1>1 DEF KeysTyped

\* The types that a step on the table alone keeps.
LEMMA TypeKept ==
  ASSUME TypeOK, history' = history, files' = files, KeysTyped',
         scratch'.ran \subseteq Content, scratch'.proved \subseteq Ids,
         scratched' \subseteq [ran : SUBSET Content, edited : SUBSET Content], covered' \in BOOLEAN, repaired' \in BOOLEAN,
         rehearsals' \in 0..MaxRehearsals, edits' \in 0..MaxEdits,
         overrides' \in 0..MaxOverrides
  PROVE  TypeOK'
BY DEF TypeOK, KeysTyped

\* A rehearsal in place: it writes all the keys that passed, or that of the
\* whole run as failed, and what it writes as passed it has proved.
LEMMA RehearseKeeps ==
  ASSUME IInv, Rehearse
  PROVE  IInv'
<1> DEFINE keys == PrefixKeys(Recorded, PendingVersioned, PendingRepeatables)
<1>1. TypeOK /\ CoveredKeys /\ Justified /\ ScratchRan /\ KeysTyped
  BY DEF IInv, TypeOK, KeysTyped
<1>2. /\ history' = history /\ files' = files /\ repaired' = repaired
      /\ scratch' = scratch /\ scratched' = scratched
      /\ edits' = edits /\ overrides' = overrides
      /\ rehearsals < MaxRehearsals /\ rehearsals' = rehearsals + 1
  BY DEF Rehearse, onScratch
<1>3. PICK sweep \in Sweeps(FullRun) : RehearseLocked(Passed(sweep.results), sweep.clean)
  <2>1. PICK seen \in {<<Passed(sweep.results), sweep.clean>> : sweep \in Sweeps(FullRun)} :
          RehearseLocked(seen[1], seen[2])
    BY DEF Rehearse, FullRun
  <2>2. PICK sweep \in Sweeps(FullRun) : seen = <<Passed(sweep.results), sweep.clean>>
    BY <2>1
  <2>3. seen[1] = Passed(sweep.results) /\ seen[2] = sweep.clean
    BY <2>2
  <2>4. QED
    BY <2>1, <2>3
<1>4. FullRun \in Seq(Content)
  BY <1>1, TypeFacts
<1>5. (Passed(sweep.results) <=> sweep.clean) /\ sweep.clean \in BOOLEAN
  <2>1. PICK fault, read : IsSweep(sweep, FullRun, fault, read)
    BY SweepIs
  <2>2. sweep.clean = Unseen(FullRun, fault, read)
    BY <2>1 DEF IsSweep
  <2>3. Unseen(FullRun, fault, read) \in BOOLEAN
    BY DEF Unseen
  <2>4. QED
    BY <1>4, <2>2, <2>3, SweepHonest
<1>6. covered' = sweep.clean
  BY <1>3 DEF RehearseLocked
<1>7. /\ Recorded \in Seq(Content)
      /\ PendingVersioned \in Seq(Content) /\ PendingRepeatables \in Seq(Content)
      /\ FullRun = PendingVersioned \o PendingRepeatables
  BY <1>1, TypeFacts DEF FullRun
<1>8. CASE sweep.clean
  <2>1. Record(PassedKeys(Recorded, PendingVersioned, PendingRepeatables), "passed")
    BY <1>3, <1>5, <1>8 DEF RehearseLocked
  <2>2. proved' = proved \cup ProvedBy(PendingVersioned, PendingRepeatables)
    BY <1>3, <1>8 DEF RehearseLocked
  <2>3. PICK K : K = PassedKeys(Recorded, PendingVersioned, PendingRepeatables)
    OBVIOUS
  <2>4. /\ DOMAIN outcome' = DOMAIN outcome \cup K
        /\ \A k \in DOMAIN outcome' : outcome'[k] = IF k \in K THEN "passed" ELSE outcome[k]
    BY <2>1, <2>3, RecordIs
  <2>5. KeysTyped'
    <3>1. \A k \in K : k \in Seq(Content) \X Seq(Content)
      BY <1>7, <2>3, PassedKeysTyped
    <3>2. QED
      BY <1>1, <2>1, <2>3, <3>1, RecordKeeps
  <2>6. TypeOK'
    <3>1. /\ scratch'.ran \subseteq Content /\ scratch'.proved \subseteq Ids
          /\ scratched' \subseteq [ran : SUBSET Content, edited : SUBSET Content] /\ repaired' \in BOOLEAN
          /\ edits' \in 0..MaxEdits /\ overrides' \in 0..MaxOverrides
      BY <1>1, <1>2 DEF TypeOK
    <3>2. rehearsals' \in 0..MaxRehearsals
      <4>1. rehearsals \in 0..MaxRehearsals /\ MaxRehearsals \in Nat
        BY <1>1, GateAssumption DEF TypeOK, GateAssumption
      <4>2. QED
        BY <1>2, <4>1
    <3>3. QED
      BY <1>1, <1>2, <1>5, <1>6, <2>5, <3>1, <3>2, TypeKept
  <2>7. CoveredKeys'
    <3>1. keys \subseteq K
      BY <2>3 DEF PassedKeys
    <3>2. keys' = keys
      BY <1>2, SameKeys
    <3> HIDE DEF keys
    <3>3. \A k \in keys : k \in DOMAIN outcome' /\ outcome'[k] = "passed"
      BY <2>4, <3>1
    <3>4. \A k \in keys' : k \in DOMAIN outcome' /\ outcome'[k] = "passed"
      BY <3>2, <3>3
    <3>5. QED
      BY <3>4 DEF CoveredKeys, KeysPassed, keys
  <2>8. Justified'
    <3>1. SUFFICES ASSUME ~repaired
          PROVE  /\ Truthful(history)
                 /\ \A k \in DOMAIN outcome' : outcome'[k] = "passed" =>
                      ProvedRun(k, proved', scratched)
      BY <1>2 DEF Justified
    <3>2. /\ Truthful(history)
          /\ \A k \in DOMAIN outcome : outcome[k] = "passed" => ProvedRun(k, proved, scratched)
      BY <1>1, <3>1 DEF Justified
    <3>3. ASSUME NEW k \in K PROVE ProvedRun(k, proved', scratched)
      <4>1. PICK s \in 0..Len(PendingVersioned), e \in 0..Len(FullRun) :
              k = Key(Recorded \o SubSeq(PendingVersioned, 1, s), SubSeq(FullRun, s + 1, e))
        BY <1>7, <2>3, PassedKeysAre DEF KeyOf
      <4>2. /\ k[1] = Real \o SubSeq(PendingVersioned, 1, s)
            /\ k[2] = SubSeq(FullRun, s + 1, e)
        BY <3>2, <4>1, RealIs DEF Key
      <4>3. <<Transactional(Real \o SubSeq(PendingVersioned, 1, s)),
              Transactional(SubSeq(FullRun, s + 1, e))>>
              \in ProvedBy(PendingVersioned, PendingRepeatables)
        BY <1>7 DEF ProvedBy
      <4>4. QED
        BY <2>2, <4>2, <4>3 DEF ProvedRun
    <3>4. ASSUME NEW k, ProvedRun(k, proved, scratched) PROVE ProvedRun(k, proved', scratched)
      BY <2>2, <3>4 DEF ProvedRun
    <3>5. QED
      BY <2>4, <3>2, <3>3, <3>4
  <2>9. ScratchRan'
    BY <1>1, <1>2 DEF ScratchRan, Now
  <2>10. QED
    BY <2>6, <2>7, <2>8, <2>9 DEF IInv
<1>9. CASE ~sweep.clean
  <2>1. Record({Key(Recorded, FullRun)}, "failed") /\ proved' = proved /\ ~covered'
    BY <1>3, <1>5, <1>6, <1>9 DEF RehearseLocked, FullRun
  <2>2. KeysTyped'
    <3>1. \A k \in {Key(Recorded, FullRun)} : k \in Seq(Content) \X Seq(Content)
      <4>1. PICK a \in Seq(Content), b \in Seq(Content) : a = Recorded /\ b = FullRun
        BY <1>4, <1>7
      <4>2. Key(Recorded, FullRun) = <<a, b>>
        BY <4>1 DEF Key
      <4>3. QED
        BY <4>2
    <3>2. QED
      BY <1>1, <2>1, <3>1, RecordKeeps
  <2>3. TypeOK'
    <3>1. /\ scratch'.ran \subseteq Content /\ scratch'.proved \subseteq Ids
          /\ scratched' \subseteq [ran : SUBSET Content, edited : SUBSET Content] /\ repaired' \in BOOLEAN
          /\ edits' \in 0..MaxEdits /\ overrides' \in 0..MaxOverrides
      BY <1>1, <1>2 DEF TypeOK
    <3>2. rehearsals' \in 0..MaxRehearsals
      <4>1. rehearsals \in 0..MaxRehearsals /\ MaxRehearsals \in Nat
        BY <1>1, GateAssumption DEF TypeOK, GateAssumption
      <4>2. QED
        BY <1>2, <4>1
    <3>3. QED
      BY <1>1, <1>2, <1>5, <1>6, <2>2, <3>1, <3>2, TypeKept
  <2>4. CoveredKeys'
    BY <2>1 DEF CoveredKeys
  <2>5. Justified'
    <3>1. /\ DOMAIN outcome' = DOMAIN outcome \cup {Key(Recorded, FullRun)}
          /\ \A k \in DOMAIN outcome' :
               outcome'[k] = IF k \in {Key(Recorded, FullRun)} THEN "failed" ELSE outcome[k]
      BY <2>1, RecordIs
    <3>2. \A k \in DOMAIN outcome' : outcome'[k] = "passed" =>
            k \in DOMAIN outcome /\ outcome[k] = "passed"
      BY <3>1
    <3>3. QED
      BY <1>1, <1>2, <2>1, <3>2 DEF Justified
  <2>6. ScratchRan'
    BY <1>1, <1>2 DEF ScratchRan, Now
  <2>7. QED
    BY <2>3, <2>4, <2>5, <2>6 DEF IInv
<1>10. QED
  BY <1>5, <1>8, <1>9

\* Recording a scratch rehearsal: each pending migration is one it went over,
\* as it was then or as an edit has made it since.
LEMMA RecordScratchKeeps ==
  ASSUME IInv, RecordScratch
  PROVE  IInv'
<1> DEFINE keys == PrefixKeys(Recorded, PendingVersioned, PendingRepeatables)
<1> DEFINE edited == {Now(m.id) : m \in scratch.ran} \ scratch.ran
<1>1. TypeOK /\ CoveredKeys /\ Justified /\ ScratchRan /\ KeysTyped
  BY DEF IInv, TypeOK, KeysTyped
<1>2. /\ history' = history /\ files' = files /\ repaired' = repaired /\ proved' = proved
      /\ scratch' = NoResults /\ covered' = TRUE
      /\ scratched' = scratched \cup {[ran |-> scratch.ran, edited |-> edited]}
      /\ rehearsals' = rehearsals /\ edits' = edits /\ overrides' = overrides
  BY DEF RecordScratch, RecordScratchKeys, bounds
<1>3. PICK K : K = ScratchKeys(Recorded, PendingVersioned, PendingRepeatables)
  OBVIOUS
<1>4. K # {} /\ Record(K, "passed")
  BY <1>3 DEF RecordScratch, RecordScratchKeys
<1>5. /\ Recorded \in Seq(Content)
      /\ PendingVersioned \in Seq(Content) /\ PendingRepeatables \in Seq(Content)
      /\ FullRun = PendingVersioned \o PendingRepeatables /\ FullRun \in Seq(Content)
  BY <1>1, TypeFacts DEF FullRun
<1>6. /\ K = PassedKeys(Recorded, PendingVersioned, PendingRepeatables)
      /\ scratch.ok /\ \A m \in ToSet(FullRun) : m.id \in scratch.proved
  BY <1>3, <1>4, <1>5 DEF ScratchKeys
<1>7. /\ DOMAIN outcome' = DOMAIN outcome \cup K
      /\ \A k \in DOMAIN outcome' : outcome'[k] = IF k \in K THEN "passed" ELSE outcome[k]
  BY <1>4, RecordIs
<1>8. TypeOK'
  <2>1. \A k \in K : k \in Seq(Content) \X Seq(Content)
    BY <1>5, <1>6, PassedKeysTyped
  <2>2. KeysTyped'
    BY <1>1, <1>4, <2>1, RecordKeeps
  <2>3. /\ repaired' \in BOOLEAN /\ covered' \in BOOLEAN
        /\ rehearsals' \in 0..MaxRehearsals
        /\ edits' \in 0..MaxEdits /\ overrides' \in 0..MaxOverrides
    BY <1>1, <1>2 DEF TypeOK
  <2>4. scratch'.ran \subseteq Content /\ scratch'.proved \subseteq Ids
    BY <1>2 DEF NoResults
  <2>5. edited \subseteq Content
    <3>1. \A m \in scratch.ran : m.id \in Ids /\ files[m.id] \in 1..MaxEdition
      BY <1>1 DEF TypeOK, Content, Ids
    <3>2. QED
      BY <3>1 DEF Now, Content, Ids
  <2>6. scratched' \subseteq [ran : SUBSET Content, edited : SUBSET Content]
    <3>1. /\ scratch.ran \in SUBSET Content
          /\ scratched \subseteq [ran : SUBSET Content, edited : SUBSET Content]
      BY <1>1 DEF TypeOK
    <3> HIDE DEF edited
    <3>2. [ran |-> scratch.ran, edited |-> edited] \in [ran : SUBSET Content, edited : SUBSET Content]
      BY <2>5, <3>1
    <3>3. QED
      BY <1>2, <3>1, <3>2
  <2>7. QED
    BY <1>1, <1>2, <2>2, <2>3, <2>4, <2>6, TypeKept
<1>9. CoveredKeys'
  <2>1. keys \subseteq K
    BY <1>6 DEF PassedKeys
  <2>2. keys' = keys
    BY <1>2, SameKeys
  <2> HIDE DEF keys
  <2>3. \A k \in keys : k \in DOMAIN outcome' /\ outcome'[k] = "passed"
    BY <1>7, <2>1
  <2>4. \A k \in keys' : k \in DOMAIN outcome' /\ outcome'[k] = "passed"
    BY <2>2, <2>3
  <2>5. QED
    BY <2>4 DEF CoveredKeys, KeysPassed, keys
<1>10. Justified'
  <2>1. SUFFICES ASSUME ~repaired
        PROVE  /\ Truthful(history)
               /\ \A k \in DOMAIN outcome' : outcome'[k] = "passed" =>
                    ProvedRun(k, proved, scratched')
    BY <1>2 DEF Justified
  <2>2. /\ Truthful(history)
        /\ \A k \in DOMAIN outcome : outcome[k] = "passed" => ProvedRun(k, proved, scratched)
    BY <1>1, <2>1 DEF Justified
  <2>3. ASSUME NEW k \in K PROVE ProvedRun(k, proved, scratched')
    <3>1. /\ k \in Seq(Content) \X Seq(Content)
          /\ \A i \in 1..Len(k[2]) : \E j \in 1..Len(FullRun) : k[2][i] = FullRun[j]
      <4>1. PICK h \in Seq(Content) : h = Recorded
        BY <1>5
      <4>2. PICK v1 \in Seq(Content) : v1 = PendingVersioned
        BY <1>5
      <4>3. PICK v2 \in Seq(Content) : v2 = PendingRepeatables
        BY <1>5
      <4>4. k \in PassedKeys(h, v1, v2)
        BY <1>6, <4>1, <4>2, <4>3
      <4>5. /\ k \in Seq(Content) \X Seq(Content)
            /\ \A i \in 1..Len(k[2]) : \E j \in 1..Len(v1 \o v2) : k[2][i] = (v1 \o v2)[j]
        <5>1. \A x, y, z \in Seq(Content) : \A w \in PassedKeys(x, y, z) :
                 /\ w \in Seq(Content) \X Seq(Content)
                 /\ \A i \in 1..Len(w[2]) : \E j \in 1..Len(y \o z) : w[2][i] = (y \o z)[j]
          BY PassedKeysTyped, Zenon
        <5>2. QED
          BY <4>4, <5>1
      <4>6. FullRun = v1 \o v2
        BY <1>5, <4>2, <4>3
      <4>7. QED
        BY <4>5, <4>6
    <3>2. PICK v \in Seq(Content) : v = k[2]
      BY <3>1
    <3>3. ASSUME NEW x \in ToSet(Transactional(v)) PROVE x \in scratch.ran \cup edited
      <4>1. x \in Content \ Bare /\ \E i \in 1..Len(v) : x = v[i]
        BY TransactionalIn
      <4>2. PICK j \in 1..Len(FullRun) : x = FullRun[j]
        BY <3>1, <3>2, <4>1
      <4>3. IsRun(FullRun)
        BY <1>1, TypeFacts, FullRunIs
      <4>4. x = Now(x.id)
        BY <4>2, <4>3 DEF IsRun
      <4>5. x \in ToSet(FullRun)
        <5>1. DOMAIN FullRun = 1..Len(FullRun)
          BY <1>5, LenProperties
        <5>2. QED
          BY <4>2, <5>1 DEF ToSet
      <4>6. x.id \in scratch.proved
        BY <1>6, <4>5
      <4>7. PICK m \in scratch.ran : m.id = x.id
        BY <1>1, <1>6, <4>6 DEF ScratchRan
      <4>8. QED
        BY <4>4, <4>7
    <3>4. ToSet(Transactional(k[2])) \subseteq scratch.ran \cup edited
      BY <3>2, <3>3
    <3> HIDE DEF edited
    <3>5. PICK s \in scratched' : s.ran = scratch.ran /\ s.edited = edited
      <4> DEFINE r == [ran |-> scratch.ran, edited |-> edited]
      <4>1. r \in scratched'
        BY <1>2
      <4>2. r.ran = scratch.ran /\ r.edited = edited
        OBVIOUS
      <4>3. QED
        BY <4>1, <4>2
    <3>6. QED
      BY <3>4, <3>5 DEF ProvedRun, RanOrEdited
  <2>4. ASSUME NEW k, ProvedRun(k, proved, scratched) PROVE ProvedRun(k, proved, scratched')
    BY <1>2, <2>4 DEF ProvedRun
  <2>5. QED
    BY <1>7, <2>2, <2>3, <2>4
<1>11. ScratchRan'
  BY <1>2 DEF ScratchRan, NoResults
<1>12. QED
  BY <1>8, <1>9, <1>10, <1>11 DEF IInv

\* The run of a scratch rehearsal, from nothing or after the first migration.
LEMMA ScratchRunIs ==
  ASSUME FilesTyped, NEW n \in 0..1
  PROVE  /\ Contents(SubSeq(Versioned, n + 1, Len(Versioned)) \o Repeatable) \in Seq(Content)
         /\ \A i \in 1..Len(Contents(SubSeq(Versioned, n + 1, Len(Versioned)) \o Repeatable)) :
              LET m == Contents(SubSeq(Versioned, n + 1, Len(Versioned)) \o Repeatable)[i]
              IN  m = Now(m.id)
<1>1. Versioned \in Seq(Ids) /\ Repeatable \in Seq(Ids) /\ Len(Versioned) \in Nat
  BY ListFacts, LenProperties
<1>2. SubSeq(Versioned, n + 1, Len(Versioned)) \in Seq(Ids)
  <2>1. CASE n <= Len(Versioned)
    BY <1>1, <2>1, PartFacts
  <2>2. CASE ~(n <= Len(Versioned))
    <3>1. SubSeq(Versioned, n + 1, Len(Versioned)) = <<>>
      BY <1>1, <2>2, SubSeqEmpty
    <3>2. <<>> \in Seq(Ids)
      OBVIOUS
    <3>3. QED
      BY <3>1, <3>2
  <2>3. QED
    BY <2>1, <2>2
<1>3. PICK ids \in Seq(Ids) : ids = SubSeq(Versioned, n + 1, Len(Versioned)) \o Repeatable
  BY <1>1, <1>2, ConcatProperties
<1>4. /\ Contents(ids) \in Seq(Content) /\ Len(Contents(ids)) = Len(ids)
      /\ \A i \in 1..Len(ids) : Contents(ids)[i] = Now(ids[i]) /\ Contents(ids)[i].id = ids[i]
  BY ContentsAre
<1>5. QED
  BY <1>3, <1>4

\* A scratch rehearsal: its results name migrations of its run.
LEMMA RehearseScratchKeeps ==
  ASSUME IInv, RehearseScratch
  PROVE  IInv'
<1>1. TypeOK /\ CoveredKeys /\ Justified /\ ScratchRan /\ KeysTyped /\ FilesTyped
  BY TypeFacts DEF IInv, TypeOK, KeysTyped
<1>2. /\ history' = history /\ files' = files /\ repaired' = repaired /\ proved' = proved
      /\ outcome' = outcome /\ scratched' = scratched /\ covered' = covered
      /\ edits' = edits /\ overrides' = overrides /\ rehearsals < MaxRehearsals
  BY DEF RehearseScratch
<1>3. PICK n \in 0..1 :
        LET run == Contents(SubSeq(Versioned, n + 1, Len(Versioned)) \o Repeatable) IN
        \E sweep \in Sweeps(run) :
          IF Passed(sweep.results)
          THEN /\ scratch' =
                    [ok |-> TRUE,
                     proved |-> {r.id : r \in {x \in ToSet(sweep.results) : x.up # "failed"}},
                     ran |-> IF sweep.clean THEN ToSet(run) ELSE {}]
               /\ rehearsals' = rehearsals + 1
          ELSE scratch' = NoResults /\ UNCHANGED rehearsals
  BY DEF RehearseScratch
<1>4. PICK run : run = Contents(SubSeq(Versioned, n + 1, Len(Versioned)) \o Repeatable)
  OBVIOUS
<1>5. run \in Seq(Content) /\ \A i \in 1..Len(run) : run[i] = Now(run[i].id)
  BY <1>1, <1>4, ScratchRunIs
<1>6. PICK sweep \in Sweeps(run) :
        IF Passed(sweep.results)
        THEN /\ scratch' =
                  [ok |-> TRUE,
                   proved |-> {r.id : r \in {x \in ToSet(sweep.results) : x.up # "failed"}},
                   ran |-> IF sweep.clean THEN ToSet(run) ELSE {}]
             /\ rehearsals' = rehearsals + 1
        ELSE scratch' = NoResults /\ rehearsals' = rehearsals
  BY <1>3, <1>4
<1>7. Passed(sweep.results) <=> sweep.clean
  BY <1>5, SweepHonest
<1>8. /\ ToSet(run) \subseteq Content
      /\ \A i \in 1..Len(run) : run[i] \in Content /\ run[i] \in ToSet(run)
  BY <1>5, LenProperties DEF ToSet
<1>9. /\ scratch'.ran \subseteq Content /\ scratch'.proved \subseteq Ids
      /\ scratch'.ok => \A id \in scratch'.proved : \E m \in scratch'.ran : m.id = id
  <2>1. CASE Passed(sweep.results)
    <3>1. /\ scratch'.proved = {r.id : r \in {x \in ToSet(sweep.results) : x.up # "failed"}}
          /\ scratch'.ran = ToSet(run)
      BY <1>6, <1>7, <2>1
    <3>2. ASSUME NEW id \in scratch'.proved
          PROVE  id \in Ids /\ \E m \in scratch'.ran : m.id = id
      <4>1. PICK r \in ToSet(sweep.results) : id = r.id
        BY <3>1
      <4>2. PICK j \in 1..Len(run) : r.id = run[j].id
        BY <1>5, ResultIds
      <4>3. id = run[j].id
        BY <4>1, <4>2
      <4>4. id \in Ids
        BY <1>8, <4>3 DEF Content, Ids
      <4>5. QED
        BY <1>8, <3>1, <4>3, <4>4
    <3>3. QED
      BY <1>8, <3>1, <3>2
  <2>2. CASE ~Passed(sweep.results)
    <3>1. scratch' = NoResults
      BY <1>6, <2>2
    <3>2. QED
      BY <3>1 DEF NoResults
  <2>3. QED
    BY <2>1, <2>2
<1>10. TypeOK'
  <2>1. KeysTyped'
    BY <1>1, <1>2 DEF KeysTyped
  <2>2. /\ repaired' \in BOOLEAN /\ covered' \in BOOLEAN
        /\ edits' \in 0..MaxEdits /\ overrides' \in 0..MaxOverrides
        /\ scratched' \subseteq [ran : SUBSET Content, edited : SUBSET Content]
    BY <1>1, <1>2 DEF TypeOK
  <2>3. rehearsals' \in 0..MaxRehearsals
    <3>1. rehearsals \in 0..MaxRehearsals /\ MaxRehearsals \in Nat
      BY <1>1, GateAssumption DEF TypeOK, GateAssumption
    <3>2. rehearsals' = rehearsals + 1 \/ rehearsals' = rehearsals
      BY <1>6
    <3>3. QED
      BY <1>2, <3>1, <3>2
  <2>4. QED
    BY <1>1, <1>2, <1>9, <2>1, <2>2, <2>3, TypeKept
<1>11. CoveredKeys'
  <2>1. PrefixKeys(Recorded, PendingVersioned, PendingRepeatables)'
          = PrefixKeys(Recorded, PendingVersioned, PendingRepeatables)
    BY <1>2, SameKeys
  <2>2. QED
    BY <1>1, <1>2, <2>1 DEF CoveredKeys, KeysPassed
<1>12. Justified'
  BY <1>1, <1>2 DEF Justified
<1>13. ScratchRan'
  BY <1>9 DEF ScratchRan
<1>14. QED
  BY <1>10, <1>11, <1>12, <1>13 DEF IInv

\* The rows that a run leaves.
LEMMA UpRows ==
  ASSUME FilesTyped, OneRowEach(history), NEW run \in RunSets, NEW n \in 1..Len(run),
         history' = RowsAfter(run, n)
  PROVE  OneRowEach(history') /\ (Truthful(history) => Truthful(history'))
<1>1. IsRun(run) /\ Len(run) \in Nat
  BY RunsAre, LenProperties DEF IsRun
<1>2. n \in 0..Len(run)
  BY <1>1
<1>3. AfterRun(RowsAfter(run, n), run, n)
  BY <1>1, <1>2, RowsAfterAre
<1>4. PICK h : h = history'
  OBVIOUS
<1>5. AfterRun(h, run, n)
  BY <1>3, <1>4
<1>6. OneRowEach(h)
  BY <1>5 DEF AfterRun
<1>7. ASSUME Truthful(history), NEW i \in DOMAIN h PROVE h[i].checksum = h[i].edition
  <2>1. CASE \E j \in 1..n : h[i] = Row(run[j])
    BY <2>1 DEF Row
  <2>2. CASE \E k \in DOMAIN history : h[i] = history[k]
    BY <1>7, <2>2 DEF Truthful
  <2>3. QED
    BY <1>5, <2>1, <2>2 DEF AfterRun
<1>8. QED
  BY <1>4, <1>6, <1>7 DEF Truthful

\* The types that a step on the rows keeps.
LEMMA TypeKeptByRows ==
  ASSUME TypeOK, files' = files, OneRowEach(history'), KeysTyped',
         scratch' = scratch, scratched' = scratched,
         covered' \in BOOLEAN, repaired' \in BOOLEAN,
         rehearsals' = rehearsals, edits' = edits, overrides' \in 0..MaxOverrides
  PROVE  TypeOK'
BY DEF TypeOK, KeysTyped, OneRowEach, RowType

\* What both kinds of up() do to the rows and to what they cover.
LEMMA UpKeeps ==
  ASSUME IInv, NEW run \in RunSets, NEW n \in 1..Len(run), AppliedFirst(run, n),
         files' = files, proved' = proved, repaired' = repaired,
         scratch' = scratch, scratched' = scratched,
         rehearsals' = rehearsals, edits' = edits, overrides' \in 0..MaxOverrides,
         \/ outcome' = outcome
         \/ n = Len(run) /\ Record({Key(Recorded, run)}, "override")
  PROVE  IInv'
<1> DEFINE keys == PrefixKeys(Recorded, PendingVersioned, PendingRepeatables)
<1>1. /\ TypeOK /\ CoveredKeys /\ Justified /\ ScratchRan /\ KeysTyped
      /\ FilesTyped /\ OneRowEach(history) /\ Recorded \in Seq(Content)
  BY TypeFacts DEF IInv, TypeOK, KeysTyped
<1>2. /\ history' = RowsAfter(run, n)
      /\ covered' = (covered /\ (n <= Len(PendingVersioned) \/ n = Len(run)))
  BY DEF AppliedFirst
<1>3. PICK o : o = Key(Recorded, run)
  OBVIOUS
<1>4. /\ DOMAIN outcome \subseteq DOMAIN outcome'
      /\ \A k \in DOMAIN outcome' :
           \/ k \in DOMAIN outcome /\ outcome'[k] = outcome[k]
           \/ k = o /\ outcome'[k] = "override"
  <2>1. CASE outcome' = outcome
    BY <2>1
  <2>2. CASE Record({Key(Recorded, run)}, "override")
    <3>1. /\ DOMAIN outcome' = DOMAIN outcome \cup {o}
          /\ \A k \in DOMAIN outcome' :
               outcome'[k] = IF k \in {o} THEN "override" ELSE outcome[k]
      BY <1>3, <2>2, RecordIs
    <3>2. QED
      BY <3>1
  <2>3. QED
    BY <2>1, <2>2
<1>5. OneRowEach(history') /\ (Truthful(history) => Truthful(history'))
  BY <1>1, <1>2, UpRows
<1>6. TypeOK'
  <2>1. o \in Seq(Content) \X Seq(Content)
    <3>1. run \in Seq(Content)
      BY <1>1, RunsAre DEF IsRun
    <3>2. PICK a \in Seq(Content), b \in Seq(Content) : a = Recorded /\ b = run
      BY <1>1, <3>1
    <3>3. o = <<a, b>>
      BY <1>3, <3>2 DEF Key
    <3>4. QED
      BY <3>3
  <2>2. KeysTyped'
    BY <1>1, <1>4, <2>1 DEF KeysTyped
  <2>3. covered' \in BOOLEAN /\ repaired' \in BOOLEAN
    <3>1. repaired' \in BOOLEAN
      BY <1>1 DEF TypeOK
    <3>2. covered' \in BOOLEAN
      BY <1>2
    <3>3. QED
      BY <3>1, <3>2
  <2>4. QED
    BY <1>1, <1>5, <2>2, <2>3, TypeKeptByRows
<1>7. CoveredKeys'
  <2>1. SUFFICES ASSUME covered', NEW k, k \in keys'
        PROVE  k \in DOMAIN outcome' /\ outcome'[k] = "passed"
    BY DEF CoveredKeys, KeysPassed
  <2>2. covered /\ (n <= Len(PendingVersioned) \/ n = Len(run))
    BY <1>2, <2>1
  <2>3. k \in keys /\ k[1] # Recorded
    BY <1>1, <1>2, <2>1, <2>2, NewKeys
  <2>4. k \in DOMAIN outcome /\ outcome[k] = "passed"
    <3> HIDE DEF keys
    <3>1. \A x \in keys : x \in DOMAIN outcome /\ outcome[x] = "passed"
      BY <1>1, <2>2 DEF CoveredKeys, KeysPassed, keys
    <3>2. QED
      BY <2>3, <3>1
  <2>5. k # o
    BY <1>3, <2>3 DEF Key
  <2>6. QED
    BY <1>4, <2>4, <2>5
<1>8. Justified'
  <2>1. SUFFICES ASSUME ~repaired
        PROVE  /\ Truthful(history')
               /\ \A k \in DOMAIN outcome' : outcome'[k] = "passed" =>
                    ProvedRun(k, proved, scratched)
    BY DEF Justified
  <2>2. /\ Truthful(history)
        /\ \A k \in DOMAIN outcome : outcome[k] = "passed" => ProvedRun(k, proved, scratched)
    BY <1>1, <2>1 DEF Justified
  <2>3. QED
    BY <1>4, <1>5, <2>2
<1>9. ScratchRan'
  BY <1>1 DEF ScratchRan, Now
<1>10. QED
  BY <1>6, <1>7, <1>8, <1>9 DEF IInv

\* What any other step on the rows or the files does.
LEMMA DownKeeps ==
  ASSUME IInv, Down
  PROVE  IInv'
<1>1. /\ TypeOK /\ Justified /\ ScratchRan /\ KeysTyped /\ OneRowEach(history)
  BY TypeFacts DEF IInv, TypeOK, KeysTyped
<1>2. PICK i \in DOMAIN history : history' = RemoveAt(history, i)
  BY DEF Down
<1>3. /\ files' = files /\ outcome' = outcome /\ proved' = proved /\ repaired' = repaired
      /\ scratch' = scratch /\ scratched' = scratched /\ covered' = FALSE
      /\ rehearsals' = rehearsals /\ edits' = edits /\ overrides' = overrides
  BY DEF Down, onScratch, bounds
<1>4. PICK h : h = history'
  OBVIOUS
<1>5. OneRowEach(h) /\ \A j \in DOMAIN h : \E k \in DOMAIN history : h[j] = history[k]
  BY <1>1, <1>2, <1>4, RowRemoved
<1>6. TypeOK'
  <2>1. KeysTyped'
    BY <1>1, <1>3 DEF KeysTyped
  <2>2. covered' \in BOOLEAN /\ repaired' \in BOOLEAN /\ overrides' \in 0..MaxOverrides
    BY <1>1, <1>3 DEF TypeOK
  <2>3. QED
    BY <1>1, <1>3, <1>4, <1>5, <2>1, <2>2, TypeKeptByRows
<1>7. Truthful(history) => Truthful(history')
  BY <1>4, <1>5 DEF Truthful
<1>8. Justified'
  BY <1>1, <1>3, <1>7 DEF Justified
<1>9. ScratchRan'
  BY <1>1, <1>3 DEF ScratchRan, Now
<1>10. CoveredKeys'
  BY <1>3 DEF CoveredKeys
<1>11. QED
  BY <1>6, <1>8, <1>9, <1>10 DEF IInv

\* repair() voids what a rehearsal covers.
LEMMA RepairKeeps ==
  ASSUME IInv, Repair
  PROVE  IInv'
<1>1. /\ TypeOK /\ Justified /\ ScratchRan /\ KeysTyped /\ FilesTyped /\ OneRowEach(history)
  BY TypeFacts DEF IInv, TypeOK, KeysTyped
<1>2. /\ files' = files /\ outcome' = outcome /\ repaired' = TRUE
      /\ scratch' = scratch /\ scratched' = scratched /\ covered' = FALSE
      /\ rehearsals' = rehearsals /\ edits' = edits /\ overrides' = overrides
  BY DEF Repair, onScratch, bounds
<1>3. OneRowEach(history')
  BY <1>1, RowsRepaired
<1>4. TypeOK'
  <2>1. KeysTyped'
    BY <1>1, <1>2 DEF KeysTyped
  <2>2. covered' \in BOOLEAN /\ repaired' \in BOOLEAN /\ overrides' \in 0..MaxOverrides
    BY <1>1, <1>2 DEF TypeOK
  <2>3. QED
    BY <1>1, <1>2, <1>3, <2>1, <2>2, TypeKeptByRows
<1>5. Justified' /\ CoveredKeys'
  BY <1>2 DEF Justified, CoveredKeys
<1>6. ScratchRan'
  BY <1>1, <1>2 DEF ScratchRan, Now
<1>7. QED
  BY <1>4, <1>5, <1>6 DEF IInv

\* So does an edit of a file.
LEMMA EditKeeps ==
  ASSUME IInv, Edit
  PROVE  IInv'
<1>1. TypeOK /\ Justified /\ ScratchRan
  BY DEF IInv
<1>2. /\ history' = history /\ outcome' = outcome /\ repaired' = repaired /\ proved' = proved
      /\ scratched' = scratched /\ covered' = FALSE
      /\ rehearsals' = rehearsals /\ overrides' = overrides
      /\ edits < MaxEdits /\ edits' = edits + 1
      /\ scratch' = scratch
  BY DEF Edit, onScratch
<1>3. files' \in [Ids -> 1..MaxEdition]
  <2>1. PICK id \in Ids, e \in 1..MaxEdition : files' = [files EXCEPT ![id] = e]
    BY DEF Edit
  <2>2. QED
    BY <1>1, <2>1 DEF TypeOK
<1>4. edits' \in 0..MaxEdits
  <2>1. edits \in 0..MaxEdits /\ MaxEdits \in Nat
    BY <1>1, GateAssumption DEF TypeOK, GateAssumption
  <2>2. QED
    BY <1>2, <2>1
<1>5. scratch'.ran \subseteq Content /\ scratch'.proved \subseteq Ids
  BY <1>1, <1>2 DEF TypeOK
<1>6. TypeOK'
  BY <1>1, <1>2, <1>3, <1>4, <1>5 DEF TypeOK
<1>7. Justified' /\ CoveredKeys'
  BY <1>1, <1>2 DEF Justified, CoveredKeys
<1>8. ScratchRan'
  BY <1>1, <1>2 DEF ScratchRan
<1>9. QED
  BY <1>6, <1>7, <1>8 DEF IInv

\* The invariant holds where nothing is applied and nothing rehearsed.
LEMMA InitIInv == Init => IInv
<1>1. SUFFICES ASSUME Init PROVE IInv
  OBVIOUS
<1>2. TypeOK
  <2>1. files \in [Ids -> 1..MaxEdition]
    BY <1>1, GateAssumption DEF Init, GateAssumption
  <2>2. history = <<>> /\ DOMAIN outcome = {}
    BY <1>1 DEF Init
  <2>3. /\ rehearsals \in 0..MaxRehearsals /\ edits \in 0..MaxEdits
        /\ overrides \in 0..MaxOverrides
    BY <1>1, GateAssumption DEF Init, GateAssumption
  <2>4. /\ scratch.ran \subseteq Content /\ scratch.proved \subseteq Ids
        /\ scratched \subseteq [ran : SUBSET Content, edited : SUBSET Content] /\ covered \in BOOLEAN /\ repaired \in BOOLEAN
    BY <1>1 DEF Init, NoResults
  <2>5. /\ history \in Seq([id : Ids, checksum : 1..MaxEdition, edition : 1..MaxEdition])
        /\ \A i, j \in DOMAIN history : history[i].id = history[j].id => i = j
    BY <2>2
  <2>6. QED
    BY <2>1, <2>2, <2>3, <2>4, <2>5 DEF TypeOK
<1>3. CoveredKeys /\ ScratchRan
  BY <1>1 DEF Init, CoveredKeys, ScratchRan, NoResults
<1>4. Justified
  <2>1. history = <<>> /\ DOMAIN outcome = {}
    BY <1>1 DEF Init
  <2>2. QED
    BY <2>1 DEF Justified, Truthful
<1>5. QED
  BY <1>2, <1>3, <1>4 DEF IInv

\* Every step keeps it.
LEMMA NextIInv == IInv /\ [Next]_vars => IInv'
<1>1. SUFFICES ASSUME IInv, [Next]_vars PROVE IInv'
  OBVIOUS
<1>2. CASE Rehearse
  BY <1>1, <1>2, RehearseKeeps
<1>3. CASE RehearseScratch
  BY <1>1, <1>3, RehearseScratchKeeps
<1>4. CASE RecordScratch
  BY <1>1, <1>4, RecordScratchKeeps
<1>5. CASE Up
  <2>1. PICK run \in RunSets : \E n \in 1..Len(run) : AppliedFirst(run, n)
    BY <1>5 DEF Up
  <2>2. PICK n \in 1..Len(run) : AppliedFirst(run, n)
    BY <2>1
  <2>3. /\ files' = files /\ outcome' = outcome /\ proved' = proved /\ repaired' = repaired
        /\ scratch' = scratch /\ scratched' = scratched
        /\ rehearsals' = rehearsals /\ edits' = edits /\ overrides' = overrides
    BY <1>5 DEF Up, onScratch, bounds
  <2>4. overrides' \in 0..MaxOverrides
    BY <1>1, <2>3 DEF IInv, TypeOK
  <2>5. QED
    BY <1>1, <2>2, <2>3, <2>4, UpKeeps
<1>6. CASE UpUnrehearsed
  <2>1. PICK run \in RunSets : \E n \in 1..Len(run) :
          /\ AppliedFirst(run, n)
          /\ IF n = Len(run) /\ Removes(run)
             THEN Record({Key(Recorded, run)}, "override")
             ELSE outcome' = outcome
    BY <1>6 DEF UpUnrehearsed
  <2>2. PICK n \in 1..Len(run) :
          /\ AppliedFirst(run, n)
          /\ IF n = Len(run) /\ Removes(run)
             THEN Record({Key(Recorded, run)}, "override")
             ELSE outcome' = outcome
    BY <2>1
  <2>3. /\ files' = files /\ proved' = proved /\ repaired' = repaired
        /\ scratch' = scratch /\ scratched' = scratched
        /\ rehearsals' = rehearsals /\ edits' = edits
        /\ overrides < MaxOverrides /\ overrides' = overrides + 1
    BY <1>6 DEF UpUnrehearsed, onScratch
  <2>4. overrides' \in 0..MaxOverrides
    <3>1. overrides \in 0..MaxOverrides /\ MaxOverrides \in Nat
      BY <1>1, GateAssumption DEF IInv, TypeOK, GateAssumption
    <3>2. QED
      BY <2>3, <3>1
  <2>5. outcome' = outcome \/ (n = Len(run) /\ Record({Key(Recorded, run)}, "override"))
    <3>1. CASE n = Len(run) /\ Removes(run)
      BY <2>2, <3>1
    <3>2. CASE ~(n = Len(run) /\ Removes(run))
      BY <2>2, <3>2
    <3>3. QED
      BY <3>1, <3>2
  <2>6. QED
    BY <1>1, <2>2, <2>3, <2>4, <2>5, UpKeeps
<1>7. CASE Down
  BY <1>1, <1>7, DownKeeps
<1>8. CASE Repair
  BY <1>1, <1>8, RepairKeeps
<1>9. CASE Edit
  BY <1>1, <1>9, EditKeeps
<1>10. CASE UNCHANGED vars
  <2>1. /\ files' = files /\ history' = history /\ outcome' = outcome /\ proved' = proved
        /\ covered' = covered /\ repaired' = repaired /\ scratch' = scratch
        /\ scratched' = scratched /\ rehearsals' = rehearsals /\ edits' = edits
        /\ overrides' = overrides
    BY <1>10 DEF vars, onScratch, bounds
  <2>2. TypeOK' /\ Justified'
    BY <1>1, <2>1 DEF IInv, TypeOK, Justified, Truthful
  <2>3. PrefixKeys(Recorded, PendingVersioned, PendingRepeatables)'
          = PrefixKeys(Recorded, PendingVersioned, PendingRepeatables)
    BY <2>1, SameKeys
  <2>4. CoveredKeys'
    BY <1>1, <2>1, <2>3 DEF IInv, CoveredKeys, KeysPassed
  <2>5. ScratchRan'
    BY <1>1, <2>1 DEF IInv, ScratchRan, Now
  <2>6. QED
    BY <2>2, <2>4, <2>5 DEF IInv
<1>11. QED
  BY <1>1, <1>2, <1>3, <1>4, <1>5, <1>6, <1>7, <1>8, <1>9, <1>10 DEF Next

\* So it holds throughout.
LEMMA SpecIInv == Spec => []IInv
<1>1. QED
  BY InitIInv, NextIInv, PTL DEF Spec

-----------------------------------------------------------------------------
(* The theorems *)

\* Every key is a pair of lists of contents, and no migration has two rows.
THEOREM TypeCorrect == Spec => []TypeOK
<1>1. IInv => TypeOK
  BY DEF IInv
<1>2. QED
  BY <1>1, SpecIInv, PTL

\* Where the keys that the next runs need hold a passed row, each opens.
LEMMA KeysOpen ==
  ASSUME FilesTyped, OneRowEach(history), NEW run \in RunSets,
         KeysPassed(PrefixKeys(Recorded, PendingVersioned, PendingRepeatables))
  PROVE  GateOpens(run)
<1>1. PICK P : P = PendingVersioned
  OBVIOUS
<1>2. PICK R : R = PendingRepeatables
  OBVIOUS
<1>3. PICK A : A = Recorded
  OBVIOUS
<1>4. P \in Seq(Content) /\ R \in Seq(Content) /\ A \in Seq(Content) /\ Len(P) \in Nat
  BY <1>1, <1>2, <1>3, PendingAre, RecordedIs, LenProperties DEF PendingOf, IsRun
<1>5. A \o SubSeq(P, 1, 0) = A
  <2>1. SubSeq(P, 1, 0) = <<>>
    BY SubSeqEmpty
  <2>2. QED
    BY <1>4, <2>1, ConcatEmptySeq
<1>6. SUFFICES ASSUME Removes(run) PROVE Key(A, run) \in PrefixKeys(A, P, R)
  BY <1>1, <1>2, <1>3 DEF GateOpens, KeysPassed
<1>7. ASSUME NEW t \in 0..Len(P), run = SubSeq(P, 0 + 1, t)
      PROVE  Key(A, run) \in PrefixKeys(A, P, R)
  <2>1. Removes(SubSeq(P, 0 + 1, t))
        /\ Key(A, run) = Key(A \o SubSeq(P, 1, 0), SubSeq(P, 0 + 1, t))
    BY <1>5, <1>6, <1>7
  <2>2. 0 \in 0..Len(P)
    BY <1>4
  <2>3. SliceKey(Key(A, run), A, P)
    BY <2>1, <2>2 DEF SliceKey
  <2>4. QED
    BY <2>3, PrefixKeysAre
<1>8. SubSeq(P, 0 + 1, Len(P)) = P
  <2>1. PICK v : v = SubSeq(P, 0 + 1, Len(P))
    OBVIOUS
  <2>2. v \in Seq(Content) /\ Len(v) = Len(P) - 0 /\ \A k \in 1..(Len(P) - 0) : v[k] = P[0 + k]
    BY <1>4, <2>1, PartFacts
  <2>3. Len(v) = Len(P) /\ \A k \in 1..Len(v) : v[k] = P[k]
    BY <1>4, <2>2
  <2>4. v = P
    BY <1>4, <2>2, <2>3, SameList
  <2>5. QED
    BY <2>1, <2>4
<1>9. ASSUME run = P \o R PROVE Key(A, run) \in PrefixKeys(A, P, R)
  <2>1. CASE R = <<>>
    <3>1. run = P
      BY <1>4, <1>9, <2>1, ConcatEmptySeq
    <3>2. Len(P) \in 0..Len(P)
      BY <1>4
    <3>3. QED
      BY <1>7, <1>8, <3>1, <3>2
  <2>2. CASE R # <<>>
    <3>1. 0 \in 0..Len(P)
      BY <1>4
    <3>2. SubSeq(P, 0 + 1, Len(P)) \o R = run
      BY <1>8, <1>9
    <3>3. RestKey(Key(A, run), A, P, R)
      BY <1>5, <1>6, <2>2, <3>1, <3>2 DEF RestKey
    <3>4. QED
      BY <3>3, PrefixKeysAre
  <2>3. QED
    BY <2>1, <2>2
<1>10. run = P \o R \/ \E t \in 0..Len(P) : run = SubSeq(P, 0 + 1, t)
  BY <1>1, <1>2 DEF RunSets, RunTo, FullRun
<1>11. QED
  BY <1>7, <1>9, <1>10

\* After a rehearsal that met no fault no run of its migrations is refused, at
\* whichever versioned migration earlier ones stopped.
THEOREM GateCompleteHolds == Spec => []GateComplete
<1>1. IInv => GateComplete
  <2>1. SUFFICES ASSUME IInv, covered, NEW run \in RunSets PROVE GateOpens(run)
    BY DEF GateComplete
  <2>2. /\ FilesTyped /\ OneRowEach(history)
        /\ KeysPassed(PrefixKeys(Recorded, PendingVersioned, PendingRepeatables))
    BY <2>1, TypeFacts DEF IInv, CoveredKeys
  <2>3. QED
    BY <2>2, KeysOpen
<1>2. QED
  BY <1>1, SpecIInv, PTL

\* An up() that removes data runs what a rehearsal without a fault ran, or what
\* an edit had put in its place when its results were recorded by id.
THEOREM GateSoundHolds == Spec => GateSound
<1>1. IInv /\ Up /\ ~repaired =>
        \E run \in RunSets :
          /\ \E n \in 1..Len(run) : history' = RowsAfter(run, n)
          /\ Removes(run) =>
               \/ <<Transactional(Real), Transactional(run)>> \in proved
               \/ \E s \in scratched : RanOrEdited(run, s)
  <2>1. SUFFICES ASSUME IInv, Up, ~repaired
        PROVE  \E run \in RunSets :
                 /\ \E n \in 1..Len(run) : history' = RowsAfter(run, n)
                 /\ Removes(run) =>
                      \/ <<Transactional(Real), Transactional(run)>> \in proved
                      \/ \E s \in scratched : RanOrEdited(run, s)
    OBVIOUS
  <2>2. PICK run \in RunSets :
          GateOpens(run) /\ \E n \in 1..Len(run) : history' = RowsAfter(run, n)
    BY <2>1 DEF Up, AppliedFirst
  <2>3. /\ Truthful(history)
        /\ \A k \in DOMAIN outcome : outcome[k] = "passed" => ProvedRun(k, proved, scratched)
    BY <2>1 DEF IInv, Justified
  <2>4. ASSUME Removes(run) PROVE ProvedRun(Key(Recorded, run), proved, scratched)
    BY <2>2, <2>3, <2>4 DEF GateOpens
  <2>5. Key(Recorded, run)[1] = Real /\ Key(Recorded, run)[2] = run
    BY <2>3, RealIs DEF Key
  <2>6. Removes(run) =>
          \/ <<Transactional(Real), Transactional(run)>> \in proved
          \/ \E s \in scratched : RanOrEdited(run, s)
    BY <2>4, <2>5 DEF ProvedRun
  <2>7. QED
    BY <2>2, <2>6
<1>2. QED
  BY <1>1, SpecIInv, PTL DEF GateSound, Spec
=============================================================================
