--------------------------- MODULE AsyncPoolProofs ---------------------------
(***************************************************************************)
(* Proofs about AsyncPool, for any finite sets of tasks and adapters, any  *)
(* max_size and any drivers.                                               *)
(***************************************************************************)
EXTENDS AsyncPool, FiniteSetTheorems, SequenceTheorems, TLAPS

-----------------------------------------------------------------------------
(* The deque of waiters, which holds no task twice *)

IsQueue(s, S) == s \in Seq(S) /\ IsInjective(s)

LEMMA QueueEmpty ==
  ASSUME NEW S
  PROVE  IsQueue(<<>>, S) /\ ToSet(<<>>) = {}
  BY DEF IsQueue, IsInjective, ToSet

LEMMA QueueAppend ==
  ASSUME NEW S, NEW s, IsQueue(s, S), NEW x \in S, x \notin ToSet(s)
  PROVE  /\ IsQueue(Append(s, x), S)
         /\ ToSet(Append(s, x)) = ToSet(s) \cup {x}
  <1> DEFINE r == Append(s, x)
  <1>1. s \in Seq(S) /\ Len(s) \in Nat /\ DOMAIN s = 1..Len(s)
    BY DEF IsQueue
  <1>2. /\ r \in Seq(S) /\ DOMAIN r = 1..(Len(s) + 1)
        /\ \A i \in 1..Len(s) : r[i] = s[i]
        /\ r[Len(s) + 1] = x
    BY <1>1
  <1>3. \A i \in 1..Len(s) : s[i] # x
    BY <1>1 DEF ToSet
  <1>4. \A a, b \in 1..Len(s) : s[a] = s[b] => a = b
    BY <1>1 DEF IsQueue, IsInjective
  <1>5. \A a, b \in DOMAIN r : r[a] = r[b] => a = b
    BY <1>1, <1>2, <1>3, <1>4
  <1>6. {r[i] : i \in DOMAIN r} = {s[i] : i \in DOMAIN s} \cup {x}
    <2>1. ASSUME NEW i \in DOMAIN r PROVE r[i] \in {s[j] : j \in DOMAIN s} \cup {x}
      BY <1>1, <1>2
    <2>2. ASSUME NEW i \in DOMAIN s PROVE i \in DOMAIN r /\ r[i] = s[i]
      BY <1>1, <1>2
    <2>3. Len(s) + 1 \in DOMAIN r /\ r[Len(s) + 1] = x
      BY <1>1, <1>2
    <2>4. QED
      BY <2>1, <2>2, <2>3
  <1>7. QED
    BY <1>2, <1>5, <1>6 DEF IsQueue, IsInjective, ToSet

LEMMA QueueHead ==
  ASSUME NEW S, NEW s, IsQueue(s, S), s # <<>>
  PROVE  /\ Head(s) \in S /\ Head(s) \in ToSet(s)
         /\ IsQueue(Tail(s), S)
         /\ ToSet(Tail(s)) = ToSet(s) \ {Head(s)}
  <1> DEFINE r == Tail(s)
  <1>1. /\ s \in Seq(S) /\ Len(s) \in Nat \ {0} /\ DOMAIN s = 1..Len(s)
        /\ Head(s) = s[1] /\ s[1] \in S
    BY DEF IsQueue
  <1>2. /\ r \in Seq(S) /\ DOMAIN r = 1..(Len(s) - 1)
        /\ \A i \in 1..(Len(s) - 1) : r[i] = s[i + 1]
    BY <1>1
  <1>3. \A a, b \in 1..Len(s) : s[a] = s[b] => a = b
    BY <1>1 DEF IsQueue, IsInjective
  <1>4. \A a, b \in DOMAIN r : r[a] = r[b] => a = b
    BY <1>1, <1>2, <1>3
  <1>5. {r[i] : i \in DOMAIN r} = {s[i] : i \in DOMAIN s} \ {s[1]}
    <2>1. ASSUME NEW i \in DOMAIN r
          PROVE  r[i] \in {s[j] : j \in DOMAIN s} /\ r[i] # s[1]
      BY <1>1, <1>2, <1>3
    <2>2. ASSUME NEW i \in DOMAIN s, s[i] # s[1]
          PROVE  i - 1 \in DOMAIN r /\ r[i - 1] = s[i]
      BY <1>1, <1>2, <2>2
    <2>3. QED
      BY <2>1, <2>2
  <1> HIDE DEF r
  <1>6. IsQueue(r, S)
    BY <1>2, <1>4 DEF IsQueue, IsInjective
  <1>7. ToSet(r) = ToSet(s) \ {s[1]}
    BY <1>5 DEF ToSet
  <1>8. 1 \in DOMAIN s
    BY <1>1
  <1>9. s[1] \in ToSet(s)
    BY <1>8, Zenon DEF ToSet
  <1>10. QED
    BY <1>1, <1>6, <1>7, <1>9 DEF r

LEMMA QueueRemove ==
  ASSUME NEW S, NEW s, IsQueue(s, S), NEW k \in DOMAIN s
  PROVE  /\ IsQueue(RemoveAt(s, k), S)
         /\ ToSet(RemoveAt(s, k)) = ToSet(s) \ {s[k]}
  <1> DEFINE n == Len(s)
             p == SubSeq(s, 1, k - 1)
             q == SubSeq(s, k + 1, n)
             r == p \o q
  <1>1. s \in Seq(S) /\ n \in Nat /\ DOMAIN s = 1..n /\ k \in 1..n
    BY DEF IsQueue
  <1>2. /\ p \in Seq(S) /\ Len(p) = k - 1
        /\ \A i \in 1..(k - 1) : p[i] = s[i]
    BY <1>1, SubSeqProperties
  <1>3. /\ q \in Seq(S) /\ Len(q) = n - k
        /\ \A i \in 1..(n - k) : q[i] = s[k + i]
    BY <1>1, SubSeqProperties
  <1>4. /\ r \in Seq(S) /\ DOMAIN r = 1..(n - 1)
        /\ \A i \in 1..(n - 1) : r[i] = IF i < k THEN s[i] ELSE s[i + 1]
    <2> HIDE DEF p, q
    <2>1. r \in Seq(S) /\ Len(r) = Len(p) + Len(q)
      BY <1>2, <1>3, ConcatProperties
    <2>2. ASSUME NEW i \in 1..(n - 1)
          PROVE  r[i] = IF i < k THEN s[i] ELSE s[i + 1]
      <3>1. r[i] = IF i <= Len(p) THEN p[i] ELSE q[i - Len(p)]
        BY <1>1, <1>2, <1>3, ConcatProperties
      <3> HIDE DEF r, n
      <3>2. CASE i < k
        <4>1. Len(p) = k - 1 /\ k \in 1..n /\ n \in Nat
          BY <1>1, <1>2
        <4>2. i <= Len(p) /\ i \in 1..(k - 1)
          BY <3>2, <4>1
        <4>3. QED
          BY <1>2, <3>1, <3>2, <4>2
      <3>3. CASE i >= k
        <4>0. Len(p) = k - 1 /\ k \in 1..n /\ n \in Nat
          BY <1>1, <1>2
        <4>1. i - Len(p) \in 1..(n - k) /\ k + (i - Len(p)) = i + 1 /\ ~(i <= Len(p))
          <5> HIDE DEF p, q
          <5>1. QED
            BY <3>3, <4>0
        <4>2. r[i] = q[i - Len(p)]
          BY <3>1, <4>1
        <4>3. q[i - Len(p)] = s[k + (i - Len(p))]
          BY <1>3, <4>1
        <4>4. QED
          BY <3>3, <4>0, <4>1, <4>2, <4>3
      <3>4. QED
        BY <1>1, <3>2, <3>3
    <2> HIDE DEF r, n
    <2>3. QED
      BY <1>1, <1>2, <1>3, <2>1, <2>2
  <1> HIDE DEF r, n
  <1>5. \A a, b \in 1..n : s[a] = s[b] => a = b
    BY <1>1 DEF IsQueue, IsInjective
  <1>6. \A a, b \in DOMAIN r : r[a] = r[b] => a = b
    BY <1>1, <1>4, <1>5
  <1>7. {r[i] : i \in DOMAIN r} = {s[i] : i \in DOMAIN s} \ {s[k]}
    <2>1. ASSUME NEW i \in DOMAIN r
          PROVE  r[i] \in {s[j] : j \in DOMAIN s} /\ r[i] # s[k]
      <3>1. CASE i < k
        BY <1>1, <1>4, <1>5, <3>1
      <3>2. CASE i >= k
        <4>1. i + 1 \in 1..n /\ i + 1 # k /\ r[i] = s[i + 1]
          BY <1>1, <1>4, <3>2
        <4>2. QED
          BY <1>1, <1>5, <4>1
      <3>3. QED
        BY <1>1, <1>4, <3>1, <3>2
    <2>2. ASSUME NEW i \in DOMAIN s, s[i] # s[k]
          PROVE  \E j \in DOMAIN r : r[j] = s[i]
      <3>1. CASE i < k
        BY <1>1, <1>4, <3>1
      <3>2. CASE i > k
        <4>1. i - 1 \in DOMAIN r /\ r[i - 1] = s[i]
          BY <1>1, <1>4, <3>2
        <4>2. QED
          BY <4>1
      <3>3. QED
        BY <1>1, <2>2, <3>1, <3>2
    <2>3. QED
      BY <2>1, <2>2
  <1>8. RemoveAt(s, k) = r
    BY DEF RemoveAt, r, n
  <1>9. IsQueue(r, S)
    BY <1>4, <1>6 DEF IsQueue, IsInjective
  <1>10. ToSet(r) = ToSet(s) \ {s[k]}
    BY <1>7 DEF ToSet
  <1>11. QED
    BY <1>8, <1>9, <1>10

-----------------------------------------------------------------------------
(* Types and phases *)

TypeInv ==
    /\ rollsBack \in BOOLEAN /\ closed \in BOOLEAN
    /\ idle \subseteq Adapters /\ checkedOut \subseteq Adapters
    /\ created \in Int /\ created <= MaxSize
    /\ IsQueue(waiters, Tasks)
    /\ pc \in [Tasks -> Phases]
    /\ \A t \in Tasks : pc[t] = "waiting" <=> t \in ToSet(waiters)
    /\ expired \subseteq Tasks
    /\ held \in [Tasks -> SUBSET Adapters]
    /\ reset \in [Adapters -> {"none", "rollback", "close"}]
    /\ drained \in [Tasks -> SUBSET Adapters]
    /\ open \subseteq Adapters /\ abandoned \subseteq Adapters
    /\ session \in [Adapters -> {"clean", "transaction", "broken"}]

LEMMA InitType == Init => TypeInv
  <1> SUFFICES ASSUME Init PROVE TypeInv
    OBVIOUS
  <1>1. /\ idle \subseteq Adapters /\ checkedOut \subseteq Adapters
        /\ created \in Int /\ created <= MaxSize
        /\ expired \subseteq Tasks
        /\ open \subseteq Adapters /\ abandoned \subseteq Adapters
    BY AsyncPoolAssumption DEF Init
  <1>2. rollsBack \in BOOLEAN /\ closed \in BOOLEAN
    BY AsyncPoolAssumption, Zenon DEF Init
  <1>3. /\ IsQueue(waiters, Tasks) /\ pc \in [Tasks -> Phases]
        /\ \A t \in Tasks : pc[t] = "waiting" <=> t \in ToSet(waiters)
    BY QueueEmpty DEF Init, Phases
  <1>4. /\ held \in [Tasks -> SUBSET Adapters]
        /\ drained \in [Tasks -> SUBSET Adapters]
        /\ reset \in [Adapters -> {"none", "rollback", "close"}]
        /\ session \in [Adapters -> {"clean", "transaction", "broken"}]
    BY DEF Init
  <1>5. QED
    BY <1>1, <1>2, <1>3, <1>4 DEF TypeInv

\* What _wake_one() does to the queue and to the tasks' phases.
LEMMA WakeOnePhases ==
  ASSUME TypeInv, NEW phases \in [Tasks -> Phases],
         \A u \in Tasks : phases[u] = "waiting" <=> u \in ToSet(waiters),
         WakeOne(phases)
  PROVE  /\ IsQueue(waiters', Tasks)
         /\ pc' \in [Tasks -> Phases]
         /\ \A u \in Tasks : pc'[u] = "waiting" <=> u \in ToSet(waiters')
         /\ \A u \in Tasks :
               pc'[u] # phases[u] => phases[u] = "waiting" /\ pc'[u] = "woken"
         /\ waiters # <<>> =>
               \E w \in Tasks : /\ phases[w] = "waiting"
                                /\ pc' = [phases EXCEPT ![w] = "woken"]
         /\ waiters = <<>> => waiters' = <<>> /\ pc' = phases
  <1>1. CASE waiters = <<>>
    BY <1>1 DEF WakeOne, TypeInv
  <1>2. CASE waiters # <<>>
    <2> DEFINE w == Head(waiters)
    <2>1. /\ waiters' = Tail(waiters)
          /\ pc' = [phases EXCEPT ![w] = "woken"]
      BY <1>2 DEF WakeOne
    <2>2. /\ w \in Tasks /\ w \in ToSet(waiters)
          /\ IsQueue(waiters', Tasks)
          /\ ToSet(waiters') = ToSet(waiters) \ {w}
      BY <1>2, <2>1, QueueHead DEF TypeInv
    <2> HIDE DEF w
    <2>3. QED
      BY <1>2, <2>1, <2>2 DEF Phases
  <1>3. QED
    BY <1>1, <1>2

\* deque.remove(): the task is off the queue, the others keep their places.
LEMMA WithdrawQueue ==
  ASSUME TypeInv, NEW t \in Tasks, Withdraw(t)
  PROVE  IsQueue(waiters', Tasks) /\ ToSet(waiters') = ToSet(waiters) \ {t}
  BY QueueRemove DEF Withdraw, TypeInv

LEMMA NextType == TypeInv /\ [Next]_vars => TypeInv'
  <1> SUFFICES ASSUME TypeInv, [Next]_vars PROVE TypeInv'
    OBVIOUS
  <1>1. ASSUME NEW t \in Tasks,
               \/ RaiseClosed(t) \/ RaiseTimeout(t) \/ CancelWoken(t)
               \/ ReleaseReturns(t) \/ CloseReturns(t)
        PROVE  TypeInv'
    BY <1>1 DEF RaiseClosed, RaiseTimeout, AtLoop, CancelWoken, ReleaseReturns,
       CloseReturns, Goto, TypeInv, Phases, poolVars, adapterVars
  <1>2. ASSUME NEW t \in Tasks, TakeIdle(t)
        PROVE  TypeInv'
    BY <1>2 DEF TakeIdle, AtLoop, Goto, TypeInv, Phases, adapterVars
  <1>3. ASSUME NEW t \in Tasks, ReserveSlot(t)
        PROVE  TypeInv'
    BY <1>3, AsyncPoolAssumption
    DEF ReserveSlot, AtLoop, Goto, TypeInv, Phases, adapterVars
  <1>4. ASSUME NEW t \in Tasks, Wait(t)
        PROVE  TypeInv'
    <2>1. t \notin ToSet(waiters)
      BY <1>4 DEF Wait, AtLoop, TypeInv
    <2>2. /\ IsQueue(waiters', Tasks)
          /\ ToSet(waiters') = ToSet(waiters) \cup {t}
      BY <1>4, <2>1, QueueAppend DEF Wait, TypeInv
    <2>3. QED
      BY <1>4, <2>1, <2>2 DEF Wait, Goto, TypeInv, Phases, adapterVars
  <1>5. ASSUME NEW t \in Tasks, Expire(t) \/ CancelWaiting(t)
        PROVE  TypeInv'
    <2>1. CASE Withdraw(t)
      BY <1>5, <2>1, WithdrawQueue
      DEF Expire, CancelWaiting, Goto, TypeInv, Phases, adapterVars
    <2>2. CASE UNCHANGED waiters /\ pc[t] # "waiting"
      BY <1>5, <2>2
      DEF Expire, CancelWaiting, Goto, TypeInv, Phases, adapterVars
    <2>3. QED
      BY <1>5, <2>1, <2>2 DEF Expire, CancelWaiting
  <1>6. ASSUME NEW t \in Tasks, PassWakeup(t) \/ FactoryRaises(t)
        PROVE  TypeInv'
    <2>1. [pc EXCEPT ![t] = "user"] \in [Tasks -> Phases]
      BY DEF TypeInv, Phases
    <2>2. /\ IsQueue(waiters', Tasks) /\ pc' \in [Tasks -> Phases]
          /\ \A u \in Tasks : pc'[u] = "waiting" <=> u \in ToSet(waiters')
      BY <1>6, <2>1, WakeOnePhases
      DEF PassWakeup, FactoryRaises, WakeOneAndGoto, TypeInv
    <2>3. QED
      BY <1>6, <2>2, AsyncPoolAssumption
      DEF PassWakeup, FactoryRaises, TypeInv, adapterVars
  <1>7. ASSUME NEW t \in Tasks, FactoryReturns(t)
        PROVE  TypeInv'
    BY <1>7 DEF FactoryReturns, Goto, TypeInv, Phases
  <1>8. ASSUME NEW t \in Tasks, NEW a \in Adapters, Release(t, a)
        PROVE  TypeInv'
    BY <1>8 DEF Release, Goto, TypeInv, Phases
  <1>9. ASSUME NEW a \in Adapters, PutIdle(a) \/ Discard(a)
        PROVE  TypeInv'
    <2>1. /\ IsQueue(waiters', Tasks) /\ pc' \in [Tasks -> Phases]
          /\ \A u \in Tasks : pc'[u] = "waiting" <=> u \in ToSet(waiters')
      BY <1>9, WakeOnePhases DEF PutIdle, Discard, TypeInv
    <2>2. QED
      BY <1>9, <2>1, AsyncPoolAssumption DEF PutIdle, Discard, RolledBack, TypeInv
  <1>10. ASSUME NEW a \in Adapters, HangUp(a) \/ Break(a)
         PROVE  TypeInv'
    BY <1>10 DEF HangUp, Break, TypeInv, poolVars, taskVars
  <1>11. ASSUME NEW t \in Tasks, Close(t)
         PROVE  TypeInv'
    <2>1. Cardinality(idle) \in Nat
      BY FS_CardinalityType, FS_Subset, AsyncPoolAssumption DEF TypeInv
    <2>2. closed' \in BOOLEAN
      BY <1>11, Zenon DEF Close
    <2>3. created' \in Int /\ created' <= MaxSize
      BY <1>11, <2>1, AsyncPoolAssumption DEF Close, TypeInv
    <2>4. QED
      BY <1>11, <2>2, <2>3, QueueEmpty DEF Close, TypeInv, Phases, adapterVars
  <1>12. ASSUME NEW t \in Tasks, CloseDrained(t) \/ CancelClose(t)
         PROVE  TypeInv'
    BY <1>12 DEF CloseDrained, CancelClose, Goto, TypeInv, Phases, poolVars
  <1>13. ASSUME NEW t \in Tasks, NEW a \in Adapters, RunStatement(t, a)
         PROVE  TypeInv'
    BY <1>13 DEF RunStatement, TypeInv, poolVars, taskVars
  <1>14. CASE UNCHANGED vars
    BY <1>14 DEF vars, poolVars, taskVars, adapterVars, TypeInv
  <1>15. QED
    BY <1>1, <1>2, <1>3, <1>4, <1>5, <1>6, <1>7, <1>8, <1>9, <1>10, <1>11,
       <1>12, <1>13, <1>14 DEF Next, Acquire, Resume, ResetRuns

LEMMA TypeInvCorrect == Spec => []TypeInv
  BY InitType, NextType, PTL DEF Spec

-----------------------------------------------------------------------------
(* Custody *)

\* Every adapter is in one place: idle, with one task, in a reset, in the
\* list of one close(), or abandoned by one.
OnePlace ==
    \A a \in Adapters :
       /\ a \in idle => reset[a] = "none" /\ a \notin abandoned
       /\ a \in abandoned => reset[a] = "none"
       /\ \A t \in Tasks :
             /\ a \in held[t] \cup drained[t] =>
                   a \notin idle /\ reset[a] = "none" /\ a \notin abandoned
             /\ a \in held[t] => a \in checkedOut
             /\ a \notin held[t] \cap drained[t]
             /\ \A u \in Tasks \ {t} :
                   a \in held[t] \cup drained[t] => a \notin held[u] \cup drained[u]

CustodyInv ==
    /\ OnePlace
    /\ checkedOut = UNION {held[t] : t \in Tasks}
    /\ \A a \in Adapters :
          a \in open <=> \/ a \in idle \/ a \in abandoned \/ reset[a] # "none"
                         \/ \E t \in Tasks : a \in held[t] \cup drained[t]
    /\ \A t \in Tasks : drained[t] # {} => pc[t] = "closing"
    /\ closed => idle = {} /\ waiters = <<>>

LEMMA InitCustody == Init => CustodyInv
  BY DEF Init, CustodyInv, OnePlace

\* A step that moves no adapter.
LEMMA CustodyUnmoved ==
  ASSUME TypeInv, CustodyInv,
         UNCHANGED <<idle, checkedOut, held, reset, drained, open, abandoned>>,
         closed' => idle' = {} /\ waiters' = <<>>,
         \A t \in Tasks : pc[t] = "closing" /\ drained[t] # {} => pc'[t] = "closing"
  PROVE  CustodyInv'
  BY DEF CustodyInv, OnePlace

LEMMA NextCustody == TypeInv /\ CustodyInv /\ [Next]_vars => CustodyInv'
  <1> SUFFICES ASSUME TypeInv, CustodyInv, [Next]_vars PROVE CustodyInv'
    OBVIOUS
  <1>1. ASSUME NEW t \in Tasks,
               \/ RaiseClosed(t) \/ RaiseTimeout(t) \/ ReserveSlot(t) \/ Wait(t)
               \/ CancelWoken(t) \/ ReleaseReturns(t) \/ CloseReturns(t)
        PROVE  CustodyInv'
    BY <1>1, CustodyUnmoved
    DEF RaiseClosed, RaiseTimeout, ReserveSlot, Wait, AtLoop, CancelWoken,
        ReleaseReturns, CloseReturns, Goto, poolVars, adapterVars, TypeInv,
        CustodyInv
  <1>2. ASSUME NEW t \in Tasks, TakeIdle(t)
        PROVE  CustodyInv'
    BY <1>2 DEF TakeIdle, AtLoop, Goto, adapterVars, TypeInv, CustodyInv, OnePlace
  <1>3. ASSUME NEW t \in Tasks, Expire(t) \/ CancelWaiting(t)
        PROVE  CustodyInv'
    <2>1. closed' => idle' = {} /\ waiters' = <<>>
      BY <1>3, QueueEmpty DEF Expire, CancelWaiting, TypeInv, CustodyInv
    <2>2. QED
      BY <1>3, <2>1, CustodyUnmoved
      DEF Expire, CancelWaiting, Goto, adapterVars, TypeInv
  <1>4. ASSUME NEW t \in Tasks, PassWakeup(t) \/ FactoryRaises(t)
        PROVE  CustodyInv'
    <2> DEFINE phases == [pc EXCEPT ![t] = "user"]
    <2>1. /\ phases \in [Tasks -> Phases] /\ WakeOne(phases)
          /\ \A u \in Tasks : phases[u] = "waiting" <=> u \in ToSet(waiters)
          /\ \A u \in Tasks : pc[u] = "closing" => phases[u] = "closing"
      BY <1>4 DEF TypeInv, Phases, PassWakeup, FactoryRaises, WakeOneAndGoto
    <2> HIDE DEF phases
    <2>2. /\ \A u \in Tasks : pc[u] = "closing" => pc'[u] = "closing"
          /\ waiters = <<>> => waiters' = <<>>
      BY <2>1, WakeOnePhases DEF TypeInv
    <2>3. QED
      BY <1>4, <2>2, CustodyUnmoved
      DEF PassWakeup, FactoryRaises, adapterVars, CustodyInv
  <1>5. ASSUME NEW t \in Tasks, FactoryReturns(t)
        PROVE  CustodyInv'
    BY <1>5 DEF FactoryReturns, Goto, TypeInv, CustodyInv, OnePlace
  <1>6. ASSUME NEW t \in Tasks, NEW a \in Adapters, Release(t, a)
        PROVE  CustodyInv'
    BY <1>6 DEF Release, Goto, TypeInv, CustodyInv, OnePlace
  <1>7. ASSUME NEW a \in Adapters, PutIdle(a) \/ Discard(a)
        PROVE  CustodyInv'
    <2>1. /\ \A u \in Tasks : pc[u] = "closing" => pc'[u] = "closing"
          /\ waiters = <<>> => waiters' = <<>>
      BY <1>7, WakeOnePhases DEF PutIdle, Discard, TypeInv
    <2>2. QED
      BY <1>7, <2>1 DEF PutIdle, Discard, TypeInv, CustodyInv, OnePlace
  <1>8. ASSUME NEW a \in Adapters, HangUp(a)
        PROVE  CustodyInv'
    BY <1>8 DEF HangUp, poolVars, taskVars, TypeInv, CustodyInv, OnePlace
  <1>9. ASSUME NEW t \in Tasks, Close(t)
        PROVE  CustodyInv'
    BY <1>9 DEF Close, adapterVars, TypeInv, CustodyInv, OnePlace
  <1>10. ASSUME NEW t \in Tasks, CloseDrained(t) \/ CancelClose(t)
         PROVE  CustodyInv'
    BY <1>10 DEF CloseDrained, CancelClose, Goto, poolVars, TypeInv, CustodyInv, OnePlace
  <1>11. CASE \/ \E t \in Tasks, a \in Adapters : RunStatement(t, a)
              \/ \E a \in Adapters : Break(a)
              \/ UNCHANGED vars
    BY <1>11, CustodyUnmoved
    DEF RunStatement, Break, vars, poolVars, taskVars, adapterVars, CustodyInv
  <1>12. QED
    BY <1>1, <1>2, <1>3, <1>4, <1>5, <1>6, <1>7, <1>8, <1>9, <1>10, <1>11
    DEF Next, Acquire, Resume, ResetRuns

LEMMA CustodyCorrect == Spec => []CustodyInv
  BY TypeInvCorrect, InitCustody, NextCustody, PTL DEF Spec

\* No adapter has two owners, whatever was cancelled: it is idle, with one
\* task, in a reset, or in one close() of aio_pool.py.
THEOREM OnePlaceHolds == Spec => []OnePlace
  BY CustodyCorrect, PTL DEF CustodyInv

\* Every open connection is where the pool or a task can still reach it,
\* unless a cancelled close() left it behind.
THEOREM NoLeakHolds == Spec => []NoLeak
  <1>1. ASSUME TypeInv, CustodyInv PROVE NoLeak
    <2> DEFINE Taken == UNION {held[t] \cup drained[t] : t \in Tasks}
               Resetting == {a \in Adapters : reset[a] # "none"}
    <2>1. \A a : a \in Taken <=> \E t \in Tasks : a \in held[t] \cup drained[t]
      OBVIOUS
    <2>2. \A a : a \in Resetting <=> a \in Adapters /\ reset[a] # "none"
      OBVIOUS
    <2> HIDE DEF Taken, Resetting
    <2>3. \A a : a \in open \ abandoned <=> a \in (idle \cup Taken \cup Resetting) \ abandoned
      <3>1. /\ open \subseteq Adapters /\ idle \subseteq Adapters
            /\ \A t \in Tasks : held[t] \cup drained[t] \subseteq Adapters
        BY <1>1 DEF TypeInv
      <3>2. \A a \in Adapters :
               a \in open <=> \/ a \in idle \/ a \in abandoned \/ a \in Resetting
                             \/ a \in Taken
        BY <1>1, <2>1, <2>2 DEF CustodyInv
      <3>3. Taken \subseteq Adapters /\ Resetting \subseteq Adapters
        <4>1. ASSUME NEW a \in Taken PROVE a \in Adapters
          <5>1. PICK t \in Tasks : a \in held[t] \cup drained[t]
            BY <2>1
          <5>2. QED
            BY <3>1, <5>1
        <4>2. QED
          BY <2>2, <4>1
      <3>4. QED
        BY <3>1, <3>2, <3>3
    <2>4. open \ abandoned = (idle \cup Taken \cup Resetting) \ abandoned
      BY <2>3
    <2>5. QED
      BY <2>4 DEF NoLeak, Taken, Resetting
  <1>2. QED
    BY <1>1, TypeInvCorrect, CustodyCorrect, PTL

-----------------------------------------------------------------------------
(***************************************************************************)
(* Slots.  A slot is an adapter that is idle, lent or on its way back, or  *)
(* a task in the factory: each step of the event loop that changes         *)
(* _created adds or removes that many, and every other keeps their number. *)
(***************************************************************************)

Stock == idle \cup checkedOut \cup Returning

LEMMA SlotsFinite ==
  ASSUME TypeInv
  PROVE  /\ IsFiniteSet(idle) /\ IsFiniteSet(Stock) /\ IsFiniteSet(Admitted)
         /\ Cardinality(idle) \in Nat /\ Cardinality(Stock) \in Nat
         /\ Cardinality(Admitted) \in Nat
  <1>1. idle \subseteq Adapters /\ Stock \subseteq Adapters /\ Admitted \subseteq Tasks
    BY DEF Stock, Returning, Admitted, TypeInv
  <1>2. QED
    BY <1>1, FS_Subset, FS_CardinalityType, AsyncPoolAssumption

LEMMA InitSlots == Init => SlotAccounting
  <1> SUFFICES ASSUME Init PROVE SlotAccounting
    OBVIOUS
  <1>1. idle \cup checkedOut \cup Returning = {} /\ Admitted = {}
    BY DEF Init, Returning, Admitted
  <1>2. Cardinality({}) = 0 /\ created = 0
    BY FS_EmptySet DEF Init
  <1>3. QED
    BY <1>1, <1>2 DEF SlotAccounting

LEMMA SlotsMoved ==
  ASSUME TypeInv, SlotAccounting, NEW i \in Int, NEW j \in Int,
         Cardinality(Stock') = Cardinality(Stock) + i,
         Cardinality(Admitted') = Cardinality(Admitted) + j,
         created' = created + i + j
  PROVE  SlotAccounting'
  <1>1. created = Cardinality(Stock) + Cardinality(Admitted)
    BY DEF SlotAccounting, Stock
  <1>2. created' = Cardinality(Stock') + Cardinality(Admitted')
    BY <1>1, SlotsFinite
  <1>3. QED
    BY <1>2 DEF SlotAccounting, Stock

LEMMA SlotsKept ==
  ASSUME SlotAccounting, Stock' = Stock, Admitted' = Admitted, created' = created
  PROVE  SlotAccounting'
  BY DEF SlotAccounting, Stock

LEMMA NextSlots ==
  TypeInv /\ CustodyInv /\ SlotAccounting /\ [Next]_vars => SlotAccounting'
  <1> SUFFICES ASSUME TypeInv, CustodyInv, SlotAccounting, [Next]_vars
               PROVE  SlotAccounting'
    OBVIOUS
  <1>1. ASSUME NEW t \in Tasks,
               \/ RaiseClosed(t) \/ RaiseTimeout(t) \/ Wait(t) \/ Expire(t)
               \/ CancelWaiting(t) \/ CancelWoken(t) \/ ReleaseReturns(t)
               \/ CloseReturns(t) \/ CloseDrained(t) \/ CancelClose(t)
        PROVE  SlotAccounting'
    <2>1. Admitted' = Admitted
      BY <1>1 DEF RaiseClosed, RaiseTimeout, Wait, AtLoop, Expire, CancelWaiting,
         CancelWoken, ReleaseReturns, CloseReturns, CloseDrained, CancelClose,
         Goto, TypeInv, Admitted
    <2>2. Stock' = Stock /\ created' = created
      BY <1>1 DEF RaiseClosed, RaiseTimeout, Wait, Expire, CancelWaiting,
         CancelWoken, ReleaseReturns, CloseReturns, CloseDrained, CancelClose,
         poolVars, adapterVars, Stock, Returning
    <2>3. QED
      BY <2>1, <2>2, SlotsKept
  <1>2. ASSUME NEW t \in Tasks, TakeIdle(t)
        PROVE  SlotAccounting'
    <2>1. Admitted' = Admitted
      BY <1>2 DEF TakeIdle, AtLoop, Goto, TypeInv, Admitted
    <2>2. Stock' = Stock /\ created' = created
      BY <1>2 DEF TakeIdle, adapterVars, Stock, Returning
    <2>3. QED
      BY <2>1, <2>2, SlotsKept
  <1>3. ASSUME NEW t \in Tasks, ReserveSlot(t)
        PROVE  SlotAccounting'
    <2>1. Admitted' = Admitted \cup {t} /\ t \notin Admitted
      BY <1>3 DEF ReserveSlot, AtLoop, Goto, TypeInv, Phases, Admitted
    <2>2. Cardinality(Admitted') = Cardinality(Admitted) + 1
      BY <2>1, SlotsFinite, FS_AddElement
    <2>3. Stock' = Stock /\ created' = created + 1
      BY <1>3 DEF ReserveSlot, adapterVars, Stock, Returning
    <2>4. QED
      BY <2>2, <2>3, SlotsFinite, SlotsMoved DEF TypeInv
  <1>4. ASSUME NEW t \in Tasks, FactoryReturns(t)
        PROVE  SlotAccounting'
    <2>1. PICK a \in Adapters \ open : checkedOut' = checkedOut \cup {a}
      BY <1>4 DEF FactoryReturns
    <2>2. Admitted' = Admitted \ {t} /\ t \in Admitted
      BY <1>4 DEF FactoryReturns, Goto, TypeInv, Phases, Admitted
    <2>3. Cardinality(Admitted') = Cardinality(Admitted) - 1
      BY <2>2, SlotsFinite, FS_RemoveElement
    <2>4. Stock' = Stock \cup {a}
      BY <1>4, <2>1 DEF FactoryReturns, Stock, Returning
    <2>5. a \notin Stock
      BY <2>1 DEF CustodyInv, OnePlace, Stock, Returning
    <2>6. Cardinality(Stock') = Cardinality(Stock) + 1
      BY <2>4, <2>5, SlotsFinite, FS_AddElement
    <2>7. created' = created
      BY <1>4 DEF FactoryReturns
    <2>8. QED
      BY <2>3, <2>6, <2>7, SlotsFinite, SlotsMoved DEF TypeInv
  <1>5. ASSUME NEW t \in Tasks, PassWakeup(t) \/ FactoryRaises(t)
        PROVE  SlotAccounting'
    <2> DEFINE phases == [pc EXCEPT ![t] = "user"]
    <2>1. /\ phases \in [Tasks -> Phases] /\ WakeOne(phases)
          /\ \A u \in Tasks : phases[u] = "waiting" <=> u \in ToSet(waiters)
          /\ \A u \in Tasks : phases[u] = "factory" <=> u \in Admitted \ {t}
      BY <1>5 DEF TypeInv, Phases, Admitted, PassWakeup, FactoryRaises, WakeOneAndGoto
    <2> HIDE DEF phases
    <2>2. Admitted' = Admitted \ {t}
      BY <2>1, WakeOnePhases DEF Admitted
    <2>3. Stock' = Stock
      BY <1>5 DEF PassWakeup, FactoryRaises, adapterVars, Stock, Returning
    <2>4. CASE PassWakeup(t)
      <3>1. Admitted' = Admitted /\ created' = created
        BY <2>2, <2>4 DEF PassWakeup, Admitted
      <3>2. QED
        BY <2>3, <3>1, SlotsKept
    <2>5. CASE FactoryRaises(t)
      <3>1. t \in Admitted /\ created' = created - 1
        BY <2>5 DEF FactoryRaises, Admitted
      <3>2. Cardinality(Admitted') = Cardinality(Admitted) - 1
        BY <2>2, <3>1, SlotsFinite, FS_RemoveElement
      <3>3. QED
        BY <2>3, <3>1, <3>2, SlotsFinite, SlotsMoved DEF TypeInv
    <2>6. QED
      BY <1>5, <2>4, <2>5
  <1>6. ASSUME NEW t \in Tasks, NEW a \in Adapters, Release(t, a)
        PROVE  SlotAccounting'
    <2>1. Admitted' = Admitted
      BY <1>6 DEF Release, Goto, TypeInv, Admitted
    <2>2. Returning' = Returning \cup {a}
      BY <1>6 DEF Release, TypeInv, Returning
    <2>3. Stock' = Stock /\ created' = created
      BY <1>6, <2>2 DEF Release, Stock
    <2>4. QED
      BY <2>1, <2>3, SlotsKept
  <1>7. ASSUME NEW a \in Adapters, PutIdle(a) \/ Discard(a)
        PROVE  SlotAccounting'
    <2>1. Admitted' = Admitted
      BY <1>7, WakeOnePhases DEF PutIdle, Discard, TypeInv, Admitted
    <2>2. Returning' = Returning \ {a} /\ a \in Returning
      BY <1>7 DEF PutIdle, Discard, TypeInv, Returning
    <2>3. CASE PutIdle(a)
      <3>1. Stock' = Stock /\ created' = created
        BY <2>2, <2>3 DEF PutIdle, Stock
      <3>2. QED
        BY <2>1, <3>1, SlotsKept
    <2>4. CASE Discard(a)
      <3>1. a \notin idle \cup checkedOut
        BY <2>2 DEF Returning, CustodyInv, OnePlace
      <3>2. Stock' = Stock \ {a} /\ a \in Stock
        BY <2>2, <2>4, <3>1 DEF Discard, Stock
      <3>3. Cardinality(Stock') = Cardinality(Stock) - 1
        BY <3>2, SlotsFinite, FS_RemoveElement
      <3>4. created' = created - 1
        BY <2>4 DEF Discard
      <3>5. QED
        BY <2>1, <3>3, <3>4, SlotsFinite, SlotsMoved DEF TypeInv
    <2>5. QED
      BY <1>7, <2>3, <2>4
  <1>8. ASSUME NEW t \in Tasks, Close(t)
        PROVE  SlotAccounting'
    <2>1. Admitted' = Admitted
      BY <1>8 DEF Close, TypeInv, Admitted
    <2>2. Returning' = Returning /\ idle \cap (checkedOut \cup Returning) = {}
      BY <1>8 DEF Close, adapterVars, Returning, TypeInv, CustodyInv, OnePlace
    <2>3. Stock' = Stock \ idle /\ idle \subseteq Stock
      BY <1>8, <2>2 DEF Close, Stock
    <2>4. Cardinality(Stock') = Cardinality(Stock) - Cardinality(Stock \cap idle)
      BY <2>3, SlotsFinite, FS_Difference
    <2>5. Stock \cap idle = idle
      BY <2>3
    <2>6. created' = created - Cardinality(idle)
      BY <1>8 DEF Close
    <2> DEFINE freed == 0 - Cardinality(idle)
    <2>7. freed \in Int /\ Cardinality(Stock') = Cardinality(Stock) + freed
      <3>1. Cardinality(Stock') = Cardinality(Stock) - Cardinality(idle)
        BY <2>4, <2>5
      <3>2. QED
        BY ONLY <3>1, TypeInv, SlotsFinite
    <2>8. created' = created + freed + 0
      BY <2>6, SlotsFinite DEF TypeInv
    <2>9. Cardinality(Admitted') = Cardinality(Admitted) + 0
      BY <2>1, SlotsFinite
    <2> HIDE DEF freed
    <2>10. QED
      BY <2>7, <2>8, <2>9, SlotsMoved
  <1>9. ASSUME NEW a \in Adapters, HangUp(a)
        PROVE  SlotAccounting'
    <2>1. Returning' = Returning /\ Admitted' = Admitted
      BY <1>9 DEF HangUp, taskVars, TypeInv, Returning, Admitted
    <2>2. QED
      BY <1>9, <2>1, SlotsKept DEF HangUp, poolVars, Stock
  <1>10. CASE \/ \E t \in Tasks, a \in Adapters : RunStatement(t, a)
              \/ \E a \in Adapters : Break(a)
              \/ UNCHANGED vars
    BY <1>10, SlotsKept
    DEF RunStatement, Break, vars, poolVars, taskVars, adapterVars, Stock,
        Returning, Admitted
  <1>11. QED
    BY <1>1, <1>2, <1>3, <1>4, <1>5, <1>6, <1>7, <1>8, <1>9, <1>10
    DEF Next, Acquire, Resume, ResetRuns

LEMMA SlotsCorrect == Spec => []SlotAccounting
  BY TypeInvCorrect, CustodyCorrect, InitSlots, NextSlots, PTL DEF Spec

\* Every variable keeps its type, _created stays between zero and max_size,
\* and the queue holds exactly the tasks that wait, each once.
THEOREM TypeCorrect == Spec => []TypeOK
  <1>1. TypeInv /\ SlotAccounting => TypeOK
    <2> SUFFICES ASSUME TypeInv, SlotAccounting PROVE TypeOK
      OBVIOUS
    <2>1. created \in 0..MaxSize
      BY SlotsFinite, AsyncPoolAssumption DEF TypeInv, SlotAccounting, Stock
    <2>2. QED
      BY <2>1 DEF TypeInv, TypeOK, IsQueue
  <1>2. QED
    BY <1>1, TypeInvCorrect, SlotsCorrect, PTL

-----------------------------------------------------------------------------
(* Wake-ups *)

Available == Cardinality(idle) + (MaxSize - created)

WakeupsPromised == waiters # <<>> => Available <= Cardinality(Promised)

LEMMA PromisedFinite ==
  ASSUME TypeInv
  PROVE  /\ IsFiniteSet(Promised) /\ Cardinality(Promised) \in Nat
         /\ Available \in Int
  <1>1. Promised \subseteq Tasks
    BY DEF Promised
  <1>2. QED
    BY <1>1, SlotsFinite, FS_Subset, FS_CardinalityType, AsyncPoolAssumption
    DEF Available, TypeInv

\* Nothing is taken away from the waiters.
LEMMA WakeupKept ==
  ASSUME WakeupsPromised, waiters' # <<>> => waiters # <<>>,
         idle' = idle, created' = created, Promised' = Promised
  PROVE  WakeupsPromised'
  BY DEF WakeupsPromised, Available

\* A task uses the wake-up it was promised, or takes an adapter or a slot that
\* was promised to no one.
LEMMA WakeupUsed ==
  ASSUME TypeInv, WakeupsPromised, NEW t \in Tasks,
         waiters' # <<>> => waiters # <<>>,
         Available' = Available - 1,
         Promised' = Promised \ {t}
  PROVE  WakeupsPromised'
  <1>1. CASE t \in Promised
    <2>1. Cardinality(Promised') = Cardinality(Promised) - 1
      BY <1>1, PromisedFinite, FS_RemoveElement
    <2>2. QED
      BY <2>1, PromisedFinite DEF WakeupsPromised
  <1>2. CASE t \notin Promised
    <2>1. Cardinality(Promised') = Cardinality(Promised)
      BY <1>2, PromisedFinite, FS_RemoveElement
    <2>2. QED
      BY <2>1, PromisedFinite DEF WakeupsPromised
  <1>3. QED
    BY <1>1, <1>2

\* _wake_one() adds a promise while anybody waits.
LEMMA WakeupGiven ==
  ASSUME TypeInv, NEW phases \in [Tasks -> Phases],
         \A u \in Tasks : phases[u] = "waiting" <=> u \in ToSet(waiters),
         WakeOne(phases), waiters' # <<>>
  PROVE  LET P == {u \in Tasks : phases[u] \in {"woken", "passing"}}
         IN  /\ waiters # <<>>
             /\ Cardinality(Promised') = Cardinality(P) + 1
  <1> DEFINE P == {u \in Tasks : phases[u] \in {"woken", "passing"}}
  <1>1. waiters # <<>>
    BY WakeOnePhases
  <1>2. PICK w \in Tasks : /\ phases[w] = "waiting"
                           /\ pc' = [phases EXCEPT ![w] = "woken"]
    BY <1>1, WakeOnePhases
  <1>3. Promised' = P \cup {w} /\ w \notin P
    BY <1>2 DEF Promised
  <1>4. IsFiniteSet(P)
    BY FS_Subset, AsyncPoolAssumption
  <1> HIDE DEF P
  <1>5. Cardinality(Promised') = Cardinality(P) + 1
    BY <1>3, <1>4, FS_AddElement
  <1>6. QED
    BY <1>1, <1>5 DEF P

LEMMA NextWakeup ==
  TypeInv /\ TypeInv' /\ CustodyInv /\ WakeupsPromised /\ [Next]_vars => WakeupsPromised'
  <1> SUFFICES ASSUME TypeInv, TypeInv', CustodyInv, WakeupsPromised, [Next]_vars
               PROVE  WakeupsPromised'
    OBVIOUS
  <1>1. ASSUME NEW t \in Tasks, RaiseClosed(t)
        PROVE  WakeupsPromised'
    BY <1>1 DEF RaiseClosed, poolVars, CustodyInv, WakeupsPromised
  <1>2. ASSUME NEW t \in Tasks, TakeIdle(t)
        PROVE  WakeupsPromised'
    <2>1. Promised' = Promised \ {t}
      BY <1>2 DEF TakeIdle, AtLoop, Goto, TypeInv, Promised
    <2>2. Cardinality(idle') = Cardinality(idle) - 1
      BY <1>2, SlotsFinite, FS_RemoveElement DEF TakeIdle
    <2>3. Available' = Available - 1 /\ waiters' = waiters
      BY <1>2, <2>2, SlotsFinite, AsyncPoolAssumption DEF TakeIdle, Available, TypeInv
    <2>4. QED
      BY <2>1, <2>3, WakeupUsed
  <1>3. ASSUME NEW t \in Tasks, ReserveSlot(t)
        PROVE  WakeupsPromised'
    <2>1. Promised' = Promised \ {t}
      BY <1>3 DEF ReserveSlot, AtLoop, Goto, TypeInv, Promised
    <2>2. Available' = Available - 1 /\ waiters' = waiters
      BY <1>3, SlotsFinite, AsyncPoolAssumption DEF ReserveSlot, Available, TypeInv
    <2>3. QED
      BY <2>1, <2>2, WakeupUsed
  <1>4. ASSUME NEW t \in Tasks, RaiseTimeout(t) \/ Wait(t)
        PROVE  WakeupsPromised'
    <2>1. idle' = {} /\ created' >= MaxSize
      BY <1>4 DEF RaiseTimeout, Wait, Nothing, poolVars
    <2>2. Available' <= 0
      BY <2>1, FS_EmptySet, AsyncPoolAssumption DEF Available, TypeInv
    <2>3. Cardinality(Promised') \in Nat
      <3>1. Promised' \subseteq Tasks
        BY DEF Promised
      <3>2. QED
        BY <3>1, FS_Subset, FS_CardinalityType, AsyncPoolAssumption
    <2>4. Available' \in Int
      BY <2>1, FS_EmptySet, AsyncPoolAssumption DEF Available, TypeInv
    <2>5. QED
      BY <2>2, <2>3, <2>4 DEF WakeupsPromised
  <1>5. ASSUME NEW t \in Tasks, Expire(t) \/ CancelWaiting(t)
        PROVE  WakeupsPromised'
    <2>1. Promised' = Promised /\ idle' = idle /\ created' = created
      BY <1>5 DEF Expire, CancelWaiting, Goto, TypeInv, Promised
    <2>2. waiters' # <<>> => waiters # <<>>
      BY <1>5, QueueEmpty DEF Expire, CancelWaiting, TypeInv
    <2>3. QED
      BY <2>1, <2>2, WakeupKept
  <1>6. ASSUME NEW t \in Tasks,
               \/ CancelWoken(t) \/ FactoryReturns(t) \/ ReleaseReturns(t)
               \/ CloseReturns(t) \/ CloseDrained(t) \/ CancelClose(t)
        PROVE  WakeupsPromised'
    <2>1. Promised' = Promised
      BY <1>6 DEF CancelWoken, FactoryReturns, ReleaseReturns, CloseReturns,
         CloseDrained, CancelClose, Goto, TypeInv, Promised
    <2>2. UNCHANGED <<idle, created, waiters>>
      BY <1>6 DEF CancelWoken, FactoryReturns, ReleaseReturns, CloseReturns,
         CloseDrained, CancelClose, poolVars
    <2>3. QED
      BY <2>1, <2>2, WakeupKept
  <1>7. ASSUME NEW t \in Tasks, PassWakeup(t) \/ FactoryRaises(t)
        PROVE  WakeupsPromised'
    <2> DEFINE phases == [pc EXCEPT ![t] = "user"]
               P == {u \in Tasks : phases[u] \in {"woken", "passing"}}
    <2>1. /\ phases \in [Tasks -> Phases] /\ WakeOne(phases)
          /\ \A u \in Tasks : phases[u] = "waiting" <=> u \in ToSet(waiters)
      BY <1>7 DEF TypeInv, Phases, PassWakeup, FactoryRaises, WakeOneAndGoto
    <2>2. P = Promised \ {t}
      BY DEF TypeInv, Promised
    <2> HIDE DEF phases
    <2> SUFFICES ASSUME waiters' # <<>>
                 PROVE  Available' <= Cardinality(Promised')
      BY DEF WakeupsPromised
    <2>3. /\ waiters # <<>>
          /\ Cardinality(Promised') = Cardinality(P) + 1
      BY <2>1, WakeupGiven
    <2> HIDE DEF P
    <2>4. Available <= Cardinality(Promised)
      BY <2>3 DEF WakeupsPromised
    <2>5. CASE PassWakeup(t)
      <3>1. Available' = Available
        BY <2>5 DEF PassWakeup, Available
      <3>2. Cardinality(P) = Cardinality(Promised) - 1
        <4>1. t \in Promised
          BY <2>5 DEF PassWakeup, Promised
        <4>2. QED
          BY <2>2, <4>1, PromisedFinite, FS_RemoveElement
      <3>3. QED
        BY <2>3, <2>4, <3>1, <3>2, PromisedFinite
    <2>6. CASE FactoryRaises(t)
      <3>1. Available' = Available + 1
        BY <2>6, SlotsFinite, AsyncPoolAssumption DEF FactoryRaises, Available, TypeInv
      <3>2. P = Promised
        BY <2>2, <2>6 DEF FactoryRaises, Promised
      <3>3. QED
        BY <2>3, <2>4, <3>1, <3>2, PromisedFinite
    <2>7. QED
      BY <1>7, <2>5, <2>6
  <1>8. ASSUME NEW a \in Adapters, PutIdle(a) \/ Discard(a)
        PROVE  WakeupsPromised'
    <2> SUFFICES ASSUME waiters' # <<>>
                 PROVE  Available' <= Cardinality(Promised')
      BY DEF WakeupsPromised
    <2>1. /\ waiters # <<>>
          /\ Cardinality(Promised') = Cardinality(Promised) + 1
      <3>1. WakeOne(pc) /\ pc \in [Tasks -> Phases]
        BY <1>8 DEF PutIdle, Discard, TypeInv
      <3>2. QED
        BY <3>1, WakeupGiven DEF TypeInv, Promised
    <2>2. Available' = Available + 1
      <3>1. CASE PutIdle(a)
        <4>1. a \notin idle /\ idle' = idle \cup {a} /\ created' = created
          BY <3>1 DEF PutIdle, CustodyInv, OnePlace
        <4>2. Cardinality(idle') = Cardinality(idle) + 1
          BY <4>1, SlotsFinite, FS_AddElement
        <4>3. QED
          BY <4>1, <4>2, SlotsFinite, AsyncPoolAssumption DEF Available, TypeInv
      <3>2. CASE Discard(a)
        BY <3>2, SlotsFinite, AsyncPoolAssumption DEF Discard, Available, TypeInv
      <3>3. QED
        BY <1>8, <3>1, <3>2
    <2>3. QED
      BY <2>1, <2>2, PromisedFinite DEF WakeupsPromised
  <1>9. ASSUME NEW t \in Tasks, Close(t)
        PROVE  WakeupsPromised'
    BY <1>9 DEF Close, WakeupsPromised
  <1>10. ASSUME NEW t \in Tasks, NEW a \in Adapters, Release(t, a)
         PROVE  WakeupsPromised'
    <2>1. Promised' = Promised
      BY <1>10 DEF Release, Goto, TypeInv, Promised
    <2>2. QED
      BY <1>10, <2>1, WakeupKept DEF Release
  <1>11. CASE \/ \E a \in Adapters : HangUp(a) \/ Break(a)
              \/ \E t \in Tasks, a \in Adapters : RunStatement(t, a)
              \/ UNCHANGED vars
    BY <1>11, WakeupKept
    DEF HangUp, RunStatement, Break, vars, poolVars, taskVars, Promised
  <1>12. QED
    BY <1>1, <1>2, <1>3, <1>4, <1>5, <1>6, <1>7, <1>8, <1>9, <1>10, <1>11
    DEF Next, Acquire, Resume, ResetRuns

\* Wherever a task is cancelled, and however many tasks and adapters there
\* are, aio_pool.py loses no slot, no open adapter and no wake-up.
THEOREM NothingIsLostHolds == Spec => []NothingIsLost
  <1>1. Init => WakeupsPromised
    BY DEF Init, WakeupsPromised
  <1>2. TypeInv /\ TypeInv' /\ CustodyInv /\ WakeupsPromised /\ [Next]_vars => WakeupsPromised'
    BY NextWakeup
  <1>3. SlotAccounting /\ NoLeak /\ WakeupsPromised => NothingIsLost
    BY DEF WakeupsPromised, Available, NothingIsLost
  <1>4. QED
    BY <1>1, <1>2, <1>3, TypeInvCorrect, CustodyCorrect, SlotsCorrect, NoLeakHolds, PTL
    DEF Spec

-----------------------------------------------------------------------------
(***************************************************************************)
(* The pool implements PoolCustody: what concerns its callers maps to one  *)
(* step of PoolCustody, and the queue, the deadlines, the cancellations    *)
(* and the closing of adapters to none.                                    *)
(***************************************************************************)

LEMMA InitCustodyMap == Init => Custody!Init
  BY DEF Init, Custody!Init, Returning, Admitted

LEMMA LoadIsCreated ==
  ASSUME TypeInv, CustodyInv, SlotAccounting
  PROVE  Custody!Load = created
  <1>1. idle \cup Custody!Lent \cup Returning \cup Admitted = Stock \cup Admitted
    BY DEF Custody!Lent, CustodyInv, Stock
  <1>2. Custody!Cardinality(Stock \cup Admitted) = Cardinality(Stock \cup Admitted)
    BY DEF Custody!Cardinality, Cardinality
  <1>3. Stock \cap Admitted = {}
    BY AsyncPoolAssumption DEF TypeInv, Stock, Returning, Admitted
  <1>4. Cardinality(Stock \cup Admitted) = Cardinality(Stock) + Cardinality(Admitted)
    <2>1. Cardinality(Stock \cup Admitted)
             = Cardinality(Stock) + Cardinality(Admitted) - Cardinality({})
      BY <1>3, SlotsFinite, FS_Union
    <2>2. Cardinality({}) = 0
      BY FS_EmptySet
    <2>3. QED
      BY <2>1, <2>2, SlotsFinite
  <1>5. QED
    BY <1>1, <1>2, <1>4, Zenon DEF Custody!Load, SlotAccounting, Stock

LEMMA CustodyStutter ==
  ASSUME UNCHANGED <<idle, held, Returning, Admitted, closed>>
  PROVE  [Custody!Next]_(Custody!vars)
  BY DEF Custody!vars

LEMMA NextCustodyMap ==
  ASSUME TypeInv, CustodyInv, SlotAccounting, [Next]_vars
  PROVE  [Custody!Next]_(Custody!vars)
  <1>1. ASSUME NEW t \in Tasks,
               \/ RaiseClosed(t) \/ RaiseTimeout(t) \/ Wait(t) \/ Expire(t)
               \/ CancelWaiting(t) \/ CancelWoken(t) \/ ReleaseReturns(t)
               \/ CloseReturns(t) \/ CloseDrained(t) \/ CancelClose(t)
        PROVE  [Custody!Next]_(Custody!vars)
    <2>1. Admitted' = Admitted
      BY <1>1 DEF RaiseClosed, RaiseTimeout, Wait, AtLoop, Expire, CancelWaiting,
         CancelWoken, ReleaseReturns, CloseReturns, CloseDrained, CancelClose,
         Goto, TypeInv, Admitted
    <2>2. UNCHANGED <<idle, held, Returning, closed>>
      BY <1>1 DEF RaiseClosed, RaiseTimeout, Wait, Expire, CancelWaiting,
         CancelWoken, ReleaseReturns, CloseReturns, CloseDrained, CancelClose,
         poolVars, adapterVars, Returning
    <2>3. QED
      BY <2>1, <2>2, CustodyStutter
  <1>2. ASSUME NEW t \in Tasks, TakeIdle(t)
        PROVE  Custody!Next
    <2>1. Returning' = Returning /\ Admitted' = Admitted
      BY <1>2 DEF TakeIdle, AtLoop, Goto, adapterVars, TypeInv, Returning, Admitted
    <2>2. PICK a \in idle : /\ idle' = idle \ {a}
                            /\ held' = [held EXCEPT ![t] = @ \cup {a}]
      BY <1>2 DEF TakeIdle
    <2>3. Custody!Lend(t, a)
      BY <1>2, <2>1, <2>2 DEF TakeIdle, Custody!Lend
    <2>4. QED
      BY <2>2, <2>3 DEF Custody!Next, TypeInv
  <1>3. ASSUME NEW t \in Tasks, ReserveSlot(t)
        PROVE  Custody!Next
    <2>1. /\ Returning' = Returning /\ Admitted' = Admitted \cup {t}
          /\ t \notin Admitted
      BY <1>3 DEF ReserveSlot, AtLoop, Goto, adapterVars, TypeInv, Phases,
         Returning, Admitted
    <2>2. Custody!Admit(t)
      BY <1>3, <2>1, LoadIsCreated DEF ReserveSlot, Custody!Admit
    <2>3. QED
      BY <2>2 DEF Custody!Next
  <1>4. ASSUME NEW t \in Tasks, FactoryReturns(t)
        PROVE  Custody!Next
    <2>1. PICK a \in Adapters \ open : held' = [held EXCEPT ![t] = @ \cup {a}]
      BY <1>4 DEF FactoryReturns
    <2>2. a \notin idle \cup Custody!Lent \cup Returning
      BY <2>1 DEF CustodyInv, OnePlace, Custody!Lent, Returning
    <2>3. /\ Admitted' = Admitted \ {t} /\ t \in Admitted
          /\ Returning' = Returning
      BY <1>4 DEF FactoryReturns, Goto, TypeInv, Phases, Returning, Admitted
    <2>4. Custody!LendNew(t, a)
      BY <1>4, <2>1, <2>2, <2>3 DEF FactoryReturns, Custody!LendNew
    <2>5. QED
      BY <2>4 DEF Custody!Next
  <1>5. ASSUME NEW t \in Tasks, PassWakeup(t) \/ FactoryRaises(t)
        PROVE  [Custody!Next]_(Custody!vars)
    <2> DEFINE phases == [pc EXCEPT ![t] = "user"]
    <2>1. /\ phases \in [Tasks -> Phases] /\ WakeOne(phases)
          /\ \A u \in Tasks : phases[u] = "waiting" <=> u \in ToSet(waiters)
          /\ \A u \in Tasks : phases[u] = "factory" <=> u \in Admitted \ {t}
      BY <1>5 DEF TypeInv, Phases, Admitted, PassWakeup, FactoryRaises, WakeOneAndGoto
    <2> HIDE DEF phases
    <2>2. Admitted' = Admitted \ {t}
      BY <2>1, WakeOnePhases DEF Admitted
    <2>3. UNCHANGED <<idle, held, Returning, closed>>
      BY <1>5 DEF PassWakeup, FactoryRaises, adapterVars, Returning
    <2>4. CASE PassWakeup(t)
      <3>1. Admitted' = Admitted
        BY <2>2, <2>4 DEF PassWakeup, Admitted
      <3>2. QED
        BY <2>3, <3>1, CustodyStutter
    <2>5. CASE FactoryRaises(t)
      <3>1. t \in Admitted
        BY <2>5 DEF FactoryRaises, Admitted
      <3>2. Custody!GiveUp(t)
        BY <2>2, <2>3, <3>1 DEF Custody!GiveUp
      <3>3. QED
        BY <3>2 DEF Custody!Next
    <2>6. QED
      BY <1>5, <2>4, <2>5
  <1>6. ASSUME NEW t \in Tasks, NEW a \in Adapters, Release(t, a)
        PROVE  Custody!Next
    <2>1. Admitted' = Admitted /\ Returning' = Returning \cup {a}
      BY <1>6 DEF Release, Goto, TypeInv, Returning, Admitted
    <2>2. Custody!Return(t, a)
      BY <1>6, <2>1 DEF Release, Custody!Return
    <2>3. QED
      BY <2>2 DEF Custody!Next
  <1>7. ASSUME NEW a \in Adapters, PutIdle(a) \/ Discard(a)
        PROVE  Custody!Next
    <2>1. Admitted' = Admitted
      BY <1>7, WakeOnePhases DEF PutIdle, Discard, TypeInv, Admitted
    <2>2. Returning' = Returning \ {a} /\ a \in Returning
      BY <1>7 DEF PutIdle, Discard, TypeInv, Returning
    <2>3. CASE PutIdle(a)
      <3>1. Custody!Restock(a)
        BY <2>1, <2>2, <2>3 DEF PutIdle, Custody!Restock
      <3>2. QED
        BY <3>1 DEF Custody!Next
    <2>4. CASE Discard(a)
      <3>1. Custody!Drop(a)
        BY <2>1, <2>2, <2>4 DEF Discard, Custody!Drop
      <3>2. QED
        BY <3>1 DEF Custody!Next
    <2>5. QED
      BY <1>7, <2>3, <2>4
  <1>8. ASSUME NEW t \in Tasks, Close(t)
        PROVE  Custody!Next
    <2>1. Admitted' = Admitted
      BY <1>8 DEF Close, TypeInv, Admitted
    <2>2. Custody!Shut
      BY <1>8, <2>1 DEF Close, adapterVars, Returning, Custody!Shut
    <2>3. QED
      BY <2>2 DEF Custody!Next
  <1>9. ASSUME NEW a \in Adapters, HangUp(a)
        PROVE  [Custody!Next]_(Custody!vars)
    <2>1. Returning' = Returning /\ Admitted' = Admitted
      BY <1>9 DEF HangUp, taskVars, TypeInv, Returning, Admitted
    <2>2. QED
      BY <1>9, <2>1, CustodyStutter DEF HangUp, poolVars, taskVars
  <1>10. CASE \/ \E t \in Tasks, a \in Adapters : RunStatement(t, a)
              \/ \E a \in Adapters : Break(a)
              \/ UNCHANGED vars
    BY <1>10, CustodyStutter
    DEF RunStatement, Break, vars, poolVars, taskVars, adapterVars, Returning, Admitted
  <1>11. QED
    BY <1>1, <1>2, <1>3, <1>4, <1>5, <1>6, <1>7, <1>8, <1>9, <1>10
    DEF Next, Acquire, Resume, ResetRuns

\* The pool of an event loop keeps the promise of the thread-safe one: every
\* behaviour of AsyncPool is one of PoolCustody.
THEOREM AsyncPoolImplementsCustody == Spec => ImplementsCustody
  <1>1. TypeInv /\ CustodyInv /\ SlotAccounting /\ [Next]_vars => [Custody!Next]_(Custody!vars)
    BY NextCustodyMap
  <1>2. QED
    BY <1>1, InitCustodyMap, TypeInvCorrect, CustodyCorrect, SlotsCorrect, PTL
    DEF Spec, ImplementsCustody, Custody!Spec

=============================================================================
