------------------------ MODULE ConnectionPoolProofs ------------------------
(***************************************************************************)
(* Proofs about ConnectionPool, for any finite sets of threads and         *)
(* connections and any max_size.                                           *)
(***************************************************************************)
EXTENDS ConnectionPool, FiniteSetTheorems, TLAPS

-----------------------------------------------------------------------------
(* Types and phases *)

TypeInv == TypeOK /\ PhaseOK

LEMMA InitType == Init => TypeInv
  <1> SUFFICES ASSUME Init PROVE TypeInv
    OBVIOUS
  <1>1. /\ idle \subseteq Connections /\ created \in Int
        /\ checkedOut \subseteq Connections /\ waiters \subseteq Threads
        /\ expired \subseteq Threads /\ open \subseteq Connections
    BY DEF Init
  <1>2. closed \in BOOLEAN
    BY Zenon DEF Init
  <1>3. pc \in [Threads -> Phases] /\ conn \in [Threads -> Connections \cup {NoConn}]
    BY DEF Init, Phases
  <1>4. /\ held \in [Threads -> SUBSET Connections]
        /\ drained \in [Threads -> SUBSET Connections]
    BY DEF Init
  <1>5. session \in [Connections -> Sessions]
    BY DEF Init, Sessions
  <1>6. PhaseOK
    BY DEF Init, PhaseOK, Carrying
  <1>7. QED
    BY <1>1, <1>2, <1>3, <1>4, <1>5, <1>6 DEF TypeInv, TypeOK

\* Waking one waiter, or every waiter, moves threads between phases only.
LEMMA NotifyPhases ==
  ASSUME TypeInv, NEW t \in Threads, NEW phase \in Phases,
         pc[t] \notin {"waiting", "locking"},
         phase \notin {"waiting", "locking"},
         \/ NotifyAndGoto(t, phase)
         \/ NotifyAllAndGoto(t, phase)
  PROVE  /\ waiters' \subseteq waiters
         /\ pc' \in [Threads -> Phases]
         /\ pc'[t] = phase
         /\ \A u \in Threads \ {t} :
               /\ pc'[u] # pc[u] => pc[u] = "waiting" /\ pc'[u] = "locking"
               /\ pc'[u] = "waiting" => u \in waiters'
               /\ pc'[u] \in {"waiting", "locking"} <=> pc[u] \in {"waiting", "locking"}
  <1>1. CASE NotifyAndGoto(t, phase)
    BY <1>1 DEF TypeInv, TypeOK, PhaseOK, NotifyAndGoto, Goto, Phases
  <1>2. CASE NotifyAllAndGoto(t, phase)
    BY <1>2 DEF TypeInv, TypeOK, PhaseOK, NotifyAllAndGoto, Phases
  <1>3. QED
    BY <1>1, <1>2

LEMMA NextType == TypeInv /\ [Next]_vars => TypeInv'
  <1> SUFFICES ASSUME TypeInv, [Next]_vars PROVE TypeInv'
    OBVIOUS
  <1> USE DEF TypeInv, TypeOK, PhaseOK, Carrying
  <1>1. ASSUME NEW t \in Threads, Acquire(t) \/ Expire(t)
        PROVE  TypeInv'
    BY <1>1 DEF Acquire, Expire, Goto, Phases, poolVars
  <1>2. ASSUME NEW t \in Threads, Loop(t)
        PROVE  TypeInv'
    <2>1. CASE TakeIdle(t)
      BY <2>1 DEF TakeIdle, HasLock, Goto, Phases
    <2>2. CASE RaiseClosed(t) \/ ReserveSlot(t) \/ RaiseTimeout(t) \/ Wait(t)
      BY <2>2 DEF RaiseClosed, ReserveSlot, RaiseTimeout, Wait, HasLock, Goto, Phases
    <2>3. QED
      BY <1>2, <2>1, <2>2 DEF Loop
  <1>3. ASSUME NEW t \in Threads, FactoryReturns(t)
        PROVE  TypeInv'
    BY <1>3, NoConnAssumption DEF FactoryReturns, Goto, Phases, Sessions, poolVars
  <1>4. ASSUME NEW t \in Threads, FactoryRaises(t)
        PROVE  TypeInv'
    <2>1. "user" \in Phases
      BY DEF Phases
    <2>2. QED
      BY <1>4, <2>1, NotifyPhases DEF FactoryRaises
  <1>5. ASSUME NEW t \in Threads, PutIdle(t)
        PROVE  TypeInv'
    <2>1. "user" \in Phases /\ conn[t] \in Connections
      BY <1>5 DEF Phases, PutIdle
    <2>2. QED
      BY <1>5, <2>1, NotifyPhases DEF PutIdle
  <1>6. ASSUME NEW t \in Threads, Discard(t)
        PROVE  TypeInv'
    <2>1. "hangup" \in Phases
      BY DEF Phases
    <2>2. QED
      BY <1>6, <2>1, NotifyPhases DEF Discard
  <1>7. ASSUME NEW t \in Threads, RecordCheckout(t)
        PROVE  TypeInv'
    BY <1>7 DEF RecordCheckout, Goto, Phases
  <1>8. ASSUME NEW t \in Threads, Reset(t) \/ PutRefused(t) \/ HangUp(t)
        PROVE  TypeInv'
    BY <1>8 DEF Reset, PutRefused, HangUp, Goto, Phases, Sessions, poolVars
  <1>9. ASSUME NEW t \in Threads, CloseDrained(t) \/ CloseReturns(t)
        PROVE  TypeInv'
    BY <1>9 DEF CloseDrained, CloseReturns, Goto, Phases, poolVars
  <1>10. ASSUME NEW t \in Threads, Close(t)
         PROVE  TypeInv'
    <2>1. "closing" \in Phases
      BY DEF Phases
    <2>2. Cardinality(idle) \in Int
      BY FS_CardinalityType, FS_Subset, FiniteAssumption
    <2>3. closed' \in BOOLEAN
      BY <1>10, Zenon DEF Close
    <2>4. QED
      BY <1>10, <2>1, <2>2, <2>3, NotifyPhases DEF Close
  <1>11. ASSUME NEW t \in Threads, NEW c \in Connections,
                Release(t, c) \/ RunStatement(t, c)
         PROVE  TypeInv'
    BY <1>11, NoConnAssumption DEF Release, RunStatement, Goto, Phases, Sessions,
       poolVars, threadVars
  <1>12. ASSUME NEW c \in Connections, Break(c)
         PROVE  TypeInv'
    BY <1>12 DEF Break, Sessions, poolVars, threadVars
  <1>13. CASE UNCHANGED vars
    BY <1>13 DEF vars, poolVars, threadVars
  <1>14. QED
    BY <1>1, <1>2, <1>3, <1>4, <1>5, <1>6, <1>7, <1>8, <1>9, <1>10, <1>11,
       <1>12, <1>13 DEF Next, Continue, Factory, Finish

LEMMA PhaseCorrect == Spec => []TypeInv
  BY InitType, NextType, PTL DEF Spec

\* Every variable keeps its type: the pool's counter stays an integer, its
\* collections stay sets of connections and every thread stays in a phase of
\* one of pool.py's calls.
THEOREM TypeCorrect == Spec => []TypeOK
  <1>1. TypeInv => TypeOK
    BY DEF TypeInv
  <1>2. QED
    BY <1>1, PhaseCorrect, PTL

-----------------------------------------------------------------------------
(* Custody *)

\* While a connection is on its way from the reset to the idle queue, its
\* rollback has been tried and nobody is left to run a statement on it.
CarriedReset == \A t \in Threads : pc[t] = "put" => session[conn[t]] # "transaction"

CustodyInv ==
    /\ ExclusiveCustody
    /\ NoLeak
    /\ HeldStaysCheckedOut
    /\ ResetBeforeHandout
    /\ CarriedReset
    /\ ClosedKeepsNothing

LEMMA InitCustody == Init => CustodyInv
  BY NoConnAssumption
  DEF Init, CustodyInv, ExclusiveCustody, NoLeak, HeldStaysCheckedOut,
      ResetBeforeHandout, CarriedReset, ClosedKeepsNothing, Has

\* A step that moves no connection and gives no session a transaction.
LEMMA CustodyUnmoved ==
  ASSUME TypeInv, CustodyInv,
         UNCHANGED <<idle, checkedOut, conn, held, drained, open, session>>,
         closed' => idle' = {} /\ waiters' = {},
         \A t \in Threads : pc'[t] = "put" => pc[t] = "put"
  PROVE  CustodyInv'
  BY DEF CustodyInv, ExclusiveCustody, NoLeak, HeldStaysCheckedOut,
         ResetBeforeHandout, CarriedReset, ClosedKeepsNothing, Has

LEMMA NextCustody == TypeInv /\ CustodyInv /\ [Next]_vars => CustodyInv'
  <1> SUFFICES ASSUME TypeInv, CustodyInv, [Next]_vars PROVE CustodyInv'
    OBVIOUS
  <1>1. ASSUME NEW t \in Threads, Acquire(t) \/ Expire(t)
        PROVE  CustodyInv'
    BY <1>1, CustodyUnmoved
    DEF Acquire, Expire, Goto, poolVars, CustodyInv, ClosedKeepsNothing,
        TypeInv, TypeOK, Phases
  <1>2. ASSUME NEW t \in Threads,
               RaiseClosed(t) \/ ReserveSlot(t) \/ RaiseTimeout(t) \/ Wait(t)
        PROVE  CustodyInv'
    BY <1>2, CustodyUnmoved
    DEF RaiseClosed, ReserveSlot, RaiseTimeout, Wait, HasLock, SeesClosed,
        SeesRoom, SeesNothing, Goto, CustodyInv, ClosedKeepsNothing, TypeInv,
        TypeOK, Phases
  <1>3. ASSUME NEW t \in Threads, TakeIdle(t)
        PROVE  CustodyInv'
    BY <1>3, NoConnAssumption
    DEF TakeIdle, HasLock, SeesIdle, Goto, TypeInv, TypeOK, PhaseOK, Phases,
        CustodyInv, ExclusiveCustody, NoLeak, HeldStaysCheckedOut,
        ResetBeforeHandout, CarriedReset, ClosedKeepsNothing, Has
  <1>4. ASSUME NEW t \in Threads, FactoryReturns(t)
        PROVE  CustodyInv'
    BY <1>4, NoConnAssumption
    DEF FactoryReturns, Goto, TypeInv, TypeOK, PhaseOK, Carrying, Phases,
        poolVars, CustodyInv, ExclusiveCustody, NoLeak, HeldStaysCheckedOut,
        ResetBeforeHandout, CarriedReset, ClosedKeepsNothing, Has
  <1>5. ASSUME NEW t \in Threads, FactoryRaises(t) \/ Discard(t)
        PROVE  CustodyInv'
    <2>1. \A u \in Threads : pc'[u] = "put" => pc[u] = "put"
      BY <1>5, NotifyPhases DEF FactoryRaises, Discard, Phases
    <2>2. closed' => idle' = {} /\ waiters' = {}
      BY <1>5, NotifyPhases
      DEF FactoryRaises, Discard, CustodyInv, ClosedKeepsNothing, Phases
    <2>3. QED
      BY <1>5, <2>1, <2>2, CustodyUnmoved DEF FactoryRaises, Discard
  <1>6. ASSUME NEW t \in Threads, RecordCheckout(t)
        PROVE  CustodyInv'
    BY <1>6, NoConnAssumption
    DEF RecordCheckout, Goto, TypeInv, TypeOK, PhaseOK, Carrying, Phases,
        CustodyInv, ExclusiveCustody, NoLeak, HeldStaysCheckedOut,
        ResetBeforeHandout, CarriedReset, ClosedKeepsNothing, Has
  <1>7. ASSUME NEW t \in Threads, NEW c \in Connections, Release(t, c)
        PROVE  CustodyInv'
    BY <1>7, NoConnAssumption
    DEF Release, Goto, TypeInv, TypeOK, PhaseOK, Carrying, Phases,
        CustodyInv, ExclusiveCustody, NoLeak, HeldStaysCheckedOut,
        ResetBeforeHandout, CarriedReset, ClosedKeepsNothing, Has
  <1>8. ASSUME NEW t \in Threads, Reset(t)
        PROVE  CustodyInv'
    BY <1>8, NoConnAssumption
    DEF Reset, Goto, poolVars, TypeInv, TypeOK, PhaseOK, Carrying, Phases,
        CustodyInv, ExclusiveCustody, NoLeak, HeldStaysCheckedOut,
        ResetBeforeHandout, CarriedReset, ClosedKeepsNothing, Has
  <1>9. ASSUME NEW t \in Threads, PutIdle(t)
        PROVE  CustodyInv'
    <2>1. conn[t] \in Connections /\ session[conn[t]] # "transaction"
      BY <1>9 DEF PutIdle, TypeInv, TypeOK, PhaseOK, Carrying, CustodyInv, CarriedReset
    <2>2. \A u \in Threads : pc'[u] = "put" => pc[u] = "put" /\ u # t
      BY <1>9, NotifyPhases DEF PutIdle, Phases
    <2>3. QED
      BY <1>9, <2>1, <2>2, NoConnAssumption
      DEF PutIdle, TypeInv, TypeOK, CustodyInv, ExclusiveCustody, NoLeak,
          HeldStaysCheckedOut, ResetBeforeHandout, CarriedReset, ClosedKeepsNothing, Has
  <1>10. ASSUME NEW t \in Threads, PutRefused(t) \/ CloseReturns(t)
         PROVE  CustodyInv'
    BY <1>10, CustodyUnmoved
    DEF PutRefused, CloseReturns, Goto, poolVars, CustodyInv,
        ClosedKeepsNothing, TypeInv, TypeOK, Phases
  <1>11. ASSUME NEW t \in Threads, HangUp(t)
         PROVE  CustodyInv'
    BY <1>11, NoConnAssumption
    DEF HangUp, Goto, poolVars, TypeInv, TypeOK, PhaseOK, Carrying, Phases,
        CustodyInv, ExclusiveCustody, NoLeak, HeldStaysCheckedOut,
        ResetBeforeHandout, CarriedReset, ClosedKeepsNothing, Has
  <1>12. ASSUME NEW t \in Threads, Close(t)
         PROVE  CustodyInv'
    <2>1. drained[t] = {} /\ conn[t] = NoConn
      BY <1>12 DEF Close, TypeInv, TypeOK, PhaseOK, Carrying
    <2>2. \A u \in Threads : pc'[u] = "put" => pc[u] = "put"
      BY <1>12, NotifyPhases DEF Close, Phases
    <2>3. waiters' = {}
      BY <1>12 DEF Close, NotifyAllAndGoto
    <2>4. QED
      BY <1>12, <2>1, <2>2, <2>3, NoConnAssumption
      DEF Close, TypeInv, TypeOK, CustodyInv, ExclusiveCustody, NoLeak,
          HeldStaysCheckedOut, ResetBeforeHandout, CarriedReset, ClosedKeepsNothing, Has
  <1>13. ASSUME NEW t \in Threads, CloseDrained(t)
         PROVE  CustodyInv'
    BY <1>13, NoConnAssumption
    DEF CloseDrained, poolVars, TypeInv, TypeOK,
        CustodyInv, ExclusiveCustody, NoLeak, HeldStaysCheckedOut,
        ResetBeforeHandout, CarriedReset, ClosedKeepsNothing, Has
  <1>14. ASSUME NEW t \in Threads, NEW c \in Connections, RunStatement(t, c)
         PROVE  CustodyInv'
    BY <1>14, NoConnAssumption
    DEF RunStatement, poolVars, threadVars, TypeInv, TypeOK, PhaseOK, Carrying,
        CustodyInv, ExclusiveCustody, NoLeak, HeldStaysCheckedOut,
        ResetBeforeHandout, CarriedReset, ClosedKeepsNothing, Has
  <1>15. ASSUME NEW c \in Connections, Break(c)
         PROVE  CustodyInv'
    BY <1>15
    DEF Break, poolVars, threadVars, TypeInv, TypeOK, PhaseOK, Carrying,
        CustodyInv, ExclusiveCustody, NoLeak, HeldStaysCheckedOut,
        ResetBeforeHandout, CarriedReset, ClosedKeepsNothing, Has
  <1>16. CASE UNCHANGED vars
    BY <1>16, CustodyUnmoved
    DEF vars, poolVars, threadVars, CustodyInv, ClosedKeepsNothing
  <1>17. QED
    BY <1>1, <1>2, <1>3, <1>4, <1>5, <1>6, <1>7, <1>8, <1>9, <1>10, <1>11,
       <1>12, <1>13, <1>14, <1>15, <1>16
    DEF Next, Continue, Loop, Factory, Finish

LEMMA CustodyCorrect == Spec => []CustodyInv
  BY PhaseCorrect, InitCustody, NextCustody, PTL DEF Spec

\* Two callers never have the same connection, no caller has one that is
\* idle, and none is closed by close() while someone has it.
THEOREM ExclusiveCustodyHolds == Spec => []ExclusiveCustody
  BY CustodyCorrect, PTL DEF CustodyInv

\* Every connection open at the database is idle or some thread has it.
THEOREM NoLeakHolds == Spec => []NoLeak
  BY CustodyCorrect, PTL DEF CustodyInv

\* A connection is not handed out before it was reset: one that is idle has a
\* transaction open only where the rollback of its reset raised and its session
\* answered the probe (or the driver had nothing sent).
THEOREM ResetBeforeHandoutHolds == Spec => []ResetBeforeHandout
  BY CustodyCorrect, PTL DEF CustodyInv

\* After close() the pool stays empty and nobody is left waiting.
THEOREM ClosedKeepsNothingHolds == Spec => []ClosedKeepsNothing
  BY CustodyCorrect, PTL DEF CustodyInv

-----------------------------------------------------------------------------
(***************************************************************************)
(* Slots.  Slots is one finite set, of connections and of threads, so each *)
(* critical section that changes _created has to be shown to add or remove *)
(* that many of its elements, and each other step to leave it alone.       *)
(***************************************************************************)

LEMMA SlotsFinite ==
  ASSUME TypeInv
  PROVE  IsFiniteSet(Slots) /\ IsFiniteSet(idle)
  <1>1. Slots \subseteq Connections \cup Threads /\ idle \subseteq Connections
    BY DEF Slots, Returning, Admitted, TypeInv, TypeOK
  <1>2. IsFiniteSet(Connections \cup Threads)
    BY FS_Union, FiniteAssumption
  <1>3. QED
    BY <1>1, <1>2, FS_Subset, FiniteAssumption

LEMMA InitSlots == Init => SlotAccounting
  <1> SUFFICES ASSUME Init PROVE SlotAccounting
    OBVIOUS
  <1>1. Slots = {}
    BY DEF Init, Slots, Returning, Admitted
  <1>2. QED
    BY <1>1, FS_EmptySet, MaxSizeAssumption DEF Init, SlotAccounting

LEMMA SlotAdded ==
  ASSUME TypeInv, SlotAccounting, NEW x, x \notin Slots,
         Slots' = Slots \cup {x}, created' = created + 1, created < MaxSize
  PROVE  SlotAccounting'
  BY SlotsFinite, FS_AddElement, FS_CardinalityType, MaxSizeAssumption
  DEF SlotAccounting

LEMMA SlotRemoved ==
  ASSUME TypeInv, SlotAccounting, NEW x, x \in Slots,
         Slots' = Slots \ {x}, created' = created - 1
  PROVE  SlotAccounting'
  BY SlotsFinite, FS_RemoveElement, FS_CardinalityType, MaxSizeAssumption
  DEF SlotAccounting

LEMMA SlotTraded ==
  ASSUME TypeInv, SlotAccounting, NEW x, NEW y, x \in Slots, y \notin Slots,
         Slots' = (Slots \ {x}) \cup {y}, created' = created
  PROVE  SlotAccounting'
  <1>1. /\ IsFiniteSet(Slots \ {x})
        /\ Cardinality(Slots \ {x}) = Cardinality(Slots) - 1
    BY SlotsFinite, FS_RemoveElement
  <1>2. Cardinality(Slots') = Cardinality(Slots \ {x}) + 1
    BY <1>1, FS_AddElement
  <1>3. QED
    BY <1>1, <1>2, SlotsFinite, FS_CardinalityType DEF SlotAccounting

LEMMA SlotsKept ==
  ASSUME SlotAccounting, Slots' = Slots, created' = created
  PROVE  SlotAccounting'
  BY DEF SlotAccounting

\* A notification wakes threads that have no slot, so a step that notifies
\* changes the slot of the notifying thread only.
LEMMA NotifySlots ==
  ASSUME TypeInv, NEW t \in Threads, NEW phase \in Phases,
         pc[t] \notin {"waiting", "locking"},
         phase \notin {"waiting", "locking", "factory", "record"},
         \/ NotifyAndGoto(t, phase)
         \/ NotifyAllAndGoto(t, phase)
  PROVE  /\ Admitted' = Admitted \ {t}
         /\ \A u \in Threads \ {t} :
              pc'[u] \in {"reset", "put", "discard"} <=> pc[u] \in {"reset", "put", "discard"}
  BY NotifyPhases DEF Admitted

LEMMA NextSlots == TypeInv /\ CustodyInv /\ SlotAccounting /\ [Next]_vars => SlotAccounting'
  <1> SUFFICES ASSUME TypeInv, CustodyInv, SlotAccounting, [Next]_vars
               PROVE  SlotAccounting'
    OBVIOUS
  <1>1. ASSUME NEW t \in Threads, Acquire(t) \/ Expire(t)
        PROVE  SlotAccounting'
    <2>1. Slots' = Slots /\ created' = created
      BY <1>1 DEF Acquire, Expire, Goto, poolVars, Slots, Returning, Admitted,
                  TypeInv, TypeOK
    <2>2. QED
      BY <2>1, SlotsKept
  <1>2. ASSUME NEW t \in Threads, RaiseClosed(t) \/ TakeIdle(t) \/ RaiseTimeout(t) \/ Wait(t)
        PROVE  SlotAccounting'
    <2>1. Slots' = Slots /\ created' = created
      BY <1>2 DEF RaiseClosed, TakeIdle, RaiseTimeout, Wait, HasLock, Goto,
                  Slots, Returning, Admitted, TypeInv, TypeOK
    <2>2. QED
      BY <2>1, SlotsKept
  <1>3. ASSUME NEW t \in Threads, ReserveSlot(t)
        PROVE  SlotAccounting'
    <2>1. t \notin Slots
      BY <1>3, DisjointAssumption
      DEF ReserveSlot, HasLock, Slots, Returning, Admitted, TypeInv, TypeOK
    <2>2. Slots' = Slots \cup {t} /\ created' = created + 1 /\ created < MaxSize
      BY <1>3 DEF ReserveSlot, HasLock, SeesRoom, Goto, Slots, Returning,
                  Admitted, TypeInv, TypeOK, Phases
    <2>3. QED
      BY <2>1, <2>2, SlotAdded
  <1>4. ASSUME NEW t \in Threads, FactoryReturns(t)
        PROVE  SlotAccounting'
    <2>1. Slots' = Slots /\ created' = created
      BY <1>4 DEF FactoryReturns, Goto, poolVars, Slots, Returning, Admitted,
                  TypeInv, TypeOK, Phases
    <2>2. QED
      BY <2>1, SlotsKept
  <1>5. ASSUME NEW t \in Threads, FactoryRaises(t)
        PROVE  SlotAccounting'
    <2>1. t \in Slots
      BY <1>5 DEF FactoryRaises, Slots, Admitted
    <2>2. /\ Admitted' = Admitted \ {t}
          /\ \A u \in Threads :
               pc'[u] \in {"reset", "put", "discard"} <=> pc[u] \in {"reset", "put", "discard"}
      BY <1>5, NotifySlots, NotifyPhases DEF FactoryRaises, Phases
    <2>3. Slots' = Slots \ {t} /\ created' = created - 1
      BY <1>5, <2>2, DisjointAssumption
      DEF FactoryRaises, Slots, Returning, TypeInv, TypeOK
    <2>4. QED
      BY <2>1, <2>3, SlotRemoved
  <1>6. ASSUME NEW t \in Threads, RecordCheckout(t)
        PROVE  SlotAccounting'
    <2>1. conn[t] \in Connections /\ t \in Slots
      BY <1>6 DEF RecordCheckout, TypeInv, TypeOK, PhaseOK, Carrying, Slots, Admitted
    <2>2. conn[t] \notin Slots
      BY <1>6, <2>1, DisjointAssumption
      DEF RecordCheckout, TypeInv, TypeOK, CustodyInv, ExclusiveCustody, Has,
          HeldStaysCheckedOut, Slots, Returning, Admitted
    <2>3. Admitted' = Admitted \ {t} /\ Returning' = Returning
      BY <1>6, NoConnAssumption
      DEF RecordCheckout, Goto, TypeInv, TypeOK, Returning, Admitted, Phases
    <2>4. Slots' = (Slots \ {t}) \cup {conn[t]} /\ created' = created
      BY <1>6, <2>1, <2>3, DisjointAssumption
      DEF RecordCheckout, TypeInv, TypeOK, Slots, Returning
    <2>5. QED
      BY <2>1, <2>2, <2>4, SlotTraded
  <1>7. ASSUME NEW t \in Threads, NEW c \in Connections, Release(t, c)
        PROVE  SlotAccounting'
    <2>1. Admitted' = Admitted /\ Returning' = Returning \cup {c}
      BY <1>7 DEF Release, Goto, TypeInv, TypeOK, Returning, Admitted, Phases
    <2>2. Slots' = Slots /\ created' = created
      BY <1>7, <2>1 DEF Release, Slots
    <2>3. QED
      BY <2>2, SlotsKept
  <1>8. ASSUME NEW t \in Threads, Reset(t) \/ PutRefused(t)
        PROVE  SlotAccounting'
    <2>1. Admitted' = Admitted /\ Returning' = Returning
      BY <1>8 DEF Reset, PutRefused, Goto, TypeInv, TypeOK, Returning, Admitted, Phases
    <2>2. Slots' = Slots /\ created' = created
      BY <1>8, <2>1 DEF Reset, PutRefused, poolVars, Slots
    <2>3. QED
      BY <2>2, SlotsKept
  <1>9. ASSUME NEW t \in Threads, PutIdle(t)
        PROVE  SlotAccounting'
    <2>1. conn[t] \in Connections /\ conn[t] \in Returning
      BY <1>9 DEF PutIdle, TypeInv, TypeOK, PhaseOK, Carrying, Returning
    <2>2. \A u \in Threads \ {t} :
            pc'[u] \in {"reset", "put", "discard"} <=> pc[u] \in {"reset", "put", "discard"}
      BY <1>9, NotifySlots DEF PutIdle, Phases
    <2>3. Admitted' = Admitted /\ pc'[t] = "user"
      BY <1>9, NotifySlots, NotifyPhases DEF PutIdle, Phases, Admitted
    <2>4. Returning' = Returning \ {conn[t]}
      BY <1>9, <2>1, <2>2, <2>3, NoConnAssumption
      DEF PutIdle, TypeInv, TypeOK, CustodyInv, ExclusiveCustody, Has, Returning
    <2>5. Slots' = Slots /\ created' = created
      BY <1>9, <2>1, <2>3, <2>4 DEF PutIdle, Slots
    <2>6. QED
      BY <2>5, SlotsKept
  <1>10. ASSUME NEW t \in Threads, Discard(t)
         PROVE  SlotAccounting'
    <2>1. conn[t] \in Connections /\ conn[t] \in Returning
      BY <1>10 DEF Discard, TypeInv, TypeOK, PhaseOK, Carrying, Returning
    <2>2. \A u \in Threads \ {t} :
            pc'[u] \in {"reset", "put", "discard"} <=> pc[u] \in {"reset", "put", "discard"}
      BY <1>10, NotifySlots DEF Discard, Phases
    <2>3. Admitted' = Admitted /\ pc'[t] = "hangup"
      BY <1>10, NotifySlots, NotifyPhases DEF Discard, Phases, Admitted
    <2>4. Returning' = Returning \ {conn[t]}
      BY <1>10, <2>1, <2>2, <2>3
      DEF Discard, TypeInv, TypeOK, CustodyInv, ExclusiveCustody, Has, Returning
    <2>5. conn[t] \notin idle \cup checkedOut \cup Admitted
      BY <1>10, <2>1, DisjointAssumption
      DEF Discard, TypeInv, TypeOK, CustodyInv, ExclusiveCustody, Has,
          HeldStaysCheckedOut, Admitted
    <2>6. Slots' = Slots \ {conn[t]} /\ created' = created - 1
      BY <1>10, <2>3, <2>4, <2>5 DEF Discard, Slots
    <2>7. QED
      BY <2>1, <2>6, SlotRemoved DEF Slots
  <1>11. ASSUME NEW t \in Threads, HangUp(t) \/ CloseDrained(t) \/ CloseReturns(t)
         PROVE  SlotAccounting'
    <2>1. Admitted' = Admitted /\ Returning' = Returning
      BY <1>11, NoConnAssumption
      DEF HangUp, CloseDrained, CloseReturns, Goto, poolVars, TypeInv, TypeOK,
          Returning, Admitted, Phases
    <2>2. Slots' = Slots /\ created' = created
      BY <1>11, <2>1 DEF HangUp, CloseDrained, CloseReturns, poolVars, Slots
    <2>3. QED
      BY <2>2, SlotsKept
  <1>12. ASSUME NEW t \in Threads, Close(t)
         PROVE  SlotAccounting'
    <2>1. /\ \A u \in Threads :
               pc'[u] \in {"reset", "put", "discard"} <=> pc[u] \in {"reset", "put", "discard"}
          /\ Admitted' = Admitted
      BY <1>12, NotifySlots, NotifyPhases DEF Close, Phases, Admitted
    <2>2. Returning' = Returning
      BY <1>12, <2>1 DEF Close, Returning
    <2>3. idle \cap (checkedOut \cup Returning \cup Admitted) = {}
      BY DisjointAssumption
      DEF TypeInv, TypeOK, CustodyInv, ExclusiveCustody, Has,
          HeldStaysCheckedOut, Returning, Admitted
    <2>4. Slots' = Slots \ idle
      BY <1>12, <2>1, <2>2, <2>3 DEF Close, Slots
    <2>5. Slots \cap idle = idle
      BY DEF Slots
    <2>6. /\ Cardinality(Slots \ idle) = Cardinality(Slots) - Cardinality(idle)
          /\ Cardinality(idle) \in Nat
      BY <2>5, SlotsFinite, FS_Difference, FS_CardinalityType
    <2>7. QED
      BY <1>12, <2>4, <2>6, MaxSizeAssumption
      DEF Close, SlotAccounting, TypeInv, TypeOK
  <1>13. ASSUME NEW t \in Threads, NEW c \in Connections, RunStatement(t, c)
         PROVE  SlotAccounting'
    BY <1>13, SlotsKept
    DEF RunStatement, poolVars, threadVars, Slots, Returning, Admitted
  <1>14. ASSUME NEW c \in Connections, Break(c)
         PROVE  SlotAccounting'
    BY <1>14, SlotsKept
    DEF Break, poolVars, threadVars, Slots, Returning, Admitted
  <1>15. CASE UNCHANGED vars
    BY <1>15, SlotsKept
    DEF vars, poolVars, threadVars, Slots, Returning, Admitted
  <1>16. QED
    BY <1>1, <1>2, <1>3, <1>4, <1>5, <1>6, <1>7, <1>8, <1>9, <1>10, <1>11,
       <1>12, <1>13, <1>14, <1>15
    DEF Next, Continue, Loop, Factory, Finish

\* _created is exactly the number of slots in use and never exceeds max_size.
THEOREM SlotAccountingHolds == Spec => []SlotAccounting
  BY PhaseCorrect, CustodyCorrect, InitSlots, NextSlots, PTL DEF Spec

-----------------------------------------------------------------------------
(* Wake-ups *)

LEMMA WokenFinite ==
  ASSUME TypeInv
  PROVE  IsFiniteSet(Woken) /\ Cardinality(Woken) \in Nat
  <1>1. Woken \subseteq Threads
    BY DEF Woken
  <1>2. QED
    BY <1>1, FS_Subset, FS_CardinalityType, FiniteAssumption

LEMMA AvailableInt ==
  ASSUME TypeInv
  PROVE  /\ Cardinality(idle) \in Nat /\ created \in Int /\ MaxSize \in Int
         /\ Available \in Int
  BY SlotsFinite, FS_CardinalityType, MaxSizeAssumption DEF Available, TypeInv, TypeOK

\* A step that neither frees anything nor stops a woken thread.
LEMMA WakeupKept ==
  ASSUME TypeInv, TypeInv', NoLostWakeup, Woken \subseteq Woken',
         waiters' = {} \/ waiters # {},
         idle' = idle, created' = created
  PROVE  NoLostWakeup'
  <1>1. Cardinality(Woken) <= Cardinality(Woken')
    <2>1. IsFiniteSet(Woken')
      <3>1. Woken' \subseteq Threads
        BY DEF Woken
      <3>2. QED
        BY <3>1, FS_Subset, FiniteAssumption
    <2>2. QED
      BY <2>1, FS_Subset
  <1>2. Cardinality(Woken') \in Nat
    <2>1. Woken' \subseteq Threads
      BY DEF Woken
    <2>2. QED
      BY <2>1, FS_Subset, FS_CardinalityType, FiniteAssumption
  <1>3. Available' = Available
    BY DEF Available
  <1>4. QED
    BY <1>1, <1>2, <1>3, WokenFinite, AvailableInt DEF NoLostWakeup

\* A woken thread that takes something leaves one thing fewer to take.
LEMMA WakeupUsed ==
  ASSUME TypeInv, NoLostWakeup, NEW t, Woken' = Woken \ {t},
         waiters' = {} \/ waiters # {}, Available' = Available - 1
  PROVE  NoLostWakeup'
  <1>1. CASE t \in Woken
    <2>1. Cardinality(Woken') = Cardinality(Woken) - 1
      BY <1>1, WokenFinite, FS_RemoveElement
    <2>2. QED
      BY <2>1, WokenFinite, AvailableInt DEF NoLostWakeup
  <1>2. CASE t \notin Woken
    <2>1. Cardinality(Woken') = Cardinality(Woken)
      BY <1>2, WokenFinite, FS_RemoveElement
    <2>2. QED
      BY <2>1, WokenFinite, AvailableInt DEF NoLostWakeup
  <1>3. QED
    BY <1>1, <1>2

\* Whatever is freed is announced to a thread of its own.
LEMMA WakeupGiven ==
  ASSUME TypeInv, NoLostWakeup, NEW t \in Threads, NEW phase \in Phases,
         pc[t] \notin {"waiting", "locking"},
         phase \notin {"waiting", "locking"},
         NotifyAndGoto(t, phase), Available' = Available + 1
  PROVE  NoLostWakeup'
  <1>1. CASE waiters = {}
    BY <1>1 DEF NotifyAndGoto, NoLostWakeup
  <1>2. CASE waiters # {}
    <2>1. PICK w \in waiters : /\ waiters' = waiters \ {w}
                               /\ pc' = [pc EXCEPT ![t] = phase, ![w] = "locking"]
      BY <1>2 DEF NotifyAndGoto
    <2>2. w \in Threads /\ w \notin Woken /\ w # t
      BY DEF TypeInv, TypeOK, PhaseOK, Woken
    <2>3. Woken' = Woken \cup {w}
      BY <2>1, <2>2 DEF Woken, TypeInv, TypeOK
    <2>4. Cardinality(Woken') = Cardinality(Woken) + 1
      BY <2>2, <2>3, WokenFinite, FS_AddElement
    <2>5. QED
      BY <1>2, <2>4, WokenFinite, AvailableInt DEF NoLostWakeup
  <1>3. QED
    BY <1>1, <1>2

LEMMA NextWakeup ==
  ASSUME TypeInv, TypeInv', CustodyInv, NoLostWakeup, [Next]_vars
  PROVE  NoLostWakeup'
  <1>1. ASSUME NEW t \in Threads, Acquire(t) \/ Expire(t)
        PROVE  NoLostWakeup'
    <2>1. /\ Woken \subseteq Woken' /\ waiters' = waiters
          /\ idle' = idle /\ created' = created
      BY <1>1 DEF Acquire, Expire, Goto, poolVars, Woken, TypeInv, TypeOK, PhaseOK
    <2>2. QED
      BY <2>1, WakeupKept
  <1>2. ASSUME NEW t \in Threads, RaiseClosed(t)
        PROVE  NoLostWakeup'
    BY <1>2 DEF RaiseClosed, SeesClosed, CustodyInv, ClosedKeepsNothing, NoLostWakeup
  <1>3. ASSUME NEW t \in Threads, TakeIdle(t)
        PROVE  NoLostWakeup'
    <2>1. Woken' = Woken \ {t}
      BY <1>3 DEF TakeIdle, HasLock, Goto, Woken, TypeInv, TypeOK
    <2>2. Cardinality(idle') = Cardinality(idle) - 1
      BY <1>3, SlotsFinite, FS_RemoveElement DEF TakeIdle
    <2>3. Available' = Available - 1
      BY <1>3, <2>2, AvailableInt DEF TakeIdle, Available
    <2>4. waiters' = {} \/ waiters # {}
      BY <1>3 DEF TakeIdle
    <2>5. QED
      BY <2>1, <2>3, <2>4, WakeupUsed
  <1>4. ASSUME NEW t \in Threads, ReserveSlot(t)
        PROVE  NoLostWakeup'
    <2>1. Woken' = Woken \ {t}
      BY <1>4 DEF ReserveSlot, HasLock, Goto, Woken, TypeInv, TypeOK
    <2>2. Available' = Available - 1
      BY <1>4, AvailableInt DEF ReserveSlot, Available
    <2>3. waiters' = {} \/ waiters # {}
      BY <1>4 DEF ReserveSlot
    <2>4. QED
      BY <2>1, <2>2, <2>3, WakeupUsed
  <1>5. ASSUME NEW t \in Threads, RaiseTimeout(t) \/ Wait(t)
        PROVE  NoLostWakeup'
    <2>1. idle' = {} /\ created' >= MaxSize
      BY <1>5 DEF RaiseTimeout, Wait, SeesNothing
    <2>2. Available' <= 0
      BY <2>1, AvailableInt, FS_EmptySet, <1>5 DEF Available, RaiseTimeout, Wait
    <2>3. Cardinality(Woken') \in Nat
      <3>1. Woken' \subseteq Threads
        BY DEF Woken
      <3>2. QED
        BY <3>1, FS_Subset, FS_CardinalityType, FiniteAssumption
    <2>4. Available' \in Int
      BY <1>5, AvailableInt DEF Available, RaiseTimeout, Wait
    <2>5. QED
      BY <2>2, <2>3, <2>4 DEF NoLostWakeup
  <1>6. ASSUME NEW t \in Threads,
               \/ FactoryReturns(t) \/ RecordCheckout(t) \/ Reset(t) \/ PutRefused(t)
               \/ HangUp(t) \/ CloseDrained(t) \/ CloseReturns(t)
        PROVE  NoLostWakeup'
    <2>1. /\ Woken' = Woken /\ waiters' = waiters
          /\ idle' = idle /\ created' = created
      BY <1>6 DEF FactoryReturns, RecordCheckout, Reset, PutRefused, HangUp,
                  CloseDrained, CloseReturns, Goto, poolVars, Woken, TypeInv, TypeOK
    <2>2. QED
      BY <2>1, WakeupKept
  <1>7. ASSUME NEW t \in Threads, FactoryRaises(t) \/ Discard(t)
        PROVE  NoLostWakeup'
    <2>1. Available' = Available + 1
      BY <1>7, AvailableInt DEF FactoryRaises, Discard, Available
    <2>2. QED
      BY <1>7, <2>1, WakeupGiven DEF FactoryRaises, Discard, Phases
  <1>8. ASSUME NEW t \in Threads, PutIdle(t)
        PROVE  NoLostWakeup'
    <2>1. conn[t] \notin idle
      BY <1>8 DEF PutIdle, TypeInv, TypeOK, PhaseOK, Carrying, CustodyInv,
                  ExclusiveCustody, Has
    <2>2. Cardinality(idle') = Cardinality(idle) + 1
      BY <1>8, <2>1, SlotsFinite, FS_AddElement DEF PutIdle
    <2>3. Available' = Available + 1
      BY <1>8, <2>2, AvailableInt DEF PutIdle, Available
    <2>4. QED
      BY <1>8, <2>3, WakeupGiven DEF PutIdle, Phases
  <1>9. ASSUME NEW t \in Threads, Close(t)
        PROVE  NoLostWakeup'
    BY <1>9 DEF Close, NotifyAllAndGoto, NoLostWakeup
  <1>10. ASSUME NEW t \in Threads, NEW c \in Connections, Release(t, c)
         PROVE  NoLostWakeup'
    <2>1. /\ Woken' = Woken /\ waiters' = waiters
          /\ idle' = idle /\ created' = created
      BY <1>10 DEF Release, Goto, Woken, TypeInv, TypeOK
    <2>2. QED
      BY <2>1, WakeupKept
  <1>11. CASE \/ \E t \in Threads, c \in Connections : RunStatement(t, c)
              \/ \E c \in Connections : Break(c)
              \/ UNCHANGED vars
    <2>1. /\ Woken' = Woken /\ waiters' = waiters
          /\ idle' = idle /\ created' = created
      BY <1>11 DEF RunStatement, Break, vars, poolVars, threadVars, Woken
    <2>2. QED
      BY <2>1, WakeupKept
  <1>12. QED
    BY <1>1, <1>2, <1>3, <1>4, <1>5, <1>6, <1>7, <1>8, <1>9, <1>10, <1>11
    DEF Next, Continue, Loop, Factory, Finish

\* While threads wait, every idle connection and every free slot has a thread
\* of its own on the way to it.
THEOREM NoLostWakeupHolds == Spec => []NoLostWakeup
  <1>1. Init => NoLostWakeup
    BY DEF Init, NoLostWakeup
  <1>2. TypeInv /\ TypeInv' /\ CustodyInv /\ NoLostWakeup /\ [Next]_vars => NoLostWakeup'
    BY NextWakeup
  <1>3. QED
    BY <1>1, <1>2, PhaseCorrect, CustodyCorrect, PTL DEF Spec

-----------------------------------------------------------------------------
(***************************************************************************)
(* The pool implements PoolCustody.  The steps that concern its callers    *)
(* map to one step of PoolCustody each, and the rest, the lock, the        *)
(* waiters, the deadlines, the resets and the closing of connections, to   *)
(* none.                                                                   *)
(***************************************************************************)

LEMMA InitCustodyMap == Init => Custody!Init
  BY DEF Init, Custody!Init, Returning, Admitted

LEMMA LoadIsCreated ==
  ASSUME TypeInv, CustodyInv, SlotAccounting
  PROVE  Custody!Load = created
  <1>1. idle \cup Custody!Lent \cup Returning \cup Admitted = Slots
    BY DEF Custody!Lent, CustodyInv, HeldStaysCheckedOut, Slots
  <1>2. Custody!Cardinality(Slots) = Cardinality(Slots)
    BY DEF Custody!Cardinality, Cardinality
  <1>3. QED
    BY <1>1, <1>2 DEF Custody!Load, SlotAccounting

LEMMA CustodyStutter ==
  ASSUME UNCHANGED <<idle, held, Returning, Admitted, closed>>
  PROVE  [Custody!Next]_(Custody!vars)
  BY DEF Custody!vars

LEMMA NextCustodyMap ==
  ASSUME TypeInv, CustodyInv, SlotAccounting, [Next]_vars
  PROVE  [Custody!Next]_(Custody!vars)
  <1>1. ASSUME NEW t \in Threads,
               \/ Acquire(t) \/ Expire(t) \/ RaiseClosed(t) \/ RaiseTimeout(t) \/ Wait(t)
               \/ FactoryReturns(t) \/ Reset(t) \/ PutRefused(t)
               \/ HangUp(t) \/ CloseDrained(t) \/ CloseReturns(t)
        PROVE  [Custody!Next]_(Custody!vars)
    <2>1. Returning' = Returning /\ Admitted' = Admitted
      BY <1>1, NoConnAssumption
      DEF Acquire, Expire, RaiseClosed, RaiseTimeout, Wait, HasLock,
          FactoryReturns, Reset, PutRefused, HangUp, CloseDrained,
          CloseReturns, Goto, TypeInv, TypeOK, Returning, Admitted, Phases
    <2>2. UNCHANGED <<idle, held, closed>>
      BY <1>1 DEF Acquire, Expire, RaiseClosed, RaiseTimeout, Wait,
          FactoryReturns, Reset, PutRefused, HangUp, CloseDrained,
          CloseReturns, poolVars
    <2>3. QED
      BY <2>1, <2>2, CustodyStutter
  <1>2. ASSUME NEW t \in Threads, TakeIdle(t)
        PROVE  Custody!Next
    <2>1. Returning' = Returning /\ Admitted' = Admitted
      BY <1>2 DEF TakeIdle, HasLock, Goto, TypeInv, TypeOK, Returning, Admitted
    <2>2. PICK c \in idle : /\ idle' = idle \ {c}
                            /\ held' = [held EXCEPT ![t] = @ \cup {c}]
      BY <1>2 DEF TakeIdle
    <2>3. Custody!Lend(t, c)
      BY <1>2, <2>1, <2>2 DEF TakeIdle, SeesIdle, Custody!Lend
    <2>4. QED
      BY <2>2, <2>3 DEF Custody!Next, TypeInv, TypeOK
  <1>3. ASSUME NEW t \in Threads, ReserveSlot(t)
        PROVE  Custody!Next
    <2>1. /\ Returning' = Returning /\ Admitted' = Admitted \cup {t}
          /\ t \notin Admitted
      BY <1>3 DEF ReserveSlot, HasLock, Goto, TypeInv, TypeOK, Returning, Admitted, Phases
    <2>2. Custody!Admit(t)
      BY <1>3, <2>1, LoadIsCreated DEF ReserveSlot, SeesRoom, Custody!Admit
    <2>3. QED
      BY <2>2 DEF Custody!Next
  <1>4. ASSUME NEW t \in Threads, FactoryRaises(t)
        PROVE  Custody!Next
    <2>1. t \in Admitted
      BY <1>4 DEF FactoryRaises, Admitted
    <2>2. /\ Admitted' = Admitted \ {t}
          /\ \A u \in Threads :
               pc'[u] \in {"reset", "put", "discard"} <=> pc[u] \in {"reset", "put", "discard"}
      BY <1>4, NotifySlots, NotifyPhases DEF FactoryRaises, Phases
    <2>3. Returning' = Returning
      BY <1>4, <2>2 DEF FactoryRaises, Returning
    <2>4. Custody!GiveUp(t)
      BY <1>4, <2>1, <2>2, <2>3 DEF FactoryRaises, Custody!GiveUp
    <2>5. QED
      BY <2>4 DEF Custody!Next
  <1>5. ASSUME NEW t \in Threads, RecordCheckout(t)
        PROVE  Custody!Next
    <2>1. conn[t] \in Connections /\ t \in Admitted
      BY <1>5 DEF RecordCheckout, TypeInv, TypeOK, PhaseOK, Carrying, Admitted
    <2>2. conn[t] \notin idle \cup Custody!Lent \cup Returning
      BY <1>5, <2>1
      DEF RecordCheckout, TypeInv, TypeOK, CustodyInv, ExclusiveCustody, Has,
          Custody!Lent, Returning
    <2>3. Admitted' = Admitted \ {t} /\ Returning' = Returning
      BY <1>5, NoConnAssumption
      DEF RecordCheckout, Goto, TypeInv, TypeOK, Returning, Admitted, Phases
    <2>4. Custody!LendNew(t, conn[t])
      BY <1>5, <2>1, <2>2, <2>3 DEF RecordCheckout, Custody!LendNew
    <2>5. QED
      BY <2>1, <2>4 DEF Custody!Next
  <1>6. ASSUME NEW t \in Threads, NEW c \in Connections, Release(t, c)
        PROVE  Custody!Next
    <2>1. Admitted' = Admitted /\ Returning' = Returning \cup {c}
      BY <1>6 DEF Release, Goto, TypeInv, TypeOK, Returning, Admitted, Phases
    <2>2. Custody!Return(t, c)
      BY <1>6, <2>1 DEF Release, Custody!Return
    <2>3. QED
      BY <2>2 DEF Custody!Next
  <1>7. ASSUME NEW t \in Threads, PutIdle(t) \/ Discard(t)
        PROVE  Custody!Next
    <2>1. conn[t] \in Connections /\ conn[t] \in Returning
      BY <1>7 DEF PutIdle, Discard, TypeInv, TypeOK, PhaseOK, Carrying, Returning
    <2>2. /\ \A u \in Threads \ {t} :
               pc'[u] \in {"reset", "put", "discard"} <=> pc[u] \in {"reset", "put", "discard"}
          /\ Admitted' = Admitted /\ pc'[t] \in {"user", "hangup"}
      BY <1>7, NotifySlots, NotifyPhases DEF PutIdle, Discard, Phases, Admitted
    <2>3. Returning' = Returning \ {conn[t]}
      BY <1>7, <2>1, <2>2, NoConnAssumption
      DEF PutIdle, Discard, TypeInv, TypeOK, CustodyInv, ExclusiveCustody, Has, Returning
    <2>4. CASE PutIdle(t)
      <3>1. Custody!Restock(conn[t])
        BY <2>1, <2>2, <2>3, <2>4 DEF PutIdle, Custody!Restock
      <3>2. QED
        BY <2>1, <3>1 DEF Custody!Next
    <2>5. CASE Discard(t)
      <3>1. Custody!Drop(conn[t])
        BY <2>1, <2>2, <2>3, <2>5 DEF Discard, Custody!Drop
      <3>2. QED
        BY <2>1, <3>1 DEF Custody!Next
    <2>6. QED
      BY <1>7, <2>4, <2>5
  <1>8. ASSUME NEW t \in Threads, Close(t)
        PROVE  Custody!Next
    <2>1. /\ \A u \in Threads :
               pc'[u] \in {"reset", "put", "discard"} <=> pc[u] \in {"reset", "put", "discard"}
          /\ Admitted' = Admitted
      BY <1>8, NotifySlots, NotifyPhases DEF Close, Phases, Admitted
    <2>2. Returning' = Returning
      BY <1>8, <2>1 DEF Close, Returning
    <2>3. Custody!Shut
      BY <1>8, <2>1, <2>2 DEF Close, Custody!Shut
    <2>4. QED
      BY <2>3 DEF Custody!Next
  <1>9. CASE \/ \E t \in Threads, c \in Connections : RunStatement(t, c)
             \/ \E c \in Connections : Break(c)
             \/ UNCHANGED vars
    BY <1>9, CustodyStutter
    DEF RunStatement, Break, vars, poolVars, threadVars, Returning, Admitted
  <1>10. QED
    BY <1>1, <1>2, <1>3, <1>4, <1>5, <1>6, <1>7, <1>8, <1>9
    DEF Next, Continue, Loop, Factory, Finish

\* The pool lends a bounded stock of connections, each to one caller at a
\* time: every behaviour of ConnectionPool is one of PoolCustody.
THEOREM PoolImplementsCustody == Spec => ImplementsCustody
  <1>1. TypeInv /\ CustodyInv /\ SlotAccounting /\ [Next]_vars => [Custody!Next]_(Custody!vars)
    BY NextCustodyMap
  <1>2. QED
    BY <1>1, InitCustodyMap, PhaseCorrect, CustodyCorrect, SlotAccountingHolds, PTL
    DEF Spec, ImplementsCustody, Custody!Spec

=============================================================================
