--------------------------- MODULE ConnectionPool ---------------------------
(***************************************************************************)
(* The thread-safe connection pool of src/sustained/pool.py.               *)
(*                                                                         *)
(* Threads share one ConnectionPool.  A thread may hold several            *)
(* connections at once, and runs at most one pool call at a time: pc[t] is *)
(* the point it has reached in that call, "user" between calls.  A step is *)
(* one critical section of the pool's Condition or one call on a           *)
(* connection made with the lock released, so every interleaving the lock  *)
(* allows is a behaviour.                                                  *)
(*                                                                         *)
(* The deques are sets: no property depends on which idle connection a     *)
(* caller gets, nor on which blocked thread notify() picks, so the model   *)
(* leaves both choices open.                                               *)
(***************************************************************************)
EXTENDS Integers, FiniteSets

CONSTANTS
    Threads,      \* the threads that share the pool
    Connections,  \* the connections the factory can produce
    MaxSize       \* the pool's max_size

\* max_size < 1 raises ValueError in __init__.
ASSUME MaxSizeAssumption == MaxSize \in Nat \ {0}
ASSUME FiniteAssumption == IsFiniteSet(Threads) /\ IsFiniteSet(Connections)
ASSUME DisjointAssumption == Threads \cap Connections = {}

VARIABLES
    idle,        \* _idle: connections ready to be handed out
    created,     \* _created: slots in use, the pool's size
    closed,      \* _closed
    checkedOut,  \* _checked_out: connections callers have
    waiters,     \* the waiters of the Condition
    pc,          \* where each thread is in its pool call
    conn,        \* the connection a thread carries through its pool call
    expired,     \* threads whose acquire deadline has passed
    held,        \* connections each thread has been handed
    drained,     \* connections a close() call has still to close
    open,        \* connections that are open at the database
    session      \* what a connection's session holds

poolVars   == <<idle, created, closed, checkedOut, waiters>>
threadVars == <<pc, conn, expired, held, drained>>
vars       == <<poolVars, threadVars, open, session>>

NoConn == "no connection"
ASSUME NoConnAssumption == NoConn \notin Connections

Phases == {"user", "locking", "waiting", "factory", "record",
           "reset", "put", "discard", "hangup", "closing"}

\* A session is clean, has a transaction of its caller open, has one open that
\* a reset did not end, or no longer answers.
Sessions == {"clean", "transaction", "kept", "broken"}

Goto(t, phase) == pc' = [pc EXCEPT ![t] = phase]

-----------------------------------------------------------------------------
(***************************************************************************)
(* threading.Condition.  A thread whose wait timed out stays among the     *)
(* waiters until it has the lock back, and until then can absorb a         *)
(* notification; it goes round the loop in either case.                    *)
(***************************************************************************)

\* notify() together with the move of the notifying thread t.
NotifyAndGoto(t, phase) ==
    IF waiters = {}
    THEN Goto(t, phase) /\ UNCHANGED waiters
    ELSE \E w \in waiters :
            /\ waiters' = waiters \ {w}
            /\ pc' = [pc EXCEPT ![t] = phase, ![w] = "locking"]

\* notify_all() together with the move of the notifying thread t.
NotifyAllAndGoto(t, phase) ==
    /\ waiters' = {}
    /\ pc' = [u \in Threads |-> IF u = t THEN phase
                                ELSE IF pc[u] = "waiting" THEN "locking"
                                ELSE pc[u]]

\* The deadline of an acquire passes; a blocked thread wakes to find out.
Expire(t) ==
    /\ pc[t] \in {"locking", "waiting"}
    /\ t \notin expired
    /\ expired' = expired \cup {t}
    /\ Goto(t, "locking")
    /\ UNCHANGED <<poolVars, conn, held, drained, open, session>>

-----------------------------------------------------------------------------
(* acquire_raw() *)

Acquire(t) ==
    /\ pc[t] = "user"
    /\ expired' = expired \ {t}
    /\ Goto(t, "locking")
    /\ UNCHANGED <<poolVars, conn, held, drained, open, session>>

\* The loop has the lock.  A thread back from wait() leaves the waiters.
HasLock(t) == pc[t] = "locking"

\* Fault: the size test is off by one.
SeesRoomOffByOne(t) == ~closed /\ idle = {} /\ created <= MaxSize

\* The exits of the loop body, in the order the code tests for them.
SeesClosed(t) == closed
SeesIdle(t)   == ~closed /\ idle # {}
SeesRoom(t)   == ~closed /\ idle = {} /\ created < MaxSize
SeesNothing(t) == ~closed /\ idle = {} /\ created >= MaxSize

RaiseClosed(t) ==
    /\ HasLock(t) /\ SeesClosed(t)
    /\ waiters' = waiters \ {t}
    /\ Goto(t, "user")
    /\ UNCHANGED <<idle, created, closed, checkedOut, conn, expired, held,
                   drained, open, session>>

TakeIdle(t) ==
    /\ HasLock(t) /\ SeesIdle(t)
    /\ waiters' = waiters \ {t}
    /\ \E c \in idle :
          /\ idle' = idle \ {c}
          /\ checkedOut' = checkedOut \cup {c}
          /\ held' = [held EXCEPT ![t] = @ \cup {c}]
    /\ Goto(t, "user")
    /\ UNCHANGED <<created, closed, conn, expired, drained, open, session>>

ReserveSlot(t) ==
    /\ HasLock(t) /\ SeesRoom(t)
    /\ waiters' = waiters \ {t}
    /\ created' = created + 1
    /\ Goto(t, "factory")
    /\ UNCHANGED <<idle, closed, checkedOut, conn, expired, held, drained,
                   open, session>>

RaiseTimeout(t) ==
    /\ HasLock(t) /\ SeesNothing(t) /\ t \in expired
    /\ waiters' = waiters \ {t}
    /\ Goto(t, "user")
    /\ UNCHANGED <<idle, created, closed, checkedOut, conn, expired, held,
                   drained, open, session>>

\* Fault: the time left is not looked at before waiting again.
WaitAgain(t) ==
    /\ HasLock(t) /\ SeesNothing(t)
    /\ waiters' = waiters \cup {t}
    /\ Goto(t, "waiting")
    /\ UNCHANGED <<idle, created, closed, checkedOut, conn, expired, held,
                   drained, open, session>>

Wait(t) ==
    /\ HasLock(t) /\ SeesNothing(t) /\ t \notin expired
    /\ waiters' = waiters \cup {t}
    /\ Goto(t, "waiting")
    /\ UNCHANGED <<idle, created, closed, checkedOut, conn, expired, held,
                   drained, open, session>>

\* The factory returns a connection nobody has, with the lock released.
FactoryReturns(t) ==
    /\ pc[t] = "factory"
    /\ \E c \in Connections \ open :
          /\ open' = open \cup {c}
          /\ session' = [session EXCEPT ![c] = "clean"]
          /\ conn' = [conn EXCEPT ![t] = c]
    /\ Goto(t, "record")
    /\ UNCHANGED <<poolVars, expired, held, drained>>

\* The factory raises: the slot is given back and a waiter told of it.
FactoryRaises(t) ==
    /\ pc[t] = "factory"
    /\ created' = created - 1
    /\ NotifyAndGoto(t, "user")
    /\ UNCHANGED <<idle, closed, checkedOut, conn, expired, held, drained,
                   open, session>>

\* The new connection is recorded and returned, even by a closed pool.
RecordCheckout(t) ==
    /\ pc[t] = "record"
    /\ checkedOut' = checkedOut \cup {conn[t]}
    /\ held' = [held EXCEPT ![t] = @ \cup {conn[t]}]
    /\ conn' = [conn EXCEPT ![t] = NoConn]
    /\ Goto(t, "user")
    /\ UNCHANGED <<idle, created, closed, waiters, expired, drained, open,
                   session>>

-----------------------------------------------------------------------------
(* release(), _reset() and _discard() *)

\* A connection that is not checked out raises ValueError: no step.
Release(t, c) ==
    /\ pc[t] = "user"
    /\ c \in held[t]
    /\ c \in checkedOut
    /\ checkedOut' = checkedOut \ {c}
    /\ held' = [held EXCEPT ![t] = @ \ {c}]
    /\ conn' = [conn EXCEPT ![t] = c]
    /\ Goto(t, IF closed THEN "discard" ELSE "reset")
    /\ UNCHANGED <<idle, created, closed, waiters, expired, drained, open,
                   session>>

\* A rollback, and the probe when it raises.  The rollback may raise on a session
\* that answers the probe: whatever was open stays open, and the connection is
\* kept all the same, as it is where its driver reports autocommit or no
\* transaction and nothing is sent.  A broken one fails the probe.
Reset(t) ==
    /\ pc[t] = "reset"
    /\ LET c == conn[t] IN
          \/ /\ Goto(t, "put")
             /\ session' = [session EXCEPT ![c] = IF @ = "broken" THEN @ ELSE "clean"]
          \/ /\ session[c] \in {"transaction", "kept"}
             /\ Goto(t, "put")
             /\ session' = [session EXCEPT ![c] = "kept"]
          \/ /\ session[c] = "broken"
             /\ Goto(t, "discard")
             /\ UNCHANGED session
    /\ UNCHANGED <<poolVars, conn, expired, held, drained, open>>

\* Fault: closed is not read again after the reset.
PutIdleAfterClose(t) ==
    /\ pc[t] = "put"
    /\ idle' = idle \cup {conn[t]}
    /\ conn' = [conn EXCEPT ![t] = NoConn]
    /\ NotifyAndGoto(t, "user")
    /\ UNCHANGED <<created, closed, checkedOut, expired, held, drained, open,
                   session>>

PutIdle(t) ==
    /\ pc[t] = "put" /\ ~closed
    /\ idle' = idle \cup {conn[t]}
    /\ conn' = [conn EXCEPT ![t] = NoConn]
    /\ NotifyAndGoto(t, "user")
    /\ UNCHANGED <<created, closed, checkedOut, expired, held, drained, open,
                   session>>

\* Fault: a connection the closed pool refuses is dropped, not discarded.
PutDropped(t) ==
    /\ pc[t] = "put" /\ closed
    /\ conn' = [conn EXCEPT ![t] = NoConn]
    /\ Goto(t, "user")
    /\ UNCHANGED <<poolVars, expired, held, drained, open, session>>

\* close() ran during the reset.
PutRefused(t) ==
    /\ pc[t] = "put" /\ closed
    /\ Goto(t, "discard")
    /\ UNCHANGED <<poolVars, conn, expired, held, drained, open, session>>

\* Fault: a discard frees its slot without waking a waiter.
DiscardSilently(t) ==
    /\ pc[t] = "discard"
    /\ created' = created - 1
    /\ Goto(t, "hangup")
    /\ UNCHANGED <<idle, closed, checkedOut, waiters, conn, expired, held,
                   drained, open, session>>

Discard(t) ==
    /\ pc[t] = "discard"
    /\ created' = created - 1
    /\ NotifyAndGoto(t, "hangup")
    /\ UNCHANGED <<idle, closed, checkedOut, conn, expired, held, drained,
                   open, session>>

\* The second half of _discard(), with the lock released.
HangUp(t) ==
    /\ pc[t] = "hangup"
    /\ open' = open \ {conn[t]}
    /\ conn' = [conn EXCEPT ![t] = NoConn]
    /\ Goto(t, "user")
    /\ UNCHANGED <<poolVars, expired, held, drained, session>>

-----------------------------------------------------------------------------
(* close() *)

\* Fault: the idle queue is copied and not cleared.
CloseKeepsIdle(t) ==
    /\ pc[t] = "user"
    /\ closed' = TRUE
    /\ drained' = [drained EXCEPT ![t] = idle]
    /\ created' = created - Cardinality(idle)
    /\ NotifyAllAndGoto(t, "closing")
    /\ UNCHANGED <<idle, checkedOut, conn, expired, held, open, session>>

Close(t) ==
    /\ pc[t] = "user"
    /\ closed' = TRUE
    /\ drained' = [drained EXCEPT ![t] = idle]
    /\ idle' = {}
    /\ created' = created - Cardinality(idle)
    /\ NotifyAllAndGoto(t, "closing")
    /\ UNCHANGED <<checkedOut, conn, expired, held, open, session>>

CloseDrained(t) ==
    /\ pc[t] = "closing"
    /\ \E c \in drained[t] :
          /\ drained' = [drained EXCEPT ![t] = @ \ {c}]
          /\ open' = open \ {c}
    /\ UNCHANGED <<poolVars, pc, conn, expired, held, session>>

CloseReturns(t) ==
    /\ pc[t] = "closing"
    /\ drained[t] = {}
    /\ Goto(t, "user")
    /\ UNCHANGED <<poolVars, conn, expired, held, drained, open, session>>

-----------------------------------------------------------------------------
(* What callers and the database do to a connection's session. *)

\* A caller's statement opens a transaction, or ends the one it opened.
RunStatement(t, c) ==
    /\ pc[t] = "user" /\ c \in held[t]
    /\ session[c] # "broken"
    /\ \E s \in {"clean", "transaction"} : session' = [session EXCEPT ![c] = s]
    /\ UNCHANGED <<poolVars, threadVars, open>>

Break(c) ==
    /\ c \in open
    /\ session[c] # "broken"
    /\ session' = [session EXCEPT ![c] = "broken"]
    /\ UNCHANGED <<poolVars, threadVars, open>>

-----------------------------------------------------------------------------
Init ==
    /\ idle = {}
    /\ created = 0
    /\ closed = FALSE
    /\ checkedOut = {}
    /\ waiters = {}
    /\ pc = [t \in Threads |-> "user"]
    /\ conn = [t \in Threads |-> NoConn]
    /\ expired = {}
    /\ held = [t \in Threads |-> {}]
    /\ drained = [t \in Threads |-> {}]
    /\ open = {}
    /\ session = [c \in Connections |-> "clean"]

\* The steps a pool call takes by itself once it has begun.
Loop(t) == \/ RaiseClosed(t) \/ TakeIdle(t) \/ ReserveSlot(t)
           \/ RaiseTimeout(t) \/ Wait(t)
Factory(t) == FactoryReturns(t) \/ FactoryRaises(t)
Finish(t) == \/ RecordCheckout(t) \/ Reset(t) \/ PutIdle(t) \/ PutRefused(t)
             \/ Discard(t) \/ HangUp(t) \/ CloseDrained(t) \/ CloseReturns(t)
Continue(t) == Loop(t) \/ Factory(t) \/ Finish(t)

Next ==
    \/ \E t \in Threads : Acquire(t) \/ Expire(t) \/ Continue(t) \/ Close(t)
    \/ \E t \in Threads, c \in Connections : Release(t, c) \/ RunStatement(t, c)
    \/ \E c \in Connections : Break(c)

Spec == Init /\ [][Next]_vars

(***************************************************************************)
(* Fairness.  The operating system runs every thread that can run, clocks  *)
(* advance, and a caller gives back what it holds (connection() releases   *)
(* in a finally), though it may make other calls first: strong fairness.   *)
(* Nothing makes a caller acquire, nor the pool close.                     *)
(***************************************************************************)
Fairness ==
    /\ \A t \in Threads : WF_vars(Continue(t)) /\ WF_vars(Expire(t))
    /\ \A t \in Threads : SF_vars(\E c \in Connections : Release(t, c))

FairSpec == Spec /\ Fairness

-----------------------------------------------------------------------------
(* Properties *)

TypeOK ==
    /\ idle \subseteq Connections
    /\ created \in Int
    /\ closed \in BOOLEAN
    /\ checkedOut \subseteq Connections
    /\ waiters \subseteq Threads
    /\ pc \in [Threads -> Phases]
    /\ conn \in [Threads -> Connections \cup {NoConn}]
    /\ expired \subseteq Threads
    /\ held \in [Threads -> SUBSET Connections]
    /\ drained \in [Threads -> SUBSET Connections]
    /\ open \subseteq Connections
    /\ session \in [Connections -> Sessions]

\* Threads that have a slot and no connection on record yet.
Admitted == {t \in Threads : pc[t] \in {"factory", "record"}}

\* Connections on their way from a caller to the idle queue.
Returning == {c \in Connections :
                \E t \in Threads : pc[t] \in {"reset", "put", "discard"} /\ conn[t] = c}

\* Everything that takes up one of the MaxSize slots.
Slots == idle \cup checkedOut \cup Returning \cup Admitted

\* The counter _created is kept by increments and decrements in six places,
\* around calls made with the lock released.  It always equals the slots
\* really in use, and those never outnumber max_size: no slot is lost to a
\* failed factory, a broken connection or a close(), and none counted twice.
SlotAccounting == created = Cardinality(Slots) /\ created <= MaxSize

-----------------------------------------------------------------------------
(* The phases of a call and what goes with them. *)

Carrying == {"record", "reset", "put", "discard", "hangup"}

\* Supports the proofs: a connection is carried in the phases that use it,
\* only close() has connections to close, and a blocked thread is a waiter.
PhaseOK ==
    \A t \in Threads :
        /\ conn[t] # NoConn <=> pc[t] \in Carrying
        /\ drained[t] # {} => pc[t] = "closing"
        /\ pc[t] = "waiting" => t \in waiters
        /\ t \in waiters => pc[t] \in {"waiting", "locking"}

-----------------------------------------------------------------------------
(* Custody: who answers for each open connection. *)

\* Thread t has c: it was handed c, carries c through an acquire or a
\* release, or has still to close c on behalf of close().
Has(t, c) == c \in held[t] \/ conn[t] = c \/ c \in drained[t]

\* Two callers never have the same connection, no caller has one that is also
\* idle, and a thread has a connection in one capacity only.  A release gives
\* the connection up under the lock and puts it back in a later critical
\* section; a second acquire, a close() or another release may come between.
ExclusiveCustody ==
    /\ \A t, u \in Threads : \A c \in Connections :
          Has(t, c) /\ Has(u, c) => t = u
    /\ \A t \in Threads : \A c \in Connections : Has(t, c) => c \notin idle
    /\ \A t \in Threads : /\ conn[t] \notin held[t] \cup drained[t]
                          /\ held[t] \cap drained[t] = {}

\* No connection leaks: one that is open at the database is idle or some
\* thread still has it, also when close(), a failing reset or a release of a
\* connection that broke met another call half way.
NoLeak == open = idle \cup {c \in Connections : \E t \in Threads : Has(t, c)}

\* A caller's connection stays checked out until that caller releases it, so
\* its own release is never the one that raises ValueError.
HeldStaysCheckedOut == checkedOut = UNION {held[t] : t \in Threads}

\* Nothing is handed out that was not reset since its last caller used it: an
\* idle connection has a transaction open only where the rollback of its reset
\* raised (or was not sent) and the session answered, however releases, resets
\* and statements of several threads interleave.
ResetBeforeHandout == \A c \in idle : session[c] # "transaction"

\* release(): "Any open transaction is rolled back first, so the next caller
\* never inherits a stale snapshot or an aborted transaction."  Not so where the
\* rollback raised and the session answers.
CleanHandout == \A c \in idle : session[c] \notin {"transaction", "kept"}

\* A closed pool keeps no idle connection and accepts none back, even from a
\* release that was resetting its connection when close() ran.
ClosedKeepsNothing == closed => idle = {} /\ waiters = {}

-----------------------------------------------------------------------------
(* Waiting *)

\* Threads on their way round the loop that are no longer waiters.
Woken == {t \in Threads : pc[t] = "locking" /\ t \notin waiters}

Available == Cardinality(idle) + (MaxSize - created)

\* No wake-up is lost.  While threads wait, every idle connection and every
\* free slot has a thread of its own on the way to take it: one notify() for
\* each is enough even though a thread that timed out can absorb it, and a
\* discard or a failed factory frees a slot with nothing put in the queue.
NoLostWakeup == waiters = {} \/ Available <= Cardinality(Woken)

\* An exhausted pool raises PoolTimeout rather than blocking forever
\* (docs/executing.md): every acquire ends, with threads that hold one
\* connection and wait for a second included.
AcquireEnds ==
    \A t \in Threads : pc[t] \in {"locking", "waiting"} ~> pc[t] = "user"

\* Connections checked out at close time are closed when they are released,
\* and so is one the factory returned after close(): in the end none is open.
ClosedPoolDrains == closed ~> [](open = {})

-----------------------------------------------------------------------------
(***************************************************************************)
(* The pool implements PoolCustody: the calls and critical sections of a   *)
(* thread map to the lending of a bounded stock of connections, each step  *)
(* to one step of it or to none.                                           *)
(***************************************************************************)
Custody == INSTANCE PoolCustody WITH
    ready <- idle, returning <- Returning, admitted <- Admitted, shut <- closed

ImplementsCustody == Custody!Spec

=============================================================================
