------------------------------ MODULE AsyncPool ------------------------------
(***************************************************************************)
(* AsyncConnectionPool of src/sustained/aio_pool.py.                       *)
(*                                                                         *)
(* Tasks of one event loop share the pool.  Nothing else runs between two  *)
(* awaits, so a step is what a task does from one await to the next, and   *)
(* the pool needs no lock.  A task may be cancelled at every await.        *)
(*                                                                         *)
(* A waiter is a task whose future is pending: the code drops a future     *)
(* that timed out or was cancelled when it meets one, and removes it when  *)
(* the task resumes, so the model removes it at once.                      *)
(***************************************************************************)
EXTENDS Integers, Sequences, FiniteSets, SequencesExt

CONSTANTS
    Tasks,
    Adapters,   \* the adapters the factory can open
    MaxSize,    \* max_size
    Drivers     \* the drivers to check: does rollback() end a transaction?

ASSUME AsyncPoolAssumption ==
    /\ MaxSize \in Nat \ {0}
    /\ Drivers \subseteq BOOLEAN
    /\ IsFiniteSet(Tasks) /\ IsFiniteSet(Adapters)
    /\ Tasks \cap Adapters = {}

VARIABLES
    rollsBack,   \* adapter.rollback() ends a transaction the caller left open
    idle,        \* _idle
    created,     \* _created
    closed,      \* _closed
    checkedOut,  \* _checked_out
    waiters,     \* _waiters: the tasks whose future is pending, oldest first
    pc,          \* where each task is in its pool call
    expired,     \* tasks whose deadline has passed
    held,        \* adapters each task has been handed
    reset,       \* the _reset() task of each adapter: where it is
    drained,     \* adapters a close() still has to close
    open,        \* adapters with a connection to the database
    abandoned,   \* adapters a cancelled close() did not get to
    session      \* what an adapter's session holds

poolVars == <<rollsBack, idle, created, closed, checkedOut, waiters>>
taskVars == <<pc, expired, held, drained>>
adapterVars == <<reset, open, abandoned, session>>
vars == <<poolVars, taskVars, adapterVars>>

Phases == {"user", "waiting", "woken", "late", "passing", "factory",
           "releasing", "closing"}

Goto(t, phase) == pc' = [pc EXCEPT ![t] = phase]

\* _wake_one(), after the moves in phases.
WakeOne(phases) ==
    IF waiters = <<>>
    THEN pc' = phases /\ UNCHANGED waiters
    ELSE /\ waiters' = Tail(waiters)
         /\ pc' = [phases EXCEPT ![Head(waiters)] = "woken"]

WakeOneAndGoto(t, phase) == WakeOne([pc EXCEPT ![t] = phase])

-----------------------------------------------------------------------------
(* acquire(), _take() and _wait() *)

\* A call begins with the first turn of the loop: there is no await before it.
AtLoop(t) == pc[t] \in {"user", "woken", "late"}

Nothing == idle = {} /\ created >= MaxSize

RaiseClosed(t) ==
    /\ AtLoop(t) /\ closed
    /\ Goto(t, "user")
    /\ expired' = expired \ {t}
    /\ UNCHANGED <<poolVars, held, drained, adapterVars>>

TakeIdle(t) ==
    /\ AtLoop(t) /\ ~closed
    /\ \E a \in idle :
          /\ idle' = idle \ {a}
          /\ checkedOut' = checkedOut \cup {a}
          /\ held' = [held EXCEPT ![t] = @ \cup {a}]
    /\ Goto(t, "user")
    /\ expired' = expired \ {t}
    /\ UNCHANGED <<rollsBack, created, closed, waiters, drained, adapterVars>>

\* Fault: the slot is counted when the factory is done with.
ReserveNothing(t) ==
    /\ AtLoop(t) /\ ~closed /\ idle = {} /\ created < MaxSize
    /\ Goto(t, "factory")
    /\ expired' = expired \ {t}
    /\ UNCHANGED <<poolVars, held, drained, adapterVars>>

ReserveSlot(t) ==
    /\ AtLoop(t) /\ ~closed /\ idle = {} /\ created < MaxSize
    /\ created' = created + 1
    /\ Goto(t, "factory")
    /\ expired' = expired \ {t}
    /\ UNCHANGED <<rollsBack, idle, closed, checkedOut, waiters, held, drained,
                   adapterVars>>

RaiseTimeout(t) ==
    /\ AtLoop(t) /\ ~closed /\ Nothing /\ t \in expired
    /\ Goto(t, "user")
    /\ expired' = expired \ {t}
    /\ UNCHANGED <<poolVars, held, drained, adapterVars>>

\* Fault: the deadline starts again with every wait.
WaitAfresh(t) ==
    /\ AtLoop(t) /\ ~closed /\ Nothing
    /\ waiters' = Append(waiters, t)
    /\ Goto(t, "waiting")
    /\ expired' = expired \ {t}
    /\ UNCHANGED <<rollsBack, idle, created, closed, checkedOut, held, drained,
                   adapterVars>>

Wait(t) ==
    /\ AtLoop(t) /\ ~closed /\ Nothing /\ t \notin expired
    /\ waiters' = Append(waiters, t)
    /\ Goto(t, "waiting")
    /\ UNCHANGED <<rollsBack, idle, created, closed, checkedOut, expired, held,
                   drained, adapterVars>>

\* deque.remove() of the task's future.
Withdraw(t) ==
    \E i \in DOMAIN waiters :
        waiters[i] = t /\ waiters' = RemoveAt(waiters, i)

\* wait_for() gives up on a pending future; a task that was woken before its
\* deadline resumes after it.
Expire(t) ==
    /\ pc[t] \in {"waiting", "woken"} /\ t \notin expired
    /\ expired' = expired \cup {t}
    /\ IF pc[t] = "waiting" THEN Withdraw(t) /\ Goto(t, "late")
                            ELSE UNCHANGED <<waiters, pc>>
    /\ UNCHANGED <<rollsBack, idle, created, closed, checkedOut, held, drained,
                   adapterVars>>

\* The task is cancelled before anything woke it, or after it timed out.
CancelWaiting(t) ==
    /\ pc[t] \in {"waiting", "late"}
    /\ IF pc[t] = "waiting" THEN Withdraw(t) ELSE UNCHANGED waiters
    /\ expired' = expired \ {t}
    /\ Goto(t, "user")
    /\ UNCHANGED <<rollsBack, idle, created, closed, checkedOut, held, drained,
                   adapterVars>>

\* The task is cancelled between its wake-up and its next turn, and finds out
\* when it resumes.  (Before Python 3.12 wait_for() drops this cancellation,
\* and the task goes on as if woken.)
CancelWoken(t) ==
    /\ pc[t] = "woken"
    /\ Goto(t, "passing")
    /\ UNCHANGED <<poolVars, expired, held, drained, adapterVars>>

\* Fault: a cancelled task keeps the wake-up to itself.
KeepWakeup(t) ==
    /\ pc[t] = "passing"
    /\ Goto(t, "user")
    /\ expired' = expired \ {t}
    /\ UNCHANGED <<poolVars, held, drained, adapterVars>>

\* The wake-up that reached a cancelled task goes to the next one.
PassWakeup(t) ==
    /\ pc[t] = "passing"
    /\ WakeOneAndGoto(t, "user")
    /\ expired' = expired \ {t}
    /\ UNCHANGED <<rollsBack, idle, created, closed, checkedOut, held, drained,
                   adapterVars>>

\* The factory's adapter is on record before anything else can run, and a
\* pool closed meanwhile hands it out all the same.
FactoryReturns(t) ==
    /\ pc[t] = "factory"
    /\ \E a \in Adapters \ open :
          /\ open' = open \cup {a}
          /\ session' = [session EXCEPT ![a] = "clean"]
          /\ checkedOut' = checkedOut \cup {a}
          /\ held' = [held EXCEPT ![t] = @ \cup {a}]
    /\ Goto(t, "user")
    /\ UNCHANGED <<rollsBack, idle, created, closed, waiters, expired, drained,
                   reset, abandoned>>

\* The factory raises or the task is cancelled in it: except BaseException.
FactoryRaises(t) ==
    /\ pc[t] = "factory"
    /\ created' = created - 1
    /\ WakeOneAndGoto(t, "user")
    /\ UNCHANGED <<rollsBack, idle, closed, checkedOut, expired, held, drained,
                   adapterVars>>

-----------------------------------------------------------------------------
(* release(), _reset() and _discard() *)

\* The reset is a task of its own; the caller waits for it under a shield.
Release(t, a) ==
    /\ pc[t] = "user"
    /\ a \in held[t] /\ a \in checkedOut
    /\ checkedOut' = checkedOut \ {a}
    /\ held' = [held EXCEPT ![t] = @ \ {a}]
    /\ reset' = [reset EXCEPT ![a] = "rollback"]
    /\ Goto(t, "releasing")
    /\ UNCHANGED <<rollsBack, idle, created, closed, waiters, expired, drained,
                   open, abandoned, session>>

\* The reset has ended, or the caller is cancelled and goes on without it.
ReleaseReturns(t) ==
    /\ pc[t] = "releasing"
    /\ Goto(t, "user")
    /\ UNCHANGED <<poolVars, expired, held, drained, adapterVars>>

\* rollback() returns, or it raises and the probe answers: then, and where an
\* adapter sends nothing, the session stays as it was.
RolledBack(a) ==
    \/ /\ rollsBack /\ session[a] # "broken"
       /\ session' = [session EXCEPT ![a] = "clean"]
    \/ UNCHANGED session

PutIdle(a) ==
    /\ reset[a] = "rollback" /\ ~closed
    /\ RolledBack(a)
    /\ idle' = idle \cup {a}
    /\ reset' = [reset EXCEPT ![a] = "none"]
    /\ WakeOne(pc)
    /\ UNCHANGED <<rollsBack, created, closed, checkedOut, expired, held,
                   drained, open, abandoned>>

\* Fault: a broken adapter is dropped without being closed.
DiscardUnclosed(a) ==
    /\ reset[a] = "rollback"
    /\ closed \/ (rollsBack /\ session[a] = "broken")
    /\ created' = created - 1
    /\ reset' = [reset EXCEPT ![a] = "none"]
    /\ WakeOne(pc)
    /\ UNCHANGED <<rollsBack, idle, closed, checkedOut, expired, held, drained,
                   open, abandoned, session>>

\* A rollback and a probe that both raise, or close() ran in the meantime.
Discard(a) ==
    /\ reset[a] = "rollback"
    /\ closed \/ (rollsBack /\ session[a] = "broken")
    /\ created' = created - 1
    /\ reset' = [reset EXCEPT ![a] = "close"]
    /\ WakeOne(pc)
    /\ UNCHANGED <<rollsBack, idle, closed, checkedOut, expired, held, drained,
                   open, abandoned, session>>

HangUp(a) ==
    /\ reset[a] = "close"
    /\ open' = open \ {a}
    /\ reset' = [reset EXCEPT ![a] = "none"]
    /\ UNCHANGED <<poolVars, taskVars, abandoned, session>>

-----------------------------------------------------------------------------
(* close() *)

Close(t) ==
    /\ pc[t] = "user"
    /\ closed' = TRUE
    /\ drained' = [drained EXCEPT ![t] = idle]
    /\ idle' = {}
    /\ created' = created - Cardinality(idle)
    /\ waiters' = <<>>
    /\ pc' = [u \in Tasks |-> IF u = t THEN "closing"
                              ELSE IF pc[u] = "waiting" THEN "woken"
                              ELSE pc[u]]
    /\ UNCHANGED <<rollsBack, checkedOut, expired, held, adapterVars>>

CloseDrained(t) ==
    /\ pc[t] = "closing"
    /\ \E a \in drained[t] :
          /\ drained' = [drained EXCEPT ![t] = @ \ {a}]
          /\ open' = open \ {a}
    /\ UNCHANGED <<poolVars, pc, expired, held, reset, abandoned, session>>

CloseReturns(t) ==
    /\ pc[t] = "closing" /\ drained[t] = {}
    /\ Goto(t, "user")
    /\ UNCHANGED <<poolVars, expired, held, drained, adapterVars>>

\* close() is cancelled while an adapter closes: nothing shields it, and the
\* list of the others is lost with it.
CancelClose(t) ==
    /\ pc[t] = "closing" /\ drained[t] # {}
    /\ abandoned' = abandoned \cup drained[t]
    /\ drained' = [drained EXCEPT ![t] = {}]
    /\ Goto(t, "user")
    /\ UNCHANGED <<poolVars, expired, held, reset, open, session>>

-----------------------------------------------------------------------------
(* What callers and the database do to an adapter's session. *)

\* A caller opens or ends a transaction, or leaves one open: it sent BEGIN, or
\* async_transaction() was cancelled at its own BEGIN.
RunStatement(t, a) ==
    /\ pc[t] = "user" /\ a \in held[t]
    /\ session[a] # "broken"
    /\ \E s \in {"clean", "transaction"} : session' = [session EXCEPT ![a] = s]
    /\ UNCHANGED <<poolVars, taskVars, reset, open, abandoned>>

Break(a) ==
    /\ a \in open /\ session[a] # "broken"
    /\ session' = [session EXCEPT ![a] = "broken"]
    /\ UNCHANGED <<poolVars, taskVars, reset, open, abandoned>>

-----------------------------------------------------------------------------
Init ==
    /\ rollsBack \in Drivers
    /\ idle = {} /\ created = 0 /\ closed = FALSE
    /\ checkedOut = {} /\ waiters = <<>>
    /\ pc = [t \in Tasks |-> "user"]
    /\ expired = {}
    /\ held = [t \in Tasks |-> {}]
    /\ reset = [a \in Adapters |-> "none"]
    /\ drained = [t \in Tasks |-> {}]
    /\ open = {} /\ abandoned = {}
    /\ session = [a \in Adapters |-> "clean"]

Acquire(t) == \/ RaiseClosed(t) \/ TakeIdle(t) \/ ReserveSlot(t)
              \/ RaiseTimeout(t) \/ Wait(t)

\* What a task or a reset does by itself once a call has begun.
Resume(t) ==
    \/ pc[t] # "user" /\ Acquire(t)
    \/ PassWakeup(t) \/ FactoryReturns(t) \/ FactoryRaises(t)
    \/ ReleaseReturns(t) \/ CloseDrained(t) \/ CloseReturns(t)
ResetRuns(a) == PutIdle(a) \/ Discard(a) \/ HangUp(a)

Next ==
    \/ \E t \in Tasks :
          \/ Acquire(t) \/ Resume(t) \/ Expire(t) \/ Close(t)
          \/ CancelWaiting(t) \/ CancelWoken(t) \/ CancelClose(t)
    \/ \E t \in Tasks, a \in Adapters : Release(t, a) \/ RunStatement(t, a)
    \/ \E a \in Adapters : ResetRuns(a) \/ Break(a)

(***************************************************************************)
(* Fairness.  The event loop runs every task that can go on, its timers    *)
(* fire, and scope() releases in a finally, though a caller may make other *)
(* calls first.  Nothing makes a task acquire or be cancelled, nor the     *)
(* pool close.                                                             *)
(***************************************************************************)
Fairness ==
    /\ \A t \in Tasks : WF_vars(Resume(t)) /\ WF_vars(Expire(t))
    /\ \A t \in Tasks : SF_vars(\E a \in Adapters : Release(t, a))
    /\ \A a \in Adapters : WF_vars(ResetRuns(a))

Spec == Init /\ [][Next]_vars /\ Fairness

-----------------------------------------------------------------------------
(* Properties *)

TypeOK ==
    /\ rollsBack \in BOOLEAN /\ closed \in BOOLEAN
    /\ idle \subseteq Adapters /\ checkedOut \subseteq Adapters
    /\ created \in 0..MaxSize
    /\ waiters \in Seq(Tasks) /\ IsInjective(waiters)
    /\ pc \in [Tasks -> Phases]
    /\ \A t \in Tasks : pc[t] = "waiting" <=> t \in ToSet(waiters)
    /\ expired \subseteq Tasks
    /\ held \in [Tasks -> SUBSET Adapters]
    /\ reset \in [Adapters -> {"none", "rollback", "close"}]
    /\ drained \in [Tasks -> SUBSET Adapters]
    /\ open \subseteq Adapters /\ abandoned \subseteq Adapters
    /\ session \in [Adapters -> {"clean", "transaction", "broken"}]

Admitted == {t \in Tasks : pc[t] = "factory"}
Returning == {a \in Adapters : reset[a] = "rollback"}

\* No slot is lost or counted twice, wherever a task was cancelled: _created
\* is the number of adapters idle, lent, on their way back or being opened.
\* An adapter whose caller was cancelled in the middle of its release counts
\* on, and comes back.
SlotAccounting ==
    created = Cardinality(idle \cup checkedOut \cup Returning) + Cardinality(Admitted)

\* An open connection is idle, with a caller, in a reset, or still to be
\* closed by a close(), unless the task that ran close() was cancelled.
NoLeak ==
    open \ abandoned =
        (idle \cup (UNION {held[t] \cup drained[t] : t \in Tasks})
              \cup {a \in Adapters : reset[a] # "none"}) \ abandoned

\* A wake-up is promised to a task that was woken and has yet to run.
Promised == {t \in Tasks : pc[t] \in {"woken", "passing"}}

\* Wherever a task is cancelled, the pool loses no slot, no open adapter and no
\* wake-up: it is used up while anybody waits, but for what is promised already.
NothingIsLost ==
    /\ SlotAccounting
    /\ NoLeak
    /\ waiters # <<>> =>
          Cardinality(idle) + (MaxSize - created) <= Cardinality(Promised)

\* release() says so of every adapter: "a statement that failed or left a
\* transaction open does not reach the next task".
EveryHandoutClean == \A a \in idle : session[a] # "transaction"

\* Every acquire ends: with an adapter, PoolTimeout, or the pool's closing.
AcquireEnds ==
    \A t \in Tasks : pc[t] \in {"waiting", "woken", "late", "factory"} ~> pc[t] = "user"

\* The event loop's pool and the thread-safe one promise their callers the
\* same: PoolCustody.
Custody == INSTANCE PoolCustody WITH
    Threads <- Tasks, Connections <- Adapters,
    ready <- idle, returning <- Returning, admitted <- Admitted, shut <- closed

ImplementsCustody == Custody!Spec

=============================================================================
