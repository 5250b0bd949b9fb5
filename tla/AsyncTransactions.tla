------------------------- MODULE AsyncTransactions -------------------------
(***************************************************************************)
(* async_transaction(), arun() and DbApiAsyncAdapter of                    *)
(* src/sustained/aio.py.                                                   *)
(*                                                                         *)
(* Tasks of one event loop share adapters.  Nothing runs between two       *)
(* awaits, and every await here is a driver call: it waits for the         *)
(* adapter's lock, runs in a worker thread, and gives its task the result, *)
(* an error, or the CancelledError that met it on the way.  phase[t] is    *)
(* the call a task is in, so it also says what the task does after it.     *)
(* Every call may raise, on an adapter that works too, and then it has     *)
(* done nothing.                                                           *)
(***************************************************************************)
EXTENDS Integers, Sequences, FiniteSets, SequencesExt

CONSTANTS
    Tasks,
    Adapters,
    Pools,
    PoolAdapters,  \* the adapters of each pool
    Control,       \* what ends a transaction on each adapter, see below
    Uses,          \* the ways to share them, as in uses
    MaxBlocks,     \* bound: blocks opened in a behaviour
    MaxWrites,     \* bound: writes that reached the database
    MaxCancels     \* bound: cancellations of tasks

ASSUME AsyncPoolsAssumption ==
    /\ PoolAdapters \in [Pools -> SUBSET Adapters]
    /\ \A p, q \in Pools : p # q => PoolAdapters[p] \cap PoolAdapters[q] = {}
ASSUME ControlAssumption ==
    \* "driver": commit() and rollback() of the driver.
    \* "statements": the caller put the connection in autocommit.
    \* "cursor": the same, and every cursor is a session (DuckDB).
    Control \in [Adapters -> {"driver", "statements", "cursor"}]
ASSUME AsyncUsesAssumption ==
    Uses \subseteq [Tasks -> [opens : SUBSET (Adapters \cup Pools),
                             runs : SUBSET (Adapters \cup Pools)]]
ASSUME AsyncBoundsAssumption ==
    MaxBlocks \in Nat /\ MaxWrites \in Nat /\ MaxCancels \in Nat

VARIABLES
    uses,      \* what each task's code opens blocks on and runs writes on
    registry,  \* _active_async_transactions: the depth on each adapter
    free,      \* adapters in their pool
    stack,     \* the blocks each task is inside, outermost first
    phase,     \* the call each task is in, or "user"
    stage,     \* how far that call is: "wait", "running" or "undoing"
    cancelled, \* tasks cancelled while their thread runs
    call,      \* its adapter, the pool that is from, and a write's id or depth
    lock,      \* DbApiAsyncAdapter._lock
    session,   \* _session_cursor is set
    inBlock,   \* a BEGIN is in force on the session
    pending,   \* what each session's database transaction holds
    executed,  \* the writes whose statement succeeded
    committed, \* the writes that are durable
    returned,  \* the writes whose arun() gave its result
    outcome,   \* how each block ended: "ok"; "failed", taken back; or
               \*   "cut"       its COMMIT or RELEASE ran, but it raised the
               \*               CancelledError that met it;
               \*   "kept"      a nested one whose RELEASE or ROLLBACK TO
               \*               raised: its writes stay with the block
               \*               around it;
               \*   "stranded"  a top-level one whose ROLLBACK raised: the
               \*               transaction stays open
    cancels    \* cancellations so far

callVars == <<stage, cancelled, call>>
dataVars == <<inBlock, pending, executed, committed>>
poolVars == <<uses, free>>
vars == <<poolVars, registry, stack, phase, callVars, lock, session, dataVars,
          returned, outcome, cancels>>

Blocks == 1..MaxBlocks
None == -1
NoPool == "no pool"
NoCall == [adapter |-> "none", pool |-> NoPool, n |-> 0]
Nobody == "nobody"
ASSUME NobodyAssumption == Nobody \notin Tasks
ASSUME NamesAssumption == NoPool \notin Pools /\ Adapters \cap Pools = {}

Top(t) == stack[t][Len(stack[t])]
Pop(t) == SubSeq(stack[t], 1, Len(stack[t]) - 1)
FramesOn(t, a) == {f \in ToSet(stack[t]) : f.adapter = a}
BlocksOn(t, a) == {f.block : f \in FramesOn(t, a)}

Fresh == {b \in Blocks : outcome[b] = "unused"
                         /\ \A x \in Blocks : x < b => outcome[x] # "unused"}

-----------------------------------------------------------------------------
(***************************************************************************)
(* The database session of an adapter: the writes of its transaction, and  *)
(* the savepoints set in it, oldest first, each with the writes there were *)
(* when it was set.                                                        *)
(***************************************************************************)
Idle == [writes |-> {}, savepoints |-> <<>>]

Write(id, blocks) == [id |-> id, within |-> blocks]
Savepoint(depth, writes) == [name |-> depth, writes |-> writes]

\* Positions of the savepoints of one name; the last one is in force.
SavepointsNamed(a, depth) ==
    {i \in DOMAIN pending[a].savepoints : pending[a].savepoints[i].name = depth}
Latest(a, depth) == CHOOSE i \in SavepointsNamed(a, depth) :
                        \A j \in SavepointsNamed(a, depth) : j <= i

\* A statement on the adapter joins a transaction; otherwise it commits alone.
Held(a) ==
    CASE Control[a] = "driver"     -> TRUE
      [] Control[a] = "statements" -> inBlock[a]
      [] Control[a] = "cursor"     -> inBlock[a] /\ session[a]

Ended(a) ==
    /\ pending' = [pending EXCEPT ![a] = Idle]
    /\ inBlock' = [inBlock EXCEPT ![a] = FALSE]
    /\ UNCHANGED executed
Committed(a) == Ended(a) /\ committed' = committed \cup pending[a].writes
RolledBack(a) == Ended(a) /\ UNCHANGED committed
Unaffected == UNCHANGED dataVars

\* What the call of phase f does on adapter a when it succeeds.
Effect(t, f, a) ==
    CASE f = "begin" ->
            /\ inBlock' = [inBlock EXCEPT ![a] = TRUE]
            /\ UNCHANGED <<pending, executed, committed>>
      [] f = "write" ->
            LET w == Write(Cardinality(executed) + 1, BlocksOn(t, a)) IN
            /\ Cardinality(executed) < MaxWrites
            /\ executed' = executed \cup {w}
            /\ IF Held(a)
               THEN pending' = [pending EXCEPT ![a].writes = @ \cup {w}]
                    /\ UNCHANGED committed
               ELSE committed' = committed \cup {w} /\ UNCHANGED pending
            /\ UNCHANGED inBlock
      [] f \in {"commit write", "undo write"} ->
            \* adapter.commit() and rollback(): of the driver's transaction.
            IF Control[a] # "driver" THEN Unaffected
            ELSE IF f = "commit write" THEN Committed(a) ELSE RolledBack(a)
      [] f = "savepoint" ->
            /\ pending' = [pending EXCEPT ![a].savepoints =
                               Append(@, Savepoint(call[t].n, pending[a].writes))]
            /\ UNCHANGED <<inBlock, executed, committed>>
      [] f \in {"release", "drop"} ->
            \* the savepoint and the later ones go, the writes stay
            /\ pending' = [pending EXCEPT ![a].savepoints =
                               SubSeq(@, 1, Latest(a, Top(t).level) - 1)]
            /\ UNCHANGED <<inBlock, executed, committed>>
      [] f = "undo" ->
            \* what came after the savepoint goes; it stays set
            LET at == Latest(a, Top(t).level) IN
            /\ pending' = [pending EXCEPT ![a] =
                               [writes |-> @.savepoints[at].writes,
                                savepoints |-> SubSeq(@.savepoints, 1, at)]]
            /\ UNCHANGED <<inBlock, executed, committed>>
      [] f = "commit"   -> Committed(a)
      [] f = "rollback" -> RolledBack(a)
      [] f = "close"    -> \* a DuckDB session ends with its cursor
            IF Control[a] = "cursor" THEN RolledBack(a) ELSE Unaffected
      [] f = "cursor"   -> Unaffected

\* The statement names a savepoint that is set.
Executable(t, f, a) ==
    f \in {"release", "undo", "drop"} => SavepointsNamed(a, Top(t).level) # {}

-----------------------------------------------------------------------------
(* Going from one call to the next *)

\* The calls that open or end the task's innermost block.
BlockCalls == {"begin", "release", "undo", "drop", "commit", "rollback", "close"}
Calls == BlockCalls \cup {"cursor", "savepoint", "write", "commit write", "undo write"}

On(t) == IF phase[t] \in BlockCalls THEN Top(t).adapter ELSE call[t].adapter

Go(t, next) ==
    /\ phase' = [phase EXCEPT ![t] = next]
    /\ stage' = [stage EXCEPT ![t] = "wait"]

Register(a, depth) == registry' = [registry EXCEPT ![a] = depth]
Result(b, how) == outcome' = [outcome EXCEPT ![b] = how]

\* scope() ends: a pool takes its adapter back, which is a step of its own.
LeaveScope(t, a, pool) ==
    /\ call' = [call EXCEPT ![t] = IF pool = NoPool THEN NoCall
                                   ELSE [NoCall EXCEPT !.adapter = a, !.pool = pool]]
    /\ Go(t, IF pool = NoPool THEN "user" ELSE "give back")

\* The frame of a block whose adapter call c names.
Frame(t, c, depth, opened) ==
    LET joined == c.pool = NoPool /\ stack[t] # <<>> /\ Top(t).adapter = c.adapter
    IN [block |-> CHOOSE b \in Fresh : TRUE, adapter |-> c.adapter,
        level |-> depth, pool |-> c.pool, opened |-> opened,
        source |-> IF joined THEN Top(t).source ELSE c.pool]

Push(t, c, depth, opened) ==
    /\ Fresh # {}
    /\ stack' = [stack EXCEPT ![t] = Append(@, Frame(t, c, depth, opened))]
    /\ Result(Frame(t, c, depth, opened).block, "open")
    /\ call' = [call EXCEPT ![t] = NoCall]

\* A top-level block: its entry and its pin, then BEGIN where the driver
\* opens no transaction itself.
OpenBlock(t, c, opened) ==
    /\ Register(c.adapter, 0)
    /\ Push(t, c, 0, opened)
    /\ Go(t, IF Control[c.adapter] = "driver" THEN "user" ELSE "begin")

\* The finally of a nested block.
EndNested(t, how) ==
    /\ Register(Top(t).adapter, Top(t).level - 1)
    /\ Result(Top(t).block, how)
    /\ stack' = [stack EXCEPT ![t] = Pop(t)]
    /\ LeaveScope(t, Top(t).adapter, Top(t).pool)

\* Fault: the entry is not deleted.
EndBlockKeepsEntry(t, how) ==
    /\ Result(Top(t).block, how)
    /\ session' = [session EXCEPT ![Top(t).adapter] = FALSE]
    /\ Go(t, "close")
    /\ UNCHANGED <<registry, stack, call>>

\* The finally of a top-level block.  The session's cursor is unpinned before
\* the call that closes it.
EndBlock(t, how) ==
    LET f == Top(t) IN
    /\ Register(f.adapter, None)
    /\ Result(f.block, how)
    /\ IF f.opened
       THEN /\ session' = [session EXCEPT ![f.adapter] = FALSE]
            /\ Go(t, "close")
            /\ UNCHANGED <<stack, call>>
       ELSE /\ stack' = [stack EXCEPT ![t] = Pop(t)]
            /\ LeaveScope(t, f.adapter, f.pool)
            /\ UNCHANGED session

\* arun() leaves its scope, with its result or raising.
EndRun(t, gave) ==
    /\ returned' = IF gave THEN returned \cup {call[t].n} ELSE returned
    /\ LeaveScope(t, call[t].adapter, call[t].pool)

Proceed(t, next) ==
    /\ Go(t, next)
    /\ UNCHANGED <<registry, stack, call, session, returned, outcome>>

LeaveBlock(t) ==
    /\ stack' = [stack EXCEPT ![t] = Pop(t)]
    /\ LeaveScope(t, Top(t).adapter, Top(t).pool)
    /\ UNCHANGED <<registry, session, returned, outcome>>

RunEnds(t, gave) ==
    /\ EndRun(t, gave)
    /\ UNCHANGED <<registry, stack, session, outcome>>

\* What the task does after its call gave a result.
Succeeded(t) ==
    LET f == phase[t]  a == On(t) IN
    \/ /\ f = "cursor"
       /\ session' = [session EXCEPT ![a] = TRUE]
       /\ OpenBlock(t, call[t], TRUE)
       /\ UNCHANGED returned
    \/ /\ f = "savepoint"
       /\ Push(t, call[t], call[t].n, FALSE)
       /\ Go(t, "user")
       /\ UNCHANGED <<registry, session, returned>>
    \/ /\ f = "begin"  /\ Proceed(t, "user")
    \/ /\ f = "write" /\ registry[a] = None
       /\ Go(t, "commit write")
       /\ call' = [call EXCEPT ![t].n = Cardinality(executed) + 1]
       /\ UNCHANGED <<registry, stack, session, returned, outcome>>
    \/ /\ f = "write" /\ registry[a] # None
       /\ returned' = returned \cup {Cardinality(executed) + 1}
       /\ LeaveScope(t, a, call[t].pool)
       /\ UNCHANGED <<registry, stack, session, outcome>>
    \/ /\ f = "commit write" /\ RunEnds(t, TRUE)
    \/ /\ f = "undo write"   /\ RunEnds(t, FALSE)
    \/ /\ f = "release" /\ EndNested(t, "ok") /\ UNCHANGED <<session, returned>>
    \/ /\ f = "undo"    /\ Proceed(t, "drop")
    \/ /\ f = "drop"    /\ EndNested(t, "failed") /\ UNCHANGED <<session, returned>>
    \/ /\ f = "commit"  /\ EndBlock(t, "ok") /\ UNCHANGED returned
    \/ /\ f = "rollback" /\ EndBlock(t, outcome[Top(t).block]) /\ UNCHANGED returned
    \/ /\ f = "close"   /\ LeaveBlock(t)

\* Fault: a block whose COMMIT failed is left open.
CommitRaisedEnds(t, how) == EndBlock(t, how) /\ UNCHANGED returned

\* A COMMIT that raised may have left the transaction open: it is rolled back.
CommitRaised(t, how) ==
    /\ Go(t, "rollback")
    /\ Result(Top(t).block, how)
    /\ UNCHANGED <<registry, stack, call, session, returned>>

\* A ROLLBACK that raised leaves the transaction of the block, unless its COMMIT
\* had ended it.
RollbackRaised(t, how) ==
    LET ended == outcome[Top(t).block] IN
    EndBlock(t, IF how = "failed" /\ ended = "failed" THEN "stranded" ELSE ended)

\* What it does after the call raised: how is "failed", or "cut" where a
\* cancellation met a call that then ran to its end.
Raised(t, how) ==
    LET f == phase[t]  a == On(t) IN
    \/ /\ f = "cursor"
       /\ LeaveScope(t, a, call[t].pool)
       /\ UNCHANGED <<registry, stack, session, returned, outcome>>
    \/ /\ f = "savepoint"
       /\ Register(a, call[t].n - 1)
       /\ LeaveScope(t, a, call[t].pool)
       /\ UNCHANGED <<stack, session, returned, outcome>>
    \/ /\ f = "begin" /\ EndBlock(t, "failed") /\ UNCHANGED returned
    \/ /\ f \in {"write", "commit write"} /\ registry[a] = None
       /\ Proceed(t, "undo write")
    \/ /\ f \in {"write", "commit write"} /\ registry[a] # None
       /\ RunEnds(t, FALSE)
    \/ /\ f = "undo write" /\ RunEnds(t, FALSE)
    \/ /\ f = "release" /\ EndNested(t, IF how = "cut" THEN "cut" ELSE "kept")
       /\ UNCHANGED <<session, returned>>
    \/ /\ f = "undo" /\ EndNested(t, IF how = "cut" THEN "failed" ELSE "kept")
       /\ UNCHANGED <<session, returned>>
    \/ /\ f = "drop" /\ EndNested(t, "failed") /\ UNCHANGED <<session, returned>>
    \/ /\ f = "commit" /\ CommitRaised(t, how)
    \/ /\ f = "rollback" /\ RollbackRaised(t, how) /\ UNCHANGED returned
    \/ /\ f = "close" /\ LeaveBlock(t)

-----------------------------------------------------------------------------
(* DbApiAsyncAdapter._call() *)

InCall(t) == phase[t] \in Calls
Unlock(t) == lock' = [lock EXCEPT ![On(t)] = Nobody]

TakeLock(t) ==
    /\ InCall(t) /\ stage[t] = "wait" /\ lock[On(t)] = Nobody
    /\ stage' = [stage EXCEPT ![t] = "running"]
    /\ lock' = [lock EXCEPT ![On(t)] = t]
    /\ UNCHANGED <<poolVars, registry, stack, phase, cancelled, call,
                   session, dataVars, returned, outcome, cancels>>

\* The thread ends and the task was not cancelled.
CallReturns(t) ==
    /\ InCall(t) /\ stage[t] = "running" /\ t \notin cancelled
    /\ Unlock(t)
    /\ \/ Executable(t, phase[t], On(t)) /\ Effect(t, phase[t], On(t)) /\ Succeeded(t)
       \/ Unaffected /\ Raised(t, "failed")
    /\ UNCHANGED <<poolVars, cancelled, cancels>>

\* The thread of a cancelled task ends: what it did stays done, and the task
\* raises.  A cursor it opened is closed first, in a thread again.
CancelledCallEnds(t) ==
    /\ InCall(t) /\ stage[t] = "running" /\ t \in cancelled
    /\ \/ /\ phase[t] = "cursor"
          /\ stage' = [stage EXCEPT ![t] = "undoing"]
          /\ Unaffected
          /\ UNCHANGED <<registry, stack, phase, cancelled, call, lock,
                         session, returned, outcome>>
       \/ /\ phase[t] # "cursor"
          /\ Executable(t, phase[t], On(t)) /\ Effect(t, phase[t], On(t))
          /\ Raised(t, "cut")
          /\ Unlock(t) /\ cancelled' = cancelled \ {t}
       \/ /\ phase[t] # "cursor" /\ Unaffected /\ Raised(t, "failed")
          /\ Unlock(t) /\ cancelled' = cancelled \ {t}
    /\ UNCHANGED <<poolVars, cancels>>

\* Fault: the lock stays held.
UndoEndsLocked(t) ==
    /\ InCall(t) /\ stage[t] = "undoing"
    /\ Raised(t, "failed")
    /\ cancelled' = cancelled \ {t}
    /\ UNCHANGED <<poolVars, lock, dataVars, cancels>>

UndoEnds(t) ==
    /\ InCall(t) /\ stage[t] = "undoing"
    /\ Raised(t, "failed")
    /\ Unlock(t) /\ cancelled' = cancelled \ {t}
    /\ UNCHANGED <<poolVars, dataVars, cancels>>

\* The task is cancelled while it waits for the lock: its call never runs.
CancelWaiting(t) ==
    /\ InCall(t) /\ stage[t] = "wait" /\ cancels < MaxCancels
    /\ lock[On(t)] # Nobody
    /\ Raised(t, "failed")
    /\ cancels' = cancels + 1
    /\ UNCHANGED <<poolVars, cancelled, lock, dataVars>>

\* Fault: the lock is released at once.
CancelRunningUnlocks(t) ==
    /\ InCall(t) /\ stage[t] \in {"running", "undoing"} /\ cancels < MaxCancels
    /\ cancelled' = cancelled \cup {t}
    /\ cancels' = cancels + 1
    /\ Unlock(t)
    /\ UNCHANGED <<poolVars, registry, stack, phase, stage, call,
                   session, dataVars, returned, outcome>>

\* It is cancelled while its thread runs: _wait_out() keeps the lock, and
\* swallows this cancellation and any later one until the thread has ended.
CancelRunning(t) ==
    /\ InCall(t) /\ stage[t] \in {"running", "undoing"} /\ cancels < MaxCancels
    /\ cancelled' = cancelled \cup {t}
    /\ cancels' = cancels + 1
    /\ UNCHANGED <<poolVars, registry, stack, phase, stage, call, lock,
                   session, dataVars, returned, outcome>>

-----------------------------------------------------------------------------
(* What the tasks' code does between calls *)

Pinned(t, b) ==
    stack[t] # <<>> /\ (b = Top(t).adapter \/ (b = Top(t).source /\ b \in Pools))

\* Fault: the pool of an open block is not recognised.
PinnedByAdapter(t, b) == stack[t] # <<>> /\ b = Top(t).adapter

\* resolve_adapter() and scope(): the adapter that is pinned, the adapter
\* itself, or one of the pool's.
Resolved(t, b, a, pool) ==
    IF Pinned(t, b) THEN a = Top(t).adapter /\ pool = NoPool /\ UNCHANGED free
    ELSE IF b \in Adapters THEN a = b /\ pool = NoPool /\ UNCHANGED free
    ELSE a \in free[b] /\ pool = b /\ free' = [free EXCEPT ![b] = @ \ {a}]

\* PoolTimeout: every adapter of the pool is checked out.  The error ends the
\* block the task is in.
PoolTimesOut(t) ==
    /\ phase[t] = "user" /\ stack[t] # <<>>
    /\ \E p \in (uses[t].opens \cup uses[t].runs) \cap Pools : free[p] = {} /\ ~Pinned(t, p)
    /\ Result(Top(t).block, "failed")
    /\ Go(t, IF Top(t).level > 0 THEN "undo" ELSE "rollback")
    /\ UNCHANGED <<poolVars, registry, stack, cancelled, call, lock, session,
                   dataVars, returned, cancels>>

\* async_transaction(): one that finds the adapter in the registry is nested;
\* any other enters session() first, which awaits the cursor it opens.
Transaction(t) ==
    /\ phase[t] = "user" /\ Fresh # {}
    /\ \E b \in uses[t].opens, a \in Adapters, pool \in Pools \cup {NoPool} :
          /\ Resolved(t, b, a, pool)
          /\ LET nested == registry[a] # None
                 opened == [adapter |-> a, pool |-> pool,
                            n |-> IF nested THEN registry[a] + 1 ELSE 0]
             IN IF nested
                THEN /\ Control[a] # "cursor"   \* DuckDB has no savepoints
                     /\ call' = [call EXCEPT ![t] = opened]
                     /\ Register(a, registry[a] + 1)
                     /\ Go(t, "savepoint")
                     /\ UNCHANGED <<stack, outcome>>
                ELSE IF session[a]
                THEN OpenBlock(t, opened, FALSE)
                ELSE /\ call' = [call EXCEPT ![t] = opened]
                     /\ Go(t, "cursor")
                     /\ UNCHANGED <<registry, stack, outcome>>
    /\ UNCHANGED <<uses, cancelled, lock, session, dataVars, returned, cancels>>

\* arun() of a write, with an adapter or a pool, or with none in a block.
Run(t) ==
    /\ phase[t] = "user" /\ Cardinality(executed) < MaxWrites
    /\ \E b \in uses[t].runs \cup (IF stack[t] = <<>> THEN {} ELSE {Top(t).adapter}),
          a \in Adapters, pool \in Pools \cup {NoPool} :
          /\ Resolved(t, b, a, pool)
          /\ call' = [call EXCEPT ![t] = [adapter |-> a, pool |-> pool, n |-> 0]]
    /\ Go(t, "write")
    /\ UNCHANGED <<uses, registry, stack, cancelled, lock, session, dataVars,
                   returned, outcome, cancels>>

\* The block's body ends.
Finish(t) ==
    /\ phase[t] = "user" /\ stack[t] # <<>>
    /\ Go(t, IF Top(t).level > 0 THEN "release" ELSE "commit")
    /\ UNCHANGED <<poolVars, registry, stack, cancelled, call, lock, session,
                   dataVars, returned, outcome, cancels>>

\* It raises, or is cancelled.
Raise(t) ==
    /\ phase[t] = "user" /\ stack[t] # <<>>
    /\ Result(Top(t).block, "failed")
    /\ Go(t, IF Top(t).level > 0 THEN "undo" ELSE "rollback")
    /\ UNCHANGED <<poolVars, registry, stack, cancelled, call, lock, session,
                   dataVars, returned, cancels>>

\* AsyncConnectionPool.release(): the reset's rollback, then the adapter is
\* free, whatever happens to the task; also where the rollback raised and the
\* adapter answers the probe.
GiveBack(t) ==
    /\ phase[t] = "give back"
    /\ LET a == call[t].adapter IN
          /\ \/ Control[a] = "driver" /\ RolledBack(a)
             \/ Unaffected
          /\ free' = [free EXCEPT ![call[t].pool] = @ \cup {a}]
    /\ call' = [call EXCEPT ![t] = NoCall]
    /\ phase' = [phase EXCEPT ![t] = "user"]
    /\ UNCHANGED <<uses, registry, stack, stage, cancelled, lock, session,
                   returned, outcome, cancels>>

-----------------------------------------------------------------------------
Init ==
    /\ uses \in Uses
    /\ registry = [a \in Adapters |-> None]
    /\ free = PoolAdapters
    /\ stack = [t \in Tasks |-> <<>>]
    /\ phase = [t \in Tasks |-> "user"]
    /\ stage = [t \in Tasks |-> "wait"]
    /\ cancelled = {}
    /\ call = [t \in Tasks |-> NoCall]
    /\ lock = [a \in Adapters |-> Nobody]
    /\ session = [a \in Adapters |-> FALSE]
    /\ inBlock = [a \in Adapters |-> FALSE]
    /\ pending = [a \in Adapters |-> Idle]
    /\ executed = {} /\ committed = {} /\ returned = {}
    /\ outcome = [b \in Blocks |-> "unused"]
    /\ cancels = 0

Await(t) == TakeLock(t) \/ CallReturns(t) \/ CancelledCallEnds(t) \/ UndoEnds(t)
            \/ GiveBack(t)
Cancel(t) == CancelWaiting(t) \/ CancelRunning(t)
Code(t) == Transaction(t) \/ Run(t) \/ Finish(t) \/ Raise(t) \/ PoolTimesOut(t)

Next == \E t \in Tasks : Await(t) \/ Cancel(t) \/ Code(t)

Spec == Init /\ [][Next]_vars

\* A worker thread ends, and asyncio.Lock hands itself to its first waiter.
FairSpec ==
    /\ Spec
    /\ \A t \in Tasks :
          /\ SF_vars(TakeLock(t))
          /\ WF_vars(CallReturns(t) \/ CancelledCallEnds(t) \/ UndoEnds(t) \/ GiveBack(t))

-----------------------------------------------------------------------------
(* Properties *)

\* The adapters that the task's code names by themselves.
Named(t) == Adapters \cap (uses[t].opens \cup uses[t].runs)

\* Each task has adapters of its own, or takes them from a pool: "Give each
\* concurrent task its own adapter" (async_transaction()).  Those of a pool
\* only the pool hands out.
Private ==
    /\ \A t, u \in Tasks : t # u => Named(t) \cap Named(u) = {}
    /\ \A t \in Tasks, p \in Pools : Named(t) \cap PoolAdapters[p] = {}

\* A block is atomic at every depth, through errors and through cancellations
\* at every await: nothing it wrote is durable before it has ended, nor after
\* it raised.  The exceptions are those the code has: the CancelledError met the
\* very COMMIT or RELEASE that ended it, which the worker thread then finishes;
\* its RELEASE or ROLLBACK TO raised, so the writes end with the block around
\* it; or its ROLLBACK raised, and they end with what is committed next.
AtomicBlocks ==
    Private => \A w \in committed : \A b \in w.within :
                   outcome[b] \in {"ok", "cut", "kept", "stranded"}

\* The same without the statements that raised, which the code does not keep
\* to.  The README gives the traces, and no run lists it.
RaisedBlocksLeaveNothing ==
    Private => \A w \in committed : \A b \in w.within : outcome[b] \in {"ok", "cut"}

\* What finished is durable: the writes of blocks that nothing took back, and a
\* write of arun() outside any block once it has returned.
FinishedIsDurable ==
    Private =>
        \A w \in executed :
            (IF w.within = {} THEN w.id \in returned
             ELSE \A b \in w.within : outcome[b] \in {"ok", "cut", "kept"})
                => w \in committed

\* _call(): the driver connection never runs two calls at once, although a
\* cancelled task cannot stop its thread, whoever shares the adapter.
OneThreadPerConnection ==
    \A t, u \in Tasks :
        (\A v \in {t, u} : InCall(v) /\ stage[v] # "wait") /\ t # u => On(t) # On(u)

\* arun(): a write outside any block is committed when it returns, also where
\* several run at once on the adapter a model is bound to ("Ten concurrent
\* arun() calls on one adapter therefore queue up behind each other").
ConcurrentRunsKept ==
    \A w \in executed : w.within = {} /\ w.id \in returned => w \in committed

\* A call ends whatever happens to its task and however often it is cancelled;
\* with a lock that waits on a lock, or a wait that a cancellation restarts,
\* it would not.
CallsEnd == \A t \in Tasks : InCall(t) ~> phase[t] = "user"

=============================================================================
