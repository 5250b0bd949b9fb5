---------------------------- MODULE Transactions ----------------------------
(***************************************************************************)
(* transaction(), run() and connection_scope() of                          *)
(* src/sustained/execution.py.                                             *)
(*                                                                         *)
(* Each thread runs code that opens transaction() blocks, nested or not,   *)
(* on connections and on pools, runs writes inside and outside them, and   *)
(* raises and catches exceptions anywhere.  The registry of open blocks    *)
(* (_ACTIVE_TRANSACTIONS) is shared.  A step is one access to it, or one   *)
(* statement sent to the database.  Every statement may raise, on a live   *)
(* connection too, and then it has done nothing.                           *)
(***************************************************************************)
EXTENDS Integers, Sequences, FiniteSets, SequencesExt

CONSTANTS
    Threads,
    Connections,
    Pools,
    PoolConnections,  \* the connections of each pool
    Uses,             \* the ways to share them: what each thread's code names
    WithSavepoints,   \* the connections used with a dialect that has savepoints
    MaxBlocks,        \* bound: blocks opened in a behaviour
    MaxWrites         \* bound: writes run in a behaviour

ASSUME PoolsAssumption ==
    /\ PoolConnections \in [Pools -> SUBSET Connections]
    /\ \A p, q \in Pools : p # q => PoolConnections[p] \cap PoolConnections[q] = {}
\* What a pool opens is reached through the pool.
ASSUME UsesAssumption ==
    /\ Uses \subseteq [Threads -> SUBSET (Connections \cup Pools)]
    /\ \A u \in Uses, t \in Threads, p \in Pools : u[t] \cap PoolConnections[p] = {}
ASSUME BoundsAssumption ==
    WithSavepoints \subseteq Connections /\ MaxBlocks \in Nat /\ MaxWrites \in Nat

VARIABLES
    uses,      \* the connections and pools each thread's code names
    registry,  \* _ACTIVE_TRANSACTIONS: the open block of each connection
    free,      \* connections in their pool
    stack,     \* the blocks each thread is inside, outermost first
    phase,     \* where each thread is in transaction() or run()
    target,    \* the connection the thread's call resolved to
    via,       \* the pool that connection was checked out of, for the call
    asked,     \* the binding the call was given
    level,     \* the depth transaction() computed for a nested block
    pending,   \* what each connection's database transaction holds
    committed, \* the writes that are durable
    lost,      \* connections whose server is gone
    outcome,   \* how each block ended: "ok"; "failed", taken back; or what a
               \* closing statement that raised made of it, see below
    executed   \* the writes whose statement succeeded

callVars == <<target, via, asked, level>>
threadVars == <<stack, phase, callVars>>
dataVars   == <<pending, committed, lost>>
vars == <<uses, registry, free, threadVars, dataVars, outcome, executed>>

Blocks == 1..MaxBlocks

NoPool == "no pool"
NoConnection == "no connection"
Nothing == "nothing"
Entry(t, depth) == [owner |-> t, depth |-> depth]
NoEntry == Entry("nobody", 0)

ASSUME NamesAssumption ==
    /\ NoPool \notin Pools /\ NoConnection \notin Connections
    /\ NoEntry.owner \notin Threads
    /\ Connections \cap Pools = {}

Phases == {"user", "enter", "begin", "nest", "savepoint", "closing", "raising",
           "execute", "undo", "decide", "commit"}

Top(t) == stack[t][Len(stack[t])]
Pop(t) == SubSeq(stack[t], 1, Len(stack[t]) - 1)

\* A block that raised, and whose closing statement then raised as well:
\*   "kept"      a nested one whose RELEASE or ROLLBACK TO raised, so its
\*               savepoint and its writes stay with the block around it;
\*   "left"      a nested one taken back, whose savepoint stays set;
\*   "stranded"  a top-level one whose ROLLBACK raised: the connection keeps
\*               its transaction open.
Unclosed == {"kept", "left", "stranded"}
Outcomes == {"unused", "open", "ok", "failed"} \cup Unclosed

\* The blocks a thread has open on a connection.
FramesOn(t, c) == {f \in ToSet(stack[t]) : f.conn = c}
BlocksOn(t, c) == {f.block : f \in FramesOn(t, c)}

Fresh == {b \in Blocks : outcome[b] = "unused"
                         /\ \A a \in Blocks : a < b => outcome[a] # "unused"}

-----------------------------------------------------------------------------
(***************************************************************************)
(* The database session of a connection: the writes of its transaction,    *)
(* and the savepoints set in it, oldest first, each with the writes there  *)
(* were when it was set.                                                   *)
(***************************************************************************)

Idle == [writes |-> {}, savepoints |-> <<>>]

Write(id, blocks) == [id |-> id, within |-> blocks]
\* The name repeats at a depth; for the properties it says whose it is.
Savepoint(depth, block, writes) == [name |-> depth, block |-> block, writes |-> writes]

\* Positions of the savepoints of one name; the last one is in force.
SavepointsNamed(s, depth) ==
    {i \in DOMAIN s.savepoints : s.savepoints[i].name = depth}
LatestSavepoint(s, depth) ==
    CHOOSE i \in SavepointsNamed(s, depth) :
        \A j \in SavepointsNamed(s, depth) : j <= i

Before(s, depth) == SubSeq(s.savepoints, 1, LatestSavepoint(s, depth) - 1)

\* The statement that ends block f finds the savepoint it names.
HasSavepoint(f) == SavepointsNamed(pending[f.conn], f.level) # {}

\* RELEASE: the savepoint and the later ones go, the writes stay.
Released(s, depth) == [writes |-> s.writes, savepoints |-> Before(s, depth)]

\* ROLLBACK TO: what came after the savepoint goes; it stays set.
BackTo(s, depth) == [writes |-> s.savepoints[LatestSavepoint(s, depth)].writes,
                     savepoints |-> SubSeq(s.savepoints, 1, LatestSavepoint(s, depth))]

\* And then RELEASE: the savepoint goes as well.
Undone(s, depth) == [writes |-> s.savepoints[LatestSavepoint(s, depth)].writes,
                     savepoints |-> Before(s, depth)]

Commit(c) ==
    /\ committed' = committed \cup pending[c].writes
    /\ pending' = [pending EXCEPT ![c] = Idle]

Rollback(c) ==
    /\ pending' = [pending EXCEPT ![c] = Idle]
    /\ UNCHANGED committed

-----------------------------------------------------------------------------
(* Pools and pins *)

\* _thread_state.pinned: the innermost block of this thread opened on a pool.
Pinned(t) ==
    {stack[t][i] : i \in {j \in DOMAIN stack[t] :
        /\ stack[t][j].pool # NoPool
        /\ \A k \in DOMAIN stack[t] : j < k => stack[t][k].pool = NoPool}}
PinnedTo(t, p) == {f \in Pinned(t) : f.pool = p}

\* An exception reaches the caller's code: it is caught there, or it ends
\* the block the code is in.
Throw(t, inside) ==
    \/ phase' = [phase EXCEPT ![t] = "user"]
    \/ inside /\ phase' = [phase EXCEPT ![t] = "raising"]

\* release() rolls the connection back and puts it in the pool; where that
\* raises, a connection that answers the probe is put there as it is.  A lost
\* one is discarded, and the pool opens another in its place.
GiveBack(c, p) ==
    /\ free' = [free EXCEPT ![p] = @ \cup {c}]
    /\ lost' = lost \ {c}
    /\ \/ Rollback(c)
       \/ c \notin lost /\ UNCHANGED <<pending, committed>>

Forget(t) ==
    /\ target' = [target EXCEPT ![t] = NoConnection]
    /\ via' = [via EXCEPT ![t] = NoPool]
    /\ asked' = [asked EXCEPT ![t] = Nothing]
    /\ level' = [level EXCEPT ![t] = 0]

\* A call that failed before its block opened, or a run() that is over: a
\* connection checked out for it goes back.
LeaveCall(t) ==
    /\ Forget(t)
    /\ IF via[t] = NoPool
       THEN UNCHANGED <<free, dataVars>>
       ELSE GiveBack(target[t], via[t])

CallFails(t) ==
    /\ LeaveCall(t)
    /\ Throw(t, stack[t] # <<>>)
    /\ UNCHANGED <<uses, stack, outcome, executed>>

-----------------------------------------------------------------------------
(* The start of transaction() and of run(): which connection it is on. *)

Begin(t, b, next, c, p) ==
    /\ phase' = [phase EXCEPT ![t] = next]
    /\ target' = [target EXCEPT ![t] = c]
    /\ via' = [via EXCEPT ![t] = p]
    /\ asked' = [asked EXCEPT ![t] = b]
    /\ level' = [level EXCEPT ![t] = 0]
    /\ UNCHANGED <<uses, registry, stack, dataVars, outcome, executed>>

CheckOut(t, b, next, p) ==
    /\ \E c \in free[p] :
          /\ free' = [free EXCEPT ![p] = @ \ {c}]
          /\ Begin(t, b, next, c, p)

\* PoolTimeout: every connection of the pool is checked out.
PoolTimesOut(t) ==
    /\ phase[t] = "user"
    /\ \E p \in uses[t] \cap Pools : free[p] = {} /\ PinnedTo(t, p) = {}
    /\ stack[t] # <<>>
    /\ phase' = [phase EXCEPT ![t] = "raising"]
    /\ UNCHANGED <<uses, registry, free, stack, callVars, dataVars, outcome,
                   executed>>

CanOpen == Fresh # {}
CanWrite == Cardinality(executed) < MaxWrites

TransactionOnConnection(t, c) ==
    /\ phase[t] = "user" /\ CanOpen
    /\ Begin(t, c, "enter", c, NoPool)
    /\ UNCHANGED free

\* A pool whose connection is pinned by the thread's innermost pinned block
\* is entered again; any other pool checks a connection out.
TransactionOnPool(t, p) ==
    /\ phase[t] = "user" /\ CanOpen
    /\ IF PinnedTo(t, p) = {}
       THEN CheckOut(t, p, "enter", p)
       ELSE /\ \E f \in PinnedTo(t, p) : Begin(t, p, "enter", f.conn, NoPool)
            /\ UNCHANGED free

\* connection_scope() with an explicit binding.
RunOn(t, b) ==
    /\ phase[t] = "user" /\ CanWrite
    /\ IF b \in Connections
       THEN Begin(t, b, "execute", b, NoPool) /\ UNCHANGED free
       ELSE IF PinnedTo(t, b) = {}
       THEN CheckOut(t, b, "execute", b)
       ELSE /\ \E f \in PinnedTo(t, b) : Begin(t, b, "execute", f.conn, NoPool)
            /\ UNCHANGED free

\* connection_scope() without one, inside a block on a pool.
RunPinned(t) ==
    /\ phase[t] = "user" /\ CanWrite
    /\ \E f \in Pinned(t) : Begin(t, Nothing, "execute", f.conn, NoPool)
    /\ UNCHANGED free

-----------------------------------------------------------------------------
(* transaction() on one connection *)

Push(t, b, depth) ==
    /\ stack' = [stack EXCEPT ![t] = Append(@,
           [block |-> b, conn |-> target[t], pool |-> via[t], level |-> depth])]
    /\ outcome' = [outcome EXCEPT ![b] = "open"]

\* The registry is read.  The lock is released again before it is written.
ReadNoEntry(t) ==
    /\ phase[t] = "enter"
    /\ registry[target[t]] = NoEntry
    /\ phase' = [phase EXCEPT ![t] = "begin"]
    /\ UNCHANGED <<uses, registry, free, stack, callVars, dataVars, outcome,
                   executed>>

\* RuntimeError: another thread has an open block on the connection.
ReadOtherThread(t) ==
    /\ phase[t] = "enter"
    /\ registry[target[t]].owner \notin {t, NoEntry.owner}
    /\ CallFails(t)
    /\ UNCHANGED registry

\* DialectError: this thread has one, and the dialect has no savepoints.
ReadNoSavepoints(t) ==
    /\ phase[t] = "enter"
    /\ registry[target[t]].owner = t /\ target[t] \notin WithSavepoints
    /\ CallFails(t)
    /\ UNCHANGED registry

ReadOwnEntry(t) ==
    /\ phase[t] = "enter"
    /\ registry[target[t]].owner = t /\ target[t] \in WithSavepoints
    /\ level' = [level EXCEPT ![t] = registry[target[t]].depth + 1]
    /\ phase' = [phase EXCEPT ![t] = "nest"]
    /\ UNCHANGED <<uses, registry, free, stack, target, via, asked, dataVars,
                   outcome, executed>>

RegisterNested(t) ==
    /\ phase[t] = "nest"
    /\ registry' = [registry EXCEPT ![target[t]] = Entry(t, level[t])]
    /\ phase' = [phase EXCEPT ![t] = "savepoint"]
    /\ UNCHANGED <<uses, free, stack, callVars, dataVars, outcome, executed>>

\* BEGIN, when the driver needs one, and the registration of the block.
OpenBlock(t) ==
    /\ phase[t] = "begin"
    /\ registry' = [registry EXCEPT ![target[t]] = Entry(t, 0)]
    /\ \E b \in Fresh : Push(t, b, 0)
    /\ phase' = [phase EXCEPT ![t] = "user"]
    /\ Forget(t)
    /\ UNCHANGED <<uses, free, dataVars, executed>>

BeginFails(t) ==
    /\ phase[t] = "begin"
    /\ CallFails(t)
    /\ UNCHANGED registry

SetSavepoint(t) ==
    /\ phase[t] = "savepoint"
    /\ target[t] \notin lost
    /\ \E b \in Fresh :
          /\ Push(t, b, level[t])
          /\ pending' = [pending EXCEPT ![target[t]].savepoints =
                 Append(@, Savepoint(level[t], b, pending[target[t]].writes))]
    /\ phase' = [phase EXCEPT ![t] = "user"]
    /\ Forget(t)
    /\ UNCHANGED <<uses, registry, free, committed, lost, executed>>

SavepointFails(t) ==
    /\ phase[t] = "savepoint"
    /\ registry' = [registry EXCEPT ![target[t]] = Entry(t, level[t] - 1)]
    /\ CallFails(t)

\* The block finishes.  A nested one releases its savepoint.
ReleaseSavepoint(t) ==
    /\ phase[t] = "user" /\ stack[t] # <<>>
    /\ LET f == Top(t) IN
          /\ f.level > 0 /\ HasSavepoint(f)
          /\ pending' = [pending EXCEPT ![f.conn] = Released(@, f.level)]
          /\ registry' = [registry EXCEPT ![f.conn] = Entry(t, f.level - 1)]
          /\ outcome' = [outcome EXCEPT ![f.block] = "ok"]
    /\ stack' = [stack EXCEPT ![t] = Pop(t)]
    /\ UNCHANGED <<uses, free, phase, callVars, committed, lost, executed>>

\* The release raises: the error leaves the block with nothing undone.
ReleaseSavepointFails(t) ==
    /\ phase[t] = "user" /\ stack[t] # <<>>
    /\ LET f == Top(t) IN
          /\ f.level > 0
          /\ registry' = [registry EXCEPT ![f.conn] = Entry(t, f.level - 1)]
          /\ outcome' = [outcome EXCEPT ![f.block] = "kept"]
    /\ stack' = [stack EXCEPT ![t] = Pop(t)]
    /\ Throw(t, TRUE)
    /\ UNCHANGED <<uses, free, callVars, dataVars, executed>>

CommitBlock(t) ==
    /\ phase[t] = "user" /\ stack[t] # <<>>
    /\ LET f == Top(t) IN
          /\ f.level = 0 /\ f.conn \notin lost
          /\ Commit(f.conn)
          /\ outcome' = [outcome EXCEPT ![f.block] = "ok"]
    /\ phase' = [phase EXCEPT ![t] = "closing"]
    /\ UNCHANGED <<uses, registry, free, stack, callVars, lost, executed>>

\* The caller's code raises inside the block, or the commit of it does.
Raise(t) ==
    /\ phase[t] = "user" /\ stack[t] # <<>>
    /\ phase' = [phase EXCEPT ![t] = "raising"]
    /\ UNCHANGED <<uses, registry, free, stack, callVars, dataVars, outcome,
                   executed>>

\* Fault: the depth is not restored when the block raised.
UndoSavepointKeepsDepth(t) ==
    /\ phase[t] = "raising"
    /\ LET f == Top(t) IN
          /\ f.level > 0 /\ HasSavepoint(f)
          /\ pending' = [pending EXCEPT ![f.conn] = Undone(@, f.level)]
          /\ outcome' = [outcome EXCEPT ![f.block] = "failed"]
    /\ stack' = [stack EXCEPT ![t] = Pop(t)]
    /\ Throw(t, TRUE)
    /\ UNCHANGED <<uses, registry, free, callVars, committed, lost, executed>>

\* A block that raised: a nested one goes back to its savepoint and drops it.
UndoSavepoint(t) ==
    /\ phase[t] = "raising"
    /\ LET f == Top(t) IN
          /\ f.level > 0 /\ HasSavepoint(f)
          /\ pending' = [pending EXCEPT ![f.conn] = Undone(@, f.level)]
          /\ registry' = [registry EXCEPT ![f.conn] = Entry(t, f.level - 1)]
          /\ outcome' = [outcome EXCEPT ![f.block] = "failed"]
    /\ stack' = [stack EXCEPT ![t] = Pop(t)]
    /\ Throw(t, TRUE)
    /\ UNCHANGED <<uses, free, callVars, committed, lost, executed>>

\* One of the two statements raises: the first, and nothing is taken back, or
\* the second.  The block's own error leaves it either way.
UndoSavepointFails(t) ==
    /\ phase[t] = "raising"
    /\ LET f == Top(t) IN
          /\ f.level > 0
          /\ \/ /\ outcome' = [outcome EXCEPT ![f.block] = "kept"]
                /\ UNCHANGED pending
             \/ /\ HasSavepoint(f)
                /\ outcome' = [outcome EXCEPT ![f.block] = "left"]
                /\ pending' = [pending EXCEPT ![f.conn] = BackTo(@, f.level)]
          /\ registry' = [registry EXCEPT ![f.conn] = Entry(t, f.level - 1)]
    /\ stack' = [stack EXCEPT ![t] = Pop(t)]
    /\ Throw(t, TRUE)
    /\ UNCHANGED <<uses, free, callVars, committed, lost, executed>>

RollbackBlock(t) ==
    /\ phase[t] = "raising"
    /\ LET f == Top(t) IN
          /\ f.level = 0
          /\ Rollback(f.conn)
          /\ outcome' = [outcome EXCEPT ![f.block] = "failed"]
    /\ phase' = [phase EXCEPT ![t] = "closing"]
    /\ UNCHANGED <<uses, registry, free, stack, callVars, lost, executed>>

\* The rollback raises.  (On a lost connection nothing is left to take back.)
RollbackBlockFails(t) ==
    /\ phase[t] = "raising"
    /\ LET f == Top(t) IN
          /\ f.level = 0 /\ f.conn \notin lost
          /\ outcome' = [outcome EXCEPT ![f.block] = "stranded"]
    /\ phase' = [phase EXCEPT ![t] = "closing"]
    /\ UNCHANGED <<uses, registry, free, stack, callVars, dataVars, executed>>

\* Fault: the entry of the block is not deleted.
CloseBlockKeepsEntry(t) ==
    /\ phase[t] = "closing"
    /\ LET f == Top(t) IN
          IF f.pool = NoPool
          THEN UNCHANGED <<free, dataVars>>
          ELSE GiveBack(f.conn, f.pool)
    /\ phase' = [phase EXCEPT ![t] = "user"]
    /\ stack' = [stack EXCEPT ![t] = Pop(t)]
    /\ UNCHANGED <<uses, registry, callVars, outcome, executed>>

\* The finally clauses: the entry is deleted, the pin dropped and a pool's
\* connection released.  Deleting an entry that is gone raises KeyError.
CloseBlock(t) ==
    /\ phase[t] = "closing"
    /\ LET f == Top(t) IN
          /\ registry' = [registry EXCEPT ![f.conn] = NoEntry]
          /\ IF f.pool = NoPool
             THEN UNCHANGED <<free, dataVars>>
             ELSE GiveBack(f.conn, f.pool)
          /\ IF outcome[f.block] = "ok" /\ registry[f.conn] # NoEntry
             THEN phase' = [phase EXCEPT ![t] = "user"]
             ELSE Throw(t, Len(stack[t]) > 1)
    /\ stack' = [stack EXCEPT ![t] = Pop(t)]
    /\ UNCHANGED <<uses, callVars, outcome, executed>>

-----------------------------------------------------------------------------
(* run(): a write, and its commit unless a block owns the commit. *)

Execute(t) ==
    /\ phase[t] = "execute" /\ CanWrite
    /\ target[t] \notin lost
    /\ LET w == Write(Cardinality(executed) + 1, BlocksOn(t, target[t])) IN
          /\ executed' = executed \cup {w}
          /\ pending' = [pending EXCEPT ![target[t]].writes = @ \cup {w}]
    /\ phase' = [phase EXCEPT ![t] = "decide"]
    /\ UNCHANGED <<uses, registry, free, stack, callVars, committed, lost,
                   outcome>>

\* The statement raises.  Outside every block what it left is rolled back.
ExecuteFails(t) ==
    /\ phase[t] = "execute"
    /\ registry[target[t]] = NoEntry
    /\ phase' = [phase EXCEPT ![t] = "undo"]
    /\ UNCHANGED <<uses, registry, free, stack, callVars, dataVars, outcome,
                   executed>>

\* Fault: a statement that raises rolls back inside a block too.
ExecuteFailsRollsBack(t) ==
    /\ phase[t] = "execute"
    /\ registry[target[t]] # NoEntry
    /\ phase' = [phase EXCEPT ![t] = "undo"]
    /\ UNCHANGED <<uses, registry, free, stack, callVars, dataVars, outcome,
                   executed>>

ExecuteFailsInBlock(t) ==
    /\ phase[t] = "execute"
    /\ registry[target[t]] # NoEntry
    /\ CallFails(t)
    /\ UNCHANGED registry

\* rollback_quietly(), whose own error is dropped; the pool's reset follows.
UndoRun(t) ==
    /\ phase[t] = "undo"
    /\ Throw(t, stack[t] # <<>>)
    /\ Forget(t)
    /\ IF via[t] = NoPool
       THEN /\ Rollback(target[t]) \/ UNCHANGED <<pending, committed>>
            /\ UNCHANGED <<free, lost>>
       ELSE GiveBack(target[t], via[t])
    /\ UNCHANGED <<uses, registry, stack, outcome, executed>>

\* commit_unless_in_transaction() reads the registry.
LeaveToBlock(t) ==
    /\ phase[t] = "decide"
    /\ registry[target[t]] # NoEntry
    /\ phase' = [phase EXCEPT ![t] = "user"]
    /\ LeaveCall(t)
    /\ UNCHANGED <<uses, registry, stack, outcome, executed>>

\* Fault: run() commits inside a block too.
DecideAlways(t) ==
    /\ phase[t] = "decide"
    /\ phase' = [phase EXCEPT ![t] = "commit"]
    /\ UNCHANGED <<uses, registry, free, stack, callVars, dataVars, outcome,
                   executed>>

DecideToCommit(t) ==
    /\ phase[t] = "decide"
    /\ registry[target[t]] = NoEntry
    /\ phase' = [phase EXCEPT ![t] = "commit"]
    /\ UNCHANGED <<uses, registry, free, stack, callVars, dataVars, outcome,
                   executed>>

\* The commit, and the release of a connection checked out for the call.
CommitRun(t) ==
    /\ phase[t] = "commit"
    /\ target[t] \notin lost
    /\ Commit(target[t])
    /\ phase' = [phase EXCEPT ![t] = "user"]
    /\ Forget(t)
    /\ free' = [p \in Pools |-> IF p = via[t] THEN free[p] \cup {target[t]} ELSE free[p]]
    /\ UNCHANGED <<uses, registry, stack, lost, outcome, executed>>

\* The commit raises: as after a statement that raised.
CommitRunFails(t) ==
    /\ phase[t] = "commit"
    /\ registry[target[t]] = NoEntry
    /\ phase' = [phase EXCEPT ![t] = "undo"]
    /\ UNCHANGED <<uses, registry, free, stack, callVars, dataVars, outcome,
                   executed>>

CommitRunFailsInBlock(t) ==
    /\ phase[t] = "commit"
    /\ registry[target[t]] # NoEntry
    /\ CallFails(t)
    /\ UNCHANGED registry

\* The server goes away, and with it what was not committed.
Lose(c) ==
    /\ c \notin lost
    /\ lost' = lost \cup {c}
    /\ pending' = [pending EXCEPT ![c] = Idle]
    /\ UNCHANGED <<uses, registry, free, threadVars, committed, outcome,
                   executed>>

-----------------------------------------------------------------------------
Init ==
    /\ uses \in Uses
    /\ registry = [c \in Connections |-> NoEntry]
    /\ free = PoolConnections
    /\ stack = [t \in Threads |-> <<>>]
    /\ phase = [t \in Threads |-> "user"]
    /\ target = [t \in Threads |-> NoConnection]
    /\ via = [t \in Threads |-> NoPool]
    /\ asked = [t \in Threads |-> Nothing]
    /\ level = [t \in Threads |-> 0]
    /\ pending = [c \in Connections |-> Idle]
    /\ committed = {}
    /\ lost = {}
    /\ outcome = [b \in Blocks |-> "unused"]
    /\ executed = {}

Enter(t) ==
    \/ \E c \in uses[t] \cap Connections : TransactionOnConnection(t, c)
    \/ \E p \in uses[t] \cap Pools : TransactionOnPool(t, p)
    \/ ReadNoEntry(t) \/ ReadOtherThread(t) \/ ReadNoSavepoints(t) \/ ReadOwnEntry(t)
    \/ RegisterNested(t)
    \/ OpenBlock(t) \/ BeginFails(t) \/ SetSavepoint(t) \/ SavepointFails(t)
    \/ PoolTimesOut(t)

Leave(t) ==
    \/ ReleaseSavepoint(t) \/ ReleaseSavepointFails(t) \/ CommitBlock(t)
    \/ Raise(t) \/ UndoSavepoint(t) \/ UndoSavepointFails(t)
    \/ RollbackBlock(t) \/ RollbackBlockFails(t) \/ CloseBlock(t)

Run(t) ==
    \/ \E b \in uses[t] : RunOn(t, b)
    \/ RunPinned(t)
    \/ Execute(t) \/ ExecuteFails(t) \/ ExecuteFailsInBlock(t) \/ UndoRun(t)
    \/ LeaveToBlock(t) \/ DecideToCommit(t)
    \/ CommitRun(t) \/ CommitRunFails(t) \/ CommitRunFailsInBlock(t)

Next ==
    \/ \E t \in Threads : Enter(t) \/ Leave(t) \/ Run(t)
    \/ \E c \in Connections : Lose(c)

Spec == Init /\ [][Next]_vars

-----------------------------------------------------------------------------
(* Properties *)

Frames == [block : Blocks, conn : Connections, pool : Pools \cup {NoPool},
           level : 0..MaxBlocks]

TypeOK ==
    /\ uses \in Uses
    /\ registry \in [Connections ->
          {NoEntry} \cup [owner : Threads, depth : 0..MaxBlocks]]
    /\ free \in [Pools -> SUBSET Connections]
    /\ \A t \in Threads : \A i \in DOMAIN stack[t] : stack[t][i] \in Frames
    /\ phase \in [Threads -> Phases]
    /\ target \in [Threads -> Connections \cup {NoConnection}]
    /\ via \in [Threads -> Pools \cup {NoPool}]
    /\ asked \in [Threads -> Connections \cup Pools \cup {Nothing}]
    /\ level \in [Threads -> 0..MaxBlocks]
    /\ committed \subseteq executed
    /\ lost \subseteq Connections
    /\ outcome \in [Blocks -> Outcomes]

\* No two threads name one connection: what the docs ask of callers, and what
\* a pool is for.
Private ==
    \A t, u \in Threads : t # u => uses[t] \cap uses[u] \cap Connections = {}

\* A block is atomic, at every depth of nesting: no write is durable while a
\* block it ran in is open, nor after one of them raised, whether the caller
\* caught the error outside or not (transaction(): "Runs the block atomically").
\* The exceptions are those the code has: nothing takes back a block whose
\* RELEASE or ROLLBACK TO raised, and a commit to come makes it durable with
\* the block around it, and one whose ROLLBACK raised with whatever is
\* committed next on its connection.
AtomicBlocks ==
    Private => \A w \in committed : \A b \in w.within :
                   outcome[b] \in {"ok", "kept", "stranded"}

\* "Commits when the block finishes and rolls back when it raises": the same
\* without those exceptions, which the code does not keep to.  The README
\* gives the traces, and no run lists it.
RaisedBlocksLeaveNothing ==
    Private => \A w \in committed : \A b \in w.within : outcome[b] = "ok"

\* What a finished block wrote is durable: an inner block undone, a savepoint
\* of the same name used again or a pool's reset takes no other write with it,
\* nor does a closing statement that raised.
FinishedBlocksKept ==
    Private =>
        \A w \in executed :
            w.within # {} /\ (\A b \in w.within : outcome[b] \in {"ok", "kept"})
                => w \in committed

\* The registry names the thread that is inside blocks on a connection and how
\* deeply it is nested, whichever of the statements that open and close blocks
\* failed.
RegistryMatchesBlocks ==
    \A c \in Connections : Private =>
        LET inside == {t \in Threads : FramesOn(t, c) # {}}
            opening(t) == IF phase[t] = "savepoint" /\ target[t] = c THEN 1 ELSE 0
        IN IF inside = {}
           THEN registry[c] = NoEntry
           ELSE \A t \in inside :
                   registry[c] = Entry(t, Cardinality(FramesOn(t, c)) - 1 + opening(t))

\* The savepoint in force for each open nested block is its own, and it parts
\* the block's writes from those before it, so the block that raises takes back
\* these and no others, also where a stale savepoint has the same name.  A
\* savepoint outlives its block only where a statement that closes it raised
\* (savepoint_for(): "A savepoint rolled back is still set, so `undo` drops it
\* too, or every later block of the same name would stack").
SavepointsMatchBlocks ==
    \A t \in Threads, c \in Connections :
        Private /\ phase[t] # "closing" /\ c \notin lost /\ FramesOn(t, c) # {} =>
            LET set == pending[c].savepoints IN
            /\ \A f \in FramesOn(t, c) : f.level > 0 =>
                  /\ HasSavepoint(f)
                  /\ LET s == set[LatestSavepoint(pending[c], f.level)] IN
                        /\ s.block = f.block
                        /\ s.writes = {w \in pending[c].writes : f.block \notin w.within}
            /\ \A i \in DOMAIN set :
                  set[i].block \in BlocksOn(t, c) \/ outcome[set[i].block] \in Unclosed

\* The registry and the savepoints on a connection tell of the blocks that are
\* open there, whichever statement failed.
OpenBlocksAreKnown == RegistryMatchesBlocks /\ SavepointsMatchBlocks

\* A connection in its pool has no block and no thread on it, and no writes but
\* those of a run() or of a block whose ROLLBACK raised.
PoolConnectionsAtRest ==
    \A p \in Pools : \A c \in free[p] :
        /\ registry[c] = NoEntry
        /\ \A t \in Threads : FramesOn(t, c) = {} /\ target[t] # c
        /\ \A w \in pending[c].writes :
              w.within = {} \/ \E b \in w.within : outcome[b] = "stranded"

\* transaction(): "A second thread that calls transaction() on the same
\* connection gets a RuntimeError": two threads never have open blocks on one
\* connection.
SecondThreadRefused ==
    \A c \in Connections : \A t, u \in Threads :
        FramesOn(t, c) # {} /\ FramesOn(u, c) # {} => t = u

\* connection_scope(): "An explicit pool that already pinned a connection to
\* this thread is the one exception: the statement runs on the pinned
\* connection, so a query given the pool inside transaction(pool) stays in
\* that transaction."
ExplicitPoolStaysInBlock ==
    \A t \in Threads : \A i \in DOMAIN stack[t] :
        phase[t] = "execute" /\ asked[t] = stack[t][i].pool
            => \E j \in DOMAIN stack[t] :
                  stack[t][j].pool = asked[t] /\ stack[t][j].conn = target[t]

=============================================================================
