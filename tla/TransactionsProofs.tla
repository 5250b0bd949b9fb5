-------------------------- MODULE TransactionsProofs --------------------------
(***************************************************************************)
(* Proofs about Transactions, for any threads, connections and pools, any  *)
(* use of them and any number of blocks and writes: the registry of open   *)
(* blocks, the pool's connections, and, over the same invariant, that a    *)
(* block is atomic where no two threads share a connection.                *)
(***************************************************************************)
EXTENDS Transactions, FunctionTheorems, FiniteSetTheorems, SequenceTheorems,
        WellFoundedInduction, TLAPS

-----------------------------------------------------------------------------
(* Types and phases *)

Frame == [block : Blocks, conn : Connections, pool : Pools \cup {NoPool}, level : Int]
Writes == [id : Nat, within : SUBSET Blocks]
Marks == [name : Int, block : Blocks, writes : SUBSET Writes]
Sessions == [writes : SUBSET Writes, savepoints : Seq(Marks)]

InCall == {"enter", "begin", "nest", "savepoint", "execute", "undo", "decide", "commit"}

TypeInv ==
    /\ uses \in Uses
    /\ registry \in [Connections -> [owner : Threads \cup {NoEntry.owner}, depth : Int]]
    /\ free \in [Pools -> SUBSET Connections]
    /\ stack \in [Threads -> Seq(Frame)]
    /\ phase \in [Threads -> Phases]
    /\ target \in [Threads -> Connections \cup {NoConnection}]
    /\ via \in [Threads -> Pools \cup {NoPool}]
    /\ level \in [Threads -> Int]
    /\ pending \in [Connections -> Sessions]
    /\ committed \subseteq Writes /\ executed \subseteq Writes
    /\ IsFiniteSet(executed)
    /\ lost \subseteq Connections
    /\ outcome \in [Blocks -> Outcomes]

PhaseOK ==
    \A t \in Threads :
       /\ phase[t] \in InCall <=> target[t] \in Connections
       /\ phase[t] \notin InCall => via[t] = NoPool
       /\ phase[t] \in {"raising", "closing"} => stack[t] # <<>>

-----------------------------------------------------------------------------
(* What the helpers on sequences and savepoints return *)

Less == {p \in Nat \X Nat : p[1] < p[2]}

LEMMA LessIsWellFounded == IsWellFoundedOn(Less, Nat)
  BY NatLessThanWellFounded DEF Less, OpToRel

LEMMA LastOf ==
  ASSUME NEW n \in Nat, NEW S, S \subseteq 1..n, S # {}
  PROVE  \E i \in S : \A j \in S : j <= i
  <1> DEFINE T == {n - i : i \in S}
  <1>1. \A i \in S : n - i \in Nat
    OBVIOUS
  <1>2. T \subseteq Nat /\ T # {}
    BY <1>1
  <1>3. PICK m \in T : \A k \in T : <<k, m>> \notin Less
    <2> HIDE DEF T
    <2>1. QED
      BY <1>2, LessIsWellFounded, WFMin, Zenon
  <1>4. PICK i \in S : m = n - i
    OBVIOUS
  <1>5. ASSUME NEW j \in S PROVE j <= i
    <2>1. n - j \in T /\ n - j \in Nat /\ m \in Nat
      BY <1>2
    <2>2. <<n - j, m>> \notin Less
      BY <1>3, <2>1
    <2>3. ~(n - j < m)
      BY <2>1, <2>2 DEF Less
    <2> HIDE DEF T
    <2>4. QED
      BY <1>4, <2>3
  <1>6. QED
    BY <1>5

\* The savepoint in force is one of those with the name.
LEMMA LatestSavepointIn ==
  ASSUME NEW s \in Sessions, NEW depth, SavepointsNamed(s, depth) # {}
  PROVE  /\ LatestSavepoint(s, depth) \in SavepointsNamed(s, depth)
         /\ LatestSavepoint(s, depth) \in 1..Len(s.savepoints)
  <1>1. SavepointsNamed(s, depth) \subseteq 1..Len(s.savepoints) /\ Len(s.savepoints) \in Nat
    BY DEF SavepointsNamed, Sessions
  <1>2. \E i \in SavepointsNamed(s, depth) : \A j \in SavepointsNamed(s, depth) : j <= i
    BY <1>1, LastOf
  <1>3. LatestSavepoint(s, depth) \in SavepointsNamed(s, depth)
    BY <1>2, Zenon DEF LatestSavepoint
  <1>4. QED
    BY <1>1, <1>3

LEMMA SavepointTypes ==
  ASSUME NEW s \in Sessions, NEW depth, SavepointsNamed(s, depth) # {}
  PROVE  /\ Released(s, depth) \in Sessions /\ Undone(s, depth) \in Sessions
         /\ BackTo(s, depth) \in Sessions
  <1> DEFINE k == LatestSavepoint(s, depth)
  <1>1. k \in 1..Len(s.savepoints) /\ s.savepoints \in Seq(Marks) /\ s.writes \in SUBSET Writes
    BY LatestSavepointIn DEF Sessions
  <1> HIDE DEF k
  <1>2. SubSeq(s.savepoints, 1, k - 1) \in Seq(Marks) /\ SubSeq(s.savepoints, 1, k) \in Seq(Marks)
    BY <1>1, SubSeqProperties
  <1>3. s.savepoints[k].writes \in SUBSET Writes
    <2>1. s.savepoints[k] \in Marks
      BY <1>1, ElementOfSeq
    <2>2. QED
      BY <2>1 DEF Marks
  <1>4. QED
    <2>1. [writes |-> s.writes, savepoints |-> SubSeq(s.savepoints, 1, k - 1)] \in Sessions
      BY <1>1, <1>2 DEF Sessions
    <2>2. /\ [writes |-> s.savepoints[k].writes,
              savepoints |-> SubSeq(s.savepoints, 1, k - 1)] \in Sessions
          /\ [writes |-> s.savepoints[k].writes,
              savepoints |-> SubSeq(s.savepoints, 1, k)] \in Sessions
      BY <1>2, <1>3 DEF Sessions
    <2>3. /\ Released(s, depth) = [writes |-> s.writes,
                                  savepoints |-> SubSeq(s.savepoints, 1, k - 1)]
          /\ Undone(s, depth) = [writes |-> s.savepoints[k].writes,
                                savepoints |-> SubSeq(s.savepoints, 1, k - 1)]
          /\ BackTo(s, depth) = [writes |-> s.savepoints[k].writes,
                                savepoints |-> SubSeq(s.savepoints, 1, k)]
      BY DEF Released, Undone, BackTo, Before, k
    <2>4. QED
      BY <2>1, <2>2, <2>3

LEMMA InitType == Init => TypeInv /\ PhaseOK
  <1> SUFFICES ASSUME Init PROVE TypeInv /\ PhaseOK
    OBVIOUS
  <1>1. uses \in Uses /\ free \in [Pools -> SUBSET Connections]
    BY PoolsAssumption DEF Init
  <1>2. /\ registry \in [Connections -> [owner : Threads \cup {NoEntry.owner}, depth : Int]]
        /\ stack \in [Threads -> Seq(Frame)]
        /\ phase \in [Threads -> Phases]
        /\ target \in [Threads -> Connections \cup {NoConnection}]
        /\ via \in [Threads -> Pools \cup {NoPool}]
        /\ level \in [Threads -> Int]
    BY DEF Init, NoEntry, Entry, Phases
  <1>3. pending \in [Connections -> Sessions]
    BY DEF Init, Idle, Sessions
  <1>4. /\ committed \subseteq Writes /\ executed \subseteq Writes
        /\ IsFiniteSet(executed) /\ lost \subseteq Connections
    BY FS_EmptySet DEF Init
  <1>5. outcome \in [Blocks -> Outcomes]
    BY DEF Init, Outcomes
  <1>6. PhaseOK
    BY NamesAssumption DEF Init, PhaseOK, InCall
  <1>7. QED
    BY <1>1, <1>2, <1>3, <1>4, <1>5, <1>6 DEF TypeInv

(***************************************************************************)
(* What the actions have in common: a call that starts on a connection,    *)
(* and one that is over with no block opened.                              *)
(***************************************************************************)

Start(t) ==
    \E c \in Connections, p \in Pools \cup {NoPool}, next \in {"enter", "execute"} :
       /\ phase[t] = "user"
       /\ phase' = [phase EXCEPT ![t] = next]
       /\ target' = [target EXCEPT ![t] = c]
       /\ via' = [via EXCEPT ![t] = p]
       /\ level' = [level EXCEPT ![t] = 0]
       /\ IF p = NoPool
          THEN /\ free' = free
               /\ \/ c \in uses[t]
                  \/ \E f \in ToSet(stack[t]) : f.conn = c /\ f.pool # NoPool
          ELSE c \in free[p] /\ free' = [free EXCEPT ![p] = @ \ {c}]
       /\ UNCHANGED <<uses, registry, stack, dataVars, outcome, executed>>

CallEnd(t) ==
    /\ phase[t] \in InCall
    /\ \E next \in {"user", "raising"} :
          /\ phase' = [phase EXCEPT ![t] = next]
          /\ next = "raising" => stack[t] # <<>>
    /\ Forget(t)
    /\ IF via[t] = NoPool
       THEN UNCHANGED <<free, lost>>
       ELSE /\ free' = [free EXCEPT ![via[t]] = @ \cup {target[t]}]
            /\ lost' \in {lost, lost \ {target[t]}}
    /\ \/ pending' = pending
       \/ /\ pending' = [pending EXCEPT ![target[t]] = Idle]
          /\ via[t] # NoPool \/ phase[t] \in {"undo", "commit"}
    /\ \/ committed' = committed
       \/ /\ committed' = committed \cup pending[target[t]].writes
          /\ pending' = [pending EXCEPT ![target[t]] = Idle]
          /\ phase[t] = "commit"
    /\ IF phase[t] = "savepoint"
       THEN registry' = [registry EXCEPT ![target[t]] = Entry(t, level[t] - 1)]
       ELSE registry' = registry
    /\ UNCHANGED <<uses, stack, outcome, executed>>

LEMMA PinnedIn ==
  ASSUME NEW t, NEW f \in Pinned(t)
  PROVE  f \in ToSet(stack[t]) /\ f.pool # NoPool
  BY DEF Pinned, ToSet

LEMMA FrameTypes ==
  ASSUME TypeInv, NEW t \in Threads, NEW f \in ToSet(stack[t])
  PROVE  f \in Frame
  <1>1. stack[t] \in Seq(Frame)
    BY DEF TypeInv
  <1>2. PICK i \in 1..Len(stack[t]) : f = stack[t][i]
    BY <1>1 DEF ToSet
  <1>3. QED
    BY <1>1, <1>2, ElementOfSeq

LEMMA StartSteps ==
  ASSUME TypeInv, NEW t \in Threads,
         \/ \E c \in uses[t] \cap Connections : TransactionOnConnection(t, c)
         \/ \E p \in uses[t] \cap Pools : TransactionOnPool(t, p)
         \/ \E b \in uses[t] : RunOn(t, b)
         \/ RunPinned(t)
  PROVE  Start(t)
  <1>1. uses[t] \subseteq Connections \cup Pools
    BY UsesAssumption DEF TypeInv
  <1>2. ASSUME NEW b, NEW c \in uses[t] \cap Connections, NEW next \in {"enter", "execute"},
               phase[t] = "user", Begin(t, b, next, c, NoPool), UNCHANGED free
        PROVE  Start(t)
    BY <1>2 DEF Begin, Start
  <1>3. ASSUME NEW b, NEW f \in Pinned(t), NEW next \in {"enter", "execute"},
               phase[t] = "user", Begin(t, b, next, f.conn, NoPool), UNCHANGED free
        PROVE  Start(t)
    <2>1. f \in ToSet(stack[t]) /\ f.pool # NoPool
      BY PinnedIn
    <2>2. f.conn \in Connections
      BY <2>1, FrameTypes DEF Frame
    <2>3. QED
      BY <1>3, <2>1, <2>2 DEF Begin, Start
  <1>4. ASSUME NEW b, NEW p \in Pools, NEW next \in {"enter", "execute"},
               phase[t] = "user", CheckOut(t, b, next, p)
        PROVE  Start(t)
    <2>1. PICK c \in free[p] : /\ free' = [free EXCEPT ![p] = @ \ {c}]
                               /\ Begin(t, b, next, c, p)
      BY <1>4 DEF CheckOut
    <2>2. c \in Connections /\ p # NoPool
      BY NamesAssumption DEF TypeInv
    <2>3. QED
      BY <1>4, <2>1, <2>2 DEF Begin, Start
  <1>5. ASSUME NEW c \in uses[t] \cap Connections, TransactionOnConnection(t, c)
        PROVE  Start(t)
    BY <1>2, <1>5 DEF TransactionOnConnection
  <1>6. ASSUME NEW p \in uses[t] \cap Pools, TransactionOnPool(t, p)
        PROVE  Start(t)
    BY <1>3, <1>4, <1>6 DEF TransactionOnPool, PinnedTo
  <1>7. ASSUME NEW b \in uses[t], RunOn(t, b)
        PROVE  Start(t)
    <2>1. CASE b \in Connections
      BY <1>2, <1>7, <2>1 DEF RunOn
    <2>2. CASE b \in Pools /\ b \notin Connections
      BY <1>3, <1>4, <1>7, <2>2 DEF RunOn, PinnedTo
    <2>3. QED
      BY <1>1, <2>1, <2>2
  <1>8. CASE RunPinned(t)
    BY <1>3, <1>8 DEF RunPinned
  <1>9. QED
    BY <1>5, <1>6, <1>7, <1>8

LEMMA CallEndSteps ==
  ASSUME TypeInv, PhaseOK, NEW t \in Threads,
         \/ ReadOtherThread(t) \/ ReadNoSavepoints(t) \/ BeginFails(t)
         \/ SavepointFails(t) \/ ExecuteFailsInBlock(t) \/ UndoRun(t)
         \/ LeaveToBlock(t) \/ CommitRun(t) \/ CommitRunFailsInBlock(t)
  PROVE  CallEnd(t)
  <1>1. ASSUME CallFails(t), phase[t] \in InCall,
               IF phase[t] = "savepoint"
               THEN registry' = [registry EXCEPT ![target[t]] = Entry(t, level[t] - 1)]
               ELSE registry' = registry
        PROVE  CallEnd(t)
    BY <1>1 DEF CallFails, LeaveCall, GiveBack, Rollback, Throw, dataVars, CallEnd
  <1>2. CASE \/ ReadOtherThread(t) \/ ReadNoSavepoints(t) \/ BeginFails(t)
             \/ SavepointFails(t) \/ ExecuteFailsInBlock(t) \/ CommitRunFailsInBlock(t)
    BY <1>1, <1>2 DEF ReadOtherThread, ReadNoSavepoints, BeginFails, SavepointFails,
       ExecuteFailsInBlock, CommitRunFailsInBlock, InCall
  <1>3. CASE UndoRun(t)
    BY <1>3 DEF UndoRun, GiveBack, Rollback, Throw, CallEnd, InCall
  <1>4. CASE LeaveToBlock(t)
    BY <1>4 DEF LeaveToBlock, LeaveCall, GiveBack, Rollback, dataVars, CallEnd, InCall
  <1>5. CASE CommitRun(t)
    <2>1. free' = IF via[t] = NoPool THEN free
                  ELSE [free EXCEPT ![via[t]] = @ \cup {target[t]}]
      <3>1. free = [p \in Pools |-> free[p]]
        BY DEF TypeInv
      <3>2. free' = [p \in Pools |-> IF p = via[t] THEN free[p] \cup {target[t]} ELSE free[p]]
        BY <1>5 DEF CommitRun
      <3>3. QED
        BY <3>1, <3>2, NamesAssumption
    <2>2. /\ phase[t] \in InCall
          /\ phase' = [phase EXCEPT ![t] = "user"]
          /\ Forget(t)
          /\ pending' = [pending EXCEPT ![target[t]] = Idle]
          /\ committed' = committed \cup pending[target[t]].writes
          /\ phase[t] = "commit"
          /\ UNCHANGED <<uses, registry, stack, lost, outcome, executed>>
      BY <1>5 DEF CommitRun, Commit, InCall
    <2>3. /\ UNCHANGED lost /\ registry' = registry
          /\ UNCHANGED <<uses, stack, outcome, executed>>
          /\ phase[t] # "savepoint"
      BY <2>2
    <2>4. via[t] \in Pools \cup {NoPool}
      BY DEF TypeInv
    <2>5. IF via[t] = NoPool
          THEN UNCHANGED <<free, lost>>
          ELSE /\ free' = [free EXCEPT ![via[t]] = @ \cup {target[t]}]
               /\ lost' \in {lost, lost \ {target[t]}}
      BY <2>1, <2>2, <2>3
    <2>6. QED
      BY <2>2, <2>3, <2>5 DEF CallEnd
  <1>6. QED
    BY <1>2, <1>3, <1>4, <1>5

(***************************************************************************)
(* A step that moves a thread on and changes only where it is, and the     *)
(* steps that push a block, take one off and end one.                      *)
(***************************************************************************)

Move(t) ==
    /\ \E next \in Phases :
          /\ phase' = [phase EXCEPT ![t] = next]
          /\ \/ /\ phase[t] = "enter" /\ next = "begin" /\ registry[target[t]] = NoEntry
                /\ level' = level
             \/ /\ phase[t] = "enter" /\ next = "nest" /\ registry[target[t]].owner = t
                /\ level' = [level EXCEPT ![t] = registry[target[t]].depth + 1]
             \/ /\ phase[t] \in {"execute", "commit"} /\ next = "undo"
                /\ registry[target[t]] = NoEntry /\ level' = level
             \/ /\ phase[t] = "decide" /\ next = "commit" /\ registry[target[t]] = NoEntry
                /\ level' = level
             \/ /\ phase[t] = "user" /\ next = "raising" /\ stack[t] # <<>>
                /\ level' = level
    /\ UNCHANGED <<uses, registry, free, stack, target, via, dataVars, outcome, executed>>

Opens(t) == OpenBlock(t) \/ SetSavepoint(t)
Pops(t) == \/ ReleaseSavepoint(t) \/ ReleaseSavepointFails(t)
           \/ UndoSavepoint(t) \/ UndoSavepointFails(t) \/ CloseBlock(t)
Ends(t) == CommitBlock(t) \/ RollbackBlock(t) \/ RollbackBlockFails(t)

LEMMA MoveSteps ==
  ASSUME TypeInv, NEW t \in Threads,
         \/ ReadNoEntry(t) \/ ReadOwnEntry(t) \/ ExecuteFails(t) \/ DecideToCommit(t)
         \/ CommitRunFails(t) \/ Raise(t) \/ PoolTimesOut(t)
  PROVE  Move(t)
  <1>1. CASE ReadNoEntry(t)
    BY <1>1 DEF ReadNoEntry, Move, Phases, callVars, dataVars
  <1>2. CASE ReadOwnEntry(t)
    BY <1>2 DEF ReadOwnEntry, Move, Phases, callVars, dataVars
  <1>3. CASE ExecuteFails(t) \/ CommitRunFails(t)
    BY <1>3 DEF ExecuteFails, CommitRunFails, Move, Phases, callVars, dataVars
  <1>4. CASE DecideToCommit(t)
    BY <1>4 DEF DecideToCommit, Move, Phases, callVars, dataVars
  <1>5. CASE Raise(t) \/ PoolTimesOut(t)
    BY <1>5 DEF Raise, PoolTimesOut, Move, Phases, callVars, dataVars
  <1>6. QED
    BY <1>1, <1>2, <1>3, <1>4, <1>5

\* Every step is of one of these kinds, or loses a connection.
LEMMA Kinds ==
  ASSUME TypeInv, PhaseOK, Next
  PROVE  \/ \E t \in Threads : \/ Start(t) \/ Move(t) \/ CallEnd(t) \/ RegisterNested(t)
                               \/ Opens(t) \/ Pops(t) \/ Ends(t) \/ Execute(t)
         \/ \E c \in Connections : Lose(c)
  <1>1. ASSUME NEW t \in Threads, Enter(t) \/ Leave(t) \/ Run(t)
        PROVE  \/ Start(t) \/ Move(t) \/ CallEnd(t) \/ RegisterNested(t)
               \/ Opens(t) \/ Pops(t) \/ Ends(t) \/ Execute(t)
    <2>1. CASE Enter(t)
      BY <2>1, StartSteps, MoveSteps, CallEndSteps, Zenon DEF Enter, Opens
    <2>2. CASE Leave(t)
      BY <2>2, MoveSteps, Zenon DEF Leave, Pops, Ends
    <2>3. CASE Run(t)
      BY <2>3, StartSteps, MoveSteps, CallEndSteps, Zenon DEF Run
    <2>4. QED
      BY <1>1, <2>1, <2>2, <2>3
  <1>2. QED
    BY <1>1 DEF Next

-----------------------------------------------------------------------------
(* The inductive invariant *)

Pooled(c) == \E p \in Pools : c \in PoolConnections[p]

\* At most one thread's code names the connection: so it is for those of a
\* pool, and for all of them when Private holds.
Sole(c) == \A t, u \in Threads : c \in uses[t] /\ c \in uses[u] => t = u

OnIt(t, c) == FramesOn(t, c) # {} \/ target[t] = c

\* The depth of the thread's innermost block on a connection, as the registry
\* has it when no savepoint is under way.
Opening(t, c) == IF phase[t] = "savepoint" /\ target[t] = c THEN 1 ELSE 0
Depth(t, c) == registry[c].depth - Opening(t, c)

\* How a top-level block may have ended.
Ended == {"ok", "failed", "stranded"}

\* An open block is on one stack, once, and it is open until its thread has
\* committed it or rolled it back.
BlocksInv ==
    /\ \A t, u \in Threads : \A i \in DOMAIN stack[t], j \in DOMAIN stack[u] :
          stack[t][i].block = stack[u][j].block => t = u /\ i = j
    /\ \A t \in Threads : \A i \in DOMAIN stack[t] :
          IF phase[t] = "closing" /\ i = Len(stack[t])
          THEN outcome[stack[t][i].block] \in Ended /\ stack[t][i].level = 0
          ELSE outcome[stack[t][i].block] = "open"

\* A nested block is inside another one of its thread on its connection.
NestingInv ==
    /\ \A t \in Threads, c \in Connections :
          registry[c].owner = t => FramesOn(t, c) # {}
    /\ \A t \in Threads : phase[t] \in {"nest", "savepoint"} => FramesOn(t, target[t]) # {}
    /\ \A t \in Threads : \A i \in DOMAIN stack[t] :
          stack[t][i].level > 0 => \E j \in 1..(i-1) : stack[t][j].conn = stack[t][i].conn
    /\ \A t \in Threads : \A i, j \in DOMAIN stack[t] :
          /\ i < j /\ stack[t][i].conn = stack[t][j].conn
          /\ Sole(stack[t][i].conn)
          => stack[t][i].level < stack[t][j].level

\* A block on a connection of a pool took it out of the pool; a nested one is
\* on the connection of the block around it.
FramesCustody ==
    \A t \in Threads : \A f \in ToSet(stack[t]) :
       /\ f.pool # NoPool => f.conn \in PoolConnections[f.pool]
       /\ Pooled(f.conn) => (f.pool # NoPool <=> f.level = 0)
       /\ ~Pooled(f.conn) => f.conn \in uses[t]

\* A call is on a connection it checked out, on that of an open block of its
\* thread, or on one the thread's code names.
CallsCustody ==
    \A t \in Threads :
       /\ via[t] # NoPool => /\ target[t] \in PoolConnections[via[t]]
                             /\ FramesOn(t, target[t]) = {}
       /\ via[t] = NoPool /\ Pooled(target[t]) => FramesOn(t, target[t]) # {}
       /\ target[t] \in Connections /\ ~Pooled(target[t]) => target[t] \in uses[t]

FreeCustody ==
    \A p \in Pools : \A c \in free[p] :
       /\ c \in PoolConnections[p]
       /\ \A t \in Threads : ~OnIt(t, c)

OneEach ==
    \A c \in Connections : \A t, u \in Threads :
       Pooled(c) /\ OnIt(t, c) /\ OnIt(u, c) => t = u

\* Who may be on a connection: one thread on one that a pool opened.
CustodyInv == FramesCustody /\ CallsCustody /\ FreeCustody /\ OneEach

\* What the registry and the session of a connection hold for the thread that
\* is on it.
Session(t, c) ==
    /\ FramesOn(t, c) # {} =>
          /\ registry[c].owner = t
          /\ Depth(t, c) \in Nat
          /\ {f.level : f \in FramesOn(t, c)} = 0..Depth(t, c)
    /\ target[t] = c =>
          /\ phase[t] \in {"begin", "undo", "commit"} => FramesOn(t, c) = {}
          /\ phase[t] \in {"nest", "savepoint"} => level[t] = Depth(t, c) + 1

Vacant(c) == \A t \in Threads : FramesOn(t, c) = {}

SessionInv ==
    \A c \in Connections : Sole(c) =>
        /\ \A t \in Threads : Session(t, c)
        /\ Vacant(c) => registry[c] = NoEntry

NestedOn(b, c) == \E t \in Threads : \E f \in FramesOn(t, c) : f.level > 0 /\ f.block = b
OuterOn(b, c) ==
    outcome[b] = "open" /\ \E t \in Threads : \E f \in FramesOn(t, c) : f.level = 0 /\ f.block = b
OpenOn(b, c) == outcome[b] = "open" /\ \E t \in Threads : b \in BlocksOn(t, c)

\* A savepoint remembers some of the writes there are now, and what those
\* before it do; it is that of one block, open or left without its end.
SavepointsOf(c) ==
    LET s == pending[c].savepoints IN
    \A i \in DOMAIN s :
       /\ s[i].writes \subseteq pending[c].writes
       /\ \A j \in DOMAIN s :
             /\ s[i].block = s[j].block => i = j
             /\ j < i => s[j].writes \subseteq s[i].writes
       /\ outcome[s[i].block] \in Unclosed \/ NestedOn(s[i].block, c)

\* Position i holds the savepoint of block f: the last one of its name, with
\* only deeper ones after it, and all writes before it but those of the block.
SetFor(f, c, i) ==
    LET s == pending[c].savepoints IN
    /\ i \in DOMAIN s /\ s[i].name = f.level /\ s[i].block = f.block
    /\ \A j \in DOMAIN s : i < j => f.level < s[j].name
    /\ s[i].writes = {w \in pending[c].writes : f.block \notin w.within}

\* The blocks a write of a transaction under way was run in.
Whole == {"ok", "kept", "stranded"}
WritesOf(c) ==
    \A w \in pending[c].writes :
       /\ \A b \in w.within : outcome[b] \in Whole \/ OpenOn(b, c)
       /\ \/ w.within = {}
          \/ \E b \in w.within : outcome[b] = "stranded" \/ OuterOn(b, c)

Held(c) ==
    /\ SavepointsOf(c) /\ WritesOf(c)
    /\ c \notin lost => \A t \in Threads : \A f \in FramesOn(t, c) :
          f.level > 0 => \E i \in DOMAIN pending[c].savepoints : SetFor(f, c, i)

\* What the transaction of a connection holds.
HeldInv ==
    /\ \A c \in lost : pending[c] = Idle
    /\ \A c \in Connections : Sole(c) => Held(c)

-----------------------------------------------------------------------------
(* Types *)

LEMMA StartType ==
  ASSUME TypeInv, NEW t \in Threads, Start(t)
  PROVE  TypeInv'
  <1>1. /\ phase' \in [Threads -> Phases]
        /\ target' \in [Threads -> Connections \cup {NoConnection}]
        /\ via' \in [Threads -> Pools \cup {NoPool}]
        /\ level' \in [Threads -> Int]
    BY DEF Start, TypeInv, Phases
  <1>2. free' \in [Pools -> SUBSET Connections]
    <2>1. free \in [Pools -> SUBSET Connections]
      BY DEF TypeInv
    <2>2. \/ free' = free
          \/ \E p, c : free' = [free EXCEPT ![p] = @ \ {c}]
      BY DEF Start
    <2>3. QED
      BY <2>1, <2>2
  <1>3. UNCHANGED <<uses, registry, stack, dataVars, outcome, executed>>
    BY DEF Start
  <1>4. QED
    BY <1>1, <1>2, <1>3 DEF TypeInv, dataVars

LEMMA MoveType ==
  ASSUME TypeInv, PhaseOK, NEW t \in Threads, Move(t)
  PROVE  TypeInv'
  <1>1. phase' \in [Threads -> Phases]
    BY DEF Move, TypeInv
  <1>2. level' \in [Threads -> Int]
    <2>1. CASE phase[t] = "enter"
      <3>1. registry[target[t]].depth \in Int
        BY <2>1 DEF TypeInv, PhaseOK, InCall
      <3>2. QED
        BY <2>1, <3>1 DEF Move, TypeInv
    <2>2. CASE phase[t] # "enter"
      BY <2>2 DEF Move, TypeInv
    <2>3. QED
      BY <2>1, <2>2
  <1>3. UNCHANGED <<uses, registry, free, stack, target, via, dataVars, outcome, executed>>
    BY DEF Move
  <1>4. QED
    BY <1>1, <1>2, <1>3 DEF TypeInv, dataVars

LEMMA CallEndType ==
  ASSUME TypeInv, PhaseOK, NEW t \in Threads, CallEnd(t)
  PROVE  TypeInv'
  <1>0. /\ target[t] \in Connections /\ via[t] \in Pools \cup {NoPool}
        /\ level[t] - 1 \in Int
    BY DEF CallEnd, PhaseOK, TypeInv
  <1>1. phase' \in [Threads -> Phases]
    BY DEF CallEnd, TypeInv, Phases
  <1>2. /\ target' \in [Threads -> Connections \cup {NoConnection}]
        /\ via' \in [Threads -> Pools \cup {NoPool}]
        /\ level' \in [Threads -> Int]
    BY DEF CallEnd, Forget, TypeInv
  <1>3. free' \in [Pools -> SUBSET Connections] /\ lost' \subseteq Connections
    <2>1. /\ free' \in {free, [free EXCEPT ![via[t]] = @ \cup {target[t]}]}
          /\ via[t] = NoPool => free' = free
          /\ lost' \in {lost, lost \ {target[t]}}
      BY DEF CallEnd
    <2>2. free \in [Pools -> SUBSET Connections] /\ lost \subseteq Connections
      BY DEF TypeInv
    <2>3. free' \in [Pools -> SUBSET Connections]
      <3>1. CASE free' = free
        BY <2>2, <3>1
      <3>2. CASE /\ free' = [free EXCEPT ![via[t]] = @ \cup {target[t]}]
                 /\ via[t] \in Pools
        <4>1. free[via[t]] \cup {target[t]} \in SUBSET Connections
          BY <1>0, <2>2, <3>2
        <4>2. QED
          BY <2>2, <3>2, <4>1
      <3>3. QED
        BY <1>0, <2>1, <3>1, <3>2
    <2>4. QED
      BY <2>1, <2>2, <2>3
  <1>4. pending' \in [Connections -> Sessions]
    <2>1. Idle \in Sessions
      BY DEF Idle, Sessions
    <2>2. QED
      BY <2>1 DEF CallEnd, TypeInv
  <1>5. committed' \subseteq Writes
    <2>1. pending[target[t]] \in Sessions
      BY <1>0 DEF TypeInv
    <2>2. pending[target[t]].writes \subseteq Writes
      BY <2>1 DEF Sessions
    <2>3. QED
      BY <2>2 DEF CallEnd, TypeInv
  <1>6. registry' \in [Connections -> [owner : Threads \cup {NoEntry.owner}, depth : Int]]
    <2>1. registry \in [Connections -> [owner : Threads \cup {NoEntry.owner}, depth : Int]]
      BY DEF TypeInv
    <2>2. Entry(t, level[t] - 1) \in [owner : Threads \cup {NoEntry.owner}, depth : Int]
      BY <1>0 DEF Entry
    <2>3. registry' \in {registry, [registry EXCEPT ![target[t]] = Entry(t, level[t] - 1)]}
      BY DEF CallEnd
    <2>4. QED
      BY <2>1, <2>2, <2>3
  <1>7. UNCHANGED <<uses, stack, outcome, executed>>
    BY DEF CallEnd
  <1>8. QED
    BY <1>1, <1>2, <1>3, <1>4, <1>5, <1>6, <1>7 DEF TypeInv

LEMMA RegisterNestedType ==
  ASSUME TypeInv, NEW t \in Threads, RegisterNested(t)
  PROVE  TypeInv'
  <1>1. phase' \in [Threads -> Phases]
    BY DEF RegisterNested, TypeInv, Phases
  <1>2. registry' \in [Connections -> [owner : Threads \cup {NoEntry.owner}, depth : Int]]
    BY DEF RegisterNested, TypeInv, Entry
  <1>3. UNCHANGED <<uses, free, stack, callVars, dataVars, outcome, executed>>
    BY DEF RegisterNested
  <1>4. QED
    BY <1>1, <1>2, <1>3 DEF TypeInv, callVars, dataVars

\* The frame a block that opens puts on the stack of its thread.
NewFrame(t, b) ==
    [block |-> b, conn |-> target[t], pool |-> via[t],
     level |-> IF phase[t] = "begin" THEN 0 ELSE level[t]]

\* The savepoint that a nested one sets.
Mark(t, b) == Savepoint(level[t], b, pending[target[t]].writes)

LEMMA OpensFrame ==
  ASSUME TypeInv, PhaseOK, NEW t \in Threads, Opens(t)
  PROVE  /\ phase[t] \in {"begin", "savepoint"}
         /\ target[t] \in Connections
         /\ \E b \in Fresh :
               /\ b \in Blocks /\ NewFrame(t, b) \in Frame
               /\ stack' = [stack EXCEPT ![t] = Append(@, NewFrame(t, b))]
               /\ outcome' = [outcome EXCEPT ![b] = "open"]
               /\ pending' = IF phase[t] = "begin" THEN pending
                             ELSE [pending EXCEPT ![target[t]].savepoints = Append(@, Mark(t, b))]
         /\ phase' = [phase EXCEPT ![t] = "user"]
         /\ Forget(t)
         /\ UNCHANGED <<uses, free, committed, lost, executed>>
         /\ IF phase[t] = "begin"
            THEN registry' = [registry EXCEPT ![target[t]] = Entry(t, 0)]
            ELSE registry' = registry /\ target[t] \notin lost
  <1>1. phase[t] \in {"begin", "savepoint"}
    BY DEF Opens, OpenBlock, SetSavepoint
  <1>2. target[t] \in Connections
    BY <1>1 DEF PhaseOK, InCall
  <1>3. PICK b \in Fresh :
           /\ Push(t, b, IF phase[t] = "begin" THEN 0 ELSE level[t])
           /\ pending' = IF phase[t] = "begin" THEN pending
                         ELSE [pending EXCEPT ![target[t]].savepoints = Append(@, Mark(t, b))]
    BY DEF Opens, OpenBlock, SetSavepoint, Mark, dataVars
  <1>4. /\ b \in Blocks /\ NewFrame(t, b) \in Frame
        /\ stack' = [stack EXCEPT ![t] = Append(@, NewFrame(t, b))]
        /\ outcome' = [outcome EXCEPT ![b] = "open"]
    <2>1. /\ stack' = [stack EXCEPT ![t] = Append(@, NewFrame(t, b))]
          /\ outcome' = [outcome EXCEPT ![b] = "open"]
      BY <1>3 DEF Push, NewFrame
    <2>2. b \in Blocks
      BY DEF Fresh
    <2>3. via[t] \in Pools \cup {NoPool} /\ level[t] \in Int
      BY DEF TypeInv
    <2>4. NewFrame(t, b) \in Frame
      BY <1>2, <2>2, <2>3 DEF NewFrame, Frame
    <2>5. QED
      BY <2>1, <2>2, <2>4
  <1>5. QED
    BY <1>1, <1>2, <1>3, <1>4 DEF Opens, OpenBlock, SetSavepoint, dataVars

LEMMA OpensType ==
  ASSUME TypeInv, PhaseOK, NEW t \in Threads, Opens(t)
  PROVE  TypeInv'
  <1>1. /\ phase' \in [Threads -> Phases]
        /\ target' \in [Threads -> Connections \cup {NoConnection}]
        /\ via' \in [Threads -> Pools \cup {NoPool}]
        /\ level' \in [Threads -> Int]
    <2>1. phase' = [phase EXCEPT ![t] = "user"] /\ Forget(t)
      BY OpensFrame
    <2>2. QED
      BY <2>1 DEF Forget, TypeInv, Phases
  <1>2. stack' \in [Threads -> Seq(Frame)]
    <2>1. PICK f \in Frame : stack' = [stack EXCEPT ![t] = Append(@, f)]
      BY OpensFrame
    <2>2. stack[t] \in Seq(Frame) /\ stack \in [Threads -> Seq(Frame)]
      BY DEF TypeInv
    <2>3. Append(stack[t], f) \in Seq(Frame)
      BY <2>2, AppendProperties
    <2>4. QED
      BY <2>1, <2>2, <2>3
  <1>3. outcome' \in [Blocks -> Outcomes]
    <2>1. PICK b \in Blocks : outcome' = [outcome EXCEPT ![b] = "open"]
      BY OpensFrame
    <2>2. QED
      BY <2>1 DEF TypeInv, Outcomes
  <1>4. registry' \in [Connections -> [owner : Threads \cup {NoEntry.owner}, depth : Int]]
    <2>1. registry' \in {registry, [registry EXCEPT ![target[t]] = Entry(t, 0)]}
      BY OpensFrame
    <2>2. Entry(t, 0) \in [owner : Threads \cup {NoEntry.owner}, depth : Int]
      BY DEF Entry
    <2>3. registry \in [Connections -> [owner : Threads \cup {NoEntry.owner}, depth : Int]]
      BY DEF TypeInv
    <2>4. QED
      BY <2>1, <2>2, <2>3
  <1>5. pending' \in [Connections -> Sessions]
    <2>1. pending[target[t]] \in Sessions /\ level[t] \in Int
      BY OpensFrame DEF TypeInv
    <2>2. PICK b \in Blocks :
             pending' = IF phase[t] = "begin" THEN pending
                        ELSE [pending EXCEPT ![target[t]].savepoints = Append(@, Mark(t, b))]
      BY OpensFrame
    <2>3. Mark(t, b) \in Marks
      BY <2>1 DEF Mark, Savepoint, Marks, Sessions
    <2>4. Append(pending[target[t]].savepoints, Mark(t, b)) \in Seq(Marks)
      BY <2>1, <2>3, AppendProperties DEF Sessions
    <2>5. [pending[target[t]] EXCEPT !.savepoints = Append(@, Mark(t, b))] \in Sessions
      BY <2>1, <2>4 DEF Sessions
    <2>6. pending \in [Connections -> Sessions]
      BY DEF TypeInv
    <2>7. QED
      BY <2>2, <2>5, <2>6
  <1>6. QED
    BY <1>1, <1>2, <1>3, <1>4, <1>5, OpensFrame DEF TypeInv

LEMMA TopTypes ==
  ASSUME TypeInv, NEW t \in Threads, stack[t] # <<>>
  PROVE  /\ Len(stack[t]) \in Nat \ {0}
         /\ Top(t) \in Frame /\ Pop(t) \in Seq(Frame)
         /\ Top(t) \in ToSet(stack[t])
  <1>1. stack[t] \in Seq(Frame)
    BY DEF TypeInv
  <1>2. Len(stack[t]) \in Nat \ {0}
    BY <1>1, EmptySeq
  <1>3. Top(t) \in Frame
    BY <1>1, <1>2, ElementOfSeq DEF Top
  <1>4. Pop(t) \in Seq(Frame)
    BY <1>1, <1>2, SubSeqProperties DEF Pop
  <1>5. Top(t) \in ToSet(stack[t])
    BY <1>1, <1>2 DEF Top, ToSet
  <1>6. QED
    BY <1>2, <1>3, <1>4, <1>5

\* What the ways a block leaves the stack have in common.
LEMMA PopsFrame ==
  ASSUME TypeInv, PhaseOK, NEW t \in Threads, Pops(t)
  PROVE  LET f == Top(t) IN
         /\ stack[t] # <<>> /\ f \in Frame
         /\ stack' = [stack EXCEPT ![t] = Pop(t)]
         /\ \E next \in {"user", "raising"} :
               /\ phase' = [phase EXCEPT ![t] = next]
               /\ next = "raising" => f.level > 0 \/ Len(stack[t]) > 1
         /\ UNCHANGED <<uses, callVars, executed>>
         /\ \/ /\ phase[t] \in {"user", "raising"} /\ f.level > 0
               /\ registry' = [registry EXCEPT ![f.conn] = Entry(t, f.level - 1)]
               /\ \E end \in {"ok", "failed", "left", "kept"} :
                     /\ outcome' = [outcome EXCEPT ![f.block] = end]
                     /\ \/ /\ end = "ok" /\ HasSavepoint(f)
                           /\ pending' = [pending EXCEPT ![f.conn] = Released(@, f.level)]
                        \/ /\ end = "failed" /\ HasSavepoint(f)
                           /\ pending' = [pending EXCEPT ![f.conn] = Undone(@, f.level)]
                        \/ /\ end = "left" /\ HasSavepoint(f)
                           /\ pending' = [pending EXCEPT ![f.conn] = BackTo(@, f.level)]
                        \/ end = "kept" /\ pending' = pending
               /\ UNCHANGED <<free, committed, lost>>
            \/ /\ phase[t] = "closing"
               /\ registry' = [registry EXCEPT ![f.conn] = NoEntry]
               /\ IF f.pool = NoPool
                  THEN UNCHANGED <<free, dataVars>>
                  ELSE GiveBack(f.conn, f.pool)
               /\ outcome' = outcome
  <1>1. stack[t] # <<>>
    BY DEF Pops, ReleaseSavepoint, ReleaseSavepointFails, UndoSavepoint, UndoSavepointFails,
       CloseBlock, PhaseOK
  <1>2. Top(t) \in Frame
    BY <1>1, TopTypes
  <1>3. CASE ReleaseSavepoint(t)
    <2>1. phase[t] = "user" /\ phase' = [phase EXCEPT ![t] = "user"]
      BY <1>3 DEF ReleaseSavepoint, TypeInv
    <2>2. QED
      BY <1>1, <1>2, <1>3, <2>1 DEF ReleaseSavepoint
  <1>4. CASE ReleaseSavepointFails(t)
    BY <1>1, <1>2, <1>4 DEF ReleaseSavepointFails, Throw, dataVars
  <1>5. CASE UndoSavepoint(t)
    BY <1>1, <1>2, <1>5 DEF UndoSavepoint, Throw
  <1>6. CASE UndoSavepointFails(t)
    BY <1>1, <1>2, <1>6 DEF UndoSavepointFails, Throw
  <1>7. CASE CloseBlock(t)
    BY <1>1, <1>2, <1>7 DEF CloseBlock, Throw
  <1>8. QED
    BY <1>3, <1>4, <1>5, <1>6, <1>7 DEF Pops

LEMMA IdleType == Idle \in Sessions
  BY DEF Idle, Sessions

LEMMA PopsType ==
  ASSUME TypeInv, PhaseOK, NEW t \in Threads, Pops(t)
  PROVE  TypeInv'
  <1> DEFINE f == Top(t)
  <1>1. /\ stack[t] # <<>> /\ f \in Frame
        /\ stack' = [stack EXCEPT ![t] = Pop(t)]
        /\ \E next \in {"user", "raising"} : phase' = [phase EXCEPT ![t] = next]
        /\ UNCHANGED <<uses, callVars, executed>>
    BY PopsFrame
  <1>2. f.conn \in Connections /\ f.level \in Int /\ f.level - 1 \in Int
    BY <1>1 DEF Frame
  <1>3. stack' \in [Threads -> Seq(Frame)]
    BY <1>1, TopTypes DEF TypeInv
  <1>4. phase' \in [Threads -> Phases]
    BY <1>1 DEF TypeInv, Phases
  <1>5. registry' \in [Connections -> [owner : Threads \cup {NoEntry.owner}, depth : Int]]
    <2>1. \E e \in {Entry(t, f.level - 1), NoEntry} : registry' = [registry EXCEPT ![f.conn] = e]
      BY PopsFrame
    <2>2. {Entry(t, f.level - 1), NoEntry} \subseteq
             [owner : Threads \cup {NoEntry.owner}, depth : Int]
      BY <1>2 DEF Entry, NoEntry
    <2>3. registry \in [Connections -> [owner : Threads \cup {NoEntry.owner}, depth : Int]]
      BY DEF TypeInv
    <2> HIDE DEF f
    <2>4. QED
      BY <2>1, <2>2, <2>3
  <1>6. outcome' \in [Blocks -> Outcomes]
    <2>1. \E end \in {"ok", "failed", "left", "kept"} :
             outcome' \in {outcome, [outcome EXCEPT ![f.block] = end]}
      BY PopsFrame
    <2>2. QED
      BY <2>1 DEF TypeInv, Outcomes, Unclosed
  <1>7. pending' \in [Connections -> Sessions] /\ committed' = committed
    <2>1. pending[f.conn] \in Sessions /\ pending \in [Connections -> Sessions]
      BY <1>2 DEF TypeInv
    <2>2. \/ pending' = pending
          \/ pending' = [pending EXCEPT ![f.conn] = Idle]
          \/ /\ SavepointsNamed(pending[f.conn], f.level) # {}
             /\ pending' \in {[pending EXCEPT ![f.conn] = Released(pending[f.conn], f.level)],
                              [pending EXCEPT ![f.conn] = Undone(pending[f.conn], f.level)],
                              [pending EXCEPT ![f.conn] = BackTo(pending[f.conn], f.level)]}
      BY PopsFrame DEF HasSavepoint, GiveBack, Rollback, dataVars
    <2>3. pending' \in [Connections -> Sessions]
      BY <2>1, <2>2, SavepointTypes, IdleType
    <2>4. committed' = committed
      BY PopsFrame DEF GiveBack, Rollback, dataVars
    <2>5. QED
      BY <2>3, <2>4
  <1>8. free' \in [Pools -> SUBSET Connections] /\ lost' \subseteq Connections
    <2>1. free' = free \/ free' = [free EXCEPT ![f.pool] = @ \cup {f.conn}]
      BY PopsFrame DEF GiveBack
    <2>2. lost' = lost \/ lost' = lost \ {f.conn}
      BY PopsFrame DEF GiveBack, dataVars
    <2>3. free \in [Pools -> SUBSET Connections] /\ lost \subseteq Connections
      BY DEF TypeInv
    <2> HIDE DEF f
    <2>4. QED
      BY <1>2, <2>1, <2>2, <2>3
  <1>9. QED
    BY <1>1, <1>3, <1>4, <1>5, <1>6, <1>7, <1>8 DEF TypeInv, callVars

\* The end of a block of depth zero: its transaction commits or rolls back.
LEMMA EndsFrame ==
  ASSUME TypeInv, PhaseOK, NEW t \in Threads, Ends(t)
  PROVE  LET f == Top(t) IN
         /\ phase[t] \in {"user", "raising"} /\ stack[t] # <<>> /\ f \in Frame /\ f.level = 0
         /\ phase' = [phase EXCEPT ![t] = "closing"]
         /\ UNCHANGED <<uses, registry, free, stack, callVars, lost, executed>>
         /\ \/ /\ outcome' = [outcome EXCEPT ![f.block] = "ok"]
               /\ pending' = [pending EXCEPT ![f.conn] = Idle]
               /\ committed' = committed \cup pending[f.conn].writes
               /\ f.conn \notin lost
            \/ /\ outcome' = [outcome EXCEPT ![f.block] = "failed"]
               /\ pending' = [pending EXCEPT ![f.conn] = Idle]
               /\ committed' = committed
            \/ /\ outcome' = [outcome EXCEPT ![f.block] = "stranded"]
               /\ UNCHANGED <<pending, committed>>
               /\ f.conn \notin lost
  <1>1. stack[t] # <<>>
    BY DEF Ends, CommitBlock, RollbackBlock, RollbackBlockFails, PhaseOK
  <1>2. Top(t) \in Frame
    BY <1>1, TopTypes
  <1>3. CASE CommitBlock(t)
    BY <1>1, <1>2, <1>3 DEF CommitBlock, Commit
  <1>4. CASE RollbackBlock(t)
    BY <1>1, <1>2, <1>4 DEF RollbackBlock, Rollback
  <1>5. CASE RollbackBlockFails(t)
    BY <1>1, <1>2, <1>5 DEF RollbackBlockFails, dataVars
  <1>6. QED
    BY <1>3, <1>4, <1>5 DEF Ends

LEMMA EndsType ==
  ASSUME TypeInv, PhaseOK, NEW t \in Threads, Ends(t)
  PROVE  TypeInv'
  <1> DEFINE f == Top(t)
  <1>1. /\ f.conn \in Connections
        /\ phase' = [phase EXCEPT ![t] = "closing"]
        /\ pending' \in {pending, [pending EXCEPT ![f.conn] = Idle]}
        /\ UNCHANGED <<uses, registry, free, stack, callVars, lost, executed>>
        /\ \E end \in Ended : outcome' = [outcome EXCEPT ![f.block] = end]
        /\ committed' \in {committed, committed \cup pending[f.conn].writes}
    <2>1. f \in Frame
      BY EndsFrame
    <2>2. f.conn \in Connections
      BY <2>1 DEF Frame
    <2>3. QED
      BY <2>2, EndsFrame DEF Ended
  <1>2. phase' \in [Threads -> Phases] /\ pending' \in [Connections -> Sessions]
    <2>1. phase' \in [Threads -> Phases]
      BY <1>1 DEF TypeInv, Phases
    <2>2. pending' \in [Connections -> Sessions]
      BY <1>1, IdleType DEF TypeInv
    <2>3. QED
      BY <2>1, <2>2
  <1>3. outcome' \in [Blocks -> Outcomes]
    BY <1>1 DEF TypeInv, Ended, Outcomes, Unclosed
  <1>4. committed' \subseteq Writes
    <2>1. pending[f.conn] \in Sessions
      BY <1>1 DEF TypeInv
    <2>2. pending[f.conn].writes \subseteq Writes
      BY <2>1 DEF Sessions
    <2>3. QED
      BY <1>1, <2>2 DEF TypeInv
  <1>5. QED
    BY <1>1, <1>2, <1>3, <1>4 DEF TypeInv, callVars

LEMMA ExecuteType ==
  ASSUME TypeInv, PhaseOK, NEW t \in Threads, Execute(t)
  PROVE  TypeInv'
  <1> DEFINE c == target[t]
             w == Write(Cardinality(executed) + 1, BlocksOn(t, c))
  <1>1. /\ executed' = executed \cup {w}
        /\ pending' = [pending EXCEPT ![c].writes = @ \cup {w}]
        /\ phase' = [phase EXCEPT ![t] = "decide"]
        /\ UNCHANGED <<uses, registry, free, stack, callVars, committed, lost, outcome>>
    BY DEF Execute
  <1>2. c \in Connections
    BY DEF Execute, PhaseOK, InCall
  <1>3. w \in Writes
    <2>1. Cardinality(executed) + 1 \in Nat
      BY FS_CardinalityType DEF TypeInv
    <2>2. BlocksOn(t, c) \subseteq Blocks
      BY FrameTypes DEF BlocksOn, FramesOn, Frame
    <2>3. QED
      BY <2>1, <2>2 DEF Write, Writes
  <1>4. executed' \subseteq Writes /\ IsFiniteSet(executed')
    BY <1>1, <1>3, FS_AddElement DEF TypeInv
  <1>5. pending' \in [Connections -> Sessions]
    <2>1. pending \in [Connections -> Sessions] /\ pending[c] \in Sessions
      BY <1>2 DEF TypeInv
    <2>2. [pending[c] EXCEPT !.writes = @ \cup {w}] \in Sessions
      BY <1>3, <2>1 DEF Sessions
    <2> HIDE DEF w, c
    <2>3. QED
      BY <1>1, <2>1, <2>2
  <1>6. phase' \in [Threads -> Phases]
    BY <1>1 DEF TypeInv, Phases
  <1>7. QED
    BY <1>1, <1>4, <1>5, <1>6 DEF TypeInv, callVars

LEMMA LoseType ==
  ASSUME TypeInv, NEW c \in Connections, Lose(c)
  PROVE  TypeInv'
  <1>1. pending' \in [Connections -> Sessions] /\ lost' \subseteq Connections
    BY IdleType DEF Lose, TypeInv
  <1>2. UNCHANGED <<uses, registry, free, threadVars, committed, outcome, executed>>
    BY DEF Lose
  <1>3. QED
    BY <1>1, <1>2 DEF TypeInv, threadVars, callVars

LEMMA NextType ==
  ASSUME TypeInv, PhaseOK, [Next]_vars
  PROVE  TypeInv'
  <1>1. CASE UNCHANGED vars
    BY <1>1 DEF vars, threadVars, callVars, dataVars, TypeInv
  <1>2. CASE Next
    BY <1>2, Kinds, StartType, MoveType, CallEndType, RegisterNestedType, OpensType, PopsType,
       EndsType, ExecuteType, LoseType
  <1>3. QED
    BY <1>1, <1>2

Inv == /\ TypeInv /\ PhaseOK /\ BlocksInv /\ NestingInv /\ CustodyInv /\ SessionInv
       /\ HeldInv

-----------------------------------------------------------------------------
(* The stacks *)

LEMMA Pushed ==
  ASSUME NEW s \in Seq(Frame), NEW f \in Frame
  PROVE  LET r == Append(s, f) IN
         /\ r \in Seq(Frame) /\ Len(s) \in Nat /\ Len(r) = Len(s) + 1
         /\ DOMAIN s = 1..Len(s) /\ DOMAIN r = 1..(Len(s) + 1)
         /\ \A i \in 1..Len(s) : r[i] = s[i]
         /\ r[Len(s) + 1] = f
         /\ ToSet(r) = ToSet(s) \cup {f}
  <1> DEFINE r == Append(s, f)
  <1>1. /\ r \in Seq(Frame) /\ Len(s) \in Nat /\ Len(r) = Len(s) + 1
        /\ DOMAIN s = 1..Len(s) /\ DOMAIN r = 1..(Len(s) + 1)
        /\ \A i \in 1..Len(s) : r[i] = s[i]
        /\ r[Len(s) + 1] = f
    BY AppendProperties, LenProperties
  <1> HIDE DEF r
  <1>2. ToSet(r) = ToSet(s) \cup {f}
    <2>1. ASSUME NEW x \in ToSet(r) PROVE x \in ToSet(s) \cup {f}
      <3>1. PICK i \in 1..(Len(s) + 1) : x = r[i]
        BY <1>1 DEF ToSet
      <3>2. CASE i = Len(s) + 1
        BY <1>1, <3>1, <3>2
      <3>3. CASE i # Len(s) + 1
        <4>1. i \in 1..Len(s)
          BY <1>1, <3>3
        <4>2. x = s[i] /\ i \in DOMAIN s
          BY <1>1, <3>1, <4>1
        <4>3. QED
          BY <4>2 DEF ToSet
      <3>4. QED
        BY <3>2, <3>3
    <2>2. ASSUME NEW x \in ToSet(s) PROVE x \in ToSet(r)
      <3>1. PICK i \in 1..Len(s) : x = s[i]
        BY <1>1, <2>2 DEF ToSet
      <3>2. x = r[i] /\ i \in DOMAIN r
        BY <1>1, <3>1
      <3>3. QED
        BY <3>2 DEF ToSet
    <2>3. f \in ToSet(r)
      <3>1. Len(s) + 1 \in DOMAIN r
        BY <1>1
      <3>2. QED
        BY <1>1, <3>1 DEF ToSet
    <2>4. QED
      BY <2>1, <2>2, <2>3
  <1>3. QED
    BY <1>1, <1>2 DEF r

LEMMA Popped ==
  ASSUME NEW s \in Seq(Frame), s # <<>>
  PROVE  LET n == Len(s)
             r == SubSeq(s, 1, n - 1)
         IN /\ n \in Nat \ {0} /\ DOMAIN s = 1..n
            /\ r \in Seq(Frame) /\ Len(r) = n - 1 /\ DOMAIN r = 1..(n - 1)
            /\ \A i \in 1..(n - 1) : r[i] = s[i]
            /\ (\A i, j \in 1..n : s[i] = s[j] => i = j) => ToSet(r) = ToSet(s) \ {s[n]}
  <1> DEFINE n == Len(s)
             r == SubSeq(s, 1, n - 1)
  <1>1. n \in Nat \ {0} /\ DOMAIN s = 1..n
    BY EmptySeq, LenProperties
  <1>2. /\ r \in Seq(Frame) /\ Len(r) = n - 1
        /\ \A i \in 1..(n - 1) : r[i] = s[i]
    BY <1>1, SubSeqProperties
  <1>3. DOMAIN r = 1..(n - 1)
    BY <1>1, <1>2, LenProperties
  <1>4. ASSUME \A i, j \in 1..n : s[i] = s[j] => i = j
        PROVE  ToSet(r) = ToSet(s) \ {s[n]}
    <2> HIDE DEF r, n
    <2>1. ASSUME NEW x \in ToSet(r) PROVE x \in ToSet(s) \ {s[n]}
      <3>1. PICK i \in 1..(n - 1) : x = r[i]
        BY <1>3, <2>1 DEF ToSet
      <3>2. x = s[i] /\ i \in 1..n /\ i # n /\ n \in 1..n
        BY <1>1, <1>2, <3>1
      <3>3. x # s[n]
        BY <1>4, <3>2
      <3>4. QED
        BY <1>1, <3>2, <3>3 DEF ToSet
    <2>2. ASSUME NEW x \in ToSet(s), x # s[n] PROVE x \in ToSet(r)
      <3>1. PICK i \in 1..n : x = s[i]
        BY <1>1, <2>2 DEF ToSet
      <3>2. i \in 1..(n - 1)
        BY <1>1, <2>2, <3>1
      <3>3. x = r[i] /\ i \in DOMAIN r
        BY <1>2, <1>3, <3>1, <3>2
      <3>4. QED
        BY <3>3 DEF ToSet
    <2>3. QED
      BY <2>1, <2>2
  <1>5. QED
    BY <1>1, <1>2, <1>3, <1>4

LEMMA FramesPushed ==
  ASSUME TypeInv, NEW t \in Threads, NEW f \in Frame,
         stack' = [stack EXCEPT ![t] = Append(@, f)]
  PROVE  /\ \A u \in Threads : \A c : FramesOn(u, c)' =
                IF u = t /\ f.conn = c THEN FramesOn(u, c) \cup {f} ELSE FramesOn(u, c)
         /\ ToSet(stack'[t]) = ToSet(stack[t]) \cup {f}
         /\ \A u \in Threads : u # t => stack'[u] = stack[u]
  <1>1. /\ stack'[t] = Append(stack[t], f) /\ stack[t] \in Seq(Frame)
        /\ \A u \in Threads : u # t => stack'[u] = stack[u]
    BY DEF TypeInv
  <1>2. ToSet(stack'[t]) = ToSet(stack[t]) \cup {f}
    BY <1>1, Pushed
  <1>3. QED
    BY <1>1, <1>2 DEF FramesOn

LEMMA FramesPopped ==
  ASSUME TypeInv, BlocksInv, NEW t \in Threads, stack[t] # <<>>,
         stack' = [stack EXCEPT ![t] = Pop(t)]
  PROVE  /\ \A u \in Threads : \A c : FramesOn(u, c)' =
                IF u = t /\ Top(t).conn = c THEN FramesOn(u, c) \ {Top(t)} ELSE FramesOn(u, c)
         /\ Top(t) \in FramesOn(t, Top(t).conn)
         /\ ToSet(stack'[t]) = ToSet(stack[t]) \ {Top(t)}
         /\ \A u \in Threads : u # t => stack'[u] = stack[u]
  <1>1. /\ stack'[t] = Pop(t) /\ stack[t] \in Seq(Frame)
        /\ \A u \in Threads : u # t => stack'[u] = stack[u]
    BY DEF TypeInv
  <1>2. ToSet(stack'[t]) = ToSet(stack[t]) \ {Top(t)}
    <2>1. \A i, j \in 1..Len(stack[t]) : stack[t][i] = stack[t][j] => i = j
      BY <1>1, LenProperties DEF BlocksInv
    <2>2. QED
      BY <1>1, <2>1, Popped DEF Top, Pop
  <1>3. Top(t) \in ToSet(stack[t])
    BY TopTypes
  <1>4. QED
    BY <1>1, <1>2, <1>3 DEF FramesOn

\* The frames of the stack, by position.
LEMMA FrameAt ==
  ASSUME TypeInv, NEW t \in Threads
  PROVE  /\ DOMAIN stack[t] = 1..Len(stack[t]) /\ Len(stack[t]) \in Nat
         /\ \A i \in DOMAIN stack[t] : /\ stack[t][i] \in Frame /\ stack[t][i] \in ToSet(stack[t])
                                       /\ stack[t][i] \in FramesOn(t, stack[t][i].conn)
         /\ \A c : \A f \in FramesOn(t, c) :
               /\ f \in Frame /\ f \in ToSet(stack[t]) /\ f.conn = c
               /\ \E i \in DOMAIN stack[t] : f = stack[t][i]
  <1>1. stack[t] \in Seq(Frame)
    BY DEF TypeInv
  <1>2. DOMAIN stack[t] = 1..Len(stack[t]) /\ Len(stack[t]) \in Nat
    BY <1>1, LenProperties
  <1>3. \A i \in DOMAIN stack[t] : stack[t][i] \in Frame
    BY <1>1, <1>2, ElementOfSeq
  <1>4. QED
    BY <1>2, <1>3, FrameTypes DEF FramesOn, ToSet

-----------------------------------------------------------------------------
(* Open blocks are on one stack, and nest *)

LEMMA BlocksKept ==
  ASSUME BlocksInv, UNCHANGED <<stack, outcome>>,
         \A u \in Threads : phase'[u] = "closing" <=> phase[u] = "closing"
  PROVE  BlocksInv'
  BY DEF BlocksInv

LEMMA NestingKept ==
  ASSUME NestingInv, UNCHANGED <<uses, stack>>,
         \A u \in Threads, c \in Connections :
            registry'[c].owner = u => registry[c].owner = u \/ FramesOn(u, c) # {},
         \A u \in Threads : phase'[u] \in {"nest", "savepoint"} =>
            FramesOn(u, target'[u]) # {}
  PROVE  NestingInv'
  <1>1. \A u, c : FramesOn(u, c)' = FramesOn(u, c)
    BY DEF FramesOn
  <1>2. \A c : Sole(c)' <=> Sole(c)
    BY DEF Sole
  <1>3. QED
    BY <1>1, <1>2 DEF NestingInv

\* A step of thread t that leaves the stacks and the blocks alone.
LEMMA StillNested ==
  ASSUME TypeInv, PhaseOK, BlocksInv, NestingInv, NEW t \in Threads,
         Start(t) \/ Move(t) \/ CallEnd(t) \/ RegisterNested(t) \/ Execute(t)
  PROVE  PhaseOK' /\ BlocksInv' /\ NestingInv'
  <1>1. CASE Start(t)
    <2>1. PICK c \in Connections, next \in {"enter", "execute"} :
             /\ phase[t] = "user"
             /\ phase' = [phase EXCEPT ![t] = next]
             /\ target' = [target EXCEPT ![t] = c]
             /\ \A u \in Threads : u # t => via'[u] = via[u]
             /\ UNCHANGED <<uses, registry, stack, outcome>>
      BY <1>1 DEF Start, TypeInv
    <2>2. PhaseOK'
      BY <2>1 DEF PhaseOK, InCall, TypeInv
    <2>3. BlocksInv'
      BY <2>1, BlocksKept DEF TypeInv
    <2>4. \A u \in Threads : phase'[u] \in {"nest", "savepoint"} => FramesOn(u, target'[u]) # {}
      BY <2>1 DEF NestingInv, TypeInv
    <2>5. NestingInv'
      BY <2>1, <2>4, NestingKept
    <2>6. QED
      BY <2>2, <2>3, <2>5
  <1>2. CASE Move(t)
    <2>1. UNCHANGED <<uses, registry, stack, target, via, outcome>>
      BY <1>2 DEF Move
    <2>2. \/ /\ phase[t] \in InCall /\ phase' = [phase EXCEPT ![t] = "begin"]
          \/ /\ phase[t] \in InCall /\ phase' = [phase EXCEPT ![t] = "undo"]
          \/ /\ phase[t] \in InCall /\ phase' = [phase EXCEPT ![t] = "commit"]
          \/ /\ phase[t] \in InCall /\ phase' = [phase EXCEPT ![t] = "nest"]
             /\ registry[target[t]].owner = t
          \/ /\ phase[t] = "user" /\ phase' = [phase EXCEPT ![t] = "raising"]
             /\ stack[t] # <<>>
      BY <1>2 DEF Move, InCall
    <2>3. PhaseOK'
      BY <2>1, <2>2 DEF PhaseOK, InCall, TypeInv
    <2>4. BlocksInv'
      BY <2>1, <2>2, BlocksKept DEF TypeInv, InCall
    <2>5. \A u \in Threads : phase'[u] \in {"nest", "savepoint"} => FramesOn(u, target'[u]) # {}
      BY <2>1, <2>2 DEF NestingInv, TypeInv, PhaseOK
    <2>6. NestingInv'
      BY <2>1, <2>5, NestingKept
    <2>7. QED
      BY <2>3, <2>4, <2>6
  <1>3. CASE CallEnd(t)
    <2>1. /\ phase[t] \in InCall
          /\ \E next \in {"user", "raising"} :
                /\ phase' = [phase EXCEPT ![t] = next]
                /\ next = "raising" => stack[t] # <<>>
          /\ target' = [target EXCEPT ![t] = NoConnection]
          /\ via' = [via EXCEPT ![t] = NoPool]
          /\ UNCHANGED <<uses, stack, outcome>>
      BY <1>3 DEF CallEnd, Forget
    <2>2. PhaseOK'
      BY <2>1, NamesAssumption DEF PhaseOK, InCall, TypeInv
    <2>3. BlocksInv'
      BY <2>1, BlocksKept DEF TypeInv, InCall
    <2>4. \A u \in Threads : phase'[u] \in {"nest", "savepoint"} => FramesOn(u, target'[u]) # {}
      BY <2>1 DEF NestingInv, TypeInv
    <2>5. ASSUME NEW u \in Threads, NEW c \in Connections, registry'[c].owner = u
          PROVE  registry[c].owner = u \/ FramesOn(u, c) # {}
      <3>1. \/ registry' = registry
            \/ /\ phase[t] = "savepoint"
               /\ registry' = [registry EXCEPT ![target[t]] = Entry(t, level[t] - 1)]
        BY <1>3 DEF CallEnd
      <3>2. CASE phase[t] = "savepoint" /\ c = target[t]
                 /\ registry' = [registry EXCEPT ![target[t]] = Entry(t, level[t] - 1)]
        <4>1. registry'[c] = Entry(t, level[t] - 1)
          BY <3>2 DEF TypeInv
        <4>2. u = t
          BY <4>1, <2>5 DEF Entry
        <4>3. QED
          BY <3>2, <4>2 DEF NestingInv
      <3>3. CASE registry'[c] = registry[c]
        BY <2>5, <3>3
      <3>4. QED
        BY <3>1, <3>2, <3>3 DEF TypeInv
    <2>6. NestingInv'
      BY <2>1, <2>4, <2>5, NestingKept
    <2>7. QED
      BY <2>2, <2>3, <2>6
  <1>4. CASE RegisterNested(t)
    <2>1. /\ phase[t] = "nest" /\ phase' = [phase EXCEPT ![t] = "savepoint"]
          /\ registry' = [registry EXCEPT ![target[t]] = Entry(t, level[t])]
          /\ UNCHANGED <<uses, stack, target, via, outcome>>
      BY <1>4 DEF RegisterNested, callVars
    <2>2. PhaseOK'
      BY <2>1 DEF PhaseOK, InCall, TypeInv
    <2>3. BlocksInv'
      BY <2>1, BlocksKept DEF TypeInv
    <2>4. \A u \in Threads : phase'[u] \in {"nest", "savepoint"} => FramesOn(u, target'[u]) # {}
      BY <2>1 DEF NestingInv, TypeInv
    <2>5. ASSUME NEW u \in Threads, NEW c \in Connections, registry'[c].owner = u
          PROVE  registry[c].owner = u \/ FramesOn(u, c) # {}
      <3>1. CASE c = target[t]
        <4>1. registry'[c] = Entry(t, level[t])
          BY <2>1, <3>1 DEF TypeInv
        <4>2. u = t
          BY <4>1, <2>5 DEF Entry
        <4>3. QED
          BY <2>1, <3>1, <4>2 DEF NestingInv
      <3>2. CASE c # target[t]
        BY <2>1, <2>5, <3>2 DEF TypeInv
      <3>3. QED
        BY <3>1, <3>2
    <2>6. NestingInv'
      BY <2>1, <2>4, <2>5, NestingKept
    <2>7. QED
      BY <2>2, <2>3, <2>6
  <1>5. CASE Execute(t)
    <2>1. /\ phase[t] = "execute" /\ phase' = [phase EXCEPT ![t] = "decide"]
          /\ UNCHANGED <<uses, registry, stack, target, via, outcome>>
      BY <1>5 DEF Execute, callVars
    <2>2. PhaseOK'
      BY <2>1 DEF PhaseOK, InCall, TypeInv
    <2>3. BlocksInv'
      BY <2>1, BlocksKept DEF TypeInv
    <2>4. \A u \in Threads : phase'[u] \in {"nest", "savepoint"} => FramesOn(u, target'[u]) # {}
      BY <2>1 DEF NestingInv, TypeInv
    <2>5. NestingInv'
      BY <2>1, <2>4, NestingKept
    <2>6. QED
      BY <2>2, <2>3, <2>5
  <1>6. QED
    BY <1>1, <1>2, <1>3, <1>4, <1>5

LEMMA OpensNested ==
  ASSUME Inv, NEW t \in Threads, Opens(t)
  PROVE  PhaseOK' /\ BlocksInv' /\ NestingInv'
  <1>0. TypeInv /\ PhaseOK /\ BlocksInv /\ NestingInv /\ SessionInv
    BY DEF Inv
  <1>1. PICK b \in Fresh :
          /\ b \in Blocks /\ NewFrame(t, b) \in Frame
          /\ stack' = [stack EXCEPT ![t] = Append(@, NewFrame(t, b))]
          /\ outcome' = [outcome EXCEPT ![b] = "open"]
    BY <1>0, OpensFrame
  <1> DEFINE f == NewFrame(t, b)
             n == Len(stack[t])
             c == target[t]
  <1>2. /\ phase[t] \in {"begin", "savepoint"} /\ c \in Connections
        /\ phase' = [phase EXCEPT ![t] = "user"]
        /\ target' = [target EXCEPT ![t] = NoConnection]
        /\ via' = [via EXCEPT ![t] = NoPool]
        /\ uses' = uses
        /\ IF phase[t] = "begin"
           THEN registry' = [registry EXCEPT ![c] = Entry(t, 0)]
           ELSE registry' = registry
    BY <1>0, OpensFrame DEF Forget
  <1>3. f.block = b /\ f.conn = c /\ outcome[b] = "unused"
        /\ f.level = IF phase[t] = "begin" THEN 0 ELSE level[t]
    BY DEF NewFrame, Fresh
  <1> HIDE DEF f
  <1>4. /\ stack[t] \in Seq(Frame) /\ stack'[t] = Append(stack[t], f)
        /\ n \in Nat /\ DOMAIN stack[t] = 1..n
        /\ Len(stack'[t]) = n + 1 /\ DOMAIN stack'[t] = 1..(n + 1)
        /\ \A i \in 1..n : stack'[t][i] = stack[t][i]
        /\ stack'[t][n + 1] = f
    <2>1. stack[t] \in Seq(Frame) /\ stack'[t] = Append(stack[t], f) /\ f \in Frame
      BY <1>0, <1>1 DEF TypeInv, f
    <2>2. QED
      BY <2>1, Pushed
  <1>5. /\ \A u \in Threads : u # t => stack'[u] = stack[u]
        /\ \A u \in Threads : \A x : FramesOn(u, x)' =
              IF u = t /\ c = x THEN FramesOn(u, x) \cup {f} ELSE FramesOn(u, x)
    <2>1. f \in Frame /\ stack' = [stack EXCEPT ![t] = Append(@, f)] /\ f.conn = c
      BY <1>1, <1>3 DEF f
    <2>2. /\ \A u \in Threads : u # t => stack'[u] = stack[u]
          /\ \A u \in Threads : \A x : FramesOn(u, x)' =
                IF u = t /\ f.conn = x THEN FramesOn(u, x) \cup {f} ELSE FramesOn(u, x)
      BY <1>0, <2>1, FramesPushed
    <2>3. QED
      BY <2>1, <2>2
  <1> HIDE DEF n, c
  <1>6. PhaseOK'
    <2>1. stack'[t] # <<>>
      BY <1>4, EmptySeq
    <2>2. QED
      BY <1>0, <1>2, <1>5, <2>1, NamesAssumption DEF PhaseOK, InCall, TypeInv
  <1>7. \A u \in Threads : \A i \in DOMAIN stack[u] :
           stack[u][i].block # b /\ stack[u][i].block \in Blocks
    <2>1. \A u \in Threads : \A i \in DOMAIN stack[u] : stack[u][i].block \in Blocks
      BY <1>0, FrameAt DEF Frame
    <2>2. QED
      BY <1>0, <1>3, <2>1 DEF BlocksInv, Ended
  <1>8. BlocksInv'
    <2>1. ASSUME NEW u \in Threads, NEW v \in Threads,
                 NEW i \in DOMAIN stack'[u], NEW j \in DOMAIN stack'[v],
                 stack'[u][i].block = stack'[v][j].block
          PROVE  u = v /\ i = j
      <3>1. ASSUME NEW s \in Threads, NEW k \in DOMAIN stack'[s]
            PROVE  \/ s = t /\ k = n + 1
                   \/ k \in DOMAIN stack[s] /\ stack'[s][k] = stack[s][k]
        <4>1. CASE s = t
          <5>1. k \in 1..(n + 1)
            BY <1>4, <3>1, <4>1
          <5>2. k = n + 1 \/ k \in 1..n
            BY <1>4, <5>1
          <5>3. QED
            BY <1>4, <4>1, <5>2
        <4>2. CASE s # t
          BY <1>5, <3>1, <4>2
        <4>3. QED
          BY <4>1, <4>2
      <3>2. /\ \/ u = t /\ i = n + 1
               \/ i \in DOMAIN stack[u] /\ stack'[u][i] = stack[u][i]
            /\ \/ v = t /\ j = n + 1
               \/ j \in DOMAIN stack[v] /\ stack'[v][j] = stack[v][j]
        BY <2>1, <3>1
      <3>3. QED
        BY <1>0, <1>3, <1>4, <1>7, <2>1, <3>2 DEF BlocksInv
    <2>2. ASSUME NEW u \in Threads, NEW i \in DOMAIN stack'[u]
          PROVE  IF phase'[u] = "closing" /\ i = Len(stack'[u])
                 THEN outcome'[stack'[u][i].block] \in Ended /\ stack'[u][i].level = 0
                 ELSE outcome'[stack'[u][i].block] = "open"
      <3>1. CASE u = t /\ i = n + 1
        BY <1>0, <1>1, <1>2, <1>3, <1>4, <3>1 DEF TypeInv
      <3>2. CASE u = t /\ i # n + 1
        <4>1. i \in DOMAIN stack[t] /\ stack'[t][i] = stack[t][i] /\ phase'[t] = "user"
          BY <1>0, <1>2, <1>4, <2>2, <3>2 DEF TypeInv
        <4>2. outcome[stack[t][i].block] = "open"
          BY <1>0, <1>2, <4>1 DEF BlocksInv
        <4>3. outcome'[stack[t][i].block] = "open"
          BY <1>0, <1>1, <1>7, <4>1, <4>2 DEF TypeInv
        <4>4. QED
          BY <3>2, <4>1, <4>3
      <3>3. CASE u # t
        <4>1. stack'[u] = stack[u] /\ phase'[u] = phase[u]
          BY <1>0, <1>2, <1>5, <3>3 DEF TypeInv
        <4>2. outcome'[stack[u][i].block] = outcome[stack[u][i].block]
          BY <1>0, <1>1, <1>7, <4>1, <2>2 DEF TypeInv
        <4>3. QED
          BY <1>0, <2>2, <4>1, <4>2 DEF BlocksInv
      <3>4. QED
        BY <3>1, <3>2, <3>3
    <2>3. QED
      BY <2>1, <2>2 DEF BlocksInv
  <1>9. NestingInv'
    <2>1. ASSUME NEW u \in Threads, NEW x \in Connections, registry'[x].owner = u
          PROVE  FramesOn(u, x)' # {}
      <3>1. CASE x = c /\ u = t
        BY <1>5, <3>1
      <3>2. CASE registry'[x].owner = registry[x].owner
        BY <1>0, <1>5, <2>1, <3>2 DEF NestingInv
      <3>3. CASE x = c /\ registry'[x] = Entry(t, 0)
        <4>1. u = t
          BY <2>1, <3>3 DEF Entry
        <4>2. QED
          BY <3>1, <3>3, <4>1
      <3>4. QED
        BY <1>0, <1>2, <3>1, <3>2, <3>3 DEF TypeInv
    <2>2. ASSUME NEW u \in Threads, phase'[u] \in {"nest", "savepoint"}
          PROVE  FramesOn(u, target[u])' # {}
      <3>1. u # t /\ phase[u] \in {"nest", "savepoint"} /\ target'[u] = target[u]
        BY <1>0, <1>2, <2>2 DEF TypeInv
      <3>2. QED
        BY <1>0, <1>5, <3>1 DEF NestingInv
    <2>3. ASSUME NEW u \in Threads, NEW i \in DOMAIN stack'[u], stack'[u][i].level > 0
          PROVE  \E j \in 1..(i-1) : stack'[u][j].conn = stack'[u][i].conn
      <3>1. CASE u # t
        BY <1>0, <1>5, <2>3, <3>1 DEF NestingInv
      <3>2. CASE u = t /\ i \in 1..n
        <4>1. PICK j \in 1..(i-1) : stack[t][j].conn = stack[t][i].conn
          BY <1>0, <1>4, <2>3, <3>2 DEF NestingInv
        <4>2. j \in 1..n
          BY <1>4, <3>2
        <4>3. QED
          BY <1>4, <3>2, <4>1, <4>2
      <3>3. CASE u = t /\ i = n + 1
        <4>1. phase[t] = "savepoint"
          BY <1>2, <1>3, <1>4, <2>3, <3>3
        <4>2. FramesOn(t, c) # {}
          BY <1>0, <4>1 DEF NestingInv, c
        <4>3. PICK j \in DOMAIN stack[t] : stack[t][j].conn = c
          BY <1>0, <4>2, FrameAt
        <4>4. j \in 1..(i-1) /\ stack'[t][j].conn = c
          BY <1>4, <3>3, <4>3
        <4>5. QED
          BY <1>3, <1>4, <3>3, <4>4
      <3>4. QED
        BY <1>4, <2>3, <3>1, <3>2, <3>3
    <2>4. ASSUME NEW u \in Threads, NEW i \in DOMAIN stack'[u], NEW j \in DOMAIN stack'[u],
                 i < j, stack'[u][i].conn = stack'[u][j].conn, Sole(stack[u][i].conn)'
          PROVE  stack'[u][i].level < stack'[u][j].level
      <3>1. Sole(stack'[u][i].conn)
        BY <1>2, <2>4 DEF Sole
      <3>2. CASE u # t
        BY <1>0, <1>5, <2>4, <3>1, <3>2 DEF NestingInv
      <3>3. CASE u = t /\ j \in 1..n
        <4>1. i \in 1..n
          BY <1>4, <2>4, <3>3
        <4>2. QED
          BY <1>0, <1>4, <2>4, <3>1, <3>3, <4>1 DEF NestingInv
      <3>4. CASE u = t /\ j = n + 1
        <4>1. i \in 1..n
          BY <1>4, <2>4, <3>4
        <4>2. stack'[t][i] = stack[t][i] /\ stack[t][i].conn = c /\ stack'[t][j] = f
          BY <1>3, <1>4, <2>4, <3>4, <4>1
        <4>3. stack[t][i] \in FramesOn(t, c) /\ Sole(c)
          BY <1>0, <1>4, <3>1, <3>4, <4>1, <4>2, FrameAt
        <4>4. Session(t, c)
          BY <1>0, <1>2, <4>3 DEF SessionInv
        <4>5. phase[t] = "savepoint" /\ level[t] = Depth(t, c) + 1 /\ Depth(t, c) \in Nat
              /\ {g.level : g \in FramesOn(t, c)} = 0..Depth(t, c)
          BY <1>2, <4>3, <4>4 DEF Session, c
        <4>6. stack[t][i].level \in 0..Depth(t, c)
          BY <4>3, <4>5
        <4>7. stack[t][i].level < level[t]
          BY <4>5, <4>6
        <4>8. QED
          BY <1>3, <3>4, <4>2, <4>5, <4>7
      <3>5. QED
        BY <1>4, <2>4, <3>2, <3>3, <3>4
    <2>5. QED
      BY <2>1, <2>2, <2>3, <2>4 DEF NestingInv
  <1>10. QED
    BY <1>6, <1>8, <1>9

LEMMA PopsNested ==
  ASSUME TypeInv, PhaseOK, BlocksInv, NestingInv, NEW t \in Threads, Pops(t)
  PROVE  PhaseOK' /\ BlocksInv' /\ NestingInv'
  <1> DEFINE f == Top(t)
             n == Len(stack[t])
  <1>1. /\ stack[t] # <<>> /\ f \in Frame
        /\ stack' = [stack EXCEPT ![t] = Pop(t)]
        /\ UNCHANGED <<uses, target, via>>
    BY PopsFrame DEF callVars
  <1>2. PICK next \in {"user", "raising"} :
           /\ phase' = [phase EXCEPT ![t] = next]
           /\ next = "raising" => f.level > 0 \/ n > 1
    BY PopsFrame
  <1>3. \/ /\ phase[t] \in {"user", "raising"} /\ f.level > 0
           /\ registry' = [registry EXCEPT ![f.conn] = Entry(t, f.level - 1)]
           /\ \E end : outcome' = [outcome EXCEPT ![f.block] = end]
        \/ /\ phase[t] = "closing" /\ outcome' = outcome
           /\ registry' = [registry EXCEPT ![f.conn] = NoEntry]
    BY PopsFrame
  <1>4. /\ stack[t] \in Seq(Frame) /\ stack'[t] = Pop(t)
        /\ n \in Nat \ {0} /\ DOMAIN stack[t] = 1..n /\ stack[t][n] = f
        /\ Len(stack'[t]) = n - 1 /\ DOMAIN stack'[t] = 1..(n - 1)
        /\ \A i \in 1..(n - 1) : stack'[t][i] = stack[t][i]
    <2>1. stack[t] \in Seq(Frame) /\ stack'[t] = Pop(t)
      BY <1>1 DEF TypeInv
    <2>2. QED
      BY <1>1, <2>1, Popped DEF Pop, Top
  <1>5. /\ \A u \in Threads : u # t => stack'[u] = stack[u]
        /\ \A u \in Threads : \A x : FramesOn(u, x)' =
              IF u = t /\ f.conn = x THEN FramesOn(u, x) \ {f} ELSE FramesOn(u, x)
    BY <1>1, FramesPopped
  <1>6. f.level > 0 => \E i \in 1..(n - 1) : stack[t][i].conn = f.conn
    BY <1>4 DEF NestingInv
  <1> HIDE DEF n, f
  <1>7. PhaseOK'
    <2>1. next = "raising" => n > 1
      BY <1>2, <1>4, <1>6
    <2>2. next = "raising" => stack'[t] # <<>>
      <3>1. ASSUME n > 1 PROVE stack'[t] # <<>>
        <4>1. 1 \in DOMAIN stack'[t]
          BY <1>4, <3>1
        <4>2. QED
          BY <4>1, EmptySeq
      <3>2. QED
        BY <2>1, <3>1
    <2>3. phase[t] \notin InCall /\ phase'[t] \notin InCall /\ phase'[t] = next
      BY <1>2, <1>3 DEF InCall, TypeInv
    <2>4. \A u \in Threads : u # t => phase'[u] = phase[u] /\ stack'[u] = stack[u]
      BY <1>2, <1>5 DEF TypeInv
    <2>5. QED
      BY <1>1, <1>2, <2>2, <2>3, <2>4 DEF PhaseOK
  <1>8. \A u \in Threads : \A i \in DOMAIN stack'[u] :
           /\ i \in DOMAIN stack[u] /\ stack'[u][i] = stack[u][i]
           /\ ~(u = t /\ i = n)
    BY <1>4, <1>5
  <1>9. BlocksInv'
    <2>1. ASSUME NEW u \in Threads, NEW v \in Threads,
                 NEW i \in DOMAIN stack'[u], NEW j \in DOMAIN stack'[v],
                 stack'[u][i].block = stack'[v][j].block
          PROVE  u = v /\ i = j
      BY <1>8, <2>1 DEF BlocksInv
    <2>2. ASSUME NEW u \in Threads, NEW i \in DOMAIN stack'[u]
          PROVE  IF phase'[u] = "closing" /\ i = Len(stack'[u])
                 THEN outcome'[stack'[u][i].block] \in Ended /\ stack'[u][i].level = 0
                 ELSE outcome'[stack'[u][i].block] = "open"
      <3>1. stack[u][i].block # f.block /\ stack[u][i].block \in Blocks
        <4>1. i \in DOMAIN stack[u] /\ n \in DOMAIN stack[t]
          BY <1>4, <1>8, <2>2
        <4>2. QED
          BY <1>4, <1>8, <2>2, <4>1, FrameAt DEF BlocksInv, Frame
      <3>2. outcome'[stack[u][i].block] = outcome[stack[u][i].block]
        BY <1>3, <3>1 DEF TypeInv
      <3>3. CASE u = t
        BY <1>2, <1>4, <1>8, <2>2, <3>2, <3>3 DEF BlocksInv, TypeInv
      <3>4. CASE u # t
        BY <1>2, <1>5, <1>8, <2>2, <3>2, <3>4 DEF BlocksInv, TypeInv
      <3>5. QED
        BY <3>3, <3>4
    <2>3. QED
      BY <2>1, <2>2 DEF BlocksInv
  <1>10. NestingInv'
    <2>1. ASSUME NEW u \in Threads, NEW x \in Connections, registry'[x].owner = u
          PROVE  FramesOn(u, x)' # {}
      <3>1. CASE x # f.conn
        BY <1>3, <1>5, <2>1, <3>1 DEF NestingInv, TypeInv
      <3>2. CASE x = f.conn
        <4>1. u = t /\ f.level > 0
          BY <1>3, <2>1, <3>2, NamesAssumption DEF Entry, TypeInv
        <4>2. PICK i \in 1..(n - 1) : stack[t][i].conn = f.conn
          BY <1>6, <4>1
        <4>3. i \in DOMAIN stack'[t] /\ stack'[t][i].conn = x
          BY <1>4, <3>2, <4>2
        <4>4. QED
          BY <4>1, <4>3 DEF FramesOn, ToSet
      <3>3. QED
        BY <3>1, <3>2
    <2>2. ASSUME NEW u \in Threads, phase'[u] \in {"nest", "savepoint"}
          PROVE  FramesOn(u, target[u])' # {}
      <3>1. u # t /\ phase[u] \in {"nest", "savepoint"} /\ target'[u] = target[u]
        BY <1>1, <1>2, <2>2 DEF TypeInv
      <3>2. QED
        BY <1>5, <3>1 DEF NestingInv
    <2>3. ASSUME NEW u \in Threads, NEW i \in DOMAIN stack'[u], stack'[u][i].level > 0
          PROVE  \E j \in 1..(i-1) : stack'[u][j].conn = stack'[u][i].conn
      <3>1. PICK j \in 1..(i-1) : stack[u][j].conn = stack[u][i].conn
        BY <1>8, <2>3 DEF NestingInv
      <3>2. j \in DOMAIN stack'[u]
        <4>1. CASE u = t
          BY <1>4, <2>3, <4>1
        <4>2. CASE u # t
          <5>1. DOMAIN stack'[u] = 1..Len(stack[u]) /\ Len(stack[u]) \in Nat
            BY <1>5, <4>2, FrameAt
          <5>2. QED
            BY <2>3, <5>1
        <4>3. QED
          BY <4>1, <4>2
      <3>3. QED
        BY <1>8, <2>3, <3>1, <3>2
    <2>4. ASSUME NEW u \in Threads, NEW i \in DOMAIN stack'[u], NEW j \in DOMAIN stack'[u],
                 i < j, stack'[u][i].conn = stack'[u][j].conn, Sole(stack[u][i].conn)'
          PROVE  stack'[u][i].level < stack'[u][j].level
      <3>1. Sole(stack'[u][i].conn)
        BY <1>1, <2>4 DEF Sole
      <3>2. QED
        BY <1>8, <2>4, <3>1 DEF NestingInv
    <2>5. QED
      BY <2>1, <2>2, <2>3, <2>4 DEF NestingInv
  <1>11. QED
    BY <1>7, <1>9, <1>10

LEMMA EndsNested ==
  ASSUME TypeInv, PhaseOK, BlocksInv, NestingInv, NEW t \in Threads, Ends(t)
  PROVE  PhaseOK' /\ BlocksInv' /\ NestingInv'
  <1> DEFINE f == Top(t)
             n == Len(stack[t])
  <1>1. /\ phase[t] \in {"user", "raising"} /\ stack[t] # <<>> /\ f \in Frame /\ f.level = 0
        /\ phase' = [phase EXCEPT ![t] = "closing"]
        /\ UNCHANGED <<uses, registry, stack, target, via>>
        /\ \E end \in Ended : outcome' = [outcome EXCEPT ![f.block] = end]
    BY EndsFrame DEF callVars, Ended
  <1>2. n \in DOMAIN stack[t] /\ stack[t][n] = f
    BY <1>1, TopTypes, FrameAt DEF Top
  <1> HIDE DEF f, n
  <1>3. PhaseOK'
    BY <1>1 DEF PhaseOK, InCall, TypeInv
  <1>4. BlocksInv'
    <2>1. ASSUME NEW u \in Threads, NEW i \in DOMAIN stack[u]
          PROVE  IF phase'[u] = "closing" /\ i = Len(stack[u])
                 THEN outcome'[stack[u][i].block] \in Ended /\ stack[u][i].level = 0
                 ELSE outcome'[stack[u][i].block] = "open"
      <3>1. CASE u = t /\ i = n
        <4>1. f.block \in Blocks
          BY <1>1 DEF Frame
        <4>2. outcome'[f.block] \in Ended
          BY <1>1, <4>1 DEF TypeInv
        <4>3. QED
          BY <1>1, <1>2, <3>1, <4>2 DEF TypeInv, n
      <3>2. CASE ~(u = t /\ i = n)
        <4>1. stack[u][i].block # f.block /\ stack[u][i].block \in Blocks
          BY <1>2, <3>2, FrameAt DEF BlocksInv, Frame
        <4>2. outcome'[stack[u][i].block] = outcome[stack[u][i].block]
          BY <1>1, <4>1 DEF TypeInv
        <4>3. CASE u = t
          BY <1>1, <3>2, <4>2, <4>3 DEF BlocksInv, TypeInv, n
        <4>4. CASE u # t
          BY <1>1, <4>2, <4>4 DEF BlocksInv, TypeInv
        <4>5. QED
          BY <4>3, <4>4
      <3>3. QED
        BY <3>1, <3>2
    <2>2. QED
      BY <1>1, <2>1 DEF BlocksInv
  <1>5. NestingInv'
    <2>1. \A u \in Threads : phase'[u] \in {"nest", "savepoint"} => FramesOn(u, target'[u]) # {}
      BY <1>1 DEF NestingInv, TypeInv
    <2>2. QED
      BY <1>1, <2>1, NestingKept
  <1>6. QED
    BY <1>3, <1>4, <1>5

LEMMA NextNested ==
  ASSUME Inv, [Next]_vars
  PROVE  PhaseOK' /\ BlocksInv' /\ NestingInv'
  <1>0. TypeInv /\ PhaseOK /\ BlocksInv /\ NestingInv
    BY DEF Inv
  <1>1. ASSUME UNCHANGED <<uses, registry, stack, phase, target, via, outcome>>
        PROVE  PhaseOK' /\ BlocksInv' /\ NestingInv'
    <2>1. PhaseOK'
      BY <1>0, <1>1 DEF PhaseOK
    <2>2. BlocksInv'
      BY <1>0, <1>1, BlocksKept
    <2>3. NestingInv'
      BY <1>0, <1>1 DEF NestingInv, FramesOn, Sole
    <2>4. QED
      BY <2>1, <2>2, <2>3
  <1>2. CASE UNCHANGED vars
    BY <1>1, <1>2 DEF vars, threadVars, callVars
  <1>3. CASE \E c \in Connections : Lose(c)
    BY <1>1, <1>3 DEF Lose, threadVars, callVars
  <1>4. CASE Next
    BY <1>0, <1>3, <1>4, Kinds, StillNested, OpensNested, PopsNested, EndsNested
  <1>5. QED
    BY <1>2, <1>4

-----------------------------------------------------------------------------
(* Who is on a connection *)

LEMMA PoolFacts ==
  ASSUME TypeInv, NEW c, Pooled(c)
  PROVE  /\ c \in Connections /\ Sole(c)
         /\ \A t \in Threads : c \notin uses[t]
         /\ \A p, q \in Pools : c \in PoolConnections[p] /\ c \in PoolConnections[q] => p = q
  <1>1. PICK p \in Pools : c \in PoolConnections[p]
    BY DEF Pooled
  <1>2. \A t \in Threads : c \notin uses[t]
    BY <1>1, UsesAssumption DEF TypeInv
  <1>3. Sole(c)
    BY <1>2 DEF Sole
  <1>4. c \in Connections
    BY <1>1, PoolsAssumption
  <1>5. \A q, r \in Pools : c \in PoolConnections[q] /\ c \in PoolConnections[r] => q = r
    BY PoolsAssumption
  <1>6. QED
    BY <1>2, <1>3, <1>4, <1>5

LEMMA NotPooled ==
  ASSUME NEW c, c \notin Connections
  PROVE  ~Pooled(c)
  BY PoolsAssumption DEF Pooled

\* One thread at a time is on a connection that one thread's code names.
LEMMA OneOnIt ==
  ASSUME TypeInv, CustodyInv, NEW c \in Connections, Sole(c),
         NEW t \in Threads, NEW u \in Threads, OnIt(t, c), OnIt(u, c)
  PROVE  t = u
  <1>1. CASE Pooled(c)
    BY <1>1 DEF CustodyInv, OneEach
  <1>2. CASE ~Pooled(c)
    <2>1. ASSUME NEW v \in Threads, OnIt(v, c) PROVE c \in uses[v]
      BY <1>2, <2>1 DEF OnIt, CustodyInv, FramesCustody, CallsCustody, FramesOn
    <2>2. QED
      BY <2>1 DEF Sole
  <1>3. QED
    BY <1>1, <1>2

LEMMA FreeConnections ==
  ASSUME TypeInv, CustodyInv, NEW p \in Pools, NEW c \in free[p]
  PROVE  /\ Pooled(c) /\ c \in Connections /\ c \in PoolConnections[p]
         /\ \A t \in Threads : FramesOn(t, c) = {} /\ target[t] # c
  BY PoolFacts DEF CustodyInv, FreeCustody, OnIt, Pooled

LEMMA PinnedPooled ==
  ASSUME TypeInv, CustodyInv, NEW t \in Threads, NEW f \in ToSet(stack[t]), f.pool # NoPool
  PROVE  Pooled(f.conn) /\ FramesOn(t, f.conn) # {}
  <1>1. f.pool \in Pools
    BY FrameTypes DEF Frame
  <1>2. QED
    BY <1>1 DEF CustodyInv, FramesCustody, Pooled, FramesOn

LEMMA CustodyKept ==
  ASSUME TypeInv, CustodyInv, UNCHANGED <<uses, free, stack, target, via>>
  PROVE  CustodyInv'
  <1>1. \A u, c : (FramesOn(u, c)' = FramesOn(u, c)) /\ (OnIt(u, c)' <=> OnIt(u, c))
    BY DEF FramesOn, OnIt
  <1>2. FramesCustody' /\ CallsCustody' /\ OneEach'
    BY <1>1 DEF CustodyInv, FramesCustody, CallsCustody, OneEach, Pooled
  <1>3. FreeCustody'
    BY <1>1 DEF CustodyInv, FreeCustody
  <1>4. QED
    BY <1>2, <1>3 DEF CustodyInv

LEMMA StartCustody ==
  ASSUME TypeInv, CustodyInv, NEW t \in Threads, Start(t)
  PROVE  CustodyInv'
  <1>1. PICK c \in Connections, p \in Pools \cup {NoPool} :
           /\ target' = [target EXCEPT ![t] = c]
           /\ via' = [via EXCEPT ![t] = p]
           /\ IF p = NoPool
              THEN /\ free' = free
                   /\ \/ c \in uses[t]
                      \/ \E f \in ToSet(stack[t]) : f.conn = c /\ f.pool # NoPool
              ELSE c \in free[p] /\ free' = [free EXCEPT ![p] = @ \ {c}]
           /\ UNCHANGED <<uses, stack>>
    BY DEF Start, dataVars
  <1>2. \/ /\ p = NoPool /\ free' = free /\ c \in uses[t] /\ ~Pooled(c)
        \/ /\ p = NoPool /\ free' = free /\ Pooled(c) /\ FramesOn(t, c) # {}
        \/ /\ p # NoPool /\ p \in Pools /\ c \in free[p] /\ Pooled(c) /\ c \in PoolConnections[p]
           /\ free' = [free EXCEPT ![p] = @ \ {c}]
           /\ \A u \in Threads : ~OnIt(u, c)
    <2>1. CASE p = NoPool /\ c \in uses[t]
      BY <1>1, <2>1, PoolFacts
    <2>2. CASE p = NoPool /\ \E f \in ToSet(stack[t]) : f.conn = c /\ f.pool # NoPool
      BY <1>1, <2>2, PinnedPooled
    <2>3. CASE p # NoPool
      BY <1>1, <2>3, FreeConnections DEF OnIt
    <2>4. QED
      BY <1>1, <2>1, <2>2, <2>3
  <1>3. /\ \A u, x : FramesOn(u, x)' = FramesOn(u, x)
        /\ \A u \in Threads : u # t => target'[u] = target[u] /\ via'[u] = via[u]
        /\ target'[t] = c /\ via'[t] = p
        /\ \A u \in Threads : \A x : u # t \/ x # c => (OnIt(u, x)' => OnIt(u, x))
    BY <1>1 DEF FramesOn, OnIt, TypeInv
  <1>4. FramesCustody'
    BY <1>1 DEF CustodyInv, FramesCustody, Pooled
  <1>5. CallsCustody'
    <2>1. ASSUME NEW u \in Threads, u # t
          PROVE  /\ via'[u] # NoPool => /\ target'[u] \in PoolConnections[via'[u]]
                                        /\ FramesOn(u, target[u])' = {}
                 /\ via'[u] = NoPool /\ Pooled(target'[u]) => FramesOn(u, target[u])' # {}
                 /\ target'[u] \in Connections /\ ~Pooled(target'[u]) => target'[u] \in uses'[u]
      BY <1>1, <1>3, <2>1 DEF CustodyInv, CallsCustody
    <2>2. /\ via'[t] # NoPool => /\ target'[t] \in PoolConnections[via'[t]]
                                 /\ FramesOn(t, target[t])' = {}
          /\ via'[t] = NoPool /\ Pooled(target'[t]) => FramesOn(t, target[t])' # {}
          /\ target'[t] \in Connections /\ ~Pooled(target'[t]) => target'[t] \in uses'[t]
      BY <1>1, <1>2, <1>3 DEF OnIt
    <2>3. QED
      BY <2>1, <2>2 DEF CallsCustody, Pooled
  <1>6. FreeCustody'
    <2>1. ASSUME NEW q \in Pools, NEW x \in free'[q]
          PROVE  x \in free[q] /\ x # c
      <3>1. CASE free' = free /\ (~Pooled(c) \/ FramesOn(t, c) # {})
        BY <2>1, <3>1, FreeConnections
      <3>2. CASE /\ p \in Pools /\ c \in free[p] /\ c \in PoolConnections[p]
                 /\ free' = [free EXCEPT ![p] = @ \ {c}]
        <4>1. x \in free[q] /\ (q = p => x # c)
          BY <2>1, <3>2 DEF TypeInv
        <4>2. x \in PoolConnections[q] /\ Pooled(x)
          BY <4>1, FreeConnections
        <4>3. QED
          BY <3>2, <4>1, <4>2, PoolFacts
      <3>3. QED
        BY <1>2, <3>1, <3>2
    <2>2. QED
      BY <1>1, <1>3, <2>1 DEF CustodyInv, FreeCustody
  <1>7. OneEach'
    <2>1. ASSUME NEW x \in Connections, NEW u \in Threads, NEW v \in Threads,
                 Pooled(x), OnIt(u, x)', OnIt(v, x)'
          PROVE  u = v
      <3>1. CASE x # c
        BY <1>3, <2>1, <3>1 DEF CustodyInv, OneEach
      <3>2. CASE x = c /\ FramesOn(t, c) # {}
        BY <1>3, <2>1, <3>2 DEF CustodyInv, OneEach, OnIt
      <3>3. CASE x = c /\ \A w \in Threads : ~OnIt(w, c)
        BY <1>3, <2>1, <3>3
      <3>4. QED
        BY <1>2, <2>1, <3>1, <3>2, <3>3
    <2>2. QED
      BY <2>1 DEF OneEach, Pooled
  <1>8. QED
    BY <1>4, <1>5, <1>6, <1>7 DEF CustodyInv

LEMMA CallEndCustody ==
  ASSUME TypeInv, PhaseOK, CustodyInv, NEW t \in Threads, CallEnd(t)
  PROVE  CustodyInv'
  <1> DEFINE c == target[t]
             p == via[t]
  <1>1. /\ target' = [target EXCEPT ![t] = NoConnection]
        /\ via' = [via EXCEPT ![t] = NoPool]
        /\ IF p = NoPool
           THEN UNCHANGED free
           ELSE free' = [free EXCEPT ![p] = @ \cup {c}]
        /\ UNCHANGED <<uses, stack>>
    BY DEF CallEnd, Forget
  <1>2. c \in Connections /\ p \in Pools \cup {NoPool}
    BY DEF CallEnd, PhaseOK, TypeInv
  <1>3. p # NoPool => /\ c \in PoolConnections[p] /\ FramesOn(t, c) = {} /\ Pooled(c)
                      /\ \A u \in Threads : u # t => ~OnIt(u, c)
    BY <1>2 DEF CustodyInv, CallsCustody, OneEach, OnIt, Pooled
  <1> HIDE DEF c, p
  <1>4. /\ \A u, x : FramesOn(u, x)' = FramesOn(u, x)
        /\ \A u \in Threads : u # t => target'[u] = target[u] /\ via'[u] = via[u]
        /\ target'[t] = NoConnection /\ via'[t] = NoPool
    BY <1>1 DEF FramesOn, TypeInv
  <1>5. \A u \in Threads, x \in Connections : OnIt(u, x)' => OnIt(u, x)
    BY <1>4, NamesAssumption DEF OnIt
  <1>6. FramesCustody'
    BY <1>1 DEF CustodyInv, FramesCustody, Pooled
  <1>7. CallsCustody'
    BY <1>1, <1>4, NotPooled, NamesAssumption DEF CustodyInv, CallsCustody, Pooled
  <1>8. FreeCustody'
    <2>1. ASSUME NEW q \in Pools, NEW x \in free'[q]
          PROVE  /\ x \in PoolConnections[q]
                 /\ \A u \in Threads : ~OnIt(u, x)'
      <3>1. CASE x \in free[q]
        BY <1>1, <1>5, <3>1, FreeConnections DEF OnIt, TypeInv
      <3>2. CASE x = c /\ q = p /\ p # NoPool
        <4>1. \A u \in Threads : ~OnIt(u, x)'
          BY <1>2, <1>3, <1>4, <1>5, <3>2, NamesAssumption DEF OnIt
        <4>2. QED
          BY <1>3, <3>2, <4>1
      <3>3. QED
        BY <1>1, <2>1, <3>1, <3>2 DEF TypeInv
    <2>2. QED
      BY <2>1 DEF FreeCustody
  <1>9. OneEach'
    BY <1>5 DEF CustodyInv, OneEach, Pooled
  <1>10. QED
    BY <1>6, <1>7, <1>8, <1>9 DEF CustodyInv

\* The levels of a thread's blocks on a connection only it is on.
LEMMA SessionOf ==
  ASSUME SessionInv, NEW c \in Connections, Sole(c), NEW t \in Threads
  PROVE  Session(t, c)
  BY DEF SessionInv

LEMMA OpensCustody ==
  ASSUME Inv, NEW t \in Threads, Opens(t)
  PROVE  CustodyInv'
  <1>0. TypeInv /\ PhaseOK /\ BlocksInv /\ NestingInv /\ CustodyInv /\ SessionInv
    BY DEF Inv
  <1> DEFINE c == target[t]
             p == via[t]
  <1>1. PICK f \in Frame :
          /\ stack' = [stack EXCEPT ![t] = Append(@, f)]
          /\ f.conn = c /\ f.pool = p
          /\ f.level = IF phase[t] = "begin" THEN 0 ELSE level[t]
    BY <1>0, OpensFrame DEF NewFrame
  <1>2. /\ phase[t] \in {"begin", "savepoint"} /\ c \in Connections
        /\ target' = [target EXCEPT ![t] = NoConnection]
        /\ via' = [via EXCEPT ![t] = NoPool]
        /\ UNCHANGED <<uses, free>>
    BY <1>0, OpensFrame DEF Forget
  <1>3. Pooled(c) => (p # NoPool <=> f.level = 0)
    <2>1. SUFFICES ASSUME Pooled(c) PROVE p # NoPool <=> f.level = 0
      OBVIOUS
    <2>2. Session(t, c)
      BY <1>0, <1>2, <2>1, PoolFacts, SessionOf
    <2>3. CASE phase[t] = "begin"
      <3>1. FramesOn(t, c) = {}
        BY <2>2, <2>3 DEF Session
      <3>2. p # NoPool
        BY <1>0, <2>1, <3>1 DEF CustodyInv, CallsCustody
      <3>3. QED
        BY <1>1, <2>3, <3>2
    <2>4. CASE phase[t] = "savepoint"
      <3>1. FramesOn(t, c) # {}
        BY <1>0, <2>4 DEF NestingInv
      <3>2. p = NoPool
        BY <1>0, <3>1 DEF CustodyInv, CallsCustody
      <3>3. level[t] = Depth(t, c) + 1 /\ Depth(t, c) \in Nat
        BY <2>2, <2>4, <3>1 DEF Session
      <3>4. f.level # 0
        BY <1>1, <2>4, <3>3
      <3>5. QED
        BY <3>2, <3>4
    <2>5. QED
      BY <1>2, <2>3, <2>4
  <1>4. p # NoPool => c \in PoolConnections[p]
    BY <1>0 DEF CustodyInv, CallsCustody
  <1>5. ~Pooled(c) => c \in uses[t]
    BY <1>0, <1>2 DEF CustodyInv, CallsCustody
  <1> HIDE DEF c, p
  <1>6. /\ \A u \in Threads : \A x : FramesOn(u, x)' =
              IF u = t /\ f.conn = x THEN FramesOn(u, x) \cup {f} ELSE FramesOn(u, x)
        /\ ToSet(stack'[t]) = ToSet(stack[t]) \cup {f}
        /\ \A u \in Threads : u # t => stack'[u] = stack[u]
    BY <1>0, <1>1, FramesPushed
  <1>7. /\ \A u \in Threads : u # t => target'[u] = target[u] /\ via'[u] = via[u]
        /\ target'[t] = NoConnection /\ via'[t] = NoPool /\ target[t] = c
    BY <1>0, <1>2 DEF TypeInv, c
  <1>8. \A u \in Threads, x \in Connections : OnIt(u, x)' => OnIt(u, x)
    BY <1>1, <1>6, <1>7, NamesAssumption DEF OnIt
  <1>9. FramesCustody'
    <2>1. ASSUME NEW u \in Threads, NEW g \in ToSet(stack'[u])
          PROVE  /\ g.pool # NoPool => g.conn \in PoolConnections[g.pool]
                 /\ Pooled(g.conn) => (g.pool # NoPool <=> g.level = 0)
                 /\ ~Pooled(g.conn) => g.conn \in uses[u]
      <3>1. CASE g \in ToSet(stack[u])
        BY <1>0, <3>1 DEF CustodyInv, FramesCustody
      <3>2. CASE u = t /\ g = f
        BY <1>1, <1>3, <1>4, <1>5, <3>2
      <3>3. QED
        BY <1>6, <2>1, <3>1, <3>2
    <2>2. QED
      BY <1>2, <2>1 DEF FramesCustody, Pooled
  <1>10. CallsCustody'
    <2>1. ASSUME NEW u \in Threads, u # t
          PROVE  /\ via'[u] # NoPool => /\ target'[u] \in PoolConnections[via'[u]]
                                        /\ FramesOn(u, target[u])' = {}
                 /\ via'[u] = NoPool /\ Pooled(target'[u]) => FramesOn(u, target[u])' # {}
                 /\ target'[u] \in Connections /\ ~Pooled(target'[u]) => target'[u] \in uses'[u]
      BY <1>0, <1>2, <1>6, <1>7, <2>1 DEF CustodyInv, CallsCustody
    <2>2. /\ via'[t] # NoPool => /\ target'[t] \in PoolConnections[via'[t]]
                                 /\ FramesOn(t, target[t])' = {}
          /\ via'[t] = NoPool /\ Pooled(target'[t]) => FramesOn(t, target[t])' # {}
          /\ target'[t] \in Connections /\ ~Pooled(target'[t]) => target'[t] \in uses'[t]
      BY <1>7, NotPooled, NamesAssumption
    <2>3. QED
      BY <2>1, <2>2 DEF CallsCustody, Pooled
  <1>11. FreeCustody'
    BY <1>0, <1>2, <1>8, FreeConnections DEF FreeCustody, OnIt
  <1>12. OneEach'
    BY <1>0, <1>8 DEF CustodyInv, OneEach, Pooled
  <1>13. QED
    BY <1>9, <1>10, <1>11, <1>12 DEF CustodyInv

\* The last block on a connection leaves it with none of its thread.
LEMMA LastBlock ==
  ASSUME TypeInv, PhaseOK, BlocksInv, NestingInv, SessionInv, NEW t \in Threads,
         phase[t] = "closing", NEW f, f = Top(t), Sole(f.conn)
  PROVE  /\ stack[t] # <<>> /\ f \in FramesOn(t, f.conn) /\ f.level = 0
         /\ FramesOn(t, f.conn) = {f}
         /\ Depth(t, f.conn) = 0
  <1> DEFINE n == Len(stack[t])
  <1>1. stack[t] # <<>>
    BY DEF PhaseOK
  <1>2. /\ n \in DOMAIN stack[t] /\ f = stack[t][n] /\ n \in Nat /\ f \in Frame
        /\ f \in FramesOn(t, f.conn) /\ f.conn \in Connections
        /\ DOMAIN stack[t] = 1..n
    BY <1>1, TopTypes, FrameAt DEF Top, FramesOn, Frame
  <1>3. f.level = 0
    BY <1>2 DEF BlocksInv
  <1>4. Session(t, f.conn)
    BY <1>2, SessionOf
  <1>5. /\ Depth(t, f.conn) \in Nat
        /\ {g.level : g \in FramesOn(t, f.conn)} = 0..Depth(t, f.conn)
    BY <1>2, <1>4 DEF Session
  <1> HIDE DEF n
  <1>6. ASSUME NEW g \in FramesOn(t, f.conn) PROVE g = f /\ g.level = 0
    <2>1. PICK i \in DOMAIN stack[t] : g = stack[t][i] /\ g.conn = f.conn /\ g \in Frame
      BY FrameAt
    <2>2. g.level \in Nat
      BY <1>5
    <2>3. CASE i < n
      <3>1. g.level < f.level
        BY <1>2, <2>1, <2>3 DEF NestingInv
      <3>2. QED
        BY <1>3, <2>2, <3>1
    <2>4. CASE i = n
      BY <1>2, <1>3, <2>1, <2>4
    <2>5. QED
      BY <1>2, <2>1, <2>3, <2>4
  <1>7. FramesOn(t, f.conn) = {f}
    BY <1>2, <1>6
  <1>8. Depth(t, f.conn) = 0
    <2>1. \A d \in 0..Depth(t, f.conn) : d = 0
      BY <1>5, <1>6
    <2>2. Depth(t, f.conn) \in 0..Depth(t, f.conn)
      BY <1>5
    <2>3. QED
      BY <2>1, <2>2
  <1>9. QED
    BY <1>1, <1>2, <1>3, <1>5, <1>7, <1>8

LEMMA PopsCustody ==
  ASSUME Inv, NEW t \in Threads, Pops(t)
  PROVE  CustodyInv'
  <1>0. TypeInv /\ PhaseOK /\ BlocksInv /\ NestingInv /\ CustodyInv /\ SessionInv
    BY DEF Inv
  <1> PICK f : f = Top(t)
    OBVIOUS
  <1> DEFINE c == f.conn
             p == f.pool
  <1>1. /\ stack[t] # <<>> /\ f \in Frame /\ f = Top(t)
        /\ stack' = [stack EXCEPT ![t] = Pop(t)]
        /\ phase[t] \in {"user", "raising", "closing"}
        /\ UNCHANGED <<uses, target, via>>
        /\ \/ free' = free
           \/ /\ phase[t] = "closing" /\ p # NoPool
              /\ free' = [free EXCEPT ![p] = @ \cup {c}]
    BY <1>0, PopsFrame DEF GiveBack, Rollback, callVars, dataVars
  <1>2. c \in Connections /\ p \in Pools \cup {NoPool}
    BY <1>1 DEF Frame
  <1>3. /\ \A u \in Threads : \A x : FramesOn(u, x)' =
              IF u = t /\ c = x THEN FramesOn(u, x) \ {f} ELSE FramesOn(u, x)
        /\ f \in FramesOn(t, c)
        /\ ToSet(stack'[t]) = ToSet(stack[t]) \ {f}
        /\ \A u \in Threads : u # t => stack'[u] = stack[u]
    <2>1. /\ \A u \in Threads : \A x : FramesOn(u, x)' =
                IF u = t /\ Top(t).conn = x THEN FramesOn(u, x) \ {Top(t)} ELSE FramesOn(u, x)
          /\ Top(t) \in FramesOn(t, Top(t).conn)
          /\ ToSet(stack'[t]) = ToSet(stack[t]) \ {Top(t)}
          /\ \A u \in Threads : u # t => stack'[u] = stack[u]
      BY <1>0, <1>1, FramesPopped
    <2>2. QED
      BY <1>1, <2>1
  <1>4. p # NoPool => c \in PoolConnections[p] /\ Pooled(c)
    <2>1. f \in ToSet(stack[t])
      BY <1>0, <1>1, TopTypes
    <2>2. QED
      BY <1>0, <1>2, <2>1, PinnedPooled DEF CustodyInv, FramesCustody
  <1>5. phase[t] = "closing" /\ p # NoPool => FramesOn(t, c) = {f}
    BY <1>0, <1>4, LastBlock, PoolFacts
  <1>6. target[t] = NoConnection /\ via[t] = NoPool
    BY <1>0, <1>1 DEF PhaseOK, InCall, TypeInv
  <1> HIDE DEF c, p
  <1>7. \A u \in Threads : \A x : OnIt(u, x)' => OnIt(u, x)
    BY <1>1, <1>3 DEF OnIt
  <1>8. FramesCustody'
    BY <1>0, <1>1, <1>3 DEF CustodyInv, FramesCustody, Pooled
  <1>9. CallsCustody'
    <2>1. ASSUME NEW u \in Threads
          PROVE  /\ via[u] # NoPool => /\ target[u] \in PoolConnections[via[u]]
                                       /\ FramesOn(u, target[u])' = {}
                 /\ via[u] = NoPool /\ Pooled(target[u]) => FramesOn(u, target[u])' # {}
                 /\ target[u] \in Connections /\ ~Pooled(target[u]) => target[u] \in uses[u]
      <3>1. CASE u = t
        BY <1>6, <3>1, NotPooled, NamesAssumption
      <3>2. CASE u # t
        <4>1. FramesOn(u, target[u])' = FramesOn(u, target[u])
          BY <1>1, <1>3, <3>2
        <4>2. QED
          BY <1>0, <4>1 DEF CustodyInv, CallsCustody
      <3>3. QED
        BY <3>1, <3>2
    <2>2. QED
      BY <1>1, <2>1 DEF CallsCustody, Pooled
  <1>10. FreeCustody'
    <2>1. ASSUME NEW q \in Pools, NEW x \in free'[q]
          PROVE  /\ x \in PoolConnections[q]
                 /\ \A u \in Threads : ~OnIt(u, x)'
      <3>1. CASE x \in free[q]
        <4>1. x \in PoolConnections[q] /\ \A u \in Threads : ~OnIt(u, x)
          BY <1>0, <1>3, <3>1, FreeConnections DEF OnIt
        <4>2. QED
          BY <1>7, <4>1
      <3>2. CASE x = c /\ q = p /\ p # NoPool /\ phase[t] = "closing"
        <4>1. ~OnIt(t, c)'
          BY <1>1, <1>2, <1>3, <1>5, <1>6, <3>2, NamesAssumption DEF OnIt
        <4>2. ASSUME NEW u \in Threads, u # t PROVE ~OnIt(u, c)'
          BY <1>0, <1>2, <1>3, <1>4, <1>7, <3>2, <4>2 DEF CustodyInv, OneEach, OnIt
        <4>3. QED
          BY <1>4, <3>2, <4>1, <4>2
      <3>3. QED
        BY <1>0, <1>1, <2>1, <3>1, <3>2 DEF TypeInv
    <2>2. QED
      BY <2>1 DEF FreeCustody
  <1>11. OneEach'
    BY <1>0, <1>7 DEF CustodyInv, OneEach, Pooled
  <1>12. QED
    BY <1>8, <1>9, <1>10, <1>11 DEF CustodyInv

LEMMA NextCustody ==
  ASSUME Inv, [Next]_vars
  PROVE  CustodyInv'
  <1>0. TypeInv /\ PhaseOK /\ BlocksInv /\ NestingInv /\ CustodyInv /\ SessionInv
    BY DEF Inv
  <1>1. CASE UNCHANGED vars
    BY <1>0, <1>1, CustodyKept DEF vars, threadVars, callVars
  <1>2. ASSUME NEW t \in Threads, Move(t) \/ RegisterNested(t) \/ Execute(t)
        PROVE  CustodyInv'
    BY <1>0, <1>2, CustodyKept DEF Move, RegisterNested, Execute, callVars
  <1>3. ASSUME NEW t \in Threads, Ends(t)
        PROVE  CustodyInv'
    <2>1. UNCHANGED <<uses, free, stack, target, via>>
      BY <1>0, <1>3, EndsFrame DEF callVars
    <2>2. QED
      BY <1>0, <2>1, CustodyKept
  <1>4. ASSUME NEW c \in Connections, Lose(c)
        PROVE  CustodyInv'
    BY <1>0, <1>4, CustodyKept DEF Lose, threadVars, callVars
  <1>5. CASE Next
    BY <1>0, <1>2, <1>3, <1>4, <1>5, Kinds, StartCustody, CallEndCustody,
       OpensCustody, PopsCustody
  <1>6. QED
    BY <1>1, <1>5

-----------------------------------------------------------------------------
(* The registry and the blocks of a connection *)

\* The innermost block is the deepest one on its connection.
LEMMA TopIsDeepest ==
  ASSUME TypeInv, NestingInv, SessionInv, NEW t \in Threads, stack[t] # <<>>,
         NEW f, f = Top(t), Sole(f.conn)
  PROVE  /\ f \in FramesOn(t, f.conn) /\ f.conn \in Connections
         /\ Depth(t, f.conn) \in Nat /\ f.level = Depth(t, f.conn)
         /\ {g.level : g \in FramesOn(t, f.conn) \ {f}} = 0..(f.level - 1)
  <1> DEFINE n == Len(stack[t])
             d == Depth(t, f.conn)
  <1>1. /\ n \in DOMAIN stack[t] /\ f = stack[t][n] /\ n \in Nat /\ f \in Frame
        /\ f \in FramesOn(t, f.conn) /\ f.conn \in Connections
        /\ DOMAIN stack[t] = 1..n
    BY TopTypes, FrameAt DEF Top, FramesOn, Frame
  <1>2. d \in Nat /\ {g.level : g \in FramesOn(t, f.conn)} = 0..d
    BY <1>1, SessionOf DEF Session
  <1> HIDE DEF n, d
  <1>3. ASSUME NEW g \in FramesOn(t, f.conn), g # f PROVE g.level < f.level
    <2>1. PICK i \in DOMAIN stack[t] : g = stack[t][i] /\ g.conn = f.conn
      BY FrameAt
    <2>2. i < n
      BY <1>1, <1>3, <2>1
    <2>3. QED
      BY <1>1, <2>1, <2>2 DEF NestingInv
  <1>4. f.level = d
    <2>1. PICK g \in FramesOn(t, f.conn) : g.level = d
      BY <1>2
    <2>2. f.level \in 0..d
      BY <1>1, <1>2
    <2>3. QED
      BY <1>2, <1>3, <2>1, <2>2
  <1>5. ASSUME NEW g \in FramesOn(t, f.conn) \ {f} PROVE g.level \in 0..(f.level - 1)
    <2>1. g.level \in 0..d
      BY <1>2
    <2>2. g.level < f.level
      BY <1>3
    <2>3. QED
      BY <1>2, <1>4, <2>1, <2>2
  <1>6. ASSUME NEW k \in 0..(f.level - 1)
        PROVE  \E g \in FramesOn(t, f.conn) \ {f} : g.level = k
    <2>1. k \in 0..d /\ k # f.level
      BY <1>2, <1>4
    <2>2. QED
      BY <1>2, <2>1
  <1>7. QED
    BY <1>1, <1>2, <1>4, <1>5, <1>6 DEF d

\* A thread that is off a connection has no say in its session.
LEMMA SessionOff ==
  ASSUME NEW t \in Threads, NEW c \in Connections, FramesOn(t, c)' = {}, target'[t] # c
  PROVE  Session(t, c)'
  BY DEF Session

LEMMA SessionSame ==
  ASSUME NEW t \in Threads, NEW c \in Connections, Session(t, c),
         stack'[t] = stack[t], phase'[t] = phase[t],
         target'[t] = target[t], level'[t] = level[t], registry'[c] = registry[c]
  PROVE  Session(t, c)'
  BY DEF Session, FramesOn, Depth, Opening

\* One step of thread t, on connection x.
LEMMA SessionStep ==
  ASSUME Inv, NEW t \in Threads, NEW x \in Connections, uses' = uses,
         \A u \in Threads : u # t => /\ stack'[u] = stack[u] /\ phase'[u] = phase[u]
                                     /\ target'[u] = target[u] /\ level'[u] = level[u],
         \A c \in Connections : c # x => /\ registry'[c] = registry[c]
                                        /\ FramesOn(t, c)' = FramesOn(t, c)
                                        /\ target[t] # c /\ target'[t] # c,
         OnIt(t, x) \/ registry'[x] = registry[x],
         Sole(x) => Session(t, x)',
         Sole(x) /\ Vacant(x)' => registry'[x] = NoEntry
  PROVE  SessionInv'
  <1>0. TypeInv /\ CustodyInv /\ SessionInv
    BY DEF Inv
  <1>1. \A c : Sole(c)' <=> Sole(c)
    BY DEF Sole
  <1>2. \A u \in Threads : \A c : u # t => FramesOn(u, c)' = FramesOn(u, c)
    BY DEF FramesOn
  <1>3. ASSUME NEW c \in Connections, Sole(c), NEW u \in Threads
        PROVE  Session(u, c)'
    <2>1. Session(u, c)
      BY <1>0, <1>3, SessionOf
    <2>2. CASE c # x /\ u # t
      BY <2>1, <2>2, SessionSame
    <2>3. CASE c # x /\ u = t
      <3>1. /\ FramesOn(t, c)' = FramesOn(t, c) /\ target'[t] # c
            /\ Depth(t, c) = registry[c].depth - 0 /\ Depth(t, c)' = registry'[c].depth - 0
        BY <2>3 DEF Depth, Opening
      <3>2. QED
        BY <2>1, <2>3, <3>1 DEF Session
    <2>4. CASE c = x /\ u = t
      BY <1>3, <2>4
    <2>5. CASE c = x /\ u # t /\ OnIt(t, x)
      <3>1. ~OnIt(u, x)
        BY <1>0, <1>3, <2>5, OneOnIt
      <3>2. FramesOn(u, x)' = {} /\ target'[u] # x
        BY <1>2, <2>5, <3>1 DEF OnIt
      <3>3. QED
        BY <2>5, <3>2, SessionOff
    <2>6. CASE c = x /\ u # t /\ registry'[x] = registry[x]
      BY <2>1, <2>6, SessionSame
    <2>7. QED
      BY <2>2, <2>3, <2>4, <2>5, <2>6
  <1>4. ASSUME NEW c \in Connections, Sole(c), Vacant(c)'
        PROVE  registry'[c] = NoEntry
    <2>1. CASE c = x
      BY <1>4, <2>1
    <2>2. CASE c # x
      <3>1. Vacant(c)
        BY <1>2, <1>4, <2>2 DEF Vacant
      <3>2. QED
        BY <1>0, <1>4, <2>2, <3>1 DEF SessionInv
    <2>3. QED
      BY <2>1, <2>2
  <1>5. QED
    BY <1>1, <1>3, <1>4 DEF SessionInv

LEMMA StartSession ==
  ASSUME Inv, NEW t \in Threads, Start(t)
  PROVE  SessionInv'
  <1>0. TypeInv /\ PhaseOK /\ CustodyInv /\ SessionInv
    BY DEF Inv
  <1>1. PICK x \in Connections, next \in {"enter", "execute"} :
           /\ phase[t] = "user"
           /\ phase' = [phase EXCEPT ![t] = next]
           /\ target' = [target EXCEPT ![t] = x]
           /\ level' = [level EXCEPT ![t] = 0]
           /\ UNCHANGED <<uses, registry, stack>>
    BY DEF Start
  <1>2. target[t] = NoConnection
    <2>1. phase[t] = "user"
      BY <1>1
    <2>2. phase[t] \notin InCall
      BY <2>1 DEF InCall
    <2>3. QED
      BY <1>0, <2>2 DEF PhaseOK, TypeInv
  <1>3. /\ \A u \in Threads : u # t => phase'[u] = phase[u] /\ target'[u] = target[u]
                                       /\ level'[u] = level[u]
        /\ phase'[t] = next /\ target'[t] = x
        /\ \A u, c : FramesOn(u, c)' = FramesOn(u, c)
    BY <1>0, <1>1 DEF TypeInv, FramesOn
  <1>4. \A c \in Connections : target[t] # c
    BY <1>2, NamesAssumption
  <1>5. Sole(x) => Session(t, x)'
    <2>1. SUFFICES ASSUME Sole(x) PROVE Session(t, x)'
      OBVIOUS
    <2>2. Session(t, x)
      BY <1>0, <2>1, SessionOf
    <2>3. Depth(t, x) = registry[x].depth - 0 /\ Depth(t, x)' = registry'[x].depth - 0
      BY <1>1, <1>3, <1>4 DEF Depth, Opening
    <2>4. QED
      BY <1>1, <1>3, <1>4, <2>2, <2>3 DEF Session
  <1>6. Sole(x) /\ Vacant(x)' => registry'[x] = NoEntry
    BY <1>0, <1>1, <1>3 DEF SessionInv, Vacant
  <1>7. QED
    BY <1>1, <1>3, <1>4, <1>5, <1>6, SessionStep

LEMMA MoveSession ==
  ASSUME Inv, NEW t \in Threads, Move(t)
  PROVE  SessionInv'
  <1>0. TypeInv /\ PhaseOK /\ BlocksInv /\ NestingInv /\ CustodyInv /\ SessionInv
    BY DEF Inv
  <1>1. UNCHANGED <<uses, registry, stack, target>>
    BY DEF Move
  <1>2. PICK next \in Phases :
          /\ phase' = [phase EXCEPT ![t] = next]
          /\ \/ /\ phase[t] = "enter" /\ next = "begin" /\ registry[target[t]] = NoEntry
                /\ level' = level
             \/ /\ phase[t] = "enter" /\ next = "nest" /\ registry[target[t]].owner = t
                /\ level' = [level EXCEPT ![t] = registry[target[t]].depth + 1]
             \/ /\ phase[t] \in {"execute", "commit"} /\ next = "undo"
                /\ registry[target[t]] = NoEntry /\ level' = level
             \/ /\ phase[t] = "decide" /\ next = "commit" /\ registry[target[t]] = NoEntry
                /\ level' = level
             \/ /\ phase[t] = "user" /\ next = "raising" /\ stack[t] # <<>>
                /\ level' = level
    BY DEF Move
  <1>3. PICK x \in Connections :
          /\ IF phase[t] = "user" THEN stack[t] # <<>> /\ x = Top(t).conn ELSE x = target[t]
          /\ OnIt(t, x)
          /\ \A c \in Connections : c # x => target[t] # c
    <2>1. CASE phase[t] = "user"
      <3>1. stack[t] # <<>>
        BY <1>2, <2>1
      <3>2. Top(t).conn \in Connections /\ Top(t) \in FramesOn(t, Top(t).conn)
        BY <1>0, <3>1, TopTypes DEF Frame, FramesOn
      <3>3. target[t] = NoConnection
        BY <1>0, <2>1 DEF PhaseOK, InCall, TypeInv
      <3>4. QED
        BY <2>1, <3>1, <3>2, <3>3, NamesAssumption DEF OnIt
    <2>2. CASE phase[t] # "user"
      BY <1>0, <1>2, <2>2 DEF PhaseOK, InCall, OnIt
    <2>3. QED
      BY <2>1, <2>2
  <1>4. /\ \A u \in Threads : u # t => phase'[u] = phase[u] /\ level'[u] = level[u]
        /\ phase'[t] = next
        /\ phase[t] # "savepoint" /\ next # "savepoint"
        /\ \A u, c : FramesOn(u, c)' = FramesOn(u, c)
    BY <1>0, <1>1, <1>2 DEF TypeInv, FramesOn
  <1>5. Sole(x) => Session(t, x)'
    <2>1. SUFFICES ASSUME Sole(x) PROVE Session(t, x)'
      OBVIOUS
    <2>2. Session(t, x)
      BY <1>0, <2>1, SessionOf
    <2>3. Depth(t, x) = registry[x].depth - 0 /\ Depth(t, x)' = registry[x].depth - 0
      BY <1>1, <1>4 DEF Depth, Opening
    <2>4. FramesOn(t, x) # {} => registry[x].owner = t
      BY <2>2 DEF Session
    <2>5. CASE next \in {"begin", "undo", "commit"}
      <3>1. registry[x] = NoEntry
        BY <1>2, <1>3, <2>5
      <3>2. FramesOn(t, x) = {}
        BY <2>4, <3>1, NamesAssumption
      <3>3. QED
        BY <1>1, <1>4, <2>5, <3>2 DEF Session
    <2>6. CASE next = "nest"
      <3>1. level'[t] = registry[x].depth + 1
        BY <1>0, <1>2, <1>3, <2>6 DEF TypeInv
      <3>2. registry[x].depth - 0 = registry[x].depth
        BY <1>0 DEF TypeInv
      <3>3. QED
        BY <1>1, <1>4, <2>2, <2>3, <2>6, <3>1, <3>2 DEF Session
    <2>7. CASE next = "raising"
      BY <1>1, <1>4, <2>2, <2>3, <2>7 DEF Session
    <2>8. QED
      BY <1>2, <2>5, <2>6, <2>7
  <1>6. Sole(x) /\ Vacant(x)' => registry'[x] = NoEntry
    BY <1>0, <1>1, <1>4 DEF SessionInv, Vacant
  <1>7. QED
    BY <1>1, <1>3, <1>4, <1>5, <1>6, SessionStep

LEMMA CallEndSession ==
  ASSUME Inv, NEW t \in Threads, CallEnd(t)
  PROVE  SessionInv'
  <1>0. TypeInv /\ PhaseOK /\ BlocksInv /\ NestingInv /\ CustodyInv /\ SessionInv
    BY DEF Inv
  <1>1. PICK x \in Connections : x = target[t] /\ phase[t] \in InCall
    BY <1>0 DEF CallEnd, PhaseOK
  <1>2. /\ \E next \in {"user", "raising"} : phase' = [phase EXCEPT ![t] = next]
        /\ target' = [target EXCEPT ![t] = NoConnection]
        /\ level' = [level EXCEPT ![t] = 0]
        /\ UNCHANGED <<uses, stack>>
    BY DEF CallEnd, Forget
  <1>3. IF phase[t] = "savepoint"
        THEN registry' = [registry EXCEPT ![x] = Entry(t, level[t] - 1)]
        ELSE registry' = registry
    BY <1>1 DEF CallEnd
  <1>4. /\ \A u \in Threads : u # t => phase'[u] = phase[u] /\ target'[u] = target[u]
                                       /\ level'[u] = level[u]
        /\ phase'[t] \in {"user", "raising"} /\ target'[t] = NoConnection
        /\ \A u, c : FramesOn(u, c)' = FramesOn(u, c)
    BY <1>0, <1>2 DEF TypeInv, FramesOn
  <1>5. \A c \in Connections : c # x => registry'[c] = registry[c]
    BY <1>0, <1>3 DEF TypeInv
  <1>6. Sole(x) => Session(t, x)'
    <2>1. SUFFICES ASSUME Sole(x) PROVE Session(t, x)'
      OBVIOUS
    <2>2. Session(t, x)
      BY <1>0, <2>1, SessionOf
    <2>3. CASE FramesOn(t, x) = {}
      BY <1>4, <2>3, SessionOff, NamesAssumption
    <2>4. CASE FramesOn(t, x) # {}
      <3>1. registry'[x].owner = t /\ Depth(t, x)' = Depth(t, x)
        <4>1. Depth(t, x)' = registry'[x].depth - 0
          BY <1>4, NamesAssumption DEF Depth, Opening
        <4>2. registry[x].depth \in Int /\ registry[x].owner = t /\ level[t] \in Int
          BY <1>0, <2>2, <2>4 DEF TypeInv, Session
        <4>3. CASE phase[t] = "savepoint"
          <5>1. registry'[x] = Entry(t, level[t] - 1)
            BY <1>0, <1>3, <4>3 DEF TypeInv
          <5>2. level[t] = Depth(t, x) + 1 /\ Depth(t, x) \in Nat
            BY <1>1, <2>2, <2>4, <4>3 DEF Session
          <5>3. QED
            BY <4>1, <5>1, <5>2 DEF Entry
        <4>4. CASE phase[t] # "savepoint"
          <5>1. Depth(t, x) = registry[x].depth - 0
            BY <4>4 DEF Depth, Opening
          <5>2. QED
            BY <1>3, <4>1, <4>2, <4>4, <5>1
        <4>5. QED
          BY <4>3, <4>4
      <3>2. QED
        BY <1>4, <2>2, <3>1, NamesAssumption DEF Session
    <2>5. QED
      BY <2>3, <2>4
  <1>7. Sole(x) /\ Vacant(x)' => registry'[x] = NoEntry
    <2>1. SUFFICES ASSUME Sole(x), Vacant(x) PROVE registry'[x] = NoEntry
      BY <1>4 DEF Vacant
    <2>2. registry[x] = NoEntry
      BY <1>0, <2>1 DEF SessionInv
    <2>3. phase[t] # "savepoint"
      BY <1>0, <1>1, <2>1 DEF NestingInv, Vacant
    <2>4. QED
      BY <1>3, <2>2, <2>3
  <1>8. OnIt(t, x) /\ \A c \in Connections : c # x => target[t] # c /\ target'[t] # c
    BY <1>1, <1>4, NamesAssumption DEF OnIt
  <1>9. QED
    BY <1>2, <1>4, <1>5, <1>6, <1>7, <1>8, SessionStep

LEMMA RegisterNestedSession ==
  ASSUME Inv, NEW t \in Threads, RegisterNested(t)
  PROVE  SessionInv'
  <1>0. TypeInv /\ PhaseOK /\ BlocksInv /\ NestingInv /\ CustodyInv /\ SessionInv
    BY DEF Inv
  <1>1. phase[t] = "nest"
    BY DEF RegisterNested
  <1>2. PICK x \in Connections : x = target[t] /\ OnIt(t, x)
    BY <1>0, <1>1 DEF PhaseOK, InCall, OnIt
  <1>3. /\ registry' = [registry EXCEPT ![x] = Entry(t, level[t])]
        /\ phase' = [phase EXCEPT ![t] = "savepoint"]
        /\ UNCHANGED <<uses, stack, target, level>>
    BY <1>2 DEF RegisterNested, callVars
  <1>4. /\ \A u \in Threads : u # t => phase'[u] = phase[u]
        /\ phase'[t] = "savepoint"
        /\ \A u, c : FramesOn(u, c)' = FramesOn(u, c)
        /\ registry'[x] = Entry(t, level[t])
        /\ \A c \in Connections : c # x => registry'[c] = registry[c]
    BY <1>0, <1>3 DEF TypeInv, FramesOn
  <1>5. FramesOn(t, x) # {}
    BY <1>0, <1>1, <1>2 DEF NestingInv
  <1>6. Sole(x) => Session(t, x)'
    <2>1. SUFFICES ASSUME Sole(x) PROVE Session(t, x)'
      OBVIOUS
    <2>2. Session(t, x)
      BY <1>0, <2>1, SessionOf
    <2>3. level[t] = Depth(t, x) + 1 /\ Depth(t, x) \in Nat
      BY <1>1, <1>2, <1>5, <2>2 DEF Session
    <2>4. Depth(t, x)' = level[t] - 1
      BY <1>2, <1>3, <1>4 DEF Depth, Opening, Entry
    <2>5. Depth(t, x)' = Depth(t, x) /\ registry'[x].owner = t
      BY <1>4, <2>3, <2>4 DEF Entry
    <2>6. QED
      BY <1>3, <1>4, <1>5, <2>2, <2>3, <2>5 DEF Session
  <1>7. ~Vacant(x)'
    BY <1>4, <1>5 DEF Vacant
  <1>8. QED
    BY <1>2, <1>3, <1>4, <1>6, <1>7, SessionStep

LEMMA OpensSession ==
  ASSUME Inv, NEW t \in Threads, Opens(t)
  PROVE  SessionInv'
  <1>0. TypeInv /\ PhaseOK /\ BlocksInv /\ NestingInv /\ CustodyInv /\ SessionInv
    BY DEF Inv
  <1>1. PICK x \in Connections : x = target[t] /\ OnIt(t, x)
    BY <1>0, OpensFrame DEF OnIt
  <1>2. PICK f \in Frame :
          /\ stack' = [stack EXCEPT ![t] = Append(@, f)]
          /\ f.conn = x /\ f.level = IF phase[t] = "begin" THEN 0 ELSE level[t]
    BY <1>0, <1>1, OpensFrame DEF NewFrame
  <1>3. /\ phase[t] \in {"begin", "savepoint"}
        /\ phase' = [phase EXCEPT ![t] = "user"]
        /\ target' = [target EXCEPT ![t] = NoConnection]
        /\ level' = [level EXCEPT ![t] = 0]
        /\ uses' = uses
        /\ IF phase[t] = "begin"
           THEN registry' = [registry EXCEPT ![x] = Entry(t, 0)]
           ELSE registry' = registry
    BY <1>0, <1>1, OpensFrame DEF Forget
  <1>4. /\ \A u \in Threads : u # t => /\ stack'[u] = stack[u] /\ phase'[u] = phase[u]
                                       /\ target'[u] = target[u] /\ level'[u] = level[u]
        /\ phase'[t] = "user" /\ target'[t] = NoConnection
        /\ \A u \in Threads : \A c : FramesOn(u, c)' =
              IF u = t /\ x = c THEN FramesOn(u, c) \cup {f} ELSE FramesOn(u, c)
    <2>1. /\ \A u \in Threads : \A c : FramesOn(u, c)' =
                IF u = t /\ f.conn = c THEN FramesOn(u, c) \cup {f} ELSE FramesOn(u, c)
          /\ \A u \in Threads : u # t => stack'[u] = stack[u]
      BY <1>0, <1>2, FramesPushed
    <2>2. /\ \A u \in Threads : u # t => /\ phase'[u] = phase[u]
                                         /\ target'[u] = target[u] /\ level'[u] = level[u]
          /\ phase'[t] = "user" /\ target'[t] = NoConnection
      BY <1>0, <1>3 DEF TypeInv
    <2>3. QED
      BY <1>2, <2>1, <2>2
  <1>5. \A c \in Connections : c # x => registry'[c] = registry[c]
    BY <1>0, <1>3 DEF TypeInv
  <1>6. Sole(x) => Session(t, x)'
    <2>1. SUFFICES ASSUME Sole(x) PROVE Session(t, x)'
      OBVIOUS
    <2>2. Session(t, x)
      BY <1>0, <2>1, SessionOf
    <2>3. Depth(t, x)' = registry'[x].depth - 0 /\ target'[t] # x
      BY <1>4, NamesAssumption DEF Depth, Opening
    <2>4. FramesOn(t, x)' = FramesOn(t, x) \cup {f}
      BY <1>4
    <2>5. CASE phase[t] = "begin"
      <3>1. FramesOn(t, x) = {}
        BY <1>1, <2>2, <2>5 DEF Session
      <3>2. registry'[x].owner = t /\ Depth(t, x)' = 0 /\ 0 \in Nat
        BY <1>0, <1>3, <2>3, <2>5 DEF TypeInv, Entry
      <3>3. {g.level : g \in FramesOn(t, x)'} = 0..0
        BY <1>2, <2>4, <2>5, <3>1
      <3>4. QED
        BY <2>3, <3>2, <3>3 DEF Session
    <2>6. CASE phase[t] = "savepoint"
      <3> DEFINE d == Depth(t, x)
      <3>1. FramesOn(t, x) # {}
        BY <1>0, <1>1, <2>6 DEF NestingInv
      <3>2. /\ level[t] = d + 1 /\ d \in Nat /\ registry[x].owner = t
            /\ {g.level : g \in FramesOn(t, x)} = 0..d
        BY <1>1, <2>2, <2>6, <3>1 DEF Session
      <3>3. Depth(t, x)' = d + 1 /\ registry'[x].owner = t
        <4>1. d = registry[x].depth - 1 /\ registry[x].depth \in Int
          BY <1>0, <1>1, <2>6 DEF Depth, Opening, TypeInv
        <4>2. QED
          BY <1>3, <2>3, <2>6, <3>2, <4>1
      <3>4. {g.level : g \in FramesOn(t, x)'} = 0..(d + 1)
        <4>1. f.level = d + 1 /\ d \in Nat
          BY <1>2, <2>6, <3>2
        <4> HIDE DEF d
        <4>2. ASSUME NEW g \in FramesOn(t, x)' PROVE g.level \in 0..(d + 1)
          <5>1. CASE g = f
            BY <4>1, <5>1
          <5>2. CASE g \in FramesOn(t, x)
            <6>1. g.level \in 0..d
              BY <3>2, <5>2
            <6>2. QED
              BY <4>1, <6>1
          <5>3. QED
            BY <2>4, <5>1, <5>2
        <4>3. ASSUME NEW k \in 0..(d + 1) PROVE \E g \in FramesOn(t, x)' : g.level = k
          <5>1. CASE k = d + 1
            BY <2>4, <4>1, <5>1
          <5>2. CASE k \in 0..d
            BY <2>4, <3>2, <5>2
          <5>3. QED
            BY <4>1, <5>1, <5>2
        <4>4. QED
          BY <4>2, <4>3
      <3> HIDE DEF d
      <3>5. d + 1 \in Nat
        BY <3>2
      <3>6. QED
        BY <2>3, <3>3, <3>4, <3>5 DEF Session
    <2>7. QED
      BY <1>3, <2>5, <2>6
  <1>7. ~Vacant(x)'
    BY <1>4 DEF Vacant
  <1>8. \A c \in Connections : c # x => /\ target[t] # c /\ target'[t] # c
                                        /\ FramesOn(t, c)' = FramesOn(t, c)
    BY <1>1, <1>4, NamesAssumption
  <1>9. QED
    BY <1>1, <1>3, <1>4, <1>5, <1>6, <1>7, <1>8, SessionStep

LEMMA PopsSession ==
  ASSUME Inv, NEW t \in Threads, Pops(t)
  PROVE  SessionInv'
  <1>0. TypeInv /\ PhaseOK /\ BlocksInv /\ NestingInv /\ CustodyInv /\ SessionInv
    BY DEF Inv
  <1>1. PICK f \in Frame : f = Top(t)
    BY <1>0, PopsFrame
  <1> DEFINE x == f.conn
  <1>2. /\ stack[t] # <<>> /\ x \in Connections /\ f.level \in Int
        /\ stack' = [stack EXCEPT ![t] = Pop(t)]
        /\ \E next \in {"user", "raising"} : phase' = [phase EXCEPT ![t] = next]
        /\ UNCHANGED <<uses, target, level>>
    BY <1>0, <1>1, PopsFrame DEF callVars, Frame
  <1>3. \/ /\ phase[t] \in {"user", "raising"} /\ f.level > 0
           /\ registry' = [registry EXCEPT ![x] = Entry(t, f.level - 1)]
        \/ /\ phase[t] = "closing"
           /\ registry' = [registry EXCEPT ![x] = NoEntry]
    BY <1>0, <1>1, PopsFrame
  <1>4. phase'[t] \in {"user", "raising"} /\ target[t] = NoConnection
    BY <1>0, <1>2, <1>3 DEF TypeInv, PhaseOK, InCall
  <1>5. /\ f \in FramesOn(t, x)
        /\ \A u \in Threads : u # t => /\ stack'[u] = stack[u] /\ phase'[u] = phase[u]
                                       /\ target'[u] = target[u] /\ level'[u] = level[u]
        /\ \A u \in Threads : \A c : FramesOn(u, c)' =
              IF u = t /\ x = c THEN FramesOn(u, c) \ {f} ELSE FramesOn(u, c)
    <2>1. /\ \A u \in Threads : \A c : FramesOn(u, c)' =
                IF u = t /\ Top(t).conn = c THEN FramesOn(u, c) \ {Top(t)} ELSE FramesOn(u, c)
          /\ Top(t) \in FramesOn(t, Top(t).conn)
          /\ \A u \in Threads : u # t => stack'[u] = stack[u]
      BY <1>0, <1>2, FramesPopped
    <2>2. QED
      BY <1>0, <1>1, <1>2, <2>1 DEF TypeInv
  <1> HIDE DEF x
  <1>6. \A c \in Connections : c # x => registry'[c] = registry[c]
    BY <1>0, <1>3 DEF TypeInv
  <1>7. ASSUME Sole(x), phase[t] = "closing"
        PROVE  Session(t, x)' /\ registry'[x] = NoEntry
    <2>1. FramesOn(t, x) = {f}
      BY <1>0, <1>1, <1>7, LastBlock DEF x
    <2>2. FramesOn(t, x)' = {} /\ target'[t] # x
      BY <1>2, <1>4, <1>5, <2>1, NamesAssumption
    <2>3. Session(t, x)'
      BY <1>2, <2>2, SessionOff
    <2>4. registry'[x] = NoEntry
      BY <1>0, <1>2, <1>3, <1>7 DEF TypeInv
    <2>5. QED
      BY <2>3, <2>4
  <1>8. ASSUME Sole(x), phase[t] # "closing"
        PROVE  Session(t, x)' /\ ~Vacant(x)'
    <2> DEFINE d == f.level
    <2>1. Session(t, x)
      BY <1>0, <1>2, <1>8, SessionOf
    <2>2. /\ d \in Nat \ {0} /\ d = Depth(t, x) /\ registry'[x] = Entry(t, d - 1)
          /\ {g.level : g \in FramesOn(t, x) \ {f}} = 0..(d - 1)
      <3>1. /\ d = Depth(t, x) /\ d \in Nat
            /\ {g.level : g \in FramesOn(t, x) \ {f}} = 0..(d - 1)
        BY <1>0, <1>1, <1>2, <1>8, TopIsDeepest DEF x
      <3>2. QED
        BY <1>0, <1>2, <1>3, <1>8, <3>1 DEF TypeInv
    <2>3. Depth(t, x)' = d - 1 /\ target'[t] # x
      <3>1. Depth(t, x)' = registry'[x].depth - 0 /\ target'[t] # x
        BY <1>2, <1>4, NamesAssumption DEF Depth, Opening
      <3>2. QED
        BY <2>2, <3>1 DEF Entry
    <2>4. {g.level : g \in FramesOn(t, x)'} = 0..(d - 1)
      BY <1>5, <2>2
    <2>5. FramesOn(t, x)' # {}
      <3>1. 0 \in 0..(d - 1)
        BY <2>2
      <3>2. QED
        BY <2>4, <3>1
    <2>6. d - 1 \in Nat /\ registry'[x].owner = t
      BY <2>2 DEF Entry
    <2>7. Session(t, x)'
      BY <2>3, <2>4, <2>6 DEF Session
    <2>8. QED
      BY <2>5, <2>7 DEF Vacant
  <1>9. /\ OnIt(t, x)
        /\ \A c \in Connections : c # x => /\ target[t] # c /\ target'[t] # c
                                           /\ FramesOn(t, c)' = FramesOn(t, c)
    BY <1>2, <1>4, <1>5, NamesAssumption DEF OnIt
  <1>10. QED
    BY <1>2, <1>5, <1>6, <1>7, <1>8, <1>9, SessionStep

\* A step that leaves the registry and the blocks on each connection alone.
LEMMA SessionKept ==
  ASSUME Inv, UNCHANGED <<uses, registry, stack, target, level>>,
         \A t \in Threads :
            \/ phase'[t] = phase[t]
            \/ phase[t] # "savepoint"
               /\ phase'[t] \notin {"begin", "undo", "commit", "nest", "savepoint"}
  PROVE  SessionInv'
  <1>1. \A c : (Sole(c)' <=> Sole(c)) /\ (Vacant(c)' <=> Vacant(c))
    BY DEF Sole, Vacant, FramesOn
  <1>2. ASSUME NEW t \in Threads, NEW c \in Connections, Session(t, c)
        PROVE  Session(t, c)'
    <2>1. CASE phase'[t] = phase[t]
      BY <1>2, <2>1, SessionSame
    <2>2. CASE phase'[t] # phase[t]
      <3>1. Depth(t, c)' = Depth(t, c)
        BY <2>2 DEF Depth, Opening
      <3>2. QED
        BY <1>2, <2>2, <3>1 DEF Session, FramesOn
    <2>3. QED
      BY <2>1, <2>2
  <1>3. QED
    BY <1>1, <1>2 DEF Inv, SessionInv

LEMMA NextSession ==
  ASSUME Inv, [Next]_vars
  PROVE  SessionInv'
  <1>1. CASE UNCHANGED vars
    BY <1>1, SessionKept DEF vars, threadVars, callVars
  <1>2. ASSUME NEW t \in Threads, Ends(t) PROVE SessionInv'
    <2>1. /\ UNCHANGED <<uses, registry, stack, target, level>>
          /\ phase[t] \in {"user", "raising"} /\ phase' = [phase EXCEPT ![t] = "closing"]
      BY <1>2, EndsFrame DEF callVars, Inv
    <2>2. QED
      BY <2>1, SessionKept DEF Inv, TypeInv
  <1>3. ASSUME NEW t \in Threads, Execute(t) PROVE SessionInv'
    <2>1. /\ UNCHANGED <<uses, registry, stack, target, level>>
          /\ phase[t] = "execute" /\ phase' = [phase EXCEPT ![t] = "decide"]
      BY <1>3 DEF Execute, callVars
    <2>2. QED
      BY <2>1, SessionKept DEF Inv, TypeInv
  <1>4. ASSUME NEW c \in Connections, Lose(c) PROVE SessionInv'
    BY <1>4, SessionKept DEF Lose, threadVars, callVars
  <1>5. CASE Next
    BY <1>2, <1>3, <1>4, <1>5, Kinds, StartSession, MoveSession, CallEndSession,
       RegisterNestedSession, OpensSession, PopsSession DEF Inv
  <1>6. QED
    BY <1>1, <1>5

-----------------------------------------------------------------------------
(* Savepoints in a sequence, and how a block ends *)

LEMMA CutAt ==
  ASSUME NEW s \in Seq(Marks), NEW m \in Int, 0 <= m, m <= Len(s)
  PROVE  /\ DOMAIN SubSeq(s, 1, m) = 1..m
         /\ \A i \in 1..m : i \in DOMAIN s /\ SubSeq(s, 1, m)[i] = s[i]
  <1>1. Len(s) \in Nat /\ DOMAIN s = 1..Len(s)
    OBVIOUS
  <1>2. \A i \in 1..m : s[i] \in Marks
    BY <1>1, ElementOfSeq
  <1>3. /\ SubSeq(s, 1, m) \in Seq(Marks)
        /\ Len(SubSeq(s, 1, m)) = IF 1 <= m THEN m - 1 + 1 ELSE 0
        /\ \A i \in 1..(m - 1 + 1) : SubSeq(s, 1, m)[i] = s[1 + i - 1]
    BY <1>2, SubSeqProperties
  <1>4. m - 1 + 1 = m /\ (~(1 <= m) => m = 0) /\ \A i \in 1..m : 1 + i - 1 = i
    OBVIOUS
  <1>5. Len(SubSeq(s, 1, m)) = m
    BY <1>3, <1>4
  <1>6. DOMAIN SubSeq(s, 1, m) = 1..m
    BY <1>3, <1>5, LenProperties
  <1>7. QED
    BY <1>1, <1>3, <1>4, <1>6

\* The savepoint in force is the one that only deeper ones come after.
LEMMA LatestIs ==
  ASSUME NEW s \in Sessions, NEW d \in Int, NEW k \in DOMAIN s.savepoints,
         s.savepoints[k].name = d,
         \A j \in DOMAIN s.savepoints : k < j => d < s.savepoints[j].name
  PROVE  SavepointsNamed(s, d) # {} /\ LatestSavepoint(s, d) = k
  <1>1. k \in SavepointsNamed(s, d)
    BY DEF SavepointsNamed
  <1>2. LatestSavepoint(s, d) \in SavepointsNamed(s, d)
    BY <1>1, LatestSavepointIn
  <1>3. /\ s.savepoints \in Seq(Marks) /\ Len(s.savepoints) \in Nat
        /\ DOMAIN s.savepoints = 1..Len(s.savepoints)
    BY DEF Sessions
  <1>4. PICK l \in DOMAIN s.savepoints : l = LatestSavepoint(s, d) /\ s.savepoints[l].name = d
    BY <1>2 DEF SavepointsNamed
  <1>5. ~(k < l)
    BY <1>4
  <1>6. \A j \in SavepointsNamed(s, d) : j <= LatestSavepoint(s, d)
    <2>1. \E i \in SavepointsNamed(s, d) : \A j \in SavepointsNamed(s, d) : j <= i
      BY <1>1, <1>3, LastOf DEF SavepointsNamed
    <2>2. QED
      BY <2>1, Zenon DEF LatestSavepoint
  <1>7. k <= l
    BY <1>1, <1>4, <1>6
  <1>8. QED
    BY <1>1, <1>3, <1>4, <1>5, <1>7

\* How a block ended is settled once.
Settled ==
    \A b \in Blocks : outcome[b] \notin {"unused", "open"} => outcome'[b] = outcome[b]

\* The blocks of the stacks that are open, by frame.
LEMMA FrameOutcome ==
  ASSUME TypeInv, BlocksInv, NEW t \in Threads, NEW f \in ToSet(stack[t])
  PROVE  /\ f.block \in Blocks /\ outcome[f.block] # "unused"
         /\ outcome[f.block] = "open" \/ (phase[t] = "closing" /\ f = Top(t))
         /\ phase[t] = "closing" /\ f = Top(t) => outcome[f.block] \in Ended
  <1>1. f \in FramesOn(t, f.conn)
    BY DEF FramesOn
  <1>2. PICK i \in DOMAIN stack[t] : f = stack[t][i] /\ f \in Frame
    BY <1>1, FrameAt
  <1>3. outcome[f.block] = "open" \/ (phase[t] = "closing" /\ i = Len(stack[t]))
    BY <1>2 DEF BlocksInv
  <1>4. phase[t] = "closing" /\ f = Top(t) => outcome[f.block] \in Ended
    <2>1. Len(stack[t]) \in DOMAIN stack[t]
      BY <1>2, FrameAt
    <2>2. QED
      BY <2>1 DEF BlocksInv, Top
  <1>5. phase[t] = "closing" /\ i = Len(stack[t]) => f = Top(t)
    BY <1>2 DEF Top
  <1>6. QED
    BY <1>2, <1>3, <1>4, <1>5 DEF Frame, Ended

\* Of two frames with one block there is one.
LEMMA OneFrame ==
  ASSUME TypeInv, BlocksInv, NEW t \in Threads, NEW u \in Threads,
         NEW f \in ToSet(stack[t]), NEW g \in ToSet(stack[u]), f.block = g.block
  PROVE  t = u /\ f = g
  <1>1. PICK i \in DOMAIN stack[t] : f = stack[t][i]
    BY FrameAt DEF ToSet
  <1>2. PICK j \in DOMAIN stack[u] : g = stack[u][j]
    BY FrameAt DEF ToSet
  <1>3. QED
    BY <1>1, <1>2 DEF BlocksInv

EndsAs(f, end) == outcome' = [outcome EXCEPT ![f.block] = end]

BlockEnded(f, end) ==
    /\ Settled /\ outcome[f.block] = "open" /\ outcome'[f.block] = end
    /\ \A u \in Threads : \A g \in ToSet(stack[u]) :
          g # f => outcome'[g.block] = outcome[g.block]
    /\ \A b \in Blocks : b # f.block => outcome'[b] = outcome[b]

\* One open block ends: no other one does.
LEMMA BlockEnds ==
  ASSUME TypeInv, BlocksInv, NEW t \in Threads, NEW f \in ToSet(stack[t]), phase[t] # "closing",
         NEW end, EndsAs(f, end)
  PROVE  BlockEnded(f, end)
  <1>1. f.block \in Blocks /\ outcome[f.block] = "open"
    BY FrameOutcome
  <1>2. outcome'[f.block] = end /\ \A b \in Blocks : b # f.block => outcome'[b] = outcome[b]
    BY <1>1 DEF TypeInv, EndsAs
  <1>3. ASSUME NEW u \in Threads, NEW g \in ToSet(stack[u]), g # f
        PROVE  outcome'[g.block] = outcome[g.block]
    <2>1. g.block # f.block
      BY <1>3, OneFrame
    <2>2. QED
      BY <1>2, <2>1, FrameOutcome
  <1>4. QED
    BY <1>1, <1>2, <1>3 DEF Settled, BlockEnded

\* One block opens.
LEMMA BlockOpens ==
  ASSUME TypeInv, BlocksInv, NEW b \in Fresh, b \in Blocks,
         outcome' = [outcome EXCEPT ![b] = "open"]
  PROVE  /\ Settled /\ outcome[b] = "unused" /\ outcome'[b] = "open"
         /\ \A u \in Threads : \A g \in ToSet(stack[u]) :
               g.block # b /\ outcome'[g.block] = outcome[g.block]
  <1>1. outcome[b] = "unused"
    BY DEF Fresh
  <1>2. outcome'[b] = "open" /\ \A a \in Blocks : a # b => outcome'[a] = outcome[a]
    BY DEF TypeInv
  <1>3. QED
    BY <1>1, <1>2, FrameOutcome DEF Settled

-----------------------------------------------------------------------------
(* What the transaction of a connection holds *)

LEMMA MarkTypes ==
  ASSUME TypeInv, NEW c \in Connections
  PROVE  LET s == pending[c].savepoints IN
         /\ pending[c] \in Sessions /\ pending[c].writes \subseteq Writes
         /\ s \in Seq(Marks) /\ Len(s) \in Nat /\ DOMAIN s = 1..Len(s)
         /\ \A i \in DOMAIN s : s[i].name \in Int /\ s[i].block \in Blocks
  <1> DEFINE s == pending[c].savepoints
  <1>1. pending[c] \in Sessions /\ pending[c].writes \subseteq Writes /\ s \in Seq(Marks)
    BY DEF TypeInv, Sessions
  <1> HIDE DEF s
  <1>2. Len(s) \in Nat /\ DOMAIN s = 1..Len(s)
    BY <1>1
  <1>3. \A i \in DOMAIN s : s[i] \in Marks
    BY <1>1, <1>2, ElementOfSeq
  <1>4. QED
    BY <1>1, <1>2, <1>3 DEF Marks, s

\* One thread's blocks are on a connection that it alone uses.
LEMMA OthersOff ==
  ASSUME Inv, NEW c \in Connections, Sole(c), NEW t \in Threads, OnIt(t, c)
  PROVE  \A u \in Threads : FramesOn(u, c) # {} => u = t
  BY OneOnIt DEF Inv, OnIt

\* Nothing is on the connection when its transaction is over.
LEMMA HeldIdle ==
  ASSUME NEW c \in Connections, pending'[c] = Idle,
         c \in lost' \/ \A t \in Threads : \A f \in FramesOn(t, c)' : ~(f.level > 0)
  PROVE  Held(c)'
  BY DEF Held, SavepointsOf, WritesOf, Idle

\* The step leaves the connection's blocks and its transaction alone.
LEMMA HeldSame ==
  ASSUME TypeInv, NEW c \in Connections, Held(c), Settled, pending'[c] = pending[c],
         \A t \in Threads : /\ FramesOn(t, c)' = FramesOn(t, c)
                            /\ \A f \in FramesOn(t, c) : outcome'[f.block] = outcome[f.block],
         Vacant(c) \/ (c \in lost' <=> c \in lost)
  PROVE  Held(c)'
  <1>1. /\ pending[c].writes \subseteq Writes
        /\ \A i \in DOMAIN pending[c].savepoints : pending[c].savepoints[i].block \in Blocks
    BY MarkTypes
  <1>2. ASSUME NEW b \in Blocks
        PROVE  /\ outcome[b] \in Unclosed => outcome'[b] = outcome[b]
               /\ outcome[b] \in Whole => outcome'[b] = outcome[b]
               /\ NestedOn(b, c) => NestedOn(b, c)'
               /\ OpenOn(b, c) => OpenOn(b, c)'
               /\ OuterOn(b, c) => OuterOn(b, c)'
    <2>1. /\ outcome[b] \in Unclosed => outcome'[b] = outcome[b]
          /\ outcome[b] \in Whole => outcome'[b] = outcome[b]
      BY DEF Settled, Unclosed, Whole
    <2>2. QED
      BY <2>1 DEF NestedOn, OpenOn, OuterOn, BlocksOn
  <1>3. SavepointsOf(c)'
    BY <1>1, <1>2 DEF Held, SavepointsOf
  <1>4. WritesOf(c)'
    <2>1. \A w \in pending[c].writes : \A b \in w.within : b \in Blocks
      BY <1>1 DEF Writes
    <2>2. ASSUME NEW w \in pending[c].writes
          PROVE  /\ \A b \in w.within : outcome'[b] \in Whole \/ OpenOn(b, c)'
                 /\ \/ w.within = {}
                    \/ \E b \in w.within : outcome'[b] = "stranded" \/ OuterOn(b, c)'
      <3>1. \A b \in w.within : outcome'[b] \in Whole \/ OpenOn(b, c)'
        BY <1>2, <2>1 DEF Held, WritesOf
      <3>2. CASE \E b \in w.within : outcome[b] = "stranded" \/ OuterOn(b, c)
        <4>1. PICK b \in w.within : outcome[b] = "stranded" \/ OuterOn(b, c)
          BY <3>2
        <4>2. b \in Blocks
          BY <2>1
        <4>3. outcome'[b] = "stranded" \/ OuterOn(b, c)'
          BY <1>2, <4>1, <4>2 DEF Whole
        <4>4. QED
          BY <3>1, <4>3
      <3>3. QED
        BY <3>1, <3>2 DEF Held, WritesOf
    <2>3. QED
      BY <2>2 DEF WritesOf
  <1>5. c \notin lost' => \A t \in Threads : \A f \in FramesOn(t, c)' :
           f.level > 0 => \E i \in DOMAIN pending'[c].savepoints : SetFor(f, c, i)'
    BY DEF Held, SetFor, Vacant
  <1>6. QED
    BY <1>3, <1>4, <1>5 DEF Held

\* One step, on connection x.
LEMMA HeldStep ==
  ASSUME Inv, NEW x \in Connections, uses' = uses, Settled,
         \A c \in Connections : c # x =>
            /\ pending'[c] = pending[c] /\ (c \in lost' <=> c \in lost)
            /\ \A t \in Threads : /\ FramesOn(t, c)' = FramesOn(t, c)
                                  /\ \A f \in FramesOn(t, c) : outcome'[f.block] = outcome[f.block],
         lost' \subseteq Connections, x \in lost' => pending'[x] = Idle,
         Sole(x) => Held(x)'
  PROVE  HeldInv'
  <1>1. ASSUME NEW c \in lost' PROVE pending'[c] = Idle
    BY <1>1 DEF Inv, HeldInv
  <1>2. ASSUME NEW c \in Connections, Sole(c) PROVE Held(c)'
    <2>1. CASE c = x
      BY <1>2, <2>1
    <2>2. CASE c # x
      BY <1>2, <2>2, HeldSame DEF Inv, HeldInv
    <2>3. QED
      BY <2>1, <2>2
  <1>3. \A c : Sole(c)' <=> Sole(c)
    BY DEF Sole
  <1>4. QED
    BY <1>1, <1>2, <1>3 DEF HeldInv

LEMMA CallEndHeld ==
  ASSUME Inv, NEW t \in Threads, CallEnd(t)
  PROVE  HeldInv'
  <1>0. TypeInv /\ PhaseOK /\ CustodyInv /\ SessionInv /\ HeldInv
    BY DEF Inv
  <1>1. PICK x \in Connections : x = target[t]
    BY <1>0 DEF CallEnd, PhaseOK
  <1>2. /\ UNCHANGED <<uses, stack, outcome>>
        /\ lost' \in {lost, lost \ {x}} /\ (via[t] = NoPool => lost' = lost)
        /\ \/ pending' = pending
           \/ /\ pending' = [pending EXCEPT ![x] = Idle]
              /\ via[t] # NoPool \/ phase[t] \in {"undo", "commit"}
    BY <1>1 DEF CallEnd
  <1>3. /\ \A u, c : FramesOn(u, c)' = FramesOn(u, c)
        /\ \A c \in Connections :
              c # x => pending'[c] = pending[c] /\ (c \in lost' <=> c \in lost)
        /\ lost' \subseteq Connections
    BY <1>0, <1>2 DEF FramesOn, TypeInv
  <1>4. Settled /\ \A b : outcome'[b] = outcome[b]
    BY <1>2 DEF Settled
  <1>5. ASSUME Sole(x), via[t] # NoPool \/ phase[t] \in {"undo", "commit"}
        PROVE  \A u \in Threads : FramesOn(u, x) = {}
    <2>1. FramesOn(t, x) = {}
      BY <1>0, <1>1, <1>5, SessionOf DEF CustodyInv, CallsCustody, Session
    <2>2. OnIt(t, x)
      BY <1>1 DEF OnIt
    <2>3. QED
      BY <1>5, <2>1, <2>2, OthersOff
  <1>6. Sole(x) => Held(x)'
    <2>1. SUFFICES ASSUME Sole(x) PROVE Held(x)'
      OBVIOUS
    <2>2. CASE pending' = pending
      <3>1. Vacant(x) \/ (x \in lost' <=> x \in lost)
        BY <1>2, <1>5, <2>1 DEF Vacant
      <3>2. Held(x)
        BY <1>0, <2>1 DEF HeldInv
      <3>3. QED
        BY <1>0, <1>3, <1>4, <2>2, <3>1, <3>2, HeldSame
    <2>3. CASE pending' # pending
      <3>1. pending'[x] = Idle
        BY <1>0, <1>2, <2>3 DEF TypeInv
      <3>2. \A u \in Threads : FramesOn(u, x)' = {}
        BY <1>2, <1>3, <1>5, <2>1, <2>3
      <3>3. QED
        BY <3>1, <3>2, HeldIdle
    <2>4. QED
      BY <2>2, <2>3
  <1>7. x \in lost' => pending'[x] = Idle
    BY <1>0, <1>2 DEF HeldInv, TypeInv
  <1>8. QED
    BY <1>2, <1>3, <1>4, <1>6, <1>7, HeldStep

\* What the statement wrote is in every block open there, the outermost too.
LEMMA ExecuteHeld ==
  ASSUME Inv, NEW t \in Threads, Execute(t)
  PROVE  HeldInv'
  <1>0. TypeInv /\ PhaseOK /\ BlocksInv /\ CustodyInv /\ SessionInv /\ HeldInv
    BY DEF Inv
  <1>1. PICK x \in Connections : x = target[t]
    BY <1>0 DEF Execute, PhaseOK, InCall
  <1>2. PICK w : w = Write(Cardinality(executed) + 1, BlocksOn(t, x))
    OBVIOUS
  <1>3. /\ phase[t] = "execute" /\ x \notin lost /\ w.within = BlocksOn(t, x)
        /\ pending' = [pending EXCEPT ![x].writes = @ \cup {w}]
        /\ UNCHANGED <<uses, stack, lost, outcome>>
    BY <1>1, <1>2 DEF Execute, Write
  <1>4. /\ pending'[x].writes = pending[x].writes \cup {w}
        /\ pending'[x].savepoints = pending[x].savepoints
        /\ \A c \in Connections : c # x => pending'[c] = pending[c]
        /\ \A u, c : FramesOn(u, c)' = FramesOn(u, c)
        /\ lost' \subseteq Connections
    BY <1>0, <1>3 DEF FramesOn, TypeInv, Sessions
  <1>5. /\ Settled
        /\ \A b, c : /\ NestedOn(b, c)' <=> NestedOn(b, c)
                     /\ OpenOn(b, c)' <=> OpenOn(b, c)
                     /\ OuterOn(b, c)' <=> OuterOn(b, c)
    BY <1>3, <1>4 DEF Settled, NestedOn, OpenOn, OuterOn, BlocksOn
  <1>6. ASSUME Sole(x) PROVE Held(x)'
    <2>1. Held(x) /\ Session(t, x)
      BY <1>0, <1>6, SessionOf DEF HeldInv
    <2>2. \A f \in FramesOn(t, x) : outcome[f.block] = "open"
      BY <1>0, <1>3, FrameOutcome DEF FramesOn
    <2>3. SavepointsOf(x)'
      BY <1>3, <1>4, <1>5, <2>1 DEF Held, SavepointsOf
    <2>4. /\ \A b \in w.within : OpenOn(b, x)
          /\ w.within = {} \/ \E b \in w.within : OuterOn(b, x)
      <3>1. \A b \in w.within : OpenOn(b, x)
        BY <1>3, <2>2 DEF OpenOn, BlocksOn
      <3>2. CASE FramesOn(t, x) # {}
        <4>1. 0 \in 0..Depth(t, x)
          BY <2>1, <3>2 DEF Session
        <4>2. PICK f \in FramesOn(t, x) : f.level = 0
          BY <2>1, <3>2, <4>1 DEF Session
        <4>3. f.block \in w.within /\ OuterOn(f.block, x)
          BY <1>3, <2>2, <4>2 DEF OuterOn, BlocksOn
        <4>4. QED
          BY <3>1, <4>3
      <3>3. QED
        BY <1>3, <3>1, <3>2 DEF BlocksOn
    <2>5. WritesOf(x)'
      BY <1>3, <1>4, <1>5, <2>1, <2>4 DEF Held, WritesOf
    <2>6. ASSUME NEW u \in Threads, NEW f \in FramesOn(u, x), f.level > 0
          PROVE  \E i \in DOMAIN pending'[x].savepoints : SetFor(f, x, i)'
      <3>1. u = t
        BY <1>1, <1>6, <2>6, OthersOff DEF OnIt
      <3>2. f.block \in w.within
        BY <1>3, <3>1 DEF BlocksOn
      <3>3. PICK i \in DOMAIN pending[x].savepoints : SetFor(f, x, i)
        BY <1>3, <2>1, <2>6 DEF Held
      <3>4. SetFor(f, x, i)'
        BY <1>4, <3>2, <3>3 DEF SetFor
      <3>5. QED
        BY <1>4, <3>4
    <2>7. QED
      BY <1>4, <2>3, <2>5, <2>6 DEF Held
  <1>7. QED
    BY <1>0, <1>3, <1>4, <1>5, <1>6, HeldStep

LEMMA LoseHeld ==
  ASSUME Inv, NEW x \in Connections, Lose(x)
  PROVE  HeldInv'
  <1>0. TypeInv
    BY DEF Inv
  <1>1. /\ lost' = lost \cup {x} /\ pending' = [pending EXCEPT ![x] = Idle]
        /\ UNCHANGED <<uses, stack, outcome>>
    BY DEF Lose, threadVars
  <1>2. /\ pending'[x] = Idle /\ x \in lost' /\ lost' \subseteq Connections
        /\ \A c \in Connections : c # x => pending'[c] = pending[c] /\ (c \in lost' <=> c \in lost)
        /\ \A u, c : FramesOn(u, c)' = FramesOn(u, c)
    BY <1>0, <1>1 DEF TypeInv, FramesOn
  <1>3. Settled
    BY <1>1 DEF Settled
  <1>4. Held(x)'
    BY <1>2, HeldIdle
  <1>5. QED
    BY <1>1, <1>2, <1>3, <1>4, HeldStep


\* A step that leaves the blocks and the transactions alone.
LEMMA HeldKept ==
  ASSUME Inv, UNCHANGED <<uses, stack, pending, lost, outcome>>
  PROVE  HeldInv'
  <1>1. Settled /\ \A u, c : FramesOn(u, c)' = FramesOn(u, c)
    BY DEF Settled, FramesOn
  <1>2. ASSUME NEW c \in Connections, Held(c) PROVE Held(c)'
    BY <1>1, <1>2, HeldSame DEF Inv
  <1>3. \A c : Sole(c)' <=> Sole(c)
    BY DEF Sole
  <1>4. QED
    BY <1>2, <1>3 DEF Inv, HeldInv

\* The savepoints stay, and each block that owned one does or leaves it.
LEMMA MarksKept ==
  ASSUME TypeInv, NEW c \in Connections, SavepointsOf(c), Settled, pending'[c] = pending[c],
         \A b \in Blocks : NestedOn(b, c) => NestedOn(b, c)' \/ outcome'[b] \in Unclosed
  PROVE  SavepointsOf(c)'
  <1>1. \A i \in DOMAIN pending[c].savepoints : pending[c].savepoints[i].block \in Blocks
    BY MarkTypes
  <1>2. \A b \in Blocks : outcome[b] \in Unclosed => outcome'[b] \in Unclosed
    BY DEF Settled, Unclosed
  <1>3. QED
    BY <1>1, <1>2 DEF SavepointsOf

\* Some of the writes stay, and each block they are in does or ends so that it
\* keeps them.
LEMMA WritesKept ==
  ASSUME TypeInv, NEW c \in Connections, WritesOf(c), Settled,
         pending'[c].writes \subseteq pending[c].writes,
         \A w \in pending'[c].writes : \A b \in w.within :
            /\ OpenOn(b, c) => OpenOn(b, c)' \/ outcome'[b] \in Whole
            /\ OuterOn(b, c) => OuterOn(b, c)' \/ outcome'[b] = "stranded"
  PROVE  WritesOf(c)'
  <1>1. \A w \in pending[c].writes : \A b \in w.within : b \in Blocks
    BY MarkTypes DEF Writes
  <1>2. \A b \in Blocks : outcome[b] \in Whole => outcome'[b] = outcome[b]
    BY DEF Settled, Whole
  <1>3. ASSUME NEW w \in pending'[c].writes
        PROVE  /\ \A b \in w.within : outcome'[b] \in Whole \/ OpenOn(b, c)'
               /\ w.within = {} \/ \E b \in w.within : outcome'[b] = "stranded" \/ OuterOn(b, c)'
    <2>1. /\ w \in pending[c].writes /\ \A b \in w.within : b \in Blocks
          /\ \A b \in w.within : outcome[b] \in Whole \/ OpenOn(b, c)
          /\ w.within = {} \/ \E b \in w.within : outcome[b] = "stranded" \/ OuterOn(b, c)
      BY <1>1 DEF WritesOf
    <2>2. ASSUME NEW b \in w.within PROVE outcome'[b] \in Whole \/ OpenOn(b, c)'
      BY <1>2, <2>1
    <2>3. ASSUME NEW b \in w.within, outcome[b] = "stranded" \/ OuterOn(b, c)
          PROVE  outcome'[b] = "stranded" \/ OuterOn(b, c)'
      BY <1>2, <2>1, <2>3 DEF Whole
    <2>4. QED
      BY <2>1, <2>2, <2>3
  <1>4. QED
    BY <1>3 DEF WritesOf

\* A block begins on a connection without one.
LEMMA BeginsHeld ==
  ASSUME Inv, NEW x \in Connections, Sole(x), Vacant(x), Settled, pending'[x] = pending[x],
         \A t \in Threads : \A f \in FramesOn(t, x)' : ~(f.level > 0)
  PROVE  Held(x)'
  <1>1. TypeInv /\ SavepointsOf(x) /\ WritesOf(x)
    BY DEF Inv, HeldInv, Held
  <1>2. \A b : ~NestedOn(b, x) /\ ~OpenOn(b, x) /\ ~OuterOn(b, x)
    BY DEF Vacant, NestedOn, OpenOn, OuterOn, BlocksOn
  <1>3. SavepointsOf(x)' /\ WritesOf(x)'
    BY <1>1, <1>2, MarksKept, WritesKept
  <1>4. QED
    BY <1>3 DEF Held

\* A nested one sets its savepoint, after those of the blocks around it.
LEMMA SetsHeld ==
  ASSUME Inv, NEW t \in Threads, NEW x \in Connections, Sole(x),
         NEW b \in Fresh, b \in Blocks, outcome' = [outcome EXCEPT ![b] = "open"],
         NEW f \in Frame, f.block = b, f.conn = x, f.level > 0,
         \A g \in FramesOn(t, x) : g.level < f.level,
         \A u \in Threads : u # t => FramesOn(u, x) = {},
         \A u \in Threads :
            FramesOn(u, x)' = IF u = t THEN FramesOn(u, x) \cup {f} ELSE FramesOn(u, x),
         pending' = [pending EXCEPT ![x].savepoints =
                        Append(@, Savepoint(f.level, b, pending[x].writes))],
         x \notin lost, lost' = lost
  PROVE  Held(x)'
  <1>a. PICK s, W, r : /\ s = pending[x].savepoints /\ W = pending[x].writes
                       /\ r = pending'[x].savepoints
    OBVIOUS
  <1>b. PICK n, m : n = Len(s) /\ m = Savepoint(f.level, b, W)
    OBVIOUS
  <1>0. TypeInv /\ BlocksInv /\ Held(x)
    BY DEF Inv, HeldInv
  <1>1. /\ s \in Seq(Marks) /\ n \in Nat /\ DOMAIN s = 1..n /\ W \subseteq Writes
        /\ \A i \in DOMAIN s : s[i].name \in Int /\ s[i].block \in Blocks
        /\ pending[x] \in Sessions
    BY <1>0, <1>a, <1>b, MarkTypes
  <1>2. /\ Settled /\ outcome[b] = "unused" /\ outcome'[b] = "open"
        /\ \A u \in Threads : \A g \in ToSet(stack[u]) :
              g.block # b /\ outcome'[g.block] = outcome[g.block]
    BY <1>0, BlockOpens
  <1>3. /\ m.name = f.level /\ m.block = b /\ m.writes = W
        /\ m \in Marks /\ f.level \in Int
    BY <1>1, <1>b DEF Savepoint, Marks, Frame
  <1>4. /\ pending'[x].writes = W /\ DOMAIN r = 1..(n + 1)
        /\ \A i \in DOMAIN s : r[i] = s[i]
        /\ r[n + 1] = m
    <2>1. pending'[x].writes = W /\ r = Append(s, m)
      BY <1>0, <1>1, <1>a, <1>b DEF TypeInv, Sessions
    <2>2. /\ Len(Append(s, m)) = n + 1 /\ Append(s, m) \in Seq(Marks)
          /\ \A i \in 1..n : Append(s, m)[i] = s[i]
          /\ Append(s, m)[n + 1] = m
      BY <1>1, <1>3, <1>b, AppendProperties
    <2>3. DOMAIN Append(s, m) = 1..(n + 1)
      BY <2>2, LenProperties
    <2>4. QED
      BY <1>1, <2>1, <2>2, <2>3
  <1>5. \A a \in Blocks : a # b => outcome'[a] = outcome[a]
    BY <1>0 DEF TypeInv
  <1>6. \A u \in Threads : \A g \in FramesOn(u, x) : g \in ToSet(stack[u]) /\ g.block # b
    BY <1>2 DEF FramesOn
  <1>7. \A a \in Blocks : /\ NestedOn(a, x) => NestedOn(a, x)' /\ a # b
                          /\ OpenOn(a, x) => OpenOn(a, x)' /\ a # b
                          /\ OuterOn(a, x) => OuterOn(a, x)' /\ a # b
    BY <1>5, <1>6 DEF NestedOn, OpenOn, OuterOn, BlocksOn
  <1>8. NestedOn(b, x)'
    BY DEF NestedOn
  <1>9. \A i \in DOMAIN s : /\ s[i].block # b /\ s[i].writes \subseteq W
                            /\ outcome'[s[i].block] \in Unclosed \/ NestedOn(s[i].block, x)'
    <2>1. ASSUME NEW i \in DOMAIN s
          PROVE  /\ s[i].block # b /\ s[i].writes \subseteq W
                 /\ outcome'[s[i].block] \in Unclosed \/ NestedOn(s[i].block, x)'
      <3>1. /\ s[i].writes \subseteq W /\ s[i].block \in Blocks
            /\ outcome[s[i].block] \in Unclosed \/ NestedOn(s[i].block, x)
        BY <1>0, <1>1, <1>a DEF Held, SavepointsOf
      <3>2. s[i].block # b
        BY <1>2, <1>7, <3>1 DEF Unclosed
      <3>3. QED
        BY <1>5, <1>7, <3>1, <3>2
    <2>2. QED
      BY <2>1
  <1>10. \A w \in W : b \notin w.within
    <2>1. ASSUME NEW w \in W, b \in w.within PROVE FALSE
      <3>1. outcome[b] \in Whole \/ OpenOn(b, x)
        BY <1>0, <1>a, <2>1 DEF Held, WritesOf
      <3>2. QED
        BY <1>2, <3>1 DEF Whole, OpenOn
    <2>2. QED
      BY <2>1
  <1>11. WritesOf(x)'
    <2>1. \A w \in W : \A a \in w.within : a \in Blocks
      BY <1>1 DEF Writes
    <2>2. QED
      BY <1>0, <1>2, <1>4, <1>7, <1>a, <2>1, WritesKept DEF Held
  <1>12. SavepointsOf(x)'
    <2>1. ASSUME NEW i \in DOMAIN r
          PROVE  /\ r[i].writes \subseteq W
                 /\ outcome'[r[i].block] \in Unclosed \/ NestedOn(r[i].block, x)'
      <3>1. CASE i \in DOMAIN s
        BY <1>4, <1>9, <3>1
      <3>2. CASE i = n + 1
        BY <1>3, <1>4, <1>8, <3>2
      <3>3. QED
        BY <1>1, <1>4, <3>1, <3>2
    <2>2. ASSUME NEW i \in DOMAIN r, NEW j \in DOMAIN r
          PROVE  /\ r[i].block = r[j].block => i = j
                 /\ j < i => r[j].writes \subseteq r[i].writes
      <3>1. CASE i \in DOMAIN s /\ j \in DOMAIN s
        <4>1. /\ s[i].block = s[j].block => i = j
              /\ j < i => s[j].writes \subseteq s[i].writes
          <5>1. SavepointsOf(x) /\ i \in DOMAIN pending[x].savepoints
                /\ j \in DOMAIN pending[x].savepoints
            BY <1>0, <1>a, <3>1 DEF Held
          <5>2. /\ pending[x].savepoints[i].block = pending[x].savepoints[j].block => i = j
                /\ j < i => pending[x].savepoints[j].writes \subseteq pending[x].savepoints[i].writes
            BY <5>1 DEF SavepointsOf
          <5>3. QED
            BY <1>a, <5>2
        <4>2. QED
          BY <1>4, <3>1, <4>1
      <3>2. CASE i = n + 1 /\ j \in DOMAIN s
        BY <1>1, <1>3, <1>4, <1>9, <3>2
      <3>3. CASE i \in DOMAIN s /\ j = n + 1
        BY <1>1, <1>3, <1>4, <1>9, <3>3
      <3>4. CASE i = n + 1 /\ j = n + 1
        BY <1>1, <3>4
      <3>5. QED
        BY <1>1, <1>4, <3>1, <3>2, <3>3, <3>4
    <2>3. pending'[x].savepoints = r /\ pending'[x].writes = W
      BY <1>4, <1>a
    <2>4. PICK v, V : v = pending'[x].savepoints /\ V = pending'[x].writes
      OBVIOUS
    <2>5. \A i \in DOMAIN v :
             /\ v[i].writes \subseteq V
             /\ outcome'[v[i].block] \in Unclosed \/ NestedOn(v[i].block, x)'
             /\ \A j \in DOMAIN v : /\ v[i].block = v[j].block => i = j
                                    /\ j < i => v[j].writes \subseteq v[i].writes
      <3>1. v = r /\ V = W
        BY <2>3, <2>4
      <3>2. QED
        BY <2>1, <2>2, <3>1
    <2>6. QED
      BY <2>4, <2>5 DEF SavepointsOf
  <1>13. ASSUME NEW u \in Threads, NEW g \in FramesOn(u, x)', g.level > 0
         PROVE  \E i \in DOMAIN pending'[x].savepoints : SetFor(g, x, i)'
    <2>1. pending'[x].savepoints = r /\ pending'[x].writes = W
      BY <1>4, <1>a
    <2>2. CASE g = f
      <3>1. n + 1 \in DOMAIN r /\ \A j \in DOMAIN r : ~(n + 1 < j)
        BY <1>1, <1>4
      <3>2. r[n + 1].writes = {w \in W : f.block \notin w.within}
        BY <1>3, <1>4, <1>10
      <3>3. SetFor(f, x, n + 1)'
        BY <1>3, <1>4, <2>1, <3>1, <3>2 DEF SetFor
      <3>4. QED
        BY <2>1, <2>2, <3>1, <3>3
    <2>3. CASE g # f
      <3>1. u = t /\ g \in FramesOn(t, x) /\ g.level < f.level
        BY <2>3
      <3>2. PICK i \in DOMAIN s : SetFor(g, x, i)
        BY <1>0, <1>13, <1>a, <3>1 DEF Held
      <3>3. /\ s[i].name = g.level /\ s[i].block = g.block
            /\ \A j \in DOMAIN s : i < j => g.level < s[j].name
            /\ s[i].writes = {w \in W : g.block \notin w.within}
        BY <1>a, <3>2 DEF SetFor
      <3>4. i \in DOMAIN r /\ r[i] = s[i]
        BY <1>1, <1>4
      <3>5. \A j \in DOMAIN r : i < j => g.level < r[j].name
        BY <1>1, <1>3, <1>4, <3>1, <3>3
      <3>6. SetFor(g, x, i)'
        BY <2>1, <3>3, <3>4, <3>5 DEF SetFor
      <3>7. QED
        BY <2>1, <3>4, <3>6
    <2>4. QED
      BY <2>2, <2>3
  <1>14. QED
    BY <1>11, <1>12, <1>13 DEF Held

LEMMA OpensHeld ==
  ASSUME Inv, NEW t \in Threads, Opens(t)
  PROVE  HeldInv'
  <1>0. TypeInv /\ PhaseOK /\ BlocksInv /\ CustodyInv /\ SessionInv /\ HeldInv
    BY DEF Inv
  <1>1. PICK x \in Connections : x = target[t] /\ OnIt(t, x)
    BY <1>0, OpensFrame DEF OnIt
  <1>2. PICK b \in Fresh :
          /\ b \in Blocks /\ NewFrame(t, b) \in Frame
          /\ stack' = [stack EXCEPT ![t] = Append(@, NewFrame(t, b))]
          /\ outcome' = [outcome EXCEPT ![b] = "open"]
          /\ pending' = IF phase[t] = "begin" THEN pending
                        ELSE [pending EXCEPT ![x].savepoints = Append(@, Mark(t, b))]
    BY <1>0, <1>1, OpensFrame
  <1>f. PICK f : f = NewFrame(t, b)
    OBVIOUS
  <1>3. /\ phase[t] \in {"begin", "savepoint"} /\ UNCHANGED <<uses, lost>>
        /\ phase[t] # "begin" => x \notin lost
        /\ f.block = b /\ f.conn = x
        /\ f.level = IF phase[t] = "begin" THEN 0 ELSE level[t]
    BY <1>0, <1>1, <1>f, OpensFrame DEF NewFrame
  <1>4. /\ \A u \in Threads : \A c : FramesOn(u, c)' =
              IF u = t /\ x = c THEN FramesOn(u, c) \cup {f} ELSE FramesOn(u, c)
    <2>1. f \in Frame /\ stack' = [stack EXCEPT ![t] = Append(@, f)]
      BY <1>2, <1>f
    <2>2. \A u \in Threads : \A c : FramesOn(u, c)' =
             IF u = t /\ f.conn = c THEN FramesOn(u, c) \cup {f} ELSE FramesOn(u, c)
      BY <1>0, <2>1, FramesPushed
    <2>3. QED
      BY <1>3, <2>2
  <1>5. /\ Settled
        /\ \A u \in Threads : \A g \in ToSet(stack[u]) : outcome'[g.block] = outcome[g.block]
    BY <1>0, <1>2, BlockOpens
  <1>6. \A c \in Connections : c # x =>
            /\ pending'[c] = pending[c] /\ (c \in lost' <=> c \in lost)
            /\ \A u \in Threads : /\ FramesOn(u, c)' = FramesOn(u, c)
                                  /\ \A g \in FramesOn(u, c) : outcome'[g.block] = outcome[g.block]
    <2>1. \A c \in Connections : c # x => pending'[c] = pending[c]
      BY <1>0, <1>2 DEF TypeInv
    <2>2. \A c : c \in lost' <=> c \in lost
      BY <1>3
    <2>3. \A c : c # x => \A u \in Threads : FramesOn(u, c)' = FramesOn(u, c)
      BY <1>4
    <2>4. \A c : \A u \in Threads : \A g \in FramesOn(u, c) : g \in ToSet(stack[u])
      BY DEF FramesOn
    <2>5. \A c : \A u \in Threads : \A g \in FramesOn(u, c) :
             outcome'[g.block] = outcome[g.block]
      BY <1>5, <2>4
    <2>6. QED
      BY <2>1, <2>2, <2>3, <2>5
  <1>7. x \in lost' => pending'[x] = Idle
    BY <1>0, <1>2, <1>3 DEF HeldInv
  <1>8. ASSUME Sole(x) PROVE Held(x)'
    <2>1. /\ Session(t, x)
          /\ \A u \in Threads : u # t => FramesOn(u, x) = {}
      BY <1>0, <1>1, <1>8, SessionOf, OthersOff
    <2>2. CASE phase[t] = "begin"
      <3>1. Vacant(x)
        BY <1>1, <2>1, <2>2 DEF Session, Vacant
      <3>2. \A u \in Threads : \A g \in FramesOn(u, x)' : ~(g.level > 0)
        BY <1>3, <1>4, <2>2, <3>1 DEF Vacant
      <3>3. pending'[x] = pending[x]
        BY <1>2, <2>2
      <3>4. QED
        BY <1>5, <1>8, <3>1, <3>2, <3>3, BeginsHeld
    <2>3. CASE phase[t] = "savepoint"
      <3>1. f.level = Depth(t, x) + 1
        BY <1>1, <1>3, <2>1, <2>3 DEF Session
      <3>2. FramesOn(t, x) # {}
        BY <1>1, <2>3 DEF Inv, NestingInv
      <3>3. /\ Depth(t, x) \in Nat /\ f.level > 0
            /\ \A g \in FramesOn(t, x) : g.level < f.level
        <4>1. Depth(t, x) \in Nat /\ \A g \in FramesOn(t, x) : g.level \in 0..Depth(t, x)
          BY <2>1, <3>2 DEF Session
        <4>2. QED
          BY <3>1, <4>1
      <3>4. pending' = [pending EXCEPT ![x].savepoints =
                           Append(@, Savepoint(f.level, b, pending[x].writes))]
        BY <1>1, <1>2, <1>3, <2>3 DEF Mark
      <3>5. f \in Frame
        BY <1>2, <1>f
      <3>6. \A u \in Threads :
               FramesOn(u, x)' = IF u = t THEN FramesOn(u, x) \cup {f} ELSE FramesOn(u, x)
        BY <1>4
      <3>7. x \notin lost /\ lost' = lost
        BY <1>3, <2>3
      <3>8. /\ b \in Fresh /\ b \in Blocks /\ f.block = b /\ f.conn = x /\ Inv
            /\ outcome' = [outcome EXCEPT ![b] = "open"]
        BY <1>2, <1>3
      <3>9. QED
        BY <1>8, <2>1, <3>3, <3>4, <3>5, <3>6, <3>7, <3>8, SetsHeld, Zenon
    <2>4. QED
      BY <1>3, <2>2, <2>3
  <1>9. lost' \subseteq Connections
    BY <1>0, <1>3 DEF TypeInv
  <1>10. QED
    BY <1>3, <1>5, <1>6, <1>7, <1>8, <1>9, HeldStep

\* A nested block ends, and leaves some of the savepoints and of the writes:
\* what its savepoint saw, or everything.
LEMMA NestedEndHeld ==
  ASSUME Inv, NEW t \in Threads, NEW f \in ToSet(stack[t]), phase[t] # "closing",
         NEW x \in Connections, f.conn = x, f.level > 0, f.level \in Int, Sole(x),
         \A g \in FramesOn(t, x) : g # f => g.level < f.level,
         \A u \in Threads : u # t => FramesOn(u, x) = {},
         \A u \in Threads :
            FramesOn(u, x)' = IF u = t THEN FramesOn(u, x) \ {f} ELSE FramesOn(u, x),
         NEW end, outcome' = [outcome EXCEPT ![f.block] = end],
         NEW k, SetFor(f, x, k),
         NEW m \in Int, 0 <= m, m <= Len(pending[x].savepoints), k - 1 <= m,
         k <= m => end \in Unclosed,
         DOMAIN pending'[x].savepoints = 1..m,
         \A i \in 1..m : pending'[x].savepoints[i] = pending[x].savepoints[i],
         \/ pending'[x].writes = pending[x].writes /\ end \in Whole
         \/ pending'[x].writes = pending[x].savepoints[k].writes /\ m <= k,
         x \notin lost
  PROVE  Held(x)'
  <1>a. PICK s, W, r, V : /\ s = pending[x].savepoints /\ W = pending[x].writes
                          /\ r = pending'[x].savepoints /\ V = pending'[x].writes
    OBVIOUS
  <1>0. TypeInv /\ BlocksInv /\ SavepointsOf(x) /\ WritesOf(x) /\ Held(x)
    BY DEF Inv, HeldInv, Held
  <1>1. /\ s \in Seq(Marks) /\ Len(s) \in Nat /\ DOMAIN s = 1..Len(s) /\ W \subseteq Writes
        /\ \A i \in DOMAIN s : s[i].name \in Int /\ s[i].block \in Blocks
    BY <1>0, <1>a, MarkTypes
  <1>2. /\ Settled /\ outcome[f.block] = "open" /\ outcome'[f.block] = end
        /\ \A u \in Threads : \A g \in ToSet(stack[u]) :
              g # f => outcome'[g.block] = outcome[g.block]
        /\ \A a \in Blocks : a # f.block => outcome'[a] = outcome[a]
    <2>1. EndsAs(f, end)
      BY DEF EndsAs
    <2>2. BlockEnded(f, end)
      BY <1>0, <2>1, BlockEnds, Zenon
    <2>3. QED
      BY <2>2 DEF BlockEnded
  <1>3. /\ k \in DOMAIN s /\ k \in Int /\ s[k].name = f.level /\ s[k].block = f.block
        /\ \A j \in DOMAIN s : k < j => f.level < s[j].name
        /\ s[k].writes = {w \in W : f.block \notin w.within}
    <2>1. /\ k \in DOMAIN s /\ s[k].name = f.level /\ s[k].block = f.block
          /\ \A j \in DOMAIN s : k < j => f.level < s[j].name
          /\ s[k].writes = {w \in W : f.block \notin w.within}
      BY <1>a DEF SetFor
    <2>2. QED
      BY <1>1, <2>1
  <1>4. /\ \A i \in 1..m : i \in DOMAIN s /\ r[i] = s[i]
        /\ DOMAIN r = 1..m
        /\ V \subseteq W
        /\ V = W \/ (V = s[k].writes /\ m <= k)
        /\ end \in Whole \/ \A w \in V : f.block \notin w.within
    <2>1. \A i \in 1..m : i \in DOMAIN s
      BY <1>1, <1>a
    <2>2. QED
      BY <1>3, <1>a, <2>1
  <1>5. \A i, j \in DOMAIN s : /\ s[i].block = s[j].block => i = j
                               /\ j < i => s[j].writes \subseteq s[i].writes
                               /\ s[i].writes \subseteq W
                               /\ outcome[s[i].block] \in Unclosed \/ NestedOn(s[i].block, x)
    <2>1. ASSUME NEW i \in DOMAIN s, NEW j \in DOMAIN s
          PROVE  /\ s[i].block = s[j].block => i = j
                 /\ j < i => s[j].writes \subseteq s[i].writes
                 /\ s[i].writes \subseteq W
                 /\ outcome[s[i].block] \in Unclosed \/ NestedOn(s[i].block, x)
      BY <1>0, <1>a DEF SavepointsOf
    <2>2. QED
      BY <2>1
  <1>6. \A u \in Threads : \A g \in FramesOn(u, x) :
           /\ g \in ToSet(stack[u])
           /\ g # f => g \in FramesOn(u, x)' /\ outcome'[g.block] = outcome[g.block]
    BY <1>2 DEF FramesOn
  <1>7. \A a \in Blocks : a # f.block => /\ NestedOn(a, x) => NestedOn(a, x)'
                                         /\ OpenOn(a, x) => OpenOn(a, x)'
                                         /\ OuterOn(a, x) => OuterOn(a, x)'
    <2>1. ASSUME NEW a \in Blocks, a # f.block
          PROVE  /\ NestedOn(a, x) => NestedOn(a, x)'
                 /\ OpenOn(a, x) => OpenOn(a, x)'
                 /\ OuterOn(a, x) => OuterOn(a, x)'
      BY <1>2, <1>6, <2>1 DEF NestedOn, OpenOn, OuterOn, BlocksOn
    <2>2. QED
      BY <2>1
  <1>8. ~OuterOn(f.block, x)
    <2>1. ASSUME NEW u \in Threads, NEW g \in FramesOn(u, x), g.level = 0, g.block = f.block
          PROVE  FALSE
      <3>1. g = f
        BY <1>0, <1>6, <2>1, OneFrame
      <3>2. QED
        BY <2>1, <3>1
    <2>2. QED
      BY <2>1 DEF OuterOn
  <1>9. WritesOf(x)'
    <2>1. \A w \in W : \A a \in w.within : a \in Blocks
      BY <1>1 DEF Writes
    <2>2. ASSUME NEW w \in V, NEW a \in w.within
          PROVE  /\ OpenOn(a, x) => OpenOn(a, x)' \/ outcome'[a] \in Whole
                 /\ OuterOn(a, x) => OuterOn(a, x)' \/ outcome'[a] = "stranded"
      <3>1. a \in Blocks
        BY <1>4, <2>1
      <3>2. CASE a = f.block
        BY <1>2, <1>4, <1>8, <3>2
      <3>3. CASE a # f.block
        BY <1>7, <3>1, <3>3
      <3>4. QED
        BY <3>2, <3>3
    <2>3. QED
      BY <1>0, <1>2, <1>4, <1>a, <2>2, WritesKept
  <1>10. SavepointsOf(x)'
    <2>1. ASSUME NEW i \in 1..m
          PROVE  r[i].writes \subseteq V
      <3>1. i \in DOMAIN s /\ r[i] = s[i] /\ i \in Int /\ i <= m
        BY <1>4
      <3>2. CASE V = W
        BY <1>5, <3>1, <3>2
      <3>3. CASE V = s[k].writes /\ m <= k
        <4>1. i = k \/ i < k
          BY <1>3, <3>1, <3>3
        <4>2. QED
          BY <1>3, <1>5, <3>1, <3>3, <4>1
      <3>4. QED
        BY <1>4, <3>2, <3>3
    <2>2. ASSUME NEW i \in 1..m
          PROVE  outcome'[r[i].block] \in Unclosed \/ NestedOn(r[i].block, x)'
      <3>1. /\ i \in DOMAIN s /\ r[i] = s[i] /\ s[i].block \in Blocks
            /\ outcome[s[i].block] \in Unclosed \/ NestedOn(s[i].block, x)
        BY <1>1, <1>4, <1>5
      <3>2. CASE s[i].block = f.block
        <4>1. i = k
          BY <1>3, <1>5, <3>1, <3>2
        <4>2. k <= m
          BY <4>1
        <4>3. QED
          BY <1>2, <3>1, <3>2, <4>2
      <3>3. CASE s[i].block # f.block
        BY <1>2, <1>7, <3>1, <3>3
      <3>4. QED
        BY <3>2, <3>3
    <2>3. \A i, j \in 1..m : /\ r[i].block = r[j].block => i = j
                             /\ j < i => r[j].writes \subseteq r[i].writes
      BY <1>4, <1>5
    <2>4. pending'[x].savepoints = r /\ pending'[x].writes = V /\ DOMAIN r = 1..m
      BY <1>4, <1>a
    <2>5. QED
      BY <2>1, <2>2, <2>3, <2>4 DEF SavepointsOf
  <1>11. ASSUME NEW u \in Threads, NEW g \in FramesOn(u, x)', g.level > 0
         PROVE  \E i \in DOMAIN pending'[x].savepoints : SetFor(g, x, i)'
    <2>1. u = t /\ g \in FramesOn(t, x) /\ g.level < f.level
      <3>1. u = t
        BY <1>11
      <3>2. g \in FramesOn(t, x) /\ g # f
        BY <1>11, <3>1
      <3>3. QED
        BY <3>1, <3>2
    <2>2. PICK i \in DOMAIN s : SetFor(g, x, i)
      BY <1>0, <1>11, <1>a, <2>1 DEF Held
    <2>3. /\ s[i].name = g.level /\ s[i].block = g.block
          /\ \A j \in DOMAIN s : i < j => g.level < s[j].name
          /\ s[i].writes = {w \in W : g.block \notin w.within}
      BY <1>a, <2>2 DEF SetFor
    <2>4. i < k /\ i \in 1..m
      <3>1. i \in Int /\ 1 <= i /\ s[i].name \in Int
        BY <1>1
      <3>2. ~(k < i)
        <4>1. SUFFICES ASSUME k < i PROVE FALSE
          OBVIOUS
        <4>2. f.level < g.level
          BY <1>3, <2>3, <4>1
        <4>3. g.level \in Int
          BY <2>3, <3>1
        <4>4. QED
          BY <2>1, <4>2, <4>3
      <3>3. i # k
        <4>1. SUFFICES ASSUME i = k PROVE FALSE
          OBVIOUS
        <4>2. g.level = f.level
          BY <1>3, <2>3, <4>1
        <4>3. QED
          BY <2>1, <4>2
      <3>4. i < k
        BY <1>3, <3>1, <3>2, <3>3
      <3>5. QED
        BY <1>3, <3>1, <3>4
    <2>5. r[i] = s[i]
      BY <1>4, <2>4
    <2>6. s[i].writes = {w \in V : g.block \notin w.within}
      <3>1. s[i].writes \subseteq V
        BY <1>3, <1>4, <1>5, <2>4
      <3>2. QED
        BY <1>4, <2>3, <3>1
    <2>7. \A j \in DOMAIN r : i < j => g.level < r[j].name
      BY <1>4, <2>3
    <2>8. i \in DOMAIN r
      BY <1>4, <2>4
    <2>9. SetFor(g, x, i)'
      BY <1>a, <2>3, <2>5, <2>6, <2>7, <2>8 DEF SetFor
    <2>10. QED
      BY <1>a, <2>8, <2>9
  <1>12. QED
    BY <1>9, <1>10, <1>11 DEF Held

LEMMA NestedHeld ==
  ASSUME Inv, NEW t \in Threads, Pops(t), phase[t] # "closing"
  PROVE  HeldInv'
  <1>0. TypeInv /\ PhaseOK /\ BlocksInv /\ NestingInv /\ CustodyInv /\ SessionInv /\ HeldInv
    BY DEF Inv
  <1>1. PICK f \in Frame, x \in Connections : f = Top(t) /\ x = f.conn
    BY <1>0, PopsFrame DEF Frame
  <1>2. /\ stack[t] # <<>> /\ f.level > 0 /\ f.level \in Int /\ f \in ToSet(stack[t])
        /\ stack' = [stack EXCEPT ![t] = Pop(t)]
        /\ UNCHANGED <<uses, lost>>
    BY <1>0, <1>1, PopsFrame, TopTypes DEF Frame
  <1>3. PICK end \in {"ok", "failed", "left", "kept"} :
           /\ outcome' = [outcome EXCEPT ![f.block] = end]
           /\ \/ /\ end = "ok" /\ HasSavepoint(f)
                 /\ pending' = [pending EXCEPT ![x] = Released(@, f.level)]
              \/ /\ end = "failed" /\ HasSavepoint(f)
                 /\ pending' = [pending EXCEPT ![x] = Undone(@, f.level)]
              \/ /\ end = "left" /\ HasSavepoint(f)
                 /\ pending' = [pending EXCEPT ![x] = BackTo(@, f.level)]
              \/ end = "kept" /\ pending' = pending
    BY <1>0, <1>1, PopsFrame
  <1>4. /\ f \in FramesOn(t, x)
        /\ \A u \in Threads : \A c : FramesOn(u, c)' =
              IF u = t /\ x = c THEN FramesOn(u, c) \ {f} ELSE FramesOn(u, c)
    BY <1>0, <1>1, <1>2, FramesPopped
  <1>5. /\ Settled
        /\ \A u \in Threads : \A g \in ToSet(stack[u]) :
              g # f => outcome'[g.block] = outcome[g.block]
    <2>1. EndsAs(f, end)
      BY <1>3 DEF EndsAs
    <2>2. f \in ToSet(stack[t]) /\ phase[t] # "closing"
      BY <1>2
    <2>3. BlockEnded(f, end)
      BY <1>0, <2>1, <2>2, BlockEnds, Zenon
    <2>4. QED
      BY <2>3 DEF BlockEnded
  <1>6. \A c \in Connections : c # x =>
            /\ pending'[c] = pending[c] /\ (c \in lost' <=> c \in lost)
            /\ \A u \in Threads : /\ FramesOn(u, c)' = FramesOn(u, c)
                                  /\ \A g \in FramesOn(u, c) : outcome'[g.block] = outcome[g.block]
    <2>1. \A c \in Connections : c # x => pending'[c] = pending[c]
      BY <1>0, <1>3 DEF TypeInv
    <2>2. ASSUME NEW c \in Connections, c # x, NEW u \in Threads
          PROVE  /\ FramesOn(u, c)' = FramesOn(u, c)
                 /\ \A g \in FramesOn(u, c) : outcome'[g.block] = outcome[g.block]
      <3>1. \A g \in FramesOn(u, c) : g # f /\ g \in ToSet(stack[u])
        BY <1>1, <2>2 DEF FramesOn
      <3>2. QED
        BY <1>4, <1>5, <2>2, <3>1
    <2>3. QED
      BY <1>2, <2>1, <2>2
  <1>7. x \in lost => pending'[x] = Idle
    <2>1. x \in lost => pending[x] = Idle /\ ~HasSavepoint(f)
      BY <1>0, <1>1 DEF HeldInv, HasSavepoint, SavepointsNamed, Idle
    <2>2. QED
      BY <1>3, <2>1
  <1>8. ASSUME Sole(x) PROVE Held(x)'
    <2>1. CASE x \in lost
      BY <1>2, <1>7, <2>1, HeldIdle
    <2>2. CASE x \notin lost
      <3> DEFINE s == pending[x].savepoints
      <3>1. PICK k \in DOMAIN s : SetFor(f, x, k)
        BY <1>0, <1>2, <1>4, <1>8, <2>2 DEF HeldInv, Held
      <3>2. /\ s \in Seq(Marks) /\ Len(s) \in Nat /\ DOMAIN s = 1..Len(s)
            /\ pending[x] \in Sessions /\ k \in 1..Len(s)
        BY <1>0, <3>1, MarkTypes
      <3>3. LatestSavepoint(pending[x], f.level) = k
        <4>1. s[k].name = f.level /\ \A j \in DOMAIN s : k < j => f.level < s[j].name
          BY <3>1 DEF SetFor
        <4>2. QED
          BY <1>2, <3>2, <4>1, LatestIs
      <3>4. /\ \A g \in FramesOn(t, x) : g # f => g.level < f.level
            /\ \A u \in Threads : u # t => FramesOn(u, x) = {}
        <4>1. /\ {g.level : g \in FramesOn(t, x) \ {f}} = 0..(f.level - 1)
          BY <1>0, <1>1, <1>2, <1>8, TopIsDeepest
        <4>2. ASSUME NEW g \in FramesOn(t, x), g # f PROVE g.level < f.level
          <5>1. g.level \in 0..(f.level - 1)
            BY <4>1, <4>2
          <5>2. QED
            BY <1>2, <5>1
        <4>3. OnIt(t, x)
          BY <1>4 DEF OnIt
        <4>4. QED
          BY <1>8, <4>2, <4>3, OthersOff
      <3>5. PICK m \in Int :
               /\ 0 <= m /\ m <= Len(s) /\ k - 1 <= m /\ (k <= m => end \in Unclosed)
               /\ DOMAIN pending'[x].savepoints = 1..m
               /\ \A i \in 1..m : pending'[x].savepoints[i] = s[i]
               /\ \/ pending'[x].writes = pending[x].writes /\ end \in Whole
                  \/ pending'[x].writes = s[k].writes /\ m <= k
        <4>0. /\ k \in Int /\ k - 1 \in Int /\ 0 <= k - 1 /\ k - 1 <= Len(s) /\ k - 1 <= k
              /\ 0 <= k /\ k <= Len(s) /\ ~(k <= k - 1) /\ k - 1 <= k - 1 /\ k <= k
          BY <3>2
        <4>c. /\ DOMAIN SubSeq(s, 1, k) = 1..k
              /\ \A i \in 1..k : SubSeq(s, 1, k)[i] = s[i]
              /\ DOMAIN SubSeq(s, 1, k - 1) = 1..(k - 1)
              /\ \A i \in 1..(k - 1) : SubSeq(s, 1, k - 1)[i] = s[i]
          <5>1. s \in Seq(Marks) /\ k \in Int /\ 0 <= k /\ k <= Len(s)
            BY <3>2, <4>0
          <5>2. k - 1 \in Int /\ 0 <= k - 1 /\ k - 1 <= Len(s)
            BY <4>0
          <5> HIDE DEF s
          <5>3. QED
            BY <3>2, <5>1, <5>2, CutAt
        <4>1. CASE end = "ok"
          <5>1. pending'[x] = [writes |-> pending[x].writes, savepoints |-> SubSeq(s, 1, k - 1)]
            BY <1>0, <1>3, <3>3, <4>1 DEF Released, Before, TypeInv
          <5>2. WITNESS k - 1 \in Int
          <5>3. QED
            BY <4>0, <4>1, <4>c, <5>1 DEF Whole
        <4>2. CASE end = "failed"
          <5>1. pending'[x] = [writes |-> s[k].writes, savepoints |-> SubSeq(s, 1, k - 1)]
            BY <1>0, <1>3, <3>3, <4>2 DEF Undone, Before, TypeInv
          <5>2. WITNESS k - 1 \in Int
          <5>3. QED
            BY <4>0, <4>2, <4>c, <5>1
        <4>3. CASE end = "left"
          <5>1. pending'[x] = [writes |-> s[k].writes, savepoints |-> SubSeq(s, 1, k)]
            BY <1>0, <1>3, <3>3, <4>3 DEF BackTo, TypeInv
          <5>2. WITNESS k \in Int
          <5>3. QED
            BY <4>0, <4>3, <4>c, <5>1 DEF Unclosed
        <4>4. CASE end = "kept"
          <5>1. pending' = pending
            BY <1>3, <4>4
          <5>2. WITNESS Len(s) \in Int
          <5>3. QED
            BY <3>2, <4>0, <4>4, <5>1 DEF Unclosed, Whole
        <4>5. QED
          BY <4>1, <4>2, <4>3, <4>4
      <3>6. \A u \in Threads :
               FramesOn(u, x)' = IF u = t THEN FramesOn(u, x) \ {f} ELSE FramesOn(u, x)
        BY <1>4
      <3>7. QED
        BY <1>1, <1>2, <1>3, <1>8, <2>2, <3>1, <3>4, <3>5, <3>6, NestedEndHeld
    <2>3. QED
      BY <2>1, <2>2
  <1>9. lost' \subseteq Connections
    BY <1>0, <1>2 DEF TypeInv
  <1>10. QED
    BY <1>2, <1>5, <1>6, <1>7, <1>8, <1>9, HeldStep

\* A top-level block ends: its thread has no other block there.
LEMMA EndsHeld ==
  ASSUME Inv, NEW t \in Threads, Ends(t)
  PROVE  HeldInv'
  <1>0. TypeInv /\ PhaseOK /\ BlocksInv /\ NestingInv /\ CustodyInv /\ SessionInv /\ HeldInv
    BY DEF Inv
  <1>1. PICK f \in Frame, x \in Connections : f = Top(t) /\ x = f.conn
    BY <1>0, EndsFrame DEF Frame
  <1>2. /\ phase[t] # "closing" /\ stack[t] # <<>> /\ f.level = 0
        /\ f \in ToSet(stack[t]) /\ f \in FramesOn(t, x)
        /\ UNCHANGED <<uses, stack, lost>>
    BY <1>0, <1>1, EndsFrame, TopTypes DEF FramesOn
  <1>3. PICK end \in Ended :
           /\ outcome' = [outcome EXCEPT ![f.block] = end]
           /\ \/ pending' = [pending EXCEPT ![x] = Idle]
              \/ pending' = pending /\ end = "stranded"
    BY <1>0, <1>1, EndsFrame DEF Ended
  <1>4. /\ Settled /\ outcome'[f.block] = end
        /\ \A u \in Threads : \A g \in ToSet(stack[u]) :
              g # f => outcome'[g.block] = outcome[g.block]
        /\ \A a \in Blocks : a # f.block => outcome'[a] = outcome[a]
    <2>1. EndsAs(f, end)
      BY <1>3 DEF EndsAs
    <2>2. f \in ToSet(stack[t]) /\ phase[t] # "closing"
      BY <1>2
    <2>3. BlockEnded(f, end)
      BY <1>0, <2>1, <2>2, BlockEnds, Zenon
    <2>4. QED
      BY <2>3 DEF BlockEnded
  <1>5. \A u, c : FramesOn(u, c)' = FramesOn(u, c)
    BY <1>2 DEF FramesOn
  <1>6. \A c \in Connections : c # x =>
            /\ pending'[c] = pending[c] /\ (c \in lost' <=> c \in lost)
            /\ \A u \in Threads : /\ FramesOn(u, c)' = FramesOn(u, c)
                                  /\ \A g \in FramesOn(u, c) : outcome'[g.block] = outcome[g.block]
    <2>1. \A c \in Connections : c # x => pending'[c] = pending[c]
      BY <1>0, <1>3 DEF TypeInv
    <2>2. \A c \in Connections : c # x => \A u \in Threads : \A g \in FramesOn(u, c) :
             g # f /\ g \in ToSet(stack[u])
      BY <1>1 DEF FramesOn
    <2>3. QED
      BY <1>2, <1>4, <1>5, <2>1, <2>2
  <1>7. x \in lost' => pending'[x] = Idle
    BY <1>0, <1>2, <1>3 DEF HeldInv, TypeInv
  <1>8. ASSUME Sole(x) PROVE Held(x)'
    <2>1. \A u \in Threads : \A g \in FramesOn(u, x) : g = f
      <3>1. {g.level : g \in FramesOn(t, x) \ {f}} = 0..(0 - 1)
        BY <1>0, <1>1, <1>2, <1>8, TopIsDeepest
      <3>2. \A g \in FramesOn(t, x) : g = f
        <4>1. \A n : n \notin 0..(0 - 1)
          OBVIOUS
        <4>2. QED
          BY <3>1, <4>1
      <3>3. \A u \in Threads : u # t => FramesOn(u, x) = {}
        BY <1>2, <1>8, OthersOff DEF OnIt
      <3>4. QED
        BY <3>2, <3>3
    <2>2. CASE pending' = [pending EXCEPT ![x] = Idle]
      <3>1. pending'[x] = Idle
        BY <1>0, <2>2 DEF TypeInv
      <3>2. QED
        BY <1>2, <1>5, <2>1, <3>1, HeldIdle
    <2>3. CASE pending' = pending /\ end = "stranded"
      <3>1. SavepointsOf(x) /\ WritesOf(x)
        BY <1>0, <1>8 DEF HeldInv, Held
      <3>2. \A a : ~NestedOn(a, x)
        BY <1>2, <2>1 DEF NestedOn
      <3>3. \A a : (OpenOn(a, x) \/ OuterOn(a, x)) => a = f.block
        BY <2>1 DEF OpenOn, OuterOn, BlocksOn
      <3>4. SavepointsOf(x)' /\ WritesOf(x)'
        BY <1>0, <1>4, <2>3, <3>1, <3>2, <3>3, MarksKept, WritesKept DEF Whole
      <3>5. QED
        BY <1>2, <1>5, <2>1, <3>4 DEF Held
    <2>4. QED
      BY <1>3, <2>2, <2>3
  <1>9. lost' \subseteq Connections
    BY <1>0, <1>2 DEF TypeInv
  <1>10. QED
    BY <1>2, <1>4, <1>6, <1>7, <1>8, <1>9, HeldStep

\* It leaves the stack.  What its rollback left in the transaction stays there,
\* or the pool's reset takes it back.
LEMMA ClosesHeld ==
  ASSUME Inv, NEW t \in Threads, Pops(t), phase[t] = "closing"
  PROVE  HeldInv'
  <1>0. TypeInv /\ PhaseOK /\ BlocksInv /\ NestingInv /\ CustodyInv /\ SessionInv /\ HeldInv
    BY DEF Inv
  <1>1. PICK f \in Frame, x \in Connections : f = Top(t) /\ x = f.conn
    BY <1>0, PopsFrame DEF Frame
  <1>2. /\ stack[t] # <<>> /\ f \in ToSet(stack[t]) /\ f \in FramesOn(t, x)
        /\ stack' = [stack EXCEPT ![t] = Pop(t)]
        /\ UNCHANGED <<uses, outcome>>
        /\ \/ pending' = pending /\ lost' = lost
           \/ lost' = lost \ {x} /\ pending' = [pending EXCEPT ![x] = Idle]
           \/ lost' = lost \ {x} /\ x \notin lost /\ pending' = pending
    BY <1>0, <1>1, PopsFrame, TopTypes DEF FramesOn, GiveBack, Rollback, dataVars
  <1>3. \A u \in Threads : \A c : FramesOn(u, c)' =
            IF u = t /\ x = c THEN FramesOn(u, c) \ {f} ELSE FramesOn(u, c)
    BY <1>0, <1>1, <1>2, FramesPopped
  <1>4. Settled /\ \A b : outcome'[b] = outcome[b]
    BY <1>2 DEF Settled
  <1>5. /\ \A c \in Connections : c # x =>
              /\ pending'[c] = pending[c] /\ (c \in lost' <=> c \in lost)
              /\ \A u \in Threads : FramesOn(u, c)' = FramesOn(u, c)
        /\ lost' \subseteq Connections
        /\ x \in lost' => pending'[x] = Idle
    BY <1>0, <1>2, <1>3 DEF TypeInv, HeldInv
  <1>6. ASSUME Sole(x) PROVE Held(x)'
    <2>1. \A u \in Threads : \A g \in FramesOn(u, x) : u = t /\ g = f
      <3>1. FramesOn(t, x) = {f}
        BY <1>0, <1>1, <1>6, LastBlock
      <3>2. \A u \in Threads : u # t => FramesOn(u, x) = {}
        BY <1>2, <1>6, OthersOff DEF OnIt
      <3>3. QED
        BY <3>1, <3>2
    <2>2. \A u \in Threads : FramesOn(u, x)' = {}
      BY <1>3, <2>1
    <2>3. f.level = 0 /\ outcome[f.block] \in Ended
      BY <1>0, <1>1, <1>2, <1>6, LastBlock, FrameOutcome
    <2>4. CASE pending'[x] = Idle
      BY <2>2, <2>4, HeldIdle
    <2>5. CASE pending'[x] = pending[x]
      <3>1. SavepointsOf(x) /\ WritesOf(x)
        BY <1>0, <1>6 DEF HeldInv, Held
      <3>2. \A a : ~NestedOn(a, x)
        BY <2>1, <2>3 DEF NestedOn
      <3>3. \A a : ~OpenOn(a, x) /\ ~OuterOn(a, x)
        BY <2>1, <2>3 DEF OpenOn, OuterOn, BlocksOn, Ended
      <3>4. SavepointsOf(x)' /\ WritesOf(x)'
        BY <1>0, <1>4, <2>5, <3>1, <3>2, <3>3, MarksKept, WritesKept
      <3>5. QED
        BY <2>2, <3>4 DEF Held
    <2>6. QED
      BY <1>0, <1>2, <2>4, <2>5 DEF TypeInv
  <1>7. QED
    BY <1>2, <1>4, <1>5, <1>6, HeldStep

LEMMA NextHeld ==
  ASSUME Inv, [Next]_vars
  PROVE  HeldInv'
  <1>1. CASE UNCHANGED vars
    BY <1>1, HeldKept DEF vars, threadVars, dataVars
  <1>2. ASSUME NEW t \in Threads, Start(t) \/ Move(t) \/ RegisterNested(t)
        PROVE  HeldInv'
    BY <1>2, HeldKept DEF Start, Move, RegisterNested, dataVars
  <1>3. ASSUME NEW t \in Threads, Pops(t) PROVE HeldInv'
    BY <1>3, NestedHeld, ClosesHeld
  <1>4. CASE Next
    BY <1>2, <1>3, <1>4, Kinds, CallEndHeld, OpensHeld, EndsHeld, ExecuteHeld, LoseHeld DEF Inv
  <1>5. QED
    BY <1>1, <1>4

-----------------------------------------------------------------------------
(* The invariant *)

LEMMA InitInv == Init => Inv
  <1> SUFFICES ASSUME Init PROVE Inv
    OBVIOUS
  <1>1. TypeInv /\ PhaseOK
    BY InitType
  <1>2. /\ \A t \in Threads : /\ stack[t] = <<>> /\ phase[t] = "user"
                              /\ target[t] = NoConnection /\ via[t] = NoPool
        /\ \A c \in Connections : registry[c] = NoEntry /\ pending[c] = Idle
        /\ free = PoolConnections /\ lost = {}
    BY DEF Init
  <1>3. \A t \in Threads : DOMAIN stack[t] = {} /\ ToSet(stack[t]) = {}
    BY <1>2 DEF ToSet
  <1>4. \A t \in Threads : \A c : FramesOn(t, c) = {}
    BY <1>3 DEF FramesOn
  <1>5. \A t \in Threads, c \in Connections : ~OnIt(t, c)
    BY <1>2, <1>4, NamesAssumption DEF OnIt
  <1>6. BlocksInv
    BY <1>3 DEF BlocksInv
  <1>7. NestingInv
    BY <1>2, <1>3, NamesAssumption DEF NestingInv
  <1>8. CustodyInv
    <2>1. FramesCustody /\ OneEach
      BY <1>3, <1>5 DEF FramesCustody, OneEach
    <2>2. CallsCustody
      BY <1>2, NotPooled, NamesAssumption DEF CallsCustody
    <2>3. FreeCustody
      BY <1>2, <1>5, PoolsAssumption DEF FreeCustody
    <2>4. QED
      BY <2>1, <2>2, <2>3 DEF CustodyInv
  <1>9. SessionInv
    <2>1. \A t \in Threads, c \in Connections : Session(t, c)
      BY <1>2, <1>4, NamesAssumption DEF Session
    <2>2. QED
      BY <1>2, <2>1 DEF SessionInv
  <1>10. HeldInv
    <2>1. \A c \in Connections : Held(c)
      BY <1>2, <1>4 DEF Held, SavepointsOf, WritesOf, Idle
    <2>2. QED
      BY <1>2, <2>1 DEF HeldInv
  <1>11. QED
    BY <1>1, <1>6, <1>7, <1>8, <1>9, <1>10 DEF Inv

LEMMA NextInv == Inv /\ [Next]_vars => Inv'
  <1> SUFFICES ASSUME Inv, [Next]_vars PROVE Inv'
    OBVIOUS
  <1>1. TypeInv' /\ PhaseOK' /\ BlocksInv' /\ NestingInv' /\ CustodyInv'
    BY NextType, NextNested, NextCustody DEF Inv
  <1>2. QED
    BY <1>1, NextSession, NextHeld DEF Inv

\* What every statement of transaction() and run() keeps, whichever of them
\* fails: who is on a connection, what the registry and the savepoints hold for
\* the blocks open there.
THEOREM InvHolds == Spec => []Inv
  BY InitInv, NextInv, PTL DEF Spec

-----------------------------------------------------------------------------
(* What it says *)

\* A set numbered from a to b.
LEMMA Numbered ==
  ASSUME NEW S, NEW a \in Int, NEW b \in Int, NEW g \in [S -> a..b],
         \A x, y \in S : g[x] = g[y] => x = y,
         \A k \in a..b : \E x \in S : g[x] = k
  PROVE  Cardinality(S) = IF a > b THEN 0 ELSE b - a + 1
  <1>1. g \in Bijection(S, a..b)
    BY DEF Bijection, Injection, Surjection, IsInjective
  <1>2. ExistsBijection(a..b, S)
    BY <1>1, Fun_ExistsBijSymmetric DEF ExistsBijection
  <1>3. QED
    BY <1>2, FS_Interval, FS_Bijection

LEMMA LevelsAreDistinct ==
  ASSUME TypeInv, NestingInv, NEW t \in Threads, NEW c, Sole(c),
         NEW f \in FramesOn(t, c), NEW g \in FramesOn(t, c), f.level = g.level
  PROVE  f = g
  <1>1. PICK i \in DOMAIN stack[t] : f = stack[t][i] /\ f.conn = c /\ f \in Frame
    BY FrameAt
  <1>2. PICK j \in DOMAIN stack[t] : g = stack[t][j] /\ g.conn = c /\ g \in Frame
    BY FrameAt
  <1>3. f.level \in Int /\ i \in Int /\ j \in Int
    BY <1>1, FrameAt DEF Frame
  <1>4. ~(i < j) /\ ~(j < i)
    BY <1>1, <1>2, <1>3 DEF NestingInv
  <1>5. QED
    BY <1>1, <1>2, <1>3, <1>4

\* There is one block at each level, down to the depth.
LEMMA BlocksAreCounted ==
  ASSUME Inv, NEW t \in Threads, NEW c \in Connections, Sole(c), FramesOn(t, c) # {}
  PROVE  /\ Depth(t, c) \in Nat
         /\ Cardinality(FramesOn(t, c)) = Depth(t, c) + 1
  <1>0. TypeInv /\ NestingInv /\ SessionInv
    BY DEF Inv
  <1> DEFINE S == FramesOn(t, c)
             d == Depth(t, c)
  <1>1. d \in Nat /\ {f.level : f \in S} = 0..d
    BY <1>0, SessionOf DEF Session
  <1>2. \A f, g \in S : f.level = g.level => f = g
    BY <1>0, LevelsAreDistinct
  <1> HIDE DEF S, d
  <1>3. Cardinality(S) = d + 1
    <2> DEFINE h == [f \in S |-> f.level]
    <2>1. h \in [S -> 0..d]
      BY <1>1
    <2>2. /\ \A x, y \in S : h[x] = h[y] => x = y
          /\ \A k \in 0..d : \E x \in S : h[x] = k
      BY <1>1, <1>2
    <2> HIDE DEF h
    <2>3. Cardinality(S) = IF 0 > d THEN 0 ELSE d - 0 + 1
      BY <1>1, <2>1, <2>2, Numbered
    <2>4. QED
      BY <1>1, <2>3
  <1>4. QED
    BY <1>1, <1>3 DEF S, d

LEMMA PrivateSole ==
  ASSUME TypeInv, Private, NEW c \in Connections
  PROVE  Sole(c)
  BY DEF Private, Sole

LEMMA InvRegistry == Inv => RegistryMatchesBlocks
  <1> SUFFICES ASSUME Inv, Private, NEW c \in Connections
               PROVE  LET inside == {t \in Threads : FramesOn(t, c) # {}}
                          opening(t) == IF phase[t] = "savepoint" /\ target[t] = c
                                        THEN 1 ELSE 0
                      IN IF inside = {}
                         THEN registry[c] = NoEntry
                         ELSE \A t \in inside :
                                 registry[c] = Entry(t, Cardinality(FramesOn(t, c)) - 1
                                                        + opening(t))
    BY DEF RegistryMatchesBlocks
  <1>0. TypeInv /\ NestingInv /\ SessionInv /\ Sole(c)
    BY PrivateSole DEF Inv
  <1>1. ASSUME \A t \in Threads : FramesOn(t, c) = {}
        PROVE  registry[c] = NoEntry
    BY <1>0, <1>1 DEF SessionInv, Vacant
  <1>2. ASSUME NEW t \in Threads, FramesOn(t, c) # {}
        PROVE  registry[c] = Entry(t, Cardinality(FramesOn(t, c)) - 1 + Opening(t, c))
    <2>1. registry[c].owner = t /\ Depth(t, c) \in Nat
      BY <1>0, <1>2, SessionOf DEF Session
    <2>2. Cardinality(FramesOn(t, c)) = Depth(t, c) + 1
      BY <1>0, <1>2, BlocksAreCounted
    <2>3. /\ registry[c] \in [owner : Threads \cup {NoEntry.owner}, depth : Int]
          /\ Opening(t, c) \in Int
      BY <1>0 DEF TypeInv, Opening
    <2>4. Cardinality(FramesOn(t, c)) - 1 + Opening(t, c) = registry[c].depth
      BY <2>1, <2>2, <2>3 DEF Depth
    <2>5. QED
      BY <2>1, <2>3, <2>4 DEF Entry
  <1>3. QED
    BY <1>1, <1>2 DEF Opening

LEMMA InvSavepoints == Inv => SavepointsMatchBlocks
  <1> SUFFICES ASSUME Inv, NEW t \in Threads, NEW c \in Connections,
                      Private, c \notin lost, FramesOn(t, c) # {}
               PROVE  LET set == pending[c].savepoints IN
                      /\ \A f \in FramesOn(t, c) : f.level > 0 =>
                            /\ HasSavepoint(f)
                            /\ LET s == set[LatestSavepoint(pending[c], f.level)] IN
                                  /\ s.block = f.block
                                  /\ s.writes = {w \in pending[c].writes : f.block \notin w.within}
                      /\ \A i \in DOMAIN set :
                            set[i].block \in BlocksOn(t, c) \/ outcome[set[i].block] \in Unclosed
    BY DEF SavepointsMatchBlocks
  <1>0. TypeInv /\ Held(c) /\ Sole(c)
    BY PrivateSole DEF Inv, HeldInv
  <1>1. \A u \in Threads : u # t => FramesOn(u, c) = {}
    BY <1>0, OthersOff DEF OnIt
  <1>2. ASSUME NEW f \in FramesOn(t, c), f.level > 0
        PROVE  /\ HasSavepoint(f)
               /\ LET s == pending[c].savepoints[LatestSavepoint(pending[c], f.level)] IN
                     /\ s.block = f.block
                     /\ s.writes = {w \in pending[c].writes : f.block \notin w.within}
    <2>1. f.conn = c /\ f.level \in Int
      BY <1>0, FrameAt DEF Frame
    <2>2. PICK k \in DOMAIN pending[c].savepoints : SetFor(f, c, k)
      BY <1>0, <1>2 DEF Held
    <2>3. /\ SavepointsNamed(pending[c], f.level) # {}
          /\ LatestSavepoint(pending[c], f.level) = k
      <3>1. pending[c] \in Sessions
        BY <1>0, MarkTypes
      <3>2. QED
        BY <2>1, <2>2, <3>1, LatestIs DEF SetFor
    <2>4. QED
      BY <2>1, <2>2, <2>3 DEF HasSavepoint, SetFor
  <1>3. ASSUME NEW i \in DOMAIN pending[c].savepoints
        PROVE  \/ pending[c].savepoints[i].block \in BlocksOn(t, c)
               \/ outcome[pending[c].savepoints[i].block] \in Unclosed
    <2> DEFINE b == pending[c].savepoints[i].block
    <2>1. outcome[b] \in Unclosed \/ NestedOn(b, c)
      BY <1>0 DEF Held, SavepointsOf
    <2>2. NestedOn(b, c) => b \in BlocksOn(t, c)
      BY <1>1 DEF NestedOn, BlocksOn
    <2>3. QED
      BY <2>1, <2>2
  <1>4. QED
    BY <1>2, <1>3

LEMMA InvAtRest == Inv => PoolConnectionsAtRest
  <1> SUFFICES ASSUME Inv, NEW p \in Pools, NEW c \in free[p]
               PROVE  /\ registry[c] = NoEntry
                      /\ \A t \in Threads : FramesOn(t, c) = {} /\ target[t] # c
                      /\ \A w \in pending[c].writes :
                            w.within = {} \/ \E b \in w.within : outcome[b] = "stranded"
    BY DEF PoolConnectionsAtRest
  <1>0. TypeInv /\ CustodyInv /\ SessionInv /\ HeldInv
    BY DEF Inv
  <1>1. /\ Pooled(c) /\ c \in Connections
        /\ \A t \in Threads : FramesOn(t, c) = {} /\ target[t] # c
    BY <1>0, FreeConnections
  <1>2. Sole(c) /\ Vacant(c)
    BY <1>0, <1>1, PoolFacts DEF Vacant
  <1>3. registry[c] = NoEntry /\ WritesOf(c)
    BY <1>0, <1>1, <1>2 DEF SessionInv, HeldInv, Held
  <1>4. \A b : ~OuterOn(b, c)
    BY <1>1 DEF OuterOn
  <1>5. QED
    BY <1>1, <1>3, <1>4 DEF WritesOf

\* A connection in its pool has no entry, no block and no call on it, whichever
\* call of which thread put it there: release() after a block, after a failed
\* one and after a statement outside every block.  What a release that could
\* not roll back left in its transaction is of a run() or of a block whose
\* ROLLBACK raised.
THEOREM PoolConnectionsAtRestHolds == Spec => []PoolConnectionsAtRest
  BY InvHolds, InvAtRest, PTL

\* Where no two threads share a connection, the registry names the thread that
\* is inside blocks on a connection and how deeply, and the savepoints set
\* there are those of its open nested blocks, whichever statement failed.
THEOREM OpenBlocksAreKnownHolds == Spec => []OpenBlocksAreKnown
  <1>1. Inv => OpenBlocksAreKnown
    BY InvRegistry, InvSavepoints DEF OpenBlocksAreKnown
  <1>2. QED
    BY InvHolds, <1>1, PTL

-----------------------------------------------------------------------------
(* What becomes of a write *)

\* An open block on a connection whose server is gone.
Gone(f) == f.level = 0 /\ f.conn \in lost /\ outcome[f.block] = "open"

\* How the blocks ended whose writes may be taken back.
TakenBack == {"failed", "left", "stranded"}

\* A write run in blocks is durable, or in a transaction, or taken back with a
\* block that raised, or gone with the server under a block that is still open.
Accounted(w) ==
    \/ w \in committed
    \/ \E c \in Connections : w \in pending[c].writes
    \/ \E b \in w.within : outcome[b] \in TakenBack
    \/ \E t \in Threads : \E f \in ToSet(stack[t]) : Gone(f) /\ f.block \in w.within

DurableOK == \A w \in committed : \A b \in w.within : outcome[b] \in Whole
ExecutedOK == \A w \in executed : w.within # {} => Accounted(w)

AtomicInv == DurableOK /\ ExecutedOK

AllSole == \A c \in Connections : Sole(c)

-----------------------------------------------------------------------------
(* Each step keeps it *)

\* One step, on connection x.
LEMMA AtomicStep ==
  ASSUME TypeInv, AtomicInv, Settled, NEW x \in Connections,
         \A c \in Connections : c # x => pending'[c] = pending[c],
         committed \subseteq committed',
         \A w \in committed' \ committed : \A b \in w.within : outcome'[b] \in Whole,
         \A w \in executed' \ executed : Accounted(w)',
         \A w \in pending[x].writes : w.within # {} => Accounted(w)',
         \A t \in Threads : \A f \in ToSet(stack[t]) : Gone(f) =>
            \/ outcome'[f.block] \in TakenBack
            \/ f \in ToSet(stack'[t]) /\ Gone(f)'
  PROVE  AtomicInv'
  <1>1. \A w \in executed : w.within \subseteq Blocks
    BY DEF TypeInv, Writes
  <1>2. \A b \in Blocks : /\ outcome[b] \in Whole => outcome'[b] = outcome[b]
                          /\ outcome[b] \in TakenBack => outcome'[b] = outcome[b]
    BY DEF Settled, Whole, TakenBack
  <1>3. DurableOK'
    <2>1. ASSUME NEW w \in committed, NEW b \in w.within PROVE outcome'[b] \in Whole
      <3>1. b \in Blocks /\ outcome[b] \in Whole
        BY DEF TypeInv, Writes, AtomicInv, DurableOK
      <3>2. QED
        BY <1>2, <3>1
    <2>2. QED
      BY <2>1 DEF DurableOK
  <1>4. ASSUME NEW w \in executed, w.within # {} PROVE Accounted(w)'
    <2>1. Accounted(w)
      BY <1>4 DEF AtomicInv, ExecutedOK
    <2>2. CASE w \in committed
      BY <2>2 DEF Accounted
    <2>3. CASE \E c \in Connections : w \in pending[c].writes
      <3>1. PICK c \in Connections : w \in pending[c].writes
        BY <2>3
      <3>2. CASE c = x
        BY <1>4, <3>1, <3>2
      <3>3. CASE c # x
        BY <3>1, <3>3 DEF Accounted
      <3>4. QED
        BY <3>2, <3>3
    <2>4. CASE \E b \in w.within : outcome[b] \in TakenBack
      BY <1>1, <1>2, <2>4 DEF Accounted
    <2>5. CASE \E t \in Threads : \E f \in ToSet(stack[t]) : Gone(f) /\ f.block \in w.within
      BY <2>5 DEF Accounted
    <2>6. QED
      BY <2>1, <2>2, <2>3, <2>4, <2>5 DEF Accounted
  <1>5. ExecutedOK'
    BY <1>4 DEF ExecutedOK
  <1>6. QED
    BY <1>3, <1>5 DEF AtomicInv

\* A step that leaves the blocks, the writes and the transactions alone.
LEMMA StayAtomic ==
  ASSUME AtomicInv, UNCHANGED <<stack, pending, committed, lost, outcome, executed>>
  PROVE  AtomicInv'
  BY DEF AtomicInv, DurableOK, ExecutedOK, Accounted, Gone

LEMMA CallEndAtomic ==
  ASSUME Inv, AllSole, AtomicInv, NEW t \in Threads, CallEnd(t)
  PROVE  AtomicInv'
  <1>0. TypeInv /\ PhaseOK /\ CustodyInv /\ SessionInv /\ HeldInv
    BY DEF Inv
  <1>1. PICK x \in Connections : x = target[t] /\ Sole(x) /\ OnIt(t, x)
    BY <1>0 DEF CallEnd, PhaseOK, AllSole, OnIt
  <1>2. /\ UNCHANGED <<stack, outcome, executed>>
        /\ lost' \in {lost, lost \ {x}}
        /\ lost' # lost => via[t] # NoPool
        /\ \/ pending' = pending
           \/ /\ pending' = [pending EXCEPT ![x] = Idle]
              /\ via[t] # NoPool \/ phase[t] \in {"undo", "commit"}
        /\ \/ committed' = committed
           \/ /\ committed' = committed \cup pending[x].writes
              /\ phase[t] = "commit"
    BY <1>1 DEF CallEnd
  <1>3. ASSUME via[t] # NoPool \/ phase[t] \in {"undo", "commit"}
        PROVE  \A u \in Threads : FramesOn(u, x) = {}
    <2>1. FramesOn(t, x) = {}
      BY <1>0, <1>1, <1>3, SessionOf DEF CustodyInv, CallsCustody, Session
    <2>2. QED
      BY <1>1, <2>1, OthersOff
  <1>4. WritesOf(x)
    BY <1>0, <1>1 DEF HeldInv, Held
  <1>5. /\ Settled /\ \A b : outcome'[b] = outcome[b]
        /\ \A u \in Threads : ToSet(stack'[u]) = ToSet(stack[u])
    BY <1>2 DEF Settled
  <1>6. \A c \in Connections : c # x => pending'[c] = pending[c]
    BY <1>0, <1>2 DEF TypeInv
  <1>7. \A w \in committed' \ committed : \A b \in w.within : outcome'[b] \in Whole
    <2>1. ASSUME NEW w \in committed' \ committed, NEW b \in w.within
          PROVE  outcome'[b] \in Whole
      <3>1. w \in pending[x].writes /\ phase[t] = "commit"
        BY <1>2
      <3>2. outcome[b] \in Whole \/ OpenOn(b, x)
        BY <1>4, <3>1 DEF WritesOf
      <3>3. ~OpenOn(b, x)
        BY <1>3, <3>1 DEF OpenOn, BlocksOn
      <3>4. QED
        BY <1>5, <3>2, <3>3
    <2>2. QED
      BY <2>1
  <1>8. ASSUME NEW w \in pending[x].writes, w.within # {} PROVE Accounted(w)'
    <2>1. CASE pending' = pending
      BY <1>8, <2>1 DEF Accounted
    <2>2. CASE pending' # pending
      <3>1. \A b : ~OuterOn(b, x)
        BY <1>2, <1>3, <2>2 DEF OuterOn
      <3>2. \E b \in w.within : outcome[b] = "stranded"
        BY <1>4, <1>8, <3>1 DEF WritesOf
      <3>3. QED
        BY <1>5, <3>2 DEF Accounted, TakenBack
    <2>3. QED
      BY <2>1, <2>2
  <1>9. ASSUME NEW u \in Threads, NEW f \in ToSet(stack[u]), Gone(f)
        PROVE  Gone(f)'
    <2>1. CASE lost' = lost
      BY <1>5, <1>9, <2>1 DEF Gone
    <2>2. CASE lost' # lost
      <3>1. f.conn # x
        BY <1>2, <1>3, <2>2 DEF FramesOn
      <3>2. QED
        BY <1>2, <1>5, <1>9, <3>1 DEF Gone
    <2>3. QED
      BY <2>1, <2>2
  <1>10. committed \subseteq committed' /\ executed' = executed
    BY <1>2
  <1>11. QED
    BY <1>0, <1>5, <1>6, <1>7, <1>8, <1>9, <1>10, AtomicStep

LEMMA ExecuteAtomic ==
  ASSUME Inv, AtomicInv, NEW t \in Threads, Execute(t)
  PROVE  AtomicInv'
  <1>0. TypeInv /\ PhaseOK
    BY DEF Inv
  <1>1. PICK x \in Connections : x = target[t]
    BY <1>0 DEF Execute, PhaseOK, InCall
  <1> DEFINE w == Write(Cardinality(executed) + 1, BlocksOn(t, x))
  <1>2. /\ executed' = executed \cup {w}
        /\ pending' = [pending EXCEPT ![x].writes = @ \cup {w}]
        /\ UNCHANGED <<stack, committed, lost, outcome>>
    BY <1>1 DEF Execute
  <1>3. /\ pending'[x].writes = pending[x].writes \cup {w}
        /\ \A c \in Connections : c # x => pending'[c] = pending[c]
    BY <1>0, <1>2 DEF TypeInv, Sessions
  <1>4. \A v \in pending'[x].writes : Accounted(v)'
    BY DEF Accounted
  <1>5. Settled /\ \A f : Gone(f) => Gone(f)'
    BY <1>2 DEF Settled, Gone
  <1>6. QED
    BY <1>0, <1>2, <1>3, <1>4, <1>5, AtomicStep

\* The server goes, and with it what an open block wrote.
LEMMA LoseAtomic ==
  ASSUME Inv, AllSole, AtomicInv, NEW x \in Connections, Lose(x)
  PROVE  AtomicInv'
  <1>0. TypeInv /\ HeldInv /\ Sole(x)
    BY DEF Inv, AllSole
  <1>1. /\ lost' = lost \cup {x} /\ pending' = [pending EXCEPT ![x] = Idle]
        /\ UNCHANGED <<stack, committed, outcome, executed>>
    BY DEF Lose, threadVars
  <1>2. \A c \in Connections : c # x => pending'[c] = pending[c]
    BY <1>0, <1>1 DEF TypeInv
  <1>3. ASSUME NEW w \in pending[x].writes, w.within # {} PROVE Accounted(w)'
    <2>1. PICK b \in w.within : outcome[b] = "stranded" \/ OuterOn(b, x)
      BY <1>0, <1>3 DEF HeldInv, Held, WritesOf
    <2>2. CASE outcome[b] = "stranded"
      BY <1>1, <2>2 DEF Accounted, TakenBack
    <2>3. CASE OuterOn(b, x)
      <3>1. PICK u \in Threads : \E f \in FramesOn(u, x) :
               f.level = 0 /\ f.block = b /\ outcome[b] = "open"
        BY <2>3 DEF OuterOn
      <3>2. PICK f \in ToSet(stack[u]) :
               f.conn = x /\ f.level = 0 /\ f.block = b /\ outcome[b] = "open"
        BY <3>1 DEF FramesOn
      <3>3. Gone(f)' /\ f \in ToSet(stack'[u])
        BY <1>1, <3>2 DEF Gone
      <3>4. QED
        BY <3>2, <3>3 DEF Accounted
    <2>4. QED
      BY <2>1, <2>2, <2>3
  <1>4. /\ Settled
        /\ \A u \in Threads : \A f \in ToSet(stack[u]) :
              Gone(f) => f \in ToSet(stack'[u]) /\ Gone(f)'
    BY <1>1 DEF Settled, Gone
  <1>5. QED
    BY <1>0, <1>1, <1>2, <1>3, <1>4, AtomicStep

LEMMA OpensAtomic ==
  ASSUME Inv, AtomicInv, NEW t \in Threads, Opens(t)
  PROVE  AtomicInv'
  <1>0. TypeInv /\ PhaseOK /\ BlocksInv
    BY DEF Inv
  <1>1. PICK x \in Connections : x = target[t]
    BY <1>0, OpensFrame
  <1>2. PICK b \in Fresh :
          /\ b \in Blocks /\ NewFrame(t, b) \in Frame
          /\ stack' = [stack EXCEPT ![t] = Append(@, NewFrame(t, b))]
          /\ outcome' = [outcome EXCEPT ![b] = "open"]
          /\ pending' = IF phase[t] = "begin" THEN pending
                        ELSE [pending EXCEPT ![x].savepoints = Append(@, Mark(t, b))]
    BY <1>0, <1>1, OpensFrame
  <1>3. UNCHANGED <<committed, lost, executed>>
    BY <1>0, OpensFrame
  <1>4. /\ Settled
        /\ \A u \in Threads : \A g \in ToSet(stack[u]) : outcome'[g.block] = outcome[g.block]
    BY <1>0, <1>2, BlockOpens
  <1>5. /\ pending'[x].writes = pending[x].writes
        /\ \A c \in Connections : c # x => pending'[c] = pending[c]
    BY <1>0, <1>2 DEF TypeInv, Sessions
  <1>6. \A u \in Threads : ToSet(stack[u]) \subseteq ToSet(stack'[u])
    <2>1. /\ ToSet(stack'[t]) = ToSet(stack[t]) \cup {NewFrame(t, b)}
          /\ \A u \in Threads : u # t => stack'[u] = stack[u]
      BY <1>0, <1>2, FramesPushed
    <2>2. QED
      BY <2>1
  <1>7. \A u \in Threads : \A f \in ToSet(stack[u]) :
           Gone(f) => f \in ToSet(stack'[u]) /\ Gone(f)'
    BY <1>3, <1>4, <1>6 DEF Gone
  <1>8. \A w \in pending[x].writes : Accounted(w)'
    BY <1>5 DEF Accounted
  <1>9. QED
    BY <1>0, <1>3, <1>4, <1>5, <1>7, <1>8, AtomicStep

\* A nested block ends: what it takes back was run in it.
LEMMA NestedAtomic ==
  ASSUME Inv, AllSole, AtomicInv, NEW t \in Threads, Pops(t), phase[t] # "closing"
  PROVE  AtomicInv'
  <1>0. TypeInv /\ PhaseOK /\ BlocksInv /\ HeldInv
    BY DEF Inv
  <1>1. PICK f \in Frame, x \in Connections : f = Top(t) /\ x = f.conn
    BY <1>0, PopsFrame DEF Frame
  <1>2. /\ stack[t] # <<>> /\ f.level > 0 /\ f.level \in Int /\ f \in ToSet(stack[t])
        /\ stack' = [stack EXCEPT ![t] = Pop(t)]
        /\ UNCHANGED <<committed, lost, executed>>
    BY <1>0, <1>1, PopsFrame, TopTypes DEF Frame
  <1>3. PICK end \in {"ok", "failed", "left", "kept"} :
           /\ outcome' = [outcome EXCEPT ![f.block] = end]
           /\ \/ /\ end = "ok" /\ HasSavepoint(f)
                 /\ pending' = [pending EXCEPT ![x] = Released(@, f.level)]
              \/ /\ end = "failed" /\ HasSavepoint(f)
                 /\ pending' = [pending EXCEPT ![x] = Undone(@, f.level)]
              \/ /\ end = "left" /\ HasSavepoint(f)
                 /\ pending' = [pending EXCEPT ![x] = BackTo(@, f.level)]
              \/ end = "kept" /\ pending' = pending
    BY <1>0, <1>1, PopsFrame
  <1>4. /\ Settled /\ outcome'[f.block] = end
        /\ \A u \in Threads : \A g \in ToSet(stack[u]) :
              g # f => outcome'[g.block] = outcome[g.block]
    <2>1. EndsAs(f, end)
      BY <1>3 DEF EndsAs
    <2>2. f \in ToSet(stack[t]) /\ phase[t] # "closing"
      BY <1>2
    <2>3. BlockEnded(f, end)
      BY <1>0, <2>1, <2>2, BlockEnds, Zenon
    <2>4. QED
      BY <2>3 DEF BlockEnded
  <1>5. \A c \in Connections : c # x => pending'[c] = pending[c]
    BY <1>0, <1>3 DEF TypeInv
  <1>6. ASSUME NEW w \in pending[x].writes PROVE Accounted(w)'
    <2>1. CASE end \in {"ok", "kept"}
      <3>1. pending'[x].writes = pending[x].writes
        BY <1>0, <1>3, <2>1 DEF Released, TypeInv
      <3>2. QED
        BY <3>1 DEF Accounted
    <2>2. CASE end \in {"failed", "left"}
      <3> DEFINE k == LatestSavepoint(pending[x], f.level)
      <3>1. pending'[x].writes = pending[x].savepoints[k].writes /\ HasSavepoint(f)
        BY <1>0, <1>3, <2>2 DEF Undone, BackTo, TypeInv
      <3>2. x \notin lost
        BY <1>0, <1>1, <3>1 DEF HeldInv, HasSavepoint, SavepointsNamed, Idle
      <3>3. f \in FramesOn(t, x) /\ Held(x)
        BY <1>0, <1>1, <1>2 DEF FramesOn, HeldInv, AllSole
      <3>4. PICK i \in DOMAIN pending[x].savepoints : SetFor(f, x, i)
        BY <1>2, <3>2, <3>3 DEF Held
      <3>5. k = i
        <4>1. pending[x] \in Sessions
          BY <1>0, MarkTypes
        <4>2. QED
          BY <1>2, <3>4, <4>1, LatestIs DEF SetFor
      <3>6. w \in pending'[x].writes \/ f.block \in w.within
        BY <3>1, <3>4, <3>5 DEF SetFor
      <3>7. QED
        BY <1>4, <2>2, <3>6 DEF Accounted, TakenBack
    <2>3. QED
      BY <2>1, <2>2
  <1>7. ASSUME NEW u \in Threads, NEW g \in ToSet(stack[u]), Gone(g)
        PROVE  g \in ToSet(stack'[u]) /\ Gone(g)'
    <2>1. g # f
      BY <1>2, <1>7 DEF Gone
    <2>2. /\ ToSet(stack'[t]) = ToSet(stack[t]) \ {f}
          /\ \A v \in Threads : v # t => stack'[v] = stack[v]
      BY <1>0, <1>1, <1>2, FramesPopped
    <2>3. QED
      BY <1>2, <1>4, <1>7, <2>1, <2>2 DEF Gone
  <1>8. QED
    BY <1>0, <1>2, <1>4, <1>5, <1>6, <1>7, AtomicStep

\* The outermost block ends: everything run in it is durable, or taken back.
LEMMA EndsAtomic ==
  ASSUME Inv, AllSole, AtomicInv, NEW t \in Threads, Ends(t)
  PROVE  AtomicInv'
  <1>0. TypeInv /\ PhaseOK /\ BlocksInv /\ NestingInv /\ CustodyInv /\ SessionInv /\ HeldInv
    BY DEF Inv
  <1>1. PICK f \in Frame, x \in Connections : f = Top(t) /\ x = f.conn
    BY <1>0, EndsFrame DEF Frame
  <1>2. /\ phase[t] # "closing" /\ stack[t] # <<>> /\ f.level = 0
        /\ f \in ToSet(stack[t]) /\ f \in FramesOn(t, x) /\ Sole(x)
        /\ UNCHANGED <<stack, lost, executed>>
    BY <1>0, <1>1, EndsFrame, TopTypes DEF FramesOn, AllSole
  <1>3. PICK end \in Ended :
           /\ outcome' = [outcome EXCEPT ![f.block] = end]
           /\ \/ /\ end = "ok" /\ pending' = [pending EXCEPT ![x] = Idle]
                 /\ committed' = committed \cup pending[x].writes /\ x \notin lost
              \/ /\ end = "failed" /\ pending' = [pending EXCEPT ![x] = Idle]
                 /\ committed' = committed
              \/ /\ end = "stranded" /\ UNCHANGED <<pending, committed>>
    BY <1>0, <1>1, EndsFrame DEF Ended
  <1>4. /\ Settled /\ outcome'[f.block] = end
        /\ \A u \in Threads : \A g \in ToSet(stack[u]) :
              g # f => outcome'[g.block] = outcome[g.block]
        /\ \A a \in Blocks : a # f.block => outcome'[a] = outcome[a]
    <2>1. EndsAs(f, end)
      BY <1>3 DEF EndsAs
    <2>2. f \in ToSet(stack[t]) /\ phase[t] # "closing"
      BY <1>2
    <2>3. BlockEnded(f, end)
      BY <1>0, <2>1, <2>2, BlockEnds, Zenon
    <2>4. QED
      BY <2>3 DEF BlockEnded
  <1>5. \A c \in Connections : c # x => pending'[c] = pending[c]
    BY <1>0, <1>3 DEF TypeInv
  <1>6. \A b : OpenOn(b, x) \/ OuterOn(b, x) => b = f.block
    <2>1. {g.level : g \in FramesOn(t, x) \ {f}} = 0..(0 - 1)
      BY <1>0, <1>1, <1>2, TopIsDeepest
    <2>2. \A g \in FramesOn(t, x) : g = f
      <3>1. \A n : n \notin 0..(0 - 1)
        OBVIOUS
      <3>2. QED
        BY <2>1, <3>1
    <2>3. \A u \in Threads : u # t => FramesOn(u, x) = {}
      BY <1>2, OthersOff DEF OnIt
    <2>4. QED
      BY <2>2, <2>3 DEF OpenOn, OuterOn, BlocksOn
  <1>7. /\ WritesOf(x)
        /\ \A w \in pending[x].writes : \A b \in w.within : b \in Blocks
    BY <1>0, <1>2, MarkTypes DEF HeldInv, Held, Writes
  <1>8. \A b \in Blocks : outcome[b] \in Whole => outcome'[b] = outcome[b]
    BY <1>4 DEF Settled, Whole
  <1>9. \A w \in committed' \ committed : \A b \in w.within : outcome'[b] \in Whole
    <2>1. ASSUME NEW w \in committed' \ committed, NEW b \in w.within
          PROVE  outcome'[b] \in Whole
      <3>1. w \in pending[x].writes /\ end = "ok"
        BY <1>3
      <3>2. b \in Blocks /\ (outcome[b] \in Whole \/ b = f.block)
        BY <1>6, <1>7, <3>1 DEF WritesOf
      <3>3. QED
        BY <1>4, <1>8, <3>1, <3>2 DEF Whole
    <2>2. QED
      BY <2>1
  <1>10. ASSUME NEW w \in pending[x].writes, w.within # {} PROVE Accounted(w)'
    <2>1. CASE end = "ok"
      BY <1>3, <2>1 DEF Accounted
    <2>2. CASE end = "failed"
      <3>1. PICK b \in w.within : b \in Blocks /\ (outcome[b] = "stranded" \/ b = f.block)
        BY <1>6, <1>7, <1>10 DEF WritesOf
      <3>2. outcome'[b] \in TakenBack
        BY <1>4, <1>8, <2>2, <3>1 DEF TakenBack, Whole
      <3>3. QED
        BY <3>2 DEF Accounted
    <2>3. CASE end = "stranded"
      BY <1>3, <2>3 DEF Accounted
    <2>4. QED
      BY <2>1, <2>2, <2>3 DEF Ended
  <1>11. ASSUME NEW u \in Threads, NEW g \in ToSet(stack[u]), Gone(g)
         PROVE  \/ outcome'[g.block] \in TakenBack
                \/ g \in ToSet(stack'[u]) /\ Gone(g)'
    <2>1. CASE g = f
      BY <1>1, <1>3, <1>4, <1>11, <2>1 DEF Gone, TakenBack, Ended
    <2>2. CASE g # f
      BY <1>2, <1>4, <1>11, <2>2 DEF Gone
    <2>3. QED
      BY <2>1, <2>2
  <1>12. committed \subseteq committed'
    BY <1>3
  <1>13. QED
    BY <1>0, <1>2, <1>4, <1>5, <1>9, <1>10, <1>11, <1>12, AtomicStep

\* A connection that goes back to its pool holds no write of an open block.
LEMMA ClosesAtomic ==
  ASSUME Inv, AllSole, AtomicInv, NEW t \in Threads, Pops(t), phase[t] = "closing"
  PROVE  AtomicInv'
  <1>0. TypeInv /\ PhaseOK /\ BlocksInv /\ NestingInv /\ CustodyInv /\ SessionInv /\ HeldInv
    BY DEF Inv
  <1>1. PICK f \in Frame, x \in Connections : f = Top(t) /\ x = f.conn /\ Sole(x)
    BY <1>0, PopsFrame DEF Frame, AllSole
  <1>2. /\ stack[t] # <<>> /\ f \in ToSet(stack[t]) /\ OnIt(t, x)
        /\ stack' = [stack EXCEPT ![t] = Pop(t)]
        /\ UNCHANGED <<outcome, committed, executed>>
        /\ lost' \in {lost, lost \ {x}}
        /\ pending' = pending \/ pending' = [pending EXCEPT ![x] = Idle]
    BY <1>0, <1>1, PopsFrame, TopTypes DEF FramesOn, OnIt, GiveBack, Rollback, dataVars
  <1>3. \A u \in Threads : \A g \in FramesOn(u, x) : u = t /\ g = f
    <2>1. FramesOn(t, x) = {f}
      BY <1>0, <1>1, LastBlock
    <2>2. \A u \in Threads : u # t => FramesOn(u, x) = {}
      BY <1>1, <1>2, OthersOff
    <2>3. QED
      BY <2>1, <2>2
  <1>4. outcome[f.block] \in Ended
    BY <1>0, <1>1, <1>2, FrameOutcome
  <1>5. \A b : ~OuterOn(b, x)
    BY <1>3, <1>4 DEF OuterOn, Ended
  <1>6. \A c \in Connections : c # x => pending'[c] = pending[c]
    BY <1>0, <1>2 DEF TypeInv
  <1>7. ASSUME NEW w \in pending[x].writes, w.within # {} PROVE Accounted(w)'
    <2>1. \E b \in w.within : outcome[b] = "stranded"
      BY <1>0, <1>1, <1>5, <1>7 DEF HeldInv, Held, WritesOf
    <2>2. QED
      BY <1>2, <2>1 DEF Accounted, TakenBack
  <1>8. ASSUME NEW u \in Threads, NEW g \in ToSet(stack[u]), Gone(g)
        PROVE  g \in ToSet(stack'[u]) /\ Gone(g)'
    <2>1. g # f
      BY <1>4, <1>8 DEF Gone, Ended
    <2>2. g.conn # x
      BY <1>3, <2>1 DEF FramesOn
    <2>3. /\ ToSet(stack'[t]) = ToSet(stack[t]) \ {f}
          /\ \A v \in Threads : v # t => stack'[v] = stack[v]
      BY <1>0, <1>1, <1>2, FramesPopped
    <2>4. QED
      BY <1>2, <1>8, <2>1, <2>2, <2>3 DEF Gone
  <1>9. Settled
    BY <1>2 DEF Settled
  <1>10. QED
    BY <1>0, <1>2, <1>6, <1>7, <1>8, <1>9, AtomicStep

-----------------------------------------------------------------------------
(* The theorems *)

LEMMA NextAtomic ==
  ASSUME Inv, AllSole, AtomicInv, [Next]_vars
  PROVE  AtomicInv'
  <1>0. TypeInv /\ PhaseOK
    BY DEF Inv
  <1>1. CASE UNCHANGED vars
    BY <1>1, StayAtomic DEF vars, threadVars, dataVars
  <1>2. ASSUME NEW t \in Threads, Start(t) \/ Move(t) \/ RegisterNested(t)
        PROVE  AtomicInv'
    BY <1>2, StayAtomic DEF Start, Move, RegisterNested, dataVars
  <1>3. ASSUME NEW t \in Threads, Pops(t) PROVE AtomicInv'
    BY <1>3, NestedAtomic, ClosesAtomic
  <1>4. CASE Next
    BY <1>0, <1>2, <1>3, <1>4, Kinds, CallEndAtomic, OpensAtomic, EndsAtomic,
        ExecuteAtomic, LoseAtomic
  <1>5. QED
    BY <1>1, <1>4

LEMMA InitAtomic == Init => AtomicInv
  BY DEF Init, AtomicInv, DurableOK, ExecutedOK

\* What each thread's code names is fixed, so that threads never come to share
\* a connection.
LEMMA UsesFixed == ASSUME TypeInv, PhaseOK, [Next]_vars PROVE Private' <=> Private
  <1>1. CASE UNCHANGED vars
    BY <1>1 DEF vars, Private
  <1>2. CASE Next
    <2>1. uses' = uses
      <3>1. ASSUME NEW t \in Threads, Opens(t) \/ Pops(t) \/ Ends(t)
            PROVE  uses' = uses
        BY <3>1, OpensFrame, PopsFrame, EndsFrame
      <3>2. ASSUME NEW t \in Threads, Start(t) \/ Move(t) \/ CallEnd(t) \/ RegisterNested(t)
                                      \/ Execute(t)
            PROVE  uses' = uses
        BY <3>2 DEF Start, Move, CallEnd, RegisterNested, Execute
      <3>3. QED
        BY <1>2, <3>1, <3>2, Kinds DEF Lose
    <2>2. QED
      BY <2>1 DEF Private
  <1>3. QED
    BY <1>1, <1>2

\* Where no two threads name one connection, every write run in blocks is
\* accounted for, and every durable one ran in no block that is open or that was
\* taken back.
LEMMA AtomicHolds == Spec => [](Private => AtomicInv)
  <1>1. Init => (Private => AtomicInv)
    BY InitAtomic
  <1>2. Inv /\ (Private => AtomicInv) /\ [Next]_vars => (Private => AtomicInv)'
    <2>1. ASSUME Inv, [Next]_vars PROVE Private' <=> Private
      BY <2>1, UsesFixed DEF Inv
    <2>2. ASSUME Inv, [Next]_vars, Private, AtomicInv PROVE AtomicInv'
      <3>1. AllSole
        BY <2>2, PrivateSole DEF AllSole, Inv
      <3>2. QED
        BY <2>2, <3>1, NextAtomic
    <2>3. QED
      BY <2>1, <2>2
  <1>3. QED
    BY <1>1, <1>2, InvHolds, PTL DEF Spec

\* A block is atomic, at every depth of nesting and whichever statement of
\* transaction() raises, on a live connection or a lost one: no write is durable
\* while a block it ran in is open, nor after that block was taken back.  What
\* it does not say is that every block that raised is: a RELEASE, a ROLLBACK TO
\* or a ROLLBACK that raises leaves the block's writes in the transaction.
THEOREM AtomicBlocksHolds == Spec => []AtomicBlocks
  <1>1. (Private => AtomicInv) => AtomicBlocks
    BY DEF AtomicBlocks, AtomicInv, DurableOK, Whole
  <1>2. QED
    BY <1>1, AtomicHolds, PTL

\* What a block that ended well wrote is durable: no undone inner block, reused
\* savepoint name, lost server, failed closing statement or pool's reset takes
\* it back.
THEOREM FinishedBlocksKeptHolds == Spec => []FinishedBlocksKept
  <1>1. ASSUME Inv, Private => AtomicInv PROVE FinishedBlocksKept
    <2>1. SUFFICES ASSUME Private, NEW w \in executed, w.within # {},
                          \A b \in w.within : outcome[b] \in {"ok", "kept"}
                   PROVE  w \in committed
      BY DEF FinishedBlocksKept
    <2>2. TypeInv /\ HeldInv /\ Accounted(w)
      BY <1>1, <2>1 DEF Inv, AtomicInv, ExecutedOK
    <2>3. ASSUME NEW x \in Connections, w \in pending[x].writes PROVE FALSE
      <3>1. WritesOf(x)
        BY <2>1, <2>2, PrivateSole DEF HeldInv, Held
      <3>2. \E b \in w.within : outcome[b] \in {"stranded", "open"}
        BY <2>1, <2>3, <3>1 DEF WritesOf, OuterOn
      <3>3. QED
        BY <2>1, <3>2
    <2>4. QED
      BY <2>1, <2>2, <2>3 DEF Accounted, Gone, TakenBack
  <1>2. QED
    BY <1>1, AtomicHolds, InvHolds, PTL

=============================================================================
