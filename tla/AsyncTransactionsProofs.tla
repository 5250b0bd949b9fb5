---------------------- MODULE AsyncTransactionsProofs ----------------------
(***************************************************************************)
(* Proofs about AsyncTransactions, for any tasks, adapters, pools and      *)
(* bounds.                                                                 *)
(*                                                                         *)
(* First: no driver connection ever runs two calls at once, however the    *)
(* tasks share them and wherever they are cancelled.                       *)
(*                                                                         *)
(* Then: blocks are atomic, and what finished is durable.  The invariant   *)
(* is a conjunction of named parts.  Every action is first shown to be one *)
(* of ten kinds of step (StepKinds), each of which concerns one adapter    *)
(* that no other task is on (StepFocus); each part of the invariant is     *)
(* then kept by every kind.                                                *)
(***************************************************************************)
EXTENDS AsyncTransactions, FiniteSetTheorems, FunctionTheorems, SequenceTheorems,
        WellFoundedInduction, TLAPS

-----------------------------------------------------------------------------
(* The invariant *)

\* The calls that name their adapter themselves.
OwnCalls == Calls \ BlockCalls

Frames == [block : Blocks, adapter : Adapters, level : Int, pool : Pools \cup {NoPool},
           opened : BOOLEAN, source : Pools \cup {NoPool}]

CallTypes == [adapter : Adapters \cup {"none"}, pool : Pools \cup {NoPool}, n : Int]

Outcomes == {"unused", "open", "ok", "failed", "cut", "kept", "stranded"}

TypeInv ==
    /\ registry \in [Adapters -> Int]
    /\ stack \in [Tasks -> Seq(Frames)]
    /\ phase \in [Tasks -> Calls \cup {"user", "give back"}]
    /\ stage \in [Tasks -> {"wait", "running", "undoing"}]
    /\ call \in [Tasks -> CallTypes]
    /\ lock \in [Adapters -> Tasks \cup {Nobody}]
    /\ IsFiniteSet(executed)

\* A task in a call has an adapter for it: its innermost block's, or the one
\* that call names.
HasAdapter ==
    \A t \in Tasks :
        /\ phase[t] \in BlockCalls => stack[t] # <<>>
        /\ phase[t] \in OwnCalls => call[t].adapter \in Adapters

\* The lock of an adapter is with the task whose thread runs on it, from the
\* thread's start to its end, the thread that closes a cursor included.
Locked ==
    \A t \in Tasks : InCall(t) /\ stage[t] # "wait" => lock[On(t)] = t

LockInv == TypeInv /\ HasAdapter /\ Locked
-----------------------------------------------------------------------------
(* What a step changes *)

LEMMA TopFacts ==
    ASSUME TypeInv, NEW t \in Tasks, stack[t] # <<>>
    PROVE  Top(t) \in Frames /\ Pop(t) \in Seq(Frames)
<1>1. stack[t] \in Seq(Frames)
  BY DEF TypeInv
<1>2. Len(stack[t]) \in 1..Len(stack[t]) /\ Len(stack[t]) - 1 \in 0..Len(stack[t])
  BY <1>1, EmptySeq, LenProperties
<1>3. Top(t) \in Frames
  BY <1>1, <1>2, ElementOfSeq DEF Top
<1>4. Pop(t) \in Seq(Frames)
  BY <1>1, <1>2, SubSeqProperties DEF Pop
<1>5. QED
  BY <1>3, <1>4

\* A step of task t: its own call and blocks, and no other task's.
Moves(t) ==
    /\ registry' \in [Adapters -> Int]
    /\ stack' \in [Tasks -> Seq(Frames)]
    /\ phase' \in [Tasks -> Calls \cup {"user", "give back"}]
    /\ stage' \in [Tasks -> {"wait", "running", "undoing"}]
    /\ call' \in [Tasks -> CallTypes]
    /\ \A u \in Tasks \ {t} :
          /\ phase'[u] = phase[u] /\ stage'[u] = stage[u]
          /\ stack'[u] = stack[u] /\ call'[u] = call[u]
    /\ phase'[t] \in BlockCalls => stack'[t] # <<>>
    /\ phase'[t] \in OwnCalls => call'[t].adapter \in Adapters

\* The parts of a step, each of task t alone.
LEMMA GoFacts ==
    ASSUME TypeInv, NEW t \in Tasks, NEW next \in Calls \cup {"user", "give back"}, Go(t, next)
    PROVE  /\ phase' \in [Tasks -> Calls \cup {"user", "give back"}] /\ phase'[t] = next
           /\ stage' \in [Tasks -> {"wait", "running", "undoing"}] /\ stage'[t] = "wait"
           /\ \A u \in Tasks \ {t} : phase'[u] = phase[u] /\ stage'[u] = stage[u]
  BY DEF TypeInv, Go

LEMMA LeaveScopeFacts ==
    ASSUME TypeInv, NEW t \in Tasks, NEW a \in Adapters, NEW pool \in Pools \cup {NoPool},
           LeaveScope(t, a, pool)
    PROVE  /\ phase' \in [Tasks -> Calls \cup {"user", "give back"}]
           /\ phase'[t] \in {"user", "give back"}
           /\ stage' \in [Tasks -> {"wait", "running", "undoing"}] /\ stage'[t] = "wait"
           /\ call' \in [Tasks -> CallTypes]
           /\ \A u \in Tasks \ {t} :
                 phase'[u] = phase[u] /\ stage'[u] = stage[u] /\ call'[u] = call[u]
<1>1. NoCall \in CallTypes /\ [NoCall EXCEPT !.adapter = a, !.pool = pool] \in CallTypes
  <2>1. NoCall \in CallTypes
    BY DEF NoCall, CallTypes
  <2>2. QED
    BY <2>1 DEF CallTypes
<1>2. /\ call' \in [Tasks -> CallTypes]
      /\ \A u \in Tasks \ {t} : call'[u] = call[u]
  BY <1>1 DEF LeaveScope, TypeInv
<1>3. \E next \in {"user", "give back"} : Go(t, next)
  BY DEF LeaveScope
<1>4. PICK next \in {"user", "give back"} : Go(t, next)
  BY <1>3
<1>5. QED
  BY <1>2, <1>4, GoFacts

LEMMA RegisterFacts ==
    ASSUME TypeInv, NEW a \in Adapters, NEW depth \in Int, Register(a, depth)
    PROVE  registry' \in [Adapters -> Int]
  BY DEF TypeInv, Register

LEMMA PopFacts ==
    ASSUME TypeInv, NEW t \in Tasks, stack[t] # <<>>, stack' = [stack EXCEPT ![t] = Pop(t)]
    PROVE  /\ stack' \in [Tasks -> Seq(Frames)]
           /\ \A u \in Tasks \ {t} : stack'[u] = stack[u]
  BY TopFacts DEF TypeInv

LEMMA FrameTyped ==
    ASSUME TypeInv, NEW t \in Tasks, NEW c \in CallTypes, c.adapter \in Adapters,
           NEW depth \in Int, NEW opened \in BOOLEAN, Fresh # {}
    PROVE  Frame(t, c, depth, opened) \in Frames
<1>1. (CHOOSE b \in Fresh : TRUE) \in Blocks
  BY DEF Fresh
<1>2. c.pool \in Pools \cup {NoPool}
  BY DEF CallTypes
<1>3. stack[t] # <<>> => Top(t).source \in Pools \cup {NoPool}
  BY TopFacts DEF Frames
<1>4. QED
  BY <1>1, <1>2, <1>3 DEF Frame, Frames

LEMMA PushFacts ==
    ASSUME TypeInv, NEW t \in Tasks, NEW c \in CallTypes, c.adapter \in Adapters,
           NEW depth \in Int, NEW opened \in BOOLEAN, Push(t, c, depth, opened)
    PROVE  /\ stack' \in [Tasks -> Seq(Frames)] /\ stack'[t] # <<>>
           /\ call' \in [Tasks -> CallTypes]
           /\ \A u \in Tasks \ {t} : stack'[u] = stack[u] /\ call'[u] = call[u]
<1>1. PICK f : f = Frame(t, c, depth, opened)
  OBVIOUS
<1>2. f \in Frames
  BY <1>1, FrameTyped DEF Push
<1>3. stack' = [stack EXCEPT ![t] = Append(stack[t], f)] /\ call' = [call EXCEPT ![t] = NoCall]
  BY <1>1 DEF Push
<1>4. Append(stack[t], f) \in Seq(Frames) /\ Append(stack[t], f) # <<>>
  <2>1. stack[t] \in Seq(Frames)
    BY DEF TypeInv
  <2>2. /\ Append(stack[t], f) \in Seq(Frames)
        /\ Len(Append(stack[t], f)) = Len(stack[t]) + 1
    BY <1>2, <2>1, AppendProperties
  <2>3. Len(stack[t]) \in Nat /\ Len(<<>>) = 0
    BY <2>1, LenProperties
  <2>4. QED
    BY <2>2, <2>3
<1>5. NoCall \in CallTypes
  BY DEF NoCall, CallTypes
<1>6. QED
  BY <1>3, <1>4, <1>5 DEF TypeInv

LEMMA OpenBlockMoves ==
    ASSUME TypeInv, NEW t \in Tasks, NEW c \in CallTypes, c.adapter \in Adapters,
           NEW opened \in BOOLEAN, OpenBlock(t, c, opened)
    PROVE  Moves(t) /\ stage'[t] = "wait"
<1>1. registry' \in [Adapters -> Int]
  BY RegisterFacts DEF OpenBlock
<1>2. /\ stack' \in [Tasks -> Seq(Frames)] /\ stack'[t] # <<>>
      /\ call' \in [Tasks -> CallTypes]
      /\ \A u \in Tasks \ {t} : stack'[u] = stack[u] /\ call'[u] = call[u]
  BY PushFacts DEF OpenBlock
<1>3. PICK next \in {"user", "begin"} : Go(t, next)
  BY DEF OpenBlock
<1>4. next \in Calls \cup {"user", "give back"} /\ next \notin OwnCalls
  BY DEF Calls, BlockCalls, OwnCalls
<1>5. QED
  BY <1>1, <1>2, <1>3, <1>4, GoFacts DEF Moves

LEMMA EndNestedMoves ==
    ASSUME TypeInv, NEW t \in Tasks, stack[t] # <<>>, NEW how, EndNested(t, how)
    PROVE  Moves(t) /\ stage'[t] = "wait"
<1>1. PICK f \in Frames : f = Top(t)
  BY TopFacts
<1>2. registry' \in [Adapters -> Int]
  BY <1>1, RegisterFacts DEF EndNested, Frames
<1>3. /\ stack' \in [Tasks -> Seq(Frames)]
      /\ \A u \in Tasks \ {t} : stack'[u] = stack[u]
  BY PopFacts DEF EndNested
<1>4. LeaveScope(t, f.adapter, f.pool) /\ f.adapter \in Adapters /\ f.pool \in Pools \cup {NoPool}
  BY <1>1 DEF EndNested, Frames
<1>5. {"user", "give back"} \cap (BlockCalls \cup OwnCalls) = {}
  BY DEF Calls, BlockCalls, OwnCalls
<1>6. QED
  BY <1>2, <1>3, <1>4, <1>5, LeaveScopeFacts DEF Moves

LEMMA EndBlockMoves ==
    ASSUME TypeInv, NEW t \in Tasks, stack[t] # <<>>, NEW how, EndBlock(t, how)
    PROVE  Moves(t) /\ stage'[t] = "wait"
<1>1. PICK f \in Frames : f = Top(t)
  BY TopFacts
<1>2. registry' \in [Adapters -> Int]
  BY <1>1, RegisterFacts DEF EndBlock, Frames, None
<1>3. CASE f.opened
  <2>1. Go(t, "close") /\ stack' = stack /\ call' = call
    BY <1>1, <1>3 DEF EndBlock
  <2>2. "close" \in Calls /\ "close" \notin OwnCalls
    BY DEF Calls, BlockCalls, OwnCalls
  <2>3. /\ phase' \in [Tasks -> Calls \cup {"user", "give back"}] /\ phase'[t] = "close"
        /\ stage' \in [Tasks -> {"wait", "running", "undoing"}] /\ stage'[t] = "wait"
        /\ \A u \in Tasks \ {t} : phase'[u] = phase[u] /\ stage'[u] = stage[u]
    BY <2>1, <2>2, GoFacts
  <2>4. stack' \in [Tasks -> Seq(Frames)] /\ call' \in [Tasks -> CallTypes]
    BY <2>1 DEF TypeInv
  <2>5. QED
    BY <1>2, <2>1, <2>2, <2>3, <2>4 DEF Moves
<1>4. CASE ~f.opened
  <2>1. LeaveScope(t, f.adapter, f.pool) /\ stack' = [stack EXCEPT ![t] = Pop(t)]
    BY <1>1, <1>4 DEF EndBlock
  <2>2. f.adapter \in Adapters /\ f.pool \in Pools \cup {NoPool}
    BY DEF Frames
  <2>3. {"user", "give back"} \cap (BlockCalls \cup OwnCalls) = {}
    BY DEF Calls, BlockCalls, OwnCalls
  <2>4. QED
    BY <1>2, <2>1, <2>2, <2>3, PopFacts, LeaveScopeFacts DEF Moves
<1>5. QED
  BY <1>3, <1>4
-----------------------------------------------------------------------------
(* What follows a call *)

LEMMA ProceedMoves ==
    ASSUME LockInv, NEW t \in Tasks, NEW next \in Calls \cup {"user"}, Proceed(t, next),
           next \in BlockCalls => phase[t] \in BlockCalls,
           next \in OwnCalls => phase[t] \in OwnCalls
    PROVE  Moves(t) /\ stage'[t] = "wait"
<1>1. /\ TypeInv /\ registry' = registry /\ stack' = stack /\ call' = call
      /\ phase[t] \in BlockCalls => stack[t] # <<>>
      /\ phase[t] \in OwnCalls => call[t].adapter \in Adapters
  BY DEF LockInv, HasAdapter, Proceed
<1>2. /\ phase' \in [Tasks -> Calls \cup {"user", "give back"}] /\ phase'[t] = next
      /\ stage' \in [Tasks -> {"wait", "running", "undoing"}] /\ stage'[t] = "wait"
      /\ \A u \in Tasks \ {t} : phase'[u] = phase[u] /\ stage'[u] = stage[u]
  BY <1>1, GoFacts DEF Proceed
<1>3. QED
  BY <1>1, <1>2 DEF Moves, TypeInv

LEMMA LeaveBlockMoves ==
    ASSUME TypeInv, NEW t \in Tasks, stack[t] # <<>>, LeaveBlock(t)
    PROVE  Moves(t) /\ stage'[t] = "wait"
<1>1. PICK f \in Frames : f = Top(t)
  BY TopFacts
<1>2. /\ registry' = registry
      /\ stack' \in [Tasks -> Seq(Frames)]
      /\ \A u \in Tasks \ {t} : stack'[u] = stack[u]
  BY PopFacts DEF LeaveBlock
<1>3. LeaveScope(t, f.adapter, f.pool) /\ f.adapter \in Adapters /\ f.pool \in Pools \cup {NoPool}
  BY <1>1 DEF LeaveBlock, Frames
<1>4. {"user", "give back"} \cap (BlockCalls \cup OwnCalls) = {}
  BY DEF Calls, BlockCalls, OwnCalls
<1>5. registry' \in [Adapters -> Int]
  BY <1>2 DEF TypeInv
<1>6. QED
  BY <1>2, <1>3, <1>4, <1>5, LeaveScopeFacts DEF Moves

\* A task leaves the scope of its own call.
LEMMA LeaveCallMoves ==
    ASSUME LockInv, NEW t \in Tasks, phase[t] \in OwnCalls,
           LeaveScope(t, call[t].adapter, call[t].pool),
           stack' = stack, registry' \in [Adapters -> Int]
    PROVE  Moves(t) /\ stage'[t] = "wait"
<1>1. TypeInv /\ call[t].adapter \in Adapters /\ call[t].pool \in Pools \cup {NoPool}
  BY DEF LockInv, HasAdapter, TypeInv, CallTypes
<1>2. {"user", "give back"} \cap (BlockCalls \cup OwnCalls) = {}
  BY DEF Calls, BlockCalls, OwnCalls
<1>3. stack' \in [Tasks -> Seq(Frames)]
  BY <1>1 DEF TypeInv
<1>4. QED
  BY <1>1, <1>2, <1>3, LeaveScopeFacts DEF Moves

LEMMA RunEndsMoves ==
    ASSUME LockInv, NEW t \in Tasks, phase[t] \in OwnCalls, NEW gave, RunEnds(t, gave)
    PROVE  Moves(t) /\ stage'[t] = "wait"
<1>1. LeaveScope(t, call[t].adapter, call[t].pool) /\ stack' = stack /\ registry' = registry
  BY DEF RunEnds, EndRun
<1>2. registry' \in [Adapters -> Int]
  BY <1>1 DEF LockInv, TypeInv
<1>3. QED
  BY <1>1, <1>2, LeaveCallMoves

LEMMA Kinds ==
    /\ {"cursor", "savepoint", "write", "commit write", "undo write"} = OwnCalls
    /\ {"begin", "release", "undo", "drop", "commit", "rollback", "close"} = BlockCalls
    /\ OwnCalls \cap BlockCalls = {} /\ OwnCalls \cup BlockCalls = Calls
    /\ {"user", "give back"} \cap Calls = {}
  BY DEF OwnCalls, BlockCalls, Calls

LEMMA OnItsAdapter ==
    ASSUME LockInv, NEW t \in Tasks, InCall(t)
    PROVE  /\ On(t) \in Adapters
           /\ phase[t] \in BlockCalls => stack[t] # <<>> /\ On(t) = Top(t).adapter
           /\ phase[t] \in OwnCalls => On(t) = call[t].adapter /\ call[t].adapter \in Adapters
<1>1. TypeInv /\ phase[t] \in OwnCalls \cup BlockCalls
  BY Kinds DEF LockInv, InCall
<1>2. CASE phase[t] \in BlockCalls
  <2>1. stack[t] # <<>> /\ phase[t] \notin OwnCalls /\ On(t) = Top(t).adapter
    BY <1>2, Kinds DEF LockInv, HasAdapter, On
  <2>2. QED
    BY <1>1, <2>1, TopFacts DEF Frames
<1>3. CASE phase[t] \notin BlockCalls
  BY <1>1, <1>3 DEF LockInv, HasAdapter, On
<1>4. QED
  BY <1>2, <1>3

LEMMA SucceededMoves ==
    ASSUME LockInv, NEW t \in Tasks, InCall(t), Succeeded(t)
    PROVE  Moves(t) /\ stage'[t] = "wait"
<1>1. /\ TypeInv
      /\ On(t) \in Adapters
      /\ phase[t] \in BlockCalls => stack[t] # <<>> /\ On(t) = Top(t).adapter
      /\ phase[t] \in OwnCalls => On(t) = call[t].adapter /\ call[t].adapter \in Adapters
      /\ call[t] \in CallTypes
  BY OnItsAdapter DEF LockInv, TypeInv
<1>2. Cardinality(executed) \in Nat
  BY <1>1, FS_CardinalityType DEF TypeInv
<1>3. CASE phase[t] = "cursor"
  <2>1. OpenBlock(t, call[t], TRUE)
    BY <1>3 DEF Succeeded
  <2>2. QED
    BY <1>1, <1>3, <2>1, Kinds, OpenBlockMoves
<1>4. CASE phase[t] = "savepoint"
  <2>1. Push(t, call[t], call[t].n, FALSE) /\ Go(t, "user") /\ registry' = registry
    BY <1>4 DEF Succeeded
  <2>2. call[t].n \in Int /\ call[t].adapter \in Adapters
    BY <1>1, <1>4, Kinds DEF CallTypes
  <2>3. /\ stack' \in [Tasks -> Seq(Frames)] /\ stack'[t] # <<>>
        /\ call' \in [Tasks -> CallTypes]
        /\ \A u \in Tasks \ {t} : stack'[u] = stack[u] /\ call'[u] = call[u]
    BY <1>1, <2>1, <2>2, PushFacts
  <2>4. registry' \in [Adapters -> Int]
    BY <1>1, <2>1 DEF TypeInv
  <2>5. "user" \notin BlockCalls \cup OwnCalls
    BY Kinds
  <2>6. QED
    BY <1>1, <2>1, <2>3, <2>4, <2>5, GoFacts DEF Moves
<1>5. CASE phase[t] \in {"begin", "undo"}
  <2>1. PICK next \in {"user", "drop"} : Proceed(t, next)
    BY <1>5 DEF Succeeded
  <2>2. next \in Calls \cup {"user"} /\ next \notin OwnCalls /\ phase[t] \in BlockCalls
    BY <1>5, Kinds
  <2>3. QED
    BY <2>1, <2>2, ProceedMoves
<1>6. CASE phase[t] = "write"
  <2>1. CASE registry[On(t)] = None
    <3>1. /\ Go(t, "commit write") /\ registry' = registry /\ stack' = stack
          /\ call' = [call EXCEPT ![t].n = Cardinality(executed) + 1]
      BY <1>6, <2>1 DEF Succeeded
    <3>2. /\ call' \in [Tasks -> CallTypes] /\ call'[t].adapter \in Adapters
          /\ \A u \in Tasks \ {t} : call'[u] = call[u]
      <4>1. call[t].adapter \in Adapters
        BY <1>1, <1>6, Kinds
      <4>2. PICK c : c = [call[t] EXCEPT !.n = Cardinality(executed) + 1]
        OBVIOUS
      <4>3. c \in CallTypes /\ c.adapter = call[t].adapter
        BY <1>1, <1>2, <4>2 DEF CallTypes
      <4>4. call' = [call EXCEPT ![t] = c]
        BY <3>1, <4>2
      <4>5. QED
        BY <1>1, <4>1, <4>3, <4>4 DEF TypeInv
    <3>3. "commit write" \in Calls /\ "commit write" \notin BlockCalls
      BY Kinds
    <3>4. registry' \in [Adapters -> Int] /\ stack' \in [Tasks -> Seq(Frames)]
      BY <1>1, <3>1 DEF TypeInv
    <3>5. /\ phase' \in [Tasks -> Calls \cup {"user", "give back"}] /\ phase'[t] = "commit write"
          /\ stage' \in [Tasks -> {"wait", "running", "undoing"}] /\ stage'[t] = "wait"
          /\ \A u \in Tasks \ {t} : phase'[u] = phase[u] /\ stage'[u] = stage[u]
      BY <1>1, <3>1, <3>3, GoFacts
    <3>6. QED
      BY <3>1, <3>2, <3>3, <3>4, <3>5 DEF Moves
  <2>2. CASE registry[On(t)] # None
    <3>1. LeaveScope(t, call[t].adapter, call[t].pool) /\ stack' = stack /\ registry' = registry
      BY <1>1, <1>6, <2>2, Kinds DEF Succeeded
    <3>2. registry' \in [Adapters -> Int]
      BY <1>1, <3>1 DEF TypeInv
    <3>3. QED
      BY <1>6, <3>1, <3>2, Kinds, LeaveCallMoves
  <2>3. QED
    BY <2>1, <2>2
<1>7. CASE phase[t] \in {"commit write", "undo write"}
  <2>1. PICK gave \in BOOLEAN : RunEnds(t, gave)
    BY <1>7 DEF Succeeded
  <2>2. QED
    BY <1>7, <2>1, Kinds, RunEndsMoves
<1>8. CASE phase[t] \in {"release", "drop"}
  <2>1. PICK how : EndNested(t, how)
    BY <1>8 DEF Succeeded
  <2>2. QED
    BY <1>1, <1>8, <2>1, Kinds, EndNestedMoves
<1>9. CASE phase[t] \in {"commit", "rollback"}
  <2>1. PICK how : EndBlock(t, how)
    BY <1>9 DEF Succeeded
  <2>2. QED
    BY <1>1, <1>9, <2>1, Kinds, EndBlockMoves
<1>10. CASE phase[t] = "close"
  <2>1. LeaveBlock(t)
    BY <1>10 DEF Succeeded
  <2>2. QED
    BY <1>1, <1>10, <2>1, Kinds, LeaveBlockMoves
<1>11. QED
  BY <1>3, <1>4, <1>5, <1>6, <1>7, <1>8, <1>9, <1>10, Kinds DEF InCall

LEMMA RaisedMoves ==
    ASSUME LockInv, NEW t \in Tasks, InCall(t), NEW how, Raised(t, how)
    PROVE  Moves(t) /\ stage'[t] = "wait"
<1>1. /\ TypeInv
      /\ On(t) \in Adapters
      /\ phase[t] \in BlockCalls => stack[t] # <<>> /\ On(t) = Top(t).adapter
      /\ phase[t] \in OwnCalls => On(t) = call[t].adapter /\ call[t].adapter \in Adapters
      /\ call[t] \in CallTypes
  BY OnItsAdapter DEF LockInv, TypeInv
<1>2. CASE phase[t] = "cursor"
  <2>1. LeaveScope(t, call[t].adapter, call[t].pool) /\ stack' = stack /\ registry' = registry
    BY <1>1, <1>2, Kinds DEF Raised
  <2>2. registry' \in [Adapters -> Int]
    BY <1>1, <2>1 DEF TypeInv
  <2>3. QED
    BY <1>2, <2>1, <2>2, Kinds, LeaveCallMoves
<1>3. CASE phase[t] = "savepoint"
  <2>1. /\ Register(call[t].adapter, call[t].n - 1)
        /\ LeaveScope(t, call[t].adapter, call[t].pool) /\ stack' = stack
    BY <1>1, <1>3, Kinds DEF Raised
  <2>2. call[t].adapter \in Adapters /\ call[t].n - 1 \in Int
    <3>1. call[t].n \in Int
      BY <1>1 DEF CallTypes
    <3>2. phase[t] \in OwnCalls
      BY <1>3, Kinds
    <3>3. QED
      BY <1>1, <3>1, <3>2
  <2>3. registry' \in [Adapters -> Int]
    BY <1>1, <2>1, <2>2, RegisterFacts
  <2>4. QED
    BY <1>3, <2>1, <2>3, Kinds, LeaveCallMoves
<1>4. CASE phase[t] \in {"begin", "rollback"}
  <2>1. PICK result : EndBlock(t, result)
    BY <1>4 DEF Raised, RollbackRaised
  <2>2. QED
    BY <1>1, <1>4, <2>1, Kinds, EndBlockMoves
<1>5. CASE phase[t] \in {"write", "commit write"}
  <2>1. CASE registry[On(t)] = None
    <3>1. Proceed(t, "undo write")
      BY <1>5, <2>1 DEF Raised
    <3>2. QED
      BY <1>5, <3>1, Kinds, ProceedMoves
  <2>2. CASE registry[On(t)] # None
    <3>1. RunEnds(t, FALSE)
      BY <1>5, <2>2 DEF Raised
    <3>2. QED
      BY <1>5, <3>1, Kinds, RunEndsMoves
  <2>3. QED
    BY <2>1, <2>2
<1>6. CASE phase[t] = "undo write"
  <2>1. RunEnds(t, FALSE)
    BY <1>6 DEF Raised
  <2>2. QED
    BY <1>6, <2>1, Kinds, RunEndsMoves
<1>7. CASE phase[t] \in {"release", "undo", "drop"}
  <2>1. PICK result : EndNested(t, result)
    BY <1>7 DEF Raised
  <2>2. QED
    BY <1>1, <1>7, <2>1, Kinds, EndNestedMoves
<1>8. CASE phase[t] = "commit"
  <2>1. Go(t, "rollback") /\ registry' = registry /\ stack' = stack /\ call' = call
    BY <1>8 DEF Raised, CommitRaised
  <2>2. "rollback" \in Calls /\ "rollback" \notin OwnCalls /\ stack[t] # <<>>
    BY <1>1, <1>8, Kinds
  <2>3. /\ phase' \in [Tasks -> Calls \cup {"user", "give back"}] /\ phase'[t] = "rollback"
        /\ stage' \in [Tasks -> {"wait", "running", "undoing"}] /\ stage'[t] = "wait"
        /\ \A u \in Tasks \ {t} : phase'[u] = phase[u] /\ stage'[u] = stage[u]
    BY <1>1, <2>1, <2>2, GoFacts
  <2>4. /\ registry' \in [Adapters -> Int] /\ stack' \in [Tasks -> Seq(Frames)]
        /\ call' \in [Tasks -> CallTypes]
    BY <1>1, <2>1 DEF TypeInv
  <2>5. QED
    BY <2>1, <2>2, <2>3, <2>4 DEF Moves
<1>9. CASE phase[t] = "close"
  <2>1. LeaveBlock(t)
    BY <1>9 DEF Raised
  <2>2. QED
    BY <1>1, <1>9, <2>1, Kinds, LeaveBlockMoves
<1>10. QED
  BY <1>2, <1>3, <1>4, <1>5, <1>6, <1>7, <1>8, <1>9, Kinds DEF InCall
-----------------------------------------------------------------------------
(* Steps *)

LEMMA EffectFinite ==
    ASSUME TypeInv, NEW t, NEW f, NEW a,
           (Effect(t, f, a) /\ f \in Calls) \/ Unaffected
    PROVE  IsFiniteSet(executed')
<1>1. IsFiniteSet(executed)
  BY DEF TypeInv
<1>2. CASE Unaffected
  BY <1>1, <1>2 DEF Unaffected, dataVars
<1>3. CASE Effect(t, f, a) /\ f = "write"
  <2>1. PICK w : executed' = executed \cup {w}
    BY <1>3 DEF Effect
  <2>2. QED
    BY <1>1, <2>1, FS_AddElement
<1>4. CASE Effect(t, f, a) /\ f \in Calls \ {"write"}
  <2>1. executed' = executed
    BY <1>4 DEF Effect, Calls, BlockCalls, Unaffected, dataVars, Committed, RolledBack, Ended
  <2>2. QED
    BY <1>1, <2>1
<1>5. QED
  BY <1>2, <1>3, <1>4

\* A task whose call ends leaves the lock, which no other task had.
LEMMA UnlockKeeps ==
    ASSUME LockInv, NEW t \in Tasks, InCall(t), stage[t] # "wait",
           Moves(t), stage'[t] = "wait", Unlock(t), IsFiniteSet(executed')
    PROVE  LockInv'
<1>1. On(t) \in Adapters /\ lock[On(t)] = t
  BY OnItsAdapter DEF LockInv, Locked
<1>2. lock' = [lock EXCEPT ![On(t)] = Nobody]
  BY DEF Unlock
<1>3. TypeInv'
  BY <1>2 DEF LockInv, TypeInv, Moves
<1>4. HasAdapter'
  BY DEF LockInv, HasAdapter, Moves
<1>5. ASSUME NEW u \in Tasks, InCall(u)', stage'[u] # "wait"
      PROVE  lock'[On(u)'] = u
  <2>1. u # t
    BY <1>5
  <2>2. On(u)' = On(u) /\ InCall(u) /\ stage[u] # "wait"
    BY <1>5, <2>1 DEF Moves, On, InCall, Top
  <2>3. lock[On(u)] = u /\ On(u) \in Adapters
    BY <2>2, OnItsAdapter DEF LockInv, Locked
  <2>4. On(u) # On(t)
    BY <1>1, <2>1, <2>3
  <2>5. QED
    BY <1>2, <2>2, <2>3, <2>4 DEF LockInv, TypeInv
<1>6. Locked'
  BY <1>5 DEF Locked
<1>7. QED
  BY <1>3, <1>4, <1>6 DEF LockInv

\* A task that is not in a thread afterwards, where the locks stay as they are.
LEMMA WaitingKeeps ==
    ASSUME LockInv, NEW t \in Tasks, Moves(t),
           stage'[t] = "wait" \/ phase'[t] \notin Calls, lock' = lock, IsFiniteSet(executed')
    PROVE  LockInv'
<1>1. TypeInv'
  BY DEF LockInv, TypeInv, Moves
<1>2. HasAdapter'
  BY DEF LockInv, HasAdapter, Moves
<1>3. ASSUME NEW u \in Tasks, InCall(u)', stage'[u] # "wait"
      PROVE  lock'[On(u)'] = u
  <2>1. u # t
    BY <1>3 DEF InCall
  <2>2. On(u)' = On(u) /\ InCall(u) /\ stage[u] # "wait"
    BY <1>3, <2>1 DEF Moves, On, InCall, Top
  <2>3. QED
    BY <2>2 DEF LockInv, Locked
<1>4. QED
  BY <1>1, <1>2, <1>3 DEF LockInv, Locked

LEMMA StillMoves ==
    ASSUME LockInv, NEW t \in Tasks, UNCHANGED <<registry, stack, phase, stage, call>>
    PROVE  Moves(t)
  BY DEF LockInv, TypeInv, HasAdapter, Moves

LEMMA LockInvInit == Init => LockInv
<1> SUFFICES ASSUME Init
             PROVE  LockInv
  OBVIOUS
<1>1. <<>> \in Seq(Frames) /\ NoCall \in CallTypes /\ None \in Int
  BY EmptySeq DEF NoCall, CallTypes, None
<1>2. IsFiniteSet(executed)
  BY FS_EmptySet DEF Init
<1>3. TypeInv
  BY <1>1, <1>2 DEF Init, TypeInv
<1>4. HasAdapter /\ Locked
  BY Kinds DEF Init, HasAdapter, Locked, InCall
<1>5. QED
  BY <1>3, <1>4 DEF LockInv

LEMMA LockInvNext == LockInv /\ [Next]_vars => LockInv'
<1> SUFFICES ASSUME LockInv, [Next]_vars
             PROVE  LockInv'
  OBVIOUS
<1>1. TypeInv /\ IsFiniteSet(executed)
  BY DEF LockInv, TypeInv
<1>2. ASSUME NEW t \in Tasks, TakeLock(t)
      PROVE  LockInv'
  <2>1. /\ InCall(t) /\ On(t) \in Adapters /\ lock[On(t)] = Nobody
        /\ stage' = [stage EXCEPT ![t] = "running"]
        /\ lock' = [lock EXCEPT ![On(t)] = t]
        /\ UNCHANGED <<registry, stack, phase, call, executed>>
    BY <1>2, OnItsAdapter DEF TakeLock, dataVars
  <2>2. TypeInv'
    BY <1>1, <2>1 DEF TypeInv
  <2>3. HasAdapter'
    BY <2>1 DEF LockInv, HasAdapter
  <2>4. ASSUME NEW u \in Tasks, InCall(u)', stage'[u] # "wait"
        PROVE  lock'[On(u)'] = u
    <3>1. On(u)' = On(u) /\ InCall(u)
      BY <2>1, <2>4 DEF On, InCall, Top
    <3>2. CASE u = t
      BY <1>1, <2>1, <3>1, <3>2 DEF TypeInv
    <3>3. CASE u # t
      <4>1. stage[u] # "wait"
        BY <1>1, <2>1, <2>4, <3>3 DEF TypeInv
      <4>2. lock[On(u)] = u /\ On(u) \in Adapters
        BY <3>1, <4>1, OnItsAdapter DEF LockInv, Locked
      <4>3. On(u) # On(t)
        BY <2>1, <4>2, NobodyAssumption
      <4>4. QED
        BY <1>1, <2>1, <3>1, <4>2, <4>3 DEF TypeInv
    <3>4. QED
      BY <3>2, <3>3
  <2>5. QED
    BY <2>2, <2>3, <2>4 DEF LockInv, Locked
<1>3. ASSUME NEW t \in Tasks, CallReturns(t)
      PROVE  LockInv'
  <2>1. /\ InCall(t) /\ stage[t] # "wait" /\ Unlock(t)
        /\ Effect(t, phase[t], On(t)) \/ Unaffected
        /\ Succeeded(t) \/ Raised(t, "failed")
    BY <1>3 DEF CallReturns
  <2>2. Moves(t) /\ stage'[t] = "wait"
    BY <2>1, SucceededMoves, RaisedMoves
  <2>3. IsFiniteSet(executed')
    BY <1>1, <2>1, EffectFinite DEF InCall
  <2>4. QED
    BY <2>1, <2>2, <2>3, UnlockKeeps
<1>4. ASSUME NEW t \in Tasks, CancelledCallEnds(t)
      PROVE  LockInv'
  <2>1. InCall(t) /\ stage[t] # "wait"
    BY <1>4 DEF CancelledCallEnds
  <2>2. CASE stage' = [stage EXCEPT ![t] = "undoing"] /\ Unaffected
             /\ UNCHANGED <<registry, stack, phase, call, lock>>
    <3>1. executed' = executed
      BY <2>2 DEF Unaffected, dataVars
    <3>2. TypeInv' /\ HasAdapter'
      BY <1>1, <2>2, <3>1 DEF TypeInv, LockInv, HasAdapter
    <3>3. ASSUME NEW u \in Tasks, InCall(u)', stage'[u] # "wait"
          PROVE  lock'[On(u)'] = u
      <4>1. On(u)' = On(u) /\ InCall(u)
        BY <2>2, <3>3 DEF On, InCall, Top
      <4>2. stage[u] # "wait"
        BY <1>1, <2>1, <2>2, <3>3 DEF TypeInv
      <4>3. QED
        BY <2>2, <4>1, <4>2 DEF LockInv, Locked
    <3>4. QED
      BY <3>2, <3>3 DEF LockInv, Locked
  <2>3. CASE /\ Effect(t, phase[t], On(t)) \/ Unaffected
             /\ Unlock(t) /\ \E how : Raised(t, how)
    <3>1. Moves(t) /\ stage'[t] = "wait"
      BY <2>1, <2>3, RaisedMoves
    <3>2. IsFiniteSet(executed')
      BY <1>1, <2>1, <2>3, EffectFinite DEF InCall
    <3>3. QED
      BY <2>1, <2>3, <3>1, <3>2, UnlockKeeps
  <2>4. QED
    BY <1>4, <2>2, <2>3 DEF CancelledCallEnds
<1>5. ASSUME NEW t \in Tasks, UndoEnds(t)
      PROVE  LockInv'
  <2>1. /\ InCall(t) /\ stage[t] # "wait" /\ Unlock(t) /\ Raised(t, "failed")
        /\ executed' = executed
    BY <1>5 DEF UndoEnds, dataVars
  <2>2. QED
    BY <1>1, <2>1, RaisedMoves, UnlockKeeps
<1>6. ASSUME NEW t \in Tasks, GiveBack(t)
      PROVE  LockInv'
  <2>1. /\ phase' = [phase EXCEPT ![t] = "user"] /\ call' = [call EXCEPT ![t] = NoCall]
        /\ UNCHANGED <<registry, stack, stage, lock>>
        /\ executed' = executed
    BY <1>6 DEF GiveBack, RolledBack, Ended, Unaffected, dataVars
  <2>2. /\ NoCall \in CallTypes
        /\ "user" \notin BlockCalls /\ "user" \notin OwnCalls /\ "user" \notin Calls
    <3>1. NoCall \in CallTypes
      BY DEF NoCall, CallTypes
    <3>2. "user" \notin Calls
      BY DEF Calls, BlockCalls
    <3>3. "user" \notin BlockCalls /\ "user" \notin OwnCalls
      BY <3>2 DEF Calls, OwnCalls
    <3>4. QED
      BY <3>1, <3>2, <3>3
  <2>3. Moves(t)
    BY <1>1, <2>1, <2>2 DEF Moves, TypeInv
  <2>4. phase'[t] \notin Calls
    BY <1>1, <2>1, <2>2 DEF TypeInv
  <2>5. QED
    BY <1>1, <2>1, <2>3, <2>4, WaitingKeeps
<1>7. ASSUME NEW t \in Tasks, CancelWaiting(t)
      PROVE  LockInv'
  <2>1. InCall(t) /\ Raised(t, "failed") /\ lock' = lock /\ executed' = executed
    BY <1>7 DEF CancelWaiting, dataVars
  <2>2. QED
    BY <1>1, <2>1, RaisedMoves, WaitingKeeps
<1>8. ASSUME NEW t \in Tasks, CancelRunning(t)
      PROVE  LockInv'
  <2>1. UNCHANGED <<registry, stack, phase, stage, call, lock, executed>>
    BY <1>8 DEF CancelRunning, dataVars
  <2>2. QED
    BY <2>1 DEF LockInv, TypeInv, HasAdapter, Locked, InCall, On, Top
<1>9. ASSUME NEW t \in Tasks, Transaction(t)
      PROVE  LockInv'
  <2>1. PICK a \in Adapters, pool \in Pools \cup {NoPool} :
           LET opened == [adapter |-> a, pool |-> pool,
                          n |-> IF registry[a] # None THEN registry[a] + 1 ELSE 0]
           IN \/ /\ call' = [call EXCEPT ![t] = opened]
                 /\ Register(a, registry[a] + 1)
                 /\ Go(t, "savepoint")
                 /\ stack' = stack
              \/ OpenBlock(t, opened, FALSE)
              \/ /\ call' = [call EXCEPT ![t] = opened]
                 /\ Go(t, "cursor")
                 /\ UNCHANGED <<registry, stack>>
    BY <1>9 DEF Transaction
  <2>2. PICK c : c = [adapter |-> a, pool |-> pool,
                      n |-> IF registry[a] # None THEN registry[a] + 1 ELSE 0]
    OBVIOUS
  <2>3. registry[a] \in Int
    BY <1>1 DEF TypeInv
  <2>4. c \in CallTypes /\ c.adapter = a
    BY <2>2, <2>3 DEF CallTypes
  <2>5. lock' = lock /\ executed' = executed
    BY <1>9 DEF Transaction, dataVars
  <2>6. CASE OpenBlock(t, c, FALSE)
    BY <1>1, <2>4, <2>5, <2>6, OpenBlockMoves, WaitingKeeps
  <2>7. ASSUME NEW next \in {"savepoint", "cursor"}, Go(t, next), stack' = stack,
               call' = [call EXCEPT ![t] = c], registry' \in [Adapters -> Int]
        PROVE  LockInv'
    <3>1. next \in Calls /\ next \notin BlockCalls
      BY Kinds
    <3>2. /\ call' \in [Tasks -> CallTypes] /\ call'[t] = c
          /\ \A u \in Tasks \ {t} : call'[u] = call[u]
          /\ stack' \in [Tasks -> Seq(Frames)]
      BY <1>1, <2>4, <2>7 DEF TypeInv
    <3>3. /\ phase' \in [Tasks -> Calls \cup {"user", "give back"}] /\ phase'[t] = next
          /\ stage' \in [Tasks -> {"wait", "running", "undoing"}] /\ stage'[t] = "wait"
          /\ \A u \in Tasks \ {t} : phase'[u] = phase[u] /\ stage'[u] = stage[u]
      BY <1>1, <2>7, <3>1, GoFacts
    <3>4. Moves(t)
      BY <2>4, <2>7, <3>1, <3>2, <3>3 DEF Moves
    <3>5. QED
      BY <1>1, <2>5, <3>3, <3>4, WaitingKeeps
  <2>8. CASE Register(a, registry[a] + 1) /\ Go(t, "savepoint") /\ stack' = stack
             /\ call' = [call EXCEPT ![t] = c]
    <3>1. registry' \in [Adapters -> Int]
      BY <1>1, <2>3, <2>8, RegisterFacts
    <3>2. QED
      BY <2>7, <2>8, <3>1
  <2>9. CASE registry' = registry /\ Go(t, "cursor") /\ stack' = stack
             /\ call' = [call EXCEPT ![t] = c]
    <3>1. registry' \in [Adapters -> Int]
      BY <1>1, <2>9 DEF TypeInv
    <3>2. QED
      BY <2>7, <2>9, <3>1
  <2>10. QED
    BY <2>1, <2>2, <2>6, <2>8, <2>9
<1>10. ASSUME NEW t \in Tasks, Run(t)
       PROVE  LockInv'
  <2>1. PICK a \in Adapters, pool \in Pools \cup {NoPool} :
           call' = [call EXCEPT ![t] = [adapter |-> a, pool |-> pool, n |-> 0]]
    BY <1>10 DEF Run
  <2>2. Go(t, "write") /\ UNCHANGED <<registry, stack, lock, executed>>
    BY <1>10 DEF Run, dataVars
  <2>3. "write" \in Calls /\ "write" \notin BlockCalls
    BY Kinds
  <2>4. PICK c : c = [adapter |-> a, pool |-> pool, n |-> 0] /\ c.adapter = a /\ c \in CallTypes
    <3>1. [adapter |-> a, pool |-> pool, n |-> 0] \in CallTypes
      BY DEF CallTypes
    <3>2. [adapter |-> a, pool |-> pool, n |-> 0].adapter = a
      OBVIOUS
    <3>3. QED
      BY <3>1, <3>2, Zenon
  <2>5. /\ call' \in [Tasks -> CallTypes] /\ call'[t] = c
        /\ \A u \in Tasks \ {t} : call'[u] = call[u]
        /\ stack' \in [Tasks -> Seq(Frames)] /\ registry' \in [Adapters -> Int]
    BY <1>1, <2>1, <2>2, <2>4 DEF TypeInv
  <2>6. /\ phase' \in [Tasks -> Calls \cup {"user", "give back"}] /\ phase'[t] = "write"
        /\ stage' \in [Tasks -> {"wait", "running", "undoing"}] /\ stage'[t] = "wait"
        /\ \A u \in Tasks \ {t} : phase'[u] = phase[u] /\ stage'[u] = stage[u]
    BY <1>1, <2>2, <2>3, GoFacts
  <2>7. Moves(t)
    BY <2>2, <2>3, <2>4, <2>5, <2>6 DEF Moves
  <2>8. QED
    BY <1>1, <2>2, <2>6, <2>7, WaitingKeeps
<1>11. ASSUME NEW t \in Tasks, Finish(t) \/ Raise(t) \/ PoolTimesOut(t)
       PROVE  LockInv'
  <2>1. PICK next \in {"release", "commit", "undo", "rollback"} : Go(t, next)
    BY <1>11 DEF Finish, Raise, PoolTimesOut
  <2>2. stack[t] # <<>> /\ UNCHANGED <<registry, stack, call, lock, executed>>
    BY <1>11 DEF Finish, Raise, PoolTimesOut, dataVars
  <2>3. next \in Calls /\ next \notin OwnCalls
    BY Kinds
  <2>4. /\ call' \in [Tasks -> CallTypes]
        /\ stack' \in [Tasks -> Seq(Frames)] /\ registry' \in [Adapters -> Int]
    BY <1>1, <2>2 DEF TypeInv
  <2>5. /\ phase' \in [Tasks -> Calls \cup {"user", "give back"}] /\ phase'[t] = next
        /\ stage' \in [Tasks -> {"wait", "running", "undoing"}] /\ stage'[t] = "wait"
        /\ \A u \in Tasks \ {t} : phase'[u] = phase[u] /\ stage'[u] = stage[u]
    BY <1>1, <2>1, <2>3, GoFacts
  <2>6. Moves(t)
    BY <2>2, <2>3, <2>4, <2>5 DEF Moves
  <2>7. QED
    BY <1>1, <2>2, <2>5, <2>6, WaitingKeeps
<1>12. CASE UNCHANGED vars
  BY <1>12 DEF vars, callVars, dataVars, poolVars, LockInv, TypeInv, HasAdapter, Locked,
     InCall, On, Top
<1>13. QED
  BY <1>2, <1>3, <1>4, <1>5, <1>6, <1>7, <1>8, <1>9, <1>10, <1>11, <1>12
     DEF Next, Await, Cancel, Code

\* The types, and who is on which adapter with or without its lock, for any
\* tasks, adapters and pools.
THEOREM LockInvHolds == Spec => []LockInv
  BY LockInvInit, LockInvNext, PTL DEF Spec

\* _call() never runs two calls on one driver connection at once: not where
\* tasks share the adapter, nor where a cancelled task leaves a thread behind.
THEOREM OneThreadPerConnectionHolds == Spec => []OneThreadPerConnection
<1>1. LockInv => OneThreadPerConnection
  <2> SUFFICES ASSUME LockInv, NEW t \in Tasks, NEW u \in Tasks, t # u,
                      \A v \in {t, u} : InCall(v) /\ stage[v] # "wait"
               PROVE  On(t) # On(u)
    BY DEF OneThreadPerConnection
  <2>1. lock[On(t)] = t /\ lock[On(u)] = u
    BY DEF LockInv, Locked
  <2>2. QED
    BY <2>1
<1>2. QED
  BY <1>1, LockInvHolds, PTL

-----------------------------------------------------------------------------
(* Blocks and the database: the invariant *)

Writes == [id : Nat, within : SUBSET Blocks]
Marks == [name : Int, writes : SUBSET Writes]
Sessions == [writes : SUBSET Writes, savepoints : Seq(Marks)]

DataTypes ==
    /\ uses \in Uses
    /\ free \in [Pools -> SUBSET Adapters]
    /\ session \in [Adapters -> BOOLEAN] /\ inBlock \in [Adapters -> BOOLEAN]
    /\ pending \in [Adapters -> Sessions]
    /\ executed \subseteq Writes /\ committed \subseteq Writes
    /\ outcome \in [Blocks -> Outcomes]

\* A lock that is held is with a task in a thread on that adapter.
LockHeld ==
    \A a \in Adapters, t \in Tasks :
        lock[a] = t => InCall(t) /\ stage[t] # "wait" /\ On(t) = a

\* Blocks inside each other are distinct, and deeper on one adapter.
Stacked(s) ==
    \A i, j \in DOMAIN s : i < j =>
        /\ s[i].block # s[j].block
        /\ s[i].adapter = s[j].adapter => s[i].level < s[j].level

\* What is known of the innermost block of a task in that phase.
Endings(f) ==
    IF f \in {"undo", "drop"} THEN {"failed"}
    ELSE IF f = "rollback" THEN {"failed", "cut"}
    ELSE IF f = "close" THEN {"ok", "failed", "cut", "stranded"} ELSE {"open"}

StacksInv ==
    /\ \A t \in Tasks : Stacked(stack[t])
    /\ \A t, u \in Tasks : t # u =>
          \A f \in ToSet(stack[t]), g \in ToSet(stack[u]) : f.block # g.block
    /\ \A t \in Tasks : \A f \in ToSet(stack[t]) :
          outcome[f.block] \in IF f = Top(t) THEN Endings(phase[t]) ELSE {"open"}

PhasesInv ==
    \A t \in Tasks :
        /\ stage[t] = "undoing" => phase[t] = "cursor"
        /\ phase[t] \in BlockCalls => (Top(t).level > 0 <=> phase[t] \in {"release", "undo", "drop"})
        /\ phase[t] = "give back" => call[t].adapter \in Adapters /\ call[t].pool # NoPool

In(t, phases, a) == phase[t] \in phases /\ On(t) = a

\* Who has an adapter: the task in a block on it, or with a call of its own.
Calling(t, a) == In(t, OwnCalls \cup {"give back"}, a)
OnIt(t, a) == FramesOn(t, a) # {} \/ Calling(t, a)
Vacant(a) == \A t \in Tasks : FramesOn(t, a) = {}
Pooled(a) == \E q \in Pools : a \in PoolAdapters[q]

Custody ==
    /\ \A t \in Tasks : \A f \in ToSet(stack[t]) :
          /\ f.pool # NoPool => f.adapter \in PoolAdapters[f.pool]
          /\ Pooled(f.adapter) => (f.pool # NoPool <=> f.level = 0)
          /\ ~Pooled(f.adapter) => f.adapter \in Named(t)
    /\ \A t \in Tasks : \A a \in Adapters : Calling(t, a) =>
          /\ call[t].pool # NoPool => a \in PoolAdapters[call[t].pool] /\ FramesOn(t, a) = {}
          /\ call[t].pool = NoPool /\ Pooled(a) => FramesOn(t, a) # {}
          /\ ~Pooled(a) => a \in Named(t)
    /\ \A q \in Pools : \A a \in free[q] : a \in PoolAdapters[q] /\ \A t \in Tasks : ~OnIt(t, a)
    /\ \A a \in Adapters : \A t, u \in Tasks : OnIt(t, a) /\ OnIt(u, a) => t = u

\* The depth a task has reached on an adapter.
Depth(t, a) == IF In(t, {"close"}, a) THEN 0
               ELSE IF In(t, {"savepoint"}, a) THEN registry[a] - 1 ELSE registry[a]

Nested(t, a) ==
    /\ FramesOn(t, a) # {} =>
          /\ Depth(t, a) \in Nat
          /\ {f.level : f \in FramesOn(t, a)} = 0..Depth(t, a)
          /\ \A f \in FramesOn(t, a) : f.level = 0 => f.opened
          /\ ~In(t, {"close"}, a) => session[a]
    /\ In(t, {"close"}, a) => registry[a] = None /\ ~session[a]
    /\ In(t, {"savepoint"}, a) => FramesOn(t, a) # {} /\ call[t].n = registry[a]
    /\ In(t, {"cursor", "commit write", "undo write"}, a) => FramesOn(t, a) = {}

SessionsInv ==
    \A a \in Adapters :
        /\ \A t \in Tasks : Nested(t, a)
        /\ Vacant(a) => registry[a] = None /\ ~session[a]

\* Savepoints: the positions of a name, the last of them, what it remembers.
NamedIn(s, n) == {i \in DOMAIN s : s[i].name = n}
LastIn(s, n) == CHOOSE i \in NamedIn(s, n) : \A j \in NamedIn(s, n) : j <= i
MarkIn(s, n) == s[LastIn(s, n)].writes

\* There is a savepoint of each depth, and those set after it are deeper.
MarkedUpTo(s, depth) ==
    \A n \in 1..depth : /\ NamedIn(s, n) # {}
                        /\ \A i \in DOMAIN s : i > LastIn(s, n) => s[i].name > n
Positive(s) == \A i \in DOMAIN s : s[i].name > 0
Growing(s, writes) ==
    \A i \in DOMAIN s : s[i].writes \subseteq writes
                        /\ \A j \in 1..i : s[j].writes \subseteq s[i].writes

SavepointsInv ==
    \A a \in Adapters :
        /\ Positive(pending[a].savepoints)
        /\ Growing(pending[a].savepoints, pending[a].writes)
        /\ \A t \in Tasks : FramesOn(t, a) # {} =>
              /\ MarkedUpTo(pending[a].savepoints, Depth(t, a))
              /\ Control[a] # "driver" /\ ~In(t, {"begin", "rollback", "close"}, a) => inBlock[a]

\* How a block can have ended whose writes the database still has.
Keeping == {"ok", "cut", "kept", "stranded"}

\* What no open block wrote: it was left by a block whose ROLLBACK raised, or by
\* a write outside any block that raised.
LeftOver(w) ==
    /\ \A b \in w.within : outcome[b] \in Keeping
    /\ w.within # {} => \E b \in w.within : outcome[b] = "stranded"

\* The writes of an adapter's transaction, and the blocks of task t they are in.
Belongs(t, a, w) ==
    /\ \A b \in w.within : outcome[b] \in Keeping \/ b \in BlocksOn(t, a)
    /\ In(t, {"begin", "close"}, a) => LeftOver(w)
    /\ In(t, {"rollback"}, a) => outcome[Top(t).block] = "failed"
    /\ In(t, {"drop"}, a) => Top(t).block \notin w.within
    /\ \A f \in FramesOn(t, a) :
          IF f.level = 0 THEN f.block \in w.within \/ LeftOver(w)
          ELSE w \in MarkIn(pending[a].savepoints, f.level) <=> f.block \notin w.within

WritesInv ==
    \A a \in Adapters : \A w \in pending[a].writes :
        /\ Vacant(a) => LeftOver(w)
        /\ \A t \in Tasks : FramesOn(t, a) # {} => Belongs(t, a, w)

\* The block has taken back what it wrote, or left it to whoever ends the
\* transaction: it is not still to do so.
TakenBack(b) ==
    /\ outcome[b] \in {"failed", "stranded"}
    /\ \A t \in Tasks : stack[t] # <<>> /\ Top(t).block = b => phase[t] \in {"drop", "close"}

\* A write of a block is durable, or may still be, or a block took it back.
Accounted(w) == \/ w \in committed
                \/ \E a \in Adapters : w \in pending[a].writes
                \/ \E b \in w.within : TakenBack(b)

DurableInv ==
    /\ \A w \in committed : \A b \in w.within : outcome[b] \in Keeping
    /\ \A w \in executed : w.within # {} => Accounted(w)

BlocksInv == /\ StacksInv /\ PhasesInv /\ Custody /\ SessionsInv
             /\ SavepointsInv /\ WritesInv /\ DurableInv

\* Writes outside any block.
ReturnedInv ==
    /\ committed \subseteq executed
    /\ \A a \in Adapters : pending[a].writes \subseteq executed
    /\ \A w \in executed : w.id \in 1..Cardinality(executed)
    /\ returned \subseteq 1..Cardinality(executed)
    /\ \A t \in Tasks : phase[t] = "commit write" =>
          /\ call[t].n \in 1..Cardinality(executed)
          /\ \A w \in executed : w.id = call[t].n =>
                \/ w \in committed
                \/ w \in pending[call[t].adapter].writes /\ Control[call[t].adapter] = "driver"
    /\ \A w \in executed : w.within = {} /\ w.id \in returned => w \in committed

NoStatements == \A a \in Adapters : Control[a] # "statements"
-----------------------------------------------------------------------------
(* Sequences: stacks and savepoints *)

Less == {p \in Nat \X Nat : p[1] < p[2]}

LEMMA LessIsWellFounded == IsWellFoundedOn(Less, Nat)
  BY NatLessThanWellFounded DEF Less, OpToRel

LEMMA LastOf ==
    ASSUME NEW n \in Nat, NEW S, S \subseteq 1..n, S # {}
    PROVE  \E i \in S : \A j \in S : j <= i
<1> DEFINE T == {n - i : i \in S}
<1>1. \A i \in S : n - i \in Nat
  OBVIOUS
<1>2. T \subseteq Nat /\ T # {}
  BY <1>1
<1>3. PICK m \in T : \A k \in T : <<k, m>> \notin Less
  <2> HIDE DEF T
  <2>1. QED
    BY <1>2, LessIsWellFounded, WFMin, Zenon
<1>4. PICK i \in S : m = n - i
  OBVIOUS
<1>5. ASSUME NEW j \in S PROVE j <= i
  <2>1. n - j \in T /\ n - j \in Nat /\ m \in Nat
    BY <1>2
  <2>2. <<n - j, m>> \notin Less
    BY <1>3, <2>1
  <2>3. ~(n - j < m)
    BY <2>1, <2>2 DEF Less
  <2> HIDE DEF T
  <2>4. QED
    BY <1>4, <2>3
<1>6. QED
  BY <1>5

LEMMA OneMore ==
    ASSUME NEW m \in Nat
    PROVE  /\ m + 1 \in Nat /\ 1..(m + 1) = (1..m) \cup {m + 1} /\ m + 1 \notin 1..m
           /\ \A i, j \in 1..(m + 1) : i < j => i \in 1..m
  OBVIOUS

LEMMA ToSetIs ==
    ASSUME NEW S, NEW s \in Seq(S)
    PROVE  /\ Len(s) \in Nat /\ DOMAIN s = 1..Len(s)
           /\ ToSet(s) = {s[i] : i \in 1..Len(s)}
           /\ \A i \in 1..Len(s) : s[i] \in S /\ s[i] \in ToSet(s)
           /\ s # <<>> => Len(s) >= 1
           /\ s = <<>> => ToSet(s) = {}
  BY DEF ToSet

\* What is put on top of a stack, and what is left under its top.
LEMMA StackedAppend ==
    ASSUME NEW S, NEW s \in Seq(S), NEW f \in S, Stacked(s),
           \A g \in ToSet(s) : g.block # f.block /\ (g.adapter = f.adapter => g.level < f.level)
    PROVE  /\ Stacked(Append(s, f)) /\ ToSet(Append(s, f)) = ToSet(s) \cup {f}
           /\ Append(s, f)[Len(Append(s, f))] = f
           /\ f \notin ToSet(s)
<1>1. /\ Len(s) \in Nat /\ DOMAIN s = 1..Len(s) /\ ToSet(s) = {s[i] : i \in 1..Len(s)}
      /\ \A i \in 1..Len(s) : s[i] \in S /\ s[i] \in ToSet(s)
  BY ToSetIs
<1>2. PICK r \in Seq(S) : r = Append(s, f)
  BY AppendProperties
<1>3. PICK n \in Nat : n = Len(s) + 1 /\ 1..n = (1..Len(s)) \cup {n} /\ n \notin 1..Len(s)
                       /\ \A i, j \in 1..n : i < j => i \in 1..Len(s)
  BY <1>1, OneMore
<1>4. Len(r) = n /\ r[n] = f /\ \A i \in 1..Len(s) : r[i] = s[i]
  BY <1>2, <1>3, AppendProperties
<1>5. DOMAIN r = 1..n /\ ToSet(r) = {r[i] : i \in 1..n}
  <2>1. r \in Seq(S)
    BY <1>2
  <2> HIDE <1>2
  <2>2. DOMAIN r = 1..Len(r) /\ ToSet(r) = {r[i] : i \in 1..Len(r)}
    BY <2>1, ToSetIs
  <2>3. QED
    BY <1>4, <2>2
<1>6. ToSet(r) = ToSet(s) \cup {f}
  <2>1. \A x \in ToSet(r) : x \in ToSet(s) \/ x = f
    BY <1>1, <1>3, <1>4, <1>5
  <2>2. \A x \in ToSet(s) : x \in ToSet(r)
    BY <1>1, <1>3, <1>4, <1>5
  <2>3. f \in ToSet(r)
    BY <1>3, <1>4, <1>5
  <2>4. QED
    BY <2>1, <2>2, <2>3
<1>7. ASSUME NEW i \in 1..n, NEW j \in 1..n, i < j
      PROVE  /\ r[i].block # r[j].block
             /\ r[i].adapter = r[j].adapter => r[i].level < r[j].level
  <2>1. i \in 1..Len(s) /\ (j \in 1..Len(s) \/ j = n)
    BY <1>3, <1>7
  <2>2. CASE j \in 1..Len(s)
    <3>1. r[i] = s[i] /\ r[j] = s[j]
      BY <1>4, <2>1, <2>2
    <3>2. i \in DOMAIN s /\ j \in DOMAIN s
      BY <1>1, <2>1, <2>2
    <3>3. QED
      BY <1>7, <3>1, <3>2 DEF Stacked
  <2>3. CASE j = n
    <3>1. r[i] = s[i] /\ r[j] = f /\ s[i] \in ToSet(s)
      BY <1>1, <1>4, <2>1, <2>3
    <3>2. QED
      BY <3>1
  <2>4. QED
    BY <2>1, <2>2, <2>3
<1>8. Stacked(r)
  BY <1>5, <1>7 DEF Stacked
<1>9. QED
  BY <1>2, <1>4, <1>6, <1>8

LEMMA StackedTop ==
    ASSUME NEW S, NEW s \in Seq(S), Stacked(s), s # <<>>
    PROVE  /\ s[Len(s)] \in ToSet(s)
           /\ \A g \in ToSet(s) : g # s[Len(s)] =>
                 /\ g.block # s[Len(s)].block
                 /\ g.adapter = s[Len(s)].adapter => g.level < s[Len(s)].level
<1>1. /\ Len(s) \in Nat /\ DOMAIN s = 1..Len(s) /\ ToSet(s) = {s[i] : i \in 1..Len(s)}
      /\ \A i \in 1..Len(s) : s[i] \in S /\ s[i] \in ToSet(s)
      /\ Len(s) >= 1
  BY ToSetIs
<1>2. Len(s) \in 1..Len(s)
  BY <1>1
<1>3. ASSUME NEW g \in ToSet(s), g # s[Len(s)]
      PROVE  /\ g.block # s[Len(s)].block
             /\ g.adapter = s[Len(s)].adapter => g.level < s[Len(s)].level
  <2>1. PICK i \in 1..Len(s) : g = s[i]
    BY <1>1
  <2>2. i < Len(s)
    BY <1>1, <1>3, <2>1
  <2>3. QED
    BY <1>1, <1>2, <2>1, <2>2 DEF Stacked
<1>4. QED
  BY <1>1, <1>2, <1>3

LEMMA StackedPop ==
    ASSUME NEW S, NEW s \in Seq(S), Stacked(s), s # <<>>
    PROVE  /\ Stacked(SubSeq(s, 1, Len(s) - 1))
           /\ ToSet(SubSeq(s, 1, Len(s) - 1)) = ToSet(s) \ {s[Len(s)]}
<1>1. /\ Len(s) \in Nat /\ DOMAIN s = 1..Len(s) /\ ToSet(s) = {s[i] : i \in 1..Len(s)}
      /\ \A i \in 1..Len(s) : s[i] \in S /\ s[i] \in ToSet(s)
      /\ Len(s) >= 1
  BY ToSetIs
<1>2. PICK n \in Nat : n = Len(s) - 1 /\ n + 1 = Len(s)
  <2>1. \A m \in Nat : m >= 1 => m - 1 \in Nat /\ m - 1 + 1 = m
    OBVIOUS
  <2>2. QED
    BY <1>1, <2>1
<1>3. /\ 1..n \subseteq 1..Len(s) /\ 1..Len(s) = (1..n) \cup {Len(s)}
      /\ (\A i \in 1..n : i < Len(s)) /\ n <= Len(s) /\ Len(s) \in 1..Len(s)
  <2>1. 1..(n + 1) = (1..n) \cup {n + 1} /\ (\A i \in 1..n : i < n + 1) /\ n <= n + 1
    BY OneMore
  <2>2. QED
    BY <1>2, <2>1
<1>4. PICK r : r = SubSeq(s, 1, n)
  OBVIOUS
<1>5. r \in Seq(S) /\ Len(r) = n /\ (\A i \in 1..n : r[i] = s[i])
  <2>1. \A i \in 1..n : s[i] \in S
    BY <1>1, <1>3
  <2>2. /\ r \in Seq(S) /\ Len(r) = IF 1 <= n THEN n-1+1 ELSE 0
        /\ \A i \in 1..n-1+1 : r[i] = s[1+i-1]
    BY <1>4, <2>1, SubSeqProperties
  <2>3. n - 1 + 1 = n /\ (\A i \in 1..n : 1 + i - 1 = i) /\ (~(1 <= n) => n = 0)
    OBVIOUS
  <2>4. QED
    BY <2>2, <2>3
<1>6. DOMAIN r = 1..n /\ ToSet(r) = {r[i] : i \in 1..n}
  BY <1>5, ToSetIs
<1>7. Stacked(r)
  BY <1>1, <1>3, <1>5, <1>6 DEF Stacked
<1>8. \A i \in 1..n : s[i].block # s[Len(s)].block
  BY <1>1, <1>3 DEF Stacked
<1>9. ToSet(r) = ToSet(s) \ {s[Len(s)]}
  <2>1. \A x \in ToSet(r) : x \in ToSet(s) /\ x # s[Len(s)]
    BY <1>1, <1>3, <1>5, <1>6, <1>8
  <2>2. \A x \in ToSet(s) : x # s[Len(s)] => x \in ToSet(r)
    BY <1>1, <1>3, <1>5, <1>6
  <2>3. QED
    BY <2>1, <2>2
<1>10. QED
  BY <1>2, <1>4, <1>7, <1>9

LEMMA LastInFacts ==
    ASSUME NEW s \in Seq(Marks), NEW n, NamedIn(s, n) # {}
    PROVE  /\ LastIn(s, n) \in 1..Len(s) /\ s[LastIn(s, n)].name = n
           /\ \A j \in 1..Len(s) : s[j].name = n => j <= LastIn(s, n)
<1>1. Len(s) \in Nat /\ DOMAIN s = 1..Len(s)
  BY ToSetIs
<1>2. NamedIn(s, n) \subseteq 1..Len(s)
  BY <1>1 DEF NamedIn
<1>3. \E i \in NamedIn(s, n) : \A j \in NamedIn(s, n) : j <= i
  BY <1>1, <1>2, LastOf
<1>4. LastIn(s, n) \in NamedIn(s, n) /\ \A j \in NamedIn(s, n) : j <= LastIn(s, n)
  BY <1>3, Zenon DEF LastIn
<1>5. QED
  BY <1>1, <1>4 DEF NamedIn

LEMMA LastInIs ==
    ASSUME NEW s \in Seq(Marks), NEW n, NEW k \in 1..Len(s), s[k].name = n,
           \A j \in 1..Len(s) : s[j].name = n => j <= k
    PROVE  NamedIn(s, n) # {} /\ LastIn(s, n) = k
<1>1. Len(s) \in Nat /\ DOMAIN s = 1..Len(s)
  BY ToSetIs
<1>2. k \in NamedIn(s, n)
  BY <1>1 DEF NamedIn
<1>3. /\ LastIn(s, n) \in 1..Len(s) /\ s[LastIn(s, n)].name = n
      /\ \A j \in 1..Len(s) : s[j].name = n => j <= LastIn(s, n)
  BY <1>2, LastInFacts
<1>4. k <= LastIn(s, n) /\ LastIn(s, n) <= k
  BY <1>3
<1>5. QED
  BY <1>1, <1>2, <1>3, <1>4

\* A savepoint deeper than those that count leaves them as they were.
LEMMA MarkAppended ==
    ASSUME NEW s \in Seq(Marks), NEW m \in Marks, NEW d \in Nat, MarkedUpTo(s, d), m.name > d
    PROVE  /\ Append(s, m) \in Seq(Marks)
           /\ MarkedUpTo(Append(s, m), d)
           /\ \A k \in 1..d : MarkIn(Append(s, m), k) = MarkIn(s, k)
           /\ Positive(s) => Positive(Append(s, m))
           /\ Growing(s, m.writes) => Growing(Append(s, m), m.writes)
           /\ m.name = d + 1 => /\ MarkedUpTo(Append(s, m), d + 1)
                                /\ MarkIn(Append(s, m), d + 1) = m.writes
<1>1. Len(s) \in Nat /\ DOMAIN s = 1..Len(s) /\ (\A i \in 1..Len(s) : s[i] \in Marks)
  BY ToSetIs
<1>2. PICK r \in Seq(Marks) : r = Append(s, m)
  BY AppendProperties
<1>3. PICK n \in Nat : n = Len(s) + 1 /\ 1..n = (1..Len(s)) \cup {n} /\ n \notin 1..Len(s)
                       /\ \A i, j \in 1..n : i < j => i \in 1..Len(s)
  BY <1>1, OneMore
<1>4. Len(r) = n /\ r[n] = m /\ \A i \in 1..Len(s) : r[i] = s[i]
  BY <1>2, <1>3, AppendProperties
<1>5. DOMAIN r = 1..n
  <2>1. r \in Seq(Marks)
    BY <1>2
  <2> HIDE <1>2
  <2>2. DOMAIN r = 1..Len(r)
    BY <2>1, ToSetIs
  <2>3. QED
    BY <1>4, <2>2
<1>6. m.name \in Int /\ m.writes \subseteq Writes
  BY DEF Marks
<1>7. ASSUME NEW k \in 1..d
      PROVE  /\ NamedIn(r, k) # {} /\ LastIn(r, k) = LastIn(s, k) /\ LastIn(s, k) \in 1..Len(s)
             /\ \A i \in 1..n : i > LastIn(r, k) => r[i].name > k
  <2>1. NamedIn(s, k) # {} /\ \A i \in 1..Len(s) : i > LastIn(s, k) => s[i].name > k
    BY <1>1 DEF MarkedUpTo
  <2>2. PICK l \in 1..Len(s) : l = LastIn(s, k)
    BY <2>1, LastInFacts
  <2>3. s[l].name = k /\ \A j \in 1..Len(s) : s[j].name = k => j <= l
    BY <2>1, <2>2, LastInFacts
  <2>4. m.name > k /\ m.name # k
    BY <1>6
  <2>5. l \in 1..Len(r) /\ r[l].name = k /\ \A j \in 1..Len(r) : r[j].name = k => j <= l
    BY <1>3, <1>4, <2>3, <2>4
  <2>6. NamedIn(r, k) # {} /\ LastIn(r, k) = l
    BY <2>5, LastInIs
  <2>7. \A i \in 1..n : i > l => r[i].name > k
    BY <1>3, <1>4, <2>1, <2>2, <2>4
  <2>8. QED
    BY <2>2, <2>6, <2>7
<1>8. MarkedUpTo(r, d) /\ \A k \in 1..d : MarkIn(r, k) = MarkIn(s, k)
  BY <1>4, <1>5, <1>7 DEF MarkedUpTo, MarkIn
<1>9. Positive(s) => Positive(r)
  BY <1>1, <1>3, <1>4, <1>5, <1>6 DEF Positive
<1>10. ASSUME Growing(s, m.writes)
       PROVE  Growing(r, m.writes)
  <2>1. ASSUME NEW i \in 1..n
        PROVE  r[i].writes \subseteq m.writes /\ \A j \in 1..i : r[j].writes \subseteq r[i].writes
    <3>1. CASE i \in 1..Len(s)
      <4>1. 1..i \subseteq 1..Len(s)
        BY <1>1, <3>1
      <4>2. s[i].writes \subseteq m.writes /\ \A j \in 1..i : s[j].writes \subseteq s[i].writes
        BY <1>1, <1>10, <3>1 DEF Growing
      <4>3. QED
        BY <1>4, <3>1, <4>1, <4>2
    <3>2. CASE i = n
      BY <1>1, <1>3, <1>4, <1>10, <3>2 DEF Growing
    <3>3. QED
      BY <1>3, <3>1, <3>2
  <2>2. QED
    BY <1>5, <2>1 DEF Growing
<1>11. ASSUME m.name = d + 1
       PROVE  MarkedUpTo(r, d + 1) /\ MarkIn(r, d + 1) = m.writes
  <2>1. n \in 1..Len(r) /\ r[n].name = d + 1 /\ \A j \in 1..Len(r) : r[j].name = d + 1 => j <= n
    BY <1>3, <1>4, <1>11
  <2>2. NamedIn(r, d + 1) # {} /\ LastIn(r, d + 1) = n
    BY <2>1, LastInIs
  <2>3. \A i \in 1..n : ~(i > n)
    OBVIOUS
  <2>4. MarkIn(r, d + 1) = m.writes
    BY <1>4, <2>2 DEF MarkIn
  <2>5. ASSUME NEW k \in 1..(d + 1)
        PROVE  NamedIn(r, k) # {} /\ \A i \in DOMAIN r : i > LastIn(r, k) => r[i].name > k
    <3>1. k \in 1..d \/ k = d + 1
      BY OneMore
    <3>2. CASE k \in 1..d
      BY <1>5, <1>7, <3>2
    <3>3. CASE k = d + 1
      BY <1>5, <2>2, <2>3, <3>3
    <3>4. QED
      BY <3>1, <3>2, <3>3
  <2>6. QED
    BY <2>4, <2>5 DEF MarkedUpTo
<1>12. QED
  BY <1>2, <1>8, <1>9, <1>10, <1>11

\* A deeper savepoint in force is a later one.
LEMMA DeeperIsLater ==
    ASSUME NEW s \in Seq(Marks), NEW d \in Nat, MarkedUpTo(s, d), NEW j \in 1..d, NEW k \in 1..d, j < k
    PROVE  LastIn(s, j) < LastIn(s, k)
<1>1. Len(s) \in Nat /\ DOMAIN s = 1..Len(s)
  BY ToSetIs
<1>2. NamedIn(s, j) # {} /\ NamedIn(s, k) # {}
  BY DEF MarkedUpTo
<1>3. PICK i \in 1..Len(s) : i = LastIn(s, j) /\ s[i].name = j
  BY <1>2, LastInFacts
<1>4. PICK l \in 1..Len(s) : l = LastIn(s, k) /\ s[l].name = k
  BY <1>2, LastInFacts
<1>5. i > l => s[i].name > k
  BY <1>1, <1>3, <1>4 DEF MarkedUpTo
<1>6. j \in Int /\ k \in Int
  OBVIOUS
<1>7. ~(i > l)
  BY <1>3, <1>5, <1>6
<1>8. i # l
  BY <1>3, <1>4
<1>9. QED
  BY <1>3, <1>4, <1>7, <1>8

\* What is left of the savepoints up to position c.
LEMMA MarksCut ==
    ASSUME NEW s \in Seq(Marks), NEW c \in Int, 0 <= c, c <= Len(s)
    PROVE  /\ SubSeq(s, 1, c) \in Seq(Marks)
           /\ Positive(s) => Positive(SubSeq(s, 1, c))
           /\ \A P : Growing(s, P) => Growing(SubSeq(s, 1, c), P)
           /\ \A P : c > 0 /\ Growing(s, P) => Growing(SubSeq(s, 1, c), s[c].writes)
           /\ \A d \in Nat : MarkedUpTo(s, d) /\ (\A k \in 1..d : LastIn(s, k) <= c) =>
                 /\ MarkedUpTo(SubSeq(s, 1, c), d)
                 /\ \A k \in 1..d : MarkIn(SubSeq(s, 1, c), k) = MarkIn(s, k)
<1>1. Len(s) \in Nat /\ DOMAIN s = 1..Len(s) /\ (\A i \in 1..Len(s) : s[i] \in Marks)
  BY ToSetIs
<1>2. PICK r : r = SubSeq(s, 1, c)
  OBVIOUS
<1>3. 1..c \subseteq 1..Len(s)
  BY <1>1
<1>4. r \in Seq(Marks) /\ Len(r) = c /\ (\A i \in 1..c : r[i] = s[i])
  <2>1. \A i \in 1..c : s[i] \in Marks
    BY <1>1, <1>3
  <2>2. /\ r \in Seq(Marks) /\ Len(r) = IF 1 <= c THEN c-1+1 ELSE 0
        /\ \A i \in 1..c-1+1 : r[i] = s[1+i-1]
    BY <1>2, <2>1, SubSeqProperties
  <2>3. c - 1 + 1 = c /\ (\A i \in 1..c : 1 + i - 1 = i) /\ (~(1 <= c) => c = 0)
    OBVIOUS
  <2>4. QED
    BY <2>2, <2>3
<1>5. DOMAIN r = 1..c
  <2>1. DOMAIN r = 1..Len(r)
    BY <1>4, ToSetIs
  <2>2. QED
    BY <1>4, <2>1
<1>6. Positive(s) => Positive(r)
  BY <1>1, <1>3, <1>4, <1>5 DEF Positive
<1>7. ASSUME NEW P, Growing(s, P)
      PROVE  Growing(r, P) /\ (c > 0 => Growing(r, s[c].writes))
  <2>1. ASSUME NEW i \in 1..c
        PROVE  /\ r[i].writes \subseteq P /\ r[i].writes \subseteq s[c].writes
               /\ \A j \in 1..i : r[j].writes \subseteq r[i].writes
    <3>1. i \in 1..Len(s) /\ c \in 1..Len(s) /\ i \in 1..c /\ 1..i \subseteq 1..c
      BY <1>1, <1>3
    <3>2. /\ s[i].writes \subseteq P /\ \A j \in 1..i : s[j].writes \subseteq s[i].writes
          /\ s[i].writes \subseteq s[c].writes
      BY <1>1, <1>7, <3>1 DEF Growing
    <3>3. QED
      BY <1>4, <3>1, <3>2
  <2>2. QED
    BY <1>5, <2>1 DEF Growing
<1>8. ASSUME NEW d \in Nat, MarkedUpTo(s, d), \A k \in 1..d : LastIn(s, k) <= c
      PROVE  MarkedUpTo(r, d) /\ \A k \in 1..d : MarkIn(r, k) = MarkIn(s, k)
  <2>1. ASSUME NEW k \in 1..d
        PROVE  /\ NamedIn(r, k) # {} /\ LastIn(r, k) = LastIn(s, k) /\ LastIn(s, k) \in 1..c
               /\ \A i \in 1..c : i > LastIn(r, k) => r[i].name > k
    <3>1. NamedIn(s, k) # {} /\ \A i \in 1..Len(s) : i > LastIn(s, k) => s[i].name > k
      BY <1>1, <1>8 DEF MarkedUpTo
    <3>2. PICK l \in 1..Len(s) : l = LastIn(s, k)
      BY <3>1, LastInFacts
    <3>3. s[l].name = k /\ \A j \in 1..Len(s) : s[j].name = k => j <= l
      BY <3>1, <3>2, LastInFacts
    <3>4. l \in 1..c
      BY <1>8, <3>2
    <3>5. l \in 1..Len(r) /\ r[l].name = k /\ \A j \in 1..Len(r) : r[j].name = k => j <= l
      BY <1>3, <1>4, <3>3, <3>4
    <3>6. NamedIn(r, k) # {} /\ LastIn(r, k) = l
      BY <1>4, <3>5, LastInIs
    <3>7. \A i \in 1..c : i > l => r[i].name > k
      BY <1>3, <1>4, <3>1, <3>2
    <3>8. QED
      BY <3>2, <3>4, <3>6, <3>7
  <2>2. QED
    BY <1>4, <1>5, <2>1 DEF MarkedUpTo, MarkIn
<1>9. QED
  BY <1>2, <1>4, <1>6, <1>7, <1>8

\* RELEASE of the deepest savepoint, and ROLLBACK TO it.
LEMMA MarkReleased ==
    ASSUME NEW s \in Seq(Marks), NEW d \in Nat, d > 0, MarkedUpTo(s, d)
    PROVE  /\ SubSeq(s, 1, LastIn(s, d) - 1) \in Seq(Marks)
           /\ Positive(s) => Positive(SubSeq(s, 1, LastIn(s, d) - 1))
           /\ \A P : Growing(s, P) => Growing(SubSeq(s, 1, LastIn(s, d) - 1), P)
           /\ MarkedUpTo(SubSeq(s, 1, LastIn(s, d) - 1), d - 1)
           /\ \A k \in 1..(d - 1) : MarkIn(SubSeq(s, 1, LastIn(s, d) - 1), k) = MarkIn(s, k)
<1>1. NamedIn(s, d) # {}
  BY DEF MarkedUpTo
<1>2. PICK l \in 1..Len(s) : l = LastIn(s, d)
  BY <1>1, LastInFacts
<1>3. PICK c \in Int : c = l - 1
  OBVIOUS
<1>4. 0 <= c /\ c <= Len(s) /\ Len(s) \in Nat
  BY <1>3, ToSetIs
<1>5. ASSUME NEW k \in 1..(d - 1)
      PROVE  LastIn(s, k) <= c
  <2>1. k \in 1..d /\ d \in 1..d /\ k < d
    OBVIOUS
  <2>2. LastIn(s, k) < l
    BY <1>2, <2>1, DeeperIsLater
  <2>3. LastIn(s, k) \in 1..Len(s)
    BY <2>1, LastInFacts DEF MarkedUpTo
  <2>4. QED
    BY <1>3, <2>2, <2>3
<1>6. d - 1 \in Nat /\ MarkedUpTo(s, d - 1)
  <2>1. 1..(d - 1) \subseteq 1..d
    OBVIOUS
  <2>2. QED
    BY <2>1 DEF MarkedUpTo
<1>7. /\ SubSeq(s, 1, c) \in Seq(Marks)
      /\ Positive(s) => Positive(SubSeq(s, 1, c))
      /\ \A P : Growing(s, P) => Growing(SubSeq(s, 1, c), P)
      /\ MarkedUpTo(SubSeq(s, 1, c), d - 1)
      /\ \A k \in 1..(d - 1) : MarkIn(SubSeq(s, 1, c), k) = MarkIn(s, k)
  BY <1>4, <1>5, <1>6, MarksCut
<1>8. QED
  BY <1>2, <1>3, <1>7

LEMMA MarkUndone ==
    ASSUME NEW s \in Seq(Marks), NEW d \in Nat, d > 0, MarkedUpTo(s, d)
    PROVE  /\ SubSeq(s, 1, LastIn(s, d)) \in Seq(Marks)
           /\ MarkIn(s, d) \subseteq Writes
           /\ \A P : Growing(s, P) => MarkIn(s, d) \subseteq P
           /\ Positive(s) => Positive(SubSeq(s, 1, LastIn(s, d)))
           /\ \A P : Growing(s, P) => Growing(SubSeq(s, 1, LastIn(s, d)), MarkIn(s, d))
           /\ MarkedUpTo(SubSeq(s, 1, LastIn(s, d)), d)
           /\ \A k \in 1..d : MarkIn(SubSeq(s, 1, LastIn(s, d)), k) = MarkIn(s, k)
<1>1. NamedIn(s, d) # {}
  BY DEF MarkedUpTo
<1>2. PICK l \in 1..Len(s) : l = LastIn(s, d)
  BY <1>1, LastInFacts
<1>3. l \in Int /\ 0 <= l /\ l <= Len(s) /\ l > 0 /\ Len(s) \in Nat
  BY ToSetIs
<1>4. ASSUME NEW k \in 1..d
      PROVE  LastIn(s, k) <= l
  <2>1. CASE k = d
    BY <1>2, <1>3, <2>1
  <2>2. CASE k # d
    <3>1. k < d /\ d \in 1..d
      BY <2>2
    <3>2. LastIn(s, k) < l
      BY <1>2, <3>1, DeeperIsLater
    <3>3. LastIn(s, k) \in 1..Len(s)
      BY LastInFacts DEF MarkedUpTo
    <3>4. QED
      BY <3>2, <3>3
  <2>3. QED
    BY <2>1, <2>2
<1>5. s[l] \in Marks /\ DOMAIN s = 1..Len(s) /\ MarkIn(s, d) = s[l].writes
  BY <1>2, ToSetIs DEF MarkIn
<1>6. s[l].writes \subseteq Writes /\ \A P : Growing(s, P) => s[l].writes \subseteq P
  BY <1>5 DEF Growing, Marks
<1>7. /\ SubSeq(s, 1, l) \in Seq(Marks)
      /\ Positive(s) => Positive(SubSeq(s, 1, l))
      /\ \A P : Growing(s, P) => Growing(SubSeq(s, 1, l), s[l].writes)
      /\ MarkedUpTo(SubSeq(s, 1, l), d)
      /\ \A k \in 1..d : MarkIn(SubSeq(s, 1, l), k) = MarkIn(s, k)
  BY <1>3, <1>4, MarksCut
<1>8. QED
  BY <1>2, <1>5, <1>6, <1>7

-----------------------------------------------------------------------------
(* The kinds of steps: task t, and the one adapter x that the step concerns *)

Done(t, x) == Executable(t, phase[t], x) /\ Effect(t, phase[t], x)

\* The task leaves the scope of an adapter.
Left(t, x, pool) ==
    /\ phase'[t] = IF pool = NoPool THEN "user" ELSE "give back"
    /\ pool # NoPool => call'[t].adapter = x /\ call'[t].pool = pool

Rests(t, x) ==
    /\ InCall(t) /\ On(t) = x
    /\ stage'[t] = "undoing" => phase[t] = "cursor"
    /\ UNCHANGED <<registry, stack, phase, call, session, free, dataVars, returned, outcome>>

\* An adapter is taken: it is there already, named, or from a pool.
Taken(t, x) ==
    \/ /\ call'[t].pool = NoPool /\ free' = free
       /\ FramesOn(t, x) # {} \/ x \in Named(t)
    \/ /\ call'[t].pool \in Pools /\ x \in free[call'[t].pool]
       /\ free' = [free EXCEPT ![call'[t].pool] = @ \ {x}]

Starts(t, x) ==
    /\ phase[t] = "user" /\ phase'[t] \in {"savepoint", "cursor", "write"}
    /\ call'[t].adapter = x /\ Taken(t, x)
    /\ IF phase'[t] = "savepoint"
       THEN /\ registry[x] # None /\ call'[t].n = registry[x] + 1
            /\ registry' = [registry EXCEPT ![x] = registry[x] + 1]
       ELSE registry' = registry
    /\ phase'[t] = "cursor" => registry[x] = None
    /\ UNCHANGED <<stack, session, dataVars, returned, outcome>>

EndsBody(t, x) ==
    /\ phase[t] = "user" /\ stack[t] # <<>> /\ Top(t).adapter = x
    /\ phase'[t] \in IF Top(t).level > 0 THEN {"release", "undo"} ELSE {"commit", "rollback"}
    /\ outcome' = IF phase'[t] \in {"undo", "rollback"}
                  THEN [outcome EXCEPT ![Top(t).block] = "failed"] ELSE outcome
    /\ UNCHANGED <<registry, stack, session, free, dataVars, returned>>

Proceeds(t, x) ==
    /\ InCall(t) /\ On(t) = x
    /\ UNCHANGED <<registry, stack, session, free, returned>>
    /\ call'[t].adapter = call[t].adapter /\ call'[t].pool = call[t].pool
    /\ \/ /\ phase[t] = "begin" /\ phase'[t] = "user"
          /\ Done(t, x) /\ outcome' = outcome
       \/ /\ phase[t] = "write" /\ phase'[t] = "commit write"
          /\ registry[x] = None /\ Done(t, x) /\ outcome' = outcome
          /\ call'[t].n = Cardinality(executed) + 1
       \/ /\ phase[t] \in {"write", "commit write"} /\ phase'[t] = "undo write"
          /\ registry[x] = None /\ (Done(t, x) \/ Unaffected) /\ outcome' = outcome
       \/ /\ phase[t] = "undo" /\ phase'[t] = "drop"
          /\ Done(t, x) /\ outcome' = outcome
       \/ /\ phase[t] = "commit" /\ phase'[t] = "rollback"
          /\ \/ Unaffected /\ outcome' = [outcome EXCEPT ![Top(t).block] = "failed"]
             \/ Done(t, x) /\ outcome' = [outcome EXCEPT ![Top(t).block] = "cut"]

\* A frame is pushed for a block that was not used.
Pushes(t, x, depth, opened) ==
    \E f \in Frames :
       /\ outcome[f.block] = "unused" /\ outcome' = [outcome EXCEPT ![f.block] = "open"]
       /\ f.adapter = x /\ f.level = depth /\ f.opened = opened /\ f.pool = call[t].pool
       /\ stack' = [stack EXCEPT ![t] = Append(stack[t], f)]

OpensBlock(t, x) ==
    /\ phase[t] = "cursor" /\ On(t) = x
    /\ phase'[t] = IF Control[x] = "driver" THEN "user" ELSE "begin"
    /\ Pushes(t, x, 0, TRUE)
    /\ registry' = [registry EXCEPT ![x] = 0] /\ session' = [session EXCEPT ![x] = TRUE]
    /\ UNCHANGED <<free, dataVars, returned>>

OpensNested(t, x) ==
    /\ phase[t] = "savepoint" /\ On(t) = x /\ phase'[t] = "user"
    /\ Pushes(t, x, call[t].n, FALSE)
    /\ Done(t, x)
    /\ UNCHANGED <<registry, session, free, returned>>

EndsBlock(t, x) ==
    /\ phase[t] \in {"begin", "commit", "rollback"} /\ On(t) = x /\ phase'[t] = "close"
    /\ registry' = [registry EXCEPT ![x] = None] /\ session' = [session EXCEPT ![x] = FALSE]
    /\ \/ /\ phase[t] = "begin" /\ (Done(t, x) \/ Unaffected)
          /\ outcome' = [outcome EXCEPT ![Top(t).block] = "failed"]
       \/ /\ phase[t] = "commit" /\ Done(t, x)
          /\ outcome' = [outcome EXCEPT ![Top(t).block] = "ok"]
       \/ phase[t] = "rollback" /\ Done(t, x) /\ outcome' = outcome
       \/ /\ phase[t] = "rollback" /\ Unaffected
          /\ outcome' = IF outcome[Top(t).block] = "failed"
                        THEN [outcome EXCEPT ![Top(t).block] = "stranded"] ELSE outcome
    /\ UNCHANGED <<stack, free, returned>>

PopsNested(t, x) ==
    /\ phase[t] \in {"release", "undo", "drop"} /\ On(t) = x
    /\ stack' = [stack EXCEPT ![t] = Pop(t)] /\ Left(t, x, Top(t).pool)
    /\ registry' = [registry EXCEPT ![x] = Top(t).level - 1]
    /\ \/ /\ Done(t, x)
          /\ \E how \in IF phase[t] = "release" THEN {"ok", "cut"} ELSE {"failed"} :
                outcome' = [outcome EXCEPT ![Top(t).block] = how]
       \/ /\ Unaffected
          /\ outcome' = [outcome EXCEPT ![Top(t).block] =
                             IF phase[t] = "drop" THEN "failed" ELSE "kept"]
    /\ UNCHANGED <<session, free, returned>>

PopsBlock(t, x) ==
    /\ phase[t] = "close" /\ On(t) = x
    /\ stack' = [stack EXCEPT ![t] = Pop(t)] /\ Left(t, x, Top(t).pool)
    /\ Done(t, x) \/ Unaffected
    /\ UNCHANGED <<registry, session, free, returned, outcome>>

Leaves(t, x) ==
    /\ phase[t] \in OwnCalls /\ On(t) = x /\ Left(t, x, call[t].pool)
    /\ registry' = IF phase[t] = "savepoint"
                   THEN [registry EXCEPT ![x] = call[t].n - 1] ELSE registry
    /\ phase[t] = "write" => registry[x] # None
    /\ (phase[t] # "cursor" /\ Done(t, x)) \/ Unaffected
    /\ \/ returned' = returned
       \/ /\ phase[t] = "write" /\ Done(t, x)
          /\ returned' = returned \cup {Cardinality(executed) + 1}
       \/ /\ phase[t] = "commit write" /\ Done(t, x)
          /\ returned' = returned \cup {call[t].n}
    /\ UNCHANGED <<stack, session, free, outcome>>

GivesBack(t, x) ==
    /\ phase[t] = "give back" /\ On(t) = x /\ phase'[t] = "user"
    /\ (Control[x] = "driver" /\ RolledBack(x)) \/ Unaffected
    /\ free' = [free EXCEPT ![call[t].pool] = @ \cup {x}]
    /\ UNCHANGED <<registry, stack, session, returned, outcome>>

Kind(t, x) ==
    \/ Starts(t, x) \/ EndsBody(t, x) \/ Proceeds(t, x)
    \/ OpensBlock(t, x) \/ OpensNested(t, x) \/ EndsBlock(t, x)
    \/ PopsNested(t, x) \/ PopsBlock(t, x) \/ Leaves(t, x) \/ GivesBack(t, x)

Step(t, x) ==
    /\ Moves(t) /\ uses' = uses
    /\ \/ Rests(t, x)
       \/ stage'[t] # "undoing" /\ Kind(t, x)

Inv == LockInv /\ DataTypes /\ LockHeld /\ BlocksInv

-----------------------------------------------------------------------------
(* Every step is of one of those kinds *)

LEMMA LeftScope ==
    ASSUME TypeInv, NEW t \in Tasks, NEW a, NEW pool, LeaveScope(t, a, pool)
    PROVE  Left(t, a, pool) /\ stage'[t] = "wait"
<1>1. call' = [call EXCEPT ![t] = IF pool = NoPool THEN NoCall
                                  ELSE [NoCall EXCEPT !.adapter = a, !.pool = pool]]
  BY DEF LeaveScope
<1>2. PICK c : c = IF pool = NoPool THEN NoCall
                   ELSE [NoCall EXCEPT !.adapter = a, !.pool = pool]
  OBVIOUS
<1>3. call'[t] = c
  BY <1>1, <1>2 DEF TypeInv
<1>4. pool # NoPool => c.adapter = a /\ c.pool = pool
  BY <1>2 DEF NoCall
<1>5. /\ phase' = [phase EXCEPT ![t] = IF pool = NoPool THEN "user" ELSE "give back"]
      /\ stage' = [stage EXCEPT ![t] = "wait"]
  BY DEF LeaveScope, Go
<1>6. QED
  BY <1>3, <1>4, <1>5 DEF Left, TypeInv

LEMMA PushedFrame ==
    ASSUME TypeInv, NEW t \in Tasks, NEW depth \in Int, NEW opened \in BOOLEAN,
           call[t].adapter \in Adapters, Push(t, call[t], depth, opened)
    PROVE  Pushes(t, call[t].adapter, depth, opened)
<1>1. PICK c \in CallTypes : c = call[t] /\ c.adapter \in Adapters
  BY DEF TypeInv
<1>2. PICK f : f = Frame(t, c, depth, opened)
  OBVIOUS
<1>3. f \in Frames /\ f.adapter = c.adapter /\ f.level = depth /\ f.opened = opened /\ f.pool = c.pool
  <2>1. f \in Frames
    BY <1>1, <1>2, FrameTyped DEF Push
  <2>2. QED
    BY <1>2, <2>1 DEF Frame
<1>4. f.block \in Fresh
  <2>1. f.block = CHOOSE b \in Fresh : TRUE
    BY <1>2 DEF Frame
  <2>2. Fresh # {}
    BY DEF Push
  <2>3. QED
    BY <2>1, <2>2
<1>5. outcome[f.block] = "unused"
  BY <1>4 DEF Fresh
<1>6. stack' = [stack EXCEPT ![t] = Append(stack[t], f)] /\ outcome' = [outcome EXCEPT ![f.block] = "open"]
  BY <1>1, <1>2 DEF Push, Result
<1>7. QED
  BY <1>1, <1>3, <1>5, <1>6 DEF Pushes

\* A call that gave a result.
LEMMA SucceededKind ==
    ASSUME LockInv, DataTypes, NEW t \in Tasks, InCall(t), Succeeded(t), free' = free,
           Done(t, On(t)),
           phase[t] \in {"commit", "rollback"} => Top(t).opened
    PROVE  Kind(t, On(t))
<1>1. PICK x \in Adapters : x = On(t)
  BY OnItsAdapter
<1>2. /\ TypeInv
      /\ phase[t] \in BlockCalls => stack[t] # <<>> /\ x = Top(t).adapter
      /\ phase[t] \in OwnCalls => x = call[t].adapter
      /\ call[t] \in CallTypes
  BY <1>1, OnItsAdapter DEF LockInv, TypeInv
<1>3. CASE phase[t] = "cursor"
  <2>1. /\ session' = [session EXCEPT ![x] = TRUE] /\ OpenBlock(t, call[t], TRUE)
        /\ returned' = returned
    BY <1>1, <1>3 DEF Succeeded
  <2>2. call[t].adapter = x
    BY <1>2, <1>3, Kinds
  <2>3. registry' = [registry EXCEPT ![x] = 0] /\ Push(t, call[t], 0, TRUE)
        /\ phase' = [phase EXCEPT ![t] = IF Control[x] = "driver" THEN "user" ELSE "begin"]
    BY <2>1, <2>2 DEF OpenBlock, Register, Go
  <2>4. Pushes(t, x, 0, TRUE)
    <3>1. 0 \in Int /\ TRUE \in BOOLEAN /\ call[t].adapter \in Adapters /\ TypeInv
      BY <1>2, <2>2
    <3>2. Push(t, call[t], 0, TRUE)
      BY <2>3
    <3>3. Pushes(t, call[t].adapter, 0, TRUE)
      BY <3>1, <3>2, PushedFrame, Zenon
    <3>4. QED
      BY <2>2, <3>3
  <2>5. Unaffected
    BY <1>3 DEF Done, Effect
  <2>6. OpensBlock(t, x)
    <3>1. phase'[t] = IF Control[x] = "driver" THEN "user" ELSE "begin"
      BY <1>2, <2>3 DEF TypeInv
    <3>2. UNCHANGED dataVars
      BY <2>5 DEF Unaffected
    <3>3. QED
      BY <1>1, <1>3, <2>1, <2>3, <2>4, <3>1, <3>2 DEF OpensBlock
  <2>7. QED
    BY <1>1, <2>6 DEF Kind
<1>4. CASE phase[t] = "savepoint"
  <2>1. Push(t, call[t], call[t].n, FALSE) /\ Go(t, "user")
        /\ UNCHANGED <<registry, session, returned>>
    BY <1>4 DEF Succeeded
  <2>2. call[t].adapter = x /\ call[t].n \in Int
    BY <1>2, <1>4, Kinds DEF CallTypes
  <2>3. Pushes(t, x, call[t].n, FALSE)
    BY <1>2, <2>1, <2>2, PushedFrame
  <2>4. OpensNested(t, x)
    BY <1>1, <1>2, <1>4, <2>1, <2>3 DEF OpensNested, TypeInv, Go
  <2>5. QED
    BY <1>1, <2>4 DEF Kind
<1>5. CASE phase[t] \in {"begin", "undo"}
  <2>1. Proceed(t, IF phase[t] = "begin" THEN "user" ELSE "drop")
    BY <1>5 DEF Succeeded
  <2>2. phase'[t] = IF phase[t] = "begin" THEN "user" ELSE "drop"
    BY <1>2, <2>1 DEF Proceed, Go, TypeInv
  <2>3. UNCHANGED <<registry, stack, call, session, returned, outcome>>
    BY <2>1 DEF Proceed
  <2>4. Proceeds(t, x)
    BY <1>1, <1>5, <2>2, <2>3 DEF Proceeds
  <2>5. QED
    BY <1>1, <2>4 DEF Kind
<1>6. CASE phase[t] = "write" /\ registry[x] = None
  <2>1. /\ Go(t, "commit write")
        /\ call' = [call EXCEPT ![t].n = Cardinality(executed) + 1]
        /\ UNCHANGED <<registry, stack, session, returned, outcome>>
    BY <1>1, <1>6 DEF Succeeded
  <2>2. phase'[t] = "commit write"
    BY <1>2, <2>1 DEF Go, TypeInv
  <2>3. call'[t].adapter = call[t].adapter /\ call'[t].pool = call[t].pool
        /\ call'[t].n = Cardinality(executed) + 1
    BY <1>2, <2>1 DEF TypeInv, CallTypes
  <2>4. Proceeds(t, x)
    BY <1>1, <1>6, <2>1, <2>2, <2>3 DEF Proceeds
  <2>5. QED
    BY <1>1, <2>4 DEF Kind
<1>7. CASE phase[t] = "write" /\ registry[x] # None
  <2>1. /\ returned' = returned \cup {Cardinality(executed) + 1}
        /\ LeaveScope(t, x, call[t].pool)
        /\ UNCHANGED <<registry, stack, session, outcome>>
    BY <1>1, <1>7 DEF Succeeded
  <2>2. Left(t, x, call[t].pool)
    BY <1>2, <2>1, LeftScope
  <2>3. Leaves(t, x)
    BY <1>1, <1>7, <2>1, <2>2, Kinds DEF Leaves
  <2>4. QED
    BY <1>1, <2>3 DEF Kind
<1>8. CASE phase[t] \in {"commit write", "undo write"}
  <2>1. RunEnds(t, phase[t] = "commit write")
    BY <1>8 DEF Succeeded
  <2>2. /\ returned' = IF phase[t] = "commit write" THEN returned \cup {call[t].n} ELSE returned
        /\ LeaveScope(t, call[t].adapter, call[t].pool)
        /\ UNCHANGED <<registry, stack, session, outcome>>
    BY <2>1 DEF RunEnds, EndRun
  <2>3. Left(t, x, call[t].pool)
    BY <1>2, <1>8, <2>2, LeftScope, Kinds
  <2>4. Leaves(t, x)
    BY <1>1, <1>8, <2>2, <2>3, Kinds DEF Leaves
  <2>5. QED
    BY <1>1, <2>4 DEF Kind
<1>9. CASE phase[t] \in {"release", "drop"}
  <2>1. PICK how \in {"ok", "failed"} :
           /\ how = IF phase[t] = "release" THEN "ok" ELSE "failed"
           /\ EndNested(t, how) /\ UNCHANGED <<session, returned>>
    BY <1>9 DEF Succeeded
  <2>2. Top(t).adapter = x
    BY <1>2, <1>9, Kinds
  <2>3. /\ registry' = [registry EXCEPT ![x] = Top(t).level - 1]
        /\ outcome' = [outcome EXCEPT ![Top(t).block] = how]
        /\ stack' = [stack EXCEPT ![t] = Pop(t)] /\ LeaveScope(t, x, Top(t).pool)
    BY <2>1, <2>2 DEF EndNested, Register, Result
  <2>4. Left(t, x, Top(t).pool)
    BY <1>2, <2>3, LeftScope
  <2>5. PopsNested(t, x)
    BY <1>1, <1>9, <2>1, <2>3, <2>4 DEF PopsNested
  <2>6. QED
    BY <1>1, <2>5 DEF Kind
<1>10. CASE phase[t] \in {"commit", "rollback"}
  <2>1. PICK how : /\ how = IF phase[t] = "commit" THEN "ok" ELSE outcome[Top(t).block]
                   /\ EndBlock(t, how) /\ returned' = returned
    BY <1>10 DEF Succeeded
  <2>2. Top(t).adapter = x /\ Top(t).opened
    BY <1>2, <1>10, Kinds
  <2>3. /\ registry' = [registry EXCEPT ![x] = None]
        /\ outcome' = [outcome EXCEPT ![Top(t).block] = how]
        /\ session' = [session EXCEPT ![x] = FALSE] /\ Go(t, "close") /\ stack' = stack
    BY <2>1, <2>2 DEF EndBlock, Register, Result
  <2>4. phase'[t] = "close"
    BY <1>2, <2>3 DEF Go, TypeInv
  <2>5. phase[t] = "rollback" => outcome' = outcome
    BY <1>10, <2>1, <2>3 DEF DataTypes
  <2>6. EndsBlock(t, x)
    BY <1>1, <1>10, <2>1, <2>3, <2>4, <2>5 DEF EndsBlock
  <2>7. QED
    BY <1>1, <2>6 DEF Kind
<1>11. CASE phase[t] = "close"
  <2>1. LeaveBlock(t)
    BY <1>11 DEF Succeeded
  <2>2. /\ stack' = [stack EXCEPT ![t] = Pop(t)] /\ LeaveScope(t, x, Top(t).pool)
        /\ UNCHANGED <<registry, session, returned, outcome>>
    BY <1>2, <1>11, <2>1, Kinds DEF LeaveBlock
  <2>3. Left(t, x, Top(t).pool)
    BY <1>2, <2>2, LeftScope
  <2>4. PopsBlock(t, x)
    BY <1>1, <1>11, <2>2, <2>3 DEF PopsBlock
  <2>5. QED
    BY <1>1, <2>4 DEF Kind
<1>12. QED
  BY <1>3, <1>4, <1>5, <1>6, <1>7, <1>8, <1>9, <1>10, <1>11, Kinds DEF InCall

\* A call that raised.
LEMMA RaisedKind ==
    ASSUME LockInv, DataTypes, NEW t \in Tasks, InCall(t), NEW how, Raised(t, how), free' = free,
           (phase[t] # "cursor" /\ Done(t, On(t)) /\ how = "cut") \/ (Unaffected /\ how = "failed"),
           phase[t] \in {"begin", "rollback"} => Top(t).opened
    PROVE  Kind(t, On(t))
<1>1. PICK x \in Adapters : x = On(t)
  BY OnItsAdapter
<1>2. /\ TypeInv
      /\ phase[t] \in BlockCalls => stack[t] # <<>> /\ x = Top(t).adapter
      /\ phase[t] \in OwnCalls => x = call[t].adapter
  BY <1>1, OnItsAdapter DEF LockInv, TypeInv
<1>3. CASE phase[t] = "cursor"
  <2>1. LeaveScope(t, x, call[t].pool) /\ UNCHANGED <<registry, stack, session, returned, outcome>>
    BY <1>1, <1>3 DEF Raised
  <2>2. Left(t, x, call[t].pool)
    BY <1>2, <2>1, LeftScope
  <2>3. Leaves(t, x)
    BY <1>1, <1>3, <2>1, <2>2, Kinds DEF Leaves
  <2>4. QED
    BY <1>1, <2>3 DEF Kind
<1>4. CASE phase[t] = "savepoint"
  <2>1. /\ Register(x, call[t].n - 1) /\ LeaveScope(t, x, call[t].pool)
        /\ UNCHANGED <<stack, session, returned, outcome>>
    BY <1>1, <1>4 DEF Raised
  <2>2. Left(t, x, call[t].pool)
    BY <1>2, <2>1, LeftScope
  <2>3. Leaves(t, x)
    BY <1>1, <1>4, <2>1, <2>2, Kinds DEF Leaves, Register
  <2>4. QED
    BY <1>1, <2>3 DEF Kind
<1>5. CASE phase[t] \in {"begin", "rollback"}
  <2>1. PICK result : /\ result = IF phase[t] = "begin" THEN "failed"
                                 ELSE IF how = "failed" /\ outcome[Top(t).block] = "failed"
                                 THEN "stranded" ELSE outcome[Top(t).block]
                      /\ EndBlock(t, result) /\ returned' = returned
    BY <1>5 DEF Raised, RollbackRaised
  <2>2. Top(t).adapter = x /\ Top(t).opened
    BY <1>2, <1>5, Kinds
  <2>3. /\ registry' = [registry EXCEPT ![x] = None]
        /\ outcome' = [outcome EXCEPT ![Top(t).block] = result]
        /\ session' = [session EXCEPT ![x] = FALSE] /\ Go(t, "close") /\ stack' = stack
    BY <2>1, <2>2 DEF EndBlock, Register, Result
  <2>4. phase'[t] = "close"
    BY <1>2, <2>3 DEF Go, TypeInv
  <2>5. CASE phase[t] = "begin"
    <3>1. EndsBlock(t, x)
      BY <1>1, <2>1, <2>3, <2>4, <2>5 DEF EndsBlock
    <3>2. QED
      BY <1>1, <3>1 DEF Kind
  <2>6. CASE phase[t] = "rollback"
    <3>1. result = outcome[Top(t).block] => outcome' = outcome
      BY <2>3 DEF DataTypes
    <3>2. CASE Done(t, x) /\ how = "cut"
      BY <1>1, <2>1, <2>3, <2>4, <2>6, <3>1, <3>2 DEF EndsBlock, Kind
    <3>3. CASE Unaffected /\ how = "failed"
      BY <1>1, <2>1, <2>3, <2>4, <2>6, <3>1, <3>3 DEF EndsBlock, Kind
    <3>4. QED
      BY <1>1, <3>2, <3>3
  <2>7. QED
    BY <1>5, <2>5, <2>6
<1>6. CASE phase[t] \in {"write", "commit write"} /\ registry[x] = None
  <2>1. Proceed(t, "undo write")
    BY <1>1, <1>6 DEF Raised
  <2>2. phase'[t] = "undo write" /\ UNCHANGED <<registry, stack, call, session, returned, outcome>>
    BY <1>2, <2>1 DEF Proceed, Go, TypeInv
  <2>3. Proceeds(t, x)
    BY <1>1, <1>6, <2>2 DEF Proceeds
  <2>4. QED
    BY <1>1, <2>3 DEF Kind
<1>7. CASE phase[t] = "undo write" \/ (phase[t] \in {"write", "commit write"} /\ registry[x] # None)
  <2>1. RunEnds(t, FALSE)
    BY <1>1, <1>7 DEF Raised
  <2>2. /\ LeaveScope(t, call[t].adapter, call[t].pool)
        /\ UNCHANGED <<registry, stack, session, returned, outcome>>
    BY <2>1 DEF RunEnds, EndRun
  <2>3. Left(t, x, call[t].pool)
    BY <1>2, <1>7, <2>2, LeftScope, Kinds
  <2>4. Leaves(t, x)
    BY <1>1, <1>7, <2>2, <2>3, Kinds DEF Leaves
  <2>5. QED
    BY <1>1, <2>4 DEF Kind
<1>8. CASE phase[t] \in {"release", "undo", "drop"}
  <2>1. PICK result \in {"cut", "failed", "kept"} :
           /\ how = "cut" => result = IF phase[t] = "release" THEN "cut" ELSE "failed"
           /\ how = "failed" => result = IF phase[t] = "drop" THEN "failed" ELSE "kept"
           /\ EndNested(t, result) /\ UNCHANGED <<session, returned>>
    BY <1>1, <1>8 DEF Raised
  <2>2. Top(t).adapter = x
    BY <1>2, <1>8, Kinds
  <2>3. /\ registry' = [registry EXCEPT ![x] = Top(t).level - 1]
        /\ outcome' = [outcome EXCEPT ![Top(t).block] = result]
        /\ stack' = [stack EXCEPT ![t] = Pop(t)] /\ LeaveScope(t, x, Top(t).pool)
    BY <2>1, <2>2 DEF EndNested, Register, Result
  <2>4. Left(t, x, Top(t).pool)
    BY <1>2, <2>3, LeftScope
  <2>5. PopsNested(t, x)
    BY <1>1, <1>8, <2>1, <2>3, <2>4 DEF PopsNested
  <2>6. QED
    BY <1>1, <2>5 DEF Kind
<1>9. CASE phase[t] = "commit"
  <2>1. Go(t, "rollback") /\ outcome' = [outcome EXCEPT ![Top(t).block] = how]
        /\ UNCHANGED <<registry, stack, call, session, returned>>
    BY <1>9 DEF Raised, CommitRaised, Result
  <2>2. phase'[t] = "rollback"
    BY <1>2, <2>1 DEF Go, TypeInv
  <2>3. (Unaffected /\ how = "failed") \/ (Done(t, x) /\ how = "cut")
    BY <1>1
  <2>4. Proceeds(t, x)
    BY <1>1, <1>9, <2>1, <2>2, <2>3 DEF Proceeds
  <2>5. QED
    BY <1>1, <2>4 DEF Kind
<1>10. CASE phase[t] = "close"
  <2>1. LeaveBlock(t)
    BY <1>10 DEF Raised
  <2>2. /\ stack' = [stack EXCEPT ![t] = Pop(t)] /\ LeaveScope(t, x, Top(t).pool)
        /\ UNCHANGED <<registry, session, returned, outcome>>
    BY <1>2, <1>10, <2>1, Kinds DEF LeaveBlock
  <2>3. Left(t, x, Top(t).pool)
    BY <1>2, <2>2, LeftScope
  <2>4. PopsBlock(t, x)
    BY <1>1, <1>10, <2>2, <2>3 DEF PopsBlock
  <2>5. QED
    BY <1>1, <2>4 DEF Kind
<1>11. QED
  BY <1>3, <1>4, <1>5, <1>6, <1>7, <1>8, <1>9, <1>10, Kinds DEF InCall

-----------------------------------------------------------------------------
(* The innermost block, and who is on its adapter *)

LEMMA TopIsDeepest ==
    ASSUME TypeInv, StacksInv, NEW t \in Tasks, stack[t] # <<>>
    PROVE  /\ Top(t) \in Frames /\ Top(t) \in ToSet(stack[t])
           /\ Top(t) \in FramesOn(t, Top(t).adapter) /\ Top(t).adapter \in Adapters
           /\ \A g \in ToSet(stack[t]) : g # Top(t) =>
                 /\ g.block # Top(t).block
                 /\ g.adapter = Top(t).adapter => g.level < Top(t).level
<1>1. stack[t] \in Seq(Frames) /\ Stacked(stack[t])
  BY DEF TypeInv, StacksInv
<1>2. Top(t) \in Frames
  BY TopFacts
<1>3. /\ Top(t) \in ToSet(stack[t])
      /\ \A g \in ToSet(stack[t]) : g # Top(t) =>
            /\ g.block # Top(t).block
            /\ g.adapter = Top(t).adapter => g.level < Top(t).level
  BY <1>1, StackedTop DEF Top
<1>4. QED
  BY <1>2, <1>3 DEF FramesOn, Frames

LEMMA FramesTyped ==
    ASSUME TypeInv, NEW t \in Tasks
    PROVE  ToSet(stack[t]) \subseteq Frames /\ \A a : FramesOn(t, a) \subseteq ToSet(stack[t])
<1>1. stack[t] \in Seq(Frames)
  BY DEF TypeInv
<1>2. ToSet(stack[t]) \subseteq Frames
  BY <1>1, ToSetIs
<1>3. QED
  BY <1>2 DEF FramesOn

\* A task in a call is on the call's adapter.
LEMMA BusyIsOnIt ==
    ASSUME LockInv, StacksInv, PhasesInv, NEW t \in Tasks, phase[t] # "user"
    PROVE  /\ On(t) \in Adapters /\ OnIt(t, On(t))
           /\ phase[t] \in BlockCalls => /\ stack[t] # <<>> /\ Top(t).adapter = On(t)
                                         /\ Top(t) \in FramesOn(t, On(t))
           /\ phase[t] \notin BlockCalls => /\ Calling(t, On(t)) /\ On(t) = call[t].adapter
                                            /\ phase[t] \in OwnCalls \cup {"give back"}
<1>1. phase[t] \in OwnCalls \cup BlockCalls \cup {"give back"} /\ TypeInv
  BY Kinds DEF LockInv, TypeInv
<1>2. CASE phase[t] \in BlockCalls
  <2>1. InCall(t)
    BY <1>2, Kinds DEF InCall
  <2>2. On(t) \in Adapters /\ stack[t] # <<>> /\ On(t) = Top(t).adapter
    BY <1>2, <2>1, OnItsAdapter
  <2>3. Top(t) \in FramesOn(t, On(t))
    BY <1>1, <2>2, TopIsDeepest
  <2>4. QED
    BY <1>2, <2>2, <2>3 DEF OnIt
<1>3. CASE phase[t] \notin BlockCalls
  <2>1. On(t) = call[t].adapter
    BY <1>3 DEF On
  <2>2. call[t].adapter \in Adapters
    BY <1>1, <1>3 DEF LockInv, HasAdapter, PhasesInv
  <2>3. Calling(t, On(t))
    BY <1>1, <1>3 DEF Calling, In
  <2>4. QED
    BY <1>1, <1>3, <2>1, <2>2, <2>3 DEF OnIt
<1>4. QED
  BY <1>2, <1>3

\* Nobody else is on the adapter of a call, so no call waits for a lock.
LEMMA NobodyWaits ==
    ASSUME LockInv, LockHeld, StacksInv, PhasesInv, Custody, NEW t \in Tasks, InCall(t),
           stage[t] = "wait"
    PROVE  lock[On(t)] = Nobody
<1> SUFFICES ASSUME lock[On(t)] # Nobody
             PROVE  FALSE
  OBVIOUS
<1>1. phase[t] # "user"
  BY Kinds DEF InCall
<1>2. On(t) \in Adapters /\ OnIt(t, On(t))
  BY <1>1, BusyIsOnIt
<1>3. PICK u \in Tasks : u = lock[On(t)]
  BY <1>2 DEF LockInv, TypeInv
<1>4. InCall(u) /\ stage[u] # "wait" /\ On(u) = On(t)
  BY <1>2, <1>3 DEF LockHeld
<1>5. phase[u] # "user"
  BY <1>4, Kinds DEF InCall
<1>6. OnIt(u, On(t))
  BY <1>4, <1>5, BusyIsOnIt
<1>7. QED
  BY <1>2, <1>4, <1>6 DEF Custody

\* The level of the innermost block is one of those there are.
LEMMA TopLevel ==
    ASSUME LockInv, StacksInv, SessionsInv, NEW t \in Tasks, stack[t] # <<>>
    PROVE  LET x == Top(t).adapter IN
           /\ Depth(t, x) \in Nat /\ Top(t).level \in 0..Depth(t, x)
           /\ Top(t).level = Depth(t, x)
           /\ Top(t).level = 0 => Top(t).opened
<1>1. PICK x \in Adapters : x = Top(t).adapter /\ Top(t) \in FramesOn(t, x)
  BY TopIsDeepest DEF LockInv
<1>2. /\ Depth(t, x) \in Nat
      /\ {f.level : f \in FramesOn(t, x)} = 0..Depth(t, x)
      /\ \A f \in FramesOn(t, x) : f.level = 0 => f.opened
  BY <1>1 DEF SessionsInv, Nested
<1>3. Top(t).level \in 0..Depth(t, x)
  BY <1>1, <1>2
<1>4. PICK f \in FramesOn(t, x) : f.level = Depth(t, x)
  <2>1. Depth(t, x) \in 0..Depth(t, x)
    BY <1>2
  <2>2. QED
    BY <1>2, <2>1
<1>5. f = Top(t) \/ f.level < Top(t).level
  <2>1. f \in ToSet(stack[t]) /\ f.adapter = x
    BY DEF FramesOn
  <2>2. QED
    BY <1>1, <2>1, TopIsDeepest DEF LockInv
<1>6. Top(t).level = Depth(t, x)
  <2>1. PICK d \in Nat : d = Depth(t, x)
    BY <1>2
  <2>2. Top(t).level \in 0..d /\ (f = Top(t) \/ d < Top(t).level) /\ f.level = d
    BY <1>3, <1>4, <1>5, <2>1
  <2>3. QED
    BY <2>1, <2>2
<1>7. QED
  BY <1>1, <1>2, <1>3, <1>6

\* The savepoint of a nested block is set, and a top-level block was opened.
LEMMA BlockReady ==
    ASSUME LockInv, BlocksInv, NEW t \in Tasks, InCall(t)
    PROVE  phase[t] \in {"begin", "commit", "rollback"} => Top(t).opened
<1>1. LockInv /\ StacksInv /\ PhasesInv /\ SessionsInv /\ SavepointsInv /\ phase[t] # "user"
  BY Kinds DEF BlocksInv, InCall
<1>2. CASE phase[t] \in BlockCalls
  <2>1. PICK x \in Adapters : /\ x = On(t) /\ stack[t] # <<>> /\ Top(t).adapter = x
                              /\ Top(t) \in FramesOn(t, x)
    BY <1>1, <1>2, BusyIsOnIt
  <2>2. /\ Depth(t, x) \in Nat /\ Top(t).level \in 0..Depth(t, x)
        /\ Top(t).level = 0 => Top(t).opened
    BY <1>1, <2>1, TopLevel
  <2>3. Top(t).level > 0 <=> phase[t] \in {"release", "undo", "drop"}
    BY <1>1, <1>2 DEF PhasesInv
  <2>4. phase[t] \in {"begin", "commit", "rollback"} => Top(t).level = 0
    BY <2>2, <2>3
  <2>5. QED
    BY <2>2, <2>4
<1>3. CASE phase[t] \notin BlockCalls
  BY <1>3, Kinds
<1>4. QED
  BY <1>2, <1>3

\* An adapter that a task has, that its code names, or that is in a pool, is no
\* other task's.
LEMMA TakenIsFree ==
    ASSUME Custody, Private, NEW t \in Tasks, NEW u \in Tasks, t # u, NEW a \in Adapters,
           OnIt(t, a) \/ a \in Named(t) \/ \E q \in Pools : a \in free[q]
    PROVE  ~OnIt(u, a)
<1>1. CASE OnIt(t, a)
  BY <1>1 DEF Custody
<1>2. CASE \E q \in Pools : a \in free[q]
  BY <1>2 DEF Custody
<1>3. CASE a \in Named(t)
  <2>1. ~Pooled(a) /\ a \notin Named(u)
    BY <1>3 DEF Private, Pooled
  <2>2. FramesOn(u, a) = {}
    BY <2>1 DEF Custody, FramesOn
  <2>3. ~Calling(u, a)
    BY <2>1 DEF Custody
  <2>4. QED
    BY <2>2, <2>3 DEF OnIt
<1>4. QED
  BY <1>1, <1>2, <1>3

LEMMA GoMoves ==
    ASSUME TypeInv, NEW t \in Tasks, NEW next \in Calls \cup {"user", "give back"}, Go(t, next),
           NEW c \in CallTypes, call' = [call EXCEPT ![t] = c], stack' = stack,
           registry' \in [Adapters -> Int],
           next \in BlockCalls => stack[t] # <<>>, next \in OwnCalls => c.adapter \in Adapters
    PROVE  Moves(t) /\ stage'[t] = "wait" /\ phase'[t] = next /\ call'[t] = c
<1>1. /\ phase' \in [Tasks -> Calls \cup {"user", "give back"}] /\ phase'[t] = next
      /\ stage' \in [Tasks -> {"wait", "running", "undoing"}] /\ stage'[t] = "wait"
      /\ \A u \in Tasks \ {t} : phase'[u] = phase[u] /\ stage'[u] = stage[u]
  BY GoFacts
<1>2. /\ call' \in [Tasks -> CallTypes] /\ call'[t] = c
      /\ \A u \in Tasks \ {t} : call'[u] = call[u]
      /\ stack' \in [Tasks -> Seq(Frames)]
  BY DEF TypeInv
<1>3. QED
  BY <1>1, <1>2 DEF Moves

\* What resolve_adapter() and scope() give the task.
LEMMA ResolvedTaken ==
    ASSUME TypeInv, StacksInv, DataTypes, NEW t \in Tasks, NEW a \in Adapters,
           NEW pool \in Pools \cup {NoPool}, NEW b, Resolved(t, b, a, pool),
           b \in uses[t].opens \cup uses[t].runs \/ (stack[t] # <<>> /\ b = Top(t).adapter),
           call'[t].pool = pool
    PROVE  /\ Taken(t, a)
           /\ FramesOn(t, a) # {} \/ a \in Named(t) \/ \E q \in Pools : a \in free[q]
<1>1. CASE Pinned(t, b)
  <2>1. stack[t] # <<>> /\ a = Top(t).adapter /\ pool = NoPool /\ free' = free
    BY <1>1 DEF Pinned, Resolved
  <2>2. FramesOn(t, a) # {}
    BY <2>1, TopIsDeepest
  <2>3. QED
    BY <2>1, <2>2 DEF Taken
<1>2. CASE ~Pinned(t, b)
  <2>1. b \in uses[t].opens \cup uses[t].runs
    BY <1>2 DEF Pinned
  <2>2. b \in Adapters \cup Pools
    BY <2>1, AsyncUsesAssumption DEF DataTypes
  <2>3. CASE b \in Adapters
    <3>1. a = b /\ pool = NoPool /\ free' = free
      BY <1>2, <2>3 DEF Resolved
    <3>2. a \in Named(t)
      BY <2>1, <2>3, <3>1 DEF Named
    <3>3. QED
      BY <3>1, <3>2 DEF Taken
  <2>4. CASE b \notin Adapters
    <3>1. pool = b /\ b \in Pools /\ a \in free[b] /\ free' = [free EXCEPT ![b] = @ \ {a}]
      BY <1>2, <2>2, <2>4 DEF Resolved
    <3>2. QED
      BY <3>1 DEF Taken
  <2>5. QED
    BY <2>3, <2>4
<1>3. QED
  BY <1>1, <1>2

LEMMA TransactionKind ==
    ASSUME LockInv, DataTypes, BlocksInv, Private, NEW t \in Tasks, Transaction(t)
    PROVE  \E x \in Adapters : Step(t, x)
<1>1. TypeInv /\ StacksInv /\ SessionsInv /\ Custody
  BY DEF LockInv, BlocksInv
<1>2. PICK b \in uses[t].opens, a \in Adapters, pool \in Pools \cup {NoPool} :
         /\ Resolved(t, b, a, pool)
         /\ LET nested == registry[a] # None
                opened == [adapter |-> a, pool |-> pool,
                           n |-> IF nested THEN registry[a] + 1 ELSE 0]
            IN IF nested
               THEN /\ Control[a] # "cursor"
                    /\ call' = [call EXCEPT ![t] = opened]
                    /\ Register(a, registry[a] + 1)
                    /\ Go(t, "savepoint")
                    /\ UNCHANGED <<stack, outcome>>
               ELSE IF session[a]
               THEN OpenBlock(t, opened, FALSE)
               ELSE /\ call' = [call EXCEPT ![t] = opened]
                    /\ Go(t, "cursor")
                    /\ UNCHANGED <<registry, stack, outcome>>
  BY DEF Transaction
<1>3. /\ phase[t] = "user" /\ UNCHANGED <<uses, session, dataVars, returned>>
  BY DEF Transaction
<1>4. PICK c \in CallTypes :
         /\ c = [adapter |-> a, pool |-> pool,
                 n |-> IF registry[a] # None THEN registry[a] + 1 ELSE 0]
         /\ c.adapter = a /\ c.pool = pool
         /\ registry[a] # None => c.n = registry[a] + 1
  <2>1. registry[a] \in Int
    BY <1>1 DEF TypeInv
  <2>2. PICK n \in Int : n = IF registry[a] # None THEN registry[a] + 1 ELSE 0
    BY <2>1
  <2>3. [adapter |-> a, pool |-> pool, n |-> n] \in CallTypes
    BY DEF CallTypes
  <2>4. QED
    BY <2>2, <2>3
<1>5. CASE registry[a] # None
  <2>1. /\ call' = [call EXCEPT ![t] = c] /\ Go(t, "savepoint")
        /\ registry' = [registry EXCEPT ![a] = registry[a] + 1]
        /\ UNCHANGED <<stack, outcome>>
    BY <1>2, <1>4, <1>5 DEF Register
  <2>2. registry' \in [Adapters -> Int]
    <3>1. PICK n \in Int : n = registry[a]
      BY <1>1 DEF TypeInv
    <3>2. n + 1 \in Int
      OBVIOUS
    <3>3. QED
      BY <1>1, <2>1, <3>1, <3>2 DEF TypeInv
  <2>3. "savepoint" \in Calls /\ "savepoint" \notin BlockCalls
    BY Kinds
  <2>4. Moves(t) /\ stage'[t] = "wait" /\ phase'[t] = "savepoint" /\ call'[t] = c
    <3>1. c \in CallTypes /\ c.adapter \in Adapters
      BY <1>4
    <3>2. stack' = stack /\ call' = [call EXCEPT ![t] = c] /\ Go(t, "savepoint")
      BY <2>1
    <3>3. QED
      BY <1>1, <2>2, <2>3, <3>1, <3>2, GoMoves
  <2>5. Taken(t, a)
    BY <1>1, <1>2, <1>4, <2>4, ResolvedTaken
  <2>6. Starts(t, a)
    BY <1>3, <1>4, <1>5, <2>1, <2>4, <2>5 DEF Starts
  <2>7. QED
    BY <1>3, <2>4, <2>6 DEF Step, Kind
<1>6. CASE registry[a] = None /\ ~session[a]
  <2>1. /\ call' = [call EXCEPT ![t] = c] /\ Go(t, "cursor")
        /\ UNCHANGED <<registry, stack, outcome>>
    BY <1>2, <1>4, <1>6
  <2>2. registry' \in [Adapters -> Int]
    BY <1>1, <2>1 DEF TypeInv
  <2>3. "cursor" \in Calls /\ "cursor" \notin BlockCalls
    BY Kinds
  <2>4. Moves(t) /\ stage'[t] = "wait" /\ phase'[t] = "cursor" /\ call'[t] = c
    <3>1. c \in CallTypes /\ c.adapter \in Adapters
      BY <1>4
    <3>2. stack' = stack /\ call' = [call EXCEPT ![t] = c] /\ Go(t, "cursor")
      BY <2>1
    <3>3. QED
      BY <1>1, <2>2, <2>3, <3>1, <3>2, GoMoves
  <2>5. Taken(t, a)
    BY <1>1, <1>2, <1>4, <2>4, ResolvedTaken
  <2>6. Starts(t, a)
    BY <1>3, <1>4, <1>6, <2>1, <2>4, <2>5 DEF Starts
  <2>7. QED
    BY <1>3, <2>4, <2>6 DEF Step, Kind
<1>7. CASE registry[a] = None /\ session[a]
  \* A session that is set is a block's, and the registry has it.
  <2>1. FramesOn(t, a) = {}
    <3>1. Depth(t, a) = None
      BY <1>3, <1>7 DEF Depth, In
    <3>2. FramesOn(t, a) # {} => Depth(t, a) \in Nat
      BY <1>1 DEF SessionsInv, Nested
    <3>3. None \notin Nat
      BY DEF None
    <3>4. QED
      BY <3>1, <3>2, <3>3
  <2>2. OpenBlock(t, c, FALSE)
    BY <1>2, <1>4, <1>7
  <2>3. FramesOn(t, a) # {} \/ a \in Named(t) \/ \E q \in Pools : a \in free[q]
    <3>1. CASE Pinned(t, b)
      <4>1. stack[t] # <<>> /\ a = Top(t).adapter
        BY <1>2, <3>1 DEF Pinned, Resolved
      <4>2. QED
        BY <1>1, <4>1, TopIsDeepest
    <3>2. CASE ~Pinned(t, b)
      <4>1. b \in Adapters => a \in Named(t)
        BY <1>2, <3>2 DEF Resolved, Named
      <4>2. b \notin Adapters => b \in Pools /\ a \in free[b]
        BY <1>2, <3>2, AsyncUsesAssumption DEF Resolved, DataTypes
      <4>3. QED
        BY <4>1, <4>2
    <3>3. QED
      BY <3>1, <3>2
  <2>4. \A u \in Tasks : u # t => FramesOn(u, a) = {}
    BY <1>1, <2>1, <2>3, TakenIsFree DEF OnIt
  <2>5. Vacant(a)
    BY <2>1, <2>4 DEF Vacant
  <2>6. QED
    BY <1>1, <1>7, <2>5 DEF SessionsInv
<1>8. QED
  BY <1>5, <1>6, <1>7

LEMMA RunKind ==
    ASSUME LockInv, DataTypes, BlocksInv, NEW t \in Tasks, Run(t)
    PROVE  \E x \in Adapters : Step(t, x)
<1>1. TypeInv /\ StacksInv
  BY DEF LockInv, BlocksInv
<1>2. PICK b \in uses[t].runs \cup (IF stack[t] = <<>> THEN {} ELSE {Top(t).adapter}),
           a \in Adapters, pool \in Pools \cup {NoPool} :
         /\ Resolved(t, b, a, pool)
         /\ call' = [call EXCEPT ![t] = [adapter |-> a, pool |-> pool, n |-> 0]]
  BY DEF Run
<1>3. /\ phase[t] = "user" /\ Go(t, "write")
      /\ UNCHANGED <<uses, registry, stack, session, dataVars, returned, outcome>>
  BY DEF Run
<1>4. PICK c \in CallTypes : /\ call' = [call EXCEPT ![t] = c] /\ c.adapter = a /\ c.pool = pool
  <2>1. [adapter |-> a, pool |-> pool, n |-> 0] \in CallTypes
    BY DEF CallTypes
  <2>2. QED
    BY <1>2, <2>1
<1>5. registry' \in [Adapters -> Int]
  BY <1>1, <1>3 DEF TypeInv
<1>6. "write" \in Calls /\ "write" \notin BlockCalls
  BY Kinds
<1>7. Moves(t) /\ stage'[t] = "wait" /\ phase'[t] = "write" /\ call'[t] = c
  BY <1>1, <1>3, <1>4, <1>5, <1>6, GoMoves
<1>8. b \in uses[t].opens \cup uses[t].runs \/ (stack[t] # <<>> /\ b = Top(t).adapter)
  BY <1>2
<1>9. Taken(t, a)
  BY <1>1, <1>2, <1>4, <1>7, <1>8, ResolvedTaken
<1>10. Starts(t, a)
  BY <1>3, <1>4, <1>7, <1>9 DEF Starts
<1>11. QED
  BY <1>3, <1>7, <1>10 DEF Step, Kind

LEMMA BodyKind ==
    ASSUME LockInv, StacksInv, NEW t \in Tasks, Finish(t) \/ Raise(t) \/ PoolTimesOut(t)
    PROVE  \E x \in Adapters : Step(t, x)
<1>1. TypeInv
  BY DEF LockInv
<1>2. /\ phase[t] = "user" /\ stack[t] # <<>>
      /\ UNCHANGED <<uses, free, registry, stack, call, session, dataVars, returned>>
  BY DEF Finish, Raise, PoolTimesOut, poolVars
<1>3. PICK next \in IF Top(t).level > 0 THEN {"release", "undo"} ELSE {"commit", "rollback"} :
         /\ Go(t, next)
         /\ outcome' = IF next \in {"undo", "rollback"}
                       THEN [outcome EXCEPT ![Top(t).block] = "failed"] ELSE outcome
  <2>1. CASE Finish(t)
    BY <2>1 DEF Finish
  <2>2. CASE Raise(t) \/ PoolTimesOut(t)
    BY <2>2 DEF Raise, PoolTimesOut, Result
  <2>3. QED
    BY <2>1, <2>2
<1>4. next \in Calls /\ next \notin OwnCalls
  BY <1>3, Kinds
<1>5. PICK c \in CallTypes : call' = [call EXCEPT ![t] = c]
  <2>1. call[t] \in CallTypes /\ call' = [call EXCEPT ![t] = call[t]]
    BY <1>1, <1>2 DEF TypeInv
  <2>2. QED
    BY <2>1
<1>6. registry' \in [Adapters -> Int]
  BY <1>1, <1>2 DEF TypeInv
<1>7. Moves(t) /\ stage'[t] = "wait" /\ phase'[t] = next
  BY <1>1, <1>2, <1>3, <1>4, <1>5, <1>6, GoMoves
<1>8. PICK x \in Adapters : x = Top(t).adapter
  BY <1>1, <1>2, TopIsDeepest
<1>9. EndsBody(t, x)
  BY <1>2, <1>3, <1>7, <1>8 DEF EndsBody
<1>10. QED
  BY <1>2, <1>7, <1>9 DEF Step, Kind

LEMMA GiveBackKind ==
    ASSUME LockInv, StacksInv, PhasesInv, NEW t \in Tasks, GiveBack(t)
    PROVE  \E x \in Adapters : Step(t, x)
<1>1. TypeInv
  BY DEF LockInv
<1>2. /\ phase[t] = "give back" /\ phase' = [phase EXCEPT ![t] = "user"]
      /\ call' = [call EXCEPT ![t] = NoCall]
      /\ UNCHANGED <<uses, registry, stack, stage, session, returned, outcome>>
  BY DEF GiveBack
<1>3. PICK x \in Adapters : x = On(t) /\ x = call[t].adapter
  BY <1>2, BusyIsOnIt, Kinds
<1>4. /\ (Control[x] = "driver" /\ RolledBack(x)) \/ Unaffected
      /\ free' = [free EXCEPT ![call[t].pool] = @ \cup {x}]
  BY <1>3 DEF GiveBack
<1>5. NoCall \in CallTypes
  BY DEF NoCall, CallTypes
<1>6. "user" \notin Calls /\ "user" \notin BlockCalls /\ "user" \notin OwnCalls
  BY Kinds
<1>7. Moves(t) /\ phase'[t] = "user"
  BY <1>1, <1>2, <1>5, <1>6 DEF Moves, TypeInv
<1>8. stage'[t] # "undoing"
  BY <1>2 DEF PhasesInv
<1>9. GivesBack(t, x)
  BY <1>2, <1>3, <1>4, <1>7 DEF GivesBack
<1>10. QED
  BY <1>2, <1>7, <1>8, <1>9 DEF Step, Kind

LEMMA RestKind ==
    ASSUME LockInv, PhasesInv, NEW t \in Tasks, InCall(t),
           stage' \in [Tasks -> {"wait", "running", "undoing"}],
           \A u \in Tasks \ {t} : stage'[u] = stage[u],
           stage'[t] = "undoing" => stage[t] = "undoing" \/ phase[t] = "cursor",
           UNCHANGED <<uses, free, registry, stack, phase, call, session, dataVars, returned, outcome>>
    PROVE  \E x \in Adapters : Step(t, x)
<1>1. Moves(t)
  BY DEF LockInv, TypeInv, HasAdapter, Moves
<1>2. stage'[t] = "undoing" => phase[t] = "cursor"
  BY DEF PhasesInv
<1>3. PICK x \in Adapters : x = On(t)
  BY OnItsAdapter
<1>4. Rests(t, x)
  BY <1>2, <1>3 DEF Rests
<1>5. QED
  BY <1>1, <1>4 DEF Step

\* A call that ends, with what it did.
LEMMA EndedKind ==
    ASSUME Inv, NEW t \in Tasks, InCall(t), uses' = uses, free' = free,
           \/ Done(t, On(t)) /\ Succeeded(t)
           \/ phase[t] # "cursor" /\ Done(t, On(t)) /\ Raised(t, "cut")
           \/ Unaffected /\ Raised(t, "failed")
    PROVE  \E x \in Adapters : Step(t, x)
<1>1. LockInv /\ DataTypes /\ BlocksInv
  BY DEF Inv
<1>2. PICK x \in Adapters : x = On(t)
  BY <1>1, OnItsAdapter
<1>3. phase[t] \in {"begin", "commit", "rollback"} => Top(t).opened
  BY <1>1, BlockReady
<1>4. CASE Done(t, On(t)) /\ Succeeded(t)
  <2>1. Moves(t) /\ stage'[t] = "wait"
    BY <1>1, <1>4, SucceededMoves
  <2>2. Kind(t, x)
    BY <1>1, <1>2, <1>3, <1>4, SucceededKind
  <2>3. QED
    BY <2>1, <2>2 DEF Step
<1>5. ASSUME NEW how, Raised(t, how),
             (phase[t] # "cursor" /\ Done(t, On(t)) /\ how = "cut") \/ (Unaffected /\ how = "failed")
      PROVE  \E y \in Adapters : Step(t, y)
  <2>1. Moves(t) /\ stage'[t] = "wait"
    BY <1>1, <1>5, RaisedMoves
  <2>2. Kind(t, x)
    BY <1>1, <1>2, <1>3, <1>5, RaisedKind
  <2>3. QED
    BY <2>1, <2>2 DEF Step
<1>6. QED
  BY <1>4, <1>5

LEMMA StepKinds ==
    ASSUME Inv, Private, [Next]_vars
    PROVE  UNCHANGED vars \/ \E t \in Tasks, x \in Adapters : Step(t, x)
<1>1. LockInv /\ DataTypes /\ LockHeld /\ BlocksInv /\ TypeInv
      /\ StacksInv /\ PhasesInv /\ Custody
  BY DEF Inv, LockInv, BlocksInv
<1>2. ASSUME NEW t \in Tasks, TakeLock(t)
      PROVE  \E x \in Adapters : Step(t, x)
  <2>1. /\ InCall(t) /\ stage' = [stage EXCEPT ![t] = "running"]
        /\ UNCHANGED <<uses, free, registry, stack, phase, call, session, dataVars, returned, outcome>>
    BY <1>2 DEF TakeLock, poolVars
  <2>2. /\ stage' \in [Tasks -> {"wait", "running", "undoing"}] /\ stage'[t] = "running"
        /\ \A u \in Tasks \ {t} : stage'[u] = stage[u]
    BY <1>1, <2>1 DEF TypeInv
  <2>3. QED
    BY <1>1, <2>1, <2>2, RestKind
<1>3. ASSUME NEW t \in Tasks, CallReturns(t)
      PROVE  \E x \in Adapters : Step(t, x)
  <2>1. /\ InCall(t) /\ uses' = uses /\ free' = free
        /\ \/ Executable(t, phase[t], On(t)) /\ Effect(t, phase[t], On(t)) /\ Succeeded(t)
           \/ Unaffected /\ Raised(t, "failed")
    BY <1>3 DEF CallReturns, poolVars
  <2>2. QED
    BY <2>1, EndedKind DEF Done
<1>4. ASSUME NEW t \in Tasks, CancelledCallEnds(t)
      PROVE  \E x \in Adapters : Step(t, x)
  <2>1. InCall(t) /\ uses' = uses /\ free' = free
    BY <1>4 DEF CancelledCallEnds, poolVars
  <2>2. CASE /\ phase[t] = "cursor" /\ stage' = [stage EXCEPT ![t] = "undoing"] /\ Unaffected
             /\ UNCHANGED <<registry, stack, phase, call, session, returned, outcome>>
    <3>1. /\ stage' \in [Tasks -> {"wait", "running", "undoing"}] /\ phase[t] = "cursor"
          /\ \A u \in Tasks \ {t} : stage'[u] = stage[u]
      BY <1>1, <2>2 DEF TypeInv
    <3>2. UNCHANGED dataVars
      BY <2>2 DEF Unaffected
    <3>3. QED
      BY <1>1, <2>1, <2>2, <3>1, <3>2, RestKind
  <2>3. CASE phase[t] # "cursor" /\ Executable(t, phase[t], On(t)) /\ Effect(t, phase[t], On(t))
             /\ Raised(t, "cut")
    BY <2>1, <2>3, EndedKind DEF Done
  <2>4. CASE Unaffected /\ Raised(t, "failed")
    BY <2>1, <2>4, EndedKind
  <2>5. QED
    BY <1>4, <2>2, <2>3, <2>4 DEF CancelledCallEnds
<1>5. ASSUME NEW t \in Tasks, UndoEnds(t)
      PROVE  \E x \in Adapters : Step(t, x)
  <2>1. /\ InCall(t) /\ uses' = uses /\ free' = free /\ Unaffected /\ Raised(t, "failed")
        /\ stage[t] = "undoing"
    BY <1>5 DEF UndoEnds, poolVars, Unaffected
  <2>2. QED
    BY <2>1, EndedKind
<1>6. ASSUME NEW t \in Tasks, CancelWaiting(t)
      PROVE  FALSE
  <2>1. InCall(t) /\ stage[t] = "wait" /\ lock[On(t)] # Nobody
    BY <1>6 DEF CancelWaiting
  <2>2. QED
    BY <1>1, <2>1, NobodyWaits
<1>7. ASSUME NEW t \in Tasks, CancelRunning(t)
      PROVE  \E x \in Adapters : Step(t, x)
  <2>1. /\ InCall(t) /\ stage' = stage
        /\ UNCHANGED <<uses, free, registry, stack, phase, call, session, dataVars, returned, outcome>>
    BY <1>7 DEF CancelRunning, poolVars
  <2>2. stage' \in [Tasks -> {"wait", "running", "undoing"}]
    BY <1>1, <2>1 DEF TypeInv
  <2>3. QED
    BY <1>1, <2>1, <2>2, RestKind
<1>8. ASSUME NEW t \in Tasks, GiveBack(t)
      PROVE  \E x \in Adapters : Step(t, x)
  BY <1>1, <1>8, GiveBackKind
<1>9. ASSUME NEW t \in Tasks, Code(t)
      PROVE  \E x \in Adapters : Step(t, x)
  BY <1>1, <1>9, TransactionKind, RunKind, BodyKind DEF Code
<1>10. QED
  BY <1>2, <1>3, <1>4, <1>5, <1>6, <1>7, <1>8, <1>9 DEF Next, Await, Cancel

-----------------------------------------------------------------------------
(* What a call does to the database *)

LEMMA LatestIsLast == \A a, d : Latest(a, d) = LastIn(pending[a].savepoints, d)
                                /\ SavepointsNamed(a, d) = NamedIn(pending[a].savepoints, d)
  BY DEF Latest, LastIn, SavepointsNamed, NamedIn

LEMMA SessionTypes ==
    ASSUME DataTypes, NEW x \in Adapters
    PROVE  /\ pending[x] \in Sessions /\ pending[x].writes \subseteq Writes
           /\ pending[x].savepoints \in Seq(Marks)
  BY DEF DataTypes, Sessions

\* The database step of a call that ran, for the session s it leaves.
Becomes(x, s) == pending' = [pending EXCEPT ![x] = s]

LEMMA IdleSession == Idle \in Sessions /\ Idle.writes = {} /\ Idle.savepoints = <<>>
<1>1. <<>> \in Seq(Marks)
  BY EmptySeq
<1>2. QED
  BY <1>1 DEF Idle, Sessions

LEMMA MarkSet ==
    ASSUME DataTypes, NEW t \in Tasks, NEW x \in Adapters, phase[t] = "savepoint", Done(t, x),
           call[t].n \in Int
    PROVE  /\ \E s \in Sessions :
                /\ Becomes(x, s) /\ s.writes = pending[x].writes
                /\ s.savepoints = Append(pending[x].savepoints,
                                         Savepoint(call[t].n, pending[x].writes))
           /\ Savepoint(call[t].n, pending[x].writes) \in Marks
           /\ UNCHANGED <<inBlock, executed, committed>>
<1>1. /\ pending' = [pending EXCEPT ![x].savepoints =
                       Append(@, Savepoint(call[t].n, pending[x].writes))]
      /\ UNCHANGED <<inBlock, executed, committed>>
  BY DEF Done, Effect
<1>2. pending[x] \in Sessions
  BY SessionTypes
<1>3. PICK m \in Marks : m = Savepoint(call[t].n, pending[x].writes)
  BY SessionTypes DEF Savepoint, Marks
<1>4. PICK r \in Seq(Marks) : r = Append(pending[x].savepoints, m)
  BY SessionTypes, AppendProperties
<1>5. PICK s : s = [pending[x] EXCEPT !.savepoints = r]
  OBVIOUS
<1>6. s \in Sessions /\ s.writes = pending[x].writes /\ s.savepoints = r
  BY <1>2, <1>4, <1>5 DEF Sessions
<1>7. pending' = [pending EXCEPT ![x] = s]
  BY <1>1, <1>3, <1>4, <1>5
<1>8. QED
  BY <1>1, <1>3, <1>4, <1>6, <1>7 DEF Becomes

LEMMA MarkDropped ==
    ASSUME DataTypes, NEW t \in Tasks, NEW x \in Adapters, phase[t] \in {"release", "drop"}, Done(t, x),
           NEW d \in Nat, d = Top(t).level, d > 0, MarkedUpTo(pending[x].savepoints, d)
    PROVE  /\ \E s \in Sessions :
                /\ Becomes(x, s) /\ s.writes = pending[x].writes
                /\ s.savepoints = SubSeq(pending[x].savepoints, 1, LastIn(pending[x].savepoints, d) - 1)
           /\ UNCHANGED <<inBlock, executed, committed>>
<1>1. /\ pending' = [pending EXCEPT ![x].savepoints = SubSeq(@, 1, Latest(x, Top(t).level) - 1)]
      /\ UNCHANGED <<inBlock, executed, committed>>
  BY DEF Done, Effect
<1>2. pending[x] \in Sessions /\ pending[x].savepoints \in Seq(Marks)
  BY SessionTypes
<1>3. PICK r \in Seq(Marks) :
         r = SubSeq(pending[x].savepoints, 1, LastIn(pending[x].savepoints, d) - 1)
  BY <1>2, MarkReleased
<1>4. r = SubSeq(pending[x].savepoints, 1, Latest(x, Top(t).level) - 1)
  BY <1>3, LatestIsLast
<1>5. PICK s : s = [pending[x] EXCEPT !.savepoints = r]
  OBVIOUS
<1>6. s \in Sessions /\ s.writes = pending[x].writes /\ s.savepoints = r
  BY <1>2, <1>3, <1>5 DEF Sessions
<1>7. pending' = [pending EXCEPT ![x] = s]
  BY <1>1, <1>4, <1>5
<1>8. QED
  BY <1>1, <1>3, <1>6, <1>7 DEF Becomes

LEMMA MarkTaken ==
    ASSUME DataTypes, NEW t \in Tasks, NEW x \in Adapters, phase[t] = "undo", Done(t, x),
           NEW d \in Nat, d = Top(t).level, d > 0, MarkedUpTo(pending[x].savepoints, d)
    PROVE  /\ \E s \in Sessions :
                /\ Becomes(x, s) /\ s.writes = MarkIn(pending[x].savepoints, d)
                /\ s.savepoints = SubSeq(pending[x].savepoints, 1, LastIn(pending[x].savepoints, d))
           /\ UNCHANGED <<inBlock, executed, committed>>
<1>1. pending[x] \in Sessions /\ pending[x].savepoints \in Seq(Marks)
  BY SessionTypes
<1>2. PICK w, r :
         /\ w = pending[x].savepoints[Latest(x, Top(t).level)].writes
         /\ r = SubSeq(pending[x].savepoints, 1, Latest(x, Top(t).level))
  OBVIOUS
<1>3. /\ w = MarkIn(pending[x].savepoints, d)
      /\ r = SubSeq(pending[x].savepoints, 1, LastIn(pending[x].savepoints, d))
  BY <1>2, LatestIsLast DEF MarkIn
<1>4. w \subseteq Writes /\ r \in Seq(Marks)
  BY <1>1, <1>3, MarkUndone
<1>5. PICK s \in Sessions : s = [writes |-> w, savepoints |-> r]
  BY <1>4 DEF Sessions
<1>6. Becomes(x, s) /\ UNCHANGED <<inBlock, executed, committed>>
  <2>1. pending' = [pending EXCEPT ![x] = [writes |-> w, savepoints |-> r]]
        /\ UNCHANGED <<inBlock, executed, committed>>
    BY <1>2 DEF Done, Effect
  <2>2. QED
    BY <1>5, <2>1 DEF Becomes
<1>7. s.writes = w /\ s.savepoints = r
  BY <1>5
<1>8. QED
  BY <1>3, <1>6, <1>7

LEMMA WriteTyped ==
    ASSUME TypeInv, NEW t \in Tasks, NEW x
    PROVE  Write(Cardinality(executed) + 1, BlocksOn(t, x)) \in Writes
<1>1. Cardinality(executed) + 1 \in Nat
  <2>1. Cardinality(executed) \in Nat
    BY FS_CardinalityType DEF TypeInv
  <2>2. QED
    BY <2>1
<1>2. BlocksOn(t, x) \subseteq Blocks
  BY FramesTyped DEF BlocksOn, Frames
<1>3. QED
  BY <1>1, <1>2 DEF Write, Writes

LEMMA WriteDone ==
    ASSUME TypeInv, DataTypes, NEW t \in Tasks, NEW x \in Adapters, phase[t] = "write", Done(t, x)
    PROVE  \E w \in Writes :
             /\ w = Write(Cardinality(executed) + 1, BlocksOn(t, x))
             /\ executed' = executed \cup {w} /\ inBlock' = inBlock
             /\ IF Held(x)
                THEN committed' = committed
                     /\ \E s \in Sessions : /\ Becomes(x, s) /\ s.writes = pending[x].writes \cup {w}
                                            /\ s.savepoints = pending[x].savepoints
                ELSE committed' = committed \cup {w} /\ pending' = pending
<1>1. PICK w \in Writes : w = Write(Cardinality(executed) + 1, BlocksOn(t, x))
  BY WriteTyped
<1>2. /\ executed' = executed \cup {w} /\ inBlock' = inBlock
      /\ IF Held(x)
         THEN pending' = [pending EXCEPT ![x].writes = @ \cup {w}] /\ committed' = committed
         ELSE committed' = committed \cup {w} /\ pending' = pending
  BY <1>1 DEF Done, Effect
<1>3. PICK s : s = [pending[x] EXCEPT !.writes = pending[x].writes \cup {w}]
  OBVIOUS
<1>4. s \in Sessions /\ s.writes = pending[x].writes \cup {w} /\ s.savepoints = pending[x].savepoints
  <2>1. pending[x] \in Sessions
    BY SessionTypes
  <2>2. QED
    BY <1>1, <1>3, <2>1 DEF Sessions
<1>5. Held(x) => Becomes(x, s)
  BY <1>2, <1>3 DEF Becomes
<1>6. QED
  BY <1>1, <1>2, <1>4, <1>5

LEMMA DoneOtherwise ==
    ASSUME NEW t, NEW x, Done(t, x), phase[t] \in Calls
    PROVE  /\ phase[t] = "begin" => inBlock' = [inBlock EXCEPT ![x] = TRUE]
                                    /\ UNCHANGED <<pending, executed, committed>>
           /\ phase[t] = "cursor" => Unaffected
           /\ phase[t] \in {"commit write", "undo write"} /\ Control[x] # "driver" => Unaffected
           /\ phase[t] = "commit write" /\ Control[x] = "driver" => Committed(x)
           /\ phase[t] = "undo write" /\ Control[x] = "driver" => RolledBack(x)
           /\ phase[t] = "commit" => Committed(x)
           /\ phase[t] = "rollback" => RolledBack(x)
           /\ phase[t] = "close" => RolledBack(x) \/ Unaffected
  BY DEF Done, Effect

\* A database step of adapter x.
DataStep(x) ==
    /\ pending' \in [Adapters -> Sessions] /\ inBlock' \in [Adapters -> BOOLEAN]
    /\ executed' \subseteq Writes /\ committed' \subseteq Writes
    /\ \A a \in Adapters \ {x} : pending'[a] = pending[a] /\ inBlock'[a] = inBlock[a]

LEMMA BecomesStep ==
    ASSUME DataTypes, NEW x \in Adapters, NEW s \in Sessions, Becomes(x, s),
           inBlock' \in [Adapters -> BOOLEAN], executed' \subseteq Writes, committed' \subseteq Writes,
           \A a \in Adapters \ {x} : inBlock'[a] = inBlock[a]
    PROVE  DataStep(x) /\ pending'[x] = s
  BY DEF DataTypes, Becomes, DataStep

LEMMA EndedStep ==
    ASSUME DataTypes, NEW x \in Adapters, Committed(x) \/ RolledBack(x)
    PROVE  /\ DataStep(x) /\ pending'[x] = Idle /\ executed' = executed
           /\ Committed(x) => committed' = committed \cup pending[x].writes
           /\ RolledBack(x) => committed' = committed
<1>1. /\ pending' = [pending EXCEPT ![x] = Idle] /\ inBlock' = [inBlock EXCEPT ![x] = FALSE]
      /\ executed' = executed
  BY DEF Committed, RolledBack, Ended
<1>2. /\ Committed(x) => committed' = committed \cup pending[x].writes
      /\ RolledBack(x) => committed' = committed
  BY DEF Committed, RolledBack
<1>3. committed' \subseteq Writes
  BY <1>2, SessionTypes DEF DataTypes
<1>4. Idle \in Sessions
  BY IdleSession
<1>5. pending' \in [Adapters -> Sessions] /\ pending'[x] = Idle
      /\ \A a \in Adapters \ {x} : pending'[a] = pending[a]
  <2> HIDE DEF Idle
  <2>1. QED
    BY <1>1, <1>4 DEF DataTypes
<1>6. inBlock' \in [Adapters -> BOOLEAN] /\ \A a \in Adapters \ {x} : inBlock'[a] = inBlock[a]
  BY <1>1 DEF DataTypes
<1>7. QED
  BY <1>1, <1>2, <1>3, <1>5, <1>6 DEF DataStep, DataTypes

LEMMA UnaffectedStep ==
    ASSUME DataTypes, NEW x, Unaffected
    PROVE  DataStep(x) /\ pending' = pending /\ executed' = executed /\ committed' = committed
           /\ inBlock' = inBlock
  BY DEF DataTypes, Unaffected, dataVars, DataStep

LEMMA DoneStep ==
    ASSUME LockInv, DataTypes, BlocksInv, NEW t \in Tasks, NEW x \in Adapters, InCall(t), On(t) = x,
           Done(t, x)
    PROVE  DataStep(x)
<1>1. TypeInv /\ call[t].n \in Int /\ StacksInv /\ SessionsInv /\ PhasesInv /\ SavepointsInv
  BY DEF LockInv, TypeInv, CallTypes, BlocksInv
<1>2. executed \subseteq Writes /\ committed \subseteq Writes /\ inBlock \in [Adapters -> BOOLEAN]
      /\ pending \in [Adapters -> Sessions]
  BY DEF DataTypes
<1>3. CASE phase[t] = "begin"
  <2>1. inBlock' = [inBlock EXCEPT ![x] = TRUE] /\ UNCHANGED <<pending, executed, committed>>
    BY <1>3, DoneOtherwise DEF InCall
  <2>2. QED
    BY <1>2, <2>1 DEF DataStep
<1>4. CASE phase[t] = "write"
  <2>1. PICK w \in Writes :
           /\ executed' = executed \cup {w} /\ inBlock' = inBlock
           /\ IF Held(x) THEN committed' = committed /\ \E s \in Sessions : Becomes(x, s)
              ELSE committed' = committed \cup {w} /\ pending' = pending
    BY <1>1, <1>4, WriteDone
  <2>2. executed' \subseteq Writes /\ committed' \subseteq Writes
    BY <1>2, <2>1
  <2>3. CASE Held(x)
    <3>1. PICK s \in Sessions : Becomes(x, s)
      BY <2>1, <2>3
    <3>2. QED
      BY <1>2, <2>1, <2>2, <3>1, BecomesStep
  <2>4. CASE ~Held(x)
    BY <1>2, <2>1, <2>2, <2>4 DEF DataStep
  <2>5. QED
    BY <2>3, <2>4
<1>5. CASE phase[t] = "savepoint"
  <2>1. PICK s \in Sessions : Becomes(x, s)
    BY <1>1, <1>5, MarkSet
  <2>2. UNCHANGED <<inBlock, executed, committed>>
    BY <1>1, <1>5, MarkSet
  <2>3. QED
    BY <1>2, <2>1, <2>2, BecomesStep
<1>6. CASE phase[t] \in {"release", "undo", "drop"}
  <2>1. stack[t] # <<>> /\ Top(t).adapter = x /\ Top(t) \in FramesOn(t, x) /\ phase[t] \in BlockCalls
    BY <1>1, <1>6, BusyIsOnIt, Kinds
  <2>2. PICK d \in Nat : d = Top(t).level /\ d = Depth(t, x)
    BY <1>1, <2>1, TopLevel
  <2>3. d > 0
    BY <1>1, <1>6, <2>1, <2>2 DEF PhasesInv
  <2>4. MarkedUpTo(pending[x].savepoints, d)
    BY <1>1, <2>1, <2>2 DEF SavepointsInv
  <2>5. \E s \in Sessions : Becomes(x, s)
    BY <1>6, <2>2, <2>3, <2>4, MarkDropped, MarkTaken
  <2>6. UNCHANGED <<inBlock, executed, committed>>
    BY <1>6, <2>2, <2>3, <2>4, MarkDropped, MarkTaken
  <2>7. QED
    BY <1>2, <2>5, <2>6, BecomesStep
<1>7. CASE phase[t] \in {"cursor", "commit write", "undo write", "commit", "rollback", "close"}
  <2>1. Unaffected \/ Committed(x) \/ RolledBack(x)
    BY <1>7, DoneOtherwise DEF InCall
  <2>2. QED
    BY <2>1, EndedStep, UnaffectedStep
<1>8. QED
  BY <1>3, <1>4, <1>5, <1>6, <1>7, Kinds DEF InCall

-----------------------------------------------------------------------------
(* What a step changes, and for whom *)

LEMMA OthersView ==
    ASSUME NEW t \in Tasks, Moves(t), NEW u \in Tasks, u # t
    PROVE  /\ phase'[u] = phase[u] /\ stage'[u] = stage[u] /\ stack'[u] = stack[u]
           /\ call'[u] = call[u] /\ Top(u)' = Top(u) /\ On(u)' = On(u)
           /\ \A a : FramesOn(u, a)' = FramesOn(u, a) /\ BlocksOn(u, a)' = BlocksOn(u, a)
           /\ \A p, a : In(u, p, a)' <=> In(u, p, a)
<1>1. /\ phase'[u] = phase[u] /\ stage'[u] = stage[u] /\ stack'[u] = stack[u]
      /\ call'[u] = call[u]
  BY DEF Moves
<1>2. Top(u)' = Top(u) /\ On(u)' = On(u)
  BY <1>1 DEF Top, On
<1>3. \A a : FramesOn(u, a)' = FramesOn(u, a)
  BY <1>1 DEF FramesOn
<1>4. \A a : BlocksOn(u, a)' = BlocksOn(u, a)
  BY <1>3 DEF BlocksOn
<1>5. QED
  BY <1>1, <1>2, <1>3, <1>4 DEF In

LEMMA SameStackView ==
    ASSUME NEW t, stack' = stack
    PROVE  /\ Top(t)' = Top(t)
           /\ \A a : FramesOn(t, a)' = FramesOn(t, a) /\ BlocksOn(t, a)' = BlocksOn(t, a)
<1>1. \A a : FramesOn(t, a)' = FramesOn(t, a)
  BY DEF FramesOn
<1>2. QED
  BY <1>1 DEF Top, BlocksOn

LEMMA BlockIsOpened ==
    ASSUME TypeInv, StacksInv, NEW u \in Tasks, NEW g \in ToSet(stack[u])
    PROVE  /\ outcome[g.block] # "unused" /\ g \in Frames
           /\ g # Top(u) => outcome[g.block] = "open"
           /\ g = Top(u) => outcome[g.block] \in Endings(phase[u])
<1>1. g \in Frames
  BY FramesTyped
<1>2. outcome[g.block] \in IF g = Top(u) THEN Endings(phase[u]) ELSE {"open"}
  BY DEF StacksInv
<1>3. QED
  BY <1>1, <1>2 DEF Endings

LEMMA PushView ==
    ASSUME TypeInv, StacksInv, NEW t \in Tasks, NEW f \in Frames, outcome[f.block] = "unused",
           \A g \in FramesOn(t, f.adapter) : g.level < f.level,
           stack' = [stack EXCEPT ![t] = Append(stack[t], f)]
    PROVE  /\ Stacked(stack'[t]) /\ ToSet(stack'[t]) = ToSet(stack[t]) \cup {f}
           /\ f \notin ToSet(stack[t]) /\ Top(t)' = f /\ stack'[t] # <<>>
           /\ FramesOn(t, f.adapter)' = FramesOn(t, f.adapter) \cup {f}
           /\ \A a : a # f.adapter => FramesOn(t, a)' = FramesOn(t, a)
           /\ \A u \in Tasks : \A g \in ToSet(stack[u]) : g.block # f.block
<1>1. stack[t] \in Seq(Frames) /\ Stacked(stack[t]) /\ stack'[t] = Append(stack[t], f)
  BY DEF TypeInv, StacksInv
<1>2. \A u \in Tasks : \A g \in ToSet(stack[u]) : g.block # f.block
  <2>1. ASSUME NEW u \in Tasks, NEW g \in ToSet(stack[u])
        PROVE  g.block # f.block
    BY BlockIsOpened
  <2>2. QED
    BY <2>1
<1>3. \A g \in ToSet(stack[t]) : g.block # f.block /\ (g.adapter = f.adapter => g.level < f.level)
  BY <1>2 DEF FramesOn
<1>4. /\ Stacked(Append(stack[t], f)) /\ ToSet(Append(stack[t], f)) = ToSet(stack[t]) \cup {f}
      /\ Append(stack[t], f)[Len(Append(stack[t], f))] = f
      /\ f \notin ToSet(stack[t])
  BY <1>1, <1>3, StackedAppend
<1>5. Append(stack[t], f) # <<>>
  BY <1>1, AppendProperties
<1>6. Top(t)' = f
  BY <1>1, <1>4 DEF Top
<1>7. /\ FramesOn(t, f.adapter)' = FramesOn(t, f.adapter) \cup {f}
      /\ \A a : a # f.adapter => FramesOn(t, a)' = FramesOn(t, a)
  BY <1>1, <1>4 DEF FramesOn
<1>8. QED
  BY <1>1, <1>2, <1>4, <1>5, <1>6, <1>7

LEMMA PopView ==
    ASSUME TypeInv, StacksInv, NEW t \in Tasks, stack[t] # <<>>,
           stack' = [stack EXCEPT ![t] = Pop(t)]
    PROVE  /\ Stacked(stack'[t]) /\ ToSet(stack'[t]) = ToSet(stack[t]) \ {Top(t)}
           /\ \A a : a # Top(t).adapter => FramesOn(t, a)' = FramesOn(t, a)
<1>1. stack[t] \in Seq(Frames) /\ Stacked(stack[t]) /\ stack'[t] = Pop(t)
  BY DEF TypeInv, StacksInv
<1>2. Stacked(stack'[t]) /\ ToSet(stack'[t]) = ToSet(stack[t]) \ {Top(t)}
  BY <1>1, StackedPop DEF Pop, Top
<1>3. \A a : a # Top(t).adapter => FramesOn(t, a)' = FramesOn(t, a)
  BY <1>2 DEF FramesOn
<1>4. QED
  BY <1>2, <1>3

LEMMA PoppedFrames ==
    ASSUME TypeInv, StacksInv, NEW t \in Tasks, stack[t] # <<>>,
           stack' = [stack EXCEPT ![t] = Pop(t)], NEW x, x = Top(t).adapter
    PROVE  FramesOn(t, x)' = FramesOn(t, x) \ {Top(t)}
<1>1. ToSet(stack'[t]) = ToSet(stack[t]) \ {Top(t)}
  BY PopView
<1>2. QED
  BY <1>1 DEF FramesOn

\* The frame that a step pushes.
LEMMA PushedDeepest ==
    ASSUME Inv, NEW t \in Tasks, NEW x \in Adapters,
           OpensBlock(t, x) \/ OpensNested(t, x)
    PROVE  \E f \in Frames :
             /\ outcome[f.block] = "unused" /\ outcome' = [outcome EXCEPT ![f.block] = "open"]
             /\ f.adapter = x /\ f.pool = call[t].pool
             /\ OpensBlock(t, x) => f.level = 0 /\ f.opened /\ FramesOn(t, x) = {}
             /\ OpensNested(t, x) => /\ f.level = call[t].n /\ call[t].n = registry[x]
                                     /\ f.level = Depth(t, x) + 1 /\ Depth(t, x) \in Nat
             /\ \A g \in FramesOn(t, x) : g.level \in 0..Depth(t, x) /\ g.level < f.level
             /\ stack' = [stack EXCEPT ![t] = Append(stack[t], f)]
<1>1. TypeInv /\ StacksInv /\ Nested(t, x)
  BY DEF Inv, LockInv, BlocksInv, SessionsInv
<1>2. CASE OpensBlock(t, x)
  <2>1. PICK f \in Frames :
           /\ outcome[f.block] = "unused" /\ outcome' = [outcome EXCEPT ![f.block] = "open"]
           /\ f.adapter = x /\ f.level = 0 /\ f.opened /\ f.pool = call[t].pool
           /\ stack' = [stack EXCEPT ![t] = Append(stack[t], f)]
    BY <1>2 DEF OpensBlock, Pushes
  <2>2. FramesOn(t, x) = {}
    BY <1>1, <1>2 DEF OpensBlock, Nested, In
  <2>3. ~OpensNested(t, x)
    BY <1>2 DEF OpensBlock, OpensNested
  <2>4. QED
    BY <2>1, <2>2, <2>3
<1>3. CASE OpensNested(t, x)
  <2>1. PICK f \in Frames :
           /\ outcome[f.block] = "unused" /\ outcome' = [outcome EXCEPT ![f.block] = "open"]
           /\ f.adapter = x /\ f.level = call[t].n /\ f.pool = call[t].pool
           /\ stack' = [stack EXCEPT ![t] = Append(stack[t], f)]
    BY <1>3 DEF OpensNested, Pushes
  <2>2. In(t, {"savepoint"}, x) /\ ~In(t, {"close"}, x)
    BY <1>3 DEF OpensNested, In
  <2>3. FramesOn(t, x) # {} /\ call[t].n = registry[x]
    BY <1>1, <2>2 DEF Nested
  <2>4. Depth(t, x) = registry[x] - 1 /\ Depth(t, x) \in Nat
        /\ {g.level : g \in FramesOn(t, x)} = 0..Depth(t, x)
    BY <1>1, <2>2, <2>3 DEF Nested, Depth
  <2>5. registry[x] \in Int
    BY <1>1 DEF TypeInv
  <2>6. PICK d \in Nat : d = Depth(t, x) /\ registry[x] = d + 1
    BY <2>4, <2>5
  <2>7. \A g \in FramesOn(t, x) : g.level \in 0..d
    BY <2>4, <2>6
  <2>8. \A l \in 0..d : l < d + 1
    OBVIOUS
  <2>9. ~OpensBlock(t, x)
    BY <1>3 DEF OpensBlock, OpensNested
  <2>10. QED
    BY <2>1, <2>3, <2>6, <2>7, <2>8, <2>9
<1>4. QED
  BY <1>2, <1>3

LEMMA StackChange ==
    ASSUME Inv, NEW t \in Tasks, NEW x \in Adapters, Step(t, x)
    PROVE  \/ stack' = stack
           \/ (OpensBlock(t, x) \/ OpensNested(t, x)) /\ Kind(t, x)
           \/ (PopsNested(t, x) \/ PopsBlock(t, x)) /\ Kind(t, x)
  BY DEF Step, Kind, Rests, Starts, EndsBody, Proceeds, EndsBlock, Leaves, GivesBack

\* A step concerns one adapter, and nobody else is on it.
Focus(t, x) ==
    /\ Moves(t)
    /\ \A a \in Adapters \ {x} :
          /\ registry'[a] = registry[a] /\ session'[a] = session[a]
          /\ FramesOn(t, a)' = FramesOn(t, a)
    /\ phase[t] # "user" => On(t) = x
    /\ phase'[t] # "user" => On(t)' = x
    /\ \A u \in Tasks \ {t} : ~OnIt(u, x)
    /\ DataStep(x)

LEMMA StepFrames ==
    ASSUME Inv, NEW t \in Tasks, NEW x \in Adapters, Step(t, x)
    PROVE  /\ \A a \in Adapters \ {x} : FramesOn(t, a)' = FramesOn(t, a)
           /\ phase'[t] # "user" => On(t)' = x
<1>1. TypeInv /\ StacksInv /\ PhasesInv /\ LockInv
  BY DEF Inv, LockInv, BlocksInv
<1>2. CASE stack' = stack
  <2>1. Top(t)' = Top(t) /\ \A a : FramesOn(t, a)' = FramesOn(t, a)
    BY <1>2, SameStackView
  <2>2. ASSUME phase'[t] # "user"
        PROVE  On(t)' = x
    <3>1. CASE Rests(t, x)
      BY <2>1, <3>1 DEF Rests, On
    <3>2. CASE Starts(t, x)
      BY <3>2, Kinds DEF Starts, On
    <3>3. CASE EndsBody(t, x)
      BY <2>1, <3>3, Kinds DEF EndsBody, On
    <3>4. CASE Proceeds(t, x)
      <4>1. CASE phase[t] \in BlockCalls
        <5>1. phase'[t] \in BlockCalls
          BY <2>2, <3>4, <4>1, Kinds DEF Proceeds
        <5>2. QED
          BY <2>1, <3>4, <4>1, <5>1 DEF Proceeds, On
      <4>2. CASE phase[t] \notin BlockCalls
        <5>1. phase'[t] \notin BlockCalls /\ call'[t].adapter = call[t].adapter
          BY <3>4, <4>2, Kinds DEF Proceeds
        <5>2. QED
          BY <3>4, <4>2, <5>1 DEF Proceeds, On
      <4>3. QED
        BY <4>1, <4>2
    <3>5. CASE EndsBlock(t, x)
      BY <2>1, <3>5, Kinds DEF EndsBlock, On
    <3>6. CASE Leaves(t, x)
      BY <2>2, <3>6, Kinds DEF Leaves, Left, On
    <3>7. CASE GivesBack(t, x)
      BY <2>2, <3>7 DEF GivesBack
    <3>8. CASE OpensBlock(t, x) \/ OpensNested(t, x)
      <4>1. PICK f \in Frames : /\ f.adapter = x /\ outcome[f.block] = "unused"
                                /\ \A g \in FramesOn(t, x) : g.level < f.level
                                /\ stack' = [stack EXCEPT ![t] = Append(stack[t], f)]
        BY <3>8, PushedDeepest
      <4>2. Top(t)' = f
        BY <1>1, <4>1, PushView
      <4>3. phase'[t] = "begin"
        BY <2>2, <3>8 DEF OpensBlock, OpensNested
      <4>4. QED
        BY <4>1, <4>2, <4>3, Kinds DEF On
    <3>9. CASE PopsNested(t, x) \/ PopsBlock(t, x)
      BY <2>2, <3>9, Kinds DEF PopsNested, PopsBlock, Left, On
    <3>10. QED
      BY <3>1, <3>2, <3>3, <3>4, <3>5, <3>6, <3>7, <3>8, <3>9 DEF Step, Kind
  <2>3. QED
    BY <2>1, <2>2
<1>3. CASE OpensBlock(t, x) \/ OpensNested(t, x)
  <2>1. PICK f \in Frames : /\ f.adapter = x /\ outcome[f.block] = "unused"
                            /\ \A g \in FramesOn(t, x) : g.level < f.level
                            /\ stack' = [stack EXCEPT ![t] = Append(stack[t], f)]
    BY <1>3, PushedDeepest
  <2>2. Top(t)' = f /\ \A a : a # x => FramesOn(t, a)' = FramesOn(t, a)
    BY <1>1, <2>1, PushView
  <2>3. phase'[t] # "user" => phase'[t] = "begin"
    BY <1>3 DEF OpensBlock, OpensNested
  <2>4. phase'[t] # "user" => On(t)' = x
    BY <2>1, <2>2, <2>3, Kinds DEF On
  <2>5. QED
    BY <2>2, <2>4
<1>4. CASE PopsNested(t, x) \/ PopsBlock(t, x)
  <2>1. phase[t] \in BlockCalls /\ On(t) = x /\ stack' = [stack EXCEPT ![t] = Pop(t)]
    BY <1>4, Kinds DEF PopsNested, PopsBlock
  <2>2. stack[t] # <<>> /\ Top(t).adapter = x
    BY <1>1, <2>1, BusyIsOnIt, Kinds
  <2>3. \A a : a # x => FramesOn(t, a)' = FramesOn(t, a)
    BY <1>1, <2>1, <2>2, PopView
  <2>4. phase'[t] # "user" => On(t)' = x
    BY <1>4, Kinds DEF PopsNested, PopsBlock, Left, On
  <2>5. QED
    BY <2>3, <2>4
<1>5. QED
  BY <1>2, <1>3, <1>4, StackChange

LEMMA StepFocus ==
    ASSUME Inv, Private, NEW t \in Tasks, NEW x \in Adapters, Step(t, x)
    PROVE  Focus(t, x)
<1>1. /\ TypeInv /\ StacksInv /\ PhasesInv /\ LockInv /\ DataTypes /\ BlocksInv /\ Custody
      /\ Moves(t)
  BY DEF Inv, LockInv, BlocksInv, Step
<1>2. \A a \in Adapters \ {x} : registry'[a] = registry[a]
  <2>1. registry' = registry \/ \E n : registry' = [registry EXCEPT ![x] = n]
    BY DEF Step, Kind, Rests, Starts, EndsBody, Proceeds, OpensBlock, OpensNested, EndsBlock,
           PopsNested, PopsBlock, Leaves, GivesBack
  <2>2. QED
    BY <1>1, <2>1 DEF TypeInv
<1>3. \A a \in Adapters \ {x} : session'[a] = session[a]
  <2>1. session' = session \/ \E n : session' = [session EXCEPT ![x] = n]
    BY DEF Step, Kind, Rests, Starts, EndsBody, Proceeds, OpensBlock, OpensNested, EndsBlock,
           PopsNested, PopsBlock, Leaves, GivesBack
  <2>2. QED
    BY <1>1, <2>1 DEF DataTypes
<1>4. phase[t] # "user" => On(t) = x
  BY DEF Step, Kind, Rests, Starts, EndsBody, Proceeds, OpensBlock, OpensNested, EndsBlock,
         PopsNested, PopsBlock, Leaves, GivesBack
<1>5. ASSUME NEW u \in Tasks \ {t}
      PROVE  ~OnIt(u, x)
  <2>1. OnIt(t, x) \/ x \in Named(t) \/ \E q \in Pools : x \in free[q]
    <3>1. CASE phase[t] # "user"
      BY <1>1, <1>4, <3>1, BusyIsOnIt
    <3>2. CASE Starts(t, x)
      BY <3>2 DEF Starts, Taken, OnIt
    <3>3. CASE EndsBody(t, x)
      BY <1>1, <3>3, TopIsDeepest DEF EndsBody, OnIt
    <3>4. phase[t] = "user" => Starts(t, x) \/ EndsBody(t, x)
      BY Kinds DEF Step, Kind, Rests, InCall, Proceeds, OpensBlock, OpensNested, EndsBlock,
         PopsNested, PopsBlock, Leaves, GivesBack
    <3>5. QED
      BY <3>1, <3>2, <3>3, <3>4
  <2>2. QED
    BY <1>1, <2>1, TakenIsFree
<1>6. DataStep(x)
  <2>1. \/ phase[t] \in Calls /\ On(t) = x /\ Done(t, x)
        \/ Unaffected \/ RolledBack(x)
    BY Kinds DEF Step, Kind, Rests, Starts, EndsBody, Proceeds, OpensBlock, OpensNested, EndsBlock,
       PopsNested, PopsBlock, Leaves, GivesBack, Unaffected, InCall
  <2>2. CASE phase[t] \in Calls /\ On(t) = x /\ Done(t, x)
    BY <1>1, <2>2, DoneStep DEF InCall
  <2>3. CASE Unaffected \/ RolledBack(x)
    BY <1>1, <2>3, UnaffectedStep, EndedStep
  <2>4. QED
    BY <2>1, <2>2, <2>3
<1>7. QED
  BY <1>1, <1>2, <1>3, <1>4, <1>5, <1>6, StepFrames DEF Focus

-----------------------------------------------------------------------------
(* Outcomes, stacks and phases *)

OutcomesMove(t) ==
    \A b \in Blocks :
        \/ outcome'[b] = outcome[b]
        \/ outcome[b] = "unused" /\ outcome'[b] = "open"
        \/ /\ stack[t] # <<>> /\ b = Top(t).block /\ outcome[b] = "open"
           /\ outcome'[b] \in {"ok", "failed", "cut", "kept"}
        \/ /\ stack[t] # <<>> /\ b = Top(t).block /\ outcome[b] = "failed"
           /\ phase[t] \in {"undo", "rollback"} /\ outcome'[b] \in {"kept", "stranded"}

LEMMA TopChanges ==
    ASSUME DataTypes, TypeInv, NEW t \in Tasks, stack[t] # <<>>,
           NEW how \in Outcomes,
           \/ outcome[Top(t).block] = "open" /\ how \in {"ok", "failed", "cut", "kept"}
           \/ /\ outcome[Top(t).block] = "failed" /\ phase[t] \in {"undo", "rollback"}
              /\ how \in {"kept", "stranded"},
           outcome' = [outcome EXCEPT ![Top(t).block] = how]
    PROVE  /\ OutcomesMove(t) /\ outcome' \in [Blocks -> Outcomes]
           /\ outcome'[Top(t).block] = how
<1>1. PICK b \in Blocks : b = Top(t).block
  BY TopFacts DEF Frames
<1>2. outcome' = [outcome EXCEPT ![b] = how]
  BY <1>1
<1>3. outcome' \in [Blocks -> Outcomes] /\ outcome'[b] = how
      /\ \A c \in Blocks : c # b => outcome'[c] = outcome[c]
  BY <1>2 DEF DataTypes
<1>4. QED
  BY <1>1, <1>2, <1>3 DEF OutcomesMove

LEMMA StepOutcomes ==
    ASSUME Inv, NEW t \in Tasks, NEW x \in Adapters, Step(t, x)
    PROVE  /\ OutcomesMove(t) /\ outcome' \in [Blocks -> Outcomes]
           /\ stack' = stack /\ stack[t] # <<>> => outcome'[Top(t).block] \in Endings(phase'[t])
<1>1. /\ TypeInv /\ StacksInv /\ PhasesInv /\ LockInv /\ DataTypes
      /\ outcome \in [Blocks -> Outcomes]
  BY DEF Inv, LockInv, BlocksInv, DataTypes
<1>2. stack[t] # <<>> => Top(t).block \in Blocks /\ outcome[Top(t).block] \in Endings(phase[t])
  BY <1>1, TopIsDeepest DEF StacksInv, Frames
<1>3. ASSUME outcome' = outcome
      PROVE  OutcomesMove(t) /\ outcome' \in [Blocks -> Outcomes]
  BY <1>1, <1>3 DEF OutcomesMove
<1>4. CASE Rests(t, x)
  BY <1>2, <1>3, <1>4 DEF Rests
<1>5. CASE Starts(t, x) \/ GivesBack(t, x)
  <2>1. outcome' = outcome /\ phase[t] \in {"user", "give back"}
        /\ phase'[t] \in {"savepoint", "cursor", "write", "user"}
    BY <1>5 DEF Starts, GivesBack
  <2>2. QED
    BY <1>2, <1>3, <2>1 DEF Endings
<1>6. CASE EndsBody(t, x)
  <2>1. stack[t] # <<>> /\ phase[t] = "user" /\ phase'[t] \in {"release", "undo", "commit", "rollback"}
    BY <1>6 DEF EndsBody
  <2>2. outcome[Top(t).block] = "open"
    BY <1>2, <2>1 DEF Endings
  <2>3. CASE phase'[t] \in {"undo", "rollback"}
    <3>1. outcome' = [outcome EXCEPT ![Top(t).block] = "failed"]
      BY <1>6, <2>3 DEF EndsBody
    <3>2. OutcomesMove(t) /\ outcome' \in [Blocks -> Outcomes]
          /\ outcome'[Top(t).block] = "failed"
      BY <1>1, <2>1, <2>2, <3>1, TopChanges DEF Outcomes
    <3>3. QED
      BY <2>3, <3>2 DEF Endings
  <2>4. CASE phase'[t] \in {"release", "commit"}
    <3>1. outcome' = outcome
      BY <1>6, <2>4 DEF EndsBody
    <3>2. QED
      BY <1>3, <2>2, <2>4, <3>1 DEF Endings
  <2>5. QED
    BY <2>1, <2>3, <2>4
<1>7. CASE Proceeds(t, x)
  <2>1. CASE phase[t] = "commit"
    <3>1. PICK how \in {"failed", "cut"} : outcome' = [outcome EXCEPT ![Top(t).block] = how]
      BY <1>7, <2>1 DEF Proceeds
    <3>2. stack[t] # <<>> /\ phase'[t] = "rollback"
      BY <1>1, <1>7, <2>1, BusyIsOnIt, Kinds DEF Proceeds
    <3>3. outcome[Top(t).block] = "open"
      BY <1>2, <2>1, <3>2 DEF Endings
    <3>4. OutcomesMove(t) /\ outcome' \in [Blocks -> Outcomes]
          /\ outcome'[Top(t).block] = how
      BY <1>1, <3>1, <3>2, <3>3, TopChanges DEF Outcomes
    <3>5. QED
      BY <3>2, <3>4 DEF Endings
  <2>2. CASE phase[t] # "commit"
    <3>1. /\ outcome' = outcome
          /\ \/ phase[t] = "undo" /\ phase'[t] = "drop"
             \/ /\ phase[t] \in {"begin", "write", "commit write"}
                /\ phase'[t] \in {"user", "commit write", "undo write"}
      BY <1>7, <2>2 DEF Proceeds
    <3>2. CASE phase[t] = "undo" /\ phase'[t] = "drop"
      BY <1>2, <1>3, <3>1, <3>2 DEF Endings
    <3>3. CASE /\ phase[t] \in {"begin", "write", "commit write"}
               /\ phase'[t] \in {"user", "commit write", "undo write"}
      <4>1. Endings(phase[t]) = {"open"} /\ Endings(phase'[t]) = {"open"}
        BY <3>3 DEF Endings
      <4>2. QED
        BY <1>2, <1>3, <3>1, <4>1
    <3>4. QED
      BY <3>1, <3>2, <3>3
  <2>3. QED
    BY <2>1, <2>2
<1>8. CASE OpensBlock(t, x) \/ OpensNested(t, x)
  <2>1. PICK f \in Frames : /\ outcome[f.block] = "unused"
                            /\ outcome' = [outcome EXCEPT ![f.block] = "open"]
                            /\ stack' = [stack EXCEPT ![t] = Append(stack[t], f)]
    BY <1>8, PushedDeepest
  <2>2. PICK b \in Blocks : b = f.block
    BY DEF Frames
  <2>3. OutcomesMove(t) /\ outcome' \in [Blocks -> Outcomes]
    BY <1>1, <2>1, <2>2 DEF OutcomesMove, Outcomes
  <2>4. stack' # stack
    <3>1. stack[t] \in Seq(Frames) /\ stack'[t] = Append(stack[t], f)
      BY <1>1, <2>1 DEF TypeInv
    <3>2. Len(stack'[t]) = Len(stack[t]) + 1 /\ Len(stack[t]) \in Nat
      BY <3>1, AppendProperties, LenProperties
    <3>3. QED
      BY <3>2
  <2>5. QED
    BY <2>3, <2>4
<1>9. CASE EndsBlock(t, x)
  <2>1. stack[t] # <<>> /\ phase'[t] = "close" /\ phase[t] \in {"begin", "commit", "rollback"}
    BY <1>1, <1>9, BusyIsOnIt, Kinds DEF EndsBlock
  <2>2. CASE phase[t] = "rollback"
    <3>1. outcome[Top(t).block] \in {"failed", "cut"}
      BY <1>2, <2>1, <2>2 DEF Endings
    <3>2. CASE outcome' = outcome
      BY <1>3, <2>1, <3>1, <3>2 DEF Endings
    <3>3. CASE /\ outcome[Top(t).block] = "failed"
               /\ outcome' = [outcome EXCEPT ![Top(t).block] = "stranded"]
      <4>1. OutcomesMove(t) /\ outcome' \in [Blocks -> Outcomes]
            /\ outcome'[Top(t).block] = "stranded"
        BY <1>1, <2>1, <2>2, <3>3, TopChanges DEF Outcomes
      <4>2. QED
        BY <2>1, <4>1 DEF Endings
    <3>4. QED
      BY <1>9, <2>2, <3>2, <3>3 DEF EndsBlock
  <2>3. CASE phase[t] \in {"begin", "commit"}
    <3>1. PICK how \in {"ok", "failed"} : outcome' = [outcome EXCEPT ![Top(t).block] = how]
      BY <1>9, <2>3 DEF EndsBlock
    <3>2. outcome[Top(t).block] = "open"
      BY <1>2, <2>1, <2>3 DEF Endings
    <3>3. OutcomesMove(t) /\ outcome' \in [Blocks -> Outcomes]
          /\ outcome'[Top(t).block] = how
      BY <1>1, <2>1, <3>1, <3>2, TopChanges DEF Outcomes
    <3>4. QED
      BY <2>1, <3>3 DEF Endings
  <2>4. QED
    BY <2>1, <2>2, <2>3
<1>10. CASE PopsNested(t, x) \/ PopsBlock(t, x)
  <2>1. stack[t] # <<>> /\ stack' = [stack EXCEPT ![t] = Pop(t)]
    BY <1>1, <1>10, BusyIsOnIt, Kinds DEF PopsNested, PopsBlock
  <2>2. stack' # stack
    <3>1. ToSet(stack'[t]) = ToSet(stack[t]) \ {Top(t)} /\ Top(t) \in ToSet(stack[t])
      BY <1>1, <2>1, PopView, TopIsDeepest
    <3>2. QED
      BY <3>1
  <2>3. CASE PopsBlock(t, x)
    BY <1>3, <2>2, <2>3 DEF PopsBlock
  <2>4. CASE PopsNested(t, x) /\ phase[t] = "release"
    <3>1. PICK how \in {"ok", "cut", "kept"} : outcome' = [outcome EXCEPT ![Top(t).block] = how]
      BY <2>4 DEF PopsNested
    <3>2. outcome[Top(t).block] = "open"
      BY <1>2, <2>1, <2>4 DEF Endings
    <3>3. QED
      BY <1>1, <2>1, <2>2, <3>1, <3>2, TopChanges DEF Outcomes
  <2>5. CASE PopsNested(t, x) /\ phase[t] # "release"
    <3>1. /\ phase[t] \in {"undo", "drop"}
          /\ \/ outcome' = [outcome EXCEPT ![Top(t).block] = "failed"]
             \/ phase[t] = "undo" /\ outcome' = [outcome EXCEPT ![Top(t).block] = "kept"]
      BY <2>5 DEF PopsNested
    <3>2. outcome[Top(t).block] = "failed"
      BY <1>2, <2>1, <3>1 DEF Endings
    <3>3. CASE outcome' = [outcome EXCEPT ![Top(t).block] = "failed"]
      <4>1. outcome' = outcome
        BY <1>1, <1>2, <2>1, <3>2, <3>3
      <4>2. QED
        BY <1>3, <2>2, <4>1
    <3>4. CASE phase[t] = "undo" /\ outcome' = [outcome EXCEPT ![Top(t).block] = "kept"]
      BY <1>1, <2>1, <2>2, <3>2, <3>4, TopChanges DEF Outcomes
    <3>5. QED
      BY <3>1, <3>3, <3>4
  <2>6. QED
    BY <1>10, <2>3, <2>4, <2>5
<1>11. CASE Leaves(t, x)
  <2>1. outcome' = outcome /\ phase[t] \in OwnCalls /\ phase'[t] \in {"user", "give back"}
    BY <1>11 DEF Leaves, Left
  <2>2. QED
    BY <1>2, <1>3, <2>1, Kinds DEF Endings
<1>12. QED
  BY <1>4, <1>5, <1>6, <1>7, <1>8, <1>9, <1>10, <1>11 DEF Step, Kind

\* The blocks of the other tasks, and those under the innermost, keep their outcome.
LEMMA OutcomeKept ==
    ASSUME TypeInv, StacksInv, NEW t \in Tasks, OutcomesMove(t),
           NEW u \in Tasks, NEW g \in ToSet(stack[u]), u # t \/ g # Top(t)
    PROVE  outcome'[g.block] = outcome[g.block]
<1>1. g \in Frames /\ outcome[g.block] # "unused"
  BY BlockIsOpened
<1>2. stack[t] # <<>> => g.block # Top(t).block
  BY TopIsDeepest DEF StacksInv
<1>3. QED
  BY <1>1, <1>2 DEF OutcomesMove, Frames

LEMMA OutcomeSettled ==
    ASSUME NEW t, OutcomesMove(t), NEW b \in Blocks, outcome[b] \in Keeping
    PROVE  outcome'[b] = outcome[b]
  BY DEF OutcomesMove, Keeping

LEMMA StacksKept ==
    ASSUME Inv, NEW t \in Tasks, Moves(t), OutcomesMove(t),
           Stacked(stack'[t]),
           \A f \in ToSet(stack'[t]) :
              \/ f \in ToSet(stack[t])
              \/ \A u \in Tasks : \A g \in ToSet(stack[u]) : g.block # f.block,
           \A f \in ToSet(stack'[t]) :
              outcome'[f.block] \in IF f = Top(t)' THEN Endings(phase'[t]) ELSE {"open"}
    PROVE  StacksInv'
<1>1. TypeInv /\ StacksInv
  BY DEF Inv, LockInv, BlocksInv
<1>2. ASSUME NEW u \in Tasks
      PROVE  Stacked(stack'[u])
  BY <1>1, OthersView DEF StacksInv
<1>3. ASSUME NEW u \in Tasks, NEW v \in Tasks, u # v,
             NEW f \in ToSet(stack'[u]), NEW g \in ToSet(stack'[v])
      PROVE  f.block # g.block
  <2>1. CASE u # t /\ v # t
    <3>1. stack'[u] = stack[u] /\ stack'[v] = stack[v]
      BY <2>1, OthersView
    <3>2. QED
      BY <1>1, <1>3, <3>1 DEF StacksInv
  <2>2. CASE u = t
    <3>1. stack'[v] = stack[v]
      BY <1>3, <2>2, OthersView
    <3>2. QED
      BY <1>1, <1>3, <2>2, <3>1 DEF StacksInv
  <2>3. CASE v = t
    <3>1. stack'[u] = stack[u]
      BY <1>3, <2>3, OthersView
    <3>2. QED
      BY <1>1, <1>3, <2>3, <3>1 DEF StacksInv
  <2>4. QED
    BY <2>1, <2>2, <2>3
<1>4. ASSUME NEW u \in Tasks, NEW f \in ToSet(stack'[u])
      PROVE  outcome'[f.block] \in IF f = Top(u)' THEN Endings(phase'[u]) ELSE {"open"}
  <2>1. CASE u = t
    BY <1>4, <2>1
  <2>2. CASE u # t
    <3>1. stack'[u] = stack[u] /\ Top(u)' = Top(u) /\ phase'[u] = phase[u]
      BY <2>2, OthersView
    <3>2. f \in ToSet(stack[u])
      BY <1>4, <3>1
    <3>3. outcome'[f.block] = outcome[f.block]
      BY <1>1, <2>2, <3>2, OutcomeKept
    <3>4. outcome[f.block] \in IF f = Top(u) THEN Endings(phase[u]) ELSE {"open"}
      BY <1>1, <3>2 DEF StacksInv
    <3>5. QED
      BY <3>1, <3>3, <3>4
  <2>3. QED
    BY <2>1, <2>2
<1>5. QED
  BY <1>2, <1>3, <1>4 DEF StacksInv

LEMMA StacksNext ==
    ASSUME Inv, NEW t \in Tasks, NEW x \in Adapters, Step(t, x)
    PROVE  StacksInv'
<1>1. TypeInv /\ StacksInv /\ PhasesInv /\ LockInv /\ Moves(t) /\ OutcomesMove(t)
  BY StepOutcomes DEF Inv, LockInv, BlocksInv, Step
<1>2. CASE stack' = stack
  <2>1. Top(t)' = Top(t) /\ Stacked(stack'[t])
    BY <1>1, <1>2, SameStackView DEF StacksInv
  <2>2. ASSUME NEW f \in ToSet(stack'[t])
        PROVE  outcome'[f.block] \in IF f = Top(t)' THEN Endings(phase'[t]) ELSE {"open"}
    <3>1. f \in ToSet(stack[t]) /\ stack[t] # <<>>
      BY <1>1, <1>2, <2>2, ToSetIs DEF TypeInv
    <3>2. CASE f = Top(t)
      BY <1>2, <2>1, <3>1, <3>2, StepOutcomes
    <3>3. CASE f # Top(t)
      <4>1. outcome'[f.block] = outcome[f.block] /\ outcome[f.block] = "open"
        BY <1>1, <3>1, <3>3, OutcomeKept, BlockIsOpened
      <4>2. QED
        BY <2>1, <3>3, <4>1
    <3>4. QED
      BY <3>2, <3>3
  <2>3. QED
    BY <1>1, <1>2, <2>1, <2>2, StacksKept
<1>3. CASE OpensBlock(t, x) \/ OpensNested(t, x)
  <2>1. PICK f \in Frames :
           /\ outcome[f.block] = "unused" /\ outcome' = [outcome EXCEPT ![f.block] = "open"]
           /\ f.adapter = x /\ \A g \in FramesOn(t, x) : g.level < f.level
           /\ stack' = [stack EXCEPT ![t] = Append(stack[t], f)]
    BY <1>3, PushedDeepest
  <2>2. /\ Stacked(stack'[t]) /\ ToSet(stack'[t]) = ToSet(stack[t]) \cup {f}
        /\ f \notin ToSet(stack[t]) /\ Top(t)' = f
        /\ \A u \in Tasks : \A g \in ToSet(stack[u]) : g.block # f.block
    BY <1>1, <2>1, PushView
  <2>3. phase'[t] \in {"user", "begin"} /\ phase[t] \in {"cursor", "savepoint"}
    BY <1>3 DEF OpensBlock, OpensNested
  <2>4. outcome'[f.block] = "open"
    BY <2>1 DEF Inv, DataTypes, Frames
  <2>5. ASSUME NEW g \in ToSet(stack[t])
        PROVE  outcome'[g.block] = "open"
    <3>1. outcome[g.block] = "open"
      BY <1>1, <2>3, BlockIsOpened DEF Endings
    <3>2. g.block \in Blocks /\ g.block # f.block
      BY <1>1, <2>2, FramesTyped DEF Frames
    <3>3. QED
      BY <2>1, <3>1, <3>2 DEF Inv, DataTypes
  <2>6. QED
    BY <1>1, <2>2, <2>3, <2>4, <2>5, StacksKept DEF Endings
<1>4. CASE PopsNested(t, x) \/ PopsBlock(t, x)
  <2>1. stack[t] # <<>> /\ stack' = [stack EXCEPT ![t] = Pop(t)]
    BY <1>1, <1>4, BusyIsOnIt, Kinds DEF PopsNested, PopsBlock
  <2>2. Stacked(stack'[t]) /\ ToSet(stack'[t]) = ToSet(stack[t]) \ {Top(t)}
    BY <1>1, <2>1, PopView
  <2>3. phase'[t] \in {"user", "give back"}
    BY <1>4 DEF PopsNested, PopsBlock, Left
  <2>4. ASSUME NEW f \in ToSet(stack'[t])
        PROVE  outcome'[f.block] = "open"
    <3>1. f \in ToSet(stack[t]) /\ f # Top(t)
      BY <2>2, <2>4
    <3>2. QED
      BY <1>1, <3>1, OutcomeKept, BlockIsOpened
  <2>5. QED
    BY <1>1, <2>2, <2>3, <2>4, StacksKept DEF Endings
<1>5. QED
  BY <1>2, <1>3, <1>4, StackChange

LEMMA PhasesKept ==
    ASSUME PhasesInv, NEW t \in Tasks, Moves(t),
           stage'[t] = "undoing" => phase'[t] = "cursor",
           phase'[t] \in BlockCalls => (Top(t)'.level > 0 <=> phase'[t] \in {"release", "undo", "drop"}),
           phase'[t] = "give back" => call'[t].adapter \in Adapters /\ call'[t].pool # NoPool
    PROVE  PhasesInv'
<1>1. ASSUME NEW u \in Tasks
      PROVE  /\ stage'[u] = "undoing" => phase'[u] = "cursor"
             /\ phase'[u] \in BlockCalls =>
                   (Top(u)'.level > 0 <=> phase'[u] \in {"release", "undo", "drop"})
             /\ phase'[u] = "give back" => call'[u].adapter \in Adapters /\ call'[u].pool # NoPool
  <2>1. CASE u = t
    BY <2>1
  <2>2. CASE u # t
    <3>1. /\ phase'[u] = phase[u] /\ stage'[u] = stage[u] /\ call'[u] = call[u]
          /\ Top(u)' = Top(u)
      BY <2>2, OthersView
    <3>2. QED
      BY <3>1 DEF PhasesInv
  <2>3. QED
    BY <2>1, <2>2
<1>2. QED
  BY <1>1 DEF PhasesInv

LEMMA PhasesNext ==
    ASSUME Inv, NEW t \in Tasks, NEW x \in Adapters, Step(t, x)
    PROVE  PhasesInv'
<1>1. TypeInv /\ StacksInv /\ PhasesInv /\ SessionsInv /\ LockInv /\ Moves(t)
  BY DEF Inv, LockInv, BlocksInv, Step
<1>2. CASE Rests(t, x)
  <2>1. Top(t)' = Top(t)
    BY <1>2, SameStackView DEF Rests
  <2>2. QED
    BY <1>1, <1>2, <2>1, PhasesKept DEF Rests, PhasesInv
<1>3. ASSUME stage'[t] # "undoing", phase'[t] \notin BlockCalls, phase'[t] # "give back"
      PROVE  PhasesInv'
  BY <1>1, <1>3, PhasesKept
<1>4. ASSUME stage'[t] # "undoing", NEW pool, Left(t, x, pool)
      PROVE  PhasesInv'
  BY <1>1, <1>4, PhasesKept, Kinds DEF Left
<1>5. ASSUME stage'[t] # "undoing", phase'[t] \in BlockCalls,
             stack' = stack, Top(t).level > 0 <=> phase'[t] \in {"release", "undo", "drop"}
      PROVE  PhasesInv'
  <2>1. Top(t)' = Top(t)
    BY <1>5, SameStackView
  <2>2. QED
    BY <1>1, <1>5, <2>1, PhasesKept, Kinds
<1>6. CASE stage'[t] # "undoing" /\ Kind(t, x)
  <2>1. CASE Starts(t, x)
    BY <1>3, <1>6, <2>1, Kinds DEF Starts
  <2>2. CASE EndsBody(t, x)
    <3>1. /\ phase'[t] \in IF Top(t).level > 0 THEN {"release", "undo"} ELSE {"commit", "rollback"}
          /\ stack' = stack
      BY <2>2 DEF EndsBody
    <3>2. QED
      BY <1>5, <1>6, <3>1, Kinds
  <2>3. CASE Proceeds(t, x)
    <3>1. CASE phase'[t] \in {"user", "commit write", "undo write"}
      BY <1>3, <1>6, <3>1, Kinds
    <3>2. CASE phase'[t] \notin {"user", "commit write", "undo write"}
      <4>1. /\ stack' = stack
            /\ (phase[t] = "undo" /\ phase'[t] = "drop") \/ (phase[t] = "commit" /\ phase'[t] = "rollback")
        BY <2>3, <3>2 DEF Proceeds
      <4>2. Top(t).level > 0 <=> phase[t] = "undo"
        BY <1>1, <4>1, Kinds DEF PhasesInv
      <4>3. QED
        BY <1>5, <1>6, <4>1, <4>2, Kinds
    <3>3. QED
      BY <3>1, <3>2
  <2>4. CASE OpensBlock(t, x) /\ phase'[t] = "begin"
    <3>1. PICK f \in Frames :
             /\ outcome[f.block] = "unused" /\ f.adapter = x /\ f.level = 0
             /\ \A g \in FramesOn(t, x) : g.level < f.level
             /\ stack' = [stack EXCEPT ![t] = Append(stack[t], f)]
      BY <2>4, PushedDeepest
    <3>2. Top(t)' = f
      BY <1>1, <3>1, PushView
    <3>3. ~(Top(t)'.level > 0) /\ phase'[t] \notin {"release", "undo", "drop"} /\ phase'[t] # "give back"
      BY <2>4, <3>1, <3>2
    <3>4. QED
      BY <1>1, <1>6, <3>3, PhasesKept
  <2>5. CASE OpensNested(t, x) \/ (OpensBlock(t, x) /\ phase'[t] # "begin")
    <3>1. phase'[t] = "user"
      BY <2>5 DEF OpensNested, OpensBlock
    <3>2. QED
      BY <1>3, <1>6, <3>1, Kinds
  <2>6. CASE EndsBlock(t, x)
    <3>1. phase[t] \in {"begin", "commit", "rollback"} /\ phase'[t] = "close" /\ stack' = stack
      BY <2>6 DEF EndsBlock
    <3>2. ~(Top(t).level > 0)
      BY <1>1, <3>1, Kinds DEF PhasesInv
    <3>3. QED
      BY <1>5, <1>6, <3>1, <3>2, Kinds
  <2>7. CASE PopsNested(t, x) \/ PopsBlock(t, x) \/ Leaves(t, x)
    BY <1>4, <1>6, <2>7 DEF PopsNested, PopsBlock, Leaves
  <2>8. CASE GivesBack(t, x)
    BY <1>3, <1>6, <2>8, Kinds DEF GivesBack
  <2>9. QED
    BY <1>6, <2>1, <2>2, <2>3, <2>4, <2>5, <2>6, <2>7, <2>8 DEF Kind
<1>7. QED
  BY <1>2, <1>6 DEF Step

-----------------------------------------------------------------------------
(* Custody of the adapters *)

\* The conditions of Custody on a block and on a call of task t.
HasFrame(t, f) ==
    /\ f.pool # NoPool => f.adapter \in PoolAdapters[f.pool]
    /\ Pooled(f.adapter) => (f.pool # NoPool <=> f.level = 0)
    /\ ~Pooled(f.adapter) => f.adapter \in Named(t)
HasCall(t, a) ==
    /\ call[t].pool # NoPool => a \in PoolAdapters[call[t].pool] /\ FramesOn(t, a) = {}
    /\ call[t].pool = NoPool /\ Pooled(a) => FramesOn(t, a) # {}
    /\ ~Pooled(a) => a \in Named(t)

LEMMA CustodyParts ==
    Custody <=>
    /\ \A t \in Tasks : \A f \in ToSet(stack[t]) : HasFrame(t, f)
    /\ \A t \in Tasks : \A a \in Adapters : Calling(t, a) => HasCall(t, a)
    /\ \A q \in Pools : \A a \in free[q] : a \in PoolAdapters[q] /\ \A t \in Tasks : ~OnIt(t, a)
    /\ \A a \in Adapters : \A t, u \in Tasks : OnIt(t, a) /\ OnIt(u, a) => t = u
  BY DEF Custody, HasFrame, HasCall

\* Who is on an adapter after a step.
LEMMA OnItNext ==
    ASSUME NEW t \in Tasks, NEW x \in Adapters, Focus(t, x)
    PROVE  /\ \A u \in Tasks \ {t} : \A a : (OnIt(u, a)' <=> OnIt(u, a)) /\ (Calling(u, a)' <=> Calling(u, a))
           /\ \A a \in Adapters \ {x} : (OnIt(t, a)' => OnIt(t, a)) /\ ~Calling(t, a)'
           /\ \A u \in Tasks : OnIt(u, x)' => u = t
<1>1. ASSUME NEW u \in Tasks \ {t}, NEW a
      PROVE  (OnIt(u, a)' <=> OnIt(u, a)) /\ (Calling(u, a)' <=> Calling(u, a))
  <2>1. Calling(u, a)' <=> Calling(u, a)
    BY OthersView DEF Focus, Calling
  <2>2. FramesOn(u, a)' = FramesOn(u, a)
    BY OthersView DEF Focus
  <2>3. QED
    BY <2>1, <2>2 DEF OnIt
<1>2. ASSUME NEW a \in Adapters \ {x}
      PROVE  (OnIt(t, a)' => OnIt(t, a)) /\ ~Calling(t, a)'
  <2>1. Calling(t, a)' => phase'[t] # "user" /\ On(t)' = a
    BY Kinds DEF Calling, In
  <2>2. ~Calling(t, a)'
    BY <2>1 DEF Focus
  <2>3. FramesOn(t, a)' = FramesOn(t, a)
    BY DEF Focus
  <2>4. QED
    BY <2>2, <2>3 DEF OnIt
<1>3. \A u \in Tasks : OnIt(u, x)' => u = t
  BY <1>1 DEF Focus
<1>4. QED
  BY <1>1, <1>2, <1>3

LEMMA CustodyKept ==
    ASSUME Inv, NEW t \in Tasks, NEW x \in Adapters, Focus(t, x), uses' = uses,
           \A f \in ToSet(stack'[t]) : f \in ToSet(stack[t]) \/ HasFrame(t, f),
           Calling(t, x)' => HasCall(t, x)',
           \A q \in Pools : \A a \in free'[q] :
              IF a = x THEN x \in PoolAdapters[q] /\ ~OnIt(t, x)' ELSE a \in free[q]
    PROVE  Custody'
<1>1. /\ TypeInv /\ Moves(t)
      /\ \A u \in Tasks : \A f \in ToSet(stack[u]) : HasFrame(u, f)
      /\ \A u \in Tasks : \A a \in Adapters : Calling(u, a) => HasCall(u, a)
      /\ \A q \in Pools : \A a \in free[q] : a \in PoolAdapters[q] /\ \A u \in Tasks : ~OnIt(u, a)
      /\ \A a \in Adapters : \A u, v \in Tasks : OnIt(u, a) /\ OnIt(v, a) => u = v
  BY CustodyParts DEF Inv, LockInv, BlocksInv, Focus
<1>2. /\ \A u \in Tasks \ {t} : \A a : (OnIt(u, a)' <=> OnIt(u, a)) /\ (Calling(u, a)' <=> Calling(u, a))
      /\ \A a \in Adapters \ {x} : (OnIt(t, a)' => OnIt(t, a)) /\ ~Calling(t, a)'
      /\ \A u \in Tasks : OnIt(u, x)' => u = t
  BY OnItNext
<1>3. \A u : Named(u)' = Named(u)
  BY DEF Named
<1>4. \A u, f : HasFrame(u, f)' <=> HasFrame(u, f)
  BY <1>3 DEF HasFrame, Pooled
<1>5. ASSUME NEW u \in Tasks, NEW f \in ToSet(stack'[u])
      PROVE  HasFrame(u, f)'
  <2>1. u # t => stack'[u] = stack[u]
    BY <1>1 DEF Moves
  <2>2. HasFrame(u, f)
    BY <1>1, <1>5, <2>1
  <2>3. QED
    BY <1>4, <2>2
<1>6. ASSUME NEW u \in Tasks, NEW a \in Adapters, Calling(u, a)'
      PROVE  HasCall(u, a)'
  <2>1. CASE u = t
    BY <1>2, <1>6, <2>1
  <2>2. CASE u # t
    <3>1. HasCall(u, a)
      BY <1>1, <1>2, <1>6, <2>2
    <3>2. call'[u] = call[u] /\ FramesOn(u, a)' = FramesOn(u, a)
      BY <1>1, <2>2, OthersView
    <3>3. QED
      BY <1>3, <3>1, <3>2 DEF HasCall, Pooled
  <2>3. QED
    BY <2>1, <2>2
<1>7. ASSUME NEW q \in Pools, NEW a \in free'[q]
      PROVE  a \in PoolAdapters[q] /\ \A u \in Tasks : ~OnIt(u, a)'
  <2>1. CASE a = x
    BY <1>2, <2>1
  <2>2. CASE a # x
    <3>1. a \in free[q]
      BY <2>2
    <3>2. a \in Adapters
      BY <3>1 DEF Inv, DataTypes
    <3>3. QED
      BY <1>1, <1>2, <2>2, <3>1, <3>2
  <2>3. QED
    BY <2>1, <2>2
<1>8. ASSUME NEW a \in Adapters, NEW u \in Tasks, NEW v \in Tasks, OnIt(u, a)', OnIt(v, a)'
      PROVE  u = v
  <2>1. CASE a = x
    BY <1>2, <1>8, <2>1
  <2>2. CASE a # x
    <3>1. OnIt(u, a) /\ OnIt(v, a)
      BY <1>2, <1>8, <2>2
    <3>2. QED
      BY <1>1, <3>1
  <2>3. QED
    BY <2>1, <2>2
<1>9. QED
  BY <1>5, <1>6, <1>7, <1>8 DEF Custody, HasFrame, HasCall

\* What a pool has back after a step: at most the adapter of the step.
LEMMA FreeKept ==
    ASSUME Inv, NEW t \in Tasks, NEW x \in Adapters, OnIt(t, x), free' = free
    PROVE  \A q \in Pools : \A a \in free'[q] :
              IF a = x THEN x \in PoolAdapters[q] /\ ~OnIt(t, x)' ELSE a \in free[q]
  BY DEF Inv, BlocksInv, Custody

LEMMA FreeTaken ==
    ASSUME Inv, Private, NEW t \in Tasks, NEW x \in Adapters, Taken(t, x)
    PROVE  \A q \in Pools : \A a \in free'[q] :
              IF a = x THEN x \in PoolAdapters[q] /\ ~OnIt(t, x)' ELSE a \in free[q]
<1>1. /\ free \in [Pools -> SUBSET Adapters]
      /\ \A q \in Pools : \A a \in free[q] : a \in PoolAdapters[q] /\ ~OnIt(t, a)
  BY DEF Inv, DataTypes, BlocksInv, Custody
<1>2. CASE free' = free /\ (FramesOn(t, x) # {} \/ x \in Named(t))
  <2>1. \A q \in Pools : x \notin free[q]
    BY <1>1, <1>2 DEF OnIt, Private
  <2>2. QED
    BY <1>2, <2>1
<1>3. CASE \E p \in Pools : x \in free[p] /\ free' = [free EXCEPT ![p] = free[p] \ {x}]
  <2>1. PICK p \in Pools : x \in free[p] /\ free' = [free EXCEPT ![p] = free[p] \ {x}]
    BY <1>3
  <2>2. \A q \in Pools : q # p => x \notin PoolAdapters[q]
    BY <1>1, <2>1, AsyncPoolsAssumption
  <2>3. \A q \in Pools : free'[q] = IF q = p THEN free[p] \ {x} ELSE free[q]
    BY <1>1, <2>1
  <2>4. QED
    BY <1>1, <2>2, <2>3
<1>4. QED
  BY <1>2, <1>3 DEF Taken

LEMMA PushCustody ==
    ASSUME Inv, NEW t \in Tasks, NEW x \in Adapters, OpensBlock(t, x) \/ OpensNested(t, x)
    PROVE  /\ \A f \in ToSet(stack'[t]) : f \in ToSet(stack[t]) \/ HasFrame(t, f)
           /\ phase'[t] \in {"user", "begin"} /\ OnIt(t, x) /\ free' = free
<1>1. TypeInv /\ StacksInv /\ PhasesInv /\ LockInv /\ Custody
  BY DEF Inv, LockInv, BlocksInv
<1>2. PICK f \in Frames :
         /\ outcome[f.block] = "unused" /\ f.adapter = x /\ f.pool = call[t].pool
         /\ OpensBlock(t, x) => f.level = 0 /\ FramesOn(t, x) = {}
         /\ OpensNested(t, x) => f.level = Depth(t, x) + 1 /\ Depth(t, x) \in Nat
         /\ \A g \in FramesOn(t, x) : g.level < f.level
         /\ stack' = [stack EXCEPT ![t] = Append(stack[t], f)]
  BY PushedDeepest
<1>3. ToSet(stack'[t]) = ToSet(stack[t]) \cup {f}
  BY <1>1, <1>2, PushView
<1>4. phase[t] \in OwnCalls /\ On(t) = x
  BY Kinds DEF OpensBlock, OpensNested
<1>5. HasCall(t, x)
  <2>1. Calling(t, x)
    BY <1>4 DEF Calling, In
  <2>2. QED
    BY <1>1, <2>1, CustodyParts
<1>6. HasFrame(t, f)
  <2>1. CASE OpensBlock(t, x)
    BY <1>2, <1>5, <2>1 DEF HasCall, HasFrame
  <2>2. CASE OpensNested(t, x)
    <3>1. PICK d \in Nat : d = Depth(t, x)
      BY <1>2, <2>2
    <3>2. f.level = d + 1 /\ d + 1 # 0
      BY <1>2, <2>2, <3>1
    <3>3. In(t, {"savepoint"}, x)
      BY <2>2 DEF OpensNested, In
    <3>4. FramesOn(t, x) # {}
      BY <3>3 DEF Inv, BlocksInv, SessionsInv, Nested
    <3>5. QED
      BY <1>2, <1>5, <3>2, <3>4 DEF HasCall, HasFrame
  <2>3. QED
    BY <2>1, <2>2
<1>7. phase'[t] \in {"user", "begin"} /\ free' = free
  BY DEF OpensBlock, OpensNested
<1>8. OnIt(t, x)
  BY <1>4 DEF OnIt, Calling, In
<1>9. QED
  BY <1>3, <1>6, <1>7, <1>8

\* When a top-level block is left, nothing is left on its adapter.
LEMMA PoppedBlock ==
    ASSUME Inv, NEW t \in Tasks, NEW x \in Adapters, PopsBlock(t, x)
    PROVE  /\ Top(t).level = 0 /\ Top(t).adapter = x /\ stack[t] # <<>> /\ Top(t) \in FramesOn(t, x)
           /\ ToSet(stack'[t]) = ToSet(stack[t]) \ {Top(t)}
           /\ FramesOn(t, x) = {Top(t)} /\ FramesOn(t, x)' = {}
<1>1. TypeInv /\ StacksInv /\ PhasesInv /\ LockInv /\ SessionsInv /\ phase[t] = "close"
  BY DEF Inv, LockInv, BlocksInv, PopsBlock
<1>2. stack[t] # <<>> /\ Top(t).adapter = x /\ Top(t) \in FramesOn(t, x)
  BY <1>1, BusyIsOnIt, Kinds DEF PopsBlock
<1>3. Depth(t, x) = 0
  BY <1>1 DEF PopsBlock, Depth, In
<1>4. Top(t).level = 0
  BY <1>1, <1>2, <1>3, TopLevel
<1>5. ASSUME NEW g \in FramesOn(t, x)
      PROVE  g = Top(t)
  <2>1. {f.level : f \in FramesOn(t, x)} = 0..0
    BY <1>1, <1>2, <1>3 DEF SessionsInv, Nested
  <2>2. g.level = 0
    BY <2>1
  <2>3. g \in ToSet(stack[t]) /\ g.adapter = x
    BY DEF FramesOn
  <2>4. QED
    BY <1>1, <1>2, <1>4, <2>2, <2>3, TopIsDeepest
<1>6. FramesOn(t, x)' = FramesOn(t, x) \ {Top(t)} /\ ToSet(stack'[t]) = ToSet(stack[t]) \ {Top(t)}
  <2>1. stack' = [stack EXCEPT ![t] = Pop(t)] /\ x = Top(t).adapter
    BY <1>2 DEF PopsBlock
  <2>2. QED
    BY <1>1, <1>2, <2>1, PopView, PoppedFrames
<1>7. QED
  BY <1>2, <1>4, <1>5, <1>6

LEMMA PoppedNested ==
    ASSUME Inv, NEW t \in Tasks, NEW x \in Adapters, PopsNested(t, x)
    PROVE  /\ stack[t] # <<>> /\ Top(t).adapter = x /\ Top(t) \in FramesOn(t, x)
           /\ Top(t).level = Depth(t, x) /\ Depth(t, x) \in Nat /\ Top(t).level > 0
           /\ Depth(t, x) = registry[x]
           /\ ToSet(stack'[t]) = ToSet(stack[t]) \ {Top(t)}
           /\ FramesOn(t, x)' = FramesOn(t, x) \ {Top(t)}
           /\ Pooled(x) => Top(t).pool = NoPool
<1>1. TypeInv /\ StacksInv /\ PhasesInv /\ LockInv /\ SessionsInv /\ Custody
      /\ phase[t] \in {"release", "undo", "drop"} /\ On(t) = x
  BY DEF Inv, LockInv, BlocksInv, PopsNested
<1>2. stack[t] # <<>> /\ Top(t).adapter = x /\ Top(t) \in FramesOn(t, x) /\ Top(t) \in ToSet(stack[t])
  BY <1>1, BusyIsOnIt, TopIsDeepest, Kinds
<1>3. Top(t).level = Depth(t, x) /\ Depth(t, x) \in Nat
  BY <1>1, <1>2, TopLevel
<1>4. Top(t).level > 0
  BY <1>1, Kinds DEF PhasesInv
<1>5. FramesOn(t, x)' = FramesOn(t, x) \ {Top(t)} /\ ToSet(stack'[t]) = ToSet(stack[t]) \ {Top(t)}
  <2>1. stack' = [stack EXCEPT ![t] = Pop(t)] /\ x = Top(t).adapter
    BY <1>2 DEF PopsNested
  <2>2. QED
    BY <1>1, <1>2, <2>1, PopView, PoppedFrames
<1>6. Depth(t, x) = registry[x]
  BY <1>1 DEF Depth, In
<1>7. Pooled(x) => Top(t).pool = NoPool
  <2>1. Top(t).level # 0
    BY <1>3, <1>4
  <2>2. QED
    BY <1>1, <1>2, <2>1 DEF Custody
<1>8. QED
  BY <1>2, <1>3, <1>4, <1>5, <1>6, <1>7

LEMMA CustodyNext ==
    ASSUME Inv, Private, NEW t \in Tasks, NEW x \in Adapters, Step(t, x), Focus(t, x)
    PROVE  Custody'
<1> DEFINE F == \A f \in ToSet(stack'[t]) : f \in ToSet(stack[t]) \/ HasFrame(t, f)
           G == \A q \in Pools : \A a \in free'[q] :
                   IF a = x THEN x \in PoolAdapters[q] /\ ~OnIt(t, x)' ELSE a \in free[q]
<1> SUFFICES F /\ (Calling(t, x)' => HasCall(t, x)') /\ G
  <2>1. uses' = uses
    BY DEF Step
  <2>2. QED
    BY <2>1, CustodyKept
<1>1. TypeInv /\ StacksInv /\ PhasesInv /\ LockInv /\ DataTypes /\ Custody
  BY DEF Inv, LockInv, BlocksInv
<1>2. /\ stack' = stack => F /\ FramesOn(t, x)' = FramesOn(t, x)
      /\ OnIt(t, x) /\ free' = free => G
      /\ Calling(t, x) => HasCall(t, x) /\ OnIt(t, x)
      /\ phase[t] # "user" /\ On(t) = x => OnIt(t, x)
      /\ Calling(t, x)' => phase'[t] \in OwnCalls \cup {"give back"}
  <2>1. stack' = stack => FramesOn(t, x)' = FramesOn(t, x)
    BY SameStackView
  <2>2. Calling(t, x) => HasCall(t, x) /\ OnIt(t, x)
    BY <1>1, CustodyParts DEF OnIt
  <2>3. phase[t] # "user" /\ On(t) = x => OnIt(t, x)
    BY <1>1, BusyIsOnIt
  <2>4. Calling(t, x)' => phase'[t] \in OwnCalls \cup {"give back"}
    BY DEF Calling, In
  <2>5. OnIt(t, x) /\ free' = free => G
    BY FreeKept
  <2>6. QED
    BY <2>1, <2>2, <2>3, <2>4, <2>5
<1>3. \A a : Pooled(a)' <=> Pooled(a)
  BY DEF Pooled
<1>4. Named(t)' = Named(t)
  BY DEF Named, Step
<1> HIDE DEF F, G
<1>5. ASSUME stack' = stack, Calling(t, x), call'[t].pool = call[t].pool
      PROVE  HasCall(t, x)'
  BY <1>2, <1>3, <1>4, <1>5 DEF HasCall
<1>6. CASE Rests(t, x)
  <2>1. stack' = stack /\ phase' = phase /\ call' = call /\ free' = free /\ phase[t] # "user" /\ On(t) = x
    BY <1>6, Kinds DEF Rests, InCall
  <2>2. Calling(t, x)' => Calling(t, x)
    BY <2>1 DEF Calling, In
  <2>3. QED
    BY <1>2, <1>5, <2>1, <2>2
<1>7. CASE EndsBody(t, x)
  <2>1. stack' = stack /\ free' = free /\ phase'[t] \in BlockCalls
    BY <1>7, Kinds DEF EndsBody
  <2>2. OnIt(t, x)
    BY <1>1, <1>7, TopIsDeepest DEF EndsBody, OnIt
  <2>3. QED
    BY <1>2, <2>1, <2>2, Kinds
<1>8. CASE Proceeds(t, x)
  <2>1. stack' = stack /\ free' = free /\ call'[t].pool = call[t].pool /\ phase[t] # "user" /\ On(t) = x
    BY <1>8, Kinds DEF Proceeds, InCall
  <2>2. phase'[t] \in OwnCalls => phase[t] \in OwnCalls
    BY <1>8, Kinds DEF Proceeds
  <2>3. phase'[t] # "give back"
    BY <1>8 DEF Proceeds
  <2>4. Calling(t, x)' => Calling(t, x)
    BY <1>2, <2>1, <2>2, <2>3 DEF Calling, In
  <2>5. QED
    BY <1>2, <1>5, <2>1, <2>4
<1>9. CASE Starts(t, x)
  <2>1. stack' = stack /\ Taken(t, x)
    BY <1>9 DEF Starts
  <2>2. G
    BY <2>1, FreeTaken DEF G
  <2>3. HasCall(t, x)'
    <3>1. CASE call'[t].pool = NoPool /\ FramesOn(t, x) # {}
      <4>1. PICK f \in ToSet(stack[t]) : f.adapter = x
        BY <3>1 DEF FramesOn
      <4>2. ~Pooled(x) => x \in Named(t)
        BY <1>1, <4>1 DEF Custody
      <4>3. QED
        BY <1>2, <1>3, <1>4, <2>1, <3>1, <4>2 DEF HasCall
    <3>2. CASE call'[t].pool = NoPool /\ x \in Named(t)
      <4>1. ~Pooled(x)
        BY <3>2 DEF Pooled, Private
      <4>2. QED
        BY <1>3, <1>4, <3>2, <4>1 DEF HasCall
    <3>3. CASE call'[t].pool \in Pools /\ x \in free[call'[t].pool]
      <4>1. x \in PoolAdapters[call'[t].pool] /\ FramesOn(t, x) = {} /\ Pooled(x)
        BY <1>1, <3>3 DEF Custody, OnIt, Pooled
      <4>2. call'[t].pool # NoPool
        BY <3>3, NamesAssumption
      <4>3. QED
        BY <1>2, <1>3, <2>1, <4>1, <4>2 DEF HasCall
    <3>4. QED
      BY <2>1, <3>1, <3>2, <3>3 DEF Taken
  <2>4. QED
    BY <1>2, <2>1, <2>2, <2>3
<1>10. CASE OpensBlock(t, x) \/ OpensNested(t, x)
  <2>1. F /\ phase'[t] \in {"user", "begin"} /\ OnIt(t, x) /\ free' = free
    BY <1>10, PushCustody DEF F
  <2>2. QED
    BY <1>2, <2>1, Kinds
<1>11. CASE EndsBlock(t, x)
  <2>1. stack' = stack /\ free' = free /\ phase'[t] = "close" /\ phase[t] # "user" /\ On(t) = x
    BY <1>11 DEF EndsBlock
  <2>2. QED
    BY <1>2, <2>1, Kinds
<1>12. CASE PopsNested(t, x)
  <2>1. /\ ToSet(stack'[t]) = ToSet(stack[t]) \ {Top(t)}
        /\ Pooled(x) => Top(t).pool = NoPool
        /\ Top(t) \in ToSet(stack[t]) /\ Top(t).adapter = x
    BY <1>1, <1>12, PoppedNested, TopIsDeepest
  <2>2. Top(t).pool = NoPool
    <3>1. Top(t).pool # NoPool => x \in PoolAdapters[Top(t).pool]
      BY <1>1, <2>1 DEF Custody
    <3>2. Top(t).pool \in Pools \cup {NoPool}
      BY <1>1, <2>1, FramesTyped DEF Frames
    <3>3. QED
      BY <2>1, <3>1, <3>2 DEF Pooled
  <2>3. phase'[t] = "user" /\ phase[t] # "user" /\ On(t) = x /\ free' = free
    BY <1>12, <2>2 DEF PopsNested, Left
  <2>4. F
    BY <2>1 DEF F
  <2>5. QED
    BY <1>2, <2>3, <2>4, Kinds
<1>13. CASE PopsBlock(t, x)
  <2>1. /\ ToSet(stack'[t]) = ToSet(stack[t]) \ {Top(t)} /\ FramesOn(t, x)' = {}
        /\ Top(t) \in ToSet(stack[t]) /\ Top(t).adapter = x
    BY <1>1, <1>13, PoppedBlock, TopIsDeepest
  <2>2. phase[t] # "user" /\ On(t) = x /\ free' = free /\ Left(t, x, Top(t).pool)
    BY <1>13 DEF PopsBlock
  <2>3. Top(t).pool \in Pools \cup {NoPool} /\ (Top(t).pool # NoPool => x \in PoolAdapters[Top(t).pool])
    BY <1>1, <2>1, FramesTyped DEF Custody, Frames
  <2>4. ASSUME Calling(t, x)'
        PROVE  HasCall(t, x)'
    <3>1. phase'[t] # "user"
      BY <1>2, <2>4, Kinds
    <3>2. Top(t).pool # NoPool /\ call'[t].pool = Top(t).pool
      BY <2>2, <3>1 DEF Left
    <3>3. x \in PoolAdapters[Top(t).pool] /\ Pooled(x)
      BY <2>3, <3>2 DEF Pooled
    <3>4. QED
      BY <1>3, <2>1, <3>2, <3>3 DEF HasCall
  <2>5. F
    BY <2>1 DEF F
  <2>6. QED
    BY <1>2, <2>2, <2>4, <2>5
<1>14. CASE Leaves(t, x)
  <2>1. stack' = stack /\ free' = free /\ phase[t] \in OwnCalls /\ On(t) = x /\ Left(t, x, call[t].pool)
    BY <1>14 DEF Leaves
  <2>2. Calling(t, x)
    BY <2>1 DEF Calling, In
  <2>3. Calling(t, x)' => call'[t].pool = call[t].pool
    BY <1>2, <2>1, Kinds DEF Left
  <2>4. QED
    BY <1>2, <1>5, <2>1, <2>2, <2>3
<1>15. CASE GivesBack(t, x)
  <2>1. /\ stack' = stack /\ phase'[t] = "user" /\ phase[t] = "give back" /\ On(t) = x
        /\ free' = [free EXCEPT ![call[t].pool] = free[call[t].pool] \cup {x}]
    BY <1>15 DEF GivesBack
  <2>2. Calling(t, x) /\ call[t].pool # NoPool /\ call[t].pool \in Pools
    BY <1>1, <2>1 DEF Calling, In, PhasesInv, TypeInv, CallTypes
  <2>3. x \in PoolAdapters[call[t].pool] /\ FramesOn(t, x) = {}
    BY <1>2, <2>2 DEF HasCall
  <2>4. ~Calling(t, x)'
    BY <1>2, <2>1, Kinds
  <2>5. ~OnIt(t, x)'
    BY <1>2, <2>1, <2>3, <2>4 DEF OnIt
  <2>6. \A q \in Pools : x \notin free[q]
    BY <1>1, <1>2, <2>2 DEF Custody
  <2>7. \A q \in Pools : free'[q] = IF q = call[t].pool THEN free[q] \cup {x} ELSE free[q]
    BY <1>1, <2>1, <2>2 DEF DataTypes
  <2>8. G
    BY <2>3, <2>5, <2>6, <2>7 DEF G
  <2>9. QED
    BY <1>2, <2>1, <2>4, <2>8
<1>16. QED
  BY <1>6, <1>7, <1>8, <1>9, <1>10, <1>11, <1>12, <1>13, <1>14, <1>15 DEF Step, Kind

-----------------------------------------------------------------------------
(* What a step leaves alone: other adapters, and other tasks on its own *)

\* A task has no call on an adapter.
Quiet(u, a) == phase[u] = "user" \/ On(u) # a

LEMMA OthersAway ==
    ASSUME Inv, NEW t \in Tasks, NEW x \in Adapters, Focus(t, x), NEW u \in Tasks, u # t
    PROVE  FramesOn(u, x) = {} /\ FramesOn(u, x)' = {} /\ Quiet(u, x) /\ Quiet(u, x)'
<1>1. ~OnIt(u, x) /\ LockInv /\ StacksInv /\ PhasesInv
  BY DEF Focus, Inv, BlocksInv
<1>2. FramesOn(u, x) = {}
  BY <1>1 DEF OnIt
<1>3. FramesOn(u, x)' = {}
  BY <1>2, OthersView DEF Focus
<1>4. Quiet(u, x)
  BY <1>1, BusyIsOnIt DEF Quiet
<1>5. Quiet(u, x)'
  BY <1>4, OthersView DEF Focus, Quiet
<1>6. QED
  BY <1>2, <1>3, <1>4, <1>5

LEMMA ElsewhereSame ==
    ASSUME NEW t \in Tasks, NEW x \in Adapters, Focus(t, x), NEW u \in Tasks,
           NEW a \in Adapters, a # x
    PROVE  /\ FramesOn(u, a)' = FramesOn(u, a) /\ BlocksOn(u, a)' = BlocksOn(u, a)
           /\ registry'[a] = registry[a] /\ session'[a] = session[a]
           /\ pending'[a] = pending[a] /\ inBlock'[a] = inBlock[a]
           /\ IF u = t THEN Quiet(u, a) /\ Quiet(u, a)'
                       ELSE phase'[u] = phase[u] /\ On(u)' = On(u) /\ call'[u] = call[u]
           /\ Depth(u, a)' = Depth(u, a)
<1>1. /\ registry'[a] = registry[a] /\ session'[a] = session[a]
      /\ pending'[a] = pending[a] /\ inBlock'[a] = inBlock[a]
  BY DEF Focus, DataStep
<1>2. FramesOn(u, a)' = FramesOn(u, a)
  <2>1. CASE u = t
    BY <2>1 DEF Focus
  <2>2. CASE u # t
    BY <2>2, OthersView DEF Focus
  <2>3. QED
    BY <2>1, <2>2
<1>3. BlocksOn(u, a)' = BlocksOn(u, a)
  BY <1>2 DEF BlocksOn
<1>4. CASE u = t
  <2>1. Quiet(t, a) /\ Quiet(t, a)'
    BY DEF Focus, Quiet
  <2>2. Depth(t, a)' = Depth(t, a)
    BY <1>1, <2>1 DEF Depth, In, Quiet
  <2>3. QED
    BY <1>1, <1>2, <1>3, <1>4, <2>1, <2>2
<1>5. CASE u # t
  <2>1. phase'[u] = phase[u] /\ On(u)' = On(u) /\ call'[u] = call[u]
    BY <1>5, OthersView DEF Focus
  <2>2. Depth(u, a)' = Depth(u, a)
    BY <1>1, <2>1 DEF Depth, In
  <2>3. QED
    BY <1>1, <1>2, <1>3, <1>5, <2>1, <2>2
<1>6. QED
  BY <1>4, <1>5

LEMMA VacantNext ==
    ASSUME Inv, NEW t \in Tasks, NEW x \in Adapters, Focus(t, x)
    PROVE  /\ Vacant(x) <=> FramesOn(t, x) = {}
           /\ Vacant(x)' <=> FramesOn(t, x)' = {}
           /\ \A a \in Adapters \ {x} : Vacant(a)' <=> Vacant(a)
<1>1. \A u \in Tasks : u # t => FramesOn(u, x) = {} /\ FramesOn(u, x)' = {}
  BY OthersAway
<1>2. Vacant(x) <=> FramesOn(t, x) = {}
  BY <1>1 DEF Vacant
<1>3. Vacant(x)' <=> FramesOn(t, x)' = {}
  BY <1>1 DEF Vacant
<1>4. ASSUME NEW a \in Adapters \ {x}
      PROVE  Vacant(a)' <=> Vacant(a)
  <2>1. \A u \in Tasks : FramesOn(u, a)' = FramesOn(u, a)
    BY ElsewhereSame
  <2>2. QED
    BY <2>1 DEF Vacant
<1>5. QED
  BY <1>2, <1>3, <1>4

LEMMA SessionsKept ==
    ASSUME Inv, NEW t \in Tasks, NEW x \in Adapters, Focus(t, x),
           Nested(t, x)', FramesOn(t, x)' = {} => registry'[x] = None /\ ~session'[x]
    PROVE  SessionsInv'
<1>1. \A a \in Adapters : \A u \in Tasks : Nested(u, a)
  BY DEF Inv, BlocksInv, SessionsInv
<1>2. ASSUME NEW u \in Tasks, NEW a \in Adapters
      PROVE  Nested(u, a)'
  <2>1. CASE u # t /\ a = x
    <3>1. FramesOn(u, a)' = {} /\ Quiet(u, a)'
      BY <2>1, OthersAway
    <3>2. QED
      BY <3>1 DEF Nested, In, Quiet
  <2>2. CASE u = t /\ a = x
    BY <2>2
  <2>3. CASE a # x
    <3>1. /\ FramesOn(u, a)' = FramesOn(u, a) /\ Depth(u, a)' = Depth(u, a)
          /\ registry'[a] = registry[a] /\ session'[a] = session[a]
          /\ IF u = t THEN Quiet(u, a) /\ Quiet(u, a)'
                      ELSE phase'[u] = phase[u] /\ On(u)' = On(u) /\ call'[u] = call[u]
      BY <2>3, ElsewhereSame
    <3>2. CASE u = t
      <4>1. /\ ~In(u, {"close"}, a)' /\ ~In(u, {"close"}, a) /\ ~In(u, {"savepoint"}, a)'
            /\ ~In(u, {"cursor", "commit write", "undo write"}, a)'
        BY <3>1, <3>2 DEF In, Quiet
      <4>2. Nested(u, a)
        BY <1>1
      <4>3. QED
        BY <3>1, <4>1, <4>2 DEF Nested
    <3>3. CASE u # t
      <4>1. /\ In(u, {"close"}, a)' <=> In(u, {"close"}, a)
            /\ In(u, {"savepoint"}, a)' <=> In(u, {"savepoint"}, a)
            /\ In(u, {"cursor", "commit write", "undo write"}, a)'
                  <=> In(u, {"cursor", "commit write", "undo write"}, a)
            /\ call'[u] = call[u]
        BY <3>1, <3>3 DEF In
      <4>2. Nested(u, a)
        BY <1>1
      <4>3. QED
        BY <3>1, <4>1, <4>2 DEF Nested
    <3>4. QED
      BY <3>2, <3>3
  <2>4. QED
    BY <2>1, <2>2, <2>3
<1>3. ASSUME NEW a \in Adapters, Vacant(a)'
      PROVE  registry'[a] = None /\ ~session'[a]
  <2>1. CASE a = x
    BY <1>3, <2>1, VacantNext
  <2>2. CASE a # x
    <3>1. Vacant(a) /\ registry'[a] = registry[a] /\ session'[a] = session[a]
      BY <1>3, <2>2, VacantNext DEF Focus
    <3>2. QED
      BY <3>1 DEF Inv, BlocksInv, SessionsInv
  <2>3. QED
    BY <2>1, <2>2
<1>4. QED
  BY <1>2, <1>3 DEF SessionsInv

-----------------------------------------------------------------------------
(* The depth of an adapter and its session *)

LEMMA NestedSame ==
    ASSUME NEW t, NEW x, Nested(t, x), FramesOn(t, x)' = FramesOn(t, x),
           Depth(t, x)' = Depth(t, x), session'[x] = session[x],
           phase[t] # "close", phase'[t] \notin {"close", "savepoint"},
           phase'[t] \in {"cursor", "commit write", "undo write"} => FramesOn(t, x) = {}
    PROVE  Nested(t, x)'
<1>1. /\ ~In(t, {"close"}, x) /\ ~In(t, {"close"}, x)' /\ ~In(t, {"savepoint"}, x)'
      /\ In(t, {"cursor", "commit write", "undo write"}, x)' => FramesOn(t, x) = {}
  BY DEF In
<1>2. QED
  BY <1>1 DEF Nested

LEMMA DepthFacts ==
    ASSUME NEW t, NEW x
    PROVE  /\ phase[t] \notin {"close", "savepoint"} => Depth(t, x) = registry[x]
           /\ phase[t] = "close" /\ On(t) = x => Depth(t, x) = 0
           /\ phase[t] = "savepoint" /\ On(t) = x => Depth(t, x) = registry[x] - 1
           /\ phase'[t] \notin {"close", "savepoint"} => Depth(t, x)' = registry'[x]
           /\ phase'[t] = "close" /\ On(t)' = x => Depth(t, x)' = 0
           /\ phase'[t] = "savepoint" /\ On(t)' = x => Depth(t, x)' = registry'[x] - 1
<1>1. /\ phase[t] \notin {"close", "savepoint"} => Depth(t, x) = registry[x]
      /\ phase[t] = "close" /\ On(t) = x => Depth(t, x) = 0
      /\ phase[t] = "savepoint" /\ On(t) = x => Depth(t, x) = registry[x] - 1
  BY DEF Depth, In
<1>2. /\ phase'[t] \notin {"close", "savepoint"} => Depth(t, x)' = registry'[x]
      /\ phase'[t] = "close" /\ On(t)' = x => Depth(t, x)' = 0
      /\ phase'[t] = "savepoint" /\ On(t)' = x => Depth(t, x)' = registry'[x] - 1
  BY DEF Depth, In
<1>3. QED
  BY <1>1, <1>2

\* What SessionsInv says of the adapter of a step, before it.
LEMMA BeforeStep ==
    ASSUME Inv, NEW t \in Tasks, NEW x \in Adapters, Focus(t, x)
    PROVE  /\ Nested(t, x) /\ registry[x] \in Int
           /\ FramesOn(t, x) = {} => registry[x] = None /\ ~session[x]
           /\ FramesOn(t, x) # {} /\ phase[t] \notin {"close", "savepoint"} => registry[x] \in Nat
           /\ FramesOn(t, x) # {} /\ phase[t] # "close" => session[x] = TRUE
<1>1. Nested(t, x) /\ registry[x] \in Int /\ session[x] \in BOOLEAN
  BY DEF Inv, LockInv, TypeInv, DataTypes, BlocksInv, SessionsInv
<1>2. FramesOn(t, x) = {} => registry[x] = None /\ ~session[x]
  BY VacantNext DEF Inv, BlocksInv, SessionsInv
<1>3. FramesOn(t, x) # {} /\ phase[t] \notin {"close", "savepoint"} => registry[x] \in Nat
  BY <1>1, DepthFacts DEF Nested
<1>4. FramesOn(t, x) # {} /\ phase[t] # "close" => session[x]
  BY <1>1 DEF Nested, In
<1>5. QED
  BY <1>1, <1>2, <1>3, <1>4

LEMMA OpenedLevels ==
    ASSUME Inv, NEW t \in Tasks, NEW x \in Adapters, Focus(t, x), OpensBlock(t, x)
    PROVE  Nested(t, x)' /\ FramesOn(t, x)' # {}
<1>1. TypeInv /\ StacksInv /\ DataTypes
  BY DEF Inv, LockInv, BlocksInv
<1>2. PICK f \in Frames :
         /\ outcome[f.block] = "unused" /\ f.adapter = x
         /\ f.level = 0 /\ f.opened /\ FramesOn(t, x) = {}
         /\ \A g \in FramesOn(t, x) : g.level < f.level
         /\ stack' = [stack EXCEPT ![t] = Append(stack[t], f)]
  BY PushedDeepest
<1>3. FramesOn(t, x)' = {f}
  <2>1. FramesOn(t, x)' = FramesOn(t, x) \cup {f}
    BY <1>1, <1>2, PushView
  <2>2. QED
    BY <1>2, <2>1
<1>4. registry'[x] = 0 /\ session'[x] = TRUE /\ phase'[t] \in {"user", "begin"}
  BY <1>1 DEF OpensBlock, TypeInv, DataTypes
<1>5. Depth(t, x)' = 0
  BY <1>4, DepthFacts
<1>6. {g.level : g \in FramesOn(t, x)'} = 0..0
  BY <1>2, <1>3
<1>7. /\ ~In(t, {"close"}, x)' /\ ~In(t, {"savepoint"}, x)'
      /\ ~In(t, {"cursor", "commit write", "undo write"}, x)'
  BY <1>4 DEF In
<1>8. Depth(t, x)' \in Nat /\ FramesOn(t, x)' # {} /\ \A g \in FramesOn(t, x)' : g.level = 0 => g.opened
  BY <1>2, <1>3, <1>5
<1>9. QED
  BY <1>4, <1>5, <1>6, <1>7, <1>8 DEF Nested

LEMMA NestedLevels ==
    ASSUME Inv, NEW t \in Tasks, NEW x \in Adapters, Focus(t, x), OpensNested(t, x)
    PROVE  Nested(t, x)' /\ FramesOn(t, x)' # {}
<1>1. TypeInv /\ StacksInv
  BY DEF Inv, LockInv, BlocksInv
<1>2. PICK f \in Frames :
         /\ outcome[f.block] = "unused" /\ f.adapter = x
         /\ f.level = call[t].n /\ call[t].n = registry[x]
         /\ f.level = Depth(t, x) + 1 /\ Depth(t, x) \in Nat
         /\ \A g \in FramesOn(t, x) : g.level < f.level
         /\ stack' = [stack EXCEPT ![t] = Append(stack[t], f)]
  BY PushedDeepest
<1>3. FramesOn(t, x)' = FramesOn(t, x) \cup {f}
  BY <1>1, <1>2, PushView
<1>4. registry' = registry /\ session' = session /\ phase'[t] = "user" /\ phase[t] = "savepoint" /\ On(t) = x
  BY DEF OpensNested
<1>5. PICK d \in Nat : d = Depth(t, x) /\ f.level = d + 1 /\ Depth(t, x)' = d + 1
  BY <1>2, <1>4, DepthFacts
<1>6. In(t, {"savepoint"}, x)
  BY <1>4 DEF In
<1>7. /\ FramesOn(t, x) # {} /\ session[x]
      /\ {g.level : g \in FramesOn(t, x)} = 0..d
      /\ \A g \in FramesOn(t, x) : g.level = 0 => g.opened
  BY <1>4, <1>5, <1>6, BeforeStep DEF Nested
<1>8. {g.level : g \in FramesOn(t, x)'} = 0..(d + 1)
  <2>1. {g.level : g \in FramesOn(t, x)'} = {g.level : g \in FramesOn(t, x)} \cup {d + 1}
    BY <1>3, <1>5
  <2>2. 0..(d + 1) = 0..d \cup {d + 1}
    OBVIOUS
  <2>3. QED
    BY <1>7, <2>1, <2>2
<1>9. \A g \in FramesOn(t, x)' : g.level = 0 => g.opened
  <2>1. f.level # 0
    BY <1>5
  <2>2. QED
    BY <1>3, <1>7, <2>1
<1>10. /\ ~In(t, {"close"}, x)' /\ ~In(t, {"savepoint"}, x)'
       /\ ~In(t, {"cursor", "commit write", "undo write"}, x)'
  BY <1>4 DEF In
<1>11. Depth(t, x)' \in Nat /\ Depth(t, x)' = d + 1 /\ FramesOn(t, x)' # {}
  BY <1>3, <1>5
<1>12. QED
  BY <1>4, <1>7, <1>8, <1>9, <1>10, <1>11 DEF Nested

LEMMA PoppedLevels ==
    ASSUME Inv, NEW t \in Tasks, NEW x \in Adapters, Focus(t, x), PopsNested(t, x)
    PROVE  Nested(t, x)' /\ FramesOn(t, x)' # {}
<1>1. TypeInv /\ StacksInv /\ LockInv
  BY DEF Inv, LockInv, BlocksInv
<1>2. /\ stack[t] # <<>> /\ Top(t).adapter = x /\ Top(t) \in FramesOn(t, x)
      /\ Top(t).level = Depth(t, x) /\ Depth(t, x) \in Nat /\ Top(t).level > 0
      /\ FramesOn(t, x)' = FramesOn(t, x) \ {Top(t)}
  BY PoppedNested
<1>3. PICK d \in Nat : d + 1 = Depth(t, x) /\ Top(t).level = d + 1
  <2>1. \A n \in Nat : n > 0 => n - 1 \in Nat /\ n - 1 + 1 = n
    OBVIOUS
  <2>2. QED
    BY <1>2, <2>1
<1>4. /\ registry' = [registry EXCEPT ![x] = Top(t).level - 1] /\ session' = session
      /\ phase'[t] \in {"user", "give back"} /\ phase[t] \in {"release", "undo", "drop"}
  BY DEF PopsNested, Left
<1>5. registry'[x] = d
  <2>1. Top(t).level - 1 = d
    BY <1>3
  <2>2. QED
    BY <1>1, <1>4, <2>1 DEF TypeInv
<1>6. Depth(t, x)' = d
  BY <1>4, <1>5, DepthFacts
<1>7. /\ session[x]
      /\ {g.level : g \in FramesOn(t, x)} = 0..(d + 1)
      /\ \A g \in FramesOn(t, x) : g.level = 0 => g.opened
  BY <1>2, <1>3, <1>4, BeforeStep DEF Nested
<1>8. \A g \in FramesOn(t, x) : g # Top(t) => g.level \in 0..(d + 1) /\ g.level < d + 1
  <2>1. \A g \in FramesOn(t, x) : g \in ToSet(stack[t]) /\ g.adapter = x /\ g.level \in 0..(d + 1)
    BY <1>7 DEF FramesOn
  <2>2. QED
    BY <1>1, <1>2, <1>3, <2>1, TopIsDeepest
<1>9. {g.level : g \in FramesOn(t, x)'} = 0..d
  <2>1. ASSUME NEW n \in 0..d
        PROVE  \E g \in FramesOn(t, x)' : n = g.level
    <3>1. n \in 0..(d + 1) /\ n # d + 1
      OBVIOUS
    <3>2. PICK g \in FramesOn(t, x) : n = g.level
      BY <1>7, <3>1
    <3>3. g # Top(t)
      BY <1>3, <3>1, <3>2
    <3>4. QED
      BY <1>2, <3>2, <3>3
  <2>2. \A n \in 0..(d + 1) : n < d + 1 => n \in 0..d
    OBVIOUS
  <2>3. \A g \in FramesOn(t, x)' : g.level \in 0..d
    BY <1>2, <1>8, <2>2
  <2>4. QED
    BY <2>1, <2>3
<1>10. FramesOn(t, x)' # {}
  <2>1. 0 \in 0..d
    OBVIOUS
  <2>2. QED
    BY <1>9, <2>1
<1>11. /\ ~In(t, {"close"}, x)' /\ ~In(t, {"savepoint"}, x)'
       /\ ~In(t, {"cursor", "commit write", "undo write"}, x)'
  BY <1>4 DEF In
<1>12. QED
  BY <1>2, <1>4, <1>6, <1>7, <1>9, <1>10, <1>11 DEF Nested

LEMMA SessionsNext ==
    ASSUME Inv, NEW t \in Tasks, NEW x \in Adapters, Step(t, x), Focus(t, x)
    PROVE  SessionsInv'
<1> SUFFICES /\ Nested(t, x)'
             /\ FramesOn(t, x)' = {} => registry'[x] = None /\ ~session'[x]
  BY SessionsKept
<1>1. /\ TypeInv /\ StacksInv /\ PhasesInv /\ LockInv /\ DataTypes
      /\ Nested(t, x) /\ registry[x] \in Int
      /\ FramesOn(t, x) = {} => registry[x] = None /\ ~session[x]
      /\ FramesOn(t, x) # {} /\ phase[t] \notin {"close", "savepoint"} => registry[x] \in Nat
  BY BeforeStep DEF Inv, LockInv, BlocksInv
<1>2. registry[x] = None => registry[x] \notin Nat
  BY DEF None
<1>3. stack' = stack => FramesOn(t, x)' = FramesOn(t, x) /\ Top(t)' = Top(t)
  BY SameStackView
\* Steps that leave the registry and the session alone.
<1>4. ASSUME stack' = stack, registry' = registry, session' = session,
             phase[t] \notin {"close", "savepoint"}, phase'[t] \notin {"close", "savepoint"},
             phase'[t] \in {"cursor", "commit write", "undo write"} => FramesOn(t, x) = {}
      PROVE  Nested(t, x)' /\ (FramesOn(t, x)' = {} => registry'[x] = None /\ ~session'[x])
  <2>1. Depth(t, x)' = Depth(t, x)
    BY <1>4, DepthFacts
  <2>2. QED
    BY <1>1, <1>3, <1>4, <2>1, NestedSame
<1>5. CASE Rests(t, x)
  <2>1. /\ stack' = stack /\ registry' = registry /\ session' = session /\ phase' = phase
        /\ call' = call /\ FramesOn(t, x)' = FramesOn(t, x) /\ Top(t)' = Top(t)
    BY <1>3, <1>5 DEF Rests
  <2>2. \A P : In(t, P, x)' <=> In(t, P, x)
    BY <2>1 DEF In, On
  <2>3. Depth(t, x)' = Depth(t, x)
    BY <2>1 DEF Depth, In, On
  <2>4. Nested(t, x)'
    BY <1>1, <2>1, <2>3 DEF Nested, In, On
  <2>5. QED
    BY <1>1, <2>1, <2>4
<1>6. CASE Starts(t, x)
  <2>1. phase[t] = "user" /\ phase'[t] \in {"savepoint", "cursor", "write"}
        /\ stack' = stack /\ session' = session
    BY <1>6 DEF Starts
  <2>2. CASE phase'[t] = "savepoint"
    <3>1. /\ registry[x] # None /\ call'[t].n = registry[x] + 1
          /\ registry' = [registry EXCEPT ![x] = registry[x] + 1]
      BY <1>6, <2>2 DEF Starts
    <3>2. FramesOn(t, x) # {} /\ session[x] = TRUE
      BY <1>1, <2>1, <3>1, BeforeStep
    <3>3. PICK d \in Nat : d = registry[x]
      BY <1>1, <2>1, <3>2
    <3>4. registry'[x] = d + 1 /\ call'[t].n = d + 1
      BY <1>1, <3>1, <3>3 DEF TypeInv
    <3>5. Depth(t, x)' = d /\ Depth(t, x) = d
      <4>1. On(t)' = x
        BY <2>2 DEF Focus
      <4>2. Depth(t, x)' = registry'[x] - 1 /\ Depth(t, x) = registry[x]
        BY <2>1, <2>2, <4>1, DepthFacts
      <4>3. d + 1 - 1 = d
        OBVIOUS
      <4>4. QED
        BY <3>3, <3>4, <4>2, <4>3
    <3>6. /\ ~In(t, {"close"}, x)'
          /\ ~In(t, {"cursor", "commit write", "undo write"}, x)'
      BY <2>2 DEF In
    <3>7. Nested(t, x)'
      BY <1>1, <1>3, <2>1, <3>2, <3>4, <3>5, <3>6 DEF Nested
    <3>8. QED
      BY <1>3, <2>1, <3>2, <3>7
  <2>3. CASE phase'[t] # "savepoint"
    <3>1. registry' = registry /\ (phase'[t] = "cursor" => registry[x] = None)
      BY <1>6, <2>3 DEF Starts
    <3>2. phase'[t] \in {"cursor", "commit write", "undo write"} => FramesOn(t, x) = {}
      BY <1>1, <1>2, <2>1, <3>1
    <3>3. QED
      BY <1>4, <2>1, <2>3, <3>1, <3>2
  <2>4. QED
    BY <2>2, <2>3
<1>7. CASE EndsBody(t, x)
  <2>1. /\ phase[t] = "user" /\ phase'[t] \in {"release", "undo", "commit", "rollback"}
        /\ stack' = stack /\ registry' = registry /\ session' = session
    BY <1>7 DEF EndsBody
  <2>2. QED
    BY <1>4, <2>1
<1>8. CASE Proceeds(t, x)
  <2>1. /\ stack' = stack /\ registry' = registry /\ session' = session
        /\ phase[t] \notin {"close", "savepoint"} /\ phase'[t] \notin {"close", "savepoint", "cursor"}
        /\ phase'[t] \in {"commit write", "undo write"} => registry[x] = None
    BY <1>8 DEF Proceeds
  <2>2. phase'[t] \in {"cursor", "commit write", "undo write"} => FramesOn(t, x) = {}
    BY <1>1, <1>2, <2>1
  <2>3. QED
    BY <1>4, <2>1, <2>2
<1>9. CASE OpensBlock(t, x)
  BY <1>9, OpenedLevels
<1>10. CASE OpensNested(t, x)
  BY <1>10, NestedLevels
<1>11. CASE EndsBlock(t, x)
  <2>1. /\ phase[t] \in {"begin", "commit", "rollback"} /\ On(t) = x /\ phase'[t] = "close"
        /\ stack' = stack
        /\ registry' = [registry EXCEPT ![x] = None] /\ session' = [session EXCEPT ![x] = FALSE]
    BY <1>11 DEF EndsBlock
  <2>2. registry'[x] = None /\ session'[x] = FALSE
    BY <1>1, <2>1 DEF TypeInv, DataTypes
  <2>3. Top(t) \in FramesOn(t, x) /\ Top(t).adapter = x /\ stack[t] # <<>>
    BY <1>1, <2>1, BusyIsOnIt, Kinds
  <2>4. Depth(t, x) = 0
    <3>1. Top(t).level = Depth(t, x) /\ Depth(t, x) \in Nat
      BY <1>1, <2>3, TopLevel DEF Inv, BlocksInv
    <3>2. ~(Top(t).level > 0)
      BY <1>1, <2>1, Kinds DEF PhasesInv
    <3>3. QED
      BY <3>1, <3>2
  <2>5. Depth(t, x)' = 0
    <3>1. On(t)' = x
      BY <2>1 DEF Focus
    <3>2. QED
      BY <2>1, <3>1, DepthFacts
  <2>6. /\ ~In(t, {"savepoint"}, x)'
        /\ ~In(t, {"cursor", "commit write", "undo write"}, x)'
    BY <2>1 DEF In
  <2>7. In(t, {"close"}, x)'
    BY <2>1 DEF In, Focus
  <2>8. Nested(t, x)'
    BY <1>1, <1>3, <2>1, <2>2, <2>4, <2>5, <2>6, <2>7 DEF Nested
  <2>9. QED
    BY <2>2, <2>8
<1>12. CASE PopsNested(t, x)
  BY <1>12, PoppedLevels
<1>13. CASE PopsBlock(t, x)
  <2>1. FramesOn(t, x)' = {}
    BY <1>13, PoppedBlock
  <2>2. /\ phase[t] = "close" /\ On(t) = x /\ registry' = registry /\ session' = session
        /\ phase'[t] \in {"user", "give back"}
    BY <1>13 DEF PopsBlock, Left
  <2>3. In(t, {"close"}, x)
    BY <2>2 DEF In
  <2>4. registry[x] = None /\ ~session[x]
    BY <1>1, <2>3 DEF Nested
  <2>5. /\ ~In(t, {"close"}, x)' /\ ~In(t, {"savepoint"}, x)'
        /\ ~In(t, {"cursor", "commit write", "undo write"}, x)'
    BY <2>2 DEF In
  <2>6. Nested(t, x)'
    BY <2>1, <2>5 DEF Nested
  <2>7. QED
    BY <2>2, <2>4, <2>6
<1>14. CASE Leaves(t, x)
  <2>1. /\ phase[t] \in OwnCalls /\ On(t) = x /\ phase'[t] \in {"user", "give back"}
        /\ stack' = stack /\ session' = session
    BY <1>14 DEF Leaves, Left
  <2>2. CASE phase[t] = "savepoint"
    <3>1. registry' = [registry EXCEPT ![x] = call[t].n - 1] /\ In(t, {"savepoint"}, x)
      BY <1>14, <2>2 DEF Leaves, In
    <3>2. call[t].n = registry[x] /\ FramesOn(t, x) # {}
      BY <1>1, <3>1 DEF Nested
    <3>3. registry'[x] = registry[x] - 1
      BY <1>1, <3>1, <3>2 DEF TypeInv
    <3>4. Depth(t, x)' = Depth(t, x)
      BY <2>1, <2>2, <3>3, DepthFacts
    <3>5. Nested(t, x)'
      BY <1>1, <1>3, <2>1, <2>2, <3>4, NestedSame
    <3>6. QED
      BY <1>3, <2>1, <3>2, <3>5
  <2>3. CASE phase[t] # "savepoint"
    <3>1. registry' = registry /\ phase[t] # "close"
      BY <1>14, <2>1, <2>3, Kinds DEF Leaves
    <3>2. QED
      BY <1>4, <2>1, <2>3, <3>1
  <2>4. QED
    BY <2>2, <2>3
<1>15. CASE GivesBack(t, x)
  BY <1>4, <1>15 DEF GivesBack
<1>16. QED
  BY <1>5, <1>6, <1>7, <1>8, <1>9, <1>10, <1>11, <1>12, <1>13, <1>14, <1>15 DEF Step, Kind

-----------------------------------------------------------------------------
(* Savepoints *)

LEMMA SameInterval ==
    ASSUME NEW m \in Nat, NEW n \in Nat, 0..m = 0..n
    PROVE  m = n
<1>1. m \in 0..n /\ n \in 0..m
  <2>1. m \in 0..m /\ n \in 0..n
    OBVIOUS
  <2>2. QED
    BY <2>1
<1>2. QED
  BY <1>1

\* How the depth moves with the blocks of the task.
LEMMA DepthMoves ==
    ASSUME Inv, NEW t \in Tasks, NEW x \in Adapters, Step(t, x), Focus(t, x), SessionsInv',
           FramesOn(t, x)' # {}
    PROVE  \/ OpensBlock(t, x) /\ Depth(t, x)' = 0
           \/ FramesOn(t, x) # {} /\ stack' = stack /\ Depth(t, x)' = Depth(t, x)
           \/ FramesOn(t, x) # {} /\ PopsNested(t, x) /\ Depth(t, x)' = Depth(t, x) - 1
           \/ FramesOn(t, x) # {} /\ OpensNested(t, x) /\ Depth(t, x)' = Depth(t, x) + 1
<1>1. /\ TypeInv /\ StacksInv /\ LockInv /\ Nested(t, x) /\ Nested(t, x)'
  BY DEF Inv, LockInv, BlocksInv, SessionsInv
<1>2. CASE stack' = stack
  <2>1. FramesOn(t, x)' = FramesOn(t, x)
    BY <1>2, SameStackView
  <2>2. /\ Depth(t, x) \in Nat /\ Depth(t, x)' \in Nat
        /\ 0..Depth(t, x)' = 0..Depth(t, x)
    <3>1. Depth(t, x) \in Nat /\ {f.level : f \in FramesOn(t, x)} = 0..Depth(t, x)
      BY <1>1, <2>1 DEF Nested
    <3>2. Depth(t, x)' \in Nat /\ {f.level : f \in FramesOn(t, x)'} = 0..Depth(t, x)'
      BY <1>1 DEF Nested
    <3>3. QED
      BY <2>1, <3>1, <3>2
  <2>3. Depth(t, x)' = Depth(t, x)
    BY <2>2, SameInterval
  <2>4. QED
    BY <1>2, <2>1, <2>3
<1>3. CASE OpensBlock(t, x)
  <2>1. registry'[x] = 0 /\ phase'[t] \in {"user", "begin"}
    BY <1>1, <1>3 DEF OpensBlock, TypeInv
  <2>2. QED
    BY <1>3, <2>1, DepthFacts
<1>4. CASE OpensNested(t, x)
  <2>1. registry[x] = Depth(t, x) + 1
    BY <1>4, PushedDeepest
  <2>2. /\ registry' = registry /\ phase'[t] = "user" /\ phase[t] = "savepoint" /\ On(t) = x
    BY <1>4 DEF OpensNested
  <2>3. FramesOn(t, x) # {}
    BY <1>1, <2>2 DEF Nested, In
  <2>4. QED
    BY <1>4, <2>1, <2>2, <2>3, DepthFacts
<1>5. CASE PopsNested(t, x)
  <2>1. FramesOn(t, x) # {} /\ Top(t).level = Depth(t, x) /\ Depth(t, x) \in Nat
    BY <1>5, PoppedNested
  <2>2. /\ registry' = [registry EXCEPT ![x] = Top(t).level - 1] /\ phase'[t] \in {"user", "give back"}
    BY <1>5 DEF PopsNested, Left
  <2>3. registry'[x] = Depth(t, x) - 1
    BY <1>1, <2>1, <2>2 DEF TypeInv
  <2>4. QED
    BY <1>5, <2>1, <2>2, <2>3, DepthFacts
<1>6. CASE PopsBlock(t, x)
  BY <1>6, PoppedBlock
<1>7. QED
  BY <1>2, <1>3, <1>4, <1>5, <1>6, StackChange

\* What a step does to the database.
LEMMA DataKinds ==
    ASSUME NEW t, NEW x, Step(t, x)
    PROVE  \/ Unaffected
           \/ phase[t] \in Calls /\ On(t) = x /\ Done(t, x)
           \/ phase[t] = "give back" /\ On(t) = x /\ RolledBack(x)
  BY Kinds DEF Step, Kind, Rests, Starts, EndsBody, Proceeds, OpensBlock, OpensNested, EndsBlock,
     PopsNested, PopsBlock, Leaves, GivesBack, Unaffected, InCall

\* A task on an adapter taken for one call has no block on it.
LEMMA NoBlocksOfOwn ==
    ASSUME Inv, NEW t \in Tasks, NEW x \in Adapters, On(t) = x,
           phase[t] \in {"cursor", "commit write", "undo write", "give back"}
    PROVE  FramesOn(t, x) = {}
<1>1. CASE phase[t] = "give back"
  <2>1. Calling(t, x) /\ call[t].pool # NoPool
    BY <1>1 DEF Calling, In, Inv, BlocksInv, PhasesInv
  <2>2. QED
    BY <2>1 DEF Inv, BlocksInv, Custody
<1>2. CASE phase[t] # "give back"
  <2>1. In(t, {"cursor", "commit write", "undo write"}, x)
    BY <1>2 DEF In
  <2>2. QED
    BY <2>1 DEF Inv, BlocksInv, SessionsInv, Nested
<1>3. QED
  BY <1>1, <1>2

\* Where no driver ends the transaction, a BEGIN is in force.
LEMMA InBlockNext ==
    ASSUME Inv, NEW t \in Tasks, NEW x \in Adapters, Step(t, x), Focus(t, x),
           FramesOn(t, x)' # {}, Control[x] # "driver", phase'[t] \notin {"begin", "rollback", "close"}
    PROVE  inBlock'[x]
<1>1. inBlock \in [Adapters -> BOOLEAN] /\ LockInv
  BY DEF Inv, DataTypes
<1>2. FramesOn(t, x) # {} /\ phase[t] \notin {"begin", "rollback", "close"} => inBlock[x]
  BY DEF Inv, BlocksInv, SavepointsInv, In
<1>3. CASE phase[t] = "begin" /\ ~Rests(t, x)
  <2>1. Proceeds(t, x)
    BY <1>3, Kinds DEF Step, Kind, Starts, EndsBody, Proceeds, OpensBlock, OpensNested, EndsBlock,
       PopsNested, PopsBlock, Leaves, GivesBack
  <2>2. Done(t, x)
    BY <1>3, <2>1 DEF Proceeds
  <2>3. inBlock' = [inBlock EXCEPT ![x] = TRUE]
    BY <1>3, <2>2, Kinds, DoneOtherwise
  <2>4. QED
    BY <1>1, <2>3
<1>4. CASE Rests(t, x)
  <2>1. FramesOn(t, x) # {} /\ phase[t] \notin {"begin", "rollback", "close"} /\ inBlock' = inBlock
    BY <1>4, SameStackView DEF Rests, dataVars
  <2>2. QED
    BY <1>2, <2>1
<1>5. CASE phase[t] # "begin" /\ ~Rests(t, x)
  <2>1. OpensBlock(t, x) => phase'[t] = "begin"
    BY DEF OpensBlock
  <2>2. ~PopsBlock(t, x)
    BY PoppedBlock
  <2>3. ~EndsBlock(t, x)
    BY DEF EndsBlock
  <2>4. phase[t] \notin {"commit", "rollback", "close"}
    BY <1>5, <2>2, <2>3, Kinds DEF Step, Kind, Starts, EndsBody, Proceeds, OpensBlock, OpensNested,
       PopsNested, Leaves, GivesBack
  <2>5. FramesOn(t, x) # {}
    <3>1. CASE stack' = stack
      BY <3>1, SameStackView
    <3>2. CASE OpensNested(t, x)
      <4>1. In(t, {"savepoint"}, x)
        BY <3>2 DEF OpensNested, In
      <4>2. QED
        BY <4>1 DEF Inv, BlocksInv, SessionsInv, Nested
    <3>3. CASE PopsNested(t, x)
      BY <3>3, PoppedNested
    <3>4. QED
      BY <2>1, <2>2, <3>1, <3>2, <3>3, StackChange
  <2>6. inBlock[x]
    BY <1>2, <1>5, <2>4, <2>5
  <2>7. Unaffected \/ inBlock' = inBlock
    <3>1. phase[t] \notin {"cursor", "commit write", "undo write", "give back"} \/ Unaffected
      <4>1. On(t) = x \/ phase[t] = "user"
        BY DEF Focus
      <4>2. QED
        BY <2>5, <4>1, NoBlocksOfOwn
    <3>2. Done(t, x) /\ phase[t] \in {"write", "savepoint", "release", "drop", "undo"} => inBlock' = inBlock
      BY DEF Done, Effect
    <3>3. phase[t] \in Calls => phase[t] \in {"write", "savepoint", "release", "drop", "undo"}
                \/ phase[t] \in {"cursor", "commit write", "undo write"}
      BY <1>5, <2>4 DEF Calls, BlockCalls
    <3>4. QED
      BY <3>1, <3>2, <3>3, DataKinds
  <2>8. QED
    BY <2>6, <2>7 DEF Unaffected, dataVars
<1>6. QED
  BY <1>3, <1>4, <1>5

LEMMA FewerMarks ==
    ASSUME NEW s, NEW d \in Nat, MarkedUpTo(s, d), NEW e \in Nat, e <= d
    PROVE  MarkedUpTo(s, e) /\ 1..e \subseteq 1..d
<1>1. 1..e \subseteq 1..d
  OBVIOUS
<1>2. QED
  BY <1>1 DEF MarkedUpTo

LEMMA GrowsMore ==
    ASSUME NEW s, NEW P, NEW Q, Growing(s, P), P \subseteq Q
    PROVE  Growing(s, Q)
  BY DEF Growing

\* The savepoints of a block's adapter after a step: one of each depth, each
\* as it was, or the one that was just set.
MarksNow(t, x, d, e) ==
    /\ Positive(pending[x].savepoints)'
    /\ Growing(pending[x].savepoints, pending[x].writes)'
    /\ FramesOn(t, x)' # {} =>
          /\ MarkedUpTo(pending'[x].savepoints, e)
          /\ \A k \in 1..e :
                IF OpensNested(t, x) /\ k = e
                THEN MarkIn(pending'[x].savepoints, k) = pending[x].writes
                ELSE k \in 1..d /\ MarkIn(pending'[x].savepoints, k) = MarkIn(pending[x].savepoints, k)

LEMMA MarksKept ==
    ASSUME NEW t, NEW x, NEW d, NEW e, NEW s, pending'[x].savepoints = s,
           Positive(s), Growing(s, pending'[x].writes),
           FramesOn(t, x)' # {} =>
              /\ MarkedUpTo(s, e)
              /\ \A k \in 1..e :
                    IF OpensNested(t, x) /\ k = e THEN MarkIn(s, k) = pending[x].writes
                    ELSE k \in 1..d /\ MarkIn(s, k) = MarkIn(pending[x].savepoints, k)
    PROVE  MarksNow(t, x, d, e)
<1>1. Positive(pending[x].savepoints)' /\ Growing(pending[x].savepoints, pending[x].writes)'
  BY DEF Positive, Growing
<1>2. QED
  BY <1>1 DEF MarksNow

LEMMA NothingMarked ==
    ASSUME NEW s
    PROVE  MarkedUpTo(s, 0) /\ 1..0 = {} /\ Positive(<<>>) /\ \A P : Growing(<<>>, P)
<1>1. 1..0 = {}
  OBVIOUS
<1>2. MarkedUpTo(s, 0)
  BY <1>1 DEF MarkedUpTo
<1>3. Positive(<<>>) /\ \A P : Growing(<<>>, P)
  BY DEF Positive, Growing
<1>4. QED
  BY <1>1, <1>2, <1>3

LEMMA MarksNext ==
    ASSUME Inv, NEW t \in Tasks, NEW x \in Adapters, Step(t, x), Focus(t, x), SessionsInv',
           NEW d, d = Depth(t, x), NEW e, e = Depth(t, x)'
    PROVE  MarksNow(t, x, d, e)
<1>1. PICK s \in Seq(Marks) : s = pending[x].savepoints
  BY SessionTypes DEF Inv
<1>2. PICK P \in SUBSET Writes : P = pending[x].writes
  BY SessionTypes DEF Inv
<1>3. d = Depth(t, x) /\ e = Depth(t, x)'
  OBVIOUS
<1>4. /\ Positive(s) /\ Growing(s, P)
      /\ FramesOn(t, x) # {} => MarkedUpTo(s, d) /\ d \in Nat
      /\ FramesOn(t, x)' # {} => e \in Nat
      /\ LockInv /\ StacksInv /\ PhasesInv /\ DataTypes /\ SessionsInv /\ TypeInv
  <2>1. Positive(s) /\ Growing(s, P) /\ (FramesOn(t, x) # {} => MarkedUpTo(s, d))
    BY <1>1, <1>2, <1>3 DEF Inv, BlocksInv, SavepointsInv
  <2>2. FramesOn(t, x) # {} => d \in Nat
    BY <1>3 DEF Inv, BlocksInv, SessionsInv, Nested
  <2>3. FramesOn(t, x)' # {} => e \in Nat
    BY <1>3 DEF SessionsInv, Nested
  <2>4. QED
    BY <2>1, <2>2, <2>3 DEF Inv, BlocksInv, LockInv
<1>5. FramesOn(t, x)' # {} =>
         \/ OpensBlock(t, x) /\ e = 0
         \/ FramesOn(t, x) # {} /\ stack' = stack /\ e = d
         \/ FramesOn(t, x) # {} /\ PopsNested(t, x) /\ e = d - 1
         \/ FramesOn(t, x) # {} /\ OpensNested(t, x) /\ e = d + 1
  BY <1>3, DepthMoves
<1>6. ASSUME pending'[x].savepoints = s, P \subseteq pending'[x].writes, ~OpensNested(t, x)
      PROVE  MarksNow(t, x, d, e)
  <2>1. Growing(s, pending'[x].writes)
    BY <1>4, <1>6, GrowsMore
  <2>2. ASSUME FramesOn(t, x)' # {}
        PROVE  MarkedUpTo(s, e) /\ \A k \in 1..e : k \in 1..d
    <3>1. CASE e = 0
      BY <3>1, NothingMarked
    <3>2. CASE e # 0
      <4>1. d \in Nat /\ MarkedUpTo(s, d) /\ e \in Nat /\ e <= d
        BY <1>4, <1>5, <1>6, <2>2, <3>2
      <4>2. QED
        BY <4>1, FewerMarks
    <3>3. QED
      BY <3>1, <3>2
  <2>3. QED
    BY <1>1, <1>4, <1>6, <2>1, <2>2, MarksKept
<1>7. CASE Unaffected
  <2>1. pending' = pending
    BY <1>7 DEF Unaffected, dataVars
  <2>2. CASE ~OpensNested(t, x)
    BY <1>1, <1>2, <1>6, <2>1, <2>2
  <2>3. CASE OpensNested(t, x)
    <3>1. phase[t] = "savepoint" /\ Done(t, x) /\ call[t].n \in Int
      BY <1>4, <2>3 DEF OpensNested, TypeInv, CallTypes
    <3>2. PICK r \in Sessions :
             /\ Becomes(x, r) /\ r.savepoints = Append(s, Savepoint(call[t].n, P))
             /\ Savepoint(call[t].n, P) \in Marks
      BY <1>1, <1>2, <1>4, <3>1, MarkSet
    <3>3. pending'[x].savepoints = Append(s, Savepoint(call[t].n, P))
      BY <1>4, <3>2 DEF Becomes, DataTypes
    <3>4. Len(Append(s, Savepoint(call[t].n, P))) = Len(s) + 1 /\ Len(s) \in Nat
      BY <3>2, AppendProperties, LenProperties
    <3>5. Len(s) + 1 # Len(s)
      BY <3>4
    <3>6. QED
      BY <1>1, <2>1, <3>3, <3>4, <3>5
  <2>4. QED
    BY <2>2, <2>3
\* The transaction ends: the task has no block there, or ends its top-level one.
<1>8. ASSUME pending'[x] = Idle, ~OpensNested(t, x), ~PopsNested(t, x), ~OpensBlock(t, x),
             phase[t] \in {"commit", "rollback"} \/ FramesOn(t, x) = {} \/ FramesOn(t, x)' = {},
             On(t) = x
      PROVE  MarksNow(t, x, d, e)
  <2>1. pending'[x].savepoints = <<>> /\ Positive(<<>>) /\ Growing(<<>>, pending'[x].writes)
    BY <1>8, IdleSession, NothingMarked
  <2>2. ASSUME FramesOn(t, x)' # {}
        PROVE  e = 0
    <3>1. FramesOn(t, x) # {} /\ e = d
      BY <1>5, <1>8, <2>2
    <3>2. phase[t] \in {"commit", "rollback"}
      BY <1>8, <2>2, <3>1
    <3>3. stack[t] # <<>> /\ Top(t).adapter = x
      BY <1>4, <1>8, <3>2, BusyIsOnIt, Kinds
    <3>4. d \in Nat /\ Top(t).level = d
      BY <1>3, <1>4, <3>3, TopLevel
    <3>5. ~(Top(t).level > 0)
      BY <1>4, <3>2, Kinds DEF PhasesInv
    <3>6. QED
      BY <3>1, <3>4, <3>5
  <2>3. FramesOn(t, x)' # {} => MarkedUpTo(<<>>, e) /\ 1..e = {}
    BY <2>2, NothingMarked
  <2>4. QED
    BY <2>1, <2>3, MarksKept
<1>9. CASE phase[t] = "give back" /\ On(t) = x /\ RolledBack(x)
  <2>1. pending'[x] = Idle
    BY <1>4, <1>9, EndedStep
  <2>2. FramesOn(t, x) = {}
    BY <1>9, NoBlocksOfOwn
  <2>3. ~OpensNested(t, x) /\ ~PopsNested(t, x) /\ ~OpensBlock(t, x)
    BY <1>9 DEF OpensNested, PopsNested, OpensBlock
  <2>4. QED
    BY <1>8, <1>9, <2>1, <2>2, <2>3
<1>10. CASE phase[t] \in Calls /\ On(t) = x /\ Done(t, x) /\ ~Unaffected
  <2>1. CASE phase[t] \in {"savepoint"}
    <3>1. call[t].n \in Int
      BY <1>4 DEF TypeInv, CallTypes
    <3>2. PICK m \in Marks : m = Savepoint(call[t].n, P)
      BY <1>2, <1>4, <1>10, <2>1, <3>1, MarkSet
    <3>3. PICK r \in Sessions : /\ Becomes(x, r) /\ r.savepoints = Append(s, m) /\ r.writes = P
      BY <1>1, <1>2, <1>4, <1>10, <2>1, <3>1, <3>2, MarkSet
    <3>4. pending'[x].savepoints = Append(s, m) /\ pending'[x].writes = P
      BY <1>4, <3>3 DEF Becomes, DataTypes
    <3>5. m.name = call[t].n /\ m.writes = P
      BY <3>2 DEF Savepoint
    <3>6. FramesOn(t, x) # {} /\ call[t].n = registry[x]
      BY <1>4, <1>10, <2>1 DEF SessionsInv, Nested, In
    <3>7. d \in Nat /\ MarkedUpTo(s, d) /\ m.name = d + 1 /\ m.name > d
      <4>1. d = registry[x] - 1 /\ registry[x] \in Int /\ d \in Nat /\ MarkedUpTo(s, d)
        BY <1>3, <1>4, <1>10, <2>1, <3>6, DepthFacts DEF TypeInv
      <4>2. QED
        BY <3>5, <3>6, <4>1
    <3>8. PICK q : q = Append(s, m)
      OBVIOUS
    <3>9. /\ MarkedUpTo(q, d) /\ Positive(q) /\ Growing(q, P)
          /\ \A k \in 1..d : MarkIn(q, k) = MarkIn(s, k)
          /\ MarkedUpTo(q, d + 1) /\ MarkIn(q, d + 1) = P
      BY <1>4, <3>5, <3>7, <3>8, MarkAppended
    <3>10. ASSUME FramesOn(t, x)' # {}
           PROVE  /\ MarkedUpTo(q, e)
                  /\ \A k \in 1..e : IF OpensNested(t, x) /\ k = e THEN MarkIn(q, k) = P
                                     ELSE k \in 1..d /\ MarkIn(q, k) = MarkIn(s, k)
      <4>1. ~OpensBlock(t, x) /\ ~PopsNested(t, x)
        BY <2>1 DEF OpensBlock, PopsNested
      <4>2. CASE stack' = stack /\ e = d
        <5>1. ~OpensNested(t, x)
          <6>1. SUFFICES ASSUME OpensNested(t, x)
                         PROVE  FALSE
            OBVIOUS
          <6>2. e = d + 1
            <7>1. Depth(t, x)' = registry'[x] /\ Depth(t, x) = registry[x] - 1 /\ registry' = registry
              BY <6>1, DepthFacts DEF OpensNested
            <7>2. registry[x] \in Int
              BY <1>4 DEF TypeInv
            <7>3. QED
              BY <1>3, <7>1, <7>2
          <6>3. QED
            BY <3>7, <4>2, <6>2
        <5>2. QED
          BY <3>9, <4>2, <5>1
      <4>3. CASE OpensNested(t, x) /\ e = d + 1
        <5>1. \A k \in 1..(d + 1) : k = d + 1 \/ k \in 1..d
          BY <3>7
        <5>2. QED
          BY <3>9, <4>3, <5>1
      <4>4. QED
        BY <1>5, <3>10, <4>1, <4>2, <4>3
    <3>11. QED
      BY <1>1, <1>2, <3>4, <3>8, <3>9, <3>10, MarksKept
  <2>2. CASE phase[t] \in {"release", "drop", "undo"}
    <3>1. /\ stack[t] # <<>> /\ Top(t).adapter = x /\ FramesOn(t, x) # {}
      BY <1>4, <1>10, <2>2, BusyIsOnIt, Kinds
    <3>2. d \in Nat /\ Top(t).level = d /\ MarkedUpTo(s, d)
      BY <1>3, <1>4, <3>1, TopLevel
    <3>3. d > 0
      BY <1>4, <2>2, <3>2, Kinds DEF PhasesInv
    <3>4. ~OpensNested(t, x) /\ ~OpensBlock(t, x)
      BY <2>2 DEF OpensNested, OpensBlock
    <3>5. CASE phase[t] \in {"release", "drop"}
      <4>1. PICK q : q = SubSeq(s, 1, LastIn(s, d) - 1)
        OBVIOUS
      <4>2. PICK r \in Sessions : Becomes(x, r) /\ r.savepoints = q /\ r.writes = P
        BY <1>1, <1>2, <1>4, <1>10, <3>2, <3>3, <3>5, <4>1, MarkDropped
      <4>3. pending'[x].savepoints = q /\ pending'[x].writes = P
        BY <1>4, <4>2 DEF Becomes, DataTypes
      <4>4. /\ Positive(q) /\ Growing(q, P) /\ MarkedUpTo(q, d - 1)
            /\ \A k \in 1..(d - 1) : MarkIn(q, k) = MarkIn(s, k)
        BY <1>4, <3>2, <3>3, <4>1, MarkReleased
      <4>5. \A k \in 1..(d - 1) : k \in 1..d
        BY <3>2
      <4>6. FramesOn(t, x)' # {} => e = d - 1
        <5>1. stack' # stack \/ FramesOn(t, x)' = {}
          <6>1. PopsNested(t, x)
            <7>1. ~Rests(t, x)
              <8>1. Rests(t, x) => Unaffected
                BY DEF Rests, Unaffected
              <8>2. QED
                BY <1>10, <8>1
            <7>2. QED
              BY <3>5, <7>1, Kinds DEF Step, Kind, Starts, EndsBody, Proceeds, OpensBlock, OpensNested,
                 EndsBlock, PopsBlock, Leaves, GivesBack
          <6>2. ToSet(stack'[t]) = ToSet(stack[t]) \ {Top(t)}
            BY <6>1, PoppedNested
          <6>3. Top(t) \in ToSet(stack[t])
            BY <1>4, <3>1, TopIsDeepest
          <6>4. QED
            BY <6>2, <6>3
        <5>2. QED
          BY <1>5, <3>4, <5>1
      <4>7. QED
        BY <1>1, <3>4, <4>3, <4>4, <4>5, <4>6, MarksKept
    <3>6. CASE phase[t] = "undo"
      <4>1. PICK q : q = SubSeq(s, 1, LastIn(s, d))
        OBVIOUS
      <4>2. PICK r \in Sessions : Becomes(x, r) /\ r.savepoints = q /\ r.writes = MarkIn(s, d)
        BY <1>1, <1>4, <1>10, <3>2, <3>3, <3>6, <4>1, MarkTaken
      <4>3. pending'[x].savepoints = q /\ pending'[x].writes = MarkIn(s, d)
        BY <1>4, <4>2 DEF Becomes, DataTypes
      <4>4. /\ Positive(q) /\ Growing(q, MarkIn(s, d)) /\ MarkedUpTo(q, d)
            /\ \A k \in 1..d : MarkIn(q, k) = MarkIn(s, k)
        BY <1>4, <3>2, <3>3, <4>1, MarkUndone
      <4>5. FramesOn(t, x)' # {} => e \in Nat /\ e <= d
        BY <1>4, <1>5, <3>2, <3>4
      <4>6. FramesOn(t, x)' # {} => MarkedUpTo(q, e) /\ 1..e \subseteq 1..d
        BY <3>2, <4>4, <4>5, FewerMarks
      <4>7. QED
        BY <1>1, <3>4, <4>3, <4>4, <4>6, MarksKept
    <3>7. QED
      BY <2>2, <3>5, <3>6
  <2>3. CASE phase[t] = "write"
    <3>1. ~OpensNested(t, x)
      BY <2>3 DEF OpensNested
    <3>2. CASE Held(x)
      <4>1. PICK r \in Sessions : Becomes(x, r) /\ P \subseteq r.writes /\ r.savepoints = s
        <5>1. PICK w : \E r \in Sessions : /\ Becomes(x, r) /\ r.writes = pending[x].writes \cup {w}
                                           /\ r.savepoints = pending[x].savepoints
          BY <1>4, <1>10, <2>3, <3>2, WriteDone
        <5>2. QED
          BY <1>1, <1>2, <5>1
      <4>2. pending'[x].savepoints = s /\ P \subseteq pending'[x].writes
        BY <1>4, <4>1 DEF Becomes, DataTypes
      <4>3. QED
        BY <1>6, <3>1, <4>2
    <3>3. CASE ~Held(x)
      <4>1. pending' = pending
        BY <1>4, <1>10, <2>3, <3>3, WriteDone
      <4>2. QED
        BY <1>1, <1>2, <1>6, <3>1, <4>1
    <3>4. QED
      BY <3>2, <3>3
  <2>4. CASE phase[t] = "begin"
    <3>1. pending' = pending
      BY <1>10, <2>4, DoneOtherwise
    <3>2. ~OpensNested(t, x)
      BY <2>4 DEF OpensNested
    <3>3. QED
      BY <1>1, <1>2, <1>6, <3>1, <3>2
  <2>5. CASE phase[t] \in {"commit", "rollback", "close", "commit write", "undo write"}
    <3>1. Committed(x) \/ RolledBack(x)
      BY <1>10, <2>5, DoneOtherwise
    <3>2. pending'[x] = Idle
      BY <1>4, <3>1, EndedStep
    <3>3. ~OpensNested(t, x) /\ ~PopsNested(t, x) /\ ~OpensBlock(t, x)
      BY <2>5 DEF OpensNested, PopsNested, OpensBlock
    <3>4. phase[t] \in {"commit write", "undo write"} => FramesOn(t, x) = {}
      BY <1>10, NoBlocksOfOwn
    <3>5. phase[t] = "close" => FramesOn(t, x)' = {}
      <4>1. phase[t] = "close" => Rests(t, x) \/ PopsBlock(t, x)
        BY Kinds DEF Step, Kind, Starts, EndsBody, Proceeds, OpensBlock, OpensNested,
           EndsBlock, PopsNested, PopsBlock, Leaves, GivesBack
      <4>2. ~Rests(t, x)
        BY <1>10 DEF Rests, Unaffected
      <4>3. QED
        BY <4>1, <4>2, PoppedBlock
    <3>6. QED
      BY <1>8, <1>10, <2>5, <3>2, <3>3, <3>4, <3>5
  <2>6. CASE phase[t] = "cursor"
    BY <1>10, <2>6, DoneOtherwise
  <2>7. QED
    BY <1>10, <2>1, <2>2, <2>3, <2>4, <2>5, <2>6 DEF Calls, BlockCalls
<1>11. QED
  BY <1>7, <1>9, <1>10, DataKinds

LEMMA SavepointsNext ==
    ASSUME Inv, NEW t \in Tasks, NEW x \in Adapters, Step(t, x), Focus(t, x), SessionsInv'
    PROVE  SavepointsInv'
<1>1. PICK e : e = Depth(t, x)' /\ MarksNow(t, x, Depth(t, x), e)
  BY MarksNext
<1>2. ASSUME NEW a \in Adapters
      PROVE  Positive(pending[a].savepoints)' /\ Growing(pending[a].savepoints, pending[a].writes)'
  <2>1. CASE a = x
    BY <1>1, <2>1 DEF MarksNow
  <2>2. CASE a # x
    <3>1. pending'[a] = pending[a]
      BY <2>2, ElsewhereSame
    <3>2. QED
      BY <3>1 DEF Inv, BlocksInv, SavepointsInv, Positive, Growing
  <2>3. QED
    BY <2>1, <2>2
<1>3. ASSUME NEW a \in Adapters, NEW u \in Tasks, FramesOn(u, a)' # {}
      PROVE  /\ MarkedUpTo(pending[a].savepoints, Depth(u, a))'
             /\ Control[a] # "driver" /\ ~In(u, {"begin", "rollback", "close"}, a)' => inBlock'[a]
  <2>1. CASE a = x
    <3>1. u = t
      BY <1>3, <2>1, OthersAway
    <3>2. MarkedUpTo(pending[a].savepoints, Depth(u, a))'
      BY <1>1, <1>3, <2>1, <3>1 DEF MarksNow, MarkedUpTo, NamedIn, LastIn
    <3>3. ASSUME Control[x] # "driver", ~In(t, {"begin", "rollback", "close"}, x)'
          PROVE  inBlock'[x]
      <4>1. phase'[t] \notin {"begin", "rollback", "close"}
        BY <3>3 DEF In, Focus
      <4>2. QED
        BY <1>3, <2>1, <3>1, <3>3, <4>1, InBlockNext
    <3>4. QED
      BY <2>1, <3>1, <3>2, <3>3
  <2>2. CASE a # x
    <3>1. /\ FramesOn(u, a) # {} /\ Depth(u, a)' = Depth(u, a)
          /\ pending'[a] = pending[a] /\ inBlock'[a] = inBlock[a]
          /\ IF u = t THEN Quiet(u, a) /\ Quiet(u, a)'
                      ELSE phase'[u] = phase[u] /\ On(u)' = On(u)
      BY <1>3, <2>2, ElsewhereSame
    <3>2. ~In(u, {"begin", "rollback", "close"}, a)' => ~In(u, {"begin", "rollback", "close"}, a)
      BY <3>1 DEF In, Quiet
    <3>3. /\ MarkedUpTo(pending[a].savepoints, Depth(u, a))
          /\ Control[a] # "driver" /\ ~In(u, {"begin", "rollback", "close"}, a) => inBlock[a]
      BY <3>1 DEF Inv, BlocksInv, SavepointsInv
    <3>4. MarkedUpTo(pending[a].savepoints, Depth(u, a))'
      BY <3>1, <3>3 DEF MarkedUpTo, NamedIn, LastIn
    <3>5. QED
      BY <3>1, <3>2, <3>3, <3>4
  <2>3. QED
    BY <2>1, <2>2
<1>4. QED
  BY <1>2, <1>3 DEF SavepointsInv

-----------------------------------------------------------------------------
(* The writes of a transaction *)

\* The same after a step, for what the step makes of the parts.
LEMMA BelongsNext ==
    ASSUME NEW t, NEW x, NEW w,
           \A b \in w.within : outcome'[b] \in Keeping \/ b \in BlocksOn(t, x)',
           In(t, {"begin", "close"}, x)' => LeftOver(w)',
           In(t, {"rollback"}, x)' => outcome'[Top(t)'.block] = "failed",
           In(t, {"drop"}, x)' => Top(t)'.block \notin w.within,
           \A f \in FramesOn(t, x)' :
              IF f.level = 0 THEN f.block \in w.within \/ LeftOver(w)'
              ELSE w \in MarkIn(pending'[x].savepoints, f.level) <=> f.block \notin w.within
    PROVE  Belongs(t, x, w)'
  BY DEF Belongs, MarkIn, LastIn, NamedIn, LeftOver, Keeping

\* The writes held on the adapter of a step are those there were, but for the
\* one that the step made, and those that it took back.
LEMMA HeldNext ==
    ASSUME Inv, NEW t \in Tasks, NEW x \in Adapters, Step(t, x), Focus(t, x)
    PROVE  /\ \A w \in pending'[x].writes :
                 \/ w \in pending[x].writes
                 \/ phase[t] = "write" /\ Done(t, x) /\ w.within = BlocksOn(t, x)
           /\ phase[t] = "undo" /\ Done(t, x) =>
                 pending'[x].writes = MarkIn(pending[x].savepoints, Depth(t, x))
           /\ phase[t] \in {"commit", "rollback"} /\ Done(t, x) => pending'[x].writes = {}
           /\ phase[t] \in {"savepoint", "release", "drop", "begin", "write"} /\ Done(t, x) =>
                 pending[x].writes \subseteq pending'[x].writes
<1>1. /\ LockInv /\ StacksInv /\ PhasesInv /\ DataTypes /\ SessionsInv /\ TypeInv
      /\ phase[t] # "user" => On(t) = x
  BY DEF Inv, LockInv, BlocksInv, Focus
<1>2. ASSUME phase[t] \in {"release", "drop", "undo"}
      PROVE  \E d \in Nat : /\ d = Depth(t, x) /\ d = Top(t).level /\ d > 0
                            /\ MarkedUpTo(pending[x].savepoints, d)
  <2>1. stack[t] # <<>> /\ Top(t).adapter = x /\ FramesOn(t, x) # {} /\ phase[t] \in BlockCalls
    BY <1>1, <1>2, BusyIsOnIt, Kinds
  <2>2. Depth(t, x) \in Nat /\ Top(t).level = Depth(t, x)
    BY <1>1, <2>1, TopLevel
  <2>3. Top(t).level > 0
    BY <1>1, <1>2, <2>1 DEF PhasesInv
  <2>4. MarkedUpTo(pending[x].savepoints, Depth(t, x))
    BY <2>1 DEF Inv, BlocksInv, SavepointsInv
  <2>5. QED
    BY <2>2, <2>3, <2>4
<1>3. ASSUME phase[t] = "undo", Done(t, x)
      PROVE  /\ pending'[x].writes = MarkIn(pending[x].savepoints, Depth(t, x))
             /\ \A w \in pending'[x].writes : w \in pending[x].writes
  <2>1. PICK d \in Nat : /\ d = Depth(t, x) /\ d = Top(t).level /\ d > 0
                         /\ MarkedUpTo(pending[x].savepoints, d)
    BY <1>2, <1>3
  <2>2. PICK r \in Sessions : Becomes(x, r) /\ r.writes = MarkIn(pending[x].savepoints, d)
    BY <1>1, <1>3, <2>1, MarkTaken
  <2>3. pending'[x].writes = MarkIn(pending[x].savepoints, d)
    BY <1>1, <2>2 DEF Becomes, DataTypes
  <2>4. MarkIn(pending[x].savepoints, d) \subseteq pending[x].writes
    <3>1. pending[x].savepoints \in Seq(Marks) /\ Growing(pending[x].savepoints, pending[x].writes)
      BY SessionTypes DEF Inv, BlocksInv, SavepointsInv
    <3>2. QED
      BY <2>1, <3>1, MarkUndone
  <2>5. QED
    BY <2>1, <2>3, <2>4
<1>4. ASSUME phase[t] \in {"commit", "rollback", "close", "commit write", "undo write"}, Done(t, x)
      PROVE  /\ phase[t] \in {"commit", "rollback"} => pending'[x].writes = {}
             /\ \A w \in pending'[x].writes : w \in pending[x].writes
  <2>1. /\ Committed(x) \/ RolledBack(x) \/ Unaffected
        /\ phase[t] \in {"commit", "rollback"} => Committed(x) \/ RolledBack(x)
    BY <1>4, DoneOtherwise, Kinds
  <2>2. Committed(x) \/ RolledBack(x) => pending'[x].writes = {}
    BY <1>1, EndedStep, IdleSession
  <2>3. Unaffected => pending' = pending
    BY DEF Unaffected, dataVars
  <2>4. QED
    BY <2>1, <2>2, <2>3
<1>5. ASSUME phase[t] \in {"savepoint", "release", "drop", "begin", "cursor"}, Done(t, x)
      PROVE  pending'[x].writes = pending[x].writes
  <2>1. CASE phase[t] = "savepoint"
    <3>1. call[t].n \in Int
      BY <1>1 DEF TypeInv, CallTypes
    <3>2. PICK r \in Sessions : Becomes(x, r) /\ r.writes = pending[x].writes
      BY <1>1, <1>5, <2>1, <3>1, MarkSet
    <3>3. QED
      BY <1>1, <3>2 DEF Becomes, DataTypes
  <2>2. CASE phase[t] \in {"release", "drop"}
    <3>1. PICK d \in Nat : d = Top(t).level /\ d > 0 /\ MarkedUpTo(pending[x].savepoints, d)
      BY <1>2, <2>2
    <3>2. PICK r \in Sessions : Becomes(x, r) /\ r.writes = pending[x].writes
      BY <1>1, <1>5, <2>2, <3>1, MarkDropped
    <3>3. QED
      BY <1>1, <3>2 DEF Becomes, DataTypes
  <2>3. CASE phase[t] \in {"begin", "cursor"}
    <3>1. pending' = pending
      BY <1>5, <2>3, DoneOtherwise, Kinds DEF Unaffected, dataVars
    <3>2. QED
      BY <3>1
  <2>4. QED
    BY <1>5, <2>1, <2>2, <2>3
<1>6. ASSUME phase[t] = "write", Done(t, x), NEW w \in pending'[x].writes
      PROVE  w \in pending[x].writes \/ w.within = BlocksOn(t, x)
  <2>1. PICK v \in Writes :
           /\ v = Write(Cardinality(executed) + 1, BlocksOn(t, x))
           /\ IF Held(x)
              THEN \E r \in Sessions : Becomes(x, r) /\ r.writes = pending[x].writes \cup {v}
              ELSE pending' = pending
    BY <1>1, <1>6, WriteDone
  <2>2. v.within = BlocksOn(t, x)
    BY <2>1 DEF Write
  <2>3. CASE Held(x)
    <3>1. PICK r \in Sessions : Becomes(x, r) /\ r.writes = pending[x].writes \cup {v}
      BY <2>1, <2>3
    <3>2. pending'[x].writes = pending[x].writes \cup {v}
      BY <1>1, <3>1 DEF Becomes, DataTypes
    <3>3. QED
      BY <1>6, <2>2, <3>2
  <2>4. CASE ~Held(x)
    BY <1>6, <2>1, <2>4
  <2>5. QED
    BY <2>3, <2>4
<1>7. ASSUME NEW w \in pending'[x].writes
      PROVE  \/ w \in pending[x].writes
             \/ phase[t] = "write" /\ Done(t, x) /\ w.within = BlocksOn(t, x)
  <2>1. CASE Unaffected
    BY <1>7, <2>1 DEF Unaffected, dataVars
  <2>2. CASE RolledBack(x)
    BY <1>1, <1>7, <2>2, EndedStep, IdleSession
  <2>3. CASE phase[t] \in Calls /\ Done(t, x)
    <3>1. \/ phase[t] \in {"savepoint", "release", "drop", "begin", "cursor"}
          \/ phase[t] \in {"commit", "rollback", "close", "commit write", "undo write"}
          \/ phase[t] = "undo" \/ phase[t] = "write"
      BY <2>3 DEF Calls, BlockCalls
    <3>2. QED
      BY <1>3, <1>4, <1>5, <1>6, <1>7, <2>3, <3>1
  <2>4. QED
    BY <2>1, <2>2, <2>3, DataKinds
<1>8. phase[t] \in {"commit", "rollback"} /\ Done(t, x) => pending'[x].writes = {}
  BY <1>4
<1>9. ASSUME phase[t] = "write", Done(t, x)
      PROVE  pending[x].writes \subseteq pending'[x].writes
  <2>1. PICK v \in Writes :
           IF Held(x)
           THEN \E r \in Sessions : Becomes(x, r) /\ r.writes = pending[x].writes \cup {v}
           ELSE pending' = pending
    BY <1>1, <1>9, WriteDone
  <2>2. CASE Held(x)
    <3>1. PICK r \in Sessions : Becomes(x, r) /\ r.writes = pending[x].writes \cup {v}
      BY <2>1, <2>2
    <3>2. QED
      BY <1>1, <3>1 DEF Becomes, DataTypes
  <2>3. CASE ~Held(x)
    BY <2>1, <2>3
  <2>4. QED
    BY <2>2, <2>3
<1>10. QED
  BY <1>3, <1>5, <1>7, <1>8, <1>9

\* A mark that is set holds none but writes of the transaction.
LEMMA MarksHold ==
    ASSUME Inv, NEW x \in Adapters, NEW d \in Nat, MarkedUpTo(pending[x].savepoints, d),
           NEW k \in Nat, k > 0, k <= d
    PROVE  MarkIn(pending[x].savepoints, k) \subseteq pending[x].writes
<1>1. pending[x].savepoints \in Seq(Marks) /\ Growing(pending[x].savepoints, pending[x].writes)
  BY SessionTypes DEF Inv, BlocksInv, SavepointsInv
<1>2. MarkedUpTo(pending[x].savepoints, k)
  BY FewerMarks
<1>3. QED
  BY <1>1, <1>2, MarkUndone

LEMMA WithinBlocks ==
    ASSUME DataTypes, NEW x \in Adapters, NEW w \in pending[x].writes
    PROVE  w.within \subseteq Blocks /\ w \in Writes
  BY SessionTypes DEF Writes

\* The transaction of an adapter ends at the end of its top-level block.
LEMMA OneBlockLeft ==
    ASSUME Inv, NEW t \in Tasks, NEW x \in Adapters, On(t) = x, phase[t] \in {"commit", "rollback"}
    PROVE  /\ stack[t] # <<>> /\ FramesOn(t, x) = {Top(t)} /\ Top(t).level = 0
           /\ BlocksOn(t, x) = {Top(t).block} /\ Top(t).block \in Blocks
           /\ outcome[Top(t).block] \in Endings(phase[t])
<1>1. TypeInv /\ StacksInv /\ PhasesInv /\ LockInv /\ SessionsInv
  BY DEF Inv, LockInv, BlocksInv
<1>2. stack[t] # <<>> /\ Top(t).adapter = x /\ Top(t) \in FramesOn(t, x)
  BY <1>1, BusyIsOnIt, Kinds
<1>3. Top(t).level = Depth(t, x) /\ Depth(t, x) \in Nat
  BY <1>1, <1>2, TopLevel
<1>4. ~(Top(t).level > 0)
  BY <1>1, Kinds DEF PhasesInv
<1>5. Top(t).level = 0 /\ Depth(t, x) = 0
  BY <1>3, <1>4
<1>6. ASSUME NEW g \in FramesOn(t, x)
      PROVE  g = Top(t)
  <2>1. {f.level : f \in FramesOn(t, x)} = 0..0
    BY <1>1, <1>2, <1>5 DEF SessionsInv, Nested
  <2>2. g.level = 0
    BY <2>1
  <2>3. g \in ToSet(stack[t]) /\ g.adapter = x
    BY DEF FramesOn
  <2>4. QED
    BY <1>1, <1>2, <1>5, <2>2, <2>3, TopIsDeepest
<1>7. FramesOn(t, x) = {Top(t)}
  BY <1>2, <1>6
<1>8. Top(t) \in Frames /\ outcome[Top(t).block] \in Endings(phase[t])
  BY <1>1, <1>2, TopIsDeepest, BlockIsOpened
<1>9. QED
  BY <1>2, <1>5, <1>7, <1>8 DEF BlocksOn, Frames

\* What was left over stays so.
LEMMA LeftOverStays ==
    ASSUME NEW t, OutcomesMove(t), NEW w, w.within \subseteq Blocks, LeftOver(w)
    PROVE  LeftOver(w)'
<1>1. \A b \in w.within : outcome'[b] = outcome[b]
  BY OutcomeSettled DEF LeftOver
<1>2. QED
  BY <1>1 DEF LeftOver

\* The step keeps what is known of a write, block by block.
LEMMA WriteKept ==
    ASSUME Inv, NEW t \in Tasks, NEW x \in Adapters, Step(t, x), Focus(t, x), SessionsInv',
           NEW w \in pending[x].writes, w \in pending'[x].writes,
           FramesOn(t, x) # {}, Belongs(t, x, w), FramesOn(t, x)' # {}
    PROVE  Belongs(t, x, w)'
<1>1. /\ LockInv /\ StacksInv /\ PhasesInv /\ DataTypes /\ SessionsInv /\ TypeInv
      /\ OutcomesMove(t) /\ w.within \subseteq Blocks
  BY StepOutcomes, WithinBlocks DEF Inv, LockInv, BlocksInv
<1>2. PICK d \in Nat, e \in Nat : d = Depth(t, x) /\ e = Depth(t, x)'
  BY DEF Inv, BlocksInv, SessionsInv, Nested
<1>3. MarksNow(t, x, d, e)
  BY <1>2, MarksNext
<1>4. \A b \in w.within : outcome[b] \in Keeping => outcome'[b] \in Keeping
  BY <1>1, OutcomeSettled
<1>5. LeftOver(w) => LeftOver(w)'
  BY <1>1, LeftOverStays
<1>6. /\ \A b \in w.within : outcome[b] \in Keeping \/ b \in BlocksOn(t, x)
      /\ In(t, {"begin", "close"}, x) => LeftOver(w)
      /\ In(t, {"rollback"}, x) => outcome[Top(t).block] = "failed"
      /\ In(t, {"drop"}, x) => Top(t).block \notin w.within
      /\ \A f \in FramesOn(t, x) :
            IF f.level = 0 THEN f.block \in w.within \/ LeftOver(w)
            ELSE w \in MarkIn(pending[x].savepoints, f.level) <=> f.block \notin w.within
  BY DEF Belongs
<1>7. /\ \A f \in FramesOn(t, x) : f.level \in 0..d
      /\ \A f \in FramesOn(t, x)' : f.level \in 0..e
  <2>1. {f.level : f \in FramesOn(t, x)} = 0..d
    BY <1>2 DEF Inv, BlocksInv, SessionsInv, Nested
  <2>2. {f.level : f \in FramesOn(t, x)'} = 0..e
    BY <1>2 DEF SessionsInv, Nested
  <2>3. \A f \in FramesOn(t, x)' : f.level \in 0..e
    BY <2>2
  <2>4. QED
    BY <2>1, <2>3
<1>8. \A l \in 0..e : l # 0 => l \in 1..e
  OBVIOUS
\* The savepoints of the blocks that were there before.
<1>9. ASSUME NEW f \in FramesOn(t, x), f.level \in 0..e, ~(OpensNested(t, x) /\ f.level = e)
      PROVE  IF f.level = 0 THEN f.block \in w.within \/ LeftOver(w)'
             ELSE w \in MarkIn(pending'[x].savepoints, f.level) <=> f.block \notin w.within
  <2>1. CASE f.level = 0
    BY <1>5, <1>6, <2>1
  <2>2. CASE f.level # 0
    <3>1. f.level \in 1..e
      BY <1>8, <1>9, <2>2
    <3>2. MarkIn(pending'[x].savepoints, f.level) = MarkIn(pending[x].savepoints, f.level)
      BY <1>3, <1>9, <3>1 DEF MarksNow
    <3>3. QED
      BY <1>6, <2>2, <3>2
  <2>3. QED
    BY <2>1, <2>2
<1>10. CASE stack' = stack /\ e = d
  <2>1. /\ FramesOn(t, x)' = FramesOn(t, x) /\ BlocksOn(t, x)' = BlocksOn(t, x)
        /\ Top(t)' = Top(t) /\ ~OpensNested(t, x)
    <3>1. OpensNested(t, x) => e = d + 1
      <4>1. OpensNested(t, x) => Depth(t, x)' = registry'[x] /\ registry' = registry
                                 /\ Depth(t, x) = registry[x] - 1 /\ registry[x] \in Int
        BY <1>1, DepthFacts DEF OpensNested, TypeInv
      <4>2. QED
        BY <1>2, <4>1
    <3>2. QED
      BY <1>10, <3>1, SameStackView
  <2>2. \A b \in w.within : outcome'[b] \in Keeping \/ b \in BlocksOn(t, x)'
    BY <1>4, <1>6, <2>1
  <2>3. In(t, {"begin", "close"}, x)' => LeftOver(w)'
    <3>1. SUFFICES ASSUME phase'[t] \in {"begin", "close"}
                   PROVE  LeftOver(w)'
      BY DEF In
    <3>2. CASE Rests(t, x)
      BY <1>5, <1>6, <3>1, <3>2 DEF Rests, In
    <3>3. CASE EndsBlock(t, x)
      <4>1. On(t) = x /\ phase[t] \in {"begin", "commit", "rollback"}
            /\ (phase[t] = "commit" => Done(t, x))
            /\ (phase[t] = "rollback" /\ ~Done(t, x) =>
                   outcome' = IF outcome[Top(t).block] = "failed"
                              THEN [outcome EXCEPT ![Top(t).block] = "stranded"] ELSE outcome)
        BY <3>3 DEF EndsBlock
      <4>2. ~(phase[t] \in {"commit", "rollback"} /\ Done(t, x))
        BY HeldNext
      <4>3. CASE phase[t] = "begin"
        BY <1>5, <1>6, <4>1, <4>3 DEF In
      <4>4. CASE phase[t] = "rollback"
        <5>1. outcome[Top(t).block] = "failed"
          BY <1>6, <4>1, <4>4 DEF In
        <5>2. outcome' = [outcome EXCEPT ![Top(t).block] = "stranded"]
          BY <4>1, <4>2, <4>4, <5>1
        <5>3. /\ FramesOn(t, x) = {Top(t)} /\ Top(t).level = 0
              /\ BlocksOn(t, x) = {Top(t).block} /\ Top(t).block \in Blocks
          BY <4>1, <4>4, OneBlockLeft
        <5>4. outcome'[Top(t).block] = "stranded"
          BY <1>1, <5>2, <5>3 DEF DataTypes
        <5>5. Top(t).block \in w.within \/ LeftOver(w)
          BY <1>6, <5>3
        <5>6. \A b \in w.within : outcome'[b] \in Keeping
          BY <1>4, <1>6, <5>3, <5>4 DEF Keeping
        <5>7. QED
          BY <1>5, <5>4, <5>5, <5>6 DEF LeftOver
      <4>5. QED
        BY <4>1, <4>2, <4>3, <4>4
    <3>4. CASE OpensBlock(t, x)
      BY <3>4, PushedDeepest
    <3>5. QED
      BY <2>1, <3>1, <3>2, <3>3, <3>4 DEF Step, Kind, Starts, EndsBody, Proceeds,
         PopsNested, PopsBlock, Leaves, Left, GivesBack
  <2>4. In(t, {"rollback"}, x)' => outcome'[Top(t)'.block] = "failed"
    <3>1. SUFFICES ASSUME phase'[t] = "rollback"
                   PROVE  outcome'[Top(t).block] = "failed"
      BY <2>1 DEF In
    <3>2. CASE Rests(t, x)
      BY <1>6, <3>1, <3>2 DEF Rests, In
    <3>3. CASE EndsBody(t, x) \/ Proceeds(t, x)
      <4>1. Top(t).block \in Blocks
        <5>1. stack[t] # <<>>
          BY <1>1, <3>1, <3>3, BusyIsOnIt, Kinds DEF EndsBody, Proceeds
        <5>2. QED
          BY <1>1, <5>1, TopFacts DEF Frames
      <4>2. outcome' = [outcome EXCEPT ![Top(t).block] = "failed"]
        <5>1. ~(phase[t] = "commit" /\ Done(t, x))
          BY HeldNext
        <5>2. CASE EndsBody(t, x)
          BY <3>1, <5>2 DEF EndsBody
        <5>3. CASE Proceeds(t, x)
          BY <3>1, <5>1, <5>3 DEF Proceeds
        <5>4. QED
          BY <3>3, <5>2, <5>3
      <4>3. QED
        BY <1>1, <4>1, <4>2 DEF DataTypes
    <3>4. QED
      BY <2>1, <3>1, <3>2, <3>3, Kinds DEF Step, Kind, Starts, EndsBlock, OpensBlock,
         PopsNested, PopsBlock, Leaves, Left, GivesBack
  <2>5. In(t, {"drop"}, x)' => Top(t)'.block \notin w.within
    <3>1. SUFFICES ASSUME phase'[t] = "drop"
                   PROVE  Top(t).block \notin w.within
      BY <2>1 DEF In
    <3>2. CASE Rests(t, x)
      BY <1>6, <3>1, <3>2 DEF Rests, In
    <3>3. CASE Proceeds(t, x)
      <4>1. phase[t] = "undo" /\ Done(t, x) /\ On(t) = x
        BY <3>1, <3>3 DEF Proceeds
      <4>2. w \in MarkIn(pending[x].savepoints, d)
        BY <1>2, <4>1, HeldNext
      <4>3. Top(t) \in FramesOn(t, x) /\ Top(t).level > 0 /\ Top(t).level = d
        <5>1. stack[t] # <<>> /\ Top(t).adapter = x /\ Top(t) \in FramesOn(t, x)
          BY <1>1, <4>1, BusyIsOnIt, Kinds
        <5>2. Top(t).level = d
          BY <1>1, <1>2, <5>1, TopLevel
        <5>3. QED
          BY <1>1, <4>1, <5>1, <5>2, Kinds DEF PhasesInv
      <4>4. QED
        BY <1>6, <4>2, <4>3
    <3>4. QED
      BY <2>1, <3>1, <3>2, <3>3, Kinds DEF Step, Kind, Starts, EndsBody, EndsBlock, OpensBlock,
         PopsNested, PopsBlock, Leaves, Left, GivesBack
  <2>6. \A f \in FramesOn(t, x)' :
           IF f.level = 0 THEN f.block \in w.within \/ LeftOver(w)'
           ELSE w \in MarkIn(pending'[x].savepoints, f.level) <=> f.block \notin w.within
    BY <1>7, <1>9, <1>10, <2>1
  <2>7. QED
    BY <2>2, <2>3, <2>4, <2>5, <2>6, BelongsNext
<1>11. CASE PopsNested(t, x)
  <2>1. /\ stack[t] # <<>> /\ Top(t).adapter = x /\ Top(t) \in FramesOn(t, x)
        /\ Top(t).level = d /\ Top(t).level > 0
        /\ FramesOn(t, x)' = FramesOn(t, x) \ {Top(t)}
    BY <1>2, <1>11, PoppedNested
  <2>2. /\ phase[t] \in {"release", "undo", "drop"} /\ On(t) = x /\ phase'[t] \in {"user", "give back"}
        /\ ~OpensNested(t, x)
    BY <1>11 DEF PopsNested, Left, OpensNested
  <2>3. Top(t).block \in w.within => outcome'[Top(t).block] \in Keeping
    <3>1. ASSUME NEW how \in {"ok", "cut", "kept"},
                 outcome' = [outcome EXCEPT ![Top(t).block] = how]
          PROVE  Top(t).block \in w.within => outcome'[Top(t).block] \in Keeping
      <4>1. Top(t).block \in w.within => Top(t).block \in Blocks
        BY <1>1
      <4>2. QED
        BY <1>1, <3>1, <4>1 DEF DataTypes, Keeping
    <3>2. CASE phase[t] = "undo" /\ Done(t, x)
      <4>1. w \in MarkIn(pending[x].savepoints, d)
        BY <1>2, <2>2, <3>2, HeldNext
      <4>2. QED
        BY <1>6, <2>1, <4>1
    <3>3. CASE phase[t] = "drop"
      BY <1>6, <2>2, <3>3 DEF In
    <3>4. phase[t] = "release" \/ (phase[t] = "undo" /\ ~Done(t, x)) =>
             \E how \in {"ok", "cut", "kept"} : outcome' = [outcome EXCEPT ![Top(t).block] = how]
      BY <1>11 DEF PopsNested
    <3>5. QED
      BY <2>2, <3>1, <3>2, <3>3, <3>4
  <2>4. \A b \in w.within : outcome'[b] \in Keeping \/ b \in BlocksOn(t, x)'
    <3>1. ASSUME NEW b \in w.within, b \in BlocksOn(t, x), b # Top(t).block
          PROVE  b \in BlocksOn(t, x)'
      <4>1. PICK f \in FramesOn(t, x) : b = f.block
        BY <3>1 DEF BlocksOn
      <4>2. f \in FramesOn(t, x)'
        BY <2>1, <3>1, <4>1
      <4>3. QED
        BY <4>1, <4>2 DEF BlocksOn
    <3>2. QED
      BY <1>4, <1>6, <2>3, <3>1
  <2>5. ~In(t, {"begin", "close"}, x)' /\ ~In(t, {"rollback"}, x)' /\ ~In(t, {"drop"}, x)'
    BY <2>2 DEF In
  <2>6. \A f \in FramesOn(t, x)' :
           IF f.level = 0 THEN f.block \in w.within \/ LeftOver(w)'
           ELSE w \in MarkIn(pending'[x].savepoints, f.level) <=> f.block \notin w.within
    BY <1>7, <1>9, <2>1, <2>2
  <2>7. QED
    BY <2>4, <2>5, <2>6, BelongsNext
<1>12. CASE OpensNested(t, x) /\ e = d + 1
  <2>1. PICK f \in Frames :
           /\ outcome[f.block] = "unused" /\ f.adapter = x /\ f.level = d + 1
           /\ \A g \in FramesOn(t, x) : g.level < f.level
           /\ stack' = [stack EXCEPT ![t] = Append(stack[t], f)]
    BY <1>2, <1>12, PushedDeepest
  <2>2. FramesOn(t, x)' = FramesOn(t, x) \cup {f}
    BY <1>1, <2>1, PushView
  <2>3. f.block \notin w.within
    <3>1. \A b \in BlocksOn(t, x) : outcome[b] # "unused"
      <4>1. ASSUME NEW g \in FramesOn(t, x)
            PROVE  outcome[g.block] # "unused"
        <5>1. g \in ToSet(stack[t])
          BY DEF FramesOn
        <5>2. QED
          BY <1>1, <5>1, BlockIsOpened
      <4>2. QED
        BY <4>1 DEF BlocksOn
    <3>2. QED
      BY <1>6, <2>1, <3>1 DEF Keeping
  <2>4. \A b \in w.within : outcome'[b] \in Keeping \/ b \in BlocksOn(t, x)'
    <3>1. ASSUME NEW b \in BlocksOn(t, x)
          PROVE  b \in BlocksOn(t, x)'
      BY <2>2 DEF BlocksOn
    <3>2. QED
      BY <1>4, <1>6, <3>1
  <2>5. ~In(t, {"begin", "close"}, x)' /\ ~In(t, {"rollback"}, x)' /\ ~In(t, {"drop"}, x)'
    BY <1>12 DEF In, OpensNested
  <2>6. ASSUME NEW g \in FramesOn(t, x)'
        PROVE  IF g.level = 0 THEN g.block \in w.within \/ LeftOver(w)'
               ELSE w \in MarkIn(pending'[x].savepoints, g.level) <=> g.block \notin w.within
    <3>1. CASE g = f
      <4>1. e \in 1..e /\ g.level = e /\ g.level # 0
        BY <1>12, <2>1, <3>1
      <4>2. MarkIn(pending'[x].savepoints, e) = pending[x].writes
        BY <1>3, <1>12, <4>1 DEF MarksNow
      <4>3. QED
        BY <2>3, <3>1, <4>1, <4>2
    <3>2. CASE g # f
      <4>1. g \in FramesOn(t, x)
        BY <2>2, <3>2
      <4>2. g.level \in 0..e /\ g.level # e
        <5>1. g.level < d + 1 /\ g.level \in 0..d
          BY <1>7, <2>1, <4>1
        <5>2. \A l \in 0..d : l \in 0..(d + 1) /\ l # d + 1
          OBVIOUS
        <5>3. QED
          BY <1>12, <5>1, <5>2
      <4>3. QED
        BY <1>9, <4>1, <4>2
    <3>3. QED
      BY <3>1, <3>2
  <2>7. QED
    BY <2>4, <2>5, <2>6, BelongsNext
<1>13. ~OpensBlock(t, x)
  BY PushedDeepest
<1>14. QED
  BY <1>2, <1>10, <1>11, <1>12, <1>13, DepthMoves

\* The write that a step makes.
LEMMA WriteMade ==
    ASSUME Inv, NEW t \in Tasks, NEW x \in Adapters, Step(t, x), Focus(t, x), SessionsInv',
           phase[t] = "write", Done(t, x), FramesOn(t, x) # {},
           NEW w, w.within = BlocksOn(t, x), w \notin pending[x].writes
    PROVE  Belongs(t, x, w)'
<1>1. /\ LockInv /\ StacksInv /\ SessionsInv /\ TypeInv
      /\ stack' = stack /\ phase'[t] \notin {"begin", "close", "rollback", "drop"} /\ ~OpensNested(t, x)
  <2>1. Rests(t, x) \/ Proceeds(t, x) \/ Leaves(t, x)
    BY Kinds DEF Step, Kind, Starts, EndsBody, OpensBlock, OpensNested,
         EndsBlock, PopsNested, PopsBlock, GivesBack
  <2>2. stack' = stack /\ phase'[t] \notin {"begin", "close", "rollback", "drop"}
    BY <2>1 DEF Rests, Proceeds, Leaves, Left
  <2>3. QED
    BY <2>2 DEF OpensNested, Inv, LockInv, BlocksInv
<1>2. FramesOn(t, x)' = FramesOn(t, x) /\ BlocksOn(t, x)' = BlocksOn(t, x)
  BY <1>1, SameStackView
<1>3. PICK d \in Nat : /\ d = Depth(t, x) /\ MarkedUpTo(pending[x].savepoints, d)
                       /\ {f.level : f \in FramesOn(t, x)} = 0..d
  <2>1. Depth(t, x) \in Nat /\ {f.level : f \in FramesOn(t, x)} = 0..Depth(t, x)
    BY DEF Inv, BlocksInv, SessionsInv, Nested
  <2>2. MarkedUpTo(pending[x].savepoints, Depth(t, x))
    BY DEF Inv, BlocksInv, SavepointsInv
  <2>3. QED
    BY <2>1, <2>2
<1>4. PICK e \in Nat : /\ e = Depth(t, x)' /\ MarksNow(t, x, d, e)
                       /\ {f.level : f \in FramesOn(t, x)'} = 0..e
  <2>1. PICK e : e = Depth(t, x)' /\ MarksNow(t, x, d, e)
    BY <1>3, MarksNext
  <2>2. Nested(t, x)' /\ FramesOn(t, x)' # {}
    BY <1>2 DEF SessionsInv
  <2>3. e \in Nat /\ {f.level : f \in FramesOn(t, x)'} = 0..e
    BY <2>1, <2>2 DEF Nested
  <2>4. QED
    BY <2>1, <2>3
<1>5. ~In(t, {"begin", "close"}, x)' /\ ~In(t, {"rollback"}, x)' /\ ~In(t, {"drop"}, x)'
  BY <1>1 DEF In
<1>6. ASSUME NEW f \in FramesOn(t, x)'
      PROVE  IF f.level = 0 THEN f.block \in w.within \/ LeftOver(w)'
             ELSE w \in MarkIn(pending'[x].savepoints, f.level) <=> f.block \notin w.within
  <2>1. f.block \in w.within
    BY <1>2 DEF BlocksOn
  <2>2. CASE f.level # 0
    <3>1. f.level \in 1..e
      <4>1. f.level \in 0..e
        BY <1>4
      <4>2. QED
        BY <2>2, <4>1
    <3>2. /\ MarkIn(pending'[x].savepoints, f.level) = MarkIn(pending[x].savepoints, f.level)
          /\ f.level \in 1..d
      BY <1>1, <1>2, <1>4, <3>1 DEF MarksNow
    <3>3. MarkIn(pending[x].savepoints, f.level) \subseteq pending[x].writes
      <4>1. f.level \in Nat /\ f.level > 0 /\ f.level <= d
        BY <3>2
      <4>2. QED
        BY <1>3, <4>1, MarksHold
    <3>4. QED
      BY <2>1, <2>2, <3>2, <3>3
  <2>3. QED
    BY <2>1, <2>2
<1>7. \A b \in w.within : b \in BlocksOn(t, x)'
  BY <1>2
<1>8. QED
  BY <1>5, <1>6, <1>7, BelongsNext

LEMMA WritesNext ==
    ASSUME Inv, NEW t \in Tasks, NEW x \in Adapters, Step(t, x), Focus(t, x), SessionsInv'
    PROVE  WritesInv'
<1>1. /\ LockInv /\ StacksInv /\ PhasesInv /\ DataTypes /\ SessionsInv /\ TypeInv /\ OutcomesMove(t)
  BY StepOutcomes DEF Inv, LockInv, BlocksInv
<1>2. \A a \in Adapters : \A w \in pending[a].writes :
         /\ Vacant(a) => LeftOver(w)
         /\ \A u \in Tasks : FramesOn(u, a) # {} => Belongs(u, a, w)
  BY DEF Inv, BlocksInv, WritesInv
<1>3. ASSUME NEW a \in Adapters, NEW w \in pending[a].writes, LeftOver(w)
      PROVE  LeftOver(w)'
  BY <1>1, <1>3, WithinBlocks, LeftOverStays
<1>4. ASSUME NEW w \in pending'[x].writes
      PROVE  /\ FramesOn(t, x)' = {} => LeftOver(w)'
             /\ FramesOn(t, x)' # {} => Belongs(t, x, w)'
  <2>1. \/ w \in pending[x].writes
        \/ w \notin pending[x].writes /\ phase[t] = "write" /\ Done(t, x) /\ w.within = BlocksOn(t, x)
    BY <1>4, HeldNext
  <2>2. CASE w \in pending[x].writes
    <3>1. CASE FramesOn(t, x) = {}
      <4>1. LeftOver(w)'
        BY <1>2, <1>3, <2>2, <3>1, VacantNext
      <4>2. ASSUME FramesOn(t, x)' # {}
            PROVE  Belongs(t, x, w)'
        <5>1. OpensBlock(t, x)
          BY <3>1, <4>2, DepthMoves
        <5>2. PICK f \in Frames :
                 /\ outcome[f.block] = "unused" /\ f.adapter = x /\ f.level = 0
                 /\ \A g \in FramesOn(t, x) : g.level < f.level
                 /\ stack' = [stack EXCEPT ![t] = Append(stack[t], f)]
          BY <5>1, PushedDeepest
        <5>3. FramesOn(t, x)' = FramesOn(t, x) \cup {f}
          BY <1>1, <5>2, PushView
        <5>4. \A g \in FramesOn(t, x)' : g.level = 0
          BY <3>1, <5>2, <5>3
        <5>5. phase'[t] \in {"user", "begin"}
          BY <5>1 DEF OpensBlock
        <5>6. QED
          BY <4>1, <5>4, <5>5, BelongsNext DEF LeftOver, In
      <4>3. QED
        BY <4>1, <4>2
    <3>2. CASE FramesOn(t, x) # {}
      <4>1. Belongs(t, x, w)
        BY <1>2, <2>2, <3>2
      <4>2. FramesOn(t, x)' # {} => Belongs(t, x, w)'
        BY <1>4, <2>2, <3>2, <4>1, WriteKept
      <4>3. ASSUME FramesOn(t, x)' = {}
            PROVE  LeftOver(w)'
        <5>1. PopsBlock(t, x)
          <6>1. stack' # stack
            BY <3>2, <4>3, SameStackView
          <6>2. ~OpensBlock(t, x) /\ ~OpensNested(t, x) /\ ~PopsNested(t, x)
            BY <4>3, OpenedLevels, NestedLevels, PoppedLevels
          <6>3. QED
            BY <6>1, <6>2, StackChange
        <5>2. In(t, {"begin", "close"}, x)
          BY <5>1 DEF PopsBlock, In
        <5>3. QED
          BY <1>3, <2>2, <4>1, <5>2 DEF Belongs
      <4>4. QED
        BY <4>2, <4>3
    <3>3. QED
      BY <3>1, <3>2
  <2>3. CASE /\ w \notin pending[x].writes /\ phase[t] = "write" /\ Done(t, x)
             /\ w.within = BlocksOn(t, x)
    <3>1. FramesOn(t, x)' = FramesOn(t, x)
      <4>1. ~OpensBlock(t, x) /\ ~OpensNested(t, x) /\ ~PopsNested(t, x) /\ ~PopsBlock(t, x)
        BY <2>3 DEF OpensBlock, OpensNested, PopsNested, PopsBlock
      <4>2. QED
        BY <4>1, StackChange, SameStackView
    <3>2. FramesOn(t, x) = {} => LeftOver(w)'
      BY <2>3 DEF BlocksOn, LeftOver
    <3>3. FramesOn(t, x) # {} => Belongs(t, x, w)'
      BY <2>3, WriteMade
    <3>4. QED
      BY <3>1, <3>2, <3>3
  <2>4. QED
    BY <2>1, <2>2, <2>3
<1>5. ASSUME NEW a \in Adapters, NEW w \in pending'[a].writes
      PROVE  /\ Vacant(a)' => LeftOver(w)'
             /\ \A u \in Tasks : FramesOn(u, a)' # {} => Belongs(u, a, w)'
  <2>1. CASE a = x
    <3>1. Vacant(x)' => LeftOver(w)'
      BY <1>4, <1>5, <2>1, VacantNext
    <3>2. \A u \in Tasks : FramesOn(u, x)' # {} => u = t
      BY OthersAway
    <3>3. FramesOn(t, x)' # {} => Belongs(t, x, w)'
      BY <1>4, <1>5, <2>1
    <3>4. ASSUME NEW u \in Tasks, FramesOn(u, x)' # {}
          PROVE  Belongs(u, x, w)'
      <4>1. u = t
        BY <3>2, <3>4
      <4>2. QED
        BY <3>3, <3>4, <4>1
    <3>5. QED
      BY <2>1, <3>1, <3>4
  <2>2. CASE a # x
    <3>1. pending'[a] = pending[a] /\ w \in pending[a].writes /\ w.within \subseteq Blocks
      <4>1. pending'[a] = pending[a]
        BY <2>2, ElsewhereSame
      <4>2. QED
        BY <1>1, <1>5, <4>1, WithinBlocks
    <3>2. Vacant(a)' => LeftOver(w)'
      BY <1>2, <1>3, <2>2, <3>1, VacantNext
    <3>3. ASSUME NEW u \in Tasks, FramesOn(u, a)' # {}
          PROVE  Belongs(u, a, w)'
      <4>1. /\ FramesOn(u, a)' = FramesOn(u, a) /\ BlocksOn(u, a)' = BlocksOn(u, a)
            /\ IF u = t THEN Quiet(u, a) /\ Quiet(u, a)'
                        ELSE phase'[u] = phase[u] /\ On(u)' = On(u)
        BY <2>2, ElsewhereSame
      <4>2. Belongs(u, a, w)
        BY <1>2, <3>1, <3>3, <4>1
      <4>3. \A b \in w.within : outcome'[b] \in Keeping \/ b \in BlocksOn(u, a)'
        <5>1. \A b \in w.within : outcome[b] \in Keeping \/ b \in BlocksOn(u, a)
          BY <4>2 DEF Belongs
        <5>2. \A b \in w.within : outcome[b] \in Keeping => outcome'[b] \in Keeping
          BY <1>1, <3>1, OutcomeSettled
        <5>3. QED
          BY <4>1, <5>1, <5>2
      <4>4. In(u, {"begin", "close"}, a)' => LeftOver(w)'
        <5>1. In(u, {"begin", "close"}, a)' => In(u, {"begin", "close"}, a)
          BY <4>1 DEF In, Quiet
        <5>2. QED
          BY <1>3, <3>1, <4>2, <5>1 DEF Belongs
      <4>5. In(u, {"rollback"}, a)' => outcome'[Top(u)'.block] = "failed"
        <5>1. SUFFICES ASSUME In(u, {"rollback"}, a)'
                       PROVE  outcome'[Top(u)'.block] = "failed"
          OBVIOUS
        <5>2. In(u, {"rollback"}, a) /\ u # t
          BY <4>1, <5>1 DEF In, Quiet
        <5>3. Top(u)' = Top(u) /\ outcome[Top(u).block] = "failed"
          BY <4>2, <5>2, OthersView DEF Focus, Belongs
        <5>4. Top(u) \in ToSet(stack[u])
          <6>1. stack[u] # <<>>
            BY <1>1, <5>2, BusyIsOnIt, Kinds DEF In
          <6>2. QED
            BY <1>1, <6>1, TopIsDeepest
        <5>5. QED
          BY <1>1, <5>2, <5>3, <5>4, OutcomeKept
      <4>6. In(u, {"drop"}, a)' => Top(u)'.block \notin w.within
        <5>1. In(u, {"drop"}, a)' => In(u, {"drop"}, a) /\ u # t
          BY <4>1 DEF In, Quiet
        <5>2. u # t => Top(u)' = Top(u)
          BY OthersView DEF Focus
        <5>3. QED
          BY <4>2, <5>1, <5>2 DEF Belongs
      <4>7. \A f \in FramesOn(u, a)' :
               IF f.level = 0 THEN f.block \in w.within \/ LeftOver(w)'
               ELSE w \in MarkIn(pending'[a].savepoints, f.level) <=> f.block \notin w.within
        BY <1>3, <3>1, <4>1, <4>2 DEF Belongs
      <4>8. QED
        BY <4>3, <4>4, <4>5, <4>6, <4>7, BelongsNext
    <3>4. QED
      BY <3>2, <3>3
  <2>3. QED
    BY <2>1, <2>2
<1>6. QED
  BY <1>5 DEF WritesInv

-----------------------------------------------------------------------------
(* What is durable *)

\* What a step commits and executes.
LEMMA CommittedNext ==
    ASSUME Inv, NEW t \in Tasks, NEW x \in Adapters, Step(t, x), Focus(t, x)
    PROVE  /\ committed \subseteq committed' /\ executed \subseteq executed'
           /\ \A w \in committed' :
                 \/ w \in committed
                 \/ phase[t] \in {"commit", "commit write"} /\ ~Unaffected /\ Done(t, x)
                    /\ w \in pending[x].writes
                 \/ phase[t] = "write" /\ ~Held(x) /\ w.within = BlocksOn(t, x)
           /\ \A w \in executed' :
                 w \in executed \/ w \in committed' \/ w \in pending'[x].writes
<1>1. LockInv /\ TypeInv /\ DataTypes
  BY DEF Inv, LockInv
<1>2. CASE Unaffected
  BY <1>2 DEF Unaffected, dataVars
<1>3. CASE ~Unaffected /\ phase[t] = "write" /\ Done(t, x)
  <2>1. PICK w \in Writes :
           /\ w = Write(Cardinality(executed) + 1, BlocksOn(t, x))
           /\ executed' = executed \cup {w}
           /\ IF Held(x)
              THEN committed' = committed
                   /\ \E r \in Sessions : Becomes(x, r) /\ r.writes = pending[x].writes \cup {w}
              ELSE committed' = committed \cup {w} /\ pending' = pending
    BY <1>1, <1>3, WriteDone
  <2>2. w.within = BlocksOn(t, x)
    BY <2>1 DEF Write
  <2>3. CASE Held(x)
    <3>1. PICK r \in Sessions : Becomes(x, r) /\ r.writes = pending[x].writes \cup {w}
      BY <2>1, <2>3
    <3>2. w \in pending'[x].writes
      BY <1>1, <3>1 DEF Becomes, DataTypes
    <3>3. QED
      BY <2>1, <2>3, <3>2
  <2>4. CASE ~Held(x)
    BY <1>3, <2>1, <2>2, <2>4
  <2>5. QED
    BY <2>3, <2>4
<1>4. CASE ~Unaffected /\ phase[t] \in {"savepoint", "release", "drop", "undo", "begin"} /\ Done(t, x)
  <2>1. committed' = committed /\ executed' = executed
    BY <1>4 DEF Done, Effect
  <2>2. QED
    BY <2>1
<1>5. CASE /\ ~Unaffected
           /\ \/ RolledBack(x)
              \/ phase[t] \in {"commit", "rollback", "close", "commit write", "undo write"} /\ Done(t, x)
  <2>1. (Committed(x) /\ Done(t, x) /\ phase[t] \in {"commit", "commit write"}) \/ RolledBack(x)
    BY <1>5, DoneOtherwise, Kinds
  <2>2. CASE RolledBack(x)
    BY <1>1, <2>2, EndedStep
  <2>3. CASE Committed(x) /\ Done(t, x) /\ phase[t] \in {"commit", "commit write"}
    BY <1>1, <1>5, <2>3, EndedStep
  <2>4. QED
    BY <2>1, <2>2, <2>3
<1>6. phase[t] = "cursor" /\ Done(t, x) => Unaffected
  BY DoneOtherwise, Kinds
<1>7. QED
  BY <1>2, <1>3, <1>4, <1>5, <1>6, DataKinds DEF Calls, BlockCalls

\* A statement of a block joins its transaction.
LEMMA BlockIsHeld ==
    ASSUME Inv, NEW t \in Tasks, NEW x \in Adapters, phase[t] = "write", FramesOn(t, x) # {}
    PROVE  Held(x)
<1>1. ~In(t, {"begin", "rollback", "close"}, x) /\ ~In(t, {"close"}, x)
  BY DEF In
<1>2. Control[x] # "driver" => inBlock[x]
  BY <1>1 DEF Inv, BlocksInv, SavepointsInv
<1>3. session[x]
  BY <1>1 DEF Inv, BlocksInv, SessionsInv, Nested
<1>4. Control[x] \in {"driver", "statements", "cursor"}
  BY ControlAssumption
<1>5. CASE Control[x] = "driver"
  BY <1>5 DEF Held
<1>6. CASE Control[x] = "statements"
  BY <1>2, <1>6 DEF Held
<1>7. CASE Control[x] = "cursor"
  BY <1>2, <1>3, <1>7 DEF Held
<1>8. QED
  BY <1>4, <1>5, <1>6, <1>7

\* Writes that become durable are of blocks that finished, or raised without
\* taking their work back.
LEMMA CommittedBlocks ==
    ASSUME Inv, NEW t \in Tasks, NEW x \in Adapters, Step(t, x), Focus(t, x),
           NEW w \in committed', NEW b \in w.within
    PROVE  outcome'[b] \in Keeping
<1>1. /\ LockInv /\ StacksInv /\ PhasesInv /\ DataTypes /\ SessionsInv /\ TypeInv /\ OutcomesMove(t)
      /\ phase[t] # "user" => On(t) = x
  BY StepOutcomes DEF Inv, LockInv, BlocksInv, Focus
<1>2. CASE w \in committed
  <2>1. outcome[b] \in Keeping /\ b \in Blocks
    BY <1>2 DEF Inv, BlocksInv, DurableInv, DataTypes, Writes
  <2>2. QED
    BY <1>1, <2>1, OutcomeSettled
<1>3. CASE phase[t] = "write" /\ ~Held(x) /\ w.within = BlocksOn(t, x)
  <2>1. FramesOn(t, x) = {}
    BY <1>3, BlockIsHeld
  <2>2. QED
    BY <1>3, <2>1 DEF BlocksOn
<1>4. CASE phase[t] = "commit write" /\ w \in pending[x].writes
  <2>1. FramesOn(t, x) = {}
    BY <1>1, <1>4, NoBlocksOfOwn
  <2>2. LeftOver(w) /\ b \in Blocks
    BY <1>1, <1>4, <2>1, VacantNext, WithinBlocks DEF Inv, BlocksInv, WritesInv
  <2>3. QED
    BY <1>1, <2>2, OutcomeSettled DEF LeftOver
<1>5. CASE phase[t] = "commit" /\ w \in pending[x].writes /\ ~Unaffected
  <2>1. /\ stack[t] # <<>> /\ FramesOn(t, x) # {} /\ BlocksOn(t, x) = {Top(t).block}
        /\ Top(t).block \in Blocks
    BY <1>1, <1>5, OneBlockLeft
  <2>2. Belongs(t, x, w)
    BY <1>5, <2>1 DEF Inv, BlocksInv, WritesInv
  <2>3. outcome[b] \in Keeping \/ b = Top(t).block
    BY <2>1, <2>2 DEF Belongs
  <2>4. b \in Blocks
    BY <1>1, <1>5, WithinBlocks
  <2>5. \E how \in {"ok", "cut"} : outcome' = [outcome EXCEPT ![Top(t).block] = how]
    <3>1. ~Rests(t, x)
      BY <1>5 DEF Rests, Unaffected
    <3>2. Proceeds(t, x) \/ EndsBlock(t, x)
      BY <1>5, <3>1, Kinds DEF Step, Kind, Starts, EndsBody, OpensBlock, OpensNested,
         PopsNested, PopsBlock, Leaves, GivesBack
    <3>3. CASE Proceeds(t, x)
      BY <1>5, <3>3 DEF Proceeds
    <3>4. CASE EndsBlock(t, x)
      BY <1>5, <3>4 DEF EndsBlock
    <3>5. QED
      BY <3>2, <3>3, <3>4
  <2>6. outcome'[Top(t).block] \in {"ok", "cut"}
    BY <1>1, <2>1, <2>5 DEF DataTypes
  <2>7. QED
    BY <1>1, <2>3, <2>4, <2>6, OutcomeSettled DEF Keeping
<1>6. QED
  BY <1>2, <1>3, <1>4, <1>5, CommittedNext

\* The innermost block of a task after a step: as before, a new one, or one that
\* was under another.
LEMMA TopNext ==
    ASSUME Inv, NEW t \in Tasks, NEW x \in Adapters, Step(t, x),
           outcome'[Top(t)'.block] \in {"failed", "stranded"}, stack'[t] # <<>>
    PROVE  stack' = stack
<1>1. TypeInv /\ StacksInv /\ LockInv /\ PhasesInv /\ Moves(t) /\ OutcomesMove(t) /\ DataTypes
  BY StepOutcomes DEF Inv, LockInv, BlocksInv, Step
<1>2. CASE OpensBlock(t, x) \/ OpensNested(t, x)
  <2>1. PICK f \in Frames :
           /\ outcome[f.block] = "unused" /\ outcome' = [outcome EXCEPT ![f.block] = "open"]
           /\ f.adapter = x /\ \A g \in FramesOn(t, x) : g.level < f.level
           /\ stack' = [stack EXCEPT ![t] = Append(stack[t], f)]
    BY <1>2, PushedDeepest
  <2>2. Top(t)' = f
    BY <1>1, <2>1, PushView
  <2>3. outcome'[f.block] = "open"
    BY <1>1, <2>1 DEF DataTypes, Frames
  <2>4. QED
    BY <2>2, <2>3
<1>3. CASE PopsNested(t, x) \/ PopsBlock(t, x)
  <2>1. stack[t] # <<>> /\ stack' = [stack EXCEPT ![t] = Pop(t)]
    BY <1>1, <1>3, BusyIsOnIt, Kinds DEF PopsNested, PopsBlock
  <2>2. Stacked(stack'[t]) /\ ToSet(stack'[t]) = ToSet(stack[t]) \ {Top(t)}
    BY <1>1, <2>1, PopView
  <2>3. stack'[t] \in Seq(Frames)
    BY <1>1 DEF Moves
  <2>4. Top(t)' \in ToSet(stack'[t])
    BY <2>2, <2>3, StackedTop DEF Top
  <2>5. Top(t)' \in ToSet(stack[t]) /\ Top(t)' # Top(t)
    BY <2>2, <2>4
  <2>6. PICK g \in ToSet(stack[t]) : g = Top(t)' /\ g # Top(t)
    BY <2>5
  <2>7. outcome'[g.block] = "open"
    BY <1>1, <2>6, OutcomeKept, BlockIsOpened
  <2>8. QED
    BY <2>6, <2>7
<1>4. QED
  BY <1>2, <1>3, StackChange

\* A block has taken its work back after a step: no task has still to.
LEMMA IsTakenBack ==
    ASSUME Inv, NEW t \in Tasks, NEW x \in Adapters, Step(t, x), NEW b \in Blocks,
           outcome'[b] \in {"failed", "stranded"},
           stack' = stack /\ stack[t] # <<>> /\ Top(t).block = b => phase'[t] \in {"drop", "close"},
           \A u \in Tasks \ {t} : stack[u] # <<>> /\ Top(u).block = b => phase[u] \in {"drop", "close"}
    PROVE  TakenBack(b)'
<1>1. ASSUME NEW u \in Tasks, stack'[u] # <<>>, Top(u)'.block = b
      PROVE  phase'[u] \in {"drop", "close"}
  <2>1. CASE u = t
    <3>1. stack' = stack
      BY <1>1, <2>1, TopNext
    <3>2. QED
      BY <1>1, <2>1, <3>1, SameStackView
  <2>2. CASE u # t
    <3>1. Top(u)' = Top(u) /\ stack'[u] = stack[u] /\ phase'[u] = phase[u]
      BY <2>2, OthersView DEF Step
    <3>2. QED
      BY <1>1, <2>2, <3>1
  <2>3. QED
    BY <2>1, <2>2
<1>2. QED
  BY <1>1 DEF TakenBack

LEMMA TakenBackStays ==
    ASSUME Inv, NEW t \in Tasks, NEW x \in Adapters, Step(t, x), NEW b \in Blocks, TakenBack(b)
    PROVE  TakenBack(b)'
<1>1. outcome'[b] = outcome[b] /\ outcome[b] \in {"failed", "stranded"}
  BY StepOutcomes DEF OutcomesMove, TakenBack
<1>2. ASSUME stack' = stack, stack[t] # <<>>, Top(t).block = b
      PROVE  phase'[t] \in {"drop", "close"}
  <2>1. phase[t] \in {"drop", "close"}
    BY <1>2 DEF TakenBack
  <2>2. ~PopsNested(t, x) /\ ~PopsBlock(t, x)
    <3>1. SUFFICES ASSUME PopsNested(t, x) \/ PopsBlock(t, x)
                   PROVE  FALSE
      OBVIOUS
    <3>2. ToSet(stack'[t]) = ToSet(stack[t]) \ {Top(t)}
      BY <3>1, PoppedNested, PoppedBlock
    <3>3. Top(t) \in ToSet(stack[t])
      BY <1>2, TopIsDeepest DEF Inv, LockInv, BlocksInv
    <3>4. QED
      BY <1>2, <3>2, <3>3
  <2>3. Rests(t, x)
    BY <2>1, <2>2, Kinds DEF Step, Kind, Starts, EndsBody, Proceeds, OpensBlock, OpensNested,
       EndsBlock, Leaves, GivesBack
  <2>4. QED
    BY <2>1, <2>3 DEF Rests
<1>3. QED
  BY <1>1, <1>2, IsTakenBack DEF TakenBack

\* A block whose ROLLBACK raised is over.
LEMMA StrandedIsOver ==
    ASSUME Inv, NEW b, outcome[b] = "stranded"
    PROVE  TakenBack(b)
<1>1. ASSUME NEW u \in Tasks, stack[u] # <<>>, Top(u).block = b
      PROVE  phase[u] \in {"drop", "close"}
  <2>1. Top(u) \in ToSet(stack[u]) /\ StacksInv
    BY <1>1, TopIsDeepest DEF Inv, LockInv, BlocksInv
  <2>2. outcome[b] \in Endings(phase[u])
    BY <1>1, <2>1 DEF StacksInv
  <2>3. QED
    BY <2>2 DEF Endings
<1>2. QED
  BY <1>1 DEF TakenBack

\* A write that leaves a transaction is durable, or its block took it back.
LEMMA LostWrites ==
    ASSUME Inv, NEW t \in Tasks, NEW x \in Adapters, Step(t, x), Focus(t, x),
           NEW w \in pending[x].writes, w \notin pending'[x].writes, w.within # {}
    PROVE  w \in committed' \/ \E b \in w.within : TakenBack(b)'
<1>1. /\ LockInv /\ StacksInv /\ PhasesInv /\ DataTypes /\ SessionsInv /\ TypeInv
      /\ phase[t] # "user" => On(t) = x
  BY DEF Inv, LockInv, BlocksInv, Focus
<1>2. /\ ~Unaffected /\ w.within \subseteq Blocks
      /\ FramesOn(t, x) # {} => Belongs(t, x, w)
  BY <1>1, WithinBlocks DEF Unaffected, dataVars, Inv, BlocksInv, WritesInv
<1>3. ASSUME LeftOver(w)
      PROVE  \E b \in w.within : TakenBack(b)'
  <2>1. PICK b \in w.within : outcome[b] = "stranded"
    BY <1>3 DEF LeftOver
  <2>2. b \in Blocks /\ TakenBack(b)
    BY <1>2, <2>1, StrandedIsOver
  <2>3. QED
    BY <2>2, TakenBackStays
<1>4. CASE FramesOn(t, x) = {} \/ phase[t] = "close"
  <2>1. LeftOver(w)
    <3>1. CASE FramesOn(t, x) = {}
      BY <3>1, VacantNext DEF Inv, BlocksInv, WritesInv
    <3>2. CASE FramesOn(t, x) # {} /\ phase[t] = "close"
      BY <1>1, <1>2, <3>2 DEF Belongs, In
    <3>3. QED
      BY <1>4, <3>1, <3>2
  <2>2. QED
    BY <1>3, <2>1
\* The frames of other tasks are of other blocks.
<1>5. ASSUME stack[t] # <<>>
      PROVE  /\ Top(t).block \in Blocks
             /\ \A u \in Tasks \ {t} : stack[u] # <<>> => Top(u).block # Top(t).block
  BY <1>1, <1>5, TopIsDeepest DEF StacksInv, Frames
<1>6. ASSUME FramesOn(t, x) # {}, phase[t] # "close"
      PROVE  phase[t] \in Calls /\ On(t) = x /\ Done(t, x)
             /\ phase[t] \notin {"commit write", "undo write", "give back", "cursor"}
  <2>1. phase[t] \notin {"commit write", "undo write", "give back", "cursor"}
    BY <1>1, <1>6, NoBlocksOfOwn
  <2>2. QED
    BY <1>2, <2>1, DataKinds
<1>7. CASE FramesOn(t, x) # {} /\ phase[t] = "commit"
  <2>1. Committed(x)
    BY <1>6, <1>7, DoneOtherwise
  <2>2. QED
    BY <1>1, <2>1, EndedStep
<1>8. CASE FramesOn(t, x) # {} /\ phase[t] = "rollback"
  <2>1. /\ FramesOn(t, x) = {Top(t)} /\ Top(t).level = 0 /\ stack[t] # <<>>
    BY <1>6, <1>8, OneBlockLeft
  <2>2. outcome[Top(t).block] = "failed"
    BY <1>2, <1>6, <1>8 DEF Belongs, In
  <2>3. Top(t).block \in w.within \/ LeftOver(w)
    BY <1>2, <1>8, <2>1 DEF Belongs
  <2>4. EndsBlock(t, x)
    BY <1>2, <1>8, Kinds DEF Step, Kind, Rests, Starts, EndsBody, Proceeds, OpensBlock, OpensNested,
       PopsNested, PopsBlock, Leaves, GivesBack, Unaffected
  <2>5. phase'[t] = "close" /\ outcome' = outcome
    BY <1>2, <1>8, <2>4 DEF EndsBlock
  <2>6. CASE Top(t).block \in w.within
    <3>1. PICK b \in w.within : b = Top(t).block /\ b \in Blocks
      BY <1>5, <2>1, <2>6
    <3>2. outcome'[b] = "failed" /\ \A u \in Tasks \ {t} : stack[u] # <<>> => Top(u).block # b
      BY <1>5, <2>1, <2>2, <2>5, <3>1
    <3>3. TakenBack(b)'
      BY <2>5, <3>1, <3>2, IsTakenBack
    <3>4. QED
      BY <3>3
  <2>7. QED
    BY <1>3, <2>3, <2>6
<1>9. CASE FramesOn(t, x) # {} /\ phase[t] = "undo"
  <2>1. /\ stack[t] # <<>> /\ Top(t).adapter = x /\ Top(t) \in FramesOn(t, x)
    BY <1>1, <1>6, <1>9, BusyIsOnIt, Kinds
  <2>2. Top(t).level = Depth(t, x) /\ Top(t).level # 0
    <3>1. Top(t).level = Depth(t, x) /\ Depth(t, x) \in Nat
      BY <1>1, <2>1, TopLevel
    <3>2. Top(t).level > 0
      BY <1>1, <1>9, Kinds DEF PhasesInv
    <3>3. QED
      BY <3>1, <3>2
  <2>3. w \notin MarkIn(pending[x].savepoints, Top(t).level)
    BY <1>6, <1>9, <2>2, HeldNext
  <2>4. PICK b \in w.within : b = Top(t).block /\ b \in Blocks
    BY <1>2, <1>5, <2>1, <2>2, <2>3 DEF Belongs
  <2>5. outcome[b] = "failed"
    <3>1. Top(t) \in ToSet(stack[t])
      BY <2>1 DEF FramesOn
    <3>2. QED
      BY <1>1, <1>9, <2>4, <3>1 DEF StacksInv, Endings
  <2>6. /\ outcome' = outcome \/ outcome' = [outcome EXCEPT ![b] = "failed"]
        /\ stack' = stack => phase'[t] = "drop"
    <3>1. Proceeds(t, x) \/ PopsNested(t, x)
      BY <1>2, <1>9, Kinds DEF Step, Kind, Rests, Starts, EndsBody, OpensBlock, OpensNested,
         EndsBlock, PopsBlock, Leaves, GivesBack, Unaffected
    <3>2. CASE Proceeds(t, x)
      BY <1>9, <3>2 DEF Proceeds
    <3>3. CASE PopsNested(t, x)
      <4>1. outcome' = [outcome EXCEPT ![b] = "failed"]
        BY <1>2, <1>9, <2>4, <3>3 DEF PopsNested
      <4>2. ToSet(stack'[t]) = ToSet(stack[t]) \ {Top(t)} /\ Top(t) \in ToSet(stack[t])
        BY <2>1, <3>3, PoppedNested DEF FramesOn
      <4>3. QED
        BY <4>1, <4>2
    <3>4. QED
      BY <3>1, <3>2, <3>3
  <2>7. outcome'[b] = "failed"
    BY <1>1, <2>4, <2>5, <2>6 DEF DataTypes
  <2>8. \A u \in Tasks \ {t} : stack[u] # <<>> => Top(u).block # b
    BY <1>5, <2>1, <2>4
  <2>9. TakenBack(b)'
    BY <2>4, <2>6, <2>7, <2>8, IsTakenBack
  <2>10. QED
    BY <2>9
<1>10. CASE FramesOn(t, x) # {} /\ phase[t] \in {"savepoint", "release", "drop", "begin", "write"}
  <2>1. pending[x].writes \subseteq pending'[x].writes
    BY <1>6, <1>10, HeldNext
  <2>2. QED
    BY <2>1
<1>11. QED
  BY <1>4, <1>6, <1>7, <1>8, <1>9, <1>10 DEF Calls, BlockCalls

LEMMA DurableNext ==
    ASSUME Inv, NEW t \in Tasks, NEW x \in Adapters, Step(t, x), Focus(t, x)
    PROVE  DurableInv'
<1>1. /\ \A w \in executed : w.within # {} => Accounted(w)
      /\ executed \subseteq Writes /\ OutcomesMove(t) /\ committed \subseteq committed'
      /\ \A w \in executed' :
            w \in executed \/ w \in committed' \/ w \in pending'[x].writes
      /\ \A a \in Adapters \ {x} : pending'[a] = pending[a]
  BY CommittedNext, StepOutcomes DEF Inv, BlocksInv, DurableInv, DataTypes, Focus, DataStep
<1>2. ASSUME NEW w \in executed', w.within # {}
      PROVE  \/ w \in committed'
             \/ \E a \in Adapters : w \in pending'[a].writes
             \/ \E b \in w.within : TakenBack(b)'
  <2>1. CASE w \in committed' \/ w \in pending'[x].writes
    BY <2>1
  <2>2. CASE w \in executed
    <3>1. \A b \in w.within : b \in Blocks
      BY <1>1, <2>2 DEF Writes
    <3>2. ASSUME NEW b \in w.within, TakenBack(b)
          PROVE  TakenBack(b)'
      BY <3>1, <3>2, TakenBackStays
    <3>3. ASSUME NEW a \in Adapters, w \in pending[a].writes
          PROVE  \/ w \in committed'
                 \/ w \in pending'[a].writes
                 \/ \E b \in w.within : TakenBack(b)'
      <4>1. CASE a = x
        BY <1>2, <3>3, <4>1, LostWrites
      <4>2. CASE a # x
        BY <1>1, <3>3, <4>2
      <4>3. QED
        BY <4>1, <4>2
    <3>4. \/ w \in committed
          \/ \E a \in Adapters : w \in pending[a].writes
          \/ \E b \in w.within : TakenBack(b)
      BY <1>1, <1>2, <2>2 DEF Accounted
    <3>5. QED
      BY <1>1, <3>2, <3>3, <3>4
  <2>3. QED
    BY <1>1, <2>1, <2>2
<1>3. \A w \in committed' : \A b \in w.within : outcome'[b] \in Keeping
  BY CommittedBlocks
<1>4. QED
  BY <1>2, <1>3 DEF DurableInv, Accounted, TakenBack, Keeping

LEMMA DataTypesNext ==
    ASSUME Inv, NEW t \in Tasks, NEW x \in Adapters, Step(t, x), Focus(t, x)
    PROVE  DataTypes'
<1>1. /\ uses' = uses /\ uses \in Uses
      /\ free \in [Pools -> SUBSET Adapters] /\ session \in [Adapters -> BOOLEAN]
  BY DEF Step, Inv, DataTypes
<1>2. /\ pending' \in [Adapters -> Sessions] /\ inBlock' \in [Adapters -> BOOLEAN]
      /\ executed' \subseteq Writes /\ committed' \subseteq Writes
  BY DEF Focus, DataStep
<1>3. outcome' \in [Blocks -> Outcomes]
  BY StepOutcomes
<1>4. free' \in [Pools -> SUBSET Adapters]
  <2>1. \/ free' = free
        \/ Taken(t, x)
        \/ free' = [free EXCEPT ![call[t].pool] = @ \cup {x}]
    BY DEF Step, Kind, Rests, Starts, EndsBody, Proceeds, OpensBlock, OpensNested, EndsBlock,
       PopsNested, PopsBlock, Leaves, GivesBack
  <2>2. QED
    BY <1>1, <2>1 DEF Taken
<1>5. session' \in [Adapters -> BOOLEAN]
  <2>1. \/ session' = session
        \/ session' = [session EXCEPT ![x] = TRUE]
        \/ session' = [session EXCEPT ![x] = FALSE]
    BY DEF Step, Kind, Rests, Starts, EndsBody, Proceeds, OpensBlock, OpensNested, EndsBlock,
       PopsNested, PopsBlock, Leaves, GivesBack
  <2>2. QED
    BY <1>1, <2>1
<1>6. QED
  BY <1>1, <1>2, <1>3, <1>4, <1>5 DEF DataTypes

LEMMA BlocksNext ==
    ASSUME Inv, Private, NEW t \in Tasks, NEW x \in Adapters, Step(t, x)
    PROVE  DataTypes' /\ BlocksInv'
<1>1. Focus(t, x)
  BY StepFocus
<1>2. SessionsInv'
  BY <1>1, SessionsNext
<1>3. StacksInv' /\ PhasesInv' /\ Custody' /\ SavepointsInv' /\ WritesInv' /\ DurableInv'
  BY <1>1, <1>2, StacksNext, PhasesNext, CustodyNext, SavepointsNext, WritesNext, DurableNext
<1>4. QED
  BY <1>1, <1>2, <1>3, DataTypesNext DEF BlocksInv

-----------------------------------------------------------------------------
(* A held lock has its holder *)

LEMMA HeldByOthers ==
    ASSUME LockHeld, NEW t \in Tasks, Moves(t),
           \A a \in Adapters : \A u \in Tasks : lock'[a] = u => lock[a] = u /\ u # t
    PROVE  LockHeld'
<1> SUFFICES ASSUME NEW a \in Adapters, NEW u \in Tasks, lock'[a] = u
             PROVE  phase'[u] \in Calls /\ stage'[u] # "wait" /\ On(u)' = a
  BY DEF LockHeld, InCall
<1>1. u # t /\ phase[u] \in Calls /\ stage[u] # "wait" /\ On(u) = a
  BY DEF LockHeld, InCall
<1>2. phase'[u] = phase[u] /\ stage'[u] = stage[u] /\ stack'[u] = stack[u] /\ call'[u] = call[u]
  BY <1>1 DEF Moves
<1>3. On(u)' = On(u)
  BY <1>2 DEF On, Top
<1>4. QED
  BY <1>1, <1>2, <1>3

LEMMA LockHeldNext ==
    ASSUME Inv, Private, [Next]_vars
    PROVE  LockHeld'
<1>1. LockInv /\ TypeInv /\ LockHeld /\ DataTypes /\ BlocksInv /\ StacksInv /\ PhasesInv /\ Custody
  BY DEF Inv, LockInv, BlocksInv
<1>2. \A t \in Tasks : \A a \in Adapters :
         lock[a] = t => InCall(t) /\ stage[t] # "wait" /\ On(t) = a
  BY <1>1 DEF LockHeld
<1>3. ASSUME NEW t \in Tasks, InCall(t), Moves(t), Unlock(t)
      PROVE  LockHeld'
  <2>1. On(t) \in Adapters
    BY <1>1, <1>3, OnItsAdapter
  <2>2. \A a \in Adapters : lock'[a] = IF a = On(t) THEN Nobody ELSE lock[a]
    BY <1>1, <1>3, <2>1 DEF Unlock, TypeInv
  <2>3. \A a \in Adapters : lock[a] = t => a = On(t)
    BY <1>2, <1>3
  <2>4. \A a \in Adapters : \A u \in Tasks : lock'[a] = u => lock[a] = u /\ u # t
    BY <2>2, <2>3, NobodyAssumption
  <2>5. QED
    BY <1>1, <1>3, <2>4, HeldByOthers
<1>4. ASSUME NEW t \in Tasks, ~InCall(t) \/ stage[t] = "wait", Moves(t), lock' = lock
      PROVE  LockHeld'
  <2>1. \A a \in Adapters : lock[a] # t
    BY <1>2, <1>4
  <2>2. QED
    BY <1>1, <1>4, <2>1, HeldByOthers
<1>5. ASSUME NEW t \in Tasks, TakeLock(t)
      PROVE  LockHeld'
  <2>1. /\ InCall(t) /\ stage' = [stage EXCEPT ![t] = "running"]
        /\ lock' = [lock EXCEPT ![On(t)] = t]
        /\ UNCHANGED <<stack, phase, call>> /\ stage[t] = "wait"
    BY <1>5 DEF TakeLock
  <2>2. \A a \in Adapters : lock'[a] = IF a = On(t) THEN t ELSE lock[a]
    BY <1>1, <2>1 DEF TypeInv
  <2>3. \A u \in Tasks : /\ phase'[u] = phase[u] /\ On(u)' = On(u)
                         /\ stage'[u] = IF u = t THEN "running" ELSE stage[u]
    BY <1>1, <2>1 DEF TypeInv, On, Top
  <2>4. ASSUME NEW a \in Adapters, NEW u \in Tasks, lock'[a] = u
        PROVE  phase'[u] \in Calls /\ stage'[u] # "wait" /\ On(u)' = a
    <3>1. CASE a = On(t)
      <4>1. u = t
        BY <2>2, <2>4, <3>1
      <4>2. QED
        BY <2>1, <2>3, <3>1, <4>1 DEF InCall
    <3>2. CASE a # On(t)
      <4>1. lock[a] = u
        BY <2>2, <2>4, <3>2
      <4>2. phase[u] \in Calls /\ stage[u] # "wait" /\ On(u) = a
        BY <1>2, <4>1 DEF InCall
      <4>3. u # t
        BY <2>1, <4>2
      <4>4. QED
        BY <2>3, <4>2, <4>3
    <3>3. QED
      BY <3>1, <3>2
  <2>5. QED
    BY <2>4 DEF LockHeld, InCall
<1>6. ASSUME NEW t \in Tasks, CallReturns(t)
      PROVE  LockHeld'
  <2>1. InCall(t) /\ Unlock(t) /\ (Succeeded(t) \/ Raised(t, "failed"))
    BY <1>6 DEF CallReturns
  <2>2. QED
    BY <1>1, <1>3, <2>1, SucceededMoves, RaisedMoves
<1>7. ASSUME NEW t \in Tasks, CancelledCallEnds(t)
      PROVE  LockHeld'
  <2>1. CASE Unlock(t) /\ \E how : Raised(t, how)
    BY <1>1, <1>3, <1>7, <2>1, RaisedMoves DEF CancelledCallEnds
  <2>2. CASE stage' = [stage EXCEPT ![t] = "undoing"] /\ UNCHANGED <<stack, phase, call, lock>>
    <3>1. \A u \in Tasks : /\ phase'[u] = phase[u] /\ On(u)' = On(u)
                           /\ stage[u] # "wait" => stage'[u] # "wait"
      BY <1>1, <2>2 DEF TypeInv, On, Top
    <3>2. QED
      BY <1>1, <2>2, <3>1 DEF LockHeld, InCall, TypeInv
  <2>3. QED
    BY <1>7, <2>1, <2>2 DEF CancelledCallEnds
<1>8. ASSUME NEW t \in Tasks, UndoEnds(t)
      PROVE  LockHeld'
  BY <1>1, <1>3, <1>8, RaisedMoves DEF UndoEnds
<1>9. ASSUME NEW t \in Tasks, GiveBack(t)
      PROVE  LockHeld'
  <2>1. Moves(t)
    BY <1>1, <1>9, GiveBackKind DEF Step
  <2>2. ~InCall(t) /\ lock' = lock
    BY <1>9, Kinds DEF GiveBack, InCall
  <2>3. QED
    BY <1>4, <2>1, <2>2
<1>10. ASSUME NEW t \in Tasks, CancelWaiting(t)
       PROVE  LockHeld'
  BY <1>1, <1>4, <1>10, RaisedMoves DEF CancelWaiting
<1>11. ASSUME NEW t \in Tasks, CancelRunning(t)
       PROVE  LockHeld'
  BY <1>1, <1>11 DEF CancelRunning, LockHeld, InCall, On, Top
<1>12. ASSUME NEW t \in Tasks, Code(t)
       PROVE  LockHeld'
  <2>1. Moves(t)
    BY <1>1, <1>12, TransactionKind, RunKind, BodyKind DEF Code, Step
  <2>2. phase[t] = "user" /\ lock' = lock
    BY <1>12 DEF Code, Transaction, Run, Finish, Raise, PoolTimesOut
  <2>3. ~InCall(t)
    BY <2>2, Kinds DEF InCall
  <2>4. QED
    BY <1>4, <2>1, <2>2, <2>3
<1>13. CASE UNCHANGED vars
  BY <1>1, <1>13 DEF vars, callVars, LockHeld, InCall, On, Top
<1>14. QED
  BY <1>5, <1>6, <1>7, <1>8, <1>9, <1>10, <1>11, <1>12, <1>13 DEF Next, Await, Cancel

-----------------------------------------------------------------------------
(* Writes outside any block *)

\* A write succeeds, or nothing is executed and nothing new held.
LEMMA DataMoves ==
    ASSUME Inv, NEW t \in Tasks, NEW x \in Adapters, Step(t, x), Focus(t, x)
    PROVE  \/ /\ ~(phase[t] = "write" /\ Done(t, x))
              /\ executed' = executed /\ pending'[x].writes \subseteq pending[x].writes
              /\ committed' \subseteq committed \cup pending[x].writes
           \/ /\ phase[t] = "write" /\ Done(t, x) /\ On(t) = x
              /\ \E w \in Writes :
                    /\ w = Write(Cardinality(executed) + 1, BlocksOn(t, x))
                    /\ executed' = executed \cup {w}
                    /\ IF Held(x)
                       THEN committed' = committed /\ pending'[x].writes = pending[x].writes \cup {w}
                       ELSE committed' = committed \cup {w} /\ pending' = pending
<1>1. LockInv /\ TypeInv /\ DataTypes /\ SessionsInv /\ StacksInv /\ PhasesInv
  BY DEF Inv, LockInv, BlocksInv
<1>2. CASE phase[t] = "write" /\ Done(t, x)
  <2>1. PICK w \in Writes :
           /\ w = Write(Cardinality(executed) + 1, BlocksOn(t, x))
           /\ executed' = executed \cup {w}
           /\ IF Held(x)
              THEN committed' = committed
                   /\ \E r \in Sessions : Becomes(x, r) /\ r.writes = pending[x].writes \cup {w}
              ELSE committed' = committed \cup {w} /\ pending' = pending
    BY <1>1, <1>2, WriteDone
  <2>2. Held(x) => pending'[x].writes = pending[x].writes \cup {w}
    <3>1. ASSUME NEW r \in Sessions, Becomes(x, r), r.writes = pending[x].writes \cup {w}
          PROVE  pending'[x].writes = pending[x].writes \cup {w}
      BY <1>1, <3>1 DEF Becomes, DataTypes
    <3>2. QED
      BY <2>1, <3>1
  <2>3. On(t) = x
    BY <1>2 DEF Focus
  <2>4. QED
    BY <1>2, <2>1, <2>2, <2>3
<1>3. CASE ~(phase[t] = "write" /\ Done(t, x))
  <2> SUFFICES /\ executed' = executed /\ pending'[x].writes \subseteq pending[x].writes
               /\ committed' \subseteq committed \cup pending[x].writes
    BY <1>3
  <2>1. CASE Unaffected
    BY <2>1 DEF Unaffected, dataVars
  <2>2. CASE Committed(x) \/ RolledBack(x)
    BY <1>1, <2>2, EndedStep, IdleSession
  <2>3. CASE ~Unaffected /\ phase[t] \in {"savepoint", "release", "drop", "undo", "begin"} /\ Done(t, x)
    <3>1. committed' = committed /\ executed' = executed
      BY <2>3 DEF Done, Effect
    <3>2. QED
      BY <1>3, <3>1, HeldNext
  <2>4. phase[t] \in Calls /\ Done(t, x) /\ ~(phase[t] \in {"savepoint", "release", "drop", "undo", "begin"})
           => Unaffected \/ Committed(x) \/ RolledBack(x)
    BY <1>3, DoneOtherwise, Kinds DEF Calls, BlockCalls
  <2>5. QED
    BY <2>1, <2>2, <2>3, <2>4, DataKinds
<1>4. QED
  BY <1>2, <1>3

\* What a step returns, and which writes it goes on to commit.
LEMMA ReturnKinds ==
    ASSUME TypeInv, NEW t, NEW x, Step(t, x)
    PROVE  /\ \/ returned' = returned
              \/ /\ phase[t] = "write" /\ Done(t, x) /\ registry[x] # None
                 /\ returned' = returned \cup {Cardinality(executed) + 1}
              \/ /\ phase[t] = "commit write" /\ Done(t, x) /\ call[t].adapter = x
                 /\ returned' = returned \cup {call[t].n}
           /\ phase'[t] = "commit write" =>
                 \/ /\ phase[t] = "commit write"
                    /\ UNCHANGED <<call, pending, executed, committed>>
                 \/ /\ phase[t] = "write" /\ Done(t, x) /\ registry[x] = None
                    /\ call[t].adapter = x /\ call'[t].adapter = x
                    /\ call'[t].n = Cardinality(executed) + 1
<1>1. \/ returned' = returned
      \/ /\ phase[t] = "write" /\ Done(t, x) /\ registry[x] # None
         /\ returned' = returned \cup {Cardinality(executed) + 1}
      \/ /\ phase[t] = "commit write" /\ Done(t, x) /\ On(t) = x
         /\ returned' = returned \cup {call[t].n}
  BY DEF Step, Kind, Rests, Starts, EndsBody, Proceeds, OpensBlock, OpensNested, EndsBlock,
     PopsNested, PopsBlock, Leaves, GivesBack
<1>2. phase'[t] = "commit write" =>
         \/ phase[t] = "commit write" /\ UNCHANGED <<call, pending, executed, committed>>
         \/ /\ phase[t] = "write" /\ Done(t, x) /\ registry[x] = None /\ On(t) = x
            /\ call'[t].adapter = call[t].adapter
            /\ call'[t].n = Cardinality(executed) + 1
  <2>1. CASE Rests(t, x)
    BY <2>1 DEF Rests, dataVars
  <2>2. CASE Proceeds(t, x)
    BY <2>2 DEF Proceeds
  <2>3. CASE Starts(t, x) \/ EndsBody(t, x)
    BY <2>3 DEF Starts, EndsBody
  <2>4. CASE OpensBlock(t, x) \/ OpensNested(t, x) \/ EndsBlock(t, x) \/ GivesBack(t, x)
    BY <2>4 DEF OpensBlock, OpensNested, EndsBlock, GivesBack
  <2>5. CASE PopsNested(t, x) \/ PopsBlock(t, x) \/ Leaves(t, x)
    BY <2>5 DEF PopsNested, PopsBlock, Leaves, Left
  <2>6. QED
    BY <2>1, <2>2, <2>3, <2>4, <2>5 DEF Step, Kind
<1>3. On(t) = x /\ phase[t] \in {"write", "commit write"} => call[t].adapter = x
  BY Kinds DEF On
<1>4. QED
  BY <1>1, <1>2, <1>3

\* Outside any block a write commits at once, or waits for its COMMIT.
LEMMA OutsideBlocks ==
    ASSUME Inv, NEW t \in Tasks, NEW x \in Adapters, Focus(t, x), phase[t] = "write"
    PROVE  /\ registry[x] # None => FramesOn(t, x) # {} /\ BlocksOn(t, x) # {}
           /\ registry[x] = None => ~session[x]
<1>1. SessionsInv
  BY DEF Inv, BlocksInv
<1>2. CASE FramesOn(t, x) = {}
  <2>1. registry[x] = None /\ ~session[x]
    BY <1>1, <1>2, VacantNext DEF SessionsInv
  <2>2. QED
    BY <2>1
<1>3. CASE FramesOn(t, x) # {}
  <2>1. BlocksOn(t, x) # {}
    BY <1>3 DEF BlocksOn
  <2>2. Depth(t, x) = registry[x]
    BY DEF Depth, In
  <2>3. registry[x] \in Nat
    BY <1>1, <1>3, <2>2 DEF SessionsInv, Nested
  <2>4. registry[x] # None
    BY <2>3 DEF None
  <2>5. QED
    BY <1>3, <2>1, <2>4
<1>4. QED
  BY <1>2, <1>3

LEMMA OneMoreWrite ==
    ASSUME TypeInv, \A v \in executed : v.id \in 1..Cardinality(executed),
           NEW w, w.id = Cardinality(executed) + 1
    PROVE  /\ Cardinality(executed) \in Nat /\ w \notin executed
           /\ Cardinality(executed \cup {w}) = Cardinality(executed) + 1
           /\ 1..Cardinality(executed \cup {w})
                 = 1..Cardinality(executed) \cup {Cardinality(executed) + 1}
           /\ Cardinality(executed) + 1 \notin 1..Cardinality(executed)
<1>1. PICK n \in Nat : n = Cardinality(executed)
  BY FS_CardinalityType DEF TypeInv
<1>2. n + 1 \notin 1..n /\ 1..(n + 1) = 1..n \cup {n + 1}
  BY OneMore
<1>3. w \notin executed
  BY <1>1, <1>2
<1>4. Cardinality(executed \cup {w}) = n + 1
  BY <1>1, <1>3, FS_AddElement DEF TypeInv
<1>5. QED
  BY <1>1, <1>2, <1>3, <1>4

LEMMA ReturnedNext ==
    ASSUME NoStatements, Inv, ReturnedInv, NEW t \in Tasks, NEW x \in Adapters, Step(t, x), Focus(t, x)
    PROVE  ReturnedInv'
<1> DEFINE N == Cardinality(executed)
<1>1. /\ TypeInv /\ DataTypes
      /\ \A a \in Adapters \ {x} : pending'[a] = pending[a]
      /\ committed \subseteq committed'
  BY CommittedNext DEF Inv, LockInv, Focus, DataStep
<1>2. /\ committed \subseteq executed /\ \A a \in Adapters : pending[a].writes \subseteq executed
      /\ \A w \in executed : w.id \in 1..N
      /\ returned \subseteq 1..N
      /\ \A u \in Tasks : phase[u] = "commit write" => call[u].n \in 1..N
      /\ \A w \in executed : w.within = {} /\ w.id \in returned => w \in committed
  BY DEF ReturnedInv
<1>3. \A u \in Tasks : phase[u] = "commit write" =>
         \A w \in executed : w.id = call[u].n =>
            \/ w \in committed
            \/ w \in pending[call[u].adapter].writes /\ Control[call[u].adapter] = "driver"
  BY DEF ReturnedInv
<1>4. /\ \/ returned' = returned
         \/ /\ phase[t] = "write" /\ Done(t, x) /\ registry[x] # None
            /\ returned' = returned \cup {N + 1}
         \/ /\ phase[t] = "commit write" /\ Done(t, x) /\ call[t].adapter = x
            /\ returned' = returned \cup {call[t].n}
      /\ phase'[t] = "commit write" =>
            \/ /\ phase[t] = "commit write"
               /\ UNCHANGED <<call, pending, executed, committed>>
            \/ /\ phase[t] = "write" /\ Done(t, x) /\ registry[x] = None
               /\ call[t].adapter = x /\ call'[t].adapter = x
               /\ call'[t].n = N + 1
  BY <1>1, ReturnKinds
\* The other tasks are on other adapters.
<1>5. ASSUME NEW u \in Tasks, u # t, phase'[u] = "commit write", NEW w \in executed, w.id = call'[u].n
      PROVE  \/ w \in committed'
             \/ w \in pending'[call'[u].adapter].writes /\ Control[call'[u].adapter] = "driver"
  <2>1. phase[u] = "commit write" /\ call'[u] = call[u] /\ On(u) = call[u].adapter
    BY <1>5, Kinds DEF Focus, Moves, On
  <2>2. ~OnIt(u, x)
    BY <1>5 DEF Focus
  <2>3. call[u].adapter # x
    BY <2>1, <2>2, Kinds DEF OnIt, Calling, In
  <2>4. call[u].adapter \in Adapters
    BY <2>1, Kinds DEF Inv, LockInv, HasAdapter
  <2>5. pending'[call[u].adapter] = pending[call[u].adapter]
    BY <1>1, <2>3, <2>4
  <2>6. w \in committed \/ (w \in pending[call[u].adapter].writes /\ Control[call[u].adapter] = "driver")
    BY <1>3, <1>5, <2>1
  <2>7. QED
    BY <1>1, <2>1, <2>5, <2>6
<1>6. \A u \in Tasks : u # t /\ phase'[u] = "commit write" => call'[u].n \in 1..N
  BY <1>2 DEF Focus, Moves
<1>7. CASE /\ ~(phase[t] = "write" /\ Done(t, x))
           /\ executed' = executed /\ pending'[x].writes \subseteq pending[x].writes
           /\ committed' \subseteq committed \cup pending[x].writes
  <2>1. /\ committed' \subseteq executed' /\ \A a \in Adapters : pending'[a].writes \subseteq executed'
        /\ \A w \in executed' : w.id \in 1..Cardinality(executed')
    BY <1>1, <1>2, <1>7
  <2>2. returned' \subseteq 1..Cardinality(executed')
    BY <1>2, <1>4, <1>7
  <2>3. ASSUME NEW u \in Tasks, phase'[u] = "commit write"
        PROVE  /\ call'[u].n \in 1..Cardinality(executed')
               /\ \A w \in executed' : w.id = call'[u].n =>
                     \/ w \in committed'
                     \/ w \in pending'[call'[u].adapter].writes /\ Control[call'[u].adapter] = "driver"
    <3>1. CASE u = t
      <4>1. phase[u] = "commit write" /\ UNCHANGED <<call, pending, executed, committed>>
        BY <1>4, <1>7, <2>3, <3>1
      <4>2. QED
        BY <1>2, <1>3, <4>1
    <3>2. CASE u # t
      BY <1>5, <1>6, <1>7, <2>3, <3>2
    <3>3. QED
      BY <3>1, <3>2
  <2>4. ASSUME NEW w \in executed', w.within = {}, w.id \in returned'
        PROVE  w \in committed'
    <3>1. CASE w.id \in returned
      BY <1>1, <1>2, <1>7, <2>4, <3>1
    <3>2. CASE phase[t] = "commit write" /\ Done(t, x) /\ call[t].adapter = x /\ w.id = call[t].n
      <4>1. w \in committed \/ (w \in pending[x].writes /\ Control[x] = "driver")
        BY <1>3, <1>7, <3>2
      <4>2. Control[x] = "driver" => committed' = committed \cup pending[x].writes
        BY <1>1, <3>2, DoneOtherwise, EndedStep, Kinds
      <4>3. QED
        BY <1>1, <4>1, <4>2
    <3>3. QED
      BY <1>4, <1>7, <2>4, <3>1, <3>2
  <2>5. QED
    BY <2>1, <2>2, <2>3, <2>4 DEF ReturnedInv
<1>8. ASSUME phase[t] = "write", Done(t, x), NEW w \in Writes,
             w = Write(N + 1, BlocksOn(t, x)), executed' = executed \cup {w},
             IF Held(x) THEN committed' = committed /\ pending'[x].writes = pending[x].writes \cup {w}
             ELSE committed' = committed \cup {w} /\ pending' = pending
      PROVE  ReturnedInv'
  <2>1. w.id = N + 1 /\ w.within = BlocksOn(t, x)
    BY <1>8 DEF Write
  <2>2. /\ N \in Nat /\ w \notin executed /\ Cardinality(executed') = N + 1
        /\ 1..Cardinality(executed') = 1..N \cup {N + 1} /\ N + 1 \notin 1..N
    BY <1>1, <1>2, <1>8, <2>1, OneMoreWrite
  <2>3. /\ committed' \subseteq executed' /\ \A a \in Adapters : pending'[a].writes \subseteq executed'
    BY <1>1, <1>2, <1>8
  <2>4. \A v \in executed' : v.id \in 1..Cardinality(executed')
    BY <1>2, <1>8, <2>1, <2>2
  <2>5. returned' \subseteq 1..Cardinality(executed')
    BY <1>2, <1>4, <1>8, <2>2
  <2>6. ASSUME NEW u \in Tasks, phase'[u] = "commit write"
        PROVE  /\ call'[u].n \in 1..Cardinality(executed')
               /\ \A v \in executed' : v.id = call'[u].n =>
                     \/ v \in committed'
                     \/ v \in pending'[call'[u].adapter].writes /\ Control[call'[u].adapter] = "driver"
    <3>1. CASE u = t
      <4>1. call'[u].adapter = x /\ call'[u].n = N + 1 /\ registry[x] = None
        BY <1>4, <1>8, <2>6, <3>1
      <4>2. \A v \in executed' : v.id = N + 1 => v = w
        BY <1>2, <1>8, <2>2
      <4>3. Held(x) => Control[x] = "driver"
        <5>1. ~session[x]
          BY <1>8, <4>1, OutsideBlocks
        <5>2. Control[x] # "statements" /\ Control[x] \in {"driver", "statements", "cursor"}
          BY ControlAssumption DEF NoStatements
        <5>3. CASE Control[x] = "cursor"
          BY <5>1, <5>3 DEF Held
        <5>4. QED
          BY <5>2, <5>3
      <4>4. QED
        BY <1>8, <2>2, <4>1, <4>2, <4>3
    <3>2. CASE u # t
      <4>1. call'[u].n \in 1..N
        BY <1>6, <2>6, <3>2
      <4>2. \A v \in executed' : v.id = call'[u].n => v \in executed
        BY <1>8, <2>1, <2>2, <4>1
      <4>3. QED
        BY <1>5, <2>2, <2>6, <3>2, <4>1, <4>2
    <3>3. QED
      BY <3>1, <3>2
  <2>7. ASSUME NEW v \in executed', v.within = {}, v.id \in returned'
        PROVE  v \in committed'
    <3>1. CASE v \in executed
      <4>1. v.id \in returned
        BY <1>2, <1>4, <1>8, <2>2, <2>7, <3>1
      <4>2. QED
        BY <1>1, <1>2, <2>7, <3>1, <4>1
    <3>2. CASE v = w
      <4>1. v.id \notin returned
        BY <1>2, <2>1, <2>2, <3>2
      <4>2. registry[x] # None
        BY <1>4, <1>8, <2>7, <4>1
      <4>3. BlocksOn(t, x) # {}
        BY <1>8, <4>2, OutsideBlocks
      <4>4. QED
        BY <2>1, <2>7, <3>2, <4>3
    <3>3. QED
      BY <1>8, <3>1, <3>2
  <2>8. QED
    BY <2>3, <2>4, <2>5, <2>6, <2>7 DEF ReturnedInv
<1>9. QED
  BY <1>7, <1>8, DataMoves

-----------------------------------------------------------------------------
(* The invariant holds at the start, and a stutter keeps it *)

LEMMA NoBlocksAtFirst ==
    ASSUME Init, NEW t \in Tasks
    PROVE  /\ phase[t] = "user" /\ stage[t] = "wait" /\ stack[t] = <<>>
           /\ ToSet(stack[t]) = {} /\ \A a : FramesOn(t, a) = {}
           /\ \A f, a : ~In(t, f, a) \/ "user" \in f
           /\ \A a : ~OnIt(t, a)
<1>1. phase[t] = "user" /\ stage[t] = "wait" /\ stack[t] = <<>>
  BY DEF Init
<1>2. <<>> \in Seq({}) /\ DOMAIN <<>> = {}
  BY EmptySeq
<1>3. ToSet(stack[t]) = {}
  BY <1>1, <1>2 DEF ToSet
<1>4. \A a : FramesOn(t, a) = {}
  BY <1>3 DEF FramesOn
<1>5. \A f, a : ~In(t, f, a) \/ "user" \in f
  BY <1>1 DEF In
<1>6. \A a : ~OnIt(t, a)
  BY <1>1, <1>4, Kinds DEF OnIt, Calling, In
<1>7. QED
  BY <1>1, <1>3, <1>4, <1>5, <1>6

LEMMA DataTypesInit == Init => DataTypes /\ LockHeld
<1> SUFFICES ASSUME Init
             PROVE  DataTypes /\ LockHeld
  OBVIOUS
<1>1. DataTypes
  BY AsyncPoolsAssumption, IdleSession DEF Init, DataTypes, Outcomes
<1>2. LockHeld
  BY NobodyAssumption DEF Init, LockHeld
<1>3. QED
  BY <1>1, <1>2

LEMMA BlocksInvInit == Init => BlocksInv
<1> SUFFICES ASSUME Init
             PROVE  BlocksInv
  OBVIOUS
<1>1. StacksInv
  <2>1. \A t \in Tasks : Stacked(stack[t])
    BY NoBlocksAtFirst, EmptySeq DEF Stacked
  <2>2. QED
    BY <2>1, NoBlocksAtFirst DEF StacksInv
<1>2. PhasesInv
  BY NoBlocksAtFirst, Kinds DEF PhasesInv
<1>3. Custody
  <2>1. \A t \in Tasks : ToSet(stack[t]) = {} /\ \A a : ~OnIt(t, a) /\ ~Calling(t, a)
    BY NoBlocksAtFirst DEF OnIt
  <2>2. free = PoolAdapters
    BY DEF Init
  <2>3. QED
    BY <2>1, <2>2 DEF Custody
<1>4. SessionsInv
  <2>1. ASSUME NEW t \in Tasks, NEW a \in Adapters
        PROVE  Nested(t, a)
    BY NoBlocksAtFirst DEF Nested
  <2>2. \A a \in Adapters : registry[a] = None /\ ~session[a]
    BY DEF Init
  <2>3. QED
    BY <2>1, <2>2 DEF SessionsInv
<1>5. ASSUME NEW a \in Adapters
      PROVE  pending[a].writes = {} /\ pending[a].savepoints = <<>>
  BY IdleSession DEF Init
<1>6. SavepointsInv
  <2>1. DOMAIN <<>> = {}
    BY EmptySeq
  <2>2. ASSUME NEW a \in Adapters
        PROVE  /\ Positive(pending[a].savepoints)
               /\ Growing(pending[a].savepoints, pending[a].writes)
    BY <1>5, <2>1 DEF Positive, Growing
  <2>3. QED
    BY <2>2, NoBlocksAtFirst DEF SavepointsInv
<1>7. WritesInv
  BY <1>5 DEF WritesInv
<1>8. DurableInv
  BY DEF Init, DurableInv
<1>9. QED
  BY <1>1, <1>2, <1>3, <1>4, <1>6, <1>7, <1>8 DEF BlocksInv

LEMMA ReturnedInvInit == Init => ReturnedInv
<1> SUFFICES ASSUME Init
             PROVE  ReturnedInv
  OBVIOUS
<1>1. committed = {} /\ executed = {} /\ returned = {}
      /\ \A t \in Tasks : phase[t] = "user"
  BY DEF Init
<1>2. ASSUME NEW a \in Adapters
      PROVE  pending[a].writes = {}
  BY IdleSession DEF Init
<1>3. QED
  BY <1>1, <1>2 DEF ReturnedInv

LEMMA UsesStay == [Next]_vars => uses' = uses
  BY DEF Next, Await, Cancel, Code, TakeLock, CallReturns, CancelledCallEnds, UndoEnds, GiveBack,
     CancelWaiting, CancelRunning, Transaction, Run, Finish, Raise, PoolTimesOut, poolVars, vars

LEMMA StutterKeeps ==
    ASSUME UNCHANGED vars
    PROVE  /\ DataTypes => DataTypes'
           /\ BlocksInv => BlocksInv'
           /\ ReturnedInv => ReturnedInv'
<1>1. /\ UNCHANGED <<uses, free, registry, stack, phase, stage, cancelled, call, lock, session>>
      /\ UNCHANGED <<inBlock, pending, executed, committed, returned, outcome>>
  BY DEF vars, callVars, dataVars, poolVars
<1>2. DataTypes => DataTypes'
  BY <1>1 DEF DataTypes
<1>3. StacksInv => StacksInv'
  BY <1>1 DEF StacksInv, Top
<1>4. PhasesInv => PhasesInv'
  BY <1>1 DEF PhasesInv, Top
<1>5. Custody => Custody'
  BY <1>1 DEF Custody, Named, OnIt, Calling, In, On, Top, FramesOn
<1>6. SessionsInv => SessionsInv'
  <2>1. ASSUME NEW t
        PROVE  On(t)' = On(t) /\ \A a : FramesOn(t, a)' = FramesOn(t, a)
    BY <1>1 DEF On, Top, FramesOn
  <2>2. ASSUME NEW t, NEW a
        PROVE  Depth(t, a)' = Depth(t, a)
    BY <1>1, <2>1 DEF Depth, In
  <2>3. ASSUME NEW t, NEW a, Nested(t, a)
        PROVE  Nested(t, a)'
    BY <1>1, <2>1, <2>2, <2>3 DEF Nested, In
  <2>4. ASSUME NEW a
        PROVE  Vacant(a)' => Vacant(a)
    BY <2>1 DEF Vacant
  <2>5. QED
    BY <1>1, <2>3, <2>4 DEF SessionsInv
<1>7. SavepointsInv => SavepointsInv'
  BY <1>1 DEF SavepointsInv, Depth, In, On, Top, FramesOn
<1>8. WritesInv => WritesInv'
  BY <1>1 DEF WritesInv, Vacant, Belongs, LeftOver, Keeping, In, On, Top, BlocksOn, FramesOn
<1>9. DurableInv => DurableInv'
  BY <1>1 DEF DurableInv, Accounted, TakenBack, Keeping, Top
<1>10. ReturnedInv => ReturnedInv'
  BY <1>1 DEF ReturnedInv
<1>11. QED
  BY <1>2, <1>3, <1>4, <1>5, <1>6, <1>7, <1>8, <1>9, <1>10 DEF BlocksInv

\* The inductive invariant, where each task has adapters of its own.
AtomicInv == LockInv /\ (Private => Inv)

LEMMA InvNext ==
    ASSUME Inv, Private, [Next]_vars
    PROVE  Inv'
<1>1. LockInv' /\ LockHeld'
  BY LockInvNext, LockHeldNext DEF Inv
<1>2. CASE UNCHANGED vars
  BY <1>1, <1>2, StutterKeeps DEF Inv
<1>3. CASE \E t \in Tasks, x \in Adapters : Step(t, x)
  BY <1>1, <1>3, BlocksNext DEF Inv
<1>4. QED
  BY <1>2, <1>3, StepKinds

\* What the proofs of AtomicBlocks and FinishedIsDurable rest on: who is on
\* each adapter, how deep its blocks are, which writes its transaction and its
\* savepoints hold, and which of them a RELEASE, ROLLBACK TO or ROLLBACK that
\* raised left behind, for any tasks, adapters, pools and bounds.
THEOREM AtomicInvHolds == Spec => []AtomicInv
<1>1. Init => AtomicInv
  BY LockInvInit, DataTypesInit, BlocksInvInit DEF AtomicInv, Inv
<1>2. AtomicInv /\ [Next]_vars => AtomicInv'
  <2> SUFFICES ASSUME AtomicInv, [Next]_vars
               PROVE  AtomicInv'
    OBVIOUS
  <2>1. LockInv'
    BY LockInvNext DEF AtomicInv
  <2>2. Private' => Private
    BY UsesStay DEF Private, Named
  <2>3. QED
    BY <2>1, <2>2, InvNext DEF AtomicInv
<1>3. QED
  BY <1>1, <1>2, PTL DEF Spec

\* async_transaction() is atomic at every depth, through errors, cancellations
\* at every await and pools that time out, whatever ends a transaction on the
\* adapter: nothing a block wrote is durable before it ended, nor after it
\* raised, except where a cancellation met the statement that ended it, or the
\* RELEASE, ROLLBACK TO or ROLLBACK that ended it raised itself.
THEOREM AtomicBlocksHolds == Spec => []AtomicBlocks
<1>1. AtomicInv => AtomicBlocks
  BY DEF AtomicInv, AtomicBlocks, Inv, BlocksInv, DurableInv, Keeping
<1>2. QED
  BY <1>1, AtomicInvHolds, PTL

\* A block whose work nothing took back left no write of its own in an open
\* transaction.
LEMMA FinishedBlocksAreDurable ==
    ASSUME Inv, NEW w \in executed, w.within # {},
           \A b \in w.within : outcome[b] \in {"ok", "cut", "kept"}
    PROVE  w \in committed
<1>1. /\ ~LeftOver(w)
      /\ \A b \in w.within : ~TakenBack(b)
  BY DEF LeftOver, TakenBack
<1> SUFFICES ASSUME NEW a \in Adapters, w \in pending[a].writes
             PROVE  FALSE
  BY <1>1 DEF Inv, BlocksInv, DurableInv, Accounted
<1>2. PICK t \in Tasks : FramesOn(t, a) # {} /\ Belongs(t, a, w)
  BY <1>1 DEF Inv, BlocksInv, WritesInv, Vacant
<1>3. ~In(t, {"close"}, a) /\ (In(t, {"rollback"}, a) => outcome[Top(t).block] = "failed")
  <2>1. ~In(t, {"begin", "close"}, a)
    BY <1>1, <1>2 DEF Belongs
  <2>2. QED
    BY <1>2, <2>1 DEF In, Belongs
<1>4. PICK f \in FramesOn(t, a) : f.level = 0
  <2>1. Depth(t, a) \in Nat /\ {f.level : f \in FramesOn(t, a)} = 0..Depth(t, a)
    BY <1>2 DEF Inv, BlocksInv, SessionsInv, Nested
  <2>2. 0 \in 0..Depth(t, a)
    BY <2>1
  <2>3. QED
    BY <2>1, <2>2
<1>5. outcome[f.block] \in {"ok", "cut", "kept"}
  <2>1. f.block \in w.within
    BY <1>1, <1>2, <1>4 DEF Belongs
  <2>2. QED
    BY <2>1
<1>6. f \in ToSet(stack[t]) /\ f.adapter = a
  BY DEF FramesOn
<1>7. f = Top(t) /\ outcome[f.block] \in Endings(phase[t])
  BY <1>5, <1>6 DEF Inv, BlocksInv, StacksInv
<1>8. phase[t] \in {"rollback", "close"}
  BY <1>5, <1>7 DEF Endings
<1>9. On(t) = a
  BY <1>6, <1>7, <1>8, Kinds DEF On
<1>10. QED
  BY <1>3, <1>5, <1>7, <1>8, <1>9 DEF In

\* What finished is durable, on adapters whose driver ends the transaction and
\* on those with a cursor for a session: the writes of blocks that ended without
\* taking them back, however they ended, and the write of an arun() that
\* returned.  Where the caller put a connection of another kind in autocommit
\* it is not so: a BEGIN whose task is cancelled leaves a transaction that later
\* writes join.
THEOREM FinishedIsDurableHolds ==
    ASSUME NoStatements
    PROVE  Spec => []FinishedIsDurable
<1> DEFINE I == AtomicInv /\ (Private => ReturnedInv)
<1>1. Init => I
  BY LockInvInit, DataTypesInit, BlocksInvInit, ReturnedInvInit DEF AtomicInv, Inv
<1>2. I /\ [Next]_vars => I'
  <2> SUFFICES ASSUME I, [Next]_vars
               PROVE  I'
    OBVIOUS
  <2>1. Private' => Private
    BY UsesStay DEF Private, Named
  <2>2. LockInv'
    BY LockInvNext DEF AtomicInv
  <2>3. ASSUME Private
        PROVE  Inv' /\ ReturnedInv'
    <3>1. Inv /\ ReturnedInv
      BY <2>3 DEF AtomicInv
    <3>2. CASE UNCHANGED vars
      BY <2>3, <3>1, <3>2, InvNext, StutterKeeps
    <3>3. CASE \E t \in Tasks, x \in Adapters : Step(t, x)
      BY <2>3, <3>1, <3>3, InvNext, ReturnedNext, StepFocus
    <3>4. QED
      BY <2>3, <3>1, <3>2, <3>3, StepKinds
  <2>4. QED
    BY <2>1, <2>2, <2>3 DEF AtomicInv
<1>3. I => FinishedIsDurable
  <2> SUFFICES ASSUME I, Private, NEW w \in executed,
                      IF w.within = {} THEN w.id \in returned
                      ELSE \A b \in w.within : outcome[b] \in {"ok", "cut", "kept"}
               PROVE  w \in committed
    BY DEF FinishedIsDurable
  <2>1. Inv /\ ReturnedInv
    BY DEF AtomicInv
  <2>2. CASE w.within = {}
    BY <2>1, <2>2 DEF ReturnedInv
  <2>3. CASE w.within # {}
    BY <2>1, <2>3, FinishedBlocksAreDurable
  <2>4. QED
    BY <2>2, <2>3
<1>4. QED
  BY <1>1, <1>2, <1>3, PTL DEF Spec
=============================================================================
