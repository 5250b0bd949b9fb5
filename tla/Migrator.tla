------------------------------ MODULE Migrator ------------------------------
(***************************************************************************)
(* Migrators that share one database: the up, down, down_to, repair and    *)
(* baseline runs of sustained/migrations, with the advisory lock, the      *)
(* tracking table, the schema the migrations' steps change, steps that     *)
(* fail or are cut short, and the operator who cleans up after them.       *)
(*                                                                         *)
(* A process is one Migrator over one connection.  The list of migrations  *)
(* it was built with is its deploy: a sequence of [id, edition], so that   *)
(* two processes may know different migrations and different contents of   *)
(* the same one.  The edition stands for the statements of a migration and *)
(* for the checksum of them that the tracking row stores.                  *)
(*                                                                         *)
(* Left out: migrations generated from models, rehearsals (RehearsalGate), *)
(* and the upgrade of an older tracking table (TrackingUpgrade).           *)
(***************************************************************************)
EXTENDS Naturals, FiniteSets, FiniteSetsExt, SequencesExt, Filters


CONSTANTS
  Processes,         \* migrators, each with a connection of its own
  Repeatables,       \* ids of the migrations with repeatable=True
  NonTransactional,  \* ids of the migrations with transactional=False
  NoDown,            \* ids of the migrations without a down step
  Deploys,           \* the lists of migrations a process may be built with
  Engines,           \* the engines to check, see EngineType
  LegacySets,        \* which objects may stand in the database beforehand
  Commands,          \* the verbs the processes may call
  MaxRuns,           \* bound: runs started
  MaxFaults,         \* bound: failures, interruptions, crashes
  None

(***************************************************************************)
(* lock: the engine has an advisory lock.  ddl: a rollback takes schema    *)
(* changes back.  frozen: the reads of one transaction all see the state   *)
(* the first of them saw (REPEATABLE READ, MySQL's default, on a driver    *)
(* that opens a transaction by itself).                                    *)
(***************************************************************************)
EngineType == [lock : BOOLEAN, ddl : BOOLEAN, frozen : BOOLEAN]

Entries(d) == {d[i] : i \in DOMAIN d}
Ids == {e.id : e \in UNION {Entries(d) : d \in Deploys}}
Editions == {e.edition : e \in UNION {Entries(d) : d \in Deploys}}

ASSUME MigratorAssumption ==
  /\ Engines \subseteq EngineType
  /\ Commands \subseteq {"up", "down", "down_to", "repair", "baseline"}
  /\ Editions \subseteq Nat \ {0}
  /\ IsFiniteSet(Ids)
  /\ \A d \in Deploys :
       /\ d \in Seq([id : Ids, edition : Editions])
       /\ \A i, j \in DOMAIN d : d[i].id = d[j].id => i = j
  /\ LegacySets \subseteq SUBSET Ids
  /\ MaxRuns \in Nat /\ MaxFaults \in Nat
  /\ None \notin Ids

VARIABLES
  engine,   \* the engine of the database
  schema,   \* schema[id]: what the database holds of the migration's objects
  rows,     \* rows[id]: the committed tracking row
  held,     \* held[p]: how often p's session holds the advisory lock
  pc,       \* pc[p]: where p's run stands
  run,      \* run[p]: the verb p runs and the target of its down_to
  deploy,   \* deploy[p]: the migrations p was built with
  ready,    \* ready[p]: _tracking_ready
  view,     \* view[p]: the snapshot p's open transaction reads, on a frozen engine
  known,    \* known[p]: the rows a repair or a baseline has read
  todo,     \* todo[p]: the steps the run still has to take
  seq,      \* seq[p]: next_seq
  loose,    \* ids out of step with their row for a reason the code cannot mend
  runs, faults

database == <<engine, schema, rows, loose>>
vars == <<engine, schema, rows, held, pc, run, deploy, ready, view, known,
          todo, seq, loose, runs, faults>>

NoRow == [seq |-> 0, ok |-> FALSE, edition |-> 0]
Absent == [state |-> "absent", edition |-> 0]
Object(state, edition) == [state |-> state, edition |-> edition]
Idle == [verb |-> "none", target |-> None]

Recorded(recs, id) == recs[id] # NoRow
Ok(recs, id) == recs[id].ok
Failed(recs, id) == Recorded(recs, id) /\ ~recs[id].ok

(* migration_scope() and _write_failure_row(): the migration runs in a     *)
(* transaction that a failure rolls back, schema changes included.         *)
Transactional(id) == engine.ddl /\ id \notin NonTransactional

Versioned(d) == Where(d, {m \in Entries(d) : m.id \notin Repeatables})
RepeatablesOf(d) == Where(d, {m \in Entries(d) : m.id \in Repeatables})
Registered(d, id) == \E m \in Entries(d) : m.id = id
EntryOf(d, id) == CHOOSE m \in Entries(d) : m.id = id

VersionedThrough(d, target) ==
  LET v == Versioned(d) IN
  IF target = None THEN v
  ELSE SubSeq(v, 1, CHOOSE i \in DOMAIN v : v[i].id = target)

NextSeq(recs) == 1 + Max({recs[id].seq : id \in Ids} \cup {0})

(***************************************************************************)
(* What validation objects to: a failed attempt, an applied migration the  *)
(* deploy does not know, an applied one whose content changed, a pending   *)
(* one ordered before an applied one.                                      *)
(***************************************************************************)
ValidationProblems(d, recs, outOfOrder) ==
  LET v == Versioned(d) IN
  \/ \E id \in Ids : Failed(recs, id)
  \/ \E id \in Ids : Ok(recs, id) /\ ~Registered(d, id)
  \/ \E m \in Entries(v) : Ok(recs, m.id) /\ recs[m.id].edition # m.edition
  \/ /\ ~outOfOrder
     /\ \E i, j \in DOMAIN v : i < j /\ ~Ok(recs, v[i].id) /\ Ok(recs, v[j].id)

IsCurrent(recs, m) ==
  Ok(recs, m.id) /\ (m.id \in Repeatables => recs[m.id].edition = m.edition)

(* One step of a run: an up step with the INSERT or UPDATE of its row, or  *)
(* a down step with the DELETE of it.  forced is down's allow_changed.     *)
UpStep(recs, m) ==
  [id |-> m.id, edition |-> m.edition, way |-> "up",
   update |-> Recorded(recs, m.id), forced |-> FALSE]
DownStep(m, forced) ==
  [id |-> m.id, edition |-> m.edition, way |-> "down",
   update |-> FALSE, forced |-> forced]

VersionedNow(d, recs, target) ==
  Where(VersionedThrough(d, target), {m \in Entries(d) : ~Ok(recs, m.id)})
RepeatablesNow(d, recs, target) ==
  IF target # None THEN <<>>
  ELSE Where(RepeatablesOf(d), {m \in Entries(d) : ~IsCurrent(recs, m)})

UpSteps(d, recs, target) ==
  LET ms == VersionedNow(d, recs, target) \o RepeatablesNow(d, recs, target)
  IN  [i \in DOMAIN ms |-> UpStep(recs, ms[i])]

(* The ids of S in the order of their rows' seq.                           *)
BySeq(recs, S) ==
  CHOOSE s \in [1..Cardinality(S) -> S] :
    \A i, j \in DOMAIN s : i < j => s[i] # s[j] /\ recs[s[i]].seq <= recs[s[j]].seq

(* applied_versioned(): the applied ids in the order they were applied,    *)
(* the deploy's repeatables left out.                                      *)
AppliedVersioned(d, recs) ==
  BySeq(recs, {id \in Ids : Ok(recs, id) /\ ~(id \in Repeatables /\ Registered(d, id))})

(* A mutant: the window in the order of application.                       *)
LastOfOldestFirst(applied, count) ==
  SubSeq(applied, IF count < Len(applied) THEN Len(applied) - count + 1 ELSE 1,
         Len(applied))

(* The ids down() takes back, the last applied one first.                  *)
LastOf(applied, count) ==
  Reverse(SubSeq(applied, IF count < Len(applied) THEN Len(applied) - count + 1 ELSE 1,
                 Len(applied)))
AboveTarget(applied, target) ==
  Reverse(SubSeq(applied, 1 + CHOOSE i \in DOMAIN applied : applied[i] = target,
                 Len(applied)))

WindowProblem(d, recs, window, forced) ==
  \E i \in DOMAIN window :
    Registered(d, window[i]) =>
      \/ window[i] \in NoDown
      \/ ~forced /\ recs[window[i]].edition # EntryOf(d, window[i]).edition

(***************************************************************************)
(* What a step leaves behind when its statements all ran.  A versioned     *)
(* step whose objects exist raises, or, where its statements insert rows,  *)
(* does its work a second time.  A repeatable replaces what is there.      *)
(***************************************************************************)
Effect(s, w) ==
  IF w.way = "down" THEN Absent
  ELSE IF w.id \in Repeatables \/ s.state \in {"absent", "partial"}
       THEN Object("done", w.edition)
       ELSE Object("twice", w.edition)
MustRaise(s, w) ==
  w.way = "up" /\ w.id \notin Repeatables /\ s.state = "legacy"

(* The INSERT of a row whose id is taken breaks the primary key.           *)
Conflict(w) == w.way = "up" /\ ~w.update /\ Recorded(rows, w.id)

RowsAfter(w, number, ok) ==
  [rows EXCEPT ![w.id] =
     IF w.way = "down" THEN NoRow
     ELSE IF ~w.update THEN [seq |-> number, ok |-> ok, edition |-> w.edition]
     ELSE IF @ = NoRow THEN NoRow
     ELSE [@ EXCEPT !.ok = ok, !.edition = w.edition]]

Work(p) == Head(todo[p])
InBareStep(p) == pc[p] \in {"step", "row", "failing"}
InFlight(id) == \E p \in Processes : InBareStep(p) /\ Work(p).id = id

----------------------------------------------------------------------------
(* Helpers for a process's own variables.                                  *)

Reads(p) == IF view[p] = None THEN rows ELSE view[p]

(* ensure_tracking_table() commits once per migrator, before the rows are  *)
(* read; a migrator that is ready reads in the transaction it has open.    *)
RowsSeen(p) == IF ready[p] THEN Reads(p) ELSE rows
AfterRead(p) ==
  /\ ready' = [ready EXCEPT ![p] = TRUE]
  /\ view' = [view EXCEPT ![p] = IF engine.frozen THEN RowsSeen(p) ELSE None]
NewTransaction(p) == view' = [view EXCEPT ![p] = None]

Fault == faults < MaxFaults /\ faults' = faults + 1

(* The end of the locked body.  Where there is no lock, lock_scope() adds  *)
(* nothing and the run is over.                                            *)
BodyEnds(p) ==
  /\ pc' = [pc EXCEPT ![p] = IF engine.lock THEN "unlock" ELSE "idle"]
  /\ run' = [run EXCEPT ![p] = Idle]
  /\ todo' = [todo EXCEPT ![p] = <<>>]
  /\ seq' = [seq EXCEPT ![p] = 0]
  /\ known' = [known EXCEPT ![p] = None]

(* lock_scope() rolls the session back before it unlocks after a failure.  *)
BodyFails(p) == BodyEnds(p) /\ NewTransaction(p)

plan == <<run, todo, seq, known>>

Init ==
  /\ engine \in Engines
  /\ \E legacy \in LegacySets :
       schema = [id \in Ids |-> IF id \in legacy THEN Object("legacy", 0) ELSE Absent]
  /\ rows = [id \in Ids |-> NoRow]
  /\ loose = {}
  /\ held = [p \in Processes |-> 0]
  /\ pc = [p \in Processes |-> "idle"]
  /\ run = [p \in Processes |-> Idle]
  /\ deploy \in [Processes -> Deploys]
  /\ ready = [p \in Processes |-> FALSE]
  /\ view = [p \in Processes |-> None]
  /\ known = [p \in Processes |-> None]
  /\ todo = [p \in Processes |-> <<>>]
  /\ seq = [p \in Processes |-> 0]
  /\ runs = 0 /\ faults = 0

----------------------------------------------------------------------------
(* Starting a run and taking the lock.                                     *)

Begin(p, verb, target) ==
  /\ pc[p] = "idle" /\ runs < MaxRuns /\ verb \in Commands
  /\ runs' = runs + 1
  /\ run' = [run EXCEPT ![p] = [verb |-> verb, target |-> target]]
  /\ pc' = [pc EXCEPT ![p] = IF engine.lock THEN "lock" ELSE "read"]
  /\ UNCHANGED <<database, held, deploy, known, todo, seq, faults>>

(* The calls of the Migrator that read nothing before the lock.            *)
Call(p, verb) == Begin(p, verb, None) /\ UNCHANGED <<ready, view>>

CallUp(p) == Call(p, "up")
CallDown(p) == Call(p, "down")
CallRepair(p) == Call(p, "repair")

(* An operator calls baseline() on objects that stand without a row.       *)
CallBaseline(p) ==
  /\ \E id \in Ids : schema[id].state = "legacy" /\ ~Recorded(rows, id)
  /\ Call(p, "baseline")

Start(p) == CallUp(p) \/ CallDown(p) \/ CallRepair(p) \/ CallBaseline(p)

(* down_to() reads the applied ids first, outside the lock, and starts a   *)
(* run only for a target below the newest of them.                         *)
StartDownTo(p) ==
  LET applied == AppliedVersioned(deploy[p], RowsSeen(p)) IN
  /\ \E i \in DOMAIN applied : i < Len(applied) /\ Begin(p, "down_to", applied[i])
  /\ AfterRead(p)

(* A mutant: a lock the session itself still holds is waited for, too.     *)
TakeLockNotReentrant(p) ==
  /\ pc[p] = "lock"
  /\ \A q \in Processes : held[q] = 0
  /\ held' = [held EXCEPT ![p] = @ + 1]
  /\ pc' = [pc EXCEPT ![p] = "read"]
  /\ UNCHANGED <<database, deploy, ready, view, plan, runs, faults>>

TakeLock(p) ==
  /\ pc[p] = "lock"
  /\ \A q \in Processes \ {p} : held[q] = 0
  /\ held' = [held EXCEPT ![p] = @ + 1]
  /\ pc' = [pc EXCEPT ![p] = "read"]
  /\ UNCHANGED <<database, deploy, ready, view, plan, runs, faults>>

(* The engine refuses the lock, in the value it returns or by raising.     *)
LockRefused(p) ==
  /\ pc[p] = "lock" /\ Fault
  /\ pc' = [pc EXCEPT ![p] = "idle"]
  /\ run' = [run EXCEPT ![p] = Idle]
  /\ UNCHANGED <<database, held, deploy, ready, view, known, todo, seq, runs>>

Unlock(p) ==
  /\ pc[p] = "unlock"
  /\ held' = [held EXCEPT ![p] = @ - 1]
  /\ pc' = [pc EXCEPT ![p] = "idle"]
  /\ UNCHANGED <<database, deploy, ready, view, plan, runs, faults>>

(* A refused unlock leaves the lock with the session.                      *)
UnlockRefused(p) ==
  /\ pc[p] = "unlock" /\ Fault
  /\ pc' = [pc EXCEPT ![p] = "idle"]
  /\ UNCHANGED <<database, held, deploy, ready, view, plan, runs>>

----------------------------------------------------------------------------
(* The reads under the lock, which decide what the run does.               *)

Reading(p, verbs) == pc[p] = "read" /\ run[p].verb \in verbs

(* A mutant: with validate=False a failed attempt does not stop the run.   *)
RunUpOverFailedRow(p) ==
  /\ Reading(p, {"up"})
  /\ \E validate, outOfOrder \in BOOLEAN,
        target \in {None} \cup {m.id : m \in Entries(Versioned(deploy[p]))} :
       LET recs == RowsSeen(p) IN
       /\ ~(validate /\ ValidationProblems(deploy[p], recs, outOfOrder))
       /\ todo' = [todo EXCEPT ![p] = UpSteps(deploy[p], recs, target)]
       /\ seq' = [seq EXCEPT ![p] = NextSeq(recs)]
  /\ AfterRead(p)
  /\ pc' = [pc EXCEPT ![p] = "run"]
  /\ UNCHANGED <<database, held, deploy, run, known, runs, faults>>

RunUp(p) ==
  /\ Reading(p, {"up"})
  /\ \E validate, outOfOrder \in BOOLEAN,
        target \in {None} \cup {m.id : m \in Entries(Versioned(deploy[p]))} :
       LET recs == RowsSeen(p) IN
       /\ ~(validate /\ ValidationProblems(deploy[p], recs, outOfOrder))
       /\ \A m \in Entries(VersionedNow(deploy[p], recs, target)) : ~Recorded(recs, m.id)
       /\ todo' = [todo EXCEPT ![p] = UpSteps(deploy[p], recs, target)]
       /\ seq' = [seq EXCEPT ![p] = NextSeq(recs)]
  /\ AfterRead(p)
  /\ pc' = [pc EXCEPT ![p] = "run"]
  /\ UNCHANGED <<database, held, deploy, run, known, runs, faults>>

(* An up run that stops before its first step: a validation problem, a     *)
(* failed attempt, or a guard, the preflight or the rehearsal gate, which  *)
(* may object to any run.                                                  *)
RunUpRefused(p) ==
  /\ Reading(p, {"up"})
  /\ ready' = [ready EXCEPT ![p] = TRUE]
  /\ BodyFails(p)
  /\ UNCHANGED <<database, held, deploy, runs, faults>>

Window(p, recs, count) ==
  LET applied == AppliedVersioned(deploy[p], recs) IN
  IF run[p].verb = "down" THEN LastOf(applied, count)
  ELSE AboveTarget(applied, run[p].target)

(* Why a down run stops before its first step: any failed attempt, a       *)
(* target that is not applied any more, a migration in the window that the *)
(* deploy does not know, cannot take back or has edited.                   *)
DownRefused(p, recs, count, forced) ==
  \/ \E id \in Ids : Failed(recs, id)
  \/ (run[p].verb = "down_to" => run[p].target \in ToSet(AppliedVersioned(deploy[p], recs)))
     => WindowProblem(deploy[p], recs, Window(p, recs, count), forced)

RunDown(p) ==
  LET recs == RowsSeen(p) IN
  /\ Reading(p, {"down", "down_to"})
  /\ \E count \in 1..2, forced \in BOOLEAN :
       /\ ~DownRefused(p, recs, count, forced)
       /\ todo' = [todo EXCEPT ![p] =
            [i \in DOMAIN Window(p, recs, count) |->
               DownStep(EntryOf(deploy[p], Window(p, recs, count)[i]), forced)]]
  /\ AfterRead(p)
  /\ pc' = [pc EXCEPT ![p] = "run"]
  /\ UNCHANGED <<database, held, deploy, run, seq, known, runs, faults>>

RunDownRefused(p) ==
  /\ Reading(p, {"down", "down_to"})
  /\ \E count \in 1..2, forced \in BOOLEAN : DownRefused(p, RowsSeen(p), count, forced)
  /\ ready' = [ready EXCEPT ![p] = TRUE]
  /\ BodyFails(p)
  /\ UNCHANGED <<database, held, deploy, runs, faults>>

----------------------------------------------------------------------------
(* The steps of an up or a down run.                                       *)

NextStep(p) == todo' = [todo EXCEPT ![p] = Tail(@)]
(* A mutant: next_seq stays where the run began.                           *)
SeqNotCounted(p, w) == UNCHANGED seq

SeqAfter(p, w) ==
  seq' = [seq EXCEPT ![p] = IF w.way = "up" /\ ~w.update THEN @ + 1 ELSE @]

(* The step and its row in one transaction.                                *)
AppliesInTransaction(p) ==
  LET w == Work(p) IN
  /\ pc[p] = "run" /\ todo[p] # <<>> /\ Transactional(w.id)
  /\ ~MustRaise(schema[w.id], w) /\ ~Conflict(w)
  /\ schema' = [schema EXCEPT ![w.id] = Effect(@, w)]
  /\ rows' = RowsAfter(w, seq[p], TRUE)
  /\ NextStep(p) /\ SeqAfter(p, w) /\ NewTransaction(p)
  /\ UNCHANGED <<engine, held, pc, run, deploy, ready, known, loose, runs, faults>>

(* The step or the row raised; the transaction takes both back.            *)
TransactionRolledBack(p) ==
  LET w == Work(p) IN
  /\ pc[p] = "run" /\ todo[p] # <<>> /\ Transactional(w.id)
  /\ IF MustRaise(schema[w.id], w) \/ Conflict(w) THEN UNCHANGED faults ELSE Fault
  /\ BodyFails(p)
  /\ UNCHANGED <<database, held, deploy, ready, runs>>

(* Outside a transaction every schema change commits as it runs, the       *)
(* snapshot of an open transaction with it.                                *)
BareStepBegins(p) ==
  /\ pc[p] = "run" /\ todo[p] # <<>> /\ ~Transactional(Work(p).id)
  /\ pc' = [pc EXCEPT ![p] = "step"]
  /\ NewTransaction(p)
  /\ UNCHANGED <<database, held, deploy, ready, plan, runs, faults>>

BareStepHalfway(p) ==
  LET w == Work(p) IN
  /\ pc[p] = "step" /\ ~MustRaise(schema[w.id], w)
  /\ Effect(schema[w.id], w).state \notin {schema[w.id].state, "twice"}
  /\ schema[w.id].state # "partial"
  /\ schema' = [schema EXCEPT ![w.id] = Object("partial", 0)]
  /\ UNCHANGED <<engine, rows, loose, held, pc, deploy, ready, view, plan, runs, faults>>

BareStepDone(p) ==
  LET w == Work(p) IN
  /\ pc[p] = "step" /\ ~MustRaise(schema[w.id], w)
  /\ schema' = [schema EXCEPT ![w.id] = Effect(@, w)]
  /\ pc' = [pc EXCEPT ![p] = "row"]
  /\ UNCHANGED <<engine, rows, loose, held, deploy, ready, view, plan, runs, faults>>

(* The row and its commit.                                                 *)
BareRowWritten(p) ==
  LET w == Work(p) IN
  /\ pc[p] = "row" /\ ~Conflict(w)
  /\ rows' = RowsAfter(w, seq[p], TRUE)
  /\ pc' = [pc EXCEPT ![p] = "run"]
  /\ NextStep(p) /\ SeqAfter(p, w)
  /\ UNCHANGED <<engine, schema, loose, held, run, deploy, ready, view, known, runs, faults>>

BareStepRaises(p) ==
  LET w == Work(p)
      must == \/ pc[p] = "step" /\ MustRaise(schema[w.id], w)
              \/ pc[p] = "row" /\ Conflict(w)
  IN
  /\ pc[p] \in {"step", "row"}
  /\ IF must THEN UNCHANGED faults ELSE Fault
  /\ pc' = [pc EXCEPT ![p] = "failing"]
  /\ UNCHANGED <<database, held, deploy, ready, view, plan, runs>>

(* A mutant: the failure row is written and never committed.               *)
FailureNotCommitted(p) ==
  /\ pc[p] = "failing" /\ ~Conflict(Work(p))
  /\ BodyFails(p)
  /\ UNCHANGED <<database, held, deploy, ready, runs, faults>>

(* record_failure() and record_down_failure(): the failed attempt goes on  *)
(* record.  A down that failed keeps its row and clears its success flag.  *)
FailureRecorded(p) ==
  LET w == Work(p) IN
  /\ pc[p] = "failing" /\ ~Conflict(w)
  /\ rows' = IF w.way = "up" THEN RowsAfter(w, seq[p], FALSE)
             ELSE [rows EXCEPT ![w.id].ok = FALSE]
  /\ BodyFails(p)
  /\ UNCHANGED <<engine, schema, loose, held, deploy, ready, runs, faults>>

(* A failure to write that row is dropped, so that it never masks the      *)
(* error of the step.                                                      *)
FailureRowLost(p) ==
  LET w == Work(p) IN
  /\ pc[p] = "failing"
  /\ IF Conflict(w) THEN UNCHANGED faults ELSE Fault
  /\ loose' = loose \cup {w.id}
  /\ BodyFails(p)
  /\ UNCHANGED <<engine, schema, rows, held, deploy, ready, runs>>

RunFinished(p) ==
  /\ pc[p] = "run" /\ todo[p] = <<>>
  /\ BodyEnds(p)
  /\ UNCHANGED <<database, held, deploy, ready, view, runs, faults>>

----------------------------------------------------------------------------
(* repair() and baseline(): a read, then writes that commit together.      *)

RecordsRead(p) ==
  /\ Reading(p, {"repair", "baseline"})
  /\ known' = [known EXCEPT ![p] = RowsSeen(p)]
  /\ AfterRead(p)
  /\ pc' = [pc EXCEPT ![p] = "write"]
  /\ UNCHANGED <<database, held, run, deploy, todo, seq, runs, faults>>

(* The rows repair() leaves: a failed attempt it read is deleted if it is  *)
(* still one, and a versioned migration takes its current checksum.        *)
Repaired(d, recs, id) ==
  IF Failed(recs, id)
  THEN IF Failed(rows, id) THEN NoRow ELSE rows[id]
  ELSE IF Ok(recs, id) /\ Registered(d, id) /\ id \notin Repeatables /\ Recorded(rows, id)
       THEN [rows[id] EXCEPT !.edition = EntryOf(d, id).edition]
       ELSE rows[id]

RepairsOf(p, ids) ==
  /\ rows' = [id \in Ids |->
                IF id \in ids THEN Repaired(deploy[p], known[p], id) ELSE rows[id]]
  /\ loose' = loose \cup {id \in Ids : /\ Recorded(rows, id) /\ ~Recorded(rows', id)
                                       /\ schema[id].state \notin {"absent", "legacy"}}
  /\ BodyEnds(p) /\ NewTransaction(p)
  /\ UNCHANGED <<engine, schema, held, deploy, ready, runs>>

RepairRows(p) ==
  /\ pc[p] = "write" /\ run[p].verb = "repair"
  /\ RepairsOf(p, Ids) /\ UNCHANGED faults

(* repair() does not roll back what it wrote before the statement that     *)
(* failed, and no lock_scope() does it for an engine without a lock: the   *)
(* process's next commit makes it durable, here at once, or its connection *)
(* closes first, as in WritesRolledBack.                                   *)
RepairKeptInPart(p) ==
  /\ pc[p] = "write" /\ run[p].verb = "repair"
  /\ ~engine.lock /\ Fault
  /\ \E last \in Ids :
       /\ Recorded(known[p], last)
       /\ RepairsOf(p, {id \in Ids : /\ Recorded(known[p], id)
                                    /\ known[p][id].seq <= known[p][last].seq})

BaselineCandidates(d, recs, target) ==
  Where(VersionedThrough(d, target) \o RepeatablesOf(d), {m \in Entries(d) : ~Ok(recs, m.id)})

Baseline(p) ==
  /\ pc[p] = "write" /\ run[p].verb = "baseline"
  /\ \E target \in {m.id : m \in Entries(Versioned(deploy[p]))} :
       LET ms == BaselineCandidates(deploy[p], known[p], target)
           number(id) == NextSeq(known[p]) - 1 + CHOOSE i \in DOMAIN ms : ms[i].id = id
       IN
       /\ \A m \in Entries(ms) : ~Recorded(known[p], m.id) /\ ~Recorded(rows, m.id)
       /\ rows' = [id \in Ids |->
                     IF Registered(ms, id)
                     THEN [seq |-> number(id), ok |-> TRUE, edition |-> EntryOf(ms, id).edition]
                     ELSE rows[id]]
       /\ loose' = loose \cup {m.id : m \in {x \in Entries(ms) : schema[x.id].state # "legacy"}}
  /\ BodyEnds(p) /\ NewTransaction(p)
  /\ UNCHANGED <<engine, schema, held, deploy, ready, runs, faults>>

(* A failed row or a row written meanwhile stops the baseline, which rolls *)
(* back itself, and a failing statement stops either: lock_scope(), or the *)
(* end of the connection, takes back what repair() wrote.                  *)
WritesRolledBack(p) ==
  /\ pc[p] = "write"
  /\ IF run[p].verb = "baseline" THEN UNCHANGED faults ELSE Fault
  /\ BodyFails(p)
  /\ UNCHANGED <<database, held, deploy, ready, runs>>

----------------------------------------------------------------------------
(* What cuts a run short, and the operator.                                *)

CutShort(p) == loose' = loose \cup (IF InBareStep(p) THEN {Work(p).id} ELSE {})

(* A KeyboardInterrupt or a cancelled task: the lock is released, but      *)
(* record_failure() sees only an Exception.                                *)
Interrupted(p) ==
  /\ pc[p] \in {"read", "run", "step", "row", "failing", "write"} /\ Fault
  /\ CutShort(p) /\ BodyFails(p)
  /\ UNCHANGED <<engine, schema, rows, held, deploy, ready, runs>>

NewConnection(p) ==
  /\ held' = [held EXCEPT ![p] = 0]
  /\ ready' = [ready EXCEPT ![p] = FALSE]
  /\ NewTransaction(p)
  /\ deploy' \in {[deploy EXCEPT ![p] = d] : d \in Deploys}

(* The process dies: the engine rolls its transaction back and frees its   *)
(* lock.  The one that takes its place may be another deploy.              *)
Crash(p) ==
  /\ pc[p] # "idle" /\ Fault
  /\ CutShort(p) /\ NewConnection(p)
  /\ pc' = [pc EXCEPT ![p] = "idle"]
  /\ run' = [run EXCEPT ![p] = Idle]
  /\ todo' = [todo EXCEPT ![p] = <<>>]
  /\ seq' = [seq EXCEPT ![p] = 0]
  /\ known' = [known EXCEPT ![p] = None]
  /\ UNCHANGED <<engine, schema, rows, runs>>

(* A process whose run is over closes its connection.                      *)
Disconnect(p) ==
  /\ pc[p] = "idle" /\ (held[p] > 0 \/ ready[p])
  /\ NewConnection(p)
  /\ UNCHANGED <<database, pc, plan, runs, faults>>

(* The operator undoes by hand what a failed or cut-short step left, or,   *)
(* where the row says applied, puts it back.                               *)
CleanUp(id) ==
  /\ id \in loose \/ (Failed(rows, id) /\ schema[id].state \notin {"absent", "legacy"})
  /\ ~InFlight(id)
  /\ schema' = [schema EXCEPT ![id] =
       IF Ok(rows, id) THEN Object("done", rows[id].edition) ELSE Absent]
  /\ loose' = loose \ {id}
  /\ UNCHANGED <<engine, rows, held, pc, run, deploy, ready, view, known, todo,
                 seq, runs, faults>>

Runs(p) ==
  \/ Unlock(p) \/ RunUp(p) \/ RunUpRefused(p)
  \/ RunDown(p) \/ RunDownRefused(p)
  \/ AppliesInTransaction(p) \/ TransactionRolledBack(p)
  \/ BareStepBegins(p) \/ BareStepDone(p) \/ BareRowWritten(p) \/ BareStepRaises(p)
  \/ FailureRecorded(p) \/ FailureRowLost(p) \/ RunFinished(p)
  \/ RecordsRead(p) \/ RepairRows(p) \/ RepairKeptInPart(p)
  \/ Baseline(p) \/ WritesRolledBack(p)

Next ==
  \/ \E p \in Processes :
       \/ Start(p) \/ StartDownTo(p) \/ TakeLock(p) \/ LockRefused(p)
       \/ Runs(p) \/ BareStepHalfway(p) \/ UnlockRefused(p)
       \/ Interrupted(p) \/ Crash(p) \/ Disconnect(p)
  \/ \E id \in Ids : CleanUp(id)

(* The client code takes its steps; the engine grants a free lock to every *)
(* session that keeps waiting; a connection whose run is over is closed.   *)
Fairness ==
  \A p \in Processes :
    WF_vars(Runs(p)) /\ SF_vars(TakeLock(p)) /\ WF_vars(Disconnect(p))

Spec == Init /\ [][Next]_vars /\ Fairness

----------------------------------------------------------------------------
(* Properties.                                                             *)

ObjectType == [state : {"absent", "legacy", "partial", "done", "twice"}, edition : Nat]
RowType == [seq : Nat, ok : BOOLEAN, edition : Nat]
WorkType == [id : Ids, edition : Nat, way : {"up", "down"}, update : BOOLEAN,
             forced : BOOLEAN]

Phases ==
  {"idle", "lock", "read", "run", "step", "row", "failing", "write", "unlock"}

(* The types of the variables.                                             *)
TypeOK ==
  /\ engine \in EngineType
  /\ schema \in [Ids -> ObjectType]
  /\ rows \in [Ids -> RowType]
  /\ loose \subseteq Ids
  /\ held \in [Processes -> Nat]
  /\ pc \in [Processes -> Phases]
  /\ run \in [Processes -> [verb : Commands \cup {"none"}, target : Ids \cup {None}]]
  /\ deploy \in [Processes -> Deploys]
  /\ ready \in [Processes -> BOOLEAN]
  /\ view \in [Processes -> {None} \cup [Ids -> RowType]]
  /\ known \in [Processes -> {None} \cup [Ids -> RowType]]
  /\ todo \in [Processes -> Seq(WorkType)]
  /\ seq \in [Processes -> Nat]
  /\ runs \in 0..MaxRuns /\ faults \in 0..MaxFaults

(* The tracking table tells the truth.  Whatever runs raced, failed or     *)
(* were cut short, an applied row has its objects in the database, once,   *)
(* and an id without a row has none, except while its step is in flight    *)
(* and where the code has no way to say so (loose).  A repeatable's row    *)
(* names the content that is there.  Two runs of a transactional=False     *)
(* migration on an engine without a lock are outside the promise.          *)
Promised(id) ==
  /\ id \notin loose /\ ~InFlight(id)
  /\ engine.lock \/ Transactional(id)
RowsMatchSchema ==
  \A id \in Ids : Promised(id) =>
    /\ ~Recorded(rows, id) => schema[id].state \in {"absent", "legacy"}
    /\ Ok(rows, id) => \/ schema[id].state = "legacy"
                       \/ /\ schema[id].state = "done"
                          /\ id \in Repeatables => schema[id].edition = rows[id].edition

(* On an engine with the lock no two rows share a seq, so the order of     *)
(* application that down() and the history of a rehearsal read is one      *)
(* order, also across deploys, failures, repairs and repeatables.          *)
HistoryIsOrdered ==
  engine.lock => \A a, b \in Ids :
    Recorded(rows, a) /\ Recorded(rows, b) /\ rows[a].seq = rows[b].seq => a = b

(* A step of the run p took: the objects of one of its ids changed.        *)
StepTaken(id, way) ==
  \E p \in Processes :
    /\ pc[p] \in {"run", "step"} /\ todo[p] # <<>>
    /\ Work(p).id = id /\ Work(p).way = way
    /\ schema'[id] # schema[id] /\ (pc'[p] # pc[p] \/ todo'[p] # todo[p])

(* On an engine with the lock a versioned migration with a failed attempt  *)
(* on record is not run again, up or down, until a repair removed the row, *)
(* whichever process recorded it and also under validate=False.            *)
FailedAttemptNotRerun ==
  [][engine.lock => \A id \in Ids \ Repeatables :
       Failed(rows, id) => ~StepTaken(id, "up") /\ ~StepTaken(id, "down")]_vars

(* On an engine with the lock migrations are taken back newest first: when *)
(* a down step is done, no versioned migration of that deploy's window     *)
(* that was applied later is still applied.                                *)
RevertsNewestFirst ==
  [][engine.lock => \A p \in Processes :
       (pc[p] \in {"run", "step"} /\ todo[p] # <<>> /\ Work(p).way = "down"
          /\ StepTaken(Work(p).id, "down"))
       => \A id \in Ids \ Repeatables :
            Ok(rows, id) => rows[id].seq <= rows[Work(p).id].seq]_vars

(* On an engine with the lock a down step of an edited migration never     *)
(* runs unless the caller passed allow_changed: the content whose down     *)
(* step runs is the content the row says was applied.                      *)
RevertsWhatWasApplied ==
  [][engine.lock => \A p \in Processes :
       (pc[p] \in {"run", "step"} /\ todo[p] # <<>> /\ Work(p).way = "down"
          /\ ~Work(p).forced /\ StepTaken(Work(p).id, "down"))
       => Work(p).edition = rows[Work(p).id].edition]_vars

(* What a down run takes back is what was applied, the newest first.       *)
RevertsTheHistory == RevertsNewestFirst /\ RevertsWhatWasApplied

(* Every run ends, also one that waits for the lock while another fails,   *)
(* is interrupted, or cannot release it.                                   *)
RunsEnd == \A p \in Processes : pc[p] # "idle" ~> pc[p] = "idle"

(* The window of a down_to is counted again under the lock                 *)
(* (test_down_to_counts_the_window_after_taking_the_lock): when its run    *)
(* has been planned, no other migration above the target is applied.       *)
WindowCountedUnderTheLock ==
  [][\A p \in Processes :
       (RunDown(p) /\ run[p].verb = "down_to")
       => {todo'[p][i].id : i \in DOMAIN todo'[p]}
          = ToSet(AboveTarget(AppliedVersioned(deploy[p], rows), run[p].target))]_vars
=============================================================================
