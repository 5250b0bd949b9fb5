--------------------------- MODULE RehearsalGate ---------------------------
(***************************************************************************)
(* The gate in front of a run that removes data: up() applies destructive  *)
(* statements only when the rehearsal table holds a passed row for exactly *)
(* these statements on exactly this applied history.                       *)
(*                                                                         *)
(* One migrator works on one database (the runs of several are in          *)
(* Migrator).  A migration's content is an edition of its id, and a        *)
(* checksum names one.  A key is the pair of what its digest hashes: the   *)
(* checksums of the applied rows and those of the run.  A row keeps the    *)
(* checksum the tracking table stores and, for the properties, the edition *)
(* whose statements really ran; repair() makes the two differ.             *)
(*                                                                         *)
(* A rehearsal is the whole sweep, up, down and back, in which at most one *)
(* fault may lie: a step that raises, or one that leaves something behind. *)
(* Whether the row it writes says so is what the properties ask.           *)
(***************************************************************************)
EXTENDS Naturals, FiniteSets, FiniteSetsExt, SequencesExt, Filters

CONSTANTS
  Versioned,     \* the ids of the versioned migrations, a sequence
  Repeatable,    \* the ids of the repeatables, a sequence
  MaxEdition,    \* bound: editions of one migration
  MaxRehearsals, \* bound: rehearsals
  MaxEdits,      \* bound: edits of the files
  MaxOverrides,  \* bound: runs with unrehearsed=True
  Destructive,   \* the contents with a statement that removes data
  Bare,          \* the contents with transactional=False
  NoDown,        \* the contents without a down step
  InPlace        \* the dialect's schema changes roll back

Content == [id : ToSet(Versioned) \cup ToSet(Repeatable), edition : 1..MaxEdition]

ASSUME GateAssumption ==
  /\ MaxEdition \in Nat \ {0} /\ MaxRehearsals \in Nat
  /\ MaxEdits \in Nat /\ MaxOverrides \in Nat
  /\ Destructive \cup Bare \cup NoDown \subseteq Content
  /\ InPlace \in BOOLEAN
  /\ \A ids \in {Versioned, Repeatable} :
       /\ ids \in Seq(ToSet(ids))
       /\ \A i, j \in DOMAIN ids : ids[i] = ids[j] => i = j
  /\ ToSet(Versioned) \cap ToSet(Repeatable) = {}

VARIABLES
  files,       \* files[id]: the edition the migrator is built with
  history,     \* the tracking rows in seq order: [id, checksum, edition]
  outcome,     \* the rehearsal table, a function of the keys it holds
  proved,      \* the runs rehearsals have proved, by what is really applied
  covered,     \* the last rehearsal met no fault, nothing it rests on changed, and
               \* no run stopped between two repeatables
  scratch,     \* the results of a scratch rehearsal, not recorded yet
  scratched,   \* the recorded scratch rehearsals: the contents each went over, and
               \* those that edits had put in their place when it was recorded
  repaired,    \* a repair has rewritten the checksum of other statements
  rehearsals, edits, overrides

bounds == <<rehearsals, edits, overrides>>
onScratch == <<scratch, scratched>>
vars == <<files, history, outcome, proved, covered, repaired, onScratch, bounds>>

Ids == ToSet(Versioned) \cup ToSet(Repeatable)

Applied(id) == \E i \in DOMAIN history : history[i].id = id
RowOf(id) == history[CHOOSE i \in DOMAIN history : history[i].id = id]
Now(id) == [id |-> id, edition |-> files[id]]
Contents(ids) == [i \in DOMAIN ids |-> Now(ids[i])]

(* What the tracking table says is applied, and what really is.            *)
Recorded == [i \in DOMAIN history |->
               [id |-> history[i].id, edition |-> history[i].checksum]]
Real == [i \in DOMAIN history |->
           [id |-> history[i].id, edition |-> history[i].edition]]

(* pending(): the versioned migrations without a row, then the repeatables *)
(* without one or with another checksum.                                   *)
PendingVersioned == Contents(Where(Versioned, {id \in Ids : ~Applied(id)}))
PendingRepeatables ==
  Contents(Where(Repeatable,
                 {id \in Ids : ~Applied(id) \/ RowOf(id).checksum # files[id]}))

Removes(run) == \E i \in DOMAIN run : run[i] \in Destructive

(* rehearsal_key() hashes statements, never ids: two contents with one     *)
(* text are one content here.                                              *)
Key(applied, run) == <<applied, run>>

(* Mutant: only the runs that start where the rehearsal did.               *)
FirstStartOnlyKeys(applied, versioned, repeatables) ==
  {Key(applied, SubSeq(versioned, 1, e)) : e \in
     {x \in 0..Len(versioned) : Removes(SubSeq(versioned, 1, x))}}

(* _destructive_prefix_keys(): from every start point in the versioned     *)
(* list, each destructive slice, and the rest with the repeatables after   *)
(* it.                                                                     *)
PrefixKeys(applied, versioned, repeatables) ==
  LET from(start) == applied \o SubSeq(versioned, 1, start)
      slice(start, end) == SubSeq(versioned, start + 1, end)
      rest(start) == slice(start, Len(versioned)) \o repeatables
  IN
  {Key(from(x[1]), slice(x[1], x[2])) : x \in
     {y \in (0..Len(versioned)) \X (0..Len(versioned)) : Removes(slice(y[1], y[2]))}}
  \cup
  {Key(from(s), rest(s)) : s \in
     {x \in 0..Len(versioned) : repeatables # <<>> /\ Removes(rest(x))}}

(* _passed_rehearsal_keys(), without a diff against the models.            *)
PassedKeys(applied, versioned, repeatables) ==
  {Key(applied, versioned \o repeatables)} \cup PrefixKeys(applied, versioned, repeatables)

(* _rehearsal_writes(): a row replaces the one its key had.                *)
RehearsalWrites(keys, o) ==
  [k \in DOMAIN outcome \cup keys |-> IF k \in keys THEN o ELSE outcome[k]]

(* record_rehearsals().                                                    *)
Record(keys, o) == outcome' = RehearsalWrites(keys, o)

(* Mutant: an override row opens the gate as well.                         *)
OverrideOpensGate(run) ==
  Removes(run) =>
    /\ Key(Recorded, run) \in DOMAIN outcome
    /\ outcome[Key(Recorded, run)] # "failed"

(* require_rehearsal_row(): only 'passed' opens the gate.                  *)
GateOpens(run) ==
  Removes(run) =>
    /\ Key(Recorded, run) \in DOMAIN outcome
    /\ outcome[Key(Recorded, run)] = "passed"

(***************************************************************************)
(* The sweep.                                                              *)
(***************************************************************************)
(* What a rehearsal says of one migration: whether each step ran, failed   *)
(* or was not proved, and whether the schema that did not come back is     *)
(* charged to it.                                                          *)
RehearsalResult ==
  [id : Ids, up : {"ok", "failed", "unproved"}, down : {"ok", "failed", "unproved"},
   leftover : BOOLEAN]

(* Mutant: a down step that raised does not fail the rehearsal.            *)
UpsAloneFail(r) == r.up = "failed" \/ r.leftover

RehearsalFailed(r) == r.up = "failed" \/ r.down = "failed" \/ r.leftover

Passed(results) == \A i \in DOMAIN results : ~RehearsalFailed(results[i])

IsVersioned(m) == m.id \in ToSet(Versioned)
Transactional(run) == Where(run, Content \ Bare)

(* At most one fault: a step of this migration raises, or it leaves an     *)
(* object that no down step takes back.                                    *)
Fault(step, id) == [step |-> step, id |-> id]
Faults(ids) == {Fault("none", id) : id \in {CHOOSE id \in ids : TRUE}}
               \cup {Fault(step, id) : step \in {"up", "down", "leaves"}, id \in ids}

(* _check_rehearsable().                                                   *)
Rehearsable == InPlace

(* _down_sweep(): the newest first; a repeatable has nothing to run, and a *)
(* versioned migration without a down step blocks all that is older.       *)
DownReached(ran, i) ==
  /\ IsVersioned(ran[i])
  /\ \A j \in i..Len(ran) : IsVersioned(ran[j]) => ran[j] \notin NoDown

(* rehearse_down(): a down step that raises stops the sweep.               *)
RehearseDown(ran, fault) ==
  LET raises(i) == DownReached(ran, i) /\ fault = Fault("down", ran[i].id) IN
  [i \in DOMAIN ran |->
     IF raises(i) THEN "failed"
     ELSE IF DownReached(ran, i) /\ \A j \in DOMAIN ran : j > i => ~raises(j) THEN "ok"
     ELSE "unproved"]

(* _reversal_provable(): some down step ran, and that of every versioned   *)
(* migration did.                                                          *)
ReversalProvable(ran, downs) ==
  /\ \E i \in DOMAIN ran : downs[i] = "ok"
  /\ \A i \in DOMAIN ran : IsVersioned(ran[i]) => downs[i] = "ok"

(* diff_snapshots(): an object one of the steps left behind shows in the   *)
(* schema after the sweep.                                                 *)
DiffSnapshots(ran, fault) ==
  fault.step = "leaves" /\ \E i \in DOMAIN ran : ran[i].id = fault.id

(* snapshot(): the comparison needs a database that reports its schema.    *)
LeftOver(ran, fault, read) == read /\ DiffSnapshots(ran, fault)

(* _rehearsal_results(): one per migration that ran, then the one that     *)
(* raised; leftovers go to each migration whose down step ran.             *)
RehearsalResults(ran, failed, downs, leftover) ==
  [i \in DOMAIN ran |->
     [id |-> ran[i].id, up |-> "ok", down |-> downs[i],
      leftover |-> leftover /\ downs[i] = "ok"]]
  \o [i \in DOMAIN failed |->
     [id |-> failed[i].id, up |-> "failed", down |-> "unproved", leftover |-> FALSE]]

(* _skipped_results().                                                     *)
SkippedResults(skipped) ==
  [i \in DOMAIN skipped |->
     [id |-> skipped[i].id, up |-> "unproved", down |-> "unproved", leftover |-> FALSE]]

(* The sweep inside one transaction, taken back at its end.  The first up  *)
(* step that raises stops it, and then no down step runs.                  *)
RehearsePinned(run, fault, read) ==
  LET raising == {i \in DOMAIN run : run[i] \notin Bare /\ fault = Fault("up", run[i].id)}
      reached == IF raising = {} THEN run ELSE SubSeq(run, 1, Min(raising) - 1)
      ran == Transactional(reached)
      skipped == Where(reached, Bare)
      failed == IF raising = {} THEN <<>> ELSE <<run[Min(raising)]>>
      downs == IF failed = <<>> THEN RehearseDown(ran, fault)
                                ELSE [i \in DOMAIN ran |-> "unproved"]
      leftover == ReversalProvable(ran, downs) /\ LeftOver(ran, fault, read)
  IN
  RehearsalResults(ran, failed, downs, leftover) \o SkippedResults(skipped)

(* What a rehearsal cannot meet, by the docs: a fault of a migration that  *)
(* is not pending or runs outside a transaction, of a down step that does  *)
(* not exist or lies under one that does not, and an object left by a run  *)
(* that was never meant to come back whole.                                *)
Unseen(run, fault, read) ==
  LET at == {i \in DOMAIN run : run[i].id = fault.id /\ run[i] \notin Bare}
      stays == {i \in DOMAIN run : IsVersioned(run[i]) /\ run[i] \in NoDown \ Bare}
      comes == {i \in DOMAIN run : IsVersioned(run[i]) /\ run[i] \notin NoDown \cup Bare}
  IN
  \/ fault.step = "none" \/ at = {}
  \/ fault.step = "down" /\ \A i \in at : i \notin comes \/ \E j \in stays : j > i
  \/ fault.step = "leaves" /\ (~read \/ stays # {} \/ comes = {})

(* A sweep of the run for each fault there may be.                         *)
Sweeps(run) ==
  {[results |-> RehearsePinned(run, fault, read), clean |-> Unseen(run, fault, read)] :
     fault \in Faults({m.id : m \in ToSet(run)}), read \in BOOLEAN}

(* What a rehearsal proves: every start point and every end that the up    *)
(* sweep went through, but for the migrations outside a transaction.       *)
ProvedBy(versioned, repeatables) ==
  LET run == versioned \o repeatables IN
  {<<Transactional(Real \o SubSeq(versioned, 1, s)), Transactional(SubSeq(run, s + 1, e))>> :
     s \in 0..Len(versioned), e \in 0..Len(run)}

NoResults == [ok |-> FALSE, proved |-> {}, ran |-> {}]

(* Mutant: the key of the full run alone.                                  *)
FullRunKeyOnly(applied, versioned, repeatables) ==
  IF scratch.ok THEN {Key(applied, versioned \o repeatables)} ELSE {}

(* _scratch_rehearsal_keys(): those of a rehearsal in place, when the      *)
(* scratch run passed and left no pending migration out; one it skipped    *)
(* counts as run.                                                          *)
ScratchKeys(applied, versioned, repeatables) ==
  IF /\ scratch.ok /\ versioned \o repeatables # <<>>
     /\ \A m \in ToSet(versioned \o repeatables) : m.id \in scratch.proved
  THEN PassedKeys(applied, versioned, repeatables) ELSE {}

----------------------------------------------------------------------------

Init ==
  /\ files = [id \in Ids |-> 1]
  /\ history = <<>>
  /\ outcome = [k \in {} |-> "passed"]
  /\ proved = {} /\ scratched = {}
  /\ scratch = NoResults
  /\ covered = FALSE /\ repaired = FALSE
  /\ rehearsals = 0 /\ edits = 0 /\ overrides = 0

(* rehearse() in place: refused on a dialect that does not roll back and   *)
(* on an edited history; it covers all that is pending, and its row says   *)
(* what the results say.  A failed one writes the key of the whole run     *)
(* only.                                                                   *)
RehearseLocked(passed, clean) ==
  LET run == PendingVersioned \o PendingRepeatables IN
  /\ IF passed
     THEN Record(PassedKeys(Recorded, PendingVersioned, PendingRepeatables), "passed")
     ELSE Record({Key(Recorded, run)}, "failed")
  /\ covered' = clean
  /\ proved' = proved \cup
       (IF clean THEN ProvedBy(PendingVersioned, PendingRepeatables) ELSE {})

Rehearse ==
  /\ rehearsals < MaxRehearsals /\ rehearsals' = rehearsals + 1
  /\ Rehearsable
  /\ PendingVersioned \o PendingRepeatables # <<>>
  /\ \A id \in ToSet(Versioned) : Applied(id) => RowOf(id).checksum = files[id]
  /\ \E seen \in {<<Passed(sweep.results), sweep.clean>> :
                    sweep \in Sweeps(PendingVersioned \o PendingRepeatables)} :
       RehearseLocked(seen[1], seen[2])
  /\ UNCHANGED <<files, history, repaired, onScratch, edits, overrides>>

(* rehearse(scratch=True), on a database of its own, empty or with the     *)
(* first migration applied already: nothing is written.  MaxRehearsals     *)
(* counts those that pass.                                                 *)
RehearseScratch ==
  /\ rehearsals < MaxRehearsals
  /\ \E n \in 0..1 :
       LET run == Contents(SubSeq(Versioned, n + 1, Len(Versioned)) \o Repeatable) IN
       \E sweep \in Sweeps(run) :
         IF Passed(sweep.results)
         THEN /\ scratch' =
                   [ok |-> TRUE,
                    proved |-> {r.id : r \in {x \in ToSet(sweep.results) : x.up # "failed"}},
                    ran |-> IF sweep.clean THEN ToSet(run) ELSE {}]
              /\ rehearsals' = rehearsals + 1
         ELSE scratch' = NoResults /\ UNCHANGED rehearsals
  /\ UNCHANGED <<files, history, outcome, proved, covered, repaired,
                 scratched, edits, overrides>>

(* record_scratch_rehearsal(): the results meet the history and the        *)
(* pending set of this database by their ids, so a file edited since the   *)
(* rehearsal is recorded with the content it has now.                      *)
RecordScratchKeys(keys) ==
  /\ keys # {}
  /\ Record(keys, "passed")
  /\ scratched' = scratched \cup
       {[ran |-> scratch.ran, edited |-> {Now(m.id) : m \in scratch.ran} \ scratch.ran]}
  /\ covered' = TRUE

RecordScratch ==
  /\ RecordScratchKeys(ScratchKeys(Recorded, PendingVersioned, PendingRepeatables))
  /\ scratch' = NoResults
  /\ UNCHANGED <<files, history, proved, repaired, bounds>>

Row(m) == [id |-> m.id, checksum |-> m.edition, edition |-> m.edition]
(* The tracking rows after the first n migrations of a run: an INSERT at   *)
(* the end, or an UPDATE in place of a repeatable's row.                   *)
RowsAfter(run, n) ==
  LET fresh == Where(SubSeq(run, 1, n), {m \in Content : ~Applied(m.id)})
      again(id) == \E i \in 1..n : run[i].id = id
  IN
  [i \in DOMAIN history |->
     IF again(history[i].id) THEN Row(Now(history[i].id)) ELSE history[i]]
  \o [i \in DOMAIN fresh |-> Row(fresh[i])]

(* up(), with or without a target: the run after it.                       *)
RunTo(target) == SubSeq(PendingVersioned, 1, target)
FullRun == PendingVersioned \o PendingRepeatables
RunSets == {RunTo(t) : t \in 0..Len(PendingVersioned)} \cup {FullRun}

(* The rows of the first n.  No rehearsal records a key for a run that     *)
(* starts between two repeatables.                                         *)
AppliedFirst(run, n) ==
  /\ history' = RowsAfter(run, n)
  /\ covered' = (covered /\ (n <= Len(PendingVersioned) \/ n = Len(run)))

(* up() applies the run, or stops at a migration that fails; those before  *)
(* it stay applied.                                                        *)
Up ==
  /\ \E run \in RunSets :
       /\ GateOpens(run)
       /\ \E n \in 1..Len(run) : AppliedFirst(run, n)
  /\ UNCHANGED <<files, outcome, proved, repaired, onScratch, bounds>>

(* up(unrehearsed=True) passes the gate, and a run that went through and   *)
(* removed data leaves an override row under its key.                      *)
UpUnrehearsed ==
  /\ overrides < MaxOverrides /\ overrides' = overrides + 1
  /\ \E run \in RunSets :
       \E n \in 1..Len(run) :
         /\ AppliedFirst(run, n)
         /\ IF n = Len(run) /\ Removes(run)
            THEN Record({Key(Recorded, run)}, "override")
            ELSE UNCHANGED outcome
  /\ UNCHANGED <<files, proved, repaired, onScratch, rehearsals, edits>>

(* down(): the newest versioned migration is taken back.                   *)
Down ==
  /\ \E i \in DOMAIN history :
       /\ history[i].id \in ToSet(Versioned)
       /\ Now(history[i].id) \notin NoDown
       /\ \A j \in DOMAIN history : j > i => history[j].id \notin ToSet(Versioned)
       /\ history' = RemoveAt(history, i)
  /\ covered' = FALSE
  /\ UNCHANGED <<files, outcome, proved, repaired, onScratch, bounds>>

(* repair() accepts the new contents of applied versioned migrations.      *)
Repair ==
  /\ history' = [i \in DOMAIN history |->
       IF history[i].id \in ToSet(Versioned)
       THEN [history[i] EXCEPT !.checksum = files[history[i].id]] ELSE history[i]]
  /\ history' # history
  /\ repaired' = TRUE /\ covered' = FALSE
  /\ UNCHANGED <<files, outcome, proved, onScratch, bounds>>

(* Somebody edits a migration file; results that a scratch rehearsal       *)
(* returned before it can still be recorded.                               *)
Edit ==
  /\ edits < MaxEdits /\ edits' = edits + 1
  /\ \E id \in Ids, e \in 1..MaxEdition :
       e # files[id] /\ files' = [files EXCEPT ![id] = e]
  /\ covered' = FALSE
  /\ UNCHANGED <<history, outcome, proved, repaired, onScratch, rehearsals, overrides>>

Next ==
  Rehearse \/ RehearseScratch \/ RecordScratch \/ Up \/ UpUnrehearsed \/ Down \/ Repair \/ Edit

Spec == Init /\ [][Next]_vars

----------------------------------------------------------------------------

(* The types of the variables, and one row per migration.                  *)
TypeOK ==
  /\ files \in [Ids -> 1..MaxEdition]
  /\ history \in Seq([id : Ids, checksum : 1..MaxEdition, edition : 1..MaxEdition])
  /\ \A i, j \in DOMAIN history : history[i].id = history[j].id => i = j
  /\ \A k \in DOMAIN outcome : /\ k \in Seq(Content) \X Seq(Content)
                               /\ outcome[k] \in {"passed", "failed", "override"}
  /\ scratch.ran \subseteq Content /\ scratch.proved \subseteq Ids
  /\ scratched \subseteq [ran : SUBSET Content, edited : SUBSET Content]
  /\ covered \in BOOLEAN /\ repaired \in BOOLEAN
  /\ rehearsals \in 0..MaxRehearsals
  /\ edits \in 0..MaxEdits /\ overrides \in 0..MaxOverrides

(* The gate is sound: an up() that removes data without unrehearsed=True   *)
(* runs statements that a rehearsal without a fault ran, in this order,    *)
(* from what is really applied now, or that a recorded scratch rehearsal   *)
(* ran from nothing.  It stays so through faults in any step of a          *)
(* rehearsal, targeted runs, runs that stopped half-way, downs, overrides, *)
(* later rehearsals and every edit but one: the contents that edits put    *)
(* in a scratch rehearsal's place before it was recorded                   *)
(* (_scratch_rehearsal_keys() asks for their ids alone) never ran, and the *)
(* gate takes them.  A repair, which makes the history name statements     *)
(* that never ran, voids it.                                               *)
RanOrEdited(run, s) == ToSet(Transactional(run)) \subseteq s.ran \cup s.edited

GateSound ==
  [][Up /\ ~repaired =>
       \E run \in RunSets :
         /\ \E n \in 1..Len(run) : history' = RowsAfter(run, n)
         /\ Removes(run) =>
              \/ <<Transactional(Real), Transactional(run)>> \in proved
              \/ \E s \in scratched : RanOrEdited(run, s)]_vars

(* "Editing a migration voids its rehearsal row" (docs/schema.md): the     *)
(* same without that exception.  The code does not keep to it; the README  *)
(* gives the trace, and no run lists it.                                   *)
EditVoidsRow ==
  [][Up /\ ~repaired =>
       \E run \in RunSets :
         /\ \E n \in 1..Len(run) : history' = RowsAfter(run, n)
         /\ Removes(run) =>
              \/ <<Transactional(Real), Transactional(run)>> \in proved
              \/ \E s \in scratched : ToSet(Transactional(run)) \subseteq s.ran]_vars

(* The gate is complete: after a rehearsal that met no fault it could see  *)
(* no run of its migrations is refused, whatever targeted runs came before *)
(* it and at whichever versioned migration one stopped                     *)
(* (_destructive_prefix_keys(): "the second run demanded a rehearsal it    *)
(* had already passed").                                                   *)
GateComplete == covered => \A run \in RunSets : GateOpens(run)
=============================================================================
