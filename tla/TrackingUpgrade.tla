-------------------------- MODULE TrackingUpgrade --------------------------
(***************************************************************************)
(* The upgrade of a tracking table that an earlier version of sustained    *)
(* wrote, with id and applied_at only.  One migrator adds the missing      *)
(* columns, fills two of them for the rows that are there, and commits     *)
(* twice.  What a failed probe's rollback takes with it depends on the     *)
(* driver and the engine:                                                  *)
(*                                                                         *)
(*   opens  the driver opens a transaction before any statement            *)
(*   ddl    a rollback takes an ADD COLUMN of the transaction back         *)
(***************************************************************************)
EXTENDS Naturals, Sequences, FiniteSets

CONSTANTS
  Columns,   \* _UPGRADE_COLUMNS: a sequence of names
  Filled,    \* the columns the upgrade fills for the rows that are there
  Drivers,   \* the drivers to check
  Earlier    \* the columns the table may have, a set of sets

Names == {Columns[i] : i \in DOMAIN Columns}

VARIABLES
  driver,    \* the driver and the engine
  columns,   \* the committed columns
  nulls,     \* the committed columns that are NULL in the old rows
  open,      \* the columns added in the transaction that is open
  added,     \* `added`: what this run says it added
  at,        \* the column the loop stands at
  pc

vars == <<driver, columns, nulls, open, added, at, pc>>

Seen == columns \cup open

Init ==
  /\ driver \in Drivers
  /\ columns \in Earlier
  /\ nulls = {} /\ open = {} /\ added = {}
  /\ at = 1 /\ pc = "probe all"

(* rollback_quietly() after a probe that failed.                           *)
ProbeRollsBack == open' = {}
(* What an ADD COLUMN leaves to a commit.                                  *)
AddLeavesOpen(name) == open' = IF driver.opens /\ driver.ddl THEN open \cup {name} ELSE open

(* The first probe, for all the columns at once.                           *)
ProbeAll ==
  /\ pc = "probe all"
  /\ IF Names \subseteq Seen
     THEN pc' = "ready" /\ UNCHANGED open
     ELSE pc' = "probe" /\ ProbeRollsBack
  /\ UNCHANGED <<driver, columns, nulls, added, at>>

ProbeFinds ==
  /\ pc = "probe" /\ at <= Len(Columns) /\ Columns[at] \in Seen
  /\ at' = at + 1
  /\ UNCHANGED <<driver, columns, nulls, open, added, pc>>

ProbeFails ==
  /\ pc = "probe" /\ at <= Len(Columns) /\ Columns[at] \notin Seen
  /\ ProbeRollsBack
  /\ pc' = "add"
  /\ UNCHANGED <<driver, columns, nulls, added, at>>

AddColumn ==
  LET name == Columns[at] IN
  /\ pc = "add"
  /\ AddLeavesOpen(name)
  /\ IF driver.opens /\ driver.ddl
     THEN UNCHANGED <<columns, nulls>>
     ELSE columns' = columns \cup {name} /\ nulls' = nulls \cup {name}
  /\ added' = added \cup {name}
  /\ at' = at + 1
  /\ pc' = "probe"
  /\ UNCHANGED driver

CommitColumns ==
  /\ pc = "probe" /\ at > Len(Columns)
  /\ columns' = Seen
  /\ nulls' = nulls \cup open
  /\ open' = {}
  /\ pc' = "fill"
  /\ UNCHANGED <<driver, added, at>>

(* The UPDATEs of the columns this run added, and their commit.            *)
Backfill ==
  /\ pc = "fill" /\ (Filled \cap added) \subseteq columns
  /\ nulls' = nulls \ (Filled \cap added)
  /\ pc' = "ready"
  /\ UNCHANGED <<driver, columns, open, added, at>>

(* An UPDATE of a column that is not in the table raises.                  *)
BackfillRaises ==
  /\ pc = "fill" /\ ~((Filled \cap added) \subseteq columns)
  /\ pc' = "raised"
  /\ UNCHANGED <<driver, columns, nulls, open, added, at>>

Next ==
  \/ ProbeAll \/ ProbeFinds \/ ProbeFails \/ AddColumn \/ CommitColumns
  \/ Backfill \/ BackfillRaises

Spec == Init /\ [][Next]_vars

(* upgrade_tracking_table() "brings a tracking table written by an earlier *)
(* version [...] up to the current columns": on every driver an upgrade    *)
(* that nothing interrupts ends with all the columns in the table and a    *)
(* value in seq and success of every old row.                              *)
UpgradeBringsColumns ==
  /\ pc # "raised"
  /\ pc = "ready" => Names \subseteq columns /\ nulls \cap Filled = {}
=============================================================================
