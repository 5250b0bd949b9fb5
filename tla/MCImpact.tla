------------------------------- MODULE MCImpact ------------------------------
(* The four parts of the run state, each on its own: a behaviour follows   *)
(* one of them and leaves the others at their first state.                 *)
EXTENDS RunTables, RunChecks, RunTimeouts, LockWindows

CONSTANTS a, p, q, x,       \* tables: p is partitioned, with the partition q
          c, d, k, l, m,    \* columns and constraints of one table
          Parts             \* the parts this run follows

VARIABLE part

MCLiveParent == q :> p @@ p :> NoTable @@ a :> NoTable
MCSchemaChecks == k :> [column |-> c, valid |-> TRUE] @@ l :> [column |-> c, valid |-> FALSE]
MCTwoChecks == k :> [column |-> c, valid |-> TRUE] @@ l :> [column |-> d, valid |-> TRUE]
MCAutoName == [column \in {c, d} |-> m]

Init ==
    /\ part \in Parts
    /\ TablesInit /\ (part # "tables" => seen)
    /\ ChecksInit /\ (part # "checks" => born)
    /\ TimeoutsInit /\ (part # "timeouts" => transactional /\ scope.session)
    /\ WindowsInit /\ (part # "windows" => mode = "row")

Next ==
    /\ UNCHANGED part
    /\ \/ /\ part = "tables"
          /\ TablesNext /\ UNCHANGED <<checkVars, timeoutVars, windowVars>>
       \/ /\ part = "checks"
          /\ ChecksNext /\ UNCHANGED <<tableVars, timeoutVars, windowVars>>
       \/ /\ part = "timeouts"
          /\ TimeoutsNext /\ UNCHANGED <<tableVars, checkVars, windowVars>>
       \/ /\ part = "windows"
          /\ WindowsNext /\ UNCHANGED <<tableVars, checkVars, timeoutVars>>

Spec == Init /\ [][Next]_<<part, tableVars, checkVars, timeoutVars, windowVars>>
=============================================================================
