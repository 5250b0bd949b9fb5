----------------------------- MODULE RunTimeouts -----------------------------
(***************************************************************************)
(* A statement waiting for a lock makes every later query on the table     *)
(* wait behind it, unless a lock timeout is in force.  TimeoutScope        *)
(* (impact/timeouts.py) reads the timeout statements of a run in order, and*)
(* both the impact analysis and the guard no_lock_without_timeout ask it   *)
(* whether a statement is covered.  Here PostgreSQL's own rules for the    *)
(* setting run beside it.                                                  *)
(***************************************************************************)
EXTENDS Naturals

CONSTANTS NotSet,           \* no SET LOCAL is in effect
          MaxSettings,      \* bound: timeout statements of the run
          LocalOff          \* whether the run turns the timeout off with SET LOCAL

ASSUME NotSetAssumption == NotSet \notin BOOLEAN

VARIABLES setting,       \* the server: the session's value, the one its
                         \* transaction began with, the LOCAL one; TRUE bounds the wait
          scope,         \* TimeoutScope: session, local, _session_at_start
          transactional, \* whether the migration runs in a transaction
          settings       \* timeout statements left

timeoutVars == <<setting, scope, transactional, settings>>

InForce == IF setting.local = NotSet THEN setting.session ELSE setting.local

covered == scope.session \/ scope.local

TimeoutStatement ==
    /\ settings > 0
    /\ settings' = settings - 1
    /\ UNCHANGED transactional

(* SET and SET SESSION.  Outside a transaction the value is there to stay. *)
SetSession(bounded) ==
    /\ TimeoutStatement
    /\ setting' = [session |-> bounded, local |-> NotSet,
                   began |-> IF transactional THEN setting.began ELSE bounded]
    /\ scope' = [scope EXCEPT !.session = bounded, !.local = FALSE]

(* SET LOCAL, which the server ignores outside a transaction.              *)
SetLocal(bounded) ==
    /\ TimeoutStatement
    /\ bounded \/ LocalOff
    /\ IF transactional
       THEN /\ setting' = [setting EXCEPT !.local = bounded]
            /\ scope' = [scope EXCEPT !.local = bounded]
       ELSE UNCHANGED <<setting, scope>>

(* RESET goes back to what the connection started with, which the run does *)
(* not know.                                                               *)
Reset(configured) ==
    /\ TimeoutStatement
    /\ setting' = [session |-> configured, local |-> NotSet,
                   began |-> IF transactional THEN setting.began ELSE configured]
    /\ scope' = [scope EXCEPT !.session = FALSE, !.local = FALSE]

(* Mutant: a ROLLBACK ends only the LOCAL setting.                         *)
RollbackKeepsSession ==
    /\ TimeoutStatement
    /\ setting' = IF transactional
                  THEN [setting EXCEPT !.session = setting.began, !.local = NotSet]
                  ELSE setting
    /\ scope' = [scope EXCEPT !.local = FALSE]

RollbackTimeouts ==
    /\ TimeoutStatement
    /\ setting' = IF transactional
                  THEN [setting EXCEPT !.session = setting.began, !.local = NotSet]
                  ELSE setting
    /\ scope' = [scope EXCEPT !.session = @ /\ scope.session_at_start, !.local = FALSE]

(* The commit ends the LOCAL setting; the next statement's enter() does.   *)
EnterTimeouts(inTransaction) ==
    /\ settings > 0
    /\ settings' = settings - 1
    /\ transactional' = inTransaction
    /\ setting' = [setting EXCEPT !.began = setting.session, !.local = NotSet]
    /\ scope' = [scope EXCEPT !.local = FALSE, !.session_at_start = scope.session]

(* The connection's own timeout, which the analysis reads and the guard,   *)
(* which starts with none, does not.                                       *)
TimeoutsInit ==
    /\ \E configured, read \in BOOLEAN :
         /\ setting = [session |-> configured, began |-> configured, local |-> NotSet]
         /\ LET known == configured /\ read
            IN scope = [session |-> known, local |-> FALSE, session_at_start |-> known]
    /\ transactional \in BOOLEAN
    /\ settings = MaxSettings

TimeoutsNext ==
    \/ \E value \in BOOLEAN :
         SetSession(value) \/ SetLocal(value) \/ Reset(value) \/ EnterTimeouts(value)
    \/ RollbackTimeouts

TimeoutsSpec == TimeoutsInit /\ [][TimeoutsNext]_timeoutVars

-----------------------------------------------------------------------------
(* A statement the analysis and the guard take for covered does wait for a *)
(* bounded time, whatever the run set, reset, rolled back and committed    *)
(* before it: no commit, ROLLBACK or RESET takes the timeout away unseen.  *)
CoveredIsInForce == covered => InForce
=============================================================================
