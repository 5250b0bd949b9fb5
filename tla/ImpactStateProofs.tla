-------------------------- MODULE ImpactStateProofs --------------------------
(***************************************************************************)
(* Proofs about two parts of the run state of the impact analysis: the     *)
(* timeouts a run sets (RunTimeouts) and the IS NOT NULL checks it adds,   *)
(* renames and drops (RunChecks), for every set of columns, constraints    *)
(* and schema checks and for runs of every length.                         *)
(***************************************************************************)
EXTENDS RunTimeouts, RunChecks, TLAPS

-----------------------------------------------------------------------------
(* Timeouts *)

TimeoutTypes ==
    /\ setting \in [session : BOOLEAN, began : BOOLEAN, local : BOOLEAN \cup {NotSet}]
    /\ scope \in [session : BOOLEAN, local : BOOLEAN, session_at_start : BOOLEAN]

(* Each of the three values the scope keeps errs on the side of no timeout,*)
(* the one a ROLLBACK goes back to included: without it the session's      *)
(* timeout would not survive RollbackTimeouts.                             *)
ScopeErrsOnNone ==
    /\ scope.session => setting.session
    /\ scope.session_at_start /\ transactional => setting.began
    /\ scope.local => setting.local = TRUE

NeverOff == setting.local # FALSE

TimeoutsInv == TimeoutTypes /\ ScopeErrsOnNone /\ (~LocalOff => NeverOff)

LEMMA TimeoutsInvInit == TimeoutsInit => TimeoutsInv
<1> SUFFICES ASSUME TimeoutsInit
             PROVE  TimeoutsInv
  OBVIOUS
<1>1. PICK configured \in BOOLEAN, read \in BOOLEAN :
         /\ setting = [session |-> configured, began |-> configured, local |-> NotSet]
         /\ scope = [session |-> read, local |-> FALSE, session_at_start |-> read]
         /\ read => configured
  BY DEF TimeoutsInit
<1>2. QED
  BY <1>1, NotSetAssumption DEF TimeoutsInv, TimeoutTypes, ScopeErrsOnNone, NeverOff

LEMMA TimeoutsInvNext == TimeoutsInv /\ [TimeoutsNext]_timeoutVars => TimeoutsInv'
<1> SUFFICES ASSUME TimeoutsInv, [TimeoutsNext]_timeoutVars
             PROVE  TimeoutsInv'
  OBVIOUS
<1> USE NotSetAssumption DEF TimeoutsInv, TimeoutTypes, ScopeErrsOnNone, NeverOff
<1>1. ASSUME NEW value \in BOOLEAN, SetSession(value)
      PROVE  TimeoutsInv'
  <2>1. transactional' = transactional
    BY <1>1 DEF SetSession, TimeoutStatement
  <2>2. PICK b \in BOOLEAN :
           /\ setting' = [session |-> value, local |-> NotSet, began |-> b]
           /\ transactional => b = setting.began
    BY <1>1 DEF SetSession
  <2>3. scope' = [scope EXCEPT !.session = value, !.local = FALSE]
    BY <1>1 DEF SetSession
  <2>4. QED
    BY <2>1, <2>2, <2>3
<1>2. ASSUME NEW value \in BOOLEAN, SetLocal(value)
      PROVE  TimeoutsInv'
  <2>1. (LocalOff \/ value = TRUE) /\ transactional' = transactional
    BY <1>2 DEF SetLocal, TimeoutStatement
  <2>2. CASE transactional
    <3>1. /\ setting' = [setting EXCEPT !.local = value]
          /\ scope' = [scope EXCEPT !.local = value]
      BY <1>2, <2>2 DEF SetLocal
    <3>2. QED
      BY <2>1, <3>1
  <2>3. CASE ~transactional
    BY <1>2, <2>1, <2>3 DEF SetLocal
  <2>4. QED
    BY <2>2, <2>3
<1>3. ASSUME NEW value \in BOOLEAN, Reset(value)
      PROVE  TimeoutsInv'
  <2>1. transactional' = transactional
    BY <1>3 DEF Reset, TimeoutStatement
  <2>2. PICK b \in BOOLEAN :
           /\ setting' = [session |-> value, local |-> NotSet, began |-> b]
           /\ transactional => b = setting.began
    BY <1>3 DEF Reset
  <2>3. scope' = [scope EXCEPT !.session = FALSE, !.local = FALSE]
    BY <1>3 DEF Reset
  <2>4. QED
    BY <2>1, <2>2, <2>3
<1>4. ASSUME NEW value \in BOOLEAN, EnterTimeouts(value)
      PROVE  TimeoutsInv'
  <2>1. /\ setting' = [setting EXCEPT !.began = setting.session, !.local = NotSet]
        /\ scope' = [scope EXCEPT !.local = FALSE, !.session_at_start = scope.session]
    BY <1>4 DEF EnterTimeouts
  <2>2. QED
    BY <2>1
<1>5. CASE RollbackTimeouts
  <2>1. transactional' = transactional
    BY <1>5 DEF RollbackTimeouts, TimeoutStatement
  <2>2. scope' = [scope EXCEPT !.session = scope.session /\ scope.session_at_start,
                               !.local = FALSE]
    BY <1>5 DEF RollbackTimeouts
  <2>3. CASE transactional
    <3>1. setting' = [setting EXCEPT !.session = setting.began, !.local = NotSet]
      BY <1>5, <2>3 DEF RollbackTimeouts
    <3>2. QED
      BY <2>1, <2>2, <2>3, <3>1
  <2>4. CASE ~transactional
    <3>1. setting' = setting
      BY <1>5, <2>4 DEF RollbackTimeouts
    <3>2. QED
      BY <2>1, <2>2, <2>4, <3>1
  <2>5. QED
    BY <2>3, <2>4
<1>6. CASE UNCHANGED timeoutVars
  BY <1>6 DEF timeoutVars
<1>7. QED
  BY <1>1, <1>2, <1>3, <1>4, <1>5, <1>6 DEF TimeoutsNext

(* TimeoutScope of impact/timeouts.py takes no timeout for set that the    *)
(* server has not, after any number of statements and rollbacks.           *)
THEOREM TimeoutsInvHolds == TimeoutsSpec => []TimeoutsInv
  BY TimeoutsInvInit, TimeoutsInvNext, PTL DEF TimeoutsSpec

(* Whatever a run sets, resets, rolls back and commits, a statement that   *)
(* TimeoutScope takes for covered waits for a bounded time, unless a SET   *)
(* LOCAL turned the timeout off: the one way the scope errs.               *)
CoveredUnlessOff == covered /\ NeverOff => InForce

(* It holds of impact/timeouts.py with SET LOCAL lock_timeout = 0 admitted.*)
THEOREM CoveredUnlessOffHolds == TimeoutsSpec => []CoveredUnlessOff
<1>1. TimeoutsInv => CoveredUnlessOff
  BY NotSetAssumption DEF TimeoutsInv, TimeoutTypes, ScopeErrsOnNone, CoveredUnlessOff, NeverOff,
     covered, InForce
<1>2. QED
  BY <1>1, TimeoutsInvHolds, PTL

(* In a run that turns no timeout off, a covered statement does wait for a *)
(* bounded time, however many statements the run has.                      *)
THEOREM CoveredIsInForceHolds == ~LocalOff => (TimeoutsSpec => []CoveredIsInForce)
<1> SUFFICES ASSUME ~LocalOff
             PROVE  TimeoutsSpec => []CoveredIsInForce
  OBVIOUS
<1>1. TimeoutsInv => CoveredIsInForce
  BY NotSetAssumption DEF TimeoutsInv, TimeoutTypes, ScopeErrsOnNone, CoveredIsInForce, NeverOff,
     covered, InForce
<1>2. QED
  BY <1>1, TimeoutsInvHolds, PTL
-----------------------------------------------------------------------------
(* Checks: what the analysis keeps of names that move *)

(* The names map of schema_checks or schema_columns: no two of the schema's*)
(* names have come to the same name.                                       *)
IsRenaming(r, S) ==
    /\ DOMAIN r \subseteq S
    /\ r \in [DOMAIN r -> S \cup {NoName}]
    /\ \A s, o \in DOMAIN r : r[s] = r[o] /\ r[s] # NoName => s = o

(* What the schema's s is called now, and that no other object has come to *)
(* be called s while it still is.                                          *)
NameNow(r, s) == IF s \in DOMAIN r THEN r[s] ELSE s
Own(r, s) == s \in DOMAIN r \/ \A o \in DOMAIN r : r[o] # s

IsCatalog(cat) ==
    /\ cat = [columns |-> cat.columns, constraints |-> cat.constraints]
    /\ cat.columns \subseteq Columns
    /\ DOMAIN cat.constraints \subseteq Constraints
    /\ cat.constraints \in
          [DOMAIN cat.constraints -> [column : Columns \cup {NoName}, valid : BOOLEAN]]

IsRecord(kn) ==
    /\ kn = [checks |-> kn.checks, schema_checks |-> kn.schema_checks,
             schema_columns |-> kn.schema_columns]
    /\ DOMAIN kn.checks \subseteq Constraints
    /\ kn.checks \in [DOMAIN kn.checks -> [column : Columns, valid : BOOLEAN]]
    /\ IsRenaming(kn.schema_checks, Constraints)
    /\ IsRenaming(kn.schema_columns, Columns)

(* The checks the run added are the server's, under the same names.        *)
AddedAgree(cat, kn) ==
    \A n \in DOMAIN kn.checks :
        n \in DOMAIN cat.constraints /\ cat.constraints[n] = kn.checks[n]

(* A column of the schema is the table's, under the name it has now.       *)
ColumnsAgree(cat, kn) ==
    /\ \A s \in DOMAIN kn.schema_columns :
          kn.schema_columns[s] # NoName => kn.schema_columns[s] \in cat.columns
    /\ \A s \in SchemaColumns \ DOMAIN kn.schema_columns :
          s \in cat.columns /\ Own(kn.schema_columns, s)

(* A check of the schema whose column is left is the server's, under the   *)
(* name it has now and on the column under its name, unless dropped.       *)
CheckAgrees(cat, kn, n) ==
    LET now == NameNow(kn.schema_checks, n)
        column == NameNow(kn.schema_columns, SchemaChecks[n].column)
    IN column # NoName =>
          /\ Own(kn.schema_checks, n)
          /\ now # NoName =>
                /\ now \in DOMAIN cat.constraints \ DOMAIN kn.checks
                /\ cat.constraints[now].column = column
                /\ SchemaChecks[n].valid => cat.constraints[now].valid

Agree(cat, kn) ==
    /\ IsCatalog(cat) /\ IsRecord(kn)
    /\ AddedAgree(cat, kn) /\ ColumnsAgree(cat, kn)
    /\ ~born => \A n \in DOMAIN SchemaChecks : CheckAgrees(cat, kn, n)

(* A ROLLBACK brings back what the migration began with, so that has to    *)
(* agree as well.                                                          *)
ChecksInv ==
    /\ Agree(catalog, known)
    /\ began = [catalog |-> began.catalog, known |-> began.known]
    /\ Agree(began.catalog, began.known)

-----------------------------------------------------------------------------
(* schema_name and move *)

(* A name leads to the schema's object it was moved to, to none where the  *)
(* schema's object of that name has moved on, and to itself where nothing  *)
(* was moved.                                                              *)
LEMMA SchemaName ==
    ASSUME NEW S, NoName \notin S, NEW r, IsRenaming(r, S), NEW name \in S
    PROVE  \/ schema_name(r, name) \in DOMAIN r /\ r[schema_name(r, name)] = name
           \/ /\ schema_name(r, name) = NoName /\ name \in DOMAIN r
              /\ \A o \in DOMAIN r : r[o] # name
           \/ /\ schema_name(r, name) = name /\ name \notin DOMAIN r
              /\ \A o \in DOMAIN r : r[o] # name
<1> DEFINE now == {s \in DOMAIN r : r[s] = name}
<1>1. CASE now # {}
  <2>1. (CHOOSE s \in now : TRUE) \in now
    BY <1>1
  <2>2. schema_name(r, name) = CHOOSE s \in now : TRUE
    BY <1>1 DEF schema_name
  <2>3. QED
    BY <2>1, <2>2
<1>2. CASE now = {}
  <2>1. \A o \in DOMAIN r : r[o] # name
    BY <1>2
  <2>2. schema_name(r, name) = IF name \in DOMAIN r THEN NoName ELSE name
    BY <1>2 DEF schema_name
  <2>3. QED
    BY <2>1, <2>2
<1>3. QED
  BY <1>1, <1>2

LEMMA WithValues ==
    ASSUME NEW f, NEW x, NEW v
    PROVE  /\ DOMAIN With(f, x, v) = DOMAIN f \cup {x}
           /\ With(f, x, v)[x] = v
           /\ \A y \in DOMAIN f : y # x => With(f, x, v)[y] = f[y]
  BY DEF With

LEMMA RenameValues ==
    ASSUME NEW f, NEW T, f \in [DOMAIN f -> T], NEW old \in DOMAIN f, NEW new, new \notin DOMAIN f,
           NEW g, g = With(Without(f, old), new, f[old])
    PROVE  /\ DOMAIN g = (DOMAIN f \ {old}) \cup {new}
           /\ g[new] = f[old]
           /\ \A y \in DOMAIN f : y # old => g[y] = f[y]
           /\ g \in [DOMAIN g -> T]
<1>1. /\ DOMAIN Without(f, old) = DOMAIN f \ {old}
      /\ \A y \in DOMAIN f : y # old => Without(f, old)[y] = f[y]
  BY DEF Without
<1> DEFINE w == Without(f, old)
<1>2. /\ g = [y \in DOMAIN w \cup {new} |-> IF y = new THEN f[old] ELSE w[y]]
  BY DEF With
<1> HIDE DEF w
<1>3. DOMAIN w = DOMAIN f \ {old} /\ \A y \in DOMAIN f : y # old => w[y] = f[y]
  BY <1>1 DEF w
<1>4. /\ DOMAIN g = (DOMAIN f \ {old}) \cup {new}
      /\ g[new] = f[old]
      /\ \A y \in DOMAIN f : y # old => g[y] = f[y]
  BY <1>2, <1>3
<1>5. \A y \in DOMAIN g : g[y] \in T
  BY <1>4
<1>6. g = [y \in DOMAIN g |-> g[y]]
  BY <1>2
<1>7. QED
  BY <1>4, <1>5, <1>6

(* A move renames one object, and the old name is then no object's.        *)
LEMMA Move ==
    ASSUME NEW S, NoName \notin S, NEW r, IsRenaming(r, S), NEW old \in S,
           NEW new \in S \cup {NoName}, new = NoName \/ \A o \in DOMAIN r : r[o] # new
    PROVE  /\ IsRenaming(move(r, old, new), S)
           /\ DOMAIN r \subseteq DOMAIN move(r, old, new)
           /\ \A o \in DOMAIN move(r, old, new) :
                 \/ move(r, old, new)[o] = new
                 \/ o \in DOMAIN r /\ r[o] # old /\ move(r, old, new)[o] = r[o]
<1> DEFINE s == schema_name(r, old)
<1>1. CASE s = NoName
  <2>1. \A o \in DOMAIN r : r[o] # old
    BY <1>1, SchemaName DEF IsRenaming
  <2>2. move(r, old, new) = r
    BY <1>1 DEF move
  <2>3. QED
    BY <2>1, <2>2
<1>2. CASE s # NoName
  <2>1. s \in S /\ \A o \in DOMAIN r : o # s => r[o] # old
    BY <1>2, SchemaName DEF IsRenaming
  <2>2. move(r, old, new) = With(r, s, new)
    BY <1>2 DEF move
  <2> HIDE DEF s
  <2>3. /\ DOMAIN With(r, s, new) = DOMAIN r \cup {s}
        /\ With(r, s, new)[s] = new
        /\ \A o \in DOMAIN r : o # s => With(r, s, new)[o] = r[o]
    BY DEF With
  <2>4. With(r, s, new) \in [DOMAIN With(r, s, new) -> S \cup {NoName}]
    BY <2>3 DEF With, IsRenaming
  <2>5. IsRenaming(With(r, s, new), S)
    BY <2>1, <2>3, <2>4 DEF IsRenaming
  <2>6. QED
    BY <2>1, <2>2, <2>3, <2>5
<1>3. QED
  BY <1>1, <1>2

(* A name of the schema follows the move of what it is called now, and of  *)
(* nothing else.                                                           *)
LEMMA MoveFollows ==
    ASSUME NEW S, NoName \notin S, NEW r, IsRenaming(r, S), NEW old \in S,
           NEW new \in S \cup {NoName}, new = NoName \/ \A o \in DOMAIN r : r[o] # new,
           NEW n \in S, Own(r, n)
    PROVE  /\ NameNow(move(r, old, new), n) =
                 IF NameNow(r, n) = old THEN new ELSE NameNow(r, n)
           /\ new # n => Own(move(r, old, new), n)
<1> DEFINE s == schema_name(r, old)
<1>1. new # n => Own(move(r, old, new), n)
  BY Move DEF Own
<1>2. CASE s = NoName
  <2>1. (\A o \in DOMAIN r : r[o] # old) /\ old \in DOMAIN r
    BY <1>2, SchemaName DEF IsRenaming
  <2>2. move(r, old, new) = r
    BY <1>2 DEF move
  <2>3. NameNow(r, n) # old
    BY <2>1 DEF NameNow
  <2>4. QED
    BY <1>1, <2>2, <2>3
<1>3. CASE s # NoName
  <2>1. /\ s \in S /\ \A o \in DOMAIN r : o # s => r[o] # old
        /\ \/ s \in DOMAIN r /\ r[s] = old
           \/ s = old /\ s \notin DOMAIN r
    BY <1>3, SchemaName DEF IsRenaming
  <2>2. move(r, old, new) = With(r, s, new)
    BY <1>3 DEF move
  <2> HIDE DEF s
  <2>3. NameNow(r, n) = old <=> n = s
    BY <2>1 DEF NameNow, Own
  <2>4. NameNow(With(r, s, new), n) = IF n = s THEN new ELSE NameNow(r, n)
    BY DEF NameNow, With
  <2>5. QED
    BY <1>1, <2>2, <2>3, <2>4
<1>4. QED
  BY <1>2, <1>3
-----------------------------------------------------------------------------
(* Each statement keeps the catalog and the record in agreement            *)

LEMMA AddConstraintAgrees ==
    ASSUME NEW cat, NEW kn, Agree(cat, kn), NEW cat2, NEW kn2,
           NEW name \in Constraints \ DOMAIN cat.constraints,
           NEW check \in [column : Columns \cup {NoName}, valid : BOOLEAN],
           cat2 = [columns |-> cat.columns, constraints |-> With(cat.constraints, name, check)],
           \/ kn2 = kn
           \/ /\ check.column \in Columns
              /\ kn2 = [checks |-> With(kn.checks, name, check),
                        schema_checks |-> kn.schema_checks,
                        schema_columns |-> kn.schema_columns]
    PROVE  Agree(cat2, kn2)
<1>1. IsCatalog(cat) /\ IsRecord(kn) /\ AddedAgree(cat, kn) /\ ColumnsAgree(cat, kn)
  BY DEF Agree
<1>2. /\ DOMAIN cat2.constraints = DOMAIN cat.constraints \cup {name}
      /\ cat2.constraints[name] = check
      /\ \A n \in DOMAIN cat.constraints : cat2.constraints[n] = cat.constraints[n]
  BY DEF With
<1>3. cat2.columns = cat.columns
  OBVIOUS
<1>4. IsCatalog(cat2)
  <2>1. cat2.constraints \in
           [DOMAIN cat2.constraints -> [column : Columns \cup {NoName}, valid : BOOLEAN]]
    BY <1>1 DEF IsCatalog, With
  <2>2. QED
    BY <1>1, <1>2, <1>3, <2>1 DEF IsCatalog
<1>5. /\ kn2.schema_checks = kn.schema_checks /\ kn2.schema_columns = kn.schema_columns
      /\ DOMAIN kn.checks \subseteq DOMAIN kn2.checks
      /\ \A n \in DOMAIN kn2.checks :
            \/ n \in DOMAIN kn.checks /\ kn2.checks[n] = kn.checks[n]
            \/ n = name /\ kn2.checks[n] = check
      /\ IsRecord(kn2)
  <2>1. CASE kn2 = kn
    BY <1>1, <2>1
  <2>2. CASE kn2 # kn
    <3>1. name \notin DOMAIN kn.checks
      BY <1>1 DEF AddedAgree
    <3>2. check \in [column : Columns, valid : BOOLEAN]
      BY <2>2
    <3>3. kn2.checks = With(kn.checks, name, check)
      BY <2>2
    <3>4. /\ DOMAIN kn2.checks = DOMAIN kn.checks \cup {name}
          /\ kn2.checks[name] = check
          /\ \A n \in DOMAIN kn.checks : kn2.checks[n] = kn.checks[n]
      BY <3>1, <3>3 DEF With
    <3>5. kn2.checks \in [DOMAIN kn2.checks -> [column : Columns, valid : BOOLEAN]]
      BY <1>1, <3>2, <3>3 DEF IsRecord, With
    <3>6. IsRecord(kn2)
      BY <1>1, <2>2, <3>4, <3>5 DEF IsRecord
    <3>7. QED
      BY <2>2, <3>4, <3>6
  <2>3. QED
    BY <2>1, <2>2
<1>6. AddedAgree(cat2, kn2)
  BY <1>1, <1>2, <1>5 DEF AddedAgree
<1>7. ColumnsAgree(cat2, kn2)
  BY <1>1, <1>3, <1>5 DEF ColumnsAgree
<1>8. ASSUME ~born, NEW n \in DOMAIN SchemaChecks
      PROVE  CheckAgrees(cat2, kn2, n)
  <2>1. CheckAgrees(cat, kn, n)
    BY <1>8 DEF Agree
  <2>2. QED
    BY <1>2, <1>5, <2>1 DEF CheckAgrees
<1>9. QED
  BY <1>4, <1>5, <1>6, <1>7, <1>8 DEF Agree

LEMMA ValidateAgrees ==
    ASSUME NEW cat, NEW kn, Agree(cat, kn), NEW cat2, NEW kn2,
           NEW name \in DOMAIN cat.constraints,
           cat2 = [columns |-> cat.columns,
                   constraints |-> [cat.constraints EXCEPT ![name].valid = TRUE]],
           kn2 = IF name \in DOMAIN kn.checks
                 THEN [checks |-> [kn.checks EXCEPT ![name].valid = TRUE],
                       schema_checks |-> kn.schema_checks,
                       schema_columns |-> kn.schema_columns]
                 ELSE kn
    PROVE  Agree(cat2, kn2)
<1>1. IsCatalog(cat) /\ IsRecord(kn) /\ AddedAgree(cat, kn) /\ ColumnsAgree(cat, kn)
  BY DEF Agree
<1>2. /\ DOMAIN cat2.constraints = DOMAIN cat.constraints
      /\ cat2.constraints[name] = [cat.constraints[name] EXCEPT !.valid = TRUE]
      /\ \A n \in DOMAIN cat.constraints : n # name => cat2.constraints[n] = cat.constraints[n]
  BY <1>1 DEF IsCatalog
<1>3. cat.constraints[name] \in [column : Columns \cup {NoName}, valid : BOOLEAN]
  BY <1>1 DEF IsCatalog
<1>4. /\ cat2.constraints[name].column = cat.constraints[name].column
      /\ cat2.constraints[name].valid = TRUE
      /\ cat2.constraints[name] \in [column : Columns \cup {NoName}, valid : BOOLEAN]
  BY <1>2, <1>3
<1>5. cat2.columns = cat.columns
  OBVIOUS
<1>6. IsCatalog(cat2)
  BY <1>1, <1>2, <1>4 DEF IsCatalog
<1>7. /\ kn2.schema_checks = kn.schema_checks /\ kn2.schema_columns = kn.schema_columns
      /\ DOMAIN kn2.checks = DOMAIN kn.checks
      /\ \A n \in DOMAIN kn.checks :
            kn2.checks[n] = IF n = name THEN [kn.checks[n] EXCEPT !.valid = TRUE] ELSE kn.checks[n]
      /\ IsRecord(kn2)
  <2>1. CASE name \notin DOMAIN kn.checks
    BY <1>1, <2>1
  <2>2. CASE name \in DOMAIN kn.checks
    <3>1. kn2.checks = [kn.checks EXCEPT ![name].valid = TRUE]
      BY <2>2
    <3>2. kn.checks[name] \in [column : Columns, valid : BOOLEAN]
      BY <1>1, <2>2 DEF IsRecord
    <3>3. /\ DOMAIN kn2.checks = DOMAIN kn.checks
          /\ kn2.checks[name] = [kn.checks[name] EXCEPT !.valid = TRUE]
          /\ \A n \in DOMAIN kn.checks : n # name => kn2.checks[n] = kn.checks[n]
      BY <1>1, <2>2, <3>1 DEF IsRecord
    <3>4. kn2.checks[name] \in [column : Columns, valid : BOOLEAN]
      BY <3>2, <3>3
    <3>5. kn2.checks \in [DOMAIN kn2.checks -> [column : Columns, valid : BOOLEAN]]
      BY <1>1, <3>1, <3>2, <2>2 DEF IsRecord
    <3>6. QED
      BY <1>1, <2>2, <3>3, <3>5 DEF IsRecord
  <2>3. QED
    BY <2>1, <2>2
<1>8. AddedAgree(cat2, kn2)
  BY <1>1, <1>2, <1>7 DEF AddedAgree
<1>9. ColumnsAgree(cat2, kn2)
  BY <1>1, <1>5, <1>7 DEF ColumnsAgree
<1>10. ASSUME ~born, NEW n \in DOMAIN SchemaChecks
       PROVE  CheckAgrees(cat2, kn2, n)
  <2>1. CheckAgrees(cat, kn, n)
    BY <1>10 DEF Agree
  <2>2. QED
    BY <1>2, <1>4, <1>7, <2>1 DEF CheckAgrees
<1>11. QED
  BY <1>6, <1>7, <1>8, <1>9, <1>10 DEF Agree
LEMMA DropConstraintAgrees ==
    ASSUME NEW cat, NEW kn, Agree(cat, kn), NEW cat2, NEW kn2, NEW name \in Constraints,
           cat2 = [columns |-> cat.columns, constraints |-> Without(cat.constraints, name)],
           kn2 = IF name \in DOMAIN kn.checks
                 THEN [checks |-> Without(kn.checks, name),
                       schema_checks |-> kn.schema_checks,
                       schema_columns |-> kn.schema_columns]
                 ELSE [checks |-> kn.checks,
                       schema_checks |-> move(kn.schema_checks, name, NoName),
                       schema_columns |-> kn.schema_columns]
    PROVE  Agree(cat2, kn2)
<1>1. /\ IsCatalog(cat) /\ IsRecord(kn) /\ AddedAgree(cat, kn) /\ ColumnsAgree(cat, kn)
      /\ IsRenaming(kn.schema_checks, Constraints) /\ NoName \notin Constraints
  BY ChecksAssumption DEF Agree, IsRecord
<1>2. /\ DOMAIN cat2.constraints = DOMAIN cat.constraints \ {name}
      /\ \A n \in DOMAIN cat2.constraints : cat2.constraints[n] = cat.constraints[n]
      /\ cat2.columns = cat.columns
  BY DEF Without
<1>3. IsCatalog(cat2)
  <2>1. cat2.constraints \in
           [DOMAIN cat2.constraints -> [column : Columns \cup {NoName}, valid : BOOLEAN]]
    BY <1>1 DEF IsCatalog, Without
  <2>2. QED
    BY <1>1, <1>2, <2>1 DEF IsCatalog
<1>4. CASE name \in DOMAIN kn.checks
  <2>1. kn2 = [checks |-> Without(kn.checks, name), schema_checks |-> kn.schema_checks,
               schema_columns |-> kn.schema_columns]
    BY <1>4
  <2>2. /\ DOMAIN kn2.checks = DOMAIN kn.checks \ {name}
        /\ \A n \in DOMAIN kn2.checks : kn2.checks[n] = kn.checks[n]
        /\ kn2.schema_checks = kn.schema_checks /\ kn2.schema_columns = kn.schema_columns
    BY <2>1 DEF Without
  <2>3. kn2.checks \in [DOMAIN kn2.checks -> [column : Columns, valid : BOOLEAN]]
    BY <1>1, <2>1 DEF IsRecord, Without
  <2>4. IsRecord(kn2)
    BY <1>1, <2>1, <2>2, <2>3 DEF IsRecord
  <2>5. AddedAgree(cat2, kn2) /\ ColumnsAgree(cat2, kn2)
    BY <1>1, <1>2, <2>2 DEF AddedAgree, ColumnsAgree
  <2>6. ASSUME ~born, NEW n \in DOMAIN SchemaChecks
        PROVE  CheckAgrees(cat2, kn2, n)
    <3>1. CheckAgrees(cat, kn, n)
      BY <2>6 DEF Agree
    <3>2. QED
      BY <1>2, <1>4, <2>2, <3>1 DEF CheckAgrees
  <2>7. QED
    BY <1>3, <2>4, <2>5, <2>6 DEF Agree
<1>5. CASE name \notin DOMAIN kn.checks
  <2>1. kn2 = [checks |-> kn.checks, schema_checks |-> move(kn.schema_checks, name, NoName),
               schema_columns |-> kn.schema_columns]
    BY <1>5
  <2>2. /\ kn2.checks = kn.checks /\ kn2.schema_columns = kn.schema_columns
        /\ kn2.schema_checks = move(kn.schema_checks, name, NoName)
    BY <2>1
  <2>3. IsRenaming(kn2.schema_checks, Constraints)
    BY <1>1, <2>2, Move
  <2>4. IsRecord(kn2)
    BY <1>1, <2>1, <2>2, <2>3 DEF IsRecord
  <2>5. AddedAgree(cat2, kn2) /\ ColumnsAgree(cat2, kn2)
    BY <1>1, <1>2, <1>5, <2>2 DEF AddedAgree, ColumnsAgree
  <2>6. ASSUME ~born, NEW n \in DOMAIN SchemaChecks
        PROVE  CheckAgrees(cat2, kn2, n)
    <3>1. CheckAgrees(cat, kn, n) /\ n \in Constraints /\ n # NoName
      BY <2>6, ChecksAssumption DEF Agree
    <3>2. Own(kn.schema_checks, n) =>
             /\ NameNow(kn2.schema_checks, n) =
                   IF NameNow(kn.schema_checks, n) = name THEN NoName
                   ELSE NameNow(kn.schema_checks, n)
             /\ Own(kn2.schema_checks, n)
      BY <1>1, <2>2, <3>1, MoveFollows
    <3>3. QED
      BY <1>2, <2>2, <3>1, <3>2 DEF CheckAgrees
  <2>7. QED
    BY <1>3, <2>4, <2>5, <2>6 DEF Agree
<1>6. QED
  BY <1>4, <1>5

(* The name a check is renamed to is no other's, nor that of a check which *)
(* a DROP COLUMN took along.                                               *)
LEMMA RenameConstraintAgrees ==
    ASSUME NEW cat, NEW kn, Agree(cat, kn), NEW cat2, NEW kn2,
           NEW old \in DOMAIN cat.constraints, NEW new \in Constraints \ DOMAIN cat.constraints,
           \A n \in DOMAIN kn.schema_checks : kn.schema_checks[n] # new,
           cat2 = [columns |-> cat.columns,
                   constraints |-> With(Without(cat.constraints, old), new,
                                        cat.constraints[old])],
           kn2 = IF old \in DOMAIN kn.checks
                 THEN [checks |-> With(Without(kn.checks, old), new, kn.checks[old]),
                       schema_checks |-> kn.schema_checks,
                       schema_columns |-> kn.schema_columns]
                 ELSE [checks |-> kn.checks,
                       schema_checks |-> move(kn.schema_checks, old, new),
                       schema_columns |-> kn.schema_columns]
    PROVE  Agree(cat2, kn2)
<1>1. /\ IsCatalog(cat) /\ IsRecord(kn) /\ AddedAgree(cat, kn) /\ ColumnsAgree(cat, kn)
      /\ IsRenaming(kn.schema_checks, Constraints) /\ NoName \notin Constraints
      /\ old \in Constraints /\ new # old /\ new \notin DOMAIN kn.checks
  BY ChecksAssumption DEF Agree, IsRecord, IsCatalog, AddedAgree
<1>2. /\ DOMAIN cat2.constraints = (DOMAIN cat.constraints \ {old}) \cup {new}
      /\ cat2.constraints[new] = cat.constraints[old]
      /\ \A n \in DOMAIN cat.constraints : n # old => cat2.constraints[n] = cat.constraints[n]
      /\ cat2.columns = cat.columns
  BY DEF With, Without
<1>3. IsCatalog(cat2)
  <2>1. cat2.constraints \in
           [DOMAIN cat2.constraints -> [column : Columns \cup {NoName}, valid : BOOLEAN]]
    BY <1>1 DEF IsCatalog, With, Without
  <2>2. QED
    BY <1>1, <1>2, <2>1 DEF IsCatalog
<1>4. CASE old \in DOMAIN kn.checks
  <2>1. kn2 = [checks |-> With(Without(kn.checks, old), new, kn.checks[old]),
               schema_checks |-> kn.schema_checks, schema_columns |-> kn.schema_columns]
    BY <1>4
  <2>2. /\ kn2.checks = With(Without(kn.checks, old), new, kn.checks[old])
        /\ kn2.schema_checks = kn.schema_checks /\ kn2.schema_columns = kn.schema_columns
    BY <2>1
  <2>3. /\ DOMAIN kn2.checks = (DOMAIN kn.checks \ {old}) \cup {new}
        /\ kn2.checks[new] = kn.checks[old]
        /\ \A n \in DOMAIN kn.checks : n # old => kn2.checks[n] = kn.checks[n]
        /\ kn2.checks \in [DOMAIN kn2.checks -> [column : Columns, valid : BOOLEAN]]
    <3>1. new \notin DOMAIN kn.checks /\ new # old
      BY <1>1
    <3>2. kn.checks \in [DOMAIN kn.checks -> [column : Columns, valid : BOOLEAN]]
      BY <1>1 DEF IsRecord
    <3>3. QED
      BY <1>4, <2>2, <3>1, <3>2, RenameValues
  <2>4. IsRecord(kn2)
    BY <1>1, <2>1, <2>3 DEF IsRecord
  <2>5. AddedAgree(cat2, kn2) /\ ColumnsAgree(cat2, kn2)
    BY <1>1, <1>2, <1>4, <2>2, <2>3 DEF AddedAgree, ColumnsAgree
  <2>6. ASSUME ~born, NEW n \in DOMAIN SchemaChecks
        PROVE  CheckAgrees(cat2, kn2, n)
    <3>1. CheckAgrees(cat, kn, n)
      BY <2>6 DEF Agree
    <3>2. QED
      BY <1>1, <1>2, <1>4, <2>2, <2>3, <3>1 DEF CheckAgrees
  <2>7. QED
    BY <1>3, <2>4, <2>5, <2>6 DEF Agree
<1>5. CASE old \notin DOMAIN kn.checks
  <2>1. kn2 = [checks |-> kn.checks, schema_checks |-> move(kn.schema_checks, old, new),
               schema_columns |-> kn.schema_columns]
    BY <1>5
  <2>2. /\ kn2.checks = kn.checks /\ kn2.schema_columns = kn.schema_columns
        /\ kn2.schema_checks = move(kn.schema_checks, old, new)
    BY <2>1
  <2>3. IsRenaming(kn2.schema_checks, Constraints)
    BY <1>1, <2>2, Move
  <2>4. IsRecord(kn2)
    BY <1>1, <2>1, <2>2, <2>3 DEF IsRecord
  <2>5. AddedAgree(cat2, kn2) /\ ColumnsAgree(cat2, kn2)
    BY <1>1, <1>2, <1>5, <2>2 DEF AddedAgree, ColumnsAgree
  <2>6. ASSUME ~born, NEW n \in DOMAIN SchemaChecks
        PROVE  CheckAgrees(cat2, kn2, n)
    <3>1. CheckAgrees(cat, kn, n) /\ n \in Constraints /\ n # NoName
      BY <2>6, ChecksAssumption DEF Agree
    <3>2. Own(kn.schema_checks, n) =>
             /\ NameNow(kn2.schema_checks, n) =
                   IF NameNow(kn.schema_checks, n) = old THEN new
                   ELSE NameNow(kn.schema_checks, n)
             /\ new # n => Own(kn2.schema_checks, n)
      BY <1>1, <2>2, <3>1, MoveFollows
    <3>3. n \notin DOMAIN kn.schema_checks => NameNow(kn.schema_checks, n) = n
      BY DEF NameNow
    <3>4. DOMAIN kn.schema_checks \subseteq DOMAIN kn2.schema_checks
      BY <1>1, <2>2, Move
    <3>5. n \in DOMAIN kn.schema_checks => Own(kn2.schema_checks, n)
      BY <3>4 DEF Own
    <3>6. QED
      BY <1>1, <1>2, <1>5, <2>2, <3>1, <3>2, <3>3, <3>5 DEF CheckAgrees
  <2>7. QED
    BY <1>3, <2>4, <2>5, <2>6 DEF Agree
<1>6. QED
  BY <1>4, <1>5
LEMMA AddColumnAgrees ==
    ASSUME NEW cat, NEW kn, Agree(cat, kn), NEW cat2, NEW column \in Columns,
           cat2 = [columns |-> cat.columns \cup {column}, constraints |-> cat.constraints]
    PROVE  Agree(cat2, kn)
<1>1. cat2.columns = cat.columns \cup {column} /\ cat2.constraints = cat.constraints
  OBVIOUS
<1>2. IsCatalog(cat2)
  BY <1>1 DEF Agree, IsCatalog
<1>3. AddedAgree(cat2, kn) /\ ColumnsAgree(cat2, kn)
  BY <1>1 DEF Agree, AddedAgree, ColumnsAgree
<1>4. ASSUME ~born, NEW n \in DOMAIN SchemaChecks
      PROVE  CheckAgrees(cat2, kn, n)
  BY <1>1, <1>4 DEF Agree, CheckAgrees
<1>5. QED
  BY <1>2, <1>3, <1>4 DEF Agree

(* What a DROP COLUMN leaves of a set of checks.                           *)
Left(checks, column) ==
    [n \in {m \in DOMAIN checks : checks[m].column # column} |-> checks[n]]

LEMMA DropColumnAgrees ==
    ASSUME NEW cat, NEW kn, Agree(cat, kn), NEW cat2, NEW kn2, NEW column \in cat.columns,
           cat2 = [columns |-> cat.columns \ {column},
                   constraints |-> Left(cat.constraints, column)],
           kn2 = [checks |-> Left(kn.checks, column), schema_checks |-> kn.schema_checks,
                  schema_columns |-> move(kn.schema_columns, column, NoName)]
    PROVE  Agree(cat2, kn2)
<1>1. /\ IsCatalog(cat) /\ IsRecord(kn) /\ AddedAgree(cat, kn) /\ ColumnsAgree(cat, kn)
      /\ IsRenaming(kn.schema_columns, Columns) /\ NoName \notin Columns /\ column \in Columns
  BY ChecksAssumption DEF Agree, IsRecord, IsCatalog
<1>2. /\ \A n : n \in DOMAIN cat2.constraints <=>
                   n \in DOMAIN cat.constraints /\ cat.constraints[n].column # column
      /\ \A n \in DOMAIN cat2.constraints : cat2.constraints[n] = cat.constraints[n]
      /\ cat2.columns = cat.columns \ {column}
  BY DEF Left
<1>3. IsCatalog(cat2)
  <2>1. cat2.constraints \in
           [DOMAIN cat2.constraints -> [column : Columns \cup {NoName}, valid : BOOLEAN]]
    BY <1>1 DEF IsCatalog, Left
  <2>2. QED
    BY <1>1, <1>2, <2>1 DEF IsCatalog
<1>4. /\ kn2.checks = Left(kn.checks, column) /\ kn2.schema_checks = kn.schema_checks
      /\ kn2.schema_columns = move(kn.schema_columns, column, NoName)
  OBVIOUS
<1>5. /\ \A n : n \in DOMAIN kn2.checks <=>
                   n \in DOMAIN kn.checks /\ kn.checks[n].column # column
      /\ \A n \in DOMAIN kn2.checks : kn2.checks[n] = kn.checks[n]
  BY <1>4 DEF Left
<1>6. IsRecord(kn2)
  <2>1. kn2.checks \in [DOMAIN kn2.checks -> [column : Columns, valid : BOOLEAN]]
    BY <1>1, <1>4 DEF IsRecord, Left
  <2>2. IsRenaming(kn2.schema_columns, Columns)
    BY <1>1, <1>4, Move
  <2>3. DOMAIN kn2.checks \subseteq Constraints
    BY <1>1, <1>5 DEF IsRecord
  <2>4. QED
    BY <1>1, <1>4, <2>1, <2>2, <2>3 DEF IsRecord
<1>7. AddedAgree(cat2, kn2)
  BY <1>1, <1>2, <1>5 DEF AddedAgree
<1>8. \A s \in Columns : Own(kn.schema_columns, s) =>
         /\ NameNow(kn2.schema_columns, s) =
               IF NameNow(kn.schema_columns, s) = column THEN NoName
               ELSE NameNow(kn.schema_columns, s)
         /\ Own(kn2.schema_columns, s)
  BY <1>1, <1>4, MoveFollows
<1>9. /\ DOMAIN kn.schema_columns \subseteq DOMAIN kn2.schema_columns
      /\ \A o \in DOMAIN kn2.schema_columns :
            \/ kn2.schema_columns[o] = NoName
            \/ /\ o \in DOMAIN kn.schema_columns /\ kn.schema_columns[o] # column
               /\ kn2.schema_columns[o] = kn.schema_columns[o]
  BY <1>1, <1>4, Move
<1>10. \A s \in SchemaColumns : s \in Columns /\ Own(kn.schema_columns, s)
  BY <1>1, ChecksAssumption DEF ColumnsAgree, Own
<1>11. ColumnsAgree(cat2, kn2)
  <2>1. ASSUME NEW s \in DOMAIN kn2.schema_columns, kn2.schema_columns[s] # NoName
        PROVE  kn2.schema_columns[s] \in cat2.columns
    BY <1>1, <1>2, <1>9, <2>1 DEF ColumnsAgree
  <2>2. ASSUME NEW s \in SchemaColumns \ DOMAIN kn2.schema_columns
        PROVE  s \in cat2.columns /\ Own(kn2.schema_columns, s)
    <3>1. s \notin DOMAIN kn.schema_columns /\ s \in cat.columns
      BY <1>1, <1>9 DEF ColumnsAgree
    <3>2. NameNow(kn2.schema_columns, s) = s /\ NameNow(kn.schema_columns, s) = s
      BY <3>1 DEF NameNow
    <3>3. s # column
      BY <1>1, <1>8, <1>10, <3>2
    <3>4. QED
      BY <1>2, <1>8, <1>10, <3>1, <3>3
  <2>3. QED
    BY <2>1, <2>2 DEF ColumnsAgree
<1>12. ASSUME ~born, NEW n \in DOMAIN SchemaChecks
       PROVE  CheckAgrees(cat2, kn2, n)
  <2>1. CheckAgrees(cat, kn, n) /\ SchemaChecks[n].column \in SchemaColumns
    BY <1>12, ChecksAssumption DEF Agree
  <2>2. QED
    BY <1>1, <1>2, <1>4, <1>5, <1>8, <1>10, <2>1 DEF CheckAgrees
<1>13. QED
  BY <1>3, <1>6, <1>7, <1>11, <1>12 DEF Agree

(* A set of checks after a column was renamed.                             *)
Moved(checks, old, new) ==
    [n \in DOMAIN checks |-> [checks[n] EXCEPT !.column = IF @ = old THEN new ELSE @]]

(* Named checks, each with a column of C.                                  *)
AreChecks(f, C) == f \in [DOMAIN f -> [column : C, valid : BOOLEAN]]

LEMMA MovedValues ==
    ASSUME NEW checks, NEW C, AreChecks(checks, C),
           NEW old, NEW new \in C
    PROVE  /\ DOMAIN Moved(checks, old, new) = DOMAIN checks
           /\ AreChecks(Moved(checks, old, new), C)
           /\ \A n \in DOMAIN checks :
                 /\ checks[n].column = old =>
                       Moved(checks, old, new)[n] = [column |-> new, valid |-> checks[n].valid]
                 /\ checks[n].column # old => Moved(checks, old, new)[n] = checks[n]
<1> DEFINE moved == Moved(checks, old, new)
<1>1. DOMAIN moved = DOMAIN checks
  BY DEF Moved
<1>2. ASSUME NEW n \in DOMAIN checks
      PROVE  /\ checks[n].column = old => moved[n] = [column |-> new, valid |-> checks[n].valid]
             /\ checks[n].column # old => moved[n] = checks[n]
             /\ moved[n] \in [column : C, valid : BOOLEAN]
  <2>1. checks[n] \in [column : C, valid : BOOLEAN]
    BY DEF AreChecks
  <2>2. moved[n] = [checks[n] EXCEPT !.column =
                       IF checks[n].column = old THEN new ELSE checks[n].column]
    BY DEF Moved
  <2>3. QED
    BY <2>1, <2>2
<1>3. moved = [n \in DOMAIN moved |-> moved[n]]
  BY DEF Moved
<1>4. QED
  BY <1>1, <1>2, <1>3 DEF AreChecks

LEMMA RenameColumnAgrees ==
    ASSUME NEW cat, NEW kn, Agree(cat, kn), NEW cat2, NEW kn2, NEW old \in cat.columns,
           NEW new \in Columns \ cat.columns,
           cat2 = [columns |-> (cat.columns \ {old}) \cup {new},
                   constraints |-> Moved(cat.constraints, old, new)],
           kn2 = [checks |-> Moved(kn.checks, old, new), schema_checks |-> kn.schema_checks,
                  schema_columns |-> move(kn.schema_columns, old, new)]
    PROVE  Agree(cat2, kn2)
<1>1. /\ IsCatalog(cat) /\ IsRecord(kn) /\ AddedAgree(cat, kn) /\ ColumnsAgree(cat, kn)
      /\ IsRenaming(kn.schema_columns, Columns) /\ NoName \notin Columns
      /\ old \in Columns /\ old # new
      /\ \A o \in DOMAIN kn.schema_columns : kn.schema_columns[o] # new
  BY ChecksAssumption DEF Agree, IsRecord, IsCatalog, ColumnsAgree
<1>2. /\ cat2.columns = (cat.columns \ {old}) \cup {new}
      /\ cat2.constraints = Moved(cat.constraints, old, new)
      /\ kn2.checks = Moved(kn.checks, old, new) /\ kn2.schema_checks = kn.schema_checks
      /\ kn2.schema_columns = move(kn.schema_columns, old, new)
  OBVIOUS
<1>3. /\ DOMAIN cat2.constraints = DOMAIN cat.constraints
      /\ cat2.constraints \in
            [DOMAIN cat2.constraints -> [column : Columns \cup {NoName}, valid : BOOLEAN]]
      /\ \A n \in DOMAIN cat2.constraints :
            /\ cat.constraints[n].column = old =>
                  cat2.constraints[n] = [column |-> new, valid |-> cat.constraints[n].valid]
            /\ cat.constraints[n].column # old => cat2.constraints[n] = cat.constraints[n]
  <2>1. AreChecks(cat.constraints, Columns \cup {NoName})
    BY <1>1 DEF IsCatalog, AreChecks
  <2>2. AreChecks(cat2.constraints, Columns \cup {NoName})
    BY <1>2, <2>1, MovedValues
  <2>3. /\ DOMAIN cat2.constraints = DOMAIN cat.constraints
        /\ \A n \in DOMAIN cat.constraints :
            /\ cat.constraints[n].column = old =>
                  cat2.constraints[n] = [column |-> new, valid |-> cat.constraints[n].valid]
            /\ cat.constraints[n].column # old => cat2.constraints[n] = cat.constraints[n]
    BY <1>2, <2>1, MovedValues
  <2>4. QED
    BY <2>2, <2>3 DEF AreChecks
<1>4. IsCatalog(cat2)
  BY <1>1, <1>2, <1>3 DEF IsCatalog
<1>5. /\ DOMAIN kn2.checks = DOMAIN kn.checks
      /\ kn2.checks \in [DOMAIN kn2.checks -> [column : Columns, valid : BOOLEAN]]
      /\ \A n \in DOMAIN kn2.checks :
            /\ kn.checks[n].column = old =>
                  kn2.checks[n] = [column |-> new, valid |-> kn.checks[n].valid]
            /\ kn.checks[n].column # old => kn2.checks[n] = kn.checks[n]
  <2>1. AreChecks(kn.checks, Columns)
    BY <1>1 DEF IsRecord, AreChecks
  <2>2. AreChecks(kn2.checks, Columns)
    BY <1>2, <2>1, MovedValues
  <2>3. QED
    BY <1>2, <2>1, <2>2, MovedValues DEF AreChecks
<1>6. IsRecord(kn2)
  <2>1. IsRenaming(kn2.schema_columns, Columns)
    BY <1>1, <1>2, Move
  <2>2. QED
    BY <1>1, <1>2, <1>5, <2>1 DEF IsRecord
<1>7. AddedAgree(cat2, kn2)
  <2>1. ASSUME NEW n \in DOMAIN kn2.checks
        PROVE  n \in DOMAIN cat2.constraints /\ cat2.constraints[n] = kn2.checks[n]
    <3>1. n \in DOMAIN kn.checks /\ n \in DOMAIN cat.constraints
          /\ n \in DOMAIN cat2.constraints /\ cat.constraints[n] = kn.checks[n]
      BY <1>1, <1>3, <1>5 DEF AddedAgree
    <3>2. CASE cat.constraints[n].column = old
      <4>1. /\ cat2.constraints[n] = [column |-> new, valid |-> cat.constraints[n].valid]
            /\ kn2.checks[n] = [column |-> new, valid |-> kn.checks[n].valid]
        BY <1>3, <1>5, <3>1, <3>2
      <4>2. QED
        BY <3>1, <4>1
    <3>3. CASE cat.constraints[n].column # old
      BY <1>3, <1>5, <3>1, <3>3
    <3>4. QED
      BY <3>1, <3>2, <3>3
  <2>2. QED
    BY <2>1 DEF AddedAgree
<1>8. \A s \in Columns : Own(kn.schema_columns, s) =>
         /\ NameNow(kn2.schema_columns, s) =
               IF NameNow(kn.schema_columns, s) = old THEN new
               ELSE NameNow(kn.schema_columns, s)
         /\ new # s => Own(kn2.schema_columns, s)
  BY <1>1, <1>2, MoveFollows
<1>9. /\ DOMAIN kn.schema_columns \subseteq DOMAIN kn2.schema_columns
      /\ \A o \in DOMAIN kn2.schema_columns :
            \/ kn2.schema_columns[o] = new
            \/ /\ o \in DOMAIN kn.schema_columns /\ kn.schema_columns[o] # old
               /\ kn2.schema_columns[o] = kn.schema_columns[o]
  BY <1>1, <1>2, Move
<1>10. \A s \in SchemaColumns : s \in Columns /\ Own(kn.schema_columns, s)
  BY <1>1, ChecksAssumption DEF ColumnsAgree, Own
<1>11. ColumnsAgree(cat2, kn2)
  <2>1. ASSUME NEW s \in DOMAIN kn2.schema_columns, kn2.schema_columns[s] # NoName
        PROVE  kn2.schema_columns[s] \in cat2.columns
    BY <1>1, <1>2, <1>9, <2>1 DEF ColumnsAgree
  <2>2. ASSUME NEW s \in SchemaColumns \ DOMAIN kn2.schema_columns
        PROVE  s \in cat2.columns /\ Own(kn2.schema_columns, s)
    <3>1. s \notin DOMAIN kn.schema_columns /\ s \in cat.columns
      BY <1>1, <1>9 DEF ColumnsAgree
    <3>2. NameNow(kn2.schema_columns, s) = s /\ NameNow(kn.schema_columns, s) = s
      BY <3>1 DEF NameNow
    <3>3. s # old /\ s # new
      BY <1>1, <1>8, <1>10, <3>1, <3>2
    <3>4. QED
      BY <1>2, <1>8, <1>10, <3>1, <3>3
  <2>3. QED
    BY <2>1, <2>2 DEF ColumnsAgree
<1>12. ASSUME ~born, NEW n \in DOMAIN SchemaChecks
       PROVE  CheckAgrees(cat2, kn2, n)
  <2>1. CheckAgrees(cat, kn, n) /\ SchemaChecks[n].column \in SchemaColumns
    BY <1>12, ChecksAssumption DEF Agree
  <2> DEFINE s == SchemaChecks[n].column
             now == NameNow(kn.schema_checks, n)
  <2>2. /\ NameNow(kn2.schema_checks, n) = now
        /\ NameNow(kn2.schema_columns, s) =
              IF NameNow(kn.schema_columns, s) = old THEN new ELSE NameNow(kn.schema_columns, s)
    BY <1>2, <1>8, <1>10, <2>1
  <2>3. ASSUME now \in DOMAIN cat.constraints
        PROVE  /\ cat2.constraints[now].column =
                     IF cat.constraints[now].column = old THEN new
                     ELSE cat.constraints[now].column
               /\ cat2.constraints[now].valid = cat.constraints[now].valid
    <3> HIDE DEF now
    <3>1. CASE cat.constraints[now].column = old
      <4>1. cat2.constraints[now] = [column |-> new, valid |-> cat.constraints[now].valid]
        BY <1>3, <2>3, <3>1
      <4>2. QED
        BY <3>1, <4>1
    <3>2. CASE cat.constraints[now].column # old
      <4>1. cat2.constraints[now] = cat.constraints[now]
        BY <1>3, <2>3, <3>2
      <4>2. QED
        BY <3>2, <4>1
    <3>3. QED
      BY <3>1, <3>2
  <2>4. SUFFICES ASSUME NameNow(kn2.schema_columns, s) # NoName
                 PROVE  /\ Own(kn2.schema_checks, n)
                        /\ now # NoName =>
                              /\ now \in DOMAIN cat2.constraints \ DOMAIN kn2.checks
                              /\ cat2.constraints[now].column = NameNow(kn2.schema_columns, s)
                              /\ SchemaChecks[n].valid => cat2.constraints[now].valid
    BY <2>2 DEF CheckAgrees
  <2>5. NameNow(kn.schema_columns, s) # NoName
    BY <1>1, <2>2, <2>4
  <2>6. /\ Own(kn.schema_checks, n)
        /\ now # NoName =>
              /\ now \in DOMAIN cat.constraints \ DOMAIN kn.checks
              /\ cat.constraints[now].column = NameNow(kn.schema_columns, s)
              /\ SchemaChecks[n].valid => cat.constraints[now].valid
    BY <2>1, <2>5 DEF CheckAgrees
  <2>7. QED
    BY <1>2, <1>3, <1>5, <2>2, <2>3, <2>6
<1>13. QED
  BY <1>4, <1>6, <1>7, <1>11, <1>12 DEF Agree
-----------------------------------------------------------------------------
(* The run *)

LEMMA ChecksInvInit == ChecksInit => ChecksInv
<1> SUFFICES ASSUME ChecksInit
             PROVE  ChecksInv
  OBVIOUS
<1>1. /\ catalog.columns = SchemaColumns
      /\ catalog = [columns |-> catalog.columns, constraints |-> catalog.constraints]
      /\ born => catalog.constraints = <<>>
      /\ ~born => catalog.constraints = SchemaChecks
      /\ born \in BOOLEAN
  BY DEF ChecksInit
<1>2. known = [checks |-> <<>>, schema_checks |-> <<>>, schema_columns |-> <<>>]
  BY DEF ChecksInit
<1>3. catalog.constraints \in
         [DOMAIN catalog.constraints -> [column : Columns \cup {NoName}, valid : BOOLEAN]]
      /\ DOMAIN catalog.constraints \subseteq Constraints
  <2>1. CASE born
    <3>1. catalog.constraints = <<>>
      BY <1>1, <2>1
    <3>2. DOMAIN catalog.constraints = {}
      BY <3>1
    <3>3. \A T : <<>> \in [DOMAIN <<>> -> T]
      OBVIOUS
    <3>4. QED
      BY <3>1, <3>2, <3>3
  <2>2. CASE ~born
    <3>1. SchemaChecks \in [DOMAIN SchemaChecks -> [column : Columns \cup {NoName}, valid : BOOLEAN]]
      BY ChecksAssumption
    <3>2. QED
      BY <1>1, <2>2, <3>1, ChecksAssumption
  <2>3. QED
    BY <2>1, <2>2
<1>4. IsCatalog(catalog)
  BY <1>1, <1>3, ChecksAssumption DEF IsCatalog
<1>5. IsRecord(known)
  BY <1>2 DEF IsRecord, IsRenaming
<1>6. AddedAgree(catalog, known) /\ ColumnsAgree(catalog, known)
  BY <1>1, <1>2 DEF AddedAgree, ColumnsAgree, Own
<1>7. ASSUME ~born, NEW n \in DOMAIN SchemaChecks
      PROVE  CheckAgrees(catalog, known, n)
  <2>1. /\ NameNow(known.schema_checks, n) = n /\ Own(known.schema_checks, n)
        /\ NameNow(known.schema_columns, SchemaChecks[n].column) = SchemaChecks[n].column
        /\ DOMAIN known.checks = {}
    BY <1>2 DEF NameNow, Own
  <2>2. QED
    BY <1>1, <1>7, <2>1 DEF CheckAgrees
<1>8. Agree(catalog, known)
  BY <1>4, <1>5, <1>6, <1>7 DEF Agree
<1>9. began = [catalog |-> catalog, known |-> known]
  BY DEF ChecksInit
<1>10. QED
  BY <1>8, <1>9 DEF ChecksInv

LEMMA ChecksInvNext ==
    ASSUME ~UnnamedChecks, ~GoneNamesReused, ChecksInv, [ChecksNext]_checkVars
    PROVE  ChecksInv'
<1>1. /\ Agree(catalog, known) /\ Agree(began.catalog, began.known)
      /\ began = [catalog |-> began.catalog, known |-> began.known]
      /\ catalog = [columns |-> catalog.columns, constraints |-> catalog.constraints]
      /\ known = [checks |-> known.checks, schema_checks |-> known.schema_checks,
                  schema_columns |-> known.schema_columns]
      /\ catalog.columns \subseteq Columns /\ DOMAIN catalog.constraints \subseteq Constraints
  BY DEF ChecksInv, Agree, IsCatalog, IsRecord
<1>2. ASSUME Alter, Agree(catalog', known')
      PROVE  ChecksInv'
  <2>1. began' = began /\ born' = born
    BY <1>2 DEF Alter
  <2>2. Agree(catalog, known)'
    BY <1>2, <2>1 DEF Agree, CheckAgrees
  <2>3. Agree(began.catalog, began.known)'
    BY <1>1, <2>1 DEF Agree, CheckAgrees
  <2>4. QED
    BY <1>1, <2>1, <2>2, <2>3 DEF ChecksInv
<1>3. ASSUME NEW name \in Constraints \cup {NoName}, NEW column \in catalog.columns,
             NEW notValid \in BOOLEAN, AddCheck(name, column, notValid)
      PROVE  ChecksInv'
  <2> DEFINE check == [column |-> column, valid |-> ~notValid]
  <2>1. /\ name \in Constraints \ DOMAIN catalog.constraints
        /\ catalog' = [catalog EXCEPT !.constraints = With(@, name, check)]
        /\ known' = [known EXCEPT !.checks = With(@, name, check)]
    BY <1>3 DEF AddCheck
  <2>2. /\ check \in [column : Columns \cup {NoName}, valid : BOOLEAN]
        /\ check.column \in Columns
    BY <1>1
  <2> HIDE DEF check
  <2>3. /\ catalog' = [columns |-> catalog.columns,
                       constraints |-> With(catalog.constraints, name, check)]
        /\ known' = [checks |-> With(known.checks, name, check),
                     schema_checks |-> known.schema_checks,
                     schema_columns |-> known.schema_columns]
    BY <1>1, <2>1
  <2>4. Agree(catalog', known')
    BY <1>1, <2>1, <2>2, <2>3, AddConstraintAgrees
  <2>5. QED
    BY <1>2, <1>3, <2>4 DEF AddCheck
<1>4. ASSUME NEW name \in Constraints, AddOther(name)
      PROVE  ChecksInv'
  <2>1. /\ name \in Constraints \ DOMAIN catalog.constraints /\ known' = known
        /\ catalog' = [columns |-> catalog.columns,
                       constraints |-> With(catalog.constraints, name, Other)]
    BY <1>1, <1>4 DEF AddOther
  <2>2. Other \in [column : Columns \cup {NoName}, valid : BOOLEAN]
    BY DEF Other
  <2>3. Agree(catalog', known')
    BY <1>1, <2>1, <2>2, AddConstraintAgrees
  <2>4. QED
    BY <1>2, <1>4, <2>3 DEF AddOther
<1>5. ASSUME NEW name \in DOMAIN catalog.constraints, ValidateConstraint(name)
      PROVE  ChecksInv'
  <2>1. /\ catalog' = [catalog EXCEPT !.constraints =
                          [catalog.constraints EXCEPT ![name].valid = TRUE]]
        /\ known' = IF name \in DOMAIN known.checks
                    THEN [known EXCEPT !.checks = [known.checks EXCEPT ![name].valid = TRUE]]
                    ELSE known
    BY <1>5 DEF ValidateConstraint
  <2>2. catalog' = [columns |-> catalog.columns,
                    constraints |-> [catalog.constraints EXCEPT ![name].valid = TRUE]]
    BY <1>1, <2>1
  <2>3. known' = IF name \in DOMAIN known.checks
                 THEN [checks |-> [known.checks EXCEPT ![name].valid = TRUE],
                       schema_checks |-> known.schema_checks,
                       schema_columns |-> known.schema_columns]
                 ELSE known
    <3> DEFINE validated == [known.checks EXCEPT ![name].valid = TRUE]
    <3> HIDE DEF validated
    <3>1. CASE name \in DOMAIN known.checks
      <4>1. known' = [known EXCEPT !.checks = validated]
        BY <2>1, <3>1 DEF validated
      <4>2. known' = [checks |-> validated, schema_checks |-> known.schema_checks,
                      schema_columns |-> known.schema_columns]
        BY <1>1, <4>1
      <4>3. QED
        BY <3>1, <4>2 DEF validated
    <3>2. CASE name \notin DOMAIN known.checks
      BY <2>1, <3>2
    <3>3. QED
      BY <3>1, <3>2
  <2>4. Agree(catalog', known')
    BY <1>1, <2>2, <2>3, ValidateAgrees
  <2>5. QED
    BY <1>2, <1>5, <2>4 DEF ValidateConstraint
<1>6. ASSUME NEW name \in DOMAIN catalog.constraints, DropConstraint(name)
      PROVE  ChecksInv'
  <2>1. /\ catalog' = [columns |-> catalog.columns,
                       constraints |-> Without(catalog.constraints, name)]
        /\ known' = IF name \in DOMAIN known.checks
                    THEN [checks |-> Without(known.checks, name),
                          schema_checks |-> known.schema_checks,
                          schema_columns |-> known.schema_columns]
                    ELSE [checks |-> known.checks,
                          schema_checks |-> move(known.schema_checks, name, NoName),
                          schema_columns |-> known.schema_columns]
    BY <1>1, <1>6 DEF DropConstraint
  <2>2. Agree(catalog', known')
    BY <1>1, <2>1, DropConstraintAgrees
  <2>3. QED
    BY <1>2, <1>6, <2>2 DEF DropConstraint
<1>7. ASSUME NEW old \in DOMAIN catalog.constraints, NEW new \in Constraints,
             RenameConstraint(old, new)
      PROVE  ChecksInv'
  <2>1. /\ new \in Constraints \ DOMAIN catalog.constraints
        /\ \A n \in DOMAIN known.schema_checks : known.schema_checks[n] # new
        /\ catalog' = [columns |-> catalog.columns,
                       constraints |-> With(Without(catalog.constraints, old), new,
                                            catalog.constraints[old])]
        /\ known' = IF old \in DOMAIN known.checks
                    THEN [checks |-> With(Without(known.checks, old), new, known.checks[old]),
                          schema_checks |-> known.schema_checks,
                          schema_columns |-> known.schema_columns]
                    ELSE [checks |-> known.checks,
                          schema_checks |-> move(known.schema_checks, old, new),
                          schema_columns |-> known.schema_columns]
    BY <1>1, <1>7 DEF RenameConstraint
  <2>2. Agree(catalog', known')
    BY <1>1, <2>1, RenameConstraintAgrees
  <2>3. QED
    BY <1>2, <1>7, <2>2 DEF RenameConstraint
<1>8. ASSUME NEW column \in Columns, AddColumn(column)
      PROVE  ChecksInv'
  <2>1. /\ catalog' = [columns |-> catalog.columns \cup {column},
                       constraints |-> catalog.constraints]
        /\ known' = known
    BY <1>1, <1>8 DEF AddColumn
  <2>2. Agree(catalog', known')
    BY <1>1, <2>1, AddColumnAgrees
  <2>3. QED
    BY <1>2, <1>8, <2>2 DEF AddColumn
<1>9. ASSUME NEW column \in catalog.columns, DropColumn(column)
      PROVE  ChecksInv'
  <2>1. /\ catalog' = [columns |-> catalog.columns \ {column},
                       constraints |-> Left(catalog.constraints, column)]
        /\ known' = [checks |-> Left(known.checks, column),
                     schema_checks |-> known.schema_checks,
                     schema_columns |-> move(known.schema_columns, column, NoName)]
    BY <1>1, <1>9 DEF DropColumn, Left
  <2>2. Agree(catalog', known')
    BY <1>1, <2>1, DropColumnAgrees
  <2>3. QED
    BY <1>2, <1>9, <2>2 DEF DropColumn
<1>10. ASSUME NEW old \in catalog.columns, NEW new \in Columns, RenameColumn(old, new)
       PROVE  ChecksInv'
  <2>1. /\ new \in Columns \ catalog.columns
        /\ catalog' = [columns |-> (catalog.columns \ {old}) \cup {new},
                       constraints |-> Moved(catalog.constraints, old, new)]
        /\ known' = [checks |-> Moved(known.checks, old, new),
                     schema_checks |-> known.schema_checks,
                     schema_columns |-> move(known.schema_columns, old, new)]
    BY <1>1, <1>10 DEF RenameColumn, Moved
  <2>2. Agree(catalog', known')
    BY <1>1, <2>1, RenameColumnAgrees
  <2>3. QED
    BY <1>2, <1>10, <2>2 DEF RenameColumn
<1>11. CASE RollbackAlters
  <2>1. Agree(catalog', known')
    BY <1>1, <1>11 DEF RollbackAlters
  <2>2. QED
    BY <1>2, <1>11, <2>1 DEF RollbackAlters
<1>12. CASE NextMigration
  <2>1. /\ began' = [catalog |-> catalog, known |-> known]
        /\ catalog' = catalog /\ known' = known /\ born' = born
    BY <1>12 DEF NextMigration
  <2>2. Agree(catalog, known)'
    BY <1>1, <2>1 DEF Agree, CheckAgrees
  <2>3. began'.catalog = catalog' /\ began'.known = known'
    BY <2>1
  <2>4. QED
    BY <2>1, <2>2, <2>3 DEF ChecksInv
<1>13. CASE UNCHANGED checkVars
  BY <1>13 DEF ChecksInv, Agree, CheckAgrees, checkVars
<1>14. QED
  BY <1>3, <1>4, <1>5, <1>6, <1>7, <1>8, <1>9, <1>10, <1>11, <1>12, <1>13 DEF ChecksNext

(* What the analysis takes for proved, a valid check of the table proves.  *)
LEMMA AgreementProves == ChecksInv => ProvedColumnsAreChecked
<1> SUFFICES ASSUME ChecksInv, NEW column \in catalog.columns, proven_not_null(column)
             PROVE  \E name \in DOMAIN catalog.constraints :
                       catalog.constraints[name] = [column |-> column, valid |-> TRUE]
  BY DEF ProvedColumnsAreChecked
<1>1. /\ IsCatalog(catalog) /\ IsRecord(known) /\ AddedAgree(catalog, known)
      /\ ColumnsAgree(catalog, known)
      /\ ~born => \A n \in DOMAIN SchemaChecks : CheckAgrees(catalog, known, n)
      /\ column \in Columns /\ column # NoName
  BY ChecksAssumption DEF ChecksInv, Agree, IsCatalog
<1>2. CASE proves_not_null(column)
  BY <1>1, <1>2 DEF proves_not_null, AddedAgree
<1>3. CASE ~proves_not_null(column)
  <2>1. ~born
    BY <1>3 DEF proven_not_null
  <2>2. PICK name \in DOMAIN SchemaChecks :
           /\ schema_check_kept(name)
           /\ SchemaChecks[name] =
                [column |-> schema_name(known.schema_columns, column), valid |-> TRUE]
    BY <1>3 DEF proven_not_null
  <2> DEFINE s == schema_name(known.schema_columns, column)
             now == NameNow(known.schema_checks, name)
  <2>3. /\ SchemaChecks[name].column = s /\ SchemaChecks[name].valid
        /\ SchemaChecks[name].column \in SchemaColumns
        /\ SchemaColumns \subseteq Columns /\ name \in Constraints
        /\ NoName \notin Columns /\ NoName \notin Constraints
    BY <2>2, ChecksAssumption
  <2>4. NameNow(known.schema_columns, s) = column
    <3>1. IsRenaming(known.schema_columns, Columns)
      BY <1>1 DEF IsRecord
    <3>2. \/ s \in DOMAIN known.schema_columns /\ known.schema_columns[s] = column
          \/ s = column /\ column \notin DOMAIN known.schema_columns
      BY <1>1, <2>3, <3>1, SchemaName
    <3>3. QED
      BY <3>2 DEF NameNow
  <2>5. now # NoName
    BY <2>2, <2>3 DEF NameNow, schema_check_kept
  <2>6. /\ now \in DOMAIN catalog.constraints
        /\ catalog.constraints[now].column = column
        /\ catalog.constraints[now].valid
    BY <1>1, <2>1, <2>3, <2>4, <2>5 DEF CheckAgrees
  <2>7. catalog.constraints[now] \in [column : Columns \cup {NoName}, valid : BOOLEAN]
    BY <1>1, <2>6 DEF IsCatalog
  <2>8. catalog.constraints[now] = [column |-> column, valid |-> TRUE]
    BY <2>6, <2>7
  <2>9. QED
    BY <2>6, <2>8
<1>4. QED
  BY <1>2, <1>3

(* Whatever a run adds, validates, renames, drops and rolls back, in any   *)
(* number of statements and migrations, the analysis reads SET NOT NULL as *)
(* catalog work only where a valid check of the table proves it, as long as*)
(* the run names its checks and gives none the name of one that went with  *)
(* its column.                                                             *)
THEOREM ProvedColumnsAreCheckedHolds ==
    ~UnnamedChecks /\ ~GoneNamesReused => (ChecksSpec => []ProvedColumnsAreChecked)
<1> SUFFICES ASSUME ~UnnamedChecks, ~GoneNamesReused
             PROVE  ChecksSpec => []ProvedColumnsAreChecked
  OBVIOUS
<1>1. ChecksInv /\ [ChecksNext]_checkVars => ChecksInv'
  BY ChecksInvNext
<1>2. QED
  BY <1>1, ChecksInvInit, AgreementProves, PTL DEF ChecksSpec
=============================================================================
