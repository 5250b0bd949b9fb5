----------------------------- MODULE PoolCustody -----------------------------
(***************************************************************************)
(* What a connection pool promises its callers (docs/reference/            *)
(* execution.md, ConnectionPool), with no lock, counter, queue of waiters  *)
(* or deadline in it: a bounded stock of connections, each lent to one     *)
(* caller at a time.  ConnectionPool implements it.                        *)
(***************************************************************************)
EXTENDS Integers, FiniteSets

CONSTANTS Threads, Connections, MaxSize

VARIABLES
    ready,      \* connections a caller can be lent
    held,       \* connections lent, by caller
    returning,  \* connections given back and not ready yet
    admitted,   \* callers the pool has room to open a connection for
    shut        \* the pool is closed

vars == <<ready, held, returning, admitted, shut>>

Lent == UNION {held[t] : t \in Threads}
Load == Cardinality(ready \cup Lent \cup returning \cup admitted)

Init ==
    /\ ready = {}
    /\ held = [t \in Threads |-> {}]
    /\ returning = {}
    /\ admitted = {}
    /\ shut = FALSE

\* A ready connection is reused before a new one is opened.
Lend(t, c) ==
    /\ ~shut /\ c \in ready
    /\ ready' = ready \ {c}
    /\ held' = [held EXCEPT ![t] = @ \cup {c}]
    /\ UNCHANGED <<returning, admitted, shut>>

\* Room for a new connection is granted only while nothing is ready.
Admit(t) ==
    /\ ~shut /\ ready = {} /\ Load < MaxSize
    /\ t \notin admitted
    /\ admitted' = admitted \cup {t}
    /\ UNCHANGED <<ready, held, returning, shut>>

\* The connection could not be opened: its room is free again.
GiveUp(t) ==
    /\ t \in admitted
    /\ admitted' = admitted \ {t}
    /\ UNCHANGED <<ready, held, returning, shut>>

\* A new connection is lent to the caller it was opened for.
LendNew(t, c) ==
    /\ t \in admitted
    /\ c \notin ready \cup Lent \cup returning
    /\ admitted' = admitted \ {t}
    /\ held' = [held EXCEPT ![t] = @ \cup {c}]
    /\ UNCHANGED <<ready, returning, shut>>

Return(t, c) ==
    /\ c \in held[t]
    /\ held' = [held EXCEPT ![t] = @ \ {c}]
    /\ returning' = returning \cup {c}
    /\ UNCHANGED <<ready, admitted, shut>>

Restock(c) ==
    /\ ~shut /\ c \in returning
    /\ returning' = returning \ {c}
    /\ ready' = ready \cup {c}
    /\ UNCHANGED <<held, admitted, shut>>

Drop(c) ==
    /\ c \in returning
    /\ returning' = returning \ {c}
    /\ UNCHANGED <<ready, held, admitted, shut>>

Shut ==
    /\ shut' = TRUE
    /\ ready' = {}
    /\ UNCHANGED <<held, returning, admitted>>

Next ==
    \/ \E t \in Threads : Admit(t) \/ GiveUp(t)
    \/ \E t \in Threads, c \in Connections :
          Lend(t, c) \/ LendNew(t, c) \/ Return(t, c)
    \/ \E c \in Connections : Restock(c) \/ Drop(c)
    \/ Shut

Spec == Init /\ [][Next]_vars

=============================================================================
