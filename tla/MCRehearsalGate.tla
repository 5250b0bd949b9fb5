-------------------------- MODULE MCRehearsalGate --------------------------
(* Two versioned migrations and two repeatables, two editions each; a's    *)
(* first edition runs outside a transaction, b's second has no down step.  *)
EXTENDS RehearsalGate

MCVersioned == <<"a", "b">>
MCRepeatable == <<"q", "r">>
MCDestructive == {[id |-> "b", edition |-> 1], [id |-> "b", edition |-> 2],
                  [id |-> "r", edition |-> 2], [id |-> "a", edition |-> 2]}
MCBare == {[id |-> "a", edition |-> 1]}
MCNoDown == {[id |-> "b", edition |-> 2]}
=============================================================================
