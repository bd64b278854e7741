---------------------------- MODULE MCMoveLocks ----------------------------
(* A status move that heals, a sound attack and Baton Pass.                 *)
EXTENDS MoveLocks

MCKits == {[item |-> "choice", tactics |-> FALSE], [item |-> "herb", tactics |-> FALSE],
           [item |-> "none", tactics |-> TRUE]}
=============================================================================
