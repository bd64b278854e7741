----------------------------- MODULE MCTurnLoop -----------------------------
(***************************************************************************)
(* Teams for TLC: who holds what, for each run.                            *)
(***************************************************************************)
EXTENDS TurnLoop, TLC

Three == [s \in Sides |-> 3]
ThreeAndTwo == [s \in Sides |-> IF s = "p1" THEN 3 ELSE 2]

ItemMoves == {"hit", "phaze"}
SwapMoves == {"hit", "pivot", "swap", "revive"}

Nobody == {}
P1Lead == {<<"p1", 0>>}
P2Lead == {<<"p2", 0>>}
P2Second == {<<"p2", 1>>}
Leads == P1Lead \cup P2Lead
=============================================================================
