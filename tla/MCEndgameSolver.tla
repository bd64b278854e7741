-------------------------- MODULE MCEndgameSolver --------------------------
(* Two open positions: `a` leads to `b`, and by one cell perhaps to the end; *)
(* `b` leads to the end or back to `a`, met again inside its own search.     *)
EXTENDS EndgameSolver, TLC

MCPosition == {"a", "b", "won"}
MCTerminal == {"won"}
MCMoves == "a" :> {{"b"}, {"b", "won"}} @@ "b" :> {{"a"}, {"won"}}

Plain == [depth |-> 2, budget |-> 99, root |-> "a", anytime |-> FALSE, deadline |-> FALSE,
          replays |-> FALSE, chance |-> FALSE, fails |-> FALSE,
          exactHp |-> FALSE]

MCRequests == {Plain, [Plain EXCEPT !.depth = 3],
    [Plain EXCEPT !.root = "b", !.anytime = TRUE, !.depth = 3, !.deadline = TRUE],
    [Plain EXCEPT !.anytime = TRUE, !.budget = 5, !.depth = 3, !.replays = TRUE],
    [Plain EXCEPT !.anytime = TRUE, !.budget = 2, !.depth = 3],
    [Plain EXCEPT !.chance = TRUE, !.anytime = TRUE],
    [Plain EXCEPT !.fails = TRUE], [Plain EXCEPT !.exactHp = TRUE]}

=============================================================================
