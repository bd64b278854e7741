---------------------------- MODULE DoubleOracle ----------------------------
(***************************************************************************)
(* double_oracle of crates/vgc-solver/src/double_oracle.rs: a zero-sum     *)
(* game is solved on small supports, and a support grows by the best       *)
(* response outside it until neither side has one.  A call is one run of   *)
(* the loop, an iteration one step.  Probabilities and the value are       *)
(* integers over the common Weight; the code works in f64 and calls an     *)
(* improvement below 1e-9 none.  The linear program is any saddle point of *)
(* the supports, which is what ZeroSum shows of solve_zero_sum.            *)
(***************************************************************************)
EXTENDS Integers, FiniteSets, FiniteSetsExt

CONSTANTS
    RowCount, ColCount,
    Games,        \* the matrices, row -> column -> payoff to the row player
    Seeds,        \* the initial supports a caller may pass, for either side
    Weight        \* a probability of 1

ASSUME DoubleOracleAssumption ==
    /\ RowCount \in Nat /\ ColCount \in Nat
    /\ Weight \in Nat \ {0}
    /\ \A S \in Seeds : IsFiniteSet(S)

Rows == 1 .. RowCount
Cols == 1 .. ColCount

VARIABLES
    pc,           \* "called", "loop", then what it returns: "some" or "none"
    game,
    rows, cols,   \* row_support, col_support
    cache,        \* the cells payoff has been paid for
    lp,           \* the last sub-game's solution
    iterations,
    converged

oracle == <<pc, game, rows, cols, cache, lp, iterations, converged>>

\* iteration_cap
Cap == IF RowCount + ColCount > 8 THEN RowCount + ColCount ELSE 8

Init ==
    /\ pc = "called" /\ game \in Games
    /\ rows \in Seeds /\ cols \in Seeds
    /\ cache = {} /\ lp = <<>> /\ iterations = 0 /\ converged = FALSE

\* The checks of the arguments.
Validate ==
    /\ pc = "called"
    /\ pc' = IF /\ RowCount # 0 /\ ColCount # 0
                /\ rows # {} /\ cols # {}
                /\ rows \subseteq Rows /\ cols \subseteq Cols
             THEN "loop" ELSE "none"
    /\ UNCHANGED <<game, rows, cols, cache, lp, iterations, converged>>

\* should_abort, polled at the head of the loop.
Abort ==
    /\ pc = "loop" /\ pc' = "none"
    /\ UNCHANGED <<game, rows, cols, cache, lp, iterations, converged>>

\* What the row player gets, times Weight, of row i against the mix y, and of
\* column j against the mix x.
RowPay(g, y, i) == MapThenSumSet(LAMBDA j : y[j] * g[i][j], DOMAIN y)
ColPay(g, x, j) == MapThenSumSet(LAMBDA i : x[i] * g[i][j], DOMAIN x)

Mixes(S) == {x \in [S -> 0 .. Weight] : MapThenSumSet(LAMBDA i : x[i], S) = Weight}

\* solve_zero_sum of the sub-matrix: mixes that hold the other side to one
\* same value.
RowMixes(v) == {x \in Mixes(rows) : \A j \in cols : v <= ColPay(game, x, j)}
ColMixes(v) == {y \in Mixes(cols) : \A i \in rows : RowPay(game, y, i) <= v}
Values == {RowPay(game, y, i) : y \in Mixes(cols), i \in rows}
Solutions == UNION {{[row |-> x, col |-> y, value |-> v] : x \in RowMixes(v), y \in ColMixes(v)} : v \in Values}

\* It fails: the payoffs of the sub-matrix are paid, and nothing is returned.
LpFails ==
    /\ pc = "loop" /\ pc' = "none"
    /\ cache' = cache \cup (rows \X cols)
    /\ UNCHANGED <<game, rows, cols, lp, iterations, converged>>

\* The actions outside the support that do better against the other side's
\* mix, and what they add to it: nothing, or the first of the best.
BetterRows(s) == {i \in Rows \ rows : ~(RowPay(game, s.col, i) <= s.value)}
BetterCols(s) == {j \in Cols \ cols : ~(s.value <= ColPay(game, s.row, j))}

FirstBest(S, pay(_)) ==
    {i \in S : \A k \in S : pay(k) < pay(i) \/ (pay(k) = pay(i) /\ i <= k)}
RowAdds(s) ==
    IF BetterRows(s) = {} THEN {{}}
    ELSE {{i} : i \in FirstBest(BetterRows(s), LAMBDA i : RowPay(game, s.col, i))}
ColAdds(s) ==
    IF BetterCols(s) = {} THEN {{}}
    ELSE {{j} : j \in FirstBest(BetterCols(s), LAMBDA j : -ColPay(game, s.row, j))}

\* The cells an iteration asks for: the sub-matrix, and every action of one
\* side against the support of the other.
Asked == (Rows \X cols) \cup (rows \X Cols)

\* Mutated form: only the row player's replies are looked at.
Settled_OneSide(s) == BetterRows(s) = {}

Settled(s) == BetterRows(s) = {} /\ BetterCols(s) = {}

\* Mutated form: the action found is not added.
Grown_Forgets(support, add) == support

Grown(support, add) == support \cup add

Converge ==
    /\ pc = "loop"
    /\ \E s \in Solutions : Settled(s) /\ lp' = s
    /\ cache' = cache \cup Asked
    /\ pc' = "some" /\ converged' = TRUE
    /\ UNCHANGED <<game, rows, cols, iterations>>

Expand ==
    /\ pc = "loop"
    /\ \E s \in Solutions :
          /\ ~Settled(s) /\ lp' = s
          /\ \E add \in RowAdds(s) : rows' = Grown(rows, add)
          /\ \E add \in ColAdds(s) : cols' = Grown(cols, add)
    /\ cache' = cache \cup Asked
    /\ iterations' = iterations + 1
    /\ pc' = IF iterations' >= Cap THEN "some" ELSE "loop"
    /\ UNCHANGED <<game, converged>>

Next == Validate \/ Abort \/ LpFails \/ Converge \/ Expand

Spec == Init /\ [][Next]_oracle
-----------------------------------------------------------------------------
(* Properties.                                                              *)

TypeOK ==
    /\ pc \in {"called", "loop", "some", "none"}
    /\ game \in Games
    /\ iterations \in Nat /\ converged \in BOOLEAN
    /\ pc \in {"loop", "some"} => rows \subseteq Rows /\ cols \subseteq Cols

\* "each action not in the support has been best-responded against and
\* rejected" (double_oracle.rs:64-65): a converged answer is an equilibrium of the
\* whole game, not only of the supports it was solved on.
ConvergedIsNash ==
    converged =>
        /\ \A i \in Rows : RowPay(game, lp.col, i) <= lp.value
        /\ \A j \in Cols : lp.value <= ColPay(game, lp.row, j)

\* The cap "should never bind" (double_oracle.rs:256): every answer is a
\* converged one, since each iteration before it made a support grow.
CapNeverBinds == pc = "some" => converged

\* row_values and col_values are "free after convergence"
\* (double_oracle.rs:81-82): no cell they read is still to be paid.
AlreadyPaid ==
    converged => /\ \A i \in Rows : \A j \in DOMAIN lp.col : <<i, j>> \in cache
                 /\ \A j \in Cols : \A i \in DOMAIN lp.row : <<i, j>> \in cache
=============================================================================
