------------------------------ MODULE ZeroSum ------------------------------
(***************************************************************************)
(* The linear program behind every node of the solver: solve_zero_sum of   *)
(* crates/vgc-solver/src/nash.rs, a tableau simplex with Bland's rule, one *)
(* pivot a step.  The code computes in f64 and reads an EPS as zero; here  *)
(* the arithmetic is exact: every entry of the tableau stands over the     *)
(* common denominator `den`, in lowest terms.                              *)
(***************************************************************************)
EXTENDS Integers, Sequences, FiniteSets, FiniteSetsExt

CONSTANTS
    MaxIterations,      \* MAX_ITERATIONS
    MaxRows, MaxCols,   \* bounds: rows and columns of the matrix
    Payoffs             \* bound: its entries

ASSUME ZeroSumAssumption ==
    /\ MaxIterations \in Nat \ {0}
    /\ MaxRows \in Nat \ {0} /\ MaxCols \in Nat \ {0}
    /\ Payoffs \subseteq Int /\ Payoffs # {} /\ IsFiniteSet(Payoffs)

VARIABLES
    answer,       \* "pivot", then "some" or "none": what solve_zero_sum returns
    matrix,       \* row -> column -> payoff to the row player
    tableau,      \* the tableau times den; the last row is the objective, the last column the rhs
    den,
    basis,        \* row -> the basic variable of that row
    pivots,       \* iterations
    visited       \* history: the bases there have been

zerosum == <<answer, matrix, tableau, den, basis, pivots, visited>>

\* m and n of the code; the variables are n columns and then m slacks.
Height(g) == Len(g)
Width(g)  == Len(g[1])
Vars(g)   == 1 .. Width(g) + Height(g)
Rhs(g)    == Width(g) + Height(g) + 1
Objective(g) == Height(g) + 1

\* Mutated form: the least entry is raised to 0 only.
Shift_ToZero(g) == -Min({g[i][j] : i \in 1 .. Height(g), j \in 1 .. Width(g)})

\* Every entry is raised to at least 1.
Shift(g) ==
    LET least == Min({g[i][j] : i \in 1 .. Height(g), j \in 1 .. Width(g)})
    IN  IF least < 1 THEN 1 - least ELSE 0

Tableau(g) ==
    [r \in 1 .. Objective(g) |-> [c \in 1 .. Rhs(g) |->
        IF r = Objective(g) THEN IF c <= Width(g) THEN -1 ELSE 0
        ELSE IF c <= Width(g) THEN g[r][c] + Shift(g)
        ELSE IF c = Width(g) + r \/ c = Rhs(g) THEN 1 ELSE 0]]

SimplexInit ==
    /\ \E h \in 1 .. MaxRows, w \in 1 .. MaxCols : matrix \in [1 .. h -> [1 .. w -> Payoffs]]
    /\ answer = "pivot" /\ tableau = Tableau(matrix) /\ den = 1
    /\ basis = [r \in 1 .. Height(matrix) |-> Width(matrix) + r]
    /\ pivots = 0 /\ visited = {basis}

\* Mutated form: a column the objective has no use for.
Improving_EitherSign(g, tab) == {c \in Vars(g) : tab[Objective(g)][c] # 0}

Improving(g, tab) == {c \in Vars(g) : tab[Objective(g)][c] < 0}

\* Row r comes before q: the ratio rhs / entry is less, or the same and the
\* basic variable is lower.
Prefers(g, tab, b, c, r, q) ==
    LET over(i, j) == tab[i][Rhs(g)] * tab[j][c]
    IN  over(r, q) < over(q, r) \/ (over(r, q) = over(q, r) /\ b[r] < b[q])

\* The row that comes before every other.
Leaving(g, tab, b, c) ==
    LET open == {r \in 1 .. Height(g) : tab[r][c] > 0}
    IN  {r \in open : \A q \in open \ {r} : Prefers(g, tab, b, c, r, q)}

\* The row is divided by the pivot, and its multiple taken off every other:
\* here over the denominator d times the pivot.
Eliminated(tab, d, r, c) ==
    [q \in DOMAIN tab |-> [x \in DOMAIN tab[q] |->
        IF q = r THEN d * tab[r][x] ELSE tab[q][x] * tab[r][c] - tab[q][c] * tab[r][x]]]

\* What all entries and the denominator d have in common.
Common(tab, d) ==
    Max({k \in 1 .. d : d % k = 0 /\ \A q \in DOMAIN tab : \A x \in DOMAIN tab[q] : tab[q][x] % k = 0})

Lowest(tab, k) == [q \in DOMAIN tab |-> [x \in DOMAIN tab[q] |-> tab[q][x] \div k]]

Pivot(r, c) ==
    LET raw  == Eliminated(tableau, den, r, c)
        over == den * tableau[r][c]
        k    == Common(raw, over)
    IN  /\ tableau' = Lowest(raw, k)
        /\ den' = over \div k
        /\ basis' = [basis EXCEPT ![r] = c]
        /\ pivots' = pivots + 1
        /\ visited' = visited \cup {basis'}

Step ==
    LET c == Min(Improving(matrix, tableau))
    IN  /\ answer = "pivot" /\ pivots < MaxIterations /\ Improving(matrix, tableau) # {}
        /\ IF Leaving(matrix, tableau, basis, c) = {}
           THEN answer' = "none" /\ UNCHANGED <<tableau, den, basis, pivots, visited>>
           ELSE (\E r \in Leaving(matrix, tableau, basis, c) : Pivot(r, c)) /\ UNCHANGED answer
        /\ UNCHANGED matrix

Total(numbers) ==
    LET upTo[i \in 0 .. Len(numbers)] == IF i = 0 THEN 0 ELSE upTo[i - 1] + numbers[i]
    IN  upTo[Len(numbers)]

\* w and x': the two strategies, before they are divided by their sums.
ColWeights(g, tab, b) ==
    [j \in 1 .. Width(g) |-> IF \E r \in DOMAIN b : b[r] = j
                             THEN tab[CHOOSE r \in DOMAIN b : b[r] = j][Rhs(g)] ELSE 0]
RowWeights(g, tab) == [i \in 1 .. Height(g) |-> tab[Objective(g)][Width(g) + i]]

\* The tableau is an optimum, or the loop ends at its cap: the strategies are
\* read off either way.
Finish ==
    /\ answer = "pivot" /\ (pivots = MaxIterations \/ Improving(matrix, tableau) = {})
    /\ answer' = IF \/ Total(ColWeights(matrix, tableau, basis)) <= 0
                    \/ Total(RowWeights(matrix, tableau)) <= 0
                 THEN "none" ELSE "some"
    /\ UNCHANGED <<matrix, tableau, den, basis, pivots, visited>>

SimplexNext == Step \/ Finish

SimplexSpec == SimplexInit /\ [][SimplexNext]_zerosum
-----------------------------------------------------------------------------
(* Properties.                                                              *)

\* "guaranteed termination, no cycling" (nash.rs:144): no pivot comes back to
\* a basis there has been.
NeverBack == [][answer' = answer => basis' \notin visited]_zerosum

\* A well-formed matrix has an equilibrium, so it "never returns None" under
\* the cap (nash.rs:82-85), nor at it; and under the cap the answer is one:
\* whatever the row player does, the column strategy holds it to the value, and
\* the other way round.  With its value den / sum of w, less the shift.
SaddlePoint ==
    /\ answer # "none"
    /\ answer = "some" /\ (pivots < MaxIterations \/ Improving(matrix, tableau) = {}) =>
          LET W == ColWeights(matrix, tableau, basis)
              X == RowWeights(matrix, tableau)
              worth == den - Shift(matrix) * Total(W)     \* the value, times the sum of w
          IN  /\ Total(W) = Total(X)
              /\ \A j \in 1 .. Width(matrix) :
                    W[j] >= 0 /\ Total([i \in 1 .. Height(matrix) |-> X[i] * matrix[i][j]]) >= worth
              /\ \A i \in 1 .. Height(matrix) :
                    X[i] >= 0 /\ Total([j \in 1 .. Width(matrix) |-> W[j] * matrix[i][j]]) <= worth
=============================================================================
