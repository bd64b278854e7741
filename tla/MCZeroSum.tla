----------------------------- MODULE MCZeroSum -----------------------------
EXTENDS ZeroSum

\* A loss, a draw, and a win worth more than a loss costs.
Outcomes == {-1, 0, 2}
=============================================================================
