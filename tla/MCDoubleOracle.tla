--------------------------- MODULE MCDoubleOracle ---------------------------
EXTENDS DoubleOracle

\* Every game of wins and losses, and rock, paper, scissors; the supports a
\* caller may pass, one of them empty and one out of range.
WonOrLost == [Rows -> [Cols -> {0, 1}]]
RockPaperScissors == [i \in Rows |-> [j \in Cols |->
    IF i = j THEN 0 ELSE IF (i - j) % 3 = 1 THEN 1 ELSE -1]]
AllGames == WonOrLost \cup {RockPaperScissors}
SeedSets == {{}, {1}, {2, 3}, {2, 9}}
=============================================================================
