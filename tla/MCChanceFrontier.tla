-------------------------- MODULE MCChanceFrontier --------------------------
(***************************************************************************)
(* Turns for TLC: every tree of at most three draws under two keys.        *)
(***************************************************************************)
EXTENDS ChanceFrontier

Site == {"a", "b", Over}

\* The first draw is under "a"; what follows depends on every roll so far.
\* One turn draws nothing.
Trees ==
    {[path \in Stories |-> Over]} \cup
    {[path \in Stories |-> CASE Len(path) = 0 -> "a"
                             [] Len(path) = 1 -> second[path[1]]
                             [] Len(path) = 2 -> third[path[1]][path[2]]
                             [] OTHER -> Over] :
       <<second, third>> \in
         {p \in [BOOLEAN -> Site] \X [BOOLEAN -> [BOOLEAN -> Site]] :
            \A x \in BOOLEAN : p[1][x] = Over => p[2][x] = [y \in BOOLEAN |-> Over]}}

\* The thresholds of a key are the same at each of its draws ...
Alike == {[a |-> <<x, x, x>>, b |-> <<y, y, y>>] : <<x, y>> \in {<<1, 2>>, <<2, 3>>, <<1, 0>>}}
\* ... or differ from draw to draw (Triple Arrows' two secondaries).
Unlike == {[a |-> <<1, 2, 1>>, b |-> <<2, 1, 2>>]}

MCTurns == {[site |-> s, odds |-> o] : s \in Trees, o \in Alike \cup Unlike}

AllStreams == [1 .. MaxDraws -> {1, Den}]
=============================================================================
