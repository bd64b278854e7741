--------------------------- MODULE MCActionOrder ---------------------------
EXTENDS ActionOrder

\* One mon may have won its Quick Claw roll.
Claw == [m \in Starters |-> IF m = <<"p1", 0>> THEN {-1, 0} ELSE {0}]

\* Nobody sings, or one mon of each side does.
Singers == {{}, {<<"p1", 1>>, <<"p2", 0>>}}
=============================================================================
