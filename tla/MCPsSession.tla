----------------------------- MODULE MCPsSession -----------------------------
(***************************************************************************)
(* A small engine for TLC.  Each side hits or pivots (a move that asks for *)
(* a switch).  Under one generator two pivots stop the turn one after the  *)
(* other, under the other at once; hits end in a replacement or the end.   *)
(* Every line names all it depends on, so a changed line shows.            *)
(***************************************************************************)
EXTENDS PsSession, TLC

MCSides == {"p1", "p2"}
MCTeamPick == {"team"}
MCMainAnswer == {"hit", "pivot"}
MCPick == {"a", "b"}
MCRng == {"g1", "g2"}

\* Every turn draws.
Other(g) == IF g = "g1" THEN "g2" ELSE "g1"

OpeningLine(g, picks) == <<"start", g, picks>>
TurnLine(g, main_, used) == <<"turn", g, main_, used>>

MCOpening(g, picks) ==
    [seg |-> [line |-> OpeningLine(g, picks), kind |-> "Move", open |-> MCSides,
              maybe |-> IF g = "g1" THEN {"p1"} ELSE {}],
     rng |-> Other(g)]

\* The sides each mid-turn stop asks, in order.
Asks(g, main_) ==
    LET pivots == {s \in MCSides : main_[s] = "pivot"}
    IN  CASE pivots = {}      -> <<>>
          [] pivots # MCSides -> <<pivots>>
          [] g = "g1"         -> <<{"p1"}, {"p2"}>>
          [] OTHER            -> <<MCSides>>

\* The picks used by the stops before segment `k`; an engine without one
\* resolves the switch by itself.
Used(asks, k, picks) ==
    [s \in MCSides |->
        IF \E j \in 1 .. k - 1 : s \in asks[j]
        THEN IF picks[s] # <<>> THEN picks[s][1] ELSE "auto"
        ELSE "unasked"]

Final(g, main_) ==
    CASE \E s \in MCSides : main_[s] \in MCPick -> [kind |-> "Move", open |-> MCSides]
      [] \A s \in MCSides : main_[s] = "hit" ->
            IF g = "g1" THEN [kind |-> "Replace", open |-> {"p1"}] ELSE [kind |-> "Over", open |-> {}]
      [] \A s \in MCSides : main_[s] = "pivot" ->
            IF g = "g1" THEN [kind |-> "Move", open |-> MCSides] ELSE [kind |-> "Replace", open |-> MCSides]
      [] OTHER -> [kind |-> "Move", open |-> MCSides]

MCPlay(g, main_, picks) ==
    LET asks == Asks(g, main_)
        n    == Len(asks) + 1
        end  == Final(g, main_)
        seg(k) == [line  |-> TurnLine(g, main_, Used(asks, k, picks)),
                   kind  |-> IF k < n THEN "MidTurn" ELSE end.kind,
                   open  |-> IF k < n THEN asks[k] ELSE end.open,
                   maybe |-> IF k = n /\ end.kind = "Move" /\ g = "g2" THEN {"p2"} ELSE {}]
    IN  [segs |-> [k \in 1 .. n |-> seg(k)], rng |-> Other(g)]

MCJoint == [MCSides -> MCTeamPick \cup MCMainAnswer \cup MCPick \cup {Pass, None}]
UsedValues == [MCSides -> MCPick \cup {"auto", "unasked"}]
CONSTANT Tie
MCVerdict == {Tie}
MCLine ==
    {Preview} \cup MCVerdict
    \cup ({"start"} \X MCRng \X MCJoint)
    \cup ({"turn"} \X MCRng \X MCJoint \X UsedValues)

NoReseed == {}
BetweenTurns == {"Move", "Replace"}
=============================================================================
