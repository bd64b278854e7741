----------------------------- MODULE MCPsStream -----------------------------
(* A battle of six lines that opens like a real one: its own copies of the  *)
(* stream's lines first, and the time again in the middle of the battle.   *)
EXTENDS PsStream

MCPlayer == {"p1", "p2"}
MCScript == <<"t", "player", "tier", "t", "l1", "l2">>
MCOwnLine == {"t", "gametype", "player", "rated", "chat"}
MCOptions == {[keepAlive |-> FALSE, replayOnly |-> FALSE, rated |-> TRUE],
              [keepAlive |-> TRUE,  replayOnly |-> FALSE, rated |-> FALSE],
              [keepAlive |-> FALSE, replayOnly |-> TRUE,  rated |-> FALSE]}
=============================================================================
