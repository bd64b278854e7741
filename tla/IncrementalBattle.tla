------------------------- MODULE IncrementalBattle -------------------------
(***************************************************************************)
(* What a session promises its two players: the battle Pokemon Showdown    *)
(* itself would play them.  A turn runs forward once.  Wherever it needs a *)
(* decision it stops, takes one answer from every side it asked, and goes  *)
(* on from that very point; nothing already played is ever played again,   *)
(* and a reseed governs every draw that follows it.                        *)
(*                                                                         *)
(* The engine cannot stop inside a turn.  PsSession.tla replays the turn   *)
(* instead, and is shown to implement this module.                         *)
(***************************************************************************)
EXTENDS BattleScript

CONSTANTS Verdict,     \* the line a forced end appends
          Seed         \* the generator the battle is built with

VARIABLES
    transcript,   \* the segments played, in order
    point,        \* the stop the battle stands at: [kind, open]
    sealed,       \* each side's answer to that stop, or None
    turn,         \* what the running turn was given: [rng, main, mid]
    over          \* the battle has ended

vars == <<transcript, point, sealed, turn, over>>

PreviewPoint == [kind |-> "TeamPreview", open |-> Sides]
PointOf(seg) == [kind |-> seg.kind, open |-> seg.open]
Fresh(g)     == [rng |-> g, main |-> Nobody, mid |-> <<>>]

Init ==
    /\ sealed = Nobody
    /\ over = FALSE
    /\ \/ /\ transcript = <<Preview>>
          /\ point = PreviewPoint
          /\ turn = Fresh(Seed)
       \/ LET o == Opening(Seed, Nobody)
          IN  /\ transcript = <<o.seg.line>>
              /\ point = PointOf(o.seg)
              /\ turn = Fresh(o.rng)

\* Play one segment on: the battle stops at its end, or is over.
PlayOn(seg, after) ==
    /\ transcript' = Append(transcript, seg.line)
    /\ sealed' = Nobody
    /\ IF seg.kind = "Over"
       THEN over' = TRUE /\ turn' = None /\ UNCHANGED point
       ELSE over' = FALSE /\ turn' = after /\ point' = PointOf(seg)

\* Everybody asked has answered `m`.
Resolve(m) ==
    LET main == IF point.kind = "MidTurn" THEN turn.main ELSE m
        mid  == IF point.kind = "MidTurn" THEN Append(turn.mid, m) ELSE <<>>
        t    == Turn(turn.rng, main, mid)
        k    == Len(mid) + 1
    IN  IF point.kind = "TeamPreview"
        THEN LET o == Opening(turn.rng, m) IN PlayOn(o.seg, Fresh(o.rng))
        ELSE PlayOn(t.segs[k],
                    IF k < Len(t.segs)
                    THEN [turn EXCEPT !.main = main, !.mid = mid]
                    ELSE Fresh(t.rng))

\* A side answers (or answers anew); the battle may move on once all have.
Seal(s, a) ==
    /\ ~over /\ s \in point.open
    /\ LET m == [sealed EXCEPT ![s] = a]
       IN  \/ sealed' = m /\ UNCHANGED <<transcript, point, turn, over>>
           \/ (\A r \in point.open : m[r] # None) /\ Resolve(m)

Unseal(s) ==
    /\ ~over /\ s \in point.open
    /\ sealed' = [sealed EXCEPT ![s] = None]
    /\ UNCHANGED <<transcript, point, turn, over>>

ForceEnd(v) ==
    /\ ~over
    /\ transcript' = Append(transcript, v)
    /\ over' = TRUE
    /\ turn' = None
    /\ UNCHANGED <<point, sealed>>

\* Outside a turn a new generator is simply the next turn's.
Reseed(g) ==
    /\ ~over /\ point.kind # "MidTurn"
    /\ turn' = [turn EXCEPT !.rng = g]
    /\ UNCHANGED <<transcript, point, sealed, over>>

Next ==
    \/ \E s \in Sides : Unseal(s) \/ \E a \in AnswerAt(point.kind) : Seal(s, a)
    \/ \E v \in Verdict : ForceEnd(v)
    \/ \E g \in Rng : Reseed(g)

Spec == Init /\ [][Next]_vars
=============================================================================
