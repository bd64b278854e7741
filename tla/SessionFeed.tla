---------------------------- MODULE SessionFeed ----------------------------
(***************************************************************************)
(* A session as the stream that owns it sees it: a log and a list of       *)
(* committed choices that only grow, and a flag raised by every stop until *)
(* its requests are taken.  PsSession.tla implements it; PsStream.tla      *)
(* relies on nothing else.                                                 *)
(***************************************************************************)
EXTENDS Naturals, Sequences

VARIABLES
    raw,          \* the log lines exposed so far
    newRequests,  \* the stop's requests are still to be sent
    committed,    \* every choice the battle moved on with
    ended

feed == <<raw, newRequests, committed, ended>>

\* A session stands at its first stop as soon as it exists.
Opened(lines) ==
    /\ lines # <<>>
    /\ raw = lines
    /\ newRequests = TRUE
    /\ committed = <<>>
    /\ ended = FALSE

\* The last answer of a stop: its choices are committed, the battle writes
\* `lines` and stands at another stop, or is over.
MoveOn(lines, texts, over) ==
    /\ ~ended /\ lines # <<>>
    /\ raw' = raw \o lines
    /\ committed' = committed \o texts
    /\ ended' = over
    /\ newRequests' = IF over THEN newRequests ELSE TRUE

\* A forced end writes its verdict.
Close(lines) ==
    /\ ~ended /\ lines # <<>>
    /\ raw' = raw \o lines
    /\ ended' = TRUE
    /\ UNCHANGED <<newRequests, committed>>

TakeNewRequests == newRequests' = FALSE /\ UNCHANGED <<raw, committed, ended>>

\* What a step has added at the end of a sequence.
Grown(s, t) == SubSeq(t, Len(s) + 1, Len(t))

Init == Opened(raw)

Next ==
    \/ \E over \in BOOLEAN : MoveOn(Grown(raw, raw'), Grown(committed, committed'), over)
    \/ Close(Grown(raw, raw'))
    \/ TakeNewRequests

Spec == Init /\ [][Next]_feed
=============================================================================
