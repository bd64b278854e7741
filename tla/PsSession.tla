------------------------------ MODULE PsSession ------------------------------
(***************************************************************************)
(* crates/vgc-engine-core/src/ps_session.rs: two players answer requests   *)
(* in any order, change their minds, are refused, and the battle moves on  *)
(* when nobody is left to answer.  The engine resolves a turn in one call, *)
(* so at a mid-turn switch request the session keeps the turn-start battle *)
(* (base), runs the whole turn, shows its log only up to the first request *)
(* nobody has answered yet, and on an answer runs the turn again.          *)
(***************************************************************************)
EXTENDS BattleScript

CONSTANTS
    Seed,         \* the generator every battle is built with
    Verdict,      \* the line a forced end appends
    Doubles,      \* TRUE when a side has two slots to choose for
    CancelMod,    \* TRUE when an accepted choice may be taken back
    ReseedAt,     \* the kinds of stop at which the caller reseeds
    MaxCommits    \* bound: joint answers per behaviour

ASSUME SessionAssumption ==
    /\ Seed \in Rng
    /\ Verdict \subseteq Line
    /\ Doubles \in BOOLEAN /\ CancelMod \in BOOLEAN
    /\ ReseedAt \subseteq StopKind
    /\ MaxCommits \in Nat

VARIABLES
    base,         \* the battle at the start of the current decision
    shown,        \* at a mid-turn stop: the replay the log was shown from
    stop,         \* the stop the session stands at
    open,         \* the sides whose request is not `wait`
    maybe,        \* ... and whose request hides a trap or a lock
    main,         \* this turn's main answers
    mid,          \* one joint answer per mid-turn stop answered
    answered,     \* the answer on file for each side
    choiceText,   \* the same answer as the input log will print it
    cantUndo,     \* sides whose answer is final
    raw,          \* the log lines exposed so far
    newRequests,  \* the stop's requests are still to be sent
    inputLog,     \* committed choices not yet taken by the caller
    ended,
    rejected,     \* history: the answer on file came from a refused choice
    commits,      \* history: every joint answer the battle moved on with
    drained       \* history: input-log lines the caller has taken

vars == <<base, shown, stop, open, maybe, main, mid, answered, choiceText,
          cantUndo, raw, newRequests, inputLog, ended, rejected, commits, drained>>

request == <<open, maybe>>
history == <<rejected, commits, drained>>

-----------------------------------------------------------------------------
(* Battles.  `log` can be cut back; `played` is what was really simulated. *)

StopAt(seg, line) == [kind |-> seg.kind, open |-> seg.open, maybe |-> seg.maybe, line |-> line]

Stop == [kind : StopKind, open : SUBSET Sides, maybe : SUBSET Sides, line : Nat]

PreviewSeg == [line |-> Preview, kind |-> "TeamPreview", open |-> Sides, maybe |-> {}]

Lines(segs) == [i \in 1 .. Len(segs) |-> segs[i].line]

\* Every segment but a last "Over" leaves a stop behind it.
StopsOf(segs, at) ==
    LET n == IF segs[Len(segs)].kind = "Over" THEN Len(segs) - 1 ELSE Len(segs)
    IN  [i \in 1 .. n |-> StopAt(segs[i], at + i)]

Built(segs, g) ==
    [log |-> Lines(segs), played |-> Lines(segs), stops |-> StopsOf(segs, 0),
     rng |-> g, over |-> FALSE]

\* `builder(None)` plays past the preview with stand-in leads.
Builder(picks) ==
    LET o == Opening(Seed, picks) IN Built(<<PreviewSeg, o.seg>>, o.rng)

NoPreview == LET o == Opening(Seed, Nobody) IN Built(<<o.seg>>, o.rng)

\* `clone_with_log` and `step`.
Step(b, mainAns, midAns) ==
    LET t == Turn(b.rng, mainAns, midAns)
    IN  [log    |-> b.log \o Lines(t.segs),
         played |-> b.played \o Lines(t.segs),
         stops  |-> b.stops \o StopsOf(t.segs, Len(b.log)),
         rng    |-> t.rng,
         over   |-> t.segs[Len(t.segs)].kind = "Over"]

NoBattle == [log |-> <<>>, played |-> <<>>, stops |-> <<>>, rng |-> Seed, over |-> FALSE]

\* Mutated form: the next line is skipped.
Expose_Skips(b, upto) == raw \o SubSeq(b.log, Len(raw) + 2, upto)

\* `expose`: lines are skipped by how many were shown, not by what they say.
Expose(b, upto) == raw \o SubSeq(b.log, Len(raw) + 1, upto)

-----------------------------------------------------------------------------
(* Where a resolved battle leaves the session. *)

StopMidTurn(b, sp) ==
    /\ raw' = Expose(b, sp.line)
    /\ stop' = sp
    /\ open' = sp.open
    /\ maybe' = sp.maybe
    /\ newRequests' = TRUE
    /\ shown' = b
    /\ UNCHANGED <<base, ended>>

\* Mutated form: a stop reached at the end of a turn is not announced.
Commit_Silent(b, last) ==
    /\ raw' = Expose(b, Len(b.log))
    /\ IF last # {} /\ ~b.over
       THEN LET sp == b.stops[CHOOSE i \in last : \A j \in last : j =< i]
            IN  /\ stop' = sp /\ open' = sp.open /\ maybe' = sp.maybe
                /\ UNCHANGED <<newRequests, ended>>
       ELSE ended' = TRUE /\ open' = {} /\ UNCHANGED <<stop, maybe, newRequests>>
    /\ base' = b
    /\ shown' = NoBattle

Commit(b, last) ==
    /\ IF last # {} /\ ~b.over
       THEN LET sp == b.stops[CHOOSE i \in last : \A j \in last : j =< i]
            IN  /\ raw' = Expose(b, sp.line)
                /\ stop' = sp
                /\ open' = sp.open
                /\ maybe' = sp.maybe
                /\ newRequests' = TRUE
                /\ UNCHANGED ended
       ELSE /\ raw' = Expose(b, Len(b.log))
            /\ ended' = TRUE
            /\ open' = {}
            /\ UNCHANGED <<stop, maybe, newRequests>>
    /\ base' = b
    /\ shown' = NoBattle

\* The first mid-turn stop past the `k0` old ones that `md` does not answer.
Unanswered(b, k0, md) ==
    LET mids(n) == {i \in k0 + 1 .. n : b.stops[i].kind = "MidTurn"}
    IN  {i \in mids(Len(b.stops)) : Cardinality(mids(i)) = Len(md) + 1}

Settle(b, k0, mainAns, md, stepped) ==
    LET wait == Unanswered(b, k0, md)
        last == {i \in k0 + 1 .. Len(b.stops) : b.stops[i].kind # "MidTurn"}
    IN  IF stepped /\ wait # {}
        THEN /\ StopMidTurn(b, b.stops[CHOOSE i \in wait : TRUE])
             /\ main' = mainAns /\ mid' = md
        ELSE /\ Commit(b, last)
             /\ main' = Nobody /\ mid' = <<>>

Run(mainAns, md) ==
    Settle(Step(base, mainAns, md), Len(base.stops), mainAns, md, TRUE)

\* The joint answer `ans` is logged, and `play` makes the battle use it.
Commitment(ans, text, stillFinal, play) ==
    /\ Len(commits) < MaxCommits
    /\ answered' = Nobody
    /\ choiceText' = Nobody
    /\ cantUndo' = stillFinal
    /\ inputLog' = Append(inputLog, text)
    /\ play
    /\ rejected' = {}
    /\ commits' = Append(commits,
           [ans |-> ans, asked |-> open])
    /\ UNCHANGED drained

PlayAnswers(ans, picksOfMain, earlier) ==
    CASE stop.kind = "TeamPreview" -> Settle(Builder(ans), 1, main, mid, FALSE)
      [] stop.kind \in {"Move", "Replace"} -> Run(ans, picksOfMain)
      [] stop.kind = "MidTurn" -> Run(main, Append(earlier, ans))

\* Mutated forms: the picks of earlier stops are forgotten; a final choice
\* stays final at the next stop.
Advance_ForgetsPicks(ans, text) == Commitment(ans, text, {}, PlayAnswers(ans, <<>>, <<>>))
Advance_KeepsFinal(ans, text)  == Commitment(ans, text, cantUndo, PlayAnswers(ans, <<>>, mid))

\* Nobody is left to answer: log the choices and play on.
Advance(ans, text) == Commitment(ans, text, {}, PlayAnswers(ans, <<>>, mid))

-----------------------------------------------------------------------------
(* The callers' operations. *)

MayChoose(s) == ~ended /\ s \in open /\ s \notin cantUndo

\* The answer `a` (None: nothing) replaces what side s had on file.
File(s, a, final) ==
    /\ answered' = [answered EXCEPT ![s] = a]
    /\ choiceText' = [choiceText EXCEPT ![s] = a]
    /\ cantUndo' = IF final THEN cantUndo \cup {s} ELSE cantUndo \ {s}

\* Side s's answer `a` is filed, and `complete` says whether it was the last.
FileOrAdvance(s, a, final, complete) ==
    IF ~complete
    THEN /\ File(s, a, final)
         /\ rejected' = rejected \ {s}
         /\ UNCHANGED <<base, shown, stop, open, maybe, main, mid, raw,
                        newRequests, inputLog, ended, commits, drained>>
    ELSE Advance([answered EXCEPT ![s] = a], [choiceText EXCEPT ![s] = a])

Acceptable(s, a, hides) ==
    MayChoose(s) /\ a \in AnswerAt(stop.kind) /\ (hides => s \in maybe)

\* Mutated forms: completeness is judged before the answer is filed; one
\* answer is enough.
Accept_ReadsStale(s, a, hides) ==
    /\ Acceptable(s, a, hides)
    /\ FileOrAdvance(s, a, hides \/ ~CancelMod, \A r \in open : answered[r] # None)

Accept_AnyAnswer(s, a, hides) ==
    /\ Acceptable(s, a, hides)
    /\ FileOrAdvance(s, a, hides \/ ~CancelMod, TRUE)

\* `choose` succeeds.  A choice of the mon whose request hides a trap or a
\* lock may be final; without Cancel Mod every choice is.
Accept(s, a, hides) ==
    /\ Acceptable(s, a, hides)
    /\ FileOrAdvance(s, a, hides \/ ~CancelMod,
                     \A r \in open : r = s \/ answered[r] # None)

\* `choose` fails: the old choice is gone, and an `[Unavailable choice]`
\* gives away what a move request hid.
Refuse(s) ==
    /\ MayChoose(s)
    /\ File(s, None, FALSE)
    /\ \/ UNCHANGED maybe
       \/ stop.kind = "Move" /\ maybe' = maybe \ {s}
    /\ rejected' = rejected \ {s}
    /\ UNCHANGED <<base, shown, stop, open, main, mid, raw, newRequests,
                   inputLog, ended, commits, drained>>

\* `choose` fails, but the parts read before the error already fill the
\* side ("switch 3, bogus" with the second slot empty): they count.
RefuseFilled(s, a, hides) ==
    /\ Doubles /\ Acceptable(s, a, hides)
    /\ File(s, a, hides)
    /\ rejected' = rejected \cup {s}
    /\ UNCHANGED <<base, shown, stop, open, maybe, main, mid, raw, newRequests,
                   inputLog, ended, commits, drained>>

\* Taking back a move may also give away what the request hid.
Undo(s) ==
    /\ MayChoose(s)
    /\ answered' = [answered EXCEPT ![s] = None]
    /\ choiceText' = [choiceText EXCEPT ![s] = None]
    /\ \/ UNCHANGED maybe
       \/ stop.kind = "Move" /\ answered[s] # None /\ maybe' = maybe \ {s}
    /\ rejected' = rejected \ {s}
    /\ UNCHANGED <<base, shown, stop, open, main, mid, cantUndo, raw,
                   newRequests, inputLog, ended, commits, drained>>

\* A call that only earns an error: the battle is over, it is not this
\* side's turn, or its choice is final.
Rebuff(s) == ~MayChoose(s) /\ UNCHANGED vars

\* `protocol_truncate`: never longer, so a log already shorter stays.
Cut(log, n) == IF n < Len(log) THEN SubSeq(log, 1, n) ELSE log

\* `force_win`, `force_tie`, `tiebreak`: the battle whose log was shown is
\* cut back to what was shown and closed with the verdict.
End(v) ==
    /\ ~ended
    /\ LET b == IF shown # NoBattle THEN shown ELSE base
       IN  base' = [b EXCEPT !.log = Append(Cut(b.log, Len(raw)), v), !.over = TRUE]
    /\ raw' = Expose(base', Len(base'.log))
    /\ shown' = NoBattle
    /\ ended' = TRUE
    /\ open' = {}
    /\ UNCHANGED <<stop, maybe, main, mid, answered, choiceText, cantUndo,
                   newRequests, inputLog, rejected, commits, drained>>

Reseed(g) ==
    /\ stop.kind \in ReseedAt
    /\ base' = [base EXCEPT !.rng = g]
    /\ UNCHANGED <<shown, stop, open, maybe, main, mid, answered, choiceText,
                   cantUndo, raw, newRequests, inputLog, ended, history>>

TakeNewRequests ==
    /\ newRequests' = FALSE
    /\ UNCHANGED <<base, shown, stop, open, maybe, main, mid, answered, choiceText,
                   cantUndo, raw, inputLog, ended, history>>

\* Mutated form: the lines handed out are kept.
TakeInputLog_Keeps ==
    /\ drained' = drained \o inputLog
    /\ UNCHANGED <<base, shown, stop, open, maybe, main, mid, answered, choiceText,
                   cantUndo, raw, newRequests, inputLog, ended, rejected, commits>>

TakeInputLog ==
    /\ inputLog' = <<>>
    /\ drained' = drained \o inputLog
    /\ UNCHANGED <<base, shown, stop, open, maybe, main, mid, answered, choiceText,
                   cantUndo, raw, newRequests, ended, rejected, commits>>

-----------------------------------------------------------------------------

Init ==
    /\ base \in {Builder(Nobody), NoPreview}
    /\ shown = NoBattle
    /\ stop = base.stops[1]
    /\ open = stop.open
    /\ maybe = stop.maybe
    /\ main = Nobody
    /\ mid = <<>>
    /\ answered = Nobody
    /\ choiceText = Nobody
    /\ cantUndo = {}
    /\ raw = SubSeq(base.log, 1, stop.line)
    /\ newRequests = TRUE
    /\ inputLog = <<>>
    /\ ended = FALSE
    /\ rejected = {}
    /\ commits = <<>>
    /\ drained = <<>>

Choose(s) ==
    \/ \E a \in AnswerAt(stop.kind), hides \in BOOLEAN :
           Accept(s, a, hides) \/ RefuseFilled(s, a, hides)
    \/ Refuse(s)

Next ==
    \/ \E s \in Sides : Choose(s) \/ Undo(s) \/ Rebuff(s)
    \/ \E v \in Verdict : End(v)
    \/ \E g \in Rng : Reseed(g)
    \/ TakeNewRequests
    \/ TakeInputLog

Spec == Init /\ [][Next]_vars

\* A player who can answer does, sooner or later, acceptably.
AcceptSome(s) == \E a \in AnswerAt(stop.kind), hides \in BOOLEAN : Accept(s, a, hides)

FairSpec == Spec /\ \A s \in Sides : WF_vars(AcceptSome(s))

-----------------------------------------------------------------------------
(* Properties. *)

Battle == [log : Seq(Line), played : Seq(Line), stops : Seq(Stop), rng : Rng, over : BOOLEAN]

\* Every field of the session holds a value of its Rust type.
TypeOK ==
    /\ base \in Battle /\ shown \in Battle
    /\ stop \in Stop
    /\ open \subseteq Sides /\ maybe \subseteq Sides
    /\ main \in JointMain /\ mid \in MidHistory
    /\ answered \in Joint /\ choiceText \in Joint
    /\ cantUndo \subseteq Sides
    /\ raw \in Seq(Line)
    /\ newRequests \in BOOLEAN /\ ended \in BOOLEAN
    /\ rejected \subseteq Sides

\* The battle the exposed log was taken from.
Source == IF shown # NoBattle THEN shown ELSE base

\* What the players were shown is, line for line, the log of the battle the
\* session now stands on, up to its stop: a rerun of the turn never shows
\* other lines than the run before it did.
ExposedIsLog ==
    /\ raw = SubSeq(Source.log, 1, Len(raw))
    /\ ~ended => Len(raw) = stop.line
    /\ ended => raw = Source.log

\* Waiting inside a turn, the session shows the run of the turn it would
\* make again now: base and the answers so far still reproduce it.
ShownIsReplay ==
    shown # NoBattle => shown = Step(base, main, mid) /\ stop.kind = "MidTurn"

\* What is on show is what was played, line for line, and what would be
\* played again.
ShownIsPlayed == ExposedIsLog /\ ShownIsReplay

\* A decision is taken by everybody asked and by nobody else.
EveryoneAskedAnswered ==
    \A i \in 1 .. Len(commits) :
        \A s \in Sides : commits[i].ans[s] # None <=> s \in commits[i].asked

\* A side whose choice is final has a choice: a flag left over from an
\* earlier stop or a failed choice must never lock a player out.
NobodyLockedOut == \A s \in open \cap cantUndo : answered[s] # None

\* The battle stands still with every answer in only when one of them came
\* from a refused choice (choose fails without moving the battle on).
StallsOnlyAfterRefusal ==
    ~ended /\ (\A s \in open : answered[s] # None) => open \cap rejected # {}

\* Nobody is stuck: whoever is asked can still answer, and the session waits
\* for an answer unless a refused choice was the one that completed it.
NobodyStuck == NobodyLockedOut /\ StallsOnlyAfterRefusal

\* The input log tells exactly the answers the battle was played with.
InputLogIsHistory ==
    drained \o inputLog = [i \in 1 .. Len(commits) |-> commits[i].ans]

\* Answering requests implements the battle that stops and goes on.  (At the
\* preview base was built with stand-in leads; the battle starts from Seed.)
Incremental == INSTANCE IncrementalBattle WITH
    transcript <- raw,
    point      <- [kind |-> stop.kind, open |-> stop.open],
    sealed     <- answered,
    turn       <- IF ended THEN None
                  ELSE [rng  |-> IF stop.kind = "TeamPreview" THEN Seed ELSE base.rng,
                        main |-> main, mid |-> mid],
    over       <- ended

ImplementsIncremental == Incremental!Spec

\* To the stream around it the session is a feed: its log and its committed
\* choices only grow, every stop announces its requests, and the battle
\* ends once.
Feed == INSTANCE SessionFeed WITH committed <- drained \o inputLog

FeedsTheStream == Feed!Spec

\* With final choices and one slot a side every decision is taken, as long
\* as players who can answer do.
Progress ==
    \A n \in 1 .. MaxCommits : (Len(commits) < n) ~> (ended \/ Len(commits) >= n)
=============================================================================
