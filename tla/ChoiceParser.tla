---------------------------- MODULE ChoiceParser ----------------------------
(***************************************************************************)
(* One side answers one request: ps_request.rs builds the request from the *)
(* battle, hiding some of it, and the parser of ps_session.rs reads the    *)
(* answer part by part against it.  Nothing else runs between two parts,   *)
(* so each is a step of its own here, and a string is as many parts as the *)
(* client likes.  Names, numbers and the JSON are abstract.                *)
(***************************************************************************)
EXTENDS Integers, Sequences, FiniteSets

CONSTANTS
    N,            \* active slots of the side: 1 or 2
    Mons,         \* mons of the side; positions 1 .. N are on the field
    Slots,        \* move slots of a mon
    Picked,       \* how many mons team preview asks for
    CancelMod,    \* TRUE when an accepted answer may be taken back
    Situations,   \* the battles the request is built from
    Inputs        \* the parts a client may send

Active == 1 .. N
Pos    == 1 .. Mons
Slot   == 1 .. Slots
Loc    == -(N + 1) .. N + 1
Target == {"normal", "any", "adjacentFoe", "adjacentAlly", "adjacentAllyOrSelf",
           "randomNormal", "self"}

\* `usable`: open, disabled, or disabled by a foe's Imprison, which the
\* request of the last active mon hides.
Situation == [kind : {"TeamPreview", "Move", "Switch"}, fainted : SUBSET Pos,
              commanding : SUBSET Active, usable : [Active -> [Slot -> {"open", "shut", "hidden"}]],
              target : [Slot -> Target], lock : SUBSET Active,
              trap : [Active -> {"no", "hidden", "known"}], maybeTrap : SUBSET Active,
              imprison : BOOLEAN, mega : SUBSET Active, tera : SUBSET Active,
              force : SUBSET Active, reviving : SUBSET Active]

Part == [ty : {"move"}, n : 0 .. Slots + 1, loc : Loc, named : BOOLEAN,
         ev : {"", "mega", "tera", "zmove", "megax"}]
          \cup [ty : {"switch"}, n : 0 .. Mons + 1]
          \cup [ty : {"team"}, order : Seq(0 .. Mons + 1)]
          \cup [ty : {"pass", "default", "shift", "junk"}]

Living(b) == {i \in Pos : i > N /\ i \notin b.fainted}

\* What ps_request.rs and the engine guarantee of a request that asks.
Askable(b) ==
    /\ \A a \in Active :
           /\ b.trap[a] = "hidden" => a \in b.maybeTrap
           /\ (\E m \in Slot : b.usable[a][m] = "hidden") => b.imprison
    /\ b.lock \cap b.fainted = {}
    /\ b.kind # "Switch" => b.force = {} /\ b.reviving = {}
    /\ b.kind = "Move" => ~(Active \subseteq b.fainted)
    /\ b.kind = "Switch" =>
           /\ b.force # {}
           /\ b.reviving = {} => Living(b) # {}
           \* Revival Blessing asks alone, and only for a fainted mon.
           /\ b.reviving # {} => b.reviving = b.force /\ Cardinality(b.force) = 1 /\ b.fainted # {}

ASSUME ParserAssumption ==
    /\ N \in {1, 2} /\ Mons \in Nat /\ Mons >= N /\ Slots \in Nat \ {0}
    /\ Picked \in N .. Mons /\ CancelMod \in BOOLEAN
    /\ Situations \subseteq {b \in Situation : Askable(b)}
    /\ Inputs \subseteq Part

VARIABLES
    battle,       \* the truth behind the request; it does not change here
    shown,        \* the request's part for each active slot, as last sent
    pc,           \* idle, or how far the string being read has come
    left,         \* parts still to be read
    p,            \* the parser
    file,         \* the answer on file
    cantUndo,     \* ... which cannot be changed any more
    insists       \* the client has fallen back to sending `default`

vars == <<battle, shown, pc, left, p, file, cantUndo, insists>>

-----------------------------------------------------------------------------
(* ps_request.rs: the request of a slot. *)

IsLast(b, a) == a \notin b.fainted /\ \A c \in Active : c > a => c \in b.fainted

Really(b, a) == {m \in Slot : b.usable[a][m] # "open"}
Hidden(b, a) == {m \in Slot : b.usable[a][m] = "hidden"}
OffAtFirst(b, a) == IF IsLast(b, a) THEN Really(b, a) \ Hidden(b, a) ELSE Really(b, a)

\* A locked move and Struggle are lists of one.
Mode(b, a) ==
    CASE a \in b.lock              -> "locked"
      [] a \notin b.lock /\ OffAtFirst(b, a) = Slot -> "struggle"
      [] OTHER                     -> "menu"

ReallyTrapped(b, a) == a \in b.lock \/ b.trap[a] # "no"

\* `off`: moves shown as disabled; `told`: those a refusal named; the flags are
\* the request's own.
FirstRequest(b, a) ==
    LET soft == a \notin b.lock /\ IsLast(b, a)
        can  == Living(b) # {}
    IN  [off  |-> IF Mode(b, a) = "menu" THEN OffAtFirst(b, a) ELSE {},
         told |-> {},
         trapped      |-> IF soft THEN can /\ b.trap[a] = "known"
                          ELSE (a \in b.lock \/ can) /\ ReallyTrapped(b, a),
         maybeTrapped |-> soft /\ can /\ b.trap[a] # "known" /\ a \in b.maybeTrap,
         maybeOff     |-> soft /\ b.imprison,
         maybeLocked  |-> soft /\ b.imprison,
         mega |-> Mode(b, a) = "menu" /\ a \in b.mega,
         tera |-> Mode(b, a) = "menu" /\ a \in b.tera]

AutoPass(b) == (b.fainted \cup b.commanding) \cap Active

-----------------------------------------------------------------------------
(* The parser.  An outcome is the parser after the part, whether it was    *)
(* read, and the request with what a refusal told ([Unavailable choice]).  *)

PassAct == [act |-> "pass"]

AtMost(i, j) == IF i < j THEN i ELSE j

\* The parser: what was read, who is sent in, the forced switches and passes
\* left, whether a Mega Evolution or Terastallization is taken, whether
\* anything was refused, and whether the answer is final.
Cleared(b) ==
    LET out == IF b.kind = "Switch" THEN Cardinality(b.force) ELSE 0
        in  == AtMost(out, Cardinality(Living(b)))
    IN  [acts |-> <<>>, ins |-> {}, fs |-> in, fp |-> out - in, mega |-> FALSE,
         tera |-> FALSE, err |-> FALSE, cant |-> FALSE]

\* The slots that answer themselves.
Skips(b, a) ==
    \/ b.kind = "Move" /\ a \in AutoPass(b)
    \/ b.kind = "Switch" /\ a \notin b.force

\* The next slot to choose for, from slot i on (a side has two at most).
NextSlot(b, i) ==
    IF i > N \/ ~Skips(b, i) THEN i
    ELSE IF i = N \/ ~Skips(b, i + 1) THEN i + 1 ELSE i + 2

\* `choice_index`: passes go in up to the next slot that has to choose.
Filled(b, acts) ==
    acts \o [i \in 1 .. NextSlot(b, Len(acts) + 1) - Len(acts) - 1 |-> PassAct]

Done(b, q) ==
    /\ q.fs = 0
    /\ Len(Filled(b, q.acts)) >= IF b.kind = "TeamPreview" THEN Picked ELSE N

Refused(q) == [p |-> [q EXCEPT !.err = TRUE], ok |-> FALSE, shown |-> shown]
Took(q)    == [p |-> q, ok |-> TRUE, shown |-> shown]

\* `update_disabled_request`: what an update tells about a slot's moves.
Told(b, a, r) ==
    LET bare == [r EXCEPT !.maybeLocked = FALSE, !.maybeOff = @ /\ N < 2,
                          !.off = IF r.maybeOff /\ N >= 2 /\ Mode(b, a) = "menu"
                                  THEN @ \cup Really(b, a) ELSE @]
        none == Mode(b, a) = "struggle" \/ (Mode(b, a) = "menu" /\ bare.off = Slot)
    IN  IF none THEN [bare EXCEPT !.mega = FALSE, !.tera = FALSE] ELSE bare

ValidTargetLoc(loc, a, target) ==
    LET across   == loc - (N + 1)
        adjacent == IF loc > 0 THEN across + a \in -1 .. 1 ELSE loc + a \in {-1, 1}
    IN  /\ loc \in -N .. N
        /\ CASE target = "normal"                       -> adjacent
             [] target = "adjacentAlly"                 -> adjacent /\ loc < 0
             [] target = "adjacentAllyOrSelf"           -> (adjacent /\ loc < 0) \/ loc = -a
             [] target = "adjacentFoe"                  -> adjacent /\ loc > 0
             [] target = "any"                          -> loc # -a
             [] OTHER                                   -> FALSE

Choosable == {"normal", "any", "adjacentAlly", "adjacentAllyOrSelf", "adjacentFoe"}

\* A locked move named by its id is looked up as "normal", by number not at all.
TargetOf(b, a, m, named) ==
    CASE Mode(b, a) = "menu"     -> b.target[m]
      [] Mode(b, a) = "struggle" -> "randomNormal"
      [] OTHER                   -> IF named THEN "normal" ELSE "self"

\* The move an empty `move` means: the first one that really can be used.
FirstOpen(b, a) ==
    LET open == Slot \ Really(b, a)
    IN  IF Mode(b, a) # "menu" \/ open = {} THEN 1
        ELSE CHOOSE m \in open : \A k \in open : m =< k

Aimed(b, a, part, m) ==
    LET target == TargetOf(b, a, m, part.named)
    IN  IF target \in Choosable
        THEN /\ part.loc = 0 => N < 2
             /\ part.loc # 0 => ValidTargetLoc(part.loc, a, target)
        ELSE part.loc = 0

\* A locked move or Struggle is taken as it is.
Stock(q, r) ==
    Took([q EXCEPT !.acts = Append(@, [act |-> "move", m |-> 0, loc |-> 0,
                                       mega |-> FALSE, tera |-> FALSE]),
                   !.cant = @ \/ r.maybeLocked])

\* A disabled move: [Unavailable choice] if the request had it wrong.
Disabled(b, q, a, m) ==
    [Refused(q) EXCEPT !.shown[a] = [Told(b, a, shown[a]) EXCEPT !.off = @ \cup {m},
                                                                 !.told = @ \cup {m}]]

Barred(q, r, ev) ==
    \/ ev = "megax"
    \/ ev = "mega" /\ (~r.mega \/ q.mega)
    \/ ev = "tera" /\ (~r.tera \/ q.tera)

ChooseMove(b, q0, part) ==
    LET q    == [q0 EXCEPT !.acts = Filled(b, @)]
        a    == Len(q.acts) + 1
        auto == part.n = 0
        m    == IF auto THEN FirstOpen(b, a) ELSE part.n
        r    == shown[a]
    IN  IF b.kind # "Move" THEN Refused(q0)
        ELSE IF \/ a > N
                \/ m > (IF Mode(b, a) = "menu" THEN Slots ELSE 1)
                \/ part.ev = "zmove"
                \/ ~auto /\ ~Aimed(b, a, part, m) THEN Refused(q)
        ELSE IF Mode(b, a) # "menu" THEN Stock(q, r)
        ELSE IF m \in Really(b, a) THEN Disabled(b, q, a, m)
        ELSE IF Barred(q, r, part.ev) THEN Refused(q)
        ELSE Took([q EXCEPT !.acts = Append(@, [act |-> "move", m |-> m,
                                                loc |-> IF auto THEN 0 ELSE part.loc,
                                                mega |-> part.ev = "mega", tera |-> part.ev = "tera"]),
                            !.cant = @ \/ (r.maybeOff /\ N < 2),
                            !.mega = @ \/ part.ev = "mega",
                            !.tera = @ \/ part.ev = "tera"])

ChoosePass(b, q) ==
    LET a == Len(q.acts) + 1
        forced == b.kind = "Switch" /\ a \in b.force
    IN  IF \/ a > N \/ b.kind = "TeamPreview"
           \/ forced /\ q.fp = 0
           \/ b.kind = "Move" /\ a \notin AutoPass(b)
        THEN Refused(q)
        ELSE Took([q EXCEPT !.acts = Append(@, PassAct), !.fp = IF forced THEN @ - 1 ELSE @])

LeastOr(S, d) == IF S = {} THEN d ELSE CHOOSE i \in S : \A j \in S : i =< j

\* Mutated form: the first reserve, whoever was sent in before.
Named_First(b, q, a, n) ==
    IF n # 0 THEN n
    ELSE LeastOr(IF a \in b.reviving THEN b.fainted ELSE Living(b), Mons + 1)

\* The position a `switch` names; without a name, the first that will do.
Named(b, q, a, n) ==
    IF n # 0 THEN n
    ELSE LeastOr(IF a \in b.reviving THEN b.fainted ELSE Living(b) \ q.ins, Mons + 1)

SwitchTo(b, q, i) ==
    [q EXCEPT !.acts = Append(@, [act |-> "switch", pos |-> i]),
              !.fs = IF b.kind = "Switch" /\ @ > 0 THEN @ - 1 ELSE @]

\* Mutated form: asking to leave is final wherever the mon may be trapped.
Final_Always(b, a) == b.kind = "Move" /\ b.maybeTrap # {}

\* A switch that went through has shown that a maybe-trap is none.
Final(b, a) == b.kind = "Move" /\ shown[a].maybeTrapped

\* A trapped mon: [Unavailable choice] if the request had not said so.
Trapped(q, a) == [Refused(q) EXCEPT !.shown[a].maybeTrapped = FALSE, !.shown[a].trapped = TRUE]

\* Mutated form: two slots may name the same mon.
NoSwitch_Twice(b, q, a, i) ==
    i > Mons \/ (IF a \in b.reviving THEN i \notin b.fainted ELSE i =< N \/ i \in b.fainted)

NoSwitch(b, q, a, i) ==
    \/ i > Mons
    \/ i \in q.ins
    \/ IF a \in b.reviving THEN i \notin b.fainted ELSE i =< N \/ i \in b.fainted

ChooseSwitch(b, q0, n) ==
    LET q == [q0 EXCEPT !.acts = Filled(b, @)]
        a == Len(q.acts) + 1
        i == Named(b, q, a, n)
    IN  IF b.kind = "TeamPreview" THEN Refused(q0)
        ELSE IF a > N \/ (n = 0 /\ b.kind # "Switch") THEN Refused(q)
        ELSE IF n = 0 /\ a \notin b.reviving /\ q.fs = 0 THEN ChoosePass(b, q)
        ELSE IF NoSwitch(b, q, a, i) THEN Refused(q)
        ELSE IF a \in b.reviving THEN Took(SwitchTo(b, q, i))
        ELSE IF b.kind = "Move" /\ ReallyTrapped(b, a) THEN Trapped(q, a)
        ELSE Took([SwitchTo(b, q, i) EXCEPT !.ins = @ \cup {i},
                                            !.cant = @ \/ Final(b, a)])

\* The order asked for, cut to size, then the mons it left out.
TeamOrder(order) ==
    LET asked == SubSeq(order, 1, AtMost(Len(order), Picked))
        rest  == SelectSeq([i \in 1 .. Picked |-> i],
                           LAMBDA i : \A k \in 1 .. Len(asked) : asked[k] # i)
    IN  SubSeq(asked \o rest, 1, Picked)

ChooseTeam(b, q, order) ==
    LET t == TeamOrder(order)
    IN  IF \/ b.kind # "TeamPreview"
           \/ \E i \in 1 .. Picked : t[i] \notin Pos
           \/ \E i, j \in 1 .. Picked : i < j /\ t[i] = t[j]
        THEN Refused(q)
        ELSE Took([q EXCEPT !.acts = @ \o [i \in 1 .. Picked |-> [act |-> "team", pos |-> t[i]]],
                            !.ins = @ \cup {t[i] : i \in 1 .. Picked}])

\* `shift` is for triples only.
ChooseShift(b, q) == Refused([q EXCEPT !.acts = Filled(b, @)])

\* A part that means nothing is refused, but the parts after it are read.
Junk(q) == Took([q EXCEPT !.err = TRUE])

Outcome(b, q, part) ==
    CASE part.ty = "move"   -> ChooseMove(b, q, part)
      [] part.ty = "switch" -> ChooseSwitch(b, q, part.n)
      [] part.ty = "team"   -> ChooseTeam(b, q, part.order)
      [] part.ty = "pass"   -> ChoosePass(b, q)
      [] part.ty = "shift"  -> ChooseShift(b, q)
      [] part.ty = "junk"   -> Junk(q)

\* What `default` does for the slot it stands at.
AutoPart(b) ==
    CASE b.kind = "TeamPreview" -> [ty |-> "team", order |-> <<>>]
      [] b.kind = "Switch"      -> [ty |-> "switch", n |-> 0]
      [] b.kind = "Move"        -> [ty |-> "move", n |-> 0, loc |-> 0, named |-> FALSE, ev |-> ""]

-----------------------------------------------------------------------------
(* The session. *)

NoFile == [on |-> FALSE, refused |-> FALSE, acts |-> <<>>]

Init ==
    /\ battle \in Situations
    /\ shown = [a \in Active |-> FirstRequest(battle, a)]
    /\ pc = "idle" /\ left = 0
    /\ p = Cleared(battle)
    /\ file = NoFile
    /\ cantUndo = FALSE /\ insists = FALSE

\* `choose`: too many parts are refused before any is read.
Send(n) ==
    /\ pc = "idle" /\ ~cantUndo
    /\ insists => n = 1 /\ ~file.on
    /\ IF n > N THEN pc' = "close" /\ left' = 0 /\ p' = [Cleared(battle) EXCEPT !.err = TRUE]
       ELSE pc' = "read" /\ left' = n /\ p' = Cleared(battle)
    /\ file' = NoFile
    /\ UNCHANGED <<battle, shown, cantUndo, insists>>

Take(o) ==
    /\ p' = o.p
    /\ shown' = o.shown

ReadPart(part) ==
    /\ pc = "read"
    /\ insists => part.ty = "default"
    /\ part.ty # "default"
    /\ LET o == Outcome(battle, p, part)
       IN  /\ Take(o)
           /\ left' = IF o.ok THEN left - 1 ELSE 0
           /\ pc' = IF left' = 0 THEN "close" ELSE "read"
    /\ UNCHANGED <<battle, file, cantUndo, insists>>

ReadDefault ==
    /\ pc = "read"
    /\ pc' = "auto"
    /\ UNCHANGED <<battle, shown, left, p, file, cantUndo, insists>>

\* `auto_choose`, one slot at a time until the side is done.
AutoSlot ==
    /\ pc = "auto" /\ ~Done(battle, p)
    /\ LET o == Outcome(battle, p, AutoPart(battle))
       IN  /\ Take(o)
           /\ left' = IF o.ok THEN left ELSE 0
           /\ pc' = IF o.ok THEN "auto" ELSE "close"
    /\ UNCHANGED <<battle, file, cantUndo, insists>>

AutoDone ==
    /\ pc = "auto" /\ Done(battle, p)
    /\ p' = [p EXCEPT !.acts = Filled(battle, @)]
    /\ left' = left - 1
    /\ pc' = IF left' = 0 THEN "close" ELSE "read"
    /\ UNCHANGED <<battle, shown, file, cantUndo, insists>>

\* The end of `choose_detailed`: a refused string that fills the side counts.
Close ==
    /\ pc = "close"
    /\ LET whole == Done(battle, p)
       IN  /\ file' = IF whole
                      THEN [on |-> TRUE, refused |-> p.err, acts |-> Filled(battle, p.acts)]
                      ELSE NoFile
           /\ cantUndo' = (p.cant \/ (whole /\ ~p.err /\ ~CancelMod))
    /\ pc' = "idle" /\ left' = 0 /\ p' = Cleared(battle)
    /\ UNCHANGED <<battle, shown, insists>>

\* Mutated form: the request keeps its flags.
Undo_Silent ==
    /\ pc = "idle" /\ file.on /\ ~cantUndo /\ ~insists
    /\ file' = NoFile
    /\ UNCHANGED <<battle, shown, pc, left, p, cantUndo, insists>>

\* `undo`: what the answer has found out, the request now says.
Undo ==
    /\ pc = "idle" /\ file.on /\ ~cantUndo /\ ~insists
    /\ shown' = [a \in Active |->
                    IF battle.kind = "Move" /\ file.acts[a].act = "move"
                    THEN Told(battle, a, shown[a]) ELSE shown[a]]
    /\ file' = NoFile
    /\ UNCHANGED <<battle, pc, left, p, cantUndo, insists>>

\* The client: nothing else has worked, so it sends `default` from now on.
FallBack ==
    /\ pc = "idle" /\ ~file.on /\ ~insists
    /\ insists' = TRUE
    /\ UNCHANGED <<battle, shown, pc, left, p, file, cantUndo>>

Parse == ReadDefault \/ AutoSlot \/ AutoDone \/ Close \/ \E part \in Inputs : ReadPart(part)

Next == (\E n \in 1 .. N + 1 : Send(n)) \/ Parse \/ Undo \/ FallBack

Spec == Init /\ [][Next]_vars

\* The parser runs to its end, and a client that has fallen back goes on asking.
FairSpec == Spec /\ WF_vars(Parse) /\ WF_vars(insists /\ \E n \in 1 .. N + 1 : Send(n))

-----------------------------------------------------------------------------
(* Properties. *)

\* What a slot may do this turn, by the battle and not by the request.
LegalMove(b, a, x) ==
    IF Mode(b, a) # "menu" THEN x.m = 0 /\ ~x.mega /\ ~x.tera
    ELSE /\ x.m \in Slot \ Really(b, a)
         /\ x.mega => a \in b.mega
         /\ x.tera => a \in b.tera
         /\ x.loc # -a \/ b.target[x.m] = "adjacentAllyOrSelf"

LegalTurn(b, acts) ==
    /\ Len(acts) = N
    /\ \A a \in Active :
           IF a \in AutoPass(b) THEN acts[a] = PassAct
           ELSE \/ acts[a].act = "move" /\ LegalMove(b, a, acts[a])
                \/ acts[a].act = "switch" /\ acts[a].pos \in Living(b) /\ ~ReallyTrapped(b, a)
    /\ \A a, c \in Active : a # c =>
           /\ acts[a].act = "switch" /\ acts[c].act = "switch" => acts[a].pos # acts[c].pos
           /\ acts[a].act = "move" /\ acts[c].act = "move" =>
                  ~(acts[a].mega /\ acts[c].mega) /\ ~(acts[a].tera /\ acts[c].tera)

LegalReplacement(b, acts) ==
    LET sent == {a \in Active : acts[a].act = "switch"}
    IN  /\ Len(acts) = N
        /\ \A a \in Active : acts[a].act \in {"pass", "switch"}
        /\ sent \subseteq b.force
        /\ IF b.reviving # {} THEN \A a \in sent : acts[a].pos \in b.fainted
           ELSE /\ Cardinality(sent) = AtMost(Cardinality(b.force), Cardinality(Living(b)))
                /\ \A a \in sent : acts[a].pos \in Living(b)
                /\ \A a, c \in sent : a # c => acts[a].pos # acts[c].pos

\* Whatever is kept of a string at a move or replacement request, accepted or
\* refused, is an answer the battle can play: no move that is disabled or mon that is trapped, hidden or not, no
\* mon sent in twice, as many replacements as there are mons for (ps_session.rs,
\* choose_detailed keeps the parts read before an error).
OnFileIsLegal ==
    file.on =>
        /\ battle.kind = "Move"   => LegalTurn(battle, file.acts)
        /\ battle.kind = "Switch" => LegalReplacement(battle, file.acts)

\* A side that can no longer change its answer has one: the error path makes the
\* parts it read final even when the string is refused (ps_session.rs, line 310),
\* and a side with no answer and no way to give one would stop the battle.
FinalMeansAnswered == pc = "idle" /\ cantUndo => file.on

\* What taking back an answer let its side find out, the request says: no `maybe`
\* is left on a slot whose move went through, and a switch out of a maybe-trap is
\* never taken back (ps_session.rs, undo and cant_undo).
NoFreeProbe ==
    [][file.on /\ ~file'.on /\ pc = "idle" /\ pc' = "idle" /\ battle.kind = "Move" =>
        \A a \in Active :
            /\ file.acts[a].act = "move"   => ~shown'[a].maybeOff /\ ~shown'[a].maybeLocked
            /\ file.acts[a].act = "switch" => ~shown[a].maybeTrapped]_vars

\* A client that goes on sending `default` gets its answer taken.
DefaultIsAnswered == insists ~> file.on
=============================================================================
