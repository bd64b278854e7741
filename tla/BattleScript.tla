---------------------------- MODULE BattleScript ----------------------------
(***************************************************************************)
(* The engine as a session sees it: `Battle::step` resolves a whole turn   *)
(* in one call, and the log it writes records where it would have stopped  *)
(* for a decision.  The content of a turn is abstract (a segment is one    *)
(* token); what the engine owes the session is the named assumptions.      *)
(***************************************************************************)
EXTENDS Integers, Sequences, FiniteSets

CONSTANTS
    Sides,         \* the two players
    TeamPick,      \* answers to a team-preview request
    MainAnswer,    \* answers to a turn's move request
    Pick,          \* answers to a switch request (replacement or mid-turn)
    Pass,          \* a mid-turn answer that names no switch
    None,          \* no answer
    Rng,           \* states of the battle's generator
    Line,          \* what a segment writes to the log, one token each
    Preview,       \* the line of the team-preview segment
    MaxMid,        \* the most mid-turn stops one turn can make
    Opening(_, _), \* generator, team picks -> the segment that starts turn 1
    Play(_, _, _)  \* generator, main answers, picks per side -> the turn

StopKind == {"TeamPreview", "Move", "Replace", "MidTurn"}

\* Where the log was when the battle asked, whom it asked, and which of
\* those requests carries a maybeTrapped / maybeLocked / maybeDisabled flag.
Segment == [line : Line, kind : StopKind \cup {"Over"},
            open : SUBSET Sides, maybe : SUBSET Sides]

AnswerAt(kind) ==
    CASE kind = "TeamPreview" -> TeamPick
      [] kind = "Move"        -> MainAnswer
      [] kind = "Replace"     -> Pick
      [] kind = "MidTurn"     -> Pick \cup {Pass}

Answers == TeamPick \cup MainAnswer \cup Pick \cup {Pass}
Joint   == [Sides -> Answers \cup {None}]
Nobody  == [s \in Sides |-> None]

\* What opens a turn (or a replacement), and what answers a mid-turn stop.
JointMain == [Sides -> MainAnswer \cup Pick \cup {None}]
JointPick == [Sides -> Pick \cup {Pass, None}]

\* One joint answer per mid-turn stop answered so far.
MidHistory == UNION {[1 .. n -> JointPick] : n \in 0 .. MaxMid}

\* What is handed to the engine: only switches are queued, a pass is not.
Picks(mid) ==
    [s \in Sides |->
        SelectSeq([i \in 1 .. Len(mid) |-> mid[i][s]], LAMBDA a : a \in Pick)]

Turn(g, main, mid) == Play(g, main, Picks(mid))

\* An answer to the next stop of a turn: one per side asked.
AnswersStop(m, seg) ==
    /\ \A s \in Sides : IF s \in seg.open THEN m[s] \in AnswerAt(seg.kind) ELSE m[s] = None

ASSUME SidesAssumption ==
    /\ Sides # {} /\ MaxMid \in Nat
    /\ None \notin Answers /\ Pass \notin Pick
    /\ Preview \in Line

\* A turn is some mid-turn stops and then the stop (or the end) it commits to.
ASSUME TurnShape ==
    \A g \in Rng, main \in JointMain, mid \in MidHistory :
        LET t == Turn(g, main, mid)
        IN  /\ t.rng \in Rng
            /\ t.segs \in Seq(Segment)
            /\ Len(t.segs) \in 1 .. MaxMid + 1
            /\ \A i \in 1 .. Len(t.segs) :
                   /\ (t.segs[i].kind = "MidTurn") <=> (i < Len(t.segs))
                   /\ t.segs[i].kind # "TeamPreview"
                   /\ t.segs[i].kind # "Over" => t.segs[i].open # {}

ASSUME OpeningShape ==
    \A g \in Rng, picks \in Joint :
        LET o == Opening(g, picks)
        IN  /\ o.seg \in Segment /\ o.seg.kind = "Move" /\ o.seg.open # {}
            /\ o.rng \in Rng

\* The engine draws and applies picks in order, so a pick answering a stop
\* cannot change what was played before that stop.
ASSUME TurnIsStable ==
    \A g \in Rng, main \in JointMain, mid \in MidHistory :
        LET k == Len(mid) + 1
            t == Turn(g, main, mid)
        IN  k < Len(t.segs) =>
              \A m \in {j \in JointPick : AnswersStop(j, t.segs[k])} :
                LET u == Turn(g, main, Append(mid, m))
                IN  /\ k =< Len(u.segs)
                    /\ \A i \in 1 .. k : u.segs[i] = t.segs[i]
=============================================================================
