--------------------------- MODULE MCChoiceParser ---------------------------
(***************************************************************************)
(* Requests for TLC: two slots, two moves each, two mons on the bench.     *)
(***************************************************************************)
EXTENDS ChoiceParser

Plain == [kind |-> "Move", fainted |-> {}, commanding |-> {},
          usable |-> [a \in Active |-> [m \in Slot |-> "open"]],
          target |-> [m \in Slot |-> IF m = 1 THEN "adjacentAllyOrSelf" ELSE "self"],
          lock |-> {}, trap |-> [a \in Active |-> "no"], maybeTrap |-> {},
          imprison |-> FALSE, mega |-> {}, tera |-> {}, force |-> {}, reviving |-> {}]

\* Two moves: both usable, one hidden by an Imprison, one disabled, both off.
MoveLists == {<<"open", "open">>, <<"hidden", "open">>, <<"shut", "hidden">>, <<"shut", "shut">>}

Turns ==
    {[Plain EXCEPT !.fainted = f, !.commanding = c,
                   !.usable = [a \in Active |-> IF a = N THEN u ELSE v],
                   !.lock = l, !.trap = [a \in Active |-> t], !.maybeTrap = mt,
                   !.imprison = i, !.mega = Active, !.tera = Active] :
        f \in {{}, {1}, {2}, {3}, {3, 4}}, c \in {{}, {1}, {2}}, u \in MoveLists,
        v \in {<<"open", "open">>, <<"hidden", "open">>}, l \in {{}, {1}},
        t \in {"no", "hidden", "known"}, mt \in {{}, Active}, i \in BOOLEAN}

Replacements ==
    {[Plain EXCEPT !.kind = "Switch", !.fainted = f, !.force = o] :
        f \in SUBSET Pos, o \in SUBSET Active}
    \cup {[Plain EXCEPT !.kind = "Switch", !.fainted = f, !.force = {a}, !.reviving = {a}] :
        f \in SUBSET (Pos \ {1}), a \in Active}

Previews == {[Plain EXCEPT !.kind = "TeamPreview"]}

\* The stuck mon, whose every move is Imprisoned and hidden: no answer but a
\* switch is ever taken from it, so no run starts there.
Imprisoned(b) == \E a \in Active : Really(b, a) = Slot /\ Mode(b, a) = "menu"

MCSituations == {b \in Turns \cup Replacements \cup Previews : Askable(b) /\ ~Imprisoned(b)}

MCInputs ==
    [ty : {"move"}, n : 0 .. Slots + 1, loc : {0, 1, -1}, named : {FALSE}, ev : {"", "mega"}]
      \cup [ty : {"move"}, n : {1}, loc : {0, 1}, named : {TRUE}, ev : {"", "tera", "zmove", "megax"}]
      \cup [ty : {"switch"}, n : {0, 1, 3, 4}]
      \cup [ty : {"team"}, order : {<<2>>, <<3, 3>>, <<5>>}]
      \cup [ty : {"pass", "default", "junk", "shift"}]
=============================================================================
