------------------------------ MODULE TurnLoop ------------------------------
(***************************************************************************)
(* The turn of crates/vgc-engine-core/src/battle.rs in doubles, with       *)
(* decision_phases on: pre-turn switches, the action queue, drags, forced  *)
(* and self switches with their stops, faint replacements.  Damage is      *)
(* abstracted to who faints, speed to any order of what is still queued.   *)
(* The picks of a stop are chosen at the stop; PsSession has the replay    *)
(* that gets them there.                                                   *)
(***************************************************************************)
EXTENDS Naturals, Sequences, FiniteSets

CONSTANTS
    Size,         \* side -> mons brought; mon numbers are team indices
    Moves,        \* kinds of move the mons may use
    Button,       \* <<side, mon>> holding an Eject Button
    Card,         \* ... a Red Card
    Exit,         \* ... with Emergency Exit
    Chaser,       \* ... whose move is Pursuit
    MaxKO,        \* bound: knock-outs by one action
    MaxTurns      \* bound: turns

Sides == {"p1", "p2"}
Slots == {0, 1}
Kinds == {"hit", "pivot", "phaze", "swap", "revive"}
Mons(s) == 0 .. Size[s] - 1
Foe(s) == IF s = "p1" THEN "p2" ELSE "p1"

ASSUME TurnAssumption ==
    /\ Size \in [Sides -> Nat \ {0, 1}] /\ Moves \subseteq Kinds
    /\ MaxKO \in Nat /\ MaxTurns \in Nat

VARIABLES
    pc,           \* where step_one stands
    side,         \* the two Side records and the per-side latches of Battle
    queue,        \* ActionOrder: the move actions left, `mon` whom they were chosen for
    switches,     \* pre-turn switches left
    drags,        \* force_switch_flags
    halved,       \* hp_before_action: who fell to half HP in this action
    todo,         \* sides the running sweep has left
    ended,        \* Battle.ended
    turn,
    acted         \* history: who acted this turn, on whose action

turnloop == <<pc, side, queue, switches, drags, halved, todo, ended, turn, acted>>

SideState(s) ==
    [active : [Slots -> Mons(s)], order : [Mons(s) -> Mons(s)], fainted : SUBSET Mons(s),
     flag : [Mons(s) -> {"none", "self", "forced", "revive"}], items : SUBSET Mons(s),
     replaced : SUBSET Slots, chased : SUBSET Slots,
     deferred : Seq([slot : Slots, mon : Mons(s)]), used : SUBSET Nat,
     crossed : SUBSET Mons(s), revived : BOOLEAN]

Standing(d, slot) == d.active[slot] \notin d.fainted
Up(d) == {slot \in Slots : Standing(d, slot)}
Bench(s, d) == Mons(s) \ (d.fainted \cup {d.active[0], d.active[1]})
Reserve(s, d) == {d.order[i] : i \in Mons(s) \ Slots} \ d.fainted
Out(s, d) == d.fainted = Mons(s)
\* Mutated form: the bench is forgotten.
Over_FieldOnly(S) == \E s \in Sides : Up(S[s]) = {}
Over(S) == \E s \in Sides : Out(s, S[s])
Flagged(d) == {slot \in Slots : d.flag[d.active[slot]] # "none"}
Lowest(S) == CHOOSE x \in S : \A y \in S : x <= y
Place(d, m) == CHOOSE i \in DOMAIN d.order : d.order[i] = m

\* do_switch: the active mon and, by note_ps_switch, the party order; then what
\* the mon that enters loses.  `crossed` is history: who left or entered this turn.
Seat(d, slot, m) ==
    IF m \in d.fainted THEN d
    ELSE [d EXCEPT !.active = [d.active EXCEPT ![slot] = m],
                   !.order = [d.order EXCEPT ![Place(d, m)] = d.order[slot], ![slot] = m],
                   !.flag = [d.flag EXCEPT ![m] = "none"],
                   !.crossed = d.crossed \cup {d.active[slot], m}]

MidTurnSeat(d, slot, m) ==
    IF m \in d.fainted THEN d
    ELSE [Seat(d, slot, m) EXCEPT !.replaced = d.replaced \cup {slot}]

\* Mutated form: whoever is up comes in, the mon in the other slot included.
ForceAuto_TakesAlly(s, d, slot) ==
    LET fit == Mons(s) \ (d.fainted \cup {d.active[slot]})
    IN  IF fit = {} THEN d ELSE MidTurnSeat(d, slot, Lowest(fit))

\* force_switch_auto: the first of the bench.
ForceAuto(s, d, slot) ==
    IF Bench(s, d) = {} THEN d ELSE MidTurnSeat(d, slot, Lowest(Bench(s, d)))

ReviveMon(d, m) ==
    LET up == [d EXCEPT !.fainted = d.fainted \ {m}]
        at == {slot \in Slots : d.active[slot] = m}
    IN  IF at = {} THEN up ELSE Seat(up, Lowest(at), m)

OnField == UNION {{<<s, side[s].active[slot]>> : slot \in Up(side[s])} : s \in Sides}
Pending(S) == \E s \in Sides : Flagged(S[s]) # {}
NeedsReplacement(s) ==
    {slot \in Slots : Bench(s, side[s]) # {} /\ (~Standing(side[s], slot) \/ side[s].flag[side[s].active[slot]] = "forced")}
Asked(s) ==
    {slot \in Flagged(side[s]) : Bench(s, side[s]) # {} \/ side[s].flag[side[s].active[slot]] = "revive"}

\* Side::choose on a switch request: as many switches as the bench allows,
\* the other asked slots pass; a revival names a fainted mon.
Answers(s, slots) ==
    LET d    == side[s]
        need == IF Cardinality(slots) <= Cardinality(Reserve(s, d)) THEN Cardinality(slots)
                ELSE Cardinality(Reserve(s, d))
    IN  IF \E slot \in slots : d.flag[d.active[slot]] = "revive"
        THEN [slots -> d.fainted]
        ELSE UNION {{f \in [T -> Reserve(s, d)] : \A a, b \in T : f[a] = f[b] => a = b} :
                       T \in {T \in SUBSET slots : Cardinality(T) = need}}

Init ==
    /\ pc = "idle" /\ ended = FALSE /\ turn = 0
    /\ side = [s \in Sides |->
                 [active |-> [slot \in Slots |-> slot], order |-> [m \in Mons(s) |-> m],
                  fainted |-> {}, flag |-> [m \in Mons(s) |-> "none"],
                  items |-> {m \in Mons(s) : <<s, m>> \in Button \cup Card},
                  replaced |-> {}, chased |-> {},
                  deferred |-> <<>>, used |-> {}, crossed |-> {}, revived |-> FALSE]]
    /\ queue = {} /\ switches = {} /\ drags = {} /\ halved = {} /\ todo = {} /\ acted = {}

-----------------------------------------------------------------------------
(* StepPhase::Start.  A slot's order is the mon that is to stand there: its *)
(* own mon for a move (or for the pass of a fainted one).                   *)

Orders(s) ==
    LET d == side[s]
    IN  {f \in [Slots -> Mons(s)] :
           /\ f[0] # f[1]
           /\ \A slot \in Slots :
                 f[slot] = d.active[slot] \/ (Standing(d, slot) /\ f[slot] \in Bench(s, d))}

\* Mutated form: the picks of the last turn stay marked as used.
Fresh_KeepsUsed(s, d) ==
    [d EXCEPT !.flag = [m \in Mons(s) |-> "none"],
              !.replaced = {}, !.chased = {}, !.deferred = <<>>, !.crossed = {}]

\* turn_prologue clears what only lives within a turn.
Fresh(s, d) ==
    [d EXCEPT !.flag = [m \in Mons(s) |-> "none"],
              !.replaced = {}, !.chased = {}, !.deferred = <<>>, !.used = {}, !.crossed = {}]

\* The slots whose mon was given a move, and the entries of some slots.
Moving(o, s) == {slot \in Up(side[s]) : o[s][slot] = side[s].active[slot]}
Entries(o, s, slots) == {[side |-> s, slot |-> slot, mon |-> o[s][slot]] : slot \in slots}

Begin ==
    /\ pc = "idle" /\ ~ended /\ turn < MaxTurns
    /\ \A s \in Sides : NeedsReplacement(s) = {}
    /\ \E o1 \in Orders("p1"), o2 \in Orders("p2") :
          LET o == [s \in Sides |-> IF s = "p1" THEN o1 ELSE o2]
          IN  /\ queue' = UNION {Entries(o, s, Moving(o, s)) : s \in Sides}
              /\ switches' = UNION {Entries(o, s, Up(side[s]) \ Moving(o, s)) : s \in Sides}
    /\ side' = [s \in Sides |-> Fresh(s, side[s])]
    /\ acted' = {}
    /\ pc' = IF switches' = {} THEN "loop" ELSE "switching"
    /\ UNCHANGED <<drags, halved, todo, ended, turn>>

\* What an action did to a side: who fainted, whose item is gone, and who has
\* to leave, by which kind of flag.
Hurt(d, fell, lost, leave, kind) ==
    [d EXCEPT !.fainted = d.fainted \cup fell,
              !.items = d.items \ lost,
              !.flag = [m \in DOMAIN d.flag |-> IF m \in leave THEN kind ELSE d.flag[m]]]

Mon(e) == side[e.side].active[e.slot]

Chasers(w) ==
    {e \in queue : /\ e.side = Foe(w.side) /\ <<e.side, e.mon>> \in Chaser
                   /\ side[e.side].active[e.slot] = e.mon /\ Standing(side[e.side], e.slot)
                   /\ e.slot \notin side[e.side].chased}

\* The mon that Pursuit strikes as it leaves; then, of one that survives, the
\* Red Card and the Eject Button.
Struck(w) == {m \in {Mon(w)} : Chasers(w) # {} /\ Standing(side[w.side], w.slot)}
Carded(w, first, ko) ==
    {m \in (Struck(w) \ ko) \cap side[w.side].items :
        <<w.side, m>> \in Card /\ Bench(first.side, side[Foe(w.side)]) # {}}
Released(w, ko) == {m \in (Struck(w) \ ko) \cap side[w.side].items : <<w.side, m>> \in Button}

\* One switch of apply_pre_turn_switches, in any order of speed: Pursuit
\* strikes first and uses up the chaser's action, then the mon leaves.
PreTurnSwitch ==
    /\ pc = "switching"
    /\ \E w \in switches : \E first \in Chasers(w) \cup {w}, ko \in SUBSET Struck(w) :
          LET d     == side[w.side]
              f     == side[Foe(w.side)]
              card  == Carded(w, first, ko)
              leave == Released(w, ko)
          IN  /\ first = w <=> Chasers(w) = {}
              /\ side' = [side EXCEPT
                    ![w.side] = Seat(Hurt(d, ko, card \cup leave, leave, "forced"), w.slot, w.mon),
                    ![Foe(w.side)] = [f EXCEPT !.chased = f.chased \cup {e.slot : e \in Chasers(w)}]]
              /\ drags' = drags \cup {[side |-> first.side, slot |-> first.slot] : m \in card}
              /\ acted' = acted \cup {[side |-> e.side, mon |-> e.mon, queued |-> e.mon, how |-> "chase"] :
                                       e \in Chasers(w)}
              /\ switches' = switches \ {w}
              /\ pc' = IF switches' = {} THEN "drags" ELSE pc
    /\ UNCHANGED <<queue, halved, todo, ended, turn>>
-----------------------------------------------------------------------------
(* StepPhase::ActionLoop: one entry of the queue, then the tail of it.      *)

\* Mutated form: a mon that came in takes over the action of its slot.
CanAct_NoReplaced(e) ==
    Standing(side[e.side], e.slot) /\ e.slot \notin side[e.side].chased
CanAct(e) ==
    /\ Standing(side[e.side], e.slot)
    /\ e.slot \notin side[e.side].chased \cup side[e.side].replaced

\* process_one_action of an entry that may not act; its tail has nothing to do.
Skip(e) ==
    /\ ~CanAct(e)
    /\ queue' = queue \ {e}
    /\ UNCHANGED <<pc, side, switches, drags, halved, todo, ended, turn, acted>>

Acts(e) ==
    /\ CanAct(e)
    /\ acted' = acted \cup {[side |-> e.side, mon |-> Mon(e), queued |-> e.mon, how |-> "turn"]}
    /\ pc' = "drags"
    /\ UNCHANGED <<switches, todo, ended, turn>>

\* A hit on some slots of side s, of whom ko fainted: who stood there, who lets
\* go of an Eject Button, and who of `slots` fell to half HP with Emergency Exit.
Met(d, slots) == {d.active[slot] : slot \in slots}
Pushed(s, d, slots, ko) ==
    {m \in (Met(d, slots) \ ko) \cap d.items : <<s, m>> \in Button /\ Bench(s, d) # {}}
Halving(s, d, slots, ko) ==
    {[side |-> s, slot |-> slot, mon |-> d.active[slot]] :
        slot \in {x \in slots : d.active[x] \notin ko /\ <<s, d.active[x]>> \in Exit}}

\* The user is up and has somebody to switch with: its pivot leaves, and the
\* Red Cards of those it hit work, the first of them.
MayLeave(e, fell) == fell = {} /\ Bench(e.side, side[e.side]) # {}
Pivots(e, kind, slots, fell) ==
    {m \in {Mon(e)} : kind = "pivot" /\ slots # {} /\ MayLeave(e, fell)}
Cards(e, d, slots, fell, ko) ==
    {slot \in slots : /\ MayLeave(e, fell) /\ <<Foe(e.side), d.active[slot]>> \in Card
                      /\ d.active[slot] \in d.items \ ko}
Shown(d, cards) == {d.active[slot] : slot \in {x \in cards : \A y \in cards : x <= y}}

\* A damaging move: it meets the foes in `slots` (none: it missed), and each
\* may faint, as may the user from recoil.  Then, of the survivors, the
\* holders' Red Card and Eject Button, the user's own pivot, and whoever
\* with Emergency Exit fell to half HP.
Attack(e, kind) ==
    LET a == side[e.side]
        f == side[Foe(e.side)]
    IN  /\ (e.mon = Mon(e) /\ <<e.side, e.mon>> \in Chaser) => kind = "hit"
        /\ \E slots \in SUBSET Up(f), fell \in SUBSET {Mon(e)}, ko \in SUBSET Met(f, Up(f)) :
              LET cards  == Cards(e, f, slots, fell, ko)
                  pushed == Pushed(Foe(e.side), f, slots, ko)
              IN  /\ ko \subseteq Met(f, slots)
                  /\ Cardinality(ko) + Cardinality(fell) <= MaxKO
                  /\ kind = "pivot" => Cardinality(slots) <= 1
                  /\ fell # {} => slots # {}
                  /\ side' = [side EXCEPT
                        ![e.side] = Hurt(a, fell, {}, Pivots(e, kind, slots, fell), "self"),
                        ![Foe(e.side)] = Hurt(f, ko, pushed \cup Shown(f, cards), pushed, "forced")]
                  /\ drags' = {[side |-> e.side, slot |-> slot] : slot \in {x \in {e.slot} : cards # {}}}
                  /\ halved' \in SUBSET {h \in Halving(Foe(e.side), f, slots, ko)
                                                \cup Halving(e.side, a, {e.slot}, fell) : slots # {}}
        /\ queue' = queue \ {e}
        /\ Acts(e)

\* Roar and Whirlwind.
Phaze(e) ==
    /\ \E slot \in Up(side[Foe(e.side)]) :
          drags' = IF Bench(Foe(e.side), side[Foe(e.side)]) = {} THEN {}
                   ELSE {[side |-> Foe(e.side), slot |-> slot]}
    /\ queue' = queue \ {e}
    /\ Acts(e)
    /\ UNCHANGED <<side, halved>>

\* Mutated forms: the queue, or the party order, is left as it was.
AllySwitch_QueueStays(e) ==
    LET d == side[e.side]
    IN  /\ Standing(d, 1 - e.slot)
        /\ side' = [side EXCEPT ![e.side] =
                      [d EXCEPT !.active = [slot \in Slots |-> d.active[1 - slot]],
                                !.order = [d.order EXCEPT ![0] = d.order[1], ![1] = d.order[0]],
                                !.chased = {1 - slot : slot \in d.chased}]]
        /\ queue' = queue \ {e}
        /\ Acts(e)
        /\ UNCHANGED <<drags, halved>>

AllySwitch_OrderStays(e) ==
    LET d == side[e.side]
    IN  /\ Standing(d, 1 - e.slot)
        /\ side' = [side EXCEPT ![e.side] =
                      [d EXCEPT !.active = [slot \in Slots |-> d.active[1 - slot]],
                                !.chased = {1 - slot : slot \in d.chased}]]
        /\ queue' = {IF x.side = e.side THEN [x EXCEPT !.slot = 1 - @] ELSE x : x \in queue \ {e}}
        /\ Acts(e)
        /\ UNCHANGED <<drags, halved>>

\* Ally Switch, with finalize_move_resolution: the queue and the Pursuit
\* latches follow the two mons.
AllySwitch(e) ==
    LET d == side[e.side]
    IN  /\ Standing(d, 1 - e.slot)
        /\ side' = [side EXCEPT ![e.side] =
                      [d EXCEPT !.active = [slot \in Slots |-> d.active[1 - slot]],
                                !.order = [d.order EXCEPT ![0] = d.order[1], ![1] = d.order[0]],
                                !.chased = {1 - slot : slot \in d.chased}]]
        /\ queue' = {IF x.side = e.side THEN [x EXCEPT !.slot = 1 - @] ELSE x : x \in queue \ {e}}
        /\ Acts(e)
        /\ UNCHANGED <<drags, halved>>

\* Revival Blessing; bound: it works once a side.
Revive(e) ==
    /\ side[e.side].fainted # {} /\ ~side[e.side].revived
    /\ side' = [side EXCEPT ![e.side] =
                  [side[e.side] EXCEPT !.flag = [side[e.side].flag EXCEPT ![Mon(e)] = "revive"],
                                       !.revived = TRUE]]
    /\ queue' = queue \ {e}
    /\ Acts(e)
    /\ UNCHANGED <<drags, halved>>

RunAction ==
    /\ pc = "loop" /\ ~Over(side)
    /\ \E e \in queue :
          \/ Skip(e)
          \/ \E kind \in Moves \cap {"hit", "pivot"} : Attack(e, kind)
          \/ "phaze" \in Moves /\ Phaze(e)
          \/ "swap" \in Moves /\ AllySwitch(e)
          \/ "revive" \in Moves /\ Revive(e)

\* run_pending_drags, one flag at a time: p1 before p2, slot 0 before 1.
Drag ==
    /\ pc = "drags" /\ drags # {}
    /\ \E g \in drags :
          LET d == side[g.side]
          IN  /\ \A h \in drags : g.side = "p1" \/ h.side = "p2"
              /\ \A h \in drags : h.side = g.side => g.slot <= h.slot
              /\ drags' = drags \ {g}
              /\ IF Standing(d, g.slot) /\ Reserve(g.side, d) # {}
                 THEN \E m \in Reserve(g.side, d) :
                        side' = [side EXCEPT ![g.side] = MidTurnSeat(d, g.slot, m)]
                 ELSE UNCHANGED side
    /\ UNCHANGED <<pc, queue, switches, halved, todo, ended, turn, acted>>

\* p_mid_turn_sync: a pending switch is asked for while the log is open, which
\* the win at the end of the move has closed; then the sweep runs unasked.
\* Mutated form: a stop after the last faint, too.
Sync_Always(S) == IF Pending(S) THEN "stop" ELSE "loop"
Sync(S) == IF ~Pending(S) THEN "loop" ELSE IF Over(S) THEN "sweep" ELSE "stop"

\* Mutated form: nobody has to be on the bench.
EmergencyExits_NoBench ==
    /\ pc = "drags" /\ drags = {}
    /\ side' = [s \in Sides |->
                  [side[s] EXCEPT !.flag = [m \in Mons(s) |->
                      IF /\ side[s].flag[m] = "none" /\ m \notin side[s].fainted
                         /\ \E h \in halved : h.side = s /\ h.mon = m /\ side[s].active[h.slot] = m
                      THEN "forced" ELSE side[s].flag[m]]]]
    /\ pc' = Sync(side') /\ todo' = IF pc' = "loop" THEN {} ELSE Sides
    /\ halved' = {}
    /\ UNCHANGED <<queue, switches, drags, ended, turn, acted>>

\* trigger_emergency_exits, then the head of apply_self_switches.
EmergencyExits ==
    /\ pc = "drags" /\ drags = {}
    /\ side' = [s \in Sides |->
                  [side[s] EXCEPT !.flag = [m \in Mons(s) |->
                      IF /\ side[s].flag[m] = "none" /\ m \notin side[s].fainted /\ Bench(s, side[s]) # {}
                         /\ \E h \in halved : h.side = s /\ h.mon = m /\ side[s].active[h.slot] = m
                      THEN "forced" ELSE side[s].flag[m]]]]
    /\ pc' = Sync(side') /\ todo' = IF pc' = "loop" THEN {} ELSE Sides
    /\ halved' = {}
    /\ UNCHANGED <<queue, switches, drags, ended, turn, acted>>
-----------------------------------------------------------------------------
(* The mid-turn stop, its answer, and apply_self_switches.                  *)

\* The `mid` picks of a side, slot 0 first.
Listed(f) ==
    (IF 0 \in DOMAIN f THEN <<[slot |-> 0, mon |-> f[0]]>> ELSE <<>>) \o
    (IF 1 \in DOMAIN f THEN <<[slot |-> 1, mon |-> f[1]]>> ELSE <<>>)

Answer ==
    /\ pc = "stop"
    /\ \E f1 \in Answers("p1", Asked("p1")), f2 \in Answers("p2", Asked("p2")) :
          side' = [s \in Sides |->
                    [side[s] EXCEPT !.deferred = side[s].deferred \o Listed(IF s = "p1" THEN f1 ELSE f2)]]
    /\ pc' = "sweep"
    /\ UNCHANGED <<queue, switches, drags, halved, todo, ended, turn, acted>>

\* `deferred` is an array of two: a later pick is not in it.
Kept == 2
Picks(d, slot) ==
    {i \in (DOMAIN d.deferred \cap 1 .. Kept) \ d.used : d.deferred[i].slot = slot}

\* Mutated forms: the pick is used up and the first of the bench sent in; the
\* flag outlives a sweep without a pick.
SweepSlot_Auto(s, d, slot) ==
    LET m == d.active[slot]
        cleared == [d EXCEPT !.flag[m] = "none"]
    IN  IF d.flag[m] = "none" THEN d
        ELSE ForceAuto(s, [cleared EXCEPT !.used = @ \cup Picks(d, slot)], slot)

SweepSlot_KeepsFlag(s, d, slot) ==
    LET m       == d.active[slot]
        kind    == d.flag[m]
        cleared == [d EXCEPT !.flag = [d.flag EXCEPT ![m] = "none"]]
        i       == Lowest(Picks(d, slot))
        taken   == [cleared EXCEPT !.used = d.used \cup {i}]
    IN  CASE kind = "none" \/ Picks(d, slot) = {} -> d
          [] kind = "revive" /\ Picks(d, slot) # {} -> ReviveMon(taken, d.deferred[i].mon)
          [] kind \in {"self", "forced"} /\ Picks(d, slot) # {} ->
                MidTurnSeat(taken, slot, d.deferred[i].mon)

SweepSlot(s, d, slot) ==
    LET m       == d.active[slot]
        kind    == d.flag[m]
        cleared == [d EXCEPT !.flag = [d.flag EXCEPT ![m] = "none"]]
        i       == Lowest(Picks(d, slot))
        taken   == [cleared EXCEPT !.used = d.used \cup {i}]
    IN  CASE kind = "none" -> d
          [] kind = "revive" /\ Picks(d, slot) # {} -> ReviveMon(taken, d.deferred[i].mon)
          [] kind = "revive" /\ Picks(d, slot) = {} -> ReviveMon(cleared, Lowest(d.fainted))
          [] kind \in {"self", "forced"} /\ Picks(d, slot) # {} ->
                MidTurnSeat(taken, slot, d.deferred[i].mon)
          [] kind = "forced" /\ Picks(d, slot) = {} -> ForceAuto(s, cleared, slot)
          [] kind = "self" /\ Picks(d, slot) = {} -> cleared

\* One side of the sweep; the faster side goes first.
Sweep ==
    /\ pc = "sweep"
    /\ \E s \in todo :
          /\ side' = [side EXCEPT ![s] = SweepSlot(s, SweepSlot(s, side[s], 0), 1)]
          /\ todo' = todo \ {s}
    /\ pc' = IF todo' = {} THEN "loop" ELSE pc
    /\ UNCHANGED <<queue, switches, drags, halved, ended, turn, acted>>

-----------------------------------------------------------------------------
(* StepPhase::Epilogue and the replacement round.                           *)

\* turn_epilogue sweeps once more before the residuals.
EndOfActions ==
    /\ pc = "loop"
    /\ queue = {} \/ Over(side)
    /\ pc' = IF Pending(side) THEN Sync(side) ELSE "residual"
    /\ todo' = IF Pending(side) THEN Sides ELSE {}
    /\ UNCHANGED <<side, queue, switches, drags, halved, ended, turn, acted>>

\* turn_epilogue: residual damage, the residual Emergency Exits, the winner.
Residual ==
    /\ pc = "residual"
    /\ \E hurt \in SUBSET OnField, exits \in SUBSET (Exit \cap OnField) :
          LET d == [s \in Sides |->
                      [side[s] EXCEPT !.fainted = side[s].fainted \cup {m \in Mons(s) : <<s, m>> \in hurt}]]
              over == Over(d)
          IN  /\ Cardinality(hurt) <= MaxKO /\ exits \cap hurt = {}
              /\ Over(side) => hurt = {}
              /\ over => exits = {}
              /\ \A x \in exits : d[x[1]].flag[x[2]] = "none" /\ Bench(x[1], d[x[1]]) # {}
              /\ side' = [s \in Sides |->
                            [d[s] EXCEPT !.flag = [m \in Mons(s) |->
                                IF <<s, m>> \in exits THEN "forced" ELSE d[s].flag[m]]]]
              /\ ended' = over
    /\ pc' = "idle" /\ turn' = turn + 1 /\ queue' = {}
    /\ UNCHANGED <<switches, drags, halved, todo, acted>>

PutIn(f, d, slot) == IF slot \in DOMAIN f THEN Seat(d, slot, f[slot]) ELSE d

\* A residual Emergency Exit that nothing was picked for: the first of the bench.
LetOut(s, d, slot) ==
    LET m == d.active[slot]
        c == [d EXCEPT !.flag = [d.flag EXCEPT ![m] = "none"]]
    IN  IF d.flag[m] # "forced" \/ m \in d.fainted THEN d
        ELSE IF Bench(s, c) = {} THEN c ELSE Seat(c, slot, Lowest(Bench(s, c)))

\* apply_replacement_switches of one side, its picks in f.
Refill(s, d, f) == LetOut(s, LetOut(s, PutIn(f, PutIn(f, d, 0), 1), 0), 1)

\* Both sides have sent their picks in; whom an entry hazard knocks out.
Refilled(f1, f2) == [s \in Sides |-> Refill(s, side[s], IF s = "p1" THEN f1 ELSE f2)]
Landed(set, s) == {slot \in Slots : set[s].active[slot] # side[s].active[slot]}
Spiked(set, s, spikes) == {set[s].active[slot] : slot \in {x \in Landed(set, s) : <<s, x>> \in spikes}}

\* The replacements, then the winner: an entry hazard can knock one of them out.
Replace ==
    /\ pc = "idle" /\ ~ended
    /\ \E s \in Sides : NeedsReplacement(s) # {}
    /\ \E f1 \in Answers("p1", NeedsReplacement("p1")), f2 \in Answers("p2", NeedsReplacement("p2")) :
       \E spikes \in {{}} \cup {{x} : x \in Sides \X Slots} :
          LET set == Refilled(f1, f2)
          IN  /\ \A x \in spikes : x[2] \in Landed(set, x[1]) /\ MaxKO > 0
              /\ side' = [s \in Sides |-> Hurt(set[s], Spiked(set, s, spikes), {}, {}, "none")]
    /\ ended' = Over(side')
    /\ UNCHANGED <<pc, queue, switches, drags, halved, todo, turn, acted>>

Step == PreTurnSwitch \/ RunAction \/ Drag \/ EmergencyExits \/ Answer \/ Sweep \/ EndOfActions \/ Residual

Next == Begin \/ Step \/ Replace

\* step_one runs to the end of a turn; a player answers a stop.
Spec == Init /\ [][Next]_turnloop /\ WF_turnloop(Step)

-----------------------------------------------------------------------------
(* Nobody acts twice in a turn, and nobody acts on an action chosen for     *)
(* another mon, whatever left, came in or changed places in between         *)
(* ("its queued move belongs to a mon that left", battle.rs 600-602).       *)
OwnAction ==
    \A x \in acted : x.mon = x.queued /\ \A y \in acted : y.side = x.side /\ y.mon = x.mon => y = x

(* A mon that was given a move, never left the field and is still standing  *)
(* has had its action by the end of the turn, unless the battle is over     *)
(* ("Without this the switcher would act twice and its ally never would").  *)
EveryoneActs ==
    pc = "residual" /\ ~Over(side) =>
        \A s \in Sides : \A slot \in Up(side[s]) :
            \/ side[s].active[slot] \in side[s].crossed
            \/ \E x \in acted : x.side = s /\ x.mon = side[s].active[slot]

(* Actions follow the mons they were chosen for, not the slots: each is      *)
(* taken once, by its own mon, and none is lost.                             *)
ActionsFollowMons == OwnAction /\ EveryoneActs

(* The two active slots of a side hold two mons and ps_order has them first *)
(* (side.rs 37-39), however switches, pivots, Ally Switches, drags, forced  *)
(* and automatic switches interleave, when one mon a side at most is made   *)
(* to leave by its item or ability: with two forced slots over one reserve, *)
(* battle.rs:7408 sends that one in twice.                                  *)
Positions ==
    \A s \in Sides :
        /\ side[s].active[0] # side[s].active[1]
        /\ \A slot \in Slots : side[s].order[slot] = side[s].active[slot]

(* Every pick given at a mid-turn stop is used up in the sweep right after  *)
(* it, so none is left over or lost.                                        *)
PicksUsed ==
    pc \notin {"stop", "sweep"} => \A s \in Sides : side[s].used = DOMAIN side[s].deferred

(* A mid-turn stop asks somebody of a battle that is not over: the session  *)
(* would show it as a request and wait for an answer nobody owes ("none     *)
(* once the battle is over", battle_protocol.rs 2280-2282; settle,          *)
(* ps_session.rs:483-500, has no check of its own).  And residuals never    *)
(* start over a switch that somebody still owes.                            *)
StopsAskSomeone ==
    /\ pc = "stop" => ~Over(side) /\ \E s \in Sides : Asked(s) # {}
    /\ pc = "residual" => ~Pending(side)

(* Between turns, after faints in a turn, in its residuals or on entry, the *)
(* battle is over exactly when a whole team is down (battle.rs 3088-3093).  *)
OverWhenOut ==
    pc = "idle" => (ended <=> \E s \in Sides : side[s].fainted = Mons(s))

(* In a sweep of self switches only the slots asked at the stop change,     *)
(* each to the pick of the side that was asked.                             *)
SweepTakesPicks ==
    [][pc = "sweep" =>
        \A s \in Sides : \A slot \in Slots :
            LET d == side[s]
                e == side'[s]
            IN  e.active[slot] # d.active[slot] =>
                    \E i \in e.used \ d.used : d.deferred[i] = [slot |-> slot, mon |-> e.active[slot]]]_turnloop

(* Every turn that starts comes to its end, if the stops are answered.      *)
TurnEnds == pc # "idle" ~> pc = "idle"
=============================================================================
