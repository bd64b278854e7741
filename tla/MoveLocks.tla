----------------------------- MODULE MoveLocks -----------------------------
(***************************************************************************)
(* What a mon may choose and use while its moves are locked: the Choice    *)
(* lock, Encore, Disable, Throat Chop, Taunt, Heal Block, Torment and      *)
(* Imprison of crates/vgc-engine-core.  pokemon.rs keeps them as volatiles *)
(* with a cached summary; battle.rs sets, ticks and enforces them; and the *)
(* menu is computed twice, for agents from the summary                     *)
(* (legal_choices_into) and for a player's request from the volatiles      *)
(* (ps_request.rs).  Foes and partners do anything that touches a lock,    *)
(* before or after the mon acts; `mon` is whoever stands in its place.     *)
(***************************************************************************)
EXTENDS Naturals, FiniteSets

CONSTANTS
    Slots,        \* move slots of a mon: 0 .. Slots - 1; Slots itself is Struggle's
    MaxPP,
    Status, Sound, Heal,   \* the slots of such moves
    Twice,        \* ... of moves that cannot be used twice in a row
    Baton,        \* ... of Baton Pass
    Shared,       \* ... of moves that the foe with Imprison knows too
    Kits,         \* [item, tactics] a mon may come with; tactics: Gorilla Tactics
    Deeds,        \* what the others may do
    MaxDeeds      \* bound: how often, in a behaviour

Slot     == 0 .. Slots - 1
Struggle == Slots
None     == Slots + 1
Items    == {"choice", "herb", "none"}
Flat     == {"chop", "taunt", "heal"}           \* locks that are a countdown
Locks    == Flat \cup {"choice", "encore", "disable"}
Timed    == {"encore", "disable", "taunt"}      \* locks with a length of their own

ASSUME LocksAssumption ==
    /\ Slots \in Nat \ {0} /\ MaxPP \in 1 .. 4 /\ MaxDeeds \in Nat
    /\ Status \cup Sound \cup Heal \cup Twice \cup Baton \cup Shared \subseteq Slot
    /\ Kits \subseteq [item : Items, tactics : BOOLEAN]
    /\ Deeds \subseteq Flat \cup {"encore", "disable", "curse", "torment", "imprison", "spite",
                                  "room", "item", "ability", "cure", "drag"}

VARIABLES
    champions,    \* Battle.champions: Encore changes the queued move at once
    pc,           \* "menu", then "before" and "after" the mon's action
    mon,          \* the mon in the place
    queued,       \* the move of its action
    came,         \* JustSwitchedIn
    room,         \* item_suppressed: Magic Room is up
    sealed,       \* a foe that used Imprison is active
    deeds,
    used,         \* history: the move that went off in the last step
    held,         \* history: moves it used since its Choice item has been at work
    spent, due    \* history: lock -> actions it has fallen on, and is meant to

vars == <<champions, pc, mon, queued, came, room, sealed, deeds, used, held, spent, due>>

-----------------------------------------------------------------------------
(* pokemon.rs: the volatiles, and `locks`, the summary kept beside them.    *)

Off == [turns |-> 0, slot |-> None]

Fresh(kit) ==
    [pp |-> [i \in Slot |-> MaxPP], item |-> kit.item, tactics |-> kit.tactics, lock |-> None,
     encore |-> Off, disable |-> Off, flat |-> [l \in Flat |-> 0], torment |-> FALSE,
     last |-> None, locks |-> {}]

Active(m, l) ==
    CASE l = "choice"              -> m.lock # None
      [] l \in {"encore", "disable"} -> m[l].turns > 0
      [] l \in Flat                -> m.flat[l] > 0

Sync(m)      == [m EXCEPT !.locks = {l \in Locks : Active(m, l)}]
Bit(m, l, b) == [m EXCEPT !.locks = IF b THEN @ \cup {l} ELSE @ \ {l}]

SetLock(m, i) == Bit([m EXCEPT !.lock = i], "choice", i # None)
SetFlat(m, l, n) == Bit([m EXCEPT !.flat[l] = n], l, n > 0)
SetSlot(m, l, n, i) == Bit([m EXCEPT ![l] = IF n = 0 THEN Off ELSE [turns |-> n, slot |-> i]], l, n > 0)

\* effective_item_id; the Choice items' and Gorilla Tactics' holders.
Item(m, r)   == IF r THEN "none" ELSE m.item
Locker(m, r) == Item(m, r) = "choice" \/ m.tactics

TickFlat(m, l) == IF m.flat[l] = 0 THEN m ELSE SetFlat(m, l, m.flat[l] - 1)

\* An Encore ends with its move's PP, too.
TickEncore(m) ==
    IF m.encore.turns = 0 THEN m
    ELSE SetSlot(m, "encore", IF m.pp[m.encore.slot] = 0 THEN 0 ELSE m.encore.turns - 1, m.encore.slot)

TickDisable(m) ==
    IF m.disable.turns = 0 THEN m ELSE SetSlot(m, "disable", m.disable.turns - 1, m.disable.slot)

Tick(m) == TickFlat(TickFlat(TickFlat(TickDisable(TickEncore(m)), "chop"), "heal"), "taunt")

\* A Mental Herb's cures, eaten or thrown.
Cured(m) ==
    Sync([m EXCEPT !.flat = [@ EXCEPT !["taunt"] = 0, !["heal"] = 0], !.encore = Off,
                   !.disable = Off, !.torment = FALSE])

\* try_consume_mental_herb: in every Update, and on entering.
Update(m, r) ==
    IF /\ Item(m, r) = "herb"
       /\ m.torment \/ \E l \in {"taunt", "heal", "encore", "disable"} : Active(m, l)
    THEN Cured([m EXCEPT !.item = "none"]) ELSE m

-----------------------------------------------------------------------------
(* The two menus.  With no move on it, a menu is Struggle.                  *)

\* Mutated form: only a Choice item keeps its holder to one move.
Menu_ItemsOnly(m) ==
    {i \in Slot :
        /\ m.pp[i] > 0
        /\ "choice" \in m.locks /\ Item(m, room) = "choice" => m.lock = i
        /\ "encore" \in m.locks /\ m.encore.slot # None => m.encore.slot = i
        /\ "disable" \in m.locks => m.disable.slot # i
        /\ "chop" \in m.locks => i \notin Sound
        /\ "taunt" \in m.locks => i \notin Status
        /\ "heal" \in m.locks => i \notin Heal
        /\ sealed => i \notin Shared}

\* legal_choices_into reads the volatiles only where their bit is set.
Menu(m) ==
    {i \in Slot :
        /\ m.pp[i] > 0
        /\ "choice" \in m.locks /\ Locker(m, room) => m.lock = i
        /\ "encore" \in m.locks /\ m.encore.slot # None => m.encore.slot = i
        /\ "disable" \in m.locks => m.disable.slot # i
        /\ "chop" \in m.locks => i \notin Sound
        /\ "taunt" \in m.locks => i \notin Status
        /\ "heal" \in m.locks => i \notin Heal
        /\ sealed => i \notin Shared}

\* ps_move_disabled: what a request calls disabled, shown or hidden.
Disabled(m, i) ==
    \/ m.pp[i] = 0
    \/ Locker(m, room) /\ m.lock \notin {None, i}
    \/ m.encore.turns > 0 /\ m.encore.slot \notin {None, i}
    \/ m.disable.turns > 0 /\ m.disable.slot = i
    \/ m.flat["chop"] > 0 /\ i \in Sound
    \/ m.flat["taunt"] > 0 /\ i \in Status
    \/ m.flat["heal"] > 0 /\ i \in Heal
    \/ m.torment /\ m.last = i
    \/ i \in Twice /\ m.last = i
    \/ sealed /\ i \in Shared

-----------------------------------------------------------------------------
(* The history variables.                                                   *)

\* The mon that used i (or None), then standing as m under room r.
Holds(m, r, i) == held' = IF Item(m, r) # "choice" THEN {} ELSE IF i \in Slot THEN held \cup {i} ELSE held

\* Locks that are over cost nothing any more.
Counts(m, s, d) ==
    /\ spent' = [l \in Timed |-> IF Active(m, l) THEN s[l] ELSE 0]
    /\ due'   = [l \in Timed |-> IF Active(m, l) THEN d[l] ELSE 0]

-----------------------------------------------------------------------------
Init ==
    /\ champions \in BOOLEAN
    /\ pc = "menu" /\ queued = None /\ came = FALSE /\ room = FALSE /\ sealed = FALSE /\ deeds = 0
    /\ \E kit \in Kits : mon = Fresh(kit)
    /\ used = None /\ held = {} /\ spent = [l \in Timed |-> 0] /\ due = [l \in Timed |-> 0]

\* The prologue: a Choice lock whose item is gone is gone (Magic Room hides none).
Begun(m) == IF m.item # "choice" /\ ~m.tactics THEN SetLock(m, None) ELSE m

Choose ==
    /\ pc = "menu" /\ pc' = "before"
    /\ queued' \in IF Menu(mon) = {} THEN {Struggle} ELSE Menu(mon)
    /\ mon' = Begun(mon)
    /\ used' = None
    /\ UNCHANGED <<champions, came, room, sealed, deeds, held, spent, due>>

\* Mutated form: Baton Pass hands the countdowns over and not their bits.
Passed_Unsynced(old, new) == [new EXCEPT !.flat = old.flat]

\* do_switch's copy for Baton Pass: Encore, Disable and Torment stay behind.
Passed(old, new) == Sync([new EXCEPT !.flat = old.flat])

\* do_switch.
Enter(kit, copy) ==
    LET new == IF copy THEN Passed(mon, Fresh(kit)) ELSE Fresh(kit)
    IN  /\ mon' = Update(new, room)
        /\ came' = TRUE

SwitchOut ==
    /\ pc = "menu" /\ pc' = "after"
    /\ \E kit \in Kits : Enter(kit, FALSE)
    /\ used' = None /\ held' = {}
    /\ Counts(mon', spent, due)
    /\ UNCHANGED <<champions, queued, room, sealed, deeds>>

-----------------------------------------------------------------------------
(* The mon's action: resolve_move_with_pending.                             *)

\* encore_override; in Champions the queued move has been changed already.
Override(m, i) ==
    IF ~champions /\ m.encore.turns > 0 /\ i # Struggle THEN m.encore.slot ELSE i

\* Mutated form: no check of the Choice lock, the menu having seen to it.
Stopped_NoChoice(m, i) ==
    \/ m.disable.slot = i
    \/ m.flat["chop"] > 0 /\ i \in Sound
    \/ m.flat["heal"] > 0 /\ i \in Heal
    \/ m.flat["taunt"] > 0 /\ i \in Status
    \/ sealed /\ i \in Shared

\* check_pre_move_status, as far as the locks go.
Stopped(m, i) ==
    \/ Item(m, room) = "choice" /\ m.lock \notin {None, i} /\ i # Struggle
    \/ m.disable.slot = i
    \/ m.flat["chop"] > 0 /\ i \in Sound
    \/ m.flat["heal"] > 0 /\ i \in Heal
    \/ m.flat["taunt"] > 0 /\ i \in Status
    \/ sealed /\ i \in Shared

\* deduct_pp_main, and the failures of a move's own that pay for it.
Used(m, i) ==
    LET paid == [m EXCEPT !.pp = [k \in Slot |-> IF k = i THEN @[k] - 1 ELSE @[k]], !.last = i]
    IN  IF Locker(m, room) /\ m.lock = None THEN SetLock(paid, i) ELSE paid

\* A move that cannot be used twice fails, and may be tried again after; this
\* comes before the check of the PP and takes what there is of them.
Spoiled(m, i) == [m EXCEPT !.pp[i] = IF @ = 0 THEN 0 ELSE @ - 1, !.last = None]

\* Each action a lock is there for counts, taken or not.
Fallen == [l \in Timed |-> IF Active(mon, l) THEN spent[l] + 1 ELSE spent[l]]

\* The mon does nothing: a lock, an empty slot, sleep, a flinch.
Wait ==
    /\ pc = "before" /\ pc' = "after"
    /\ used' = None
    /\ Counts(mon, Fallen, due)
    /\ UNCHANGED <<champions, mon, queued, came, room, sealed, deeds, held>>

\* Cursed Body: the move that has just hit is disabled.
Cursed(m, i) == SetSlot(m, "disable", 4, i)

Act ==
    /\ pc = "before" /\ pc' = "after"
    /\ LET i == Override(mon, queued)
           d == Used(mon, i)
       IN  /\ ~Stopped(mon, i)
           /\ IF i \in Twice /\ mon.last = i
              THEN /\ mon' = Spoiled(mon, i) /\ used' = None
                   /\ Holds(mon', room, None)
                   /\ Counts(mon', Fallen, due)
                   /\ UNCHANGED <<came, deeds>>
              ELSE /\ i \in Slot => mon.pp[i] > 0
                   /\ used' = i
                   /\ \/ /\ mon' = Update(d, room)
                         /\ Holds(mon', room, i)
                         /\ Counts(mon', Fallen, due)
                         /\ UNCHANGED <<came, deeds>>
                      \/ /\ "curse" \in Deeds /\ deeds < MaxDeeds /\ deeds' = deeds + 1
                         /\ i # Struggle /\ mon.disable.slot = None
                         /\ mon' = Update(Cursed(d, i), room)
                         /\ Holds(mon', room, i)
                         /\ Counts(mon', [Fallen EXCEPT !["disable"] = 0], [due EXCEPT !["disable"] = 3])
                         /\ UNCHANGED came
                      \/ /\ i \in Baton
                         /\ \E kit \in Kits : Enter(kit, TRUE)
                         /\ held' = {}
                         /\ Counts(mon', Fallen, due)
                         /\ UNCHANGED deeds
    /\ UNCHANGED <<champions, queued, room, sealed>>

-----------------------------------------------------------------------------
(* What the others do.  `after` is the mon afterwards, before the Update that  *)
(* follows, under room r.                                                   *)

Pending == pc = "before"

Deed(kind, after, r) ==
    /\ kind \in Deeds /\ pc \in {"before", "after"} /\ deeds < MaxDeeds
    /\ deeds' = deeds + 1
    /\ room' = r
    /\ mon' = Update(after, r)
    /\ used' = None
    /\ Holds(mon', r, None)
    /\ UNCHANGED <<champions, pc, came>>

\* A lock that starts now is to cost n actions.
Starts(kind, n) ==
    Counts(mon', [spent EXCEPT ![kind] = 0], [due EXCEPT ![kind] = n])

Lockable(m) == m.last \in Slot /\ m.pp[m.last] > 0

\* Mutated form: as long for a target that has acted already.
EncoreTurns_Flat == 3

EncoreTurns == IF Pending THEN 3 ELSE 4

\* Mutated form: a muted Mental Herb is expected to cure, too.
Encore_MutedHerb ==
    /\ mon.encore.turns = 0 /\ Lockable(mon)
    /\ Deed("encore", SetSlot(mon, "encore", EncoreTurns, mon.last), room)
    /\ queued' = IF champions /\ Pending /\ mon.item # "herb" THEN mon.last ELSE queued
    /\ Starts("encore", 3)
    /\ UNCHANGED sealed

\* In Champions a different queued move becomes the Encored one at once,
\* unless a Mental Herb is about to cure it.
Encore ==
    /\ mon.encore.turns = 0 /\ Lockable(mon)
    /\ Deed("encore", SetSlot(mon, "encore", EncoreTurns, mon.last), room)
    /\ queued' = IF champions /\ Pending /\ Item(mon, room) # "herb" THEN mon.last ELSE queued
    /\ Starts("encore", 3)
    /\ UNCHANGED sealed

Disable ==
    /\ mon.disable.slot = None /\ Lockable(mon)
    /\ Deed("disable", SetSlot(mon, "disable", IF Pending THEN 4 ELSE 5, mon.last), room)
    /\ Starts("disable", 4)
    /\ UNCHANGED <<queued, sealed>>

\* A mon taunted in the turn it came has no action left to lose in it.
Taunt ==
    /\ mon.flat["taunt"] = 0
    /\ Deed("taunt", SetFlat(mon, "taunt", IF ~came /\ ~Pending THEN 4 ELSE 3), room)
    /\ Starts("taunt", IF came THEN 2 ELSE 3)
    /\ UNCHANGED <<queued, sealed>>

\* Throat Chop and Psychic Noise.
Silence(kind) ==
    /\ mon.flat[kind] = 0
    /\ Deed(kind, SetFlat(mon, kind, 2), room)
    /\ UNCHANGED <<queued, sealed, spent, due>>

Torment ==
    /\ ~mon.torment
    /\ Deed("torment", [mon EXCEPT !.torment = TRUE], room)
    /\ UNCHANGED <<queued, sealed, spent, due>>

Spite ==
    /\ Lockable(mon)
    /\ Deed("spite", [mon EXCEPT !.pp[mon.last] = 0], room)
    /\ UNCHANGED <<queued, sealed, spent, due>>

\* Oblivious, gained in the middle of a turn, ends a Taunt.
Rid(m) == Sync([m EXCEPT !.flat = [@ EXCEPT !["taunt"] = 0]])

\* A Mental Herb thrown at the mon, or Oblivious given to it.
Cure ==
    /\ \E m \in {Cured(mon), Rid(mon)} : Deed("cure", m, room)
    /\ Counts(mon', spent, due)
    /\ UNCHANGED <<queued, sealed>>

\* Knock Off, Trick: the item changes; so may the ability.
Swap ==
    /\ \/ \E item \in Items \ {mon.item} : Deed("item", [mon EXCEPT !.item = item], room)
       \/ Deed("ability", [mon EXCEPT !.tactics = ~@], room)
    /\ Counts(mon', spent, due)
    /\ UNCHANGED <<queued, sealed>>

\* Magic Room is put up, or ended by being used again.
MagicRoom ==
    /\ Deed("room", mon, ~room)
    /\ Counts(mon', spent, due)
    /\ UNCHANGED <<queued, sealed>>

\* A foe uses Imprison, or leaves.
Imprison ==
    /\ sealed' = ~sealed
    /\ Deed("imprison", mon, room)
    /\ UNCHANGED <<queued, spent, due>>

\* The mon is dragged out, its action with it.
Drag ==
    /\ "drag" \in Deeds /\ pc \in {"before", "after"} /\ deeds < MaxDeeds /\ deeds' = deeds + 1
    /\ pc' = "after"
    /\ \E kit \in Kits : Enter(kit, FALSE)
    /\ used' = None /\ held' = {}
    /\ Counts(mon', spent, due)
    /\ UNCHANGED <<champions, queued, room, sealed>>

Others ==
    \/ Encore \/ Disable \/ Taunt \/ Silence("chop") \/ Silence("heal") \/ Torment \/ Spite
    \/ Cure \/ Swap \/ MagicRoom \/ Imprison \/ Drag

\* The residuals may end Magic Room; then the Update, then the countdowns.
EndTurn ==
    /\ pc = "after" /\ pc' = "menu"
    /\ room' \in {room, FALSE}
    /\ mon' = Tick(Update(mon, room'))
    /\ came' = FALSE /\ queued' = None /\ used' = None
    /\ Holds(mon', room', None)
    /\ Counts(mon', spent, due)
    /\ UNCHANGED <<champions, sealed, deeds>>

Next == Choose \/ SwitchOut \/ Wait \/ Act \/ Others \/ EndTurn

Spec == Init /\ [][Next]_vars

-----------------------------------------------------------------------------
(* Properties.                                                              *)

(* The summary tells what the volatiles are, after every step that sets,    *)
(* ticks, cures, passes on or clears one (pokemon.rs 691-698).              *)
LocksCached == mon.locks = {l \in Locks : Active(mon, l)}

(* An agent's legal choices, from the summary, and a player's request, from *)
(* the volatiles, shut the same moves, but for the one used last by a mon   *)
(* under Torment and one that cannot be used twice: only requests shut those *)
MenusAgree ==
    pc = "menu" => \A i \in Slot :
        (mon.last = i => ~mon.torment /\ i \notin Twice)
            => (i \in Menu(mon) <=> ~Disabled(mon, i))

(* Under Encore no other move goes off, however the two came about: the     *)
(* mon's action was chosen before the Encore, its Mental Herb is muted, or  *)
(* the Encored move is out of PP or itself locked (battle.rs 22634-22646).  *)
EncoreBinds ==
    [][used' \in Slot /\ Active(mon, "encore") => used' = mon.encore.slot]_vars

(* As long as a Choice item is at work its holder uses one move: through    *)
(* Magic Room and back, Encores, and items that come and go.                *)
OneMoveEach == Cardinality(held) <= 1

(* A timed lock that runs out has fallen on as many of its target's actions *)
(* whether it hit before or after the target acted in its turn (battle.rs   *)
(* 22672-22699, "so it still loses three status-move turns").               *)
LocksCostTheSame ==
    [][pc = "after" /\ pc' = "menu" /\ mon'.item = mon.item =>
         \A l \in Timed :
            /\ Active(mon, l) /\ ~Active(mon', l)
            /\ l = "encore" => mon.pp[mon.encore.slot] > 0
            => spent[l] = due[l]]_vars
=============================================================================
