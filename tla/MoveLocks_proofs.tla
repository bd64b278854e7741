-------------------------- MODULE MoveLocks_proofs --------------------------
(***************************************************************************)
(* The cached summary of a mon's move locks is right in every reachable    *)
(* state, whatever the moves, the kits, the bounds and the interferences.  *)
(* Each helper that touches a volatile takes a mon whose summary is right  *)
(* to one whose summary is right; a step is one of them after another.     *)
(* From there, that a Choice holder keeps to one move, that no move goes   *)
(* off past an Encore, and that a timed lock costs what it is meant to.    *)
(***************************************************************************)
EXTENDS MoveLocks, FiniteSetTheorems, TLAPS

AnySlot == 0 .. None

Lock == [turns : Nat, slot : AnySlot]

Mon == [pp : [Slot -> Nat], item : Items, tactics : BOOLEAN, lock : AnySlot,
        encore : Lock, disable : Lock, flat : [Flat -> Nat], torment : BOOLEAN,
        last : AnySlot, locks : SUBSET Locks]

Cached(m) == m.locks = {l \in Locks : Active(m, l)}

\* A mon of the right type whose summary is right.
Kept(m) == m \in Mon /\ Cached(m)

IInv == Kept(mon) /\ queued \in AnySlot

LEMMA SlotFacts == None \in AnySlot /\ Struggle \in AnySlot /\ Slot \subseteq AnySlot
BY LocksAssumption DEF None, Struggle, Slot, AnySlot

LEMMA SyncKept == ASSUME NEW m \in Mon PROVE Kept(Sync(m))
<1>1. Sync(m) \in Mon
  BY DEF Sync, Mon
<1>2. \A l \in Locks : Active(Sync(m), l) <=> Active(m, l)
  BY DEF Sync, Active, Mon, Locks, Flat
<1> QED BY <1>1, <1>2 DEF Sync, Cached, Kept, Mon

LEMMA SetLockKept ==
    ASSUME NEW m, Kept(m), NEW i \in AnySlot
    PROVE  Kept(SetLock(m, i))
<1> DEFINE n == SetLock(m, i)
<1>1. n \in Mon
  BY SlotFacts DEF SetLock, Bit, Mon, Locks, Kept
<1>2. \A l \in Locks \ {"choice"} : (Active(n, l) <=> Active(m, l)) /\ (l \in n.locks <=> l \in m.locks)
  BY DEF SetLock, Bit, Mon, Active, Locks, Flat, Kept
<1>3. "choice" \in n.locks <=> Active(n, "choice")
  BY DEF SetLock, Bit, Mon, Active, Locks, Flat, Kept
<1> QED BY <1>1, <1>2, <1>3 DEF Cached, Kept, Mon

LEMMA SetFlatKept ==
    ASSUME NEW m, Kept(m), NEW l \in Flat, NEW t \in Nat
    PROVE  Kept(SetFlat(m, l, t))
<1> DEFINE n == SetFlat(m, l, t)
<1>1. n \in Mon
  BY DEF SetFlat, Bit, Mon, Locks, Kept
<1>2. \A k \in Locks \ {l} : (Active(n, k) <=> Active(m, k)) /\ (k \in n.locks <=> k \in m.locks)
  BY DEF SetFlat, Bit, Mon, Active, Locks, Flat, Kept
<1>3. l \in n.locks <=> Active(n, l)
  BY DEF SetFlat, Bit, Mon, Active, Locks, Flat, Kept
<1> QED BY <1>1, <1>2, <1>3 DEF Cached, Kept, Mon, Locks

LEMMA SetSlotKept ==
    ASSUME NEW m, Kept(m), NEW l \in {"encore", "disable"}, NEW t \in Nat, NEW i \in AnySlot
    PROVE  Kept(SetSlot(m, l, t, i))
<1> DEFINE n == SetSlot(m, l, t, i)
<1>0. Off \in Lock /\ Off.turns = 0
  BY SlotFacts DEF Off, Lock
<1>1. CASE l = "encore"
  <2>1. n \in Mon
    BY <1>0, <1>1 DEF SetSlot, Bit, Mon, Locks, Lock, Kept
  <2>2. \A k \in Locks \ {l} : (Active(n, k) <=> Active(m, k)) /\ (k \in n.locks <=> k \in m.locks)
    BY <1>1 DEF SetSlot, Bit, Mon, Active, Locks, Flat, Kept
  <2>3. l \in n.locks <=> Active(n, l)
    BY <1>0, <1>1 DEF SetSlot, Bit, Mon, Active, Locks, Flat, Kept
  <2> QED BY <2>1, <2>2, <2>3 DEF Cached, Kept, Mon, Locks
<1>2. CASE l = "disable"
  <2>1. n \in Mon
    BY <1>0, <1>2 DEF SetSlot, Bit, Mon, Locks, Lock, Kept
  <2>2. \A k \in Locks \ {l} : (Active(n, k) <=> Active(m, k)) /\ (k \in n.locks <=> k \in m.locks)
    BY <1>2 DEF SetSlot, Bit, Mon, Active, Locks, Flat, Kept
  <2>3. l \in n.locks <=> Active(n, l)
    BY <1>0, <1>2 DEF SetSlot, Bit, Mon, Active, Locks, Flat, Kept
  <2> QED BY <2>1, <2>2, <2>3 DEF Cached, Kept, Mon, Locks
<1> QED BY <1>1, <1>2

\* The end of a turn takes one off every countdown.
LEMMA TickKept == ASSUME NEW m, Kept(m) PROVE Kept(Tick(m))
<1>1. ASSUME NEW k, Kept(k), NEW l \in Flat PROVE Kept(TickFlat(k, l))
  <2>1. k.flat[l] # 0 => k.flat[l] - 1 \in Nat
    BY <1>1 DEF Kept, Mon
  <2> QED BY <1>1, <2>1, SetFlatKept DEF TickFlat
<1>2. Kept(TickEncore(m))
  <2>1. m.encore.slot \in AnySlot /\ m.encore.turns \in Nat
    BY DEF Kept, Mon, Lock
  <2>2. m.encore.turns # 0 => (IF m.pp[m.encore.slot] = 0 THEN 0 ELSE m.encore.turns - 1) \in Nat
    BY <2>1
  <2> QED BY <2>1, <2>2, SetSlotKept DEF TickEncore
<1>3. ASSUME NEW k, Kept(k) PROVE Kept(TickDisable(k))
  <2>1. k.disable.slot \in AnySlot /\ k.disable.turns \in Nat
    BY <1>3 DEF Kept, Mon, Lock
  <2> QED BY <1>3, <2>1, SetSlotKept DEF TickDisable
<1> QED BY <1>1, <1>2, <1>3 DEF Tick, Flat

LEMMA CuredKept == ASSUME NEW m \in Mon PROVE Kept(Cured(m))
<1>1. [m EXCEPT !.flat = [@ EXCEPT !["taunt"] = 0, !["heal"] = 0], !.encore = Off,
                !.disable = Off, !.torment = FALSE] \in Mon
  BY SlotFacts DEF Mon, Off, Lock, Flat
<1> QED BY <1>1, SyncKept DEF Cured

LEMMA UpdateKept == ASSUME NEW m, Kept(m), NEW r PROVE Kept(Update(m, r))
<1>1. [m EXCEPT !.item = "none"] \in Mon
  BY DEF Mon, Kept, Items
<1> QED BY <1>1, CuredKept DEF Update

LEMMA NoneActive ==
    ASSUME NEW m, m.lock = None, m.encore.turns = 0, m.disable.turns = 0,
           \A l \in Flat : m.flat[l] = 0
    PROVE  \A l \in Locks : ~Active(m, l)
<1>1. ~Active(m, "choice")
  <2>1. Active(m, "choice") = (m.lock # None)
    BY DEF Active
  <2> QED BY <2>1, Zenon
<1>2. ~(0 > 0)
  OBVIOUS
<1>3. ~Active(m, "encore")
  BY <1>2 DEF Active
<1>4. ~Active(m, "disable")
  BY <1>2 DEF Active
<1>5. \A l \in Flat : ~Active(m, l)
  BY <1>2, ZenonT(30) DEF Active, Flat
<1> QED BY <1>1, <1>3, <1>4, <1>5, Zenon DEF Locks

LEMMA FreshKept == ASSUME NEW kit \in Kits PROVE Kept(Fresh(kit))
<1>1. kit.item \in Items /\ kit.tactics \in BOOLEAN
  BY LocksAssumption
<1>2. Fresh(kit) \in Mon
  BY <1>1, SlotFacts, LocksAssumption DEF Fresh, Off, Mon, Lock, Locks
<1>3. \A l \in Locks : ~Active(Fresh(kit), l)
  <2>1. Fresh(kit).lock = None /\ Fresh(kit).encore.turns = 0 /\ Fresh(kit).disable.turns = 0
    BY DEF Fresh, Off
  <2>2. \A l \in Flat : Fresh(kit).flat[l] = 0
    BY DEF Fresh
  <2> QED BY <2>1, <2>2, NoneActive
<1> QED BY <1>2, <1>3 DEF Kept, Cached, Fresh

\* A mon that comes in, handed the countdowns or not.
LEMMA EnterKept ==
    ASSUME Kept(mon), NEW kit \in Kits, NEW copy \in BOOLEAN, Enter(kit, copy)
    PROVE  Kept(mon')
<1>1. Kept(Passed(mon, Fresh(kit)))
  <2>1. [Fresh(kit) EXCEPT !.flat = mon.flat] \in Mon
    BY FreshKept DEF Kept, Mon
  <2> QED BY <2>1, SyncKept DEF Passed
<1> QED BY <1>1, FreshKept, UpdateKept DEF Enter

LEMMA UsedKept ==
    ASSUME NEW m, Kept(m), NEW i \in AnySlot, i \in Slot => m.pp[i] > 0
    PROVE  Kept(Used(m, i))
<1> DEFINE paid == [m EXCEPT !.pp = [k \in Slot |-> IF k = i THEN @[k] - 1 ELSE @[k]], !.last = i]
<1>1. paid \in Mon
  <2>1. m.pp \in [Slot -> Nat]
    BY DEF Kept, Mon
  <2>2. [k \in Slot |-> IF k = i THEN m.pp[k] - 1 ELSE m.pp[k]] \in [Slot -> Nat]
    BY <2>1
  <2> QED BY <2>2 DEF Kept, Mon
<1>2. \A l \in Locks : Active(paid, l) <=> Active(m, l)
  BY DEF Active, Locks, Flat, Kept, Mon
<1>3. Kept(paid)
  BY <1>1, <1>2 DEF Kept, Cached, Mon
<1> QED BY <1>3, SetLockKept DEF Used

\* Fields no lock depends on may change.
LEMMA OtherFields ==
    ASSUME NEW m, Kept(m), NEW n \in Mon, n.locks = m.locks, n.lock = m.lock,
           n.encore = m.encore, n.disable = m.disable, n.flat = m.flat
    PROVE  Kept(n)
<1>1. \A l \in Locks : Active(n, l) <=> Active(m, l)
  BY DEF Active, Locks, Flat
<1> QED BY <1>1 DEF Kept, Cached

-----------------------------------------------------------------------------
(* The steps.                                                               *)

\* What the others do is followed by an Update.
LEMMA DeedKept ==
    ASSUME NEW kind, NEW m, NEW r, Kept(m), Deed(kind, m, r)
    PROVE  Kept(mon')
  BY UpdateKept DEF Deed

LEMMA InitKept == ASSUME Init PROVE IInv
  BY FreshKept, SlotFacts DEF Init, IInv

LEMMA MoveFacts ==
    ASSUME IInv
    PROVE  /\ mon.last \in AnySlot
           /\ Override(mon, queued) \in AnySlot
           /\ Menu(mon) \subseteq AnySlot
<1>1. mon.last \in AnySlot /\ mon.encore.slot \in AnySlot
  BY DEF IInv, Kept, Mon, Lock
<1> QED BY <1>1, SlotFacts DEF IInv, Override, Menu

\* Who may not repeat the move just fails; whoever uses one has PP for it.
Repeats(i) == i \in Twice /\ mon.last = i

LEMMA SpoiledKept ==
    ASSUME NEW m, Kept(m), NEW i \in Slot
    PROVE  Kept(Spoiled(m, i))
<1>1. m.pp \in [Slot -> Nat]
  BY DEF Kept, Mon
<1>2. [m.pp EXCEPT ![i] = IF @ = 0 THEN 0 ELSE @ - 1] \in [Slot -> Nat]
  BY <1>1
<1>3. Spoiled(m, i) \in Mon
  BY <1>2, SlotFacts DEF Spoiled, Kept, Mon
<1> QED BY <1>3, OtherFields DEF Spoiled, Kept, Mon

LEMMA ActKept == ASSUME IInv, Act PROVE IInv'
<1> DEFINE i == Override(mon, queued)
           d == Used(mon, i)
<1>1. i \in AnySlot /\ (~Repeats(i) => Kept(d))
  BY MoveFacts, UsedKept DEF IInv, Act, Repeats
<1>2. queued' = queued
  BY DEF Act
<1>3. CASE mon' = Spoiled(mon, i) /\ i \in Slot
  BY <1>2, <1>3, SpoiledKept DEF IInv
<1>4. CASE ~Repeats(i) /\ mon' = Update(d, room)
  BY <1>1, <1>2, <1>4, UpdateKept DEF IInv
<1>5. CASE ~Repeats(i) /\ mon' = Update(Cursed(d, i), room)
  <2>1. Kept(Cursed(d, i))
    BY <1>1, <1>5, SetSlotKept DEF Cursed
  <2> QED BY <1>2, <1>5, <2>1, UpdateKept DEF IInv
<1>6. CASE \E kit \in Kits : Enter(kit, TRUE)
  BY <1>2, <1>6, EnterKept DEF IInv
<1>7. Twice \subseteq Slot
  BY LocksAssumption
<1> QED BY <1>3, <1>4, <1>5, <1>6, <1>7 DEF Act, Repeats

LEMMA OthersKept == ASSUME IInv, Others PROVE IInv'
<1> USE DEF IInv
<1>1. CASE Encore
  <2>1. EncoreTurns \in Nat
    BY DEF EncoreTurns
  <2>2. Kept(SetSlot(mon, "encore", EncoreTurns, mon.last))
    BY <2>1, MoveFacts, SetSlotKept
  <2>3. queued' \in AnySlot
    BY <1>1, MoveFacts DEF Encore
  <2> QED BY <1>1, <2>2, <2>3, DeedKept DEF Encore
<1>2. CASE Disable
  <2>1. Kept(SetSlot(mon, "disable", IF Pending THEN 4 ELSE 5, mon.last))
    BY MoveFacts, SetSlotKept
  <2> QED BY <1>2, <2>1, DeedKept DEF Disable
<1>3. CASE Taunt
  <2>1. Kept(SetFlat(mon, "taunt", IF ~came /\ ~Pending THEN 4 ELSE 3))
    BY SetFlatKept DEF Flat
  <2> QED BY <1>3, <2>1, DeedKept DEF Taunt
<1>4. CASE Silence("chop") \/ Silence("heal")
  <2>1. \A kind \in {"chop", "heal"} : Kept(SetFlat(mon, kind, 2))
    BY SetFlatKept DEF Flat
  <2> QED BY <1>4, <2>1, DeedKept DEF Silence
<1>5. CASE Torment
  <2>1. Kept([mon EXCEPT !.torment = TRUE])
    BY OtherFields DEF Kept, Mon
  <2> QED BY <1>5, <2>1, DeedKept DEF Torment
<1>6. CASE Spite
  <2>1. mon.last \in Slot
    BY <1>6 DEF Spite, Lockable
  <2>2. [mon EXCEPT !.pp[mon.last] = 0] \in Mon
    BY <2>1 DEF Kept, Mon
  <2>3. Kept([mon EXCEPT !.pp[mon.last] = 0])
    BY <2>2, OtherFields DEF Kept, Mon
  <2> QED BY <1>6, <2>3, DeedKept DEF Spite
<1>7. CASE Cure
  <2>1. [mon EXCEPT !.flat = [@ EXCEPT !["taunt"] = 0]] \in Mon
    BY DEF Kept, Mon, Flat
  <2>2. Kept(Cured(mon)) /\ Kept(Rid(mon))
    BY <2>1, CuredKept, SyncKept DEF Rid, Kept
  <2> QED BY <1>7, <2>2, DeedKept DEF Cure
<1>8. CASE Swap
  <2>1. \A item \in Items : Kept([mon EXCEPT !.item = item])
    BY OtherFields DEF Kept, Mon
  <2>2. Kept([mon EXCEPT !.tactics = ~@])
    BY OtherFields DEF Kept, Mon
  <2> QED BY <1>8, <2>1, <2>2, DeedKept DEF Swap
<1>9. CASE MagicRoom
  BY <1>9, DeedKept DEF MagicRoom
<1>10. CASE Imprison
  BY <1>10, DeedKept DEF Imprison
<1>11. CASE Drag
  BY <1>11, EnterKept DEF Drag
<1> QED BY <1>1, <1>2, <1>3, <1>4, <1>5, <1>6, <1>7, <1>8, <1>9, <1>10, <1>11 DEF Others

LEMMA StepKept == ASSUME IInv, [Next]_vars PROVE IInv'
<1>1. CASE Choose
  <2>1. Kept(Begun(mon))
    BY SetLockKept, SlotFacts DEF Begun, IInv
  <2>2. queued' \in AnySlot
    BY <1>1, MoveFacts, SlotFacts DEF Choose
  <2> QED BY <1>1, <2>1, <2>2 DEF Choose, IInv
<1>2. CASE SwitchOut
  BY <1>2, EnterKept DEF SwitchOut, IInv
<1>3. CASE Wait
  BY <1>3 DEF Wait, IInv
<1>4. CASE Act
  BY <1>4, ActKept
<1>5. CASE Others
  BY <1>5, OthersKept
<1>6. CASE EndTurn
  <2>1. Kept(Tick(Update(mon, room')))
    BY UpdateKept, TickKept DEF IInv
  <2> QED BY <1>6, <2>1, SlotFacts DEF EndTurn, IInv
<1>7. CASE UNCHANGED vars
  BY <1>7 DEF vars, IInv
<1> QED BY <1>1, <1>2, <1>3, <1>4, <1>5, <1>6, <1>7 DEF Next

(* The summary legal_choices_into goes by is the one sync_move_locks would  *)
(* compute, after every step (pokemon.rs 691-698).                          *)
THEOREM SummaryIsRight == Spec => []LocksCached
<1>1. Init => IInv
  BY InitKept
<1>2. IInv /\ [Next]_vars => IInv'
  BY StepKept
<1>3. IInv => LocksCached
  BY DEF IInv, Kept, Cached, LocksCached
<1> QED BY <1>1, <1>2, <1>3, PTL DEF Spec

\* A mon whose summary is right has the same moves shut in both menus.
LEMMA SameMenu ==
    ASSUME Kept(mon), NEW i \in Slot, mon.last = i => ~mon.torment /\ i \notin Twice
    PROVE  i \in Menu(mon) <=> ~Disabled(mon, i)
<1>1. \A l \in {"choice"} : mon.lock # None <=> l \in mon.locks
  BY DEF Kept, Cached, Active, Locks, Flat
<1>2. \A l \in {"encore", "disable"} : mon[l].turns > 0 <=> l \in mon.locks
  BY DEF Kept, Cached, Active, Locks, Flat
<1>3. \A l \in Flat : mon.flat[l] > 0 <=> l \in mon.locks
  BY DEF Kept, Cached, Active, Locks, Flat
<1>4. mon.pp[i] > 0 \/ mon.pp[i] = 0
  BY DEF Kept, Mon
<1> QED BY <1>1, <1>2, <1>3, <1>4 DEF Menu, Disabled, Flat

(* Agents and players are shut out of the same moves, the last one used by  *)
(* a tormented mon, or one that cannot be used twice, apart.                *)
THEOREM MenusShutTheSame == Spec => []MenusAgree
<1>1. Init => IInv
  BY InitKept
<1>2. IInv /\ [Next]_vars => IInv'
  BY StepKept
<1>3. IInv => MenusAgree
  BY SameMenu DEF IInv, MenusAgree
<1> QED BY <1>1, <1>2, <1>3, PTL DEF Spec

-----------------------------------------------------------------------------
(* What a Choice holder has used, and what an Encore holds to.              *)

\* Only the Choice lock itself is a move used since the item has been at work.
HeldInv ==
    held = {} \/ (held = {mon.lock} /\ mon.lock # None /\ Item(mon, room) = "choice")

\* An Encore names a move, and in Champions the queued move is that one.
EncoreInv ==
    mon.encore.turns > 0 =>
        /\ mon.encore.slot \in Slot
        /\ champions /\ pc = "before" => queued \in {mon.encore.slot, Struggle}

BothInv == IInv /\ HeldInv /\ EncoreInv

LEMMA EncoreActive ==
    ASSUME NEW m, Kept(m)
    PROVE  Active(m, "encore") <=> m.encore.turns > 0
<1>1. \A l \in {"encore", "disable"} : m[l].turns > 0 <=> l \in m.locks
  BY DEF Kept, Cached, Active, Locks, Flat
<1>2. "encore" \in m.locks <=> Active(m, "encore")
  BY DEF Kept, Cached, Locks
<1> QED BY <1>1, <1>2

\* An Update leaves the Choice lock and a Choice item alone, and an Encore as it
\* is or over; with a Mental Herb at work it is over.
LEMMA UpdateLeaves ==
    ASSUME NEW m, Kept(m), NEW r
    PROVE  /\ Update(m, r).lock = m.lock
           /\ Item(m, r) = "choice" => Item(Update(m, r), r) = "choice"
           /\ Update(m, r).encore \in {m.encore, Off}
           /\ Item(m, r) = "herb" => Update(m, r).encore = Off \/ m.encore.turns = 0
<1>1. CASE Update(m, r) = m
  <2>1. Item(m, r) = "herb" => ~Active(m, "encore") \/ Update(m, r) = Cured([m EXCEPT !.item = "none"])
    BY DEF Update
  <2>2. Cured([m EXCEPT !.item = "none"]).encore = Off
    BY DEF Cured, Sync, Kept, Mon
  <2>3. ~Active(m, "encore") => m.encore.turns = 0
    <3>1. Active(m, "encore") <=> m.encore.turns > 0
      BY EncoreActive
    <3>2. m.encore.turns \in Nat
      BY DEF Kept, Mon, Lock
    <3> QED BY <3>1, <3>2
  <2> QED BY <1>1, <2>1, <2>2, <2>3
<1>2. CASE Update(m, r) = Cured([m EXCEPT !.item = "none"]) /\ Item(m, r) = "herb"
  <2>1. Cured([m EXCEPT !.item = "none"]).encore = Off /\ Cured([m EXCEPT !.item = "none"]).lock = m.lock
    BY DEF Cured, Sync, Kept, Mon
  <2> QED BY <1>2, <2>1
<1> QED BY <1>1, <1>2 DEF Update

\* A deed that leaves the Choice lock alone, whatever it does to the item or
\* the room.
LEMMA DeedHolds ==
    ASSUME BothInv, NEW kind, NEW m, NEW r, Kept(m), Deed(kind, m, r), m.lock = mon.lock
    PROVE  HeldInv'
<1>1. mon' = Update(m, r) /\ room' = r /\ Holds(mon', r, None)
  BY DEF Deed
<1>2. None \notin Slot
  BY LocksAssumption DEF None, Slot
<1>3. CASE Item(mon', r) # "choice"
  BY <1>1, <1>3 DEF Holds, HeldInv
<1>4. CASE Item(mon', r) = "choice"
  <2>1. held' = held
    BY <1>1, <1>2, <1>4 DEF Holds
  <2>2. mon'.lock = mon.lock
    BY <1>1, UpdateLeaves
  <2> QED BY <1>1, <1>4, <2>1, <2>2 DEF HeldInv, BothInv
<1> QED BY <1>3, <1>4

\* A deed that leaves the Encore and the queued move alone.
LEMMA DeedEncore ==
    ASSUME BothInv, NEW kind, NEW m, NEW r, Kept(m), Deed(kind, m, r),
           m.encore \in {mon.encore, Off}, queued' = queued
    PROVE  EncoreInv'
<1>1. mon'.encore \in {mon.encore, Off} /\ pc' = pc /\ champions' = champions
  BY UpdateLeaves DEF Deed
<1>2. ~(Off.turns > 0)
  BY DEF Off
<1> QED BY <1>1, <1>2 DEF EncoreInv, BothInv

LEMMA BothStart == ASSUME Init PROVE BothInv
<1>1. IInv /\ held = {}
  BY InitKept DEF Init
<1>2. mon.encore = Off
  BY DEF Init, Fresh
<1> QED BY <1>1, <1>2 DEF BothInv, HeldInv, EncoreInv, Off

\* A mon that has just come in.
LEMMA EnterHolds ==
    ASSUME BothInv, NEW kit \in Kits, NEW copy \in BOOLEAN, Enter(kit, copy), held' = {}
    PROVE  HeldInv' /\ EncoreInv'
<1> DEFINE new == IF copy THEN Passed(mon, Fresh(kit)) ELSE Fresh(kit)
<1>1. Kept(new) /\ new.encore = Off
  <2>1. [Fresh(kit) EXCEPT !.flat = mon.flat] \in Mon /\ Fresh(kit).encore = Off
    BY FreshKept DEF BothInv, IInv, Kept, Mon, Fresh
  <2>2. Kept(Passed(mon, Fresh(kit)))
    BY <2>1, SyncKept DEF Passed
  <2>3. Passed(mon, Fresh(kit)).encore = Off
    BY <2>1 DEF Passed, Sync, Mon, Fresh
  <2> QED BY <2>1, <2>2, <2>3, FreshKept
<1> HIDE DEF new
<1>2. mon'.encore = Off
  BY <1>1, UpdateLeaves DEF Enter, new
<1> QED BY <1>2 DEF HeldInv, EncoreInv, Off

\* What it uses becomes the lock of a Choice holder that had none.
LEMMA UsedLeaves ==
    ASSUME NEW m, Kept(m), NEW i \in AnySlot
    PROVE  /\ Used(m, i).encore = m.encore /\ Used(m, i).item = m.item
           /\ Used(m, i).lock = IF Locker(m, room) /\ m.lock = None THEN i ELSE m.lock
  BY DEF Used, SetLock, Bit, Kept, Mon

LEMMA ActHolds == ASSUME BothInv, Act PROVE HeldInv' /\ EncoreInv'
<1> DEFINE i == Override(mon, queued)
           d == Used(mon, i)
<1>1. i \in AnySlot /\ Kept(mon) /\ (~Repeats(i) => Kept(d))
  BY MoveFacts, UsedKept DEF BothInv, IInv, Act, Repeats
<1>2. ~Stopped(mon, i) /\ room' = room /\ pc' = "after"
  BY DEF Act
<1>3. None \notin Slot /\ Struggle \notin Slot /\ Struggle # None
  BY LocksAssumption DEF None, Slot, Struggle
<1>4. EncoreInv'
  <2> SUFFICES mon'.encore.turns > 0 => mon'.encore.slot \in Slot
    BY <1>2 DEF EncoreInv
  <2>1. mon'.encore \in {mon.encore, Off}
    <3>1. CASE mon' = Spoiled(mon, i)
      BY <1>1, <3>1 DEF Spoiled, Kept, Mon
    <3>2. CASE ~Repeats(i) /\ mon' = Update(d, room)
      BY <1>1, <3>2, UpdateLeaves, UsedLeaves
    <3>3. CASE ~Repeats(i) /\ mon' = Update(Cursed(d, i), room)
      <4>1. Kept(Cursed(d, i))
        BY <1>1, <3>3, SetSlotKept DEF Cursed
      <4>2. Cursed(d, i).encore = d.encore
        BY <1>1, <3>3 DEF Cursed, SetSlot, Bit, Kept, Mon
      <4> QED BY <1>1, <3>3, <4>1, <4>2, UpdateLeaves, UsedLeaves
    <3>4. CASE (\E kit \in Kits : Enter(kit, TRUE))
      <4>1. PICK kit \in Kits : Enter(kit, TRUE)
        BY <3>4
      <4>2. [Fresh(kit) EXCEPT !.flat = mon.flat] \in Mon /\ Fresh(kit).encore = Off
        BY <1>1, FreshKept DEF Kept, Mon, Fresh
      <4>3. Kept(Passed(mon, Fresh(kit))) /\ Passed(mon, Fresh(kit)).encore = Off
        BY <4>2, SyncKept DEF Passed, Sync, Mon, Fresh
      <4> QED BY <4>1, <4>3, UpdateLeaves DEF Enter
    <3> QED BY <3>1, <3>2, <3>3, <3>4 DEF Act, Repeats
  <2>2. ~(Off.turns > 0)
    BY DEF Off
  <2> QED BY <2>1, <2>2 DEF BothInv, EncoreInv
<1>5. HeldInv'
  <2>1. CASE mon' = Spoiled(mon, i) /\ Holds(mon', room, None)
    <3>1. mon'.lock = mon.lock /\ mon'.item = mon.item
      BY <1>1, <2>1 DEF Spoiled, Kept, Mon
    <3>2. held' = {} \/ (held' = held /\ Item(mon', room) = "choice")
      BY <1>3, <2>1 DEF Holds
    <3> QED BY <1>2, <3>1, <3>2 DEF HeldInv, BothInv
  <2>2. ASSUME NEW e, Kept(e), mon' = Update(e, room), e.lock = d.lock, e.item = d.item,
               Holds(mon', room, i)
        PROVE  HeldInv'
    <3>1. CASE Item(mon', room) # "choice"
      BY <2>2, <3>1 DEF Holds, HeldInv
    <3>2. CASE Item(mon', room) = "choice"
      <4>1. Item(mon, room) = "choice" /\ ~room
        <5>1. mon'.item = "choice" /\ ~room
          BY <3>2 DEF Item
        <5>2. Cured([e EXCEPT !.item = "none"]).item = "none"
          BY <2>2 DEF Cured, Sync, Kept, Mon
        <5>3. mon' = e
          BY <2>2, <5>1, <5>2 DEF Update
        <5> QED BY <1>1, <2>2, <5>1, <5>3, UsedLeaves DEF Item
      <4>2. mon'.lock = IF mon.lock = None THEN i ELSE mon.lock
        BY <1>1, <2>2, <4>1, UpdateLeaves, UsedLeaves DEF Locker
      <4>3. mon.lock \in {None, i} \/ i = Struggle
        BY <1>2, <4>1 DEF Stopped
      <4>4. held' = IF i \in Slot THEN held \cup {i} ELSE held
        BY <2>2, <3>2 DEF Holds
      <4>5. held = {} \/ (held = {mon.lock} /\ mon.lock # None)
        BY DEF BothInv, HeldInv
      <4>6. CASE i \in Slot
        <5>1. mon'.lock = i /\ i # None
          BY <1>3, <4>2, <4>3, <4>6
        <5>2. held' = {i}
          BY <1>3, <4>3, <4>4, <4>5, <4>6
        <5> QED BY <1>2, <3>2, <5>1, <5>2 DEF HeldInv
      <4>7. CASE i \notin Slot
        <5>1. held' = held /\ (mon.lock # None => mon'.lock = mon.lock)
          BY <4>2, <4>4, <4>7
        <5> QED BY <1>2, <3>2, <4>5, <5>1 DEF HeldInv
      <4> QED BY <4>6, <4>7
    <3> QED BY <3>1, <3>2
  <2>3. CASE ~Repeats(i) /\ mon' = Update(d, room) /\ Holds(mon', room, i)
    BY <1>1, <2>2, <2>3
  <2>4. CASE ~Repeats(i) /\ mon' = Update(Cursed(d, i), room) /\ Holds(mon', room, i)
    <3>1. Kept(Cursed(d, i))
      BY <1>1, <2>4, SetSlotKept DEF Cursed
    <3>2. Cursed(d, i).lock = d.lock /\ Cursed(d, i).item = d.item
      BY <1>1, <2>4 DEF Cursed, SetSlot, Bit, Kept, Mon
    <3> QED BY <2>2, <2>4, <3>1, <3>2
  <2>5. CASE held' = {}
    BY <2>5 DEF HeldInv
  <2> QED BY <2>1, <2>3, <2>4, <2>5 DEF Act, Repeats
<1> QED BY <1>4, <1>5

LEMMA OthersHold == ASSUME BothInv, Others PROVE HeldInv' /\ EncoreInv'
<1>0. Kept(mon) /\ mon.last \in AnySlot /\ Off.turns = 0
  BY MoveFacts DEF BothInv, IInv, Off
<1>1. CASE Encore
  <2> DEFINE e == SetSlot(mon, "encore", EncoreTurns, mon.last)
  <2>1. EncoreTurns \in Nat \ {0}
    BY DEF EncoreTurns
  <2>2. Kept(e) /\ e.lock = mon.lock /\ e.item = mon.item
    <3>1. Kept(e)
      BY <1>0, <2>1, SetSlotKept
    <3> QED BY <1>0, <3>1 DEF SetSlot, Bit, Kept, Mon
  <2>3. e.encore = [turns |-> EncoreTurns, slot |-> mon.last]
    BY <1>0, <2>1 DEF SetSlot, Bit, Kept, Mon
  <2>4. Deed("encore", e, room) /\ mon.last \in Slot
        /\ queued' = IF champions /\ Pending /\ Item(mon, room) # "herb" THEN mon.last ELSE queued
    BY <1>1 DEF Encore, Lockable
  <2> HIDE DEF e
  <2>5. HeldInv'
    BY <2>2, <2>4, DeedHolds
  <2>6. mon' = Update(e, room) /\ pc' = pc /\ champions' = champions
    BY <2>4 DEF Deed
  <2>7. Item(e, room) = Item(mon, room)
    BY <2>2 DEF Item
  <2>8. mon'.encore \in {e.encore, Off} /\ (Item(mon, room) = "herb" => mon'.encore = Off)
    BY <2>1, <2>2, <2>3, <2>6, <2>7, UpdateLeaves
  <2>9. EncoreInv'
    BY <1>0, <2>3, <2>4, <2>6, <2>8 DEF EncoreInv, Pending
  <2> QED BY <2>5, <2>9
<1>2. CASE Disable
  <2> DEFINE n == IF Pending THEN 4 ELSE 5
  <2>1. n \in Nat
    OBVIOUS
  <2>2. Deed("disable", SetSlot(mon, "disable", n, mon.last), room) /\ queued' = queued
    BY <1>2 DEF Disable
  <2> HIDE DEF n
  <2>3. Kept(SetSlot(mon, "disable", n, mon.last))
    BY <1>0, <2>1, SetSlotKept
  <2>4. /\ SetSlot(mon, "disable", n, mon.last).lock = mon.lock
        /\ SetSlot(mon, "disable", n, mon.last).item = mon.item
        /\ SetSlot(mon, "disable", n, mon.last).encore = mon.encore
    BY <1>0 DEF SetSlot, Bit, Kept, Mon
  <2> QED BY <2>2, <2>3, <2>4, DeedHolds, DeedEncore
<1>3. ASSUME NEW kind \in Flat, NEW n \in Nat, Deed(kind, SetFlat(mon, kind, n), room), queued' = queued
      PROVE  HeldInv' /\ EncoreInv'
  <2>1. Kept(SetFlat(mon, kind, n))
    BY <1>0, <1>3, SetFlatKept
  <2>2. /\ SetFlat(mon, kind, n).lock = mon.lock /\ SetFlat(mon, kind, n).item = mon.item
        /\ SetFlat(mon, kind, n).encore = mon.encore
    BY <1>0 DEF SetFlat, Bit, Kept, Mon
  <2> QED BY <1>3, <2>1, <2>2, DeedHolds, DeedEncore
<1>4. CASE Taunt \/ Silence("chop") \/ Silence("heal")
  BY <1>3, <1>4 DEF Taunt, Silence, Flat
<1>5. ASSUME NEW kind, NEW m, NEW r, Kept(m), Deed(kind, m, r), queued' = queued, m.lock = mon.lock,
             m.encore \in {mon.encore, Off}
      PROVE  HeldInv' /\ EncoreInv'
  BY <1>5, DeedHolds, DeedEncore
<1>6. CASE Torment
  <2> DEFINE e == [mon EXCEPT !.torment = TRUE]
  <2>1. Kept(e) /\ e.lock = mon.lock /\ e.item = mon.item /\ e.encore = mon.encore
    BY <1>0, OtherFields DEF Kept, Mon
  <2> QED BY <1>5, <1>6, <2>1 DEF Torment
<1>7. CASE Spite
  <2> DEFINE e == [mon EXCEPT !.pp[mon.last] = 0]
  <2>1. mon.last \in Slot
    BY <1>7 DEF Spite, Lockable
  <2>2. e \in Mon
    BY <1>0, <2>1 DEF Kept, Mon
  <2>3. Kept(e) /\ e.lock = mon.lock /\ e.item = mon.item /\ e.encore = mon.encore
    BY <1>0, <2>2, OtherFields DEF Kept, Mon
  <2> QED BY <1>5, <1>7, <2>3 DEF Spite
<1>8. CASE Cure
  <2>1. [mon EXCEPT !.flat = [@ EXCEPT !["taunt"] = 0]] \in Mon
    BY <1>0 DEF Kept, Mon, Flat
  <2>2. Kept(Cured(mon)) /\ Kept(Rid(mon))
    BY <1>0, <2>1, CuredKept, SyncKept DEF Rid, Kept
  <2>3. Cured(mon).lock = mon.lock /\ Cured(mon).item = mon.item /\ Cured(mon).encore = Off
    BY <1>0 DEF Cured, Sync, Kept, Mon
  <2>4. Rid(mon).lock = mon.lock /\ Rid(mon).item = mon.item /\ Rid(mon).encore = mon.encore
    BY <1>0 DEF Rid, Sync, Kept, Mon
  <2>5. PICK m \in {Cured(mon), Rid(mon)} : Deed("cure", m, room)
    BY <1>8 DEF Cure
  <2> QED BY <1>5, <1>8, <2>2, <2>3, <2>4, <2>5 DEF Cure
<1>9. CASE Swap
  <2>1. CASE \E item \in Items \ {mon.item} : Deed("item", [mon EXCEPT !.item = item], room)
    <3>1. PICK item \in Items \ {mon.item} : Deed("item", [mon EXCEPT !.item = item], room)
      BY <2>1
    <3> DEFINE e == [mon EXCEPT !.item = item]
    <3>2. Kept(e) /\ e.lock = mon.lock /\ e.item = item /\ e.encore = mon.encore
      BY <1>0, OtherFields DEF Kept, Mon
    <3> QED BY <1>5, <1>9, <3>1, <3>2 DEF Swap
  <2>2. CASE Deed("ability", [mon EXCEPT !.tactics = ~@], room)
    <3> DEFINE e == [mon EXCEPT !.tactics = ~@]
    <3>1. Kept(e) /\ e.lock = mon.lock /\ e.item = mon.item /\ e.encore = mon.encore
      BY <1>0, OtherFields DEF Kept, Mon
    <3> QED BY <1>5, <1>9, <2>2, <3>1 DEF Swap
  <2> QED BY <1>9, <2>1, <2>2 DEF Swap
<1>10. CASE MagicRoom
  BY <1>0, <1>5, <1>10 DEF MagicRoom
<1>11. CASE Imprison
  BY <1>0, <1>5, <1>11 DEF Imprison
<1>12. CASE Drag
  BY <1>12, EnterHolds DEF Drag
<1> QED BY <1>1, <1>2, <1>4, <1>6, <1>7, <1>8, <1>9, <1>10, <1>11, <1>12 DEF Others

LEMMA TickLeaves ==
    ASSUME NEW m, Kept(m)
    PROVE  /\ Tick(m).lock = m.lock /\ Tick(m).item = m.item
           /\ Tick(m).encore.turns > 0 => Tick(m).encore.slot = m.encore.slot /\ m.encore.turns > 0
<1> DEFINE a == TickEncore(m)
           b == TickDisable(a)
           c == TickFlat(b, "chop")
           d == TickFlat(c, "heal")
<1>1. m.encore.turns \in Nat /\ m.encore.slot \in AnySlot
  BY DEF Kept, Mon, Lock
<1>2. Kept(a)
  <2>1. m.encore.turns # 0 => (IF m.pp[m.encore.slot] = 0 THEN 0 ELSE m.encore.turns - 1) \in Nat
    BY <1>1
  <2> QED BY <1>1, <2>1, SetSlotKept DEF TickEncore
<1>3. /\ a.lock = m.lock /\ a.item = m.item
      /\ a.encore.turns > 0 => a.encore.slot = m.encore.slot /\ m.encore.turns > 0
  BY <1>1 DEF TickEncore, SetSlot, Bit, Kept, Mon, Off
<1>4. Kept(b)
  <2>1. a.disable.turns \in Nat /\ a.disable.slot \in AnySlot
    BY <1>2 DEF Kept, Mon, Lock
  <2> QED BY <1>2, <2>1, SetSlotKept DEF TickDisable
<1>5. b.lock = a.lock /\ b.item = a.item /\ b.encore = a.encore
  BY <1>2 DEF TickDisable, SetSlot, Bit, Kept, Mon
<1>6. ASSUME NEW k, Kept(k), NEW l \in Flat
      PROVE  /\ Kept(TickFlat(k, l)) /\ TickFlat(k, l).lock = k.lock /\ TickFlat(k, l).item = k.item
             /\ TickFlat(k, l).encore = k.encore
  <2>1. k.flat[l] # 0 => k.flat[l] - 1 \in Nat
    BY <1>6 DEF Kept, Mon
  <2>2. Kept(TickFlat(k, l))
    BY <1>6, <2>1, SetFlatKept DEF TickFlat
  <2> QED BY <1>6, <2>2 DEF TickFlat, SetFlat, Bit, Kept, Mon
<1> HIDE DEF a, b
<1>7. Kept(c) /\ c.lock = b.lock /\ c.item = b.item /\ c.encore = b.encore
  BY <1>4, <1>6 DEF Flat
<1> HIDE DEF c
<1>8. Kept(d) /\ d.lock = c.lock /\ d.item = c.item /\ d.encore = c.encore
  BY <1>6, <1>7 DEF Flat
<1> HIDE DEF d
<1>9. Tick(m) = TickFlat(d, "taunt")
  BY DEF Tick, a, b, c, d
<1> QED BY <1>3, <1>5, <1>6, <1>7, <1>8, <1>9 DEF Flat

LEMMA BothStep == ASSUME BothInv, [Next]_vars PROVE BothInv'
<1>0. IInv' /\ Kept(mon) /\ None \notin Slot
  BY StepKept, LocksAssumption DEF BothInv, IInv, None, Slot
<1>1. CASE Choose
  <2>1. mon' = Begun(mon) /\ held' = held /\ room' = room
        /\ queued' \in IF Menu(mon) = {} THEN {Struggle} ELSE Menu(mon)
    BY <1>1 DEF Choose
  <2>2. mon'.encore = mon.encore /\ mon'.item = mon.item
    BY <1>0, <2>1 DEF Begun, SetLock, Bit, Kept, Mon
  <2>3. mon.item = "choice" => mon' = mon
    BY <2>1 DEF Begun
  <2>4. HeldInv'
    BY <2>1, <2>2, <2>3 DEF BothInv, HeldInv, Item
  <2>5. mon.encore.turns > 0 => "encore" \in mon.locks
    BY <1>0 DEF Kept, Cached, Active, Locks, Flat
  <2>6. mon.encore.turns > 0 => mon.encore.slot \in Slot
    BY DEF BothInv, EncoreInv
  <2>7. mon.encore.turns > 0 => queued' \in {mon.encore.slot, Struggle}
    BY <1>0, <2>1, <2>5, <2>6 DEF Menu
  <2>8. EncoreInv'
    BY <2>2, <2>6, <2>7 DEF EncoreInv
  <2> QED BY <1>0, <2>4, <2>8 DEF BothInv
<1>2. CASE SwitchOut
  BY <1>0, <1>2, EnterHolds DEF SwitchOut, BothInv
<1>3. CASE Wait
  BY <1>0, <1>3 DEF Wait, BothInv, HeldInv, EncoreInv
<1>4. CASE Act
  BY <1>0, <1>4, ActHolds DEF BothInv
<1>5. CASE Others
  BY <1>0, <1>5, OthersHold DEF BothInv
<1>6. CASE EndTurn
  <2> DEFINE u == Update(mon, room')
  <2>1. mon' = Tick(u) /\ Holds(mon', room', None) /\ pc' = "menu" /\ room' \in {room, FALSE}
    BY <1>6 DEF EndTurn
  <2>2. Kept(u) /\ u.lock = mon.lock /\ u.encore \in {mon.encore, Off}
    BY <1>0, UpdateKept, UpdateLeaves
  <2>3. mon'.lock = mon.lock /\ mon'.item = u.item
        /\ (mon'.encore.turns > 0 => mon'.encore.slot = u.encore.slot /\ u.encore.turns > 0)
    BY <2>1, <2>2, TickLeaves
  <2>4. EncoreInv'
    BY <2>1, <2>2, <2>3 DEF BothInv, EncoreInv, Off
  <2>5. HeldInv'
    BY <1>0, <2>1, <2>3 DEF BothInv, HeldInv, Holds
  <2> QED BY <1>0, <2>4, <2>5 DEF BothInv
<1>7. CASE UNCHANGED vars
  BY <1>0, <1>7 DEF vars, BothInv, HeldInv, EncoreInv, Item
<1> QED BY <1>1, <1>2, <1>3, <1>4, <1>5, <1>6, <1>7 DEF Next

(* A Choice holder keeps to one move: every one it used since the item has  *)
(* been at work is its lock (battle.rs 15360-15368, 16000-16010).           *)
THEOREM ChoiceHolds == Spec => []OneMoveEach
<1>1. BothInv => OneMoveEach
  <2> SUFFICES ASSUME BothInv PROVE Cardinality(held) <= 1
    BY DEF OneMoveEach
  <2>1. CASE held = {}
    BY <2>1, FS_EmptySet
  <2>2. CASE held = {mon.lock}
    <3>1. \A S : (\E x : S = {x}) => Cardinality(S) = 1
      BY FS_Singleton
    <3>2. Cardinality(held) = 1
      BY <2>2, <3>1, Zenon
    <3> QED BY <3>2
  <2> QED BY <2>1, <2>2 DEF BothInv, HeldInv
<1>2. Init => BothInv
  BY BothStart
<1>3. BothInv /\ [Next]_vars => BothInv'
  BY BothStep
<1> QED BY <1>1, <1>2, <1>3, PTL DEF Spec

(* No move goes off past an Encore, however late the Encore came and        *)
(* whichever format's rule it follows (battle.rs 22634-22646).              *)
THEOREM EncoreHolds == Spec => EncoreBinds
<1>1. ASSUME BothInv, [Next]_vars
      PROVE  [used' \in Slot /\ Active(mon, "encore") => used' = mon.encore.slot]_vars
  <2>1. CASE Act
    <3>1. used' = None \/ used' = Override(mon, queued)
      BY <2>1 DEF Act
    <3>2. pc = "before" /\ None \notin Slot /\ Struggle \notin Slot
      BY <2>1, LocksAssumption DEF Act, None, Slot, Struggle
    <3>3. Active(mon, "encore") <=> mon.encore.turns > 0
      BY <1>1, EncoreActive DEF BothInv, IInv
    <3> QED BY <1>1, <3>1, <3>2, <3>3 DEF Override, BothInv, EncoreInv
  <2>2. CASE UNCHANGED vars
    BY <2>2
  <2>3. ASSUME used' = None PROVE ~(used' \in Slot)
    BY <2>3, LocksAssumption DEF None, Slot
  <2>4. CASE Choose \/ SwitchOut \/ Wait \/ EndTurn
    BY <2>3, <2>4 DEF Choose, SwitchOut, Wait, EndTurn
  <2>5. CASE Others
    <3>1. used' = None
      BY <2>5 DEF Others, Encore, Disable, Taunt, Silence, Torment, Spite, Cure, Swap, MagicRoom,
                  Imprison, Drag, Deed
    <3> QED BY <2>3, <3>1
  <2> QED BY <1>1, <2>1, <2>2, <2>4, <2>5 DEF Next
<1>2. Init => BothInv
  BY BothStart
<1>3. BothInv /\ [Next]_vars => BothInv'
  BY BothStep
<1> QED BY <1>1, <1>2, <1>3, PTL DEF Spec, EncoreBinds

-----------------------------------------------------------------------------
(* What a timed lock costs.                                                 *)

\* The countdown of a timed lock.
Left(m, l) == IF l = "taunt" THEN m.flat["taunt"] ELSE m[l].turns

\* The action of this turn is behind it.
Behind(p) == IF p = "after" THEN 1 ELSE 0

\* What a lock has cost and will cost, with s and d for its history.
Owed(m, s, d, p) == \A l \in Timed : Left(m, l) > 0 => s[l] + Left(m, l) = d[l] + Behind(p)

\* A lock that is there falls on as many more actions as its countdown says,
\* the one of this turn included unless it is over.
CostInv ==
    /\ pc \in {"menu", "before", "after"} /\ (came => pc = "after")
    /\ spent \in [Timed -> Nat] /\ due \in [Timed -> Nat]
    /\ Owed(mon, spent, due, pc)

LEMMA LeftActive ==
    ASSUME NEW m, Kept(m), NEW l \in Timed
    PROVE  Left(m, l) \in Nat /\ (Active(m, l) <=> Left(m, l) > 0)
<1>1. CASE l = "taunt"
  BY <1>1 DEF Left, Active, Kept, Mon, Flat
<1>2. m.encore.turns \in Nat /\ m.disable.turns \in Nat
  BY DEF Kept, Mon, Lock
<1>3. CASE l = "encore"
  <2>1. Left(m, "encore") = m.encore.turns
    BY DEF Left
  <2>2. Active(m, "encore") <=> m.encore.turns > 0
    BY EncoreActive
  <2> QED BY <1>2, <1>3, <2>1, <2>2
<1>4. CASE l = "disable"
  <2>1. Left(m, "disable") = m.disable.turns
    BY DEF Left
  <2>2. Active(m, "disable") <=> m.disable.turns > 0
    <3>1. \A k \in {"encore", "disable"} : m[k].turns > 0 <=> k \in m.locks
      BY DEF Kept, Cached, Active, Locks, Flat
    <3>2. "disable" \in m.locks <=> Active(m, "disable")
      BY DEF Kept, Cached, Locks
    <3> QED BY <3>1, <3>2
  <2> QED BY <1>2, <1>4, <2>1, <2>2
<1> QED BY <1>1, <1>3, <1>4 DEF Timed

LEMMA CuredLeft ==
    ASSUME NEW m \in Mon, NEW l \in Timed
    PROVE  Left(Cured(m), l) = 0 /\ Cured(m).item = m.item
BY DEF Left, Timed, Cured, Sync, Off, Mon, Flat

\* An Update leaves a lock as it is or ends it with the item.
LEMMA UpdateLeft ==
    ASSUME NEW m, Kept(m), NEW r
    PROVE  /\ \A l \in Timed : Left(Update(m, r), l) \in {Left(m, l), 0}
           /\ Update(m, r).item = m.item => Update(m, r) = m
<1>1. [m EXCEPT !.item = "none"] \in Mon /\ [m EXCEPT !.item = "none"].item = "none"
  BY DEF Mon, Kept, Items
<1>2. CASE Update(m, r) = m
  BY <1>2
<1>3. CASE Update(m, r) = Cured([m EXCEPT !.item = "none"]) /\ Item(m, r) = "herb"
  <2>1. \A l \in Timed : Left(Update(m, r), l) = 0
    BY <1>1, <1>3, CuredLeft
  <2>2. Update(m, r).item = "none"
    BY <1>1, <1>3, CuredLeft DEF Timed
  <2>3. m.item = "herb"
    BY <1>3 DEF Item
  <2> QED BY <2>1, <2>2, <2>3
<1> QED BY <1>2, <1>3 DEF Update

\* Locks that are over leave no account.
LEMMA CountsKept ==
    ASSUME Kept(mon'), NEW s \in [Timed -> Nat], NEW d \in [Timed -> Nat], Counts(mon', s, d),
           Owed(mon', s, d, pc'), pc' \in {"menu", "before", "after"}, came' => pc' = "after"
    PROVE  CostInv'
<1>1. spent' \in [Timed -> Nat] /\ due' \in [Timed -> Nat]
  BY DEF Counts
<1>2. \A l \in Timed : Left(mon', l) > 0 => spent'[l] = s[l] /\ due'[l] = d[l]
  BY LeftActive DEF Counts
<1>3. Owed(mon', spent', due', pc')
  BY <1>2 DEF Owed
<1> QED BY <1>1, <1>3 DEF CostInv

\* No lock grows of itself.
LEMMA OwedKept ==
    ASSUME NEW m, NEW n, Kept(n), NEW s, NEW d, NEW p, Owed(m, s, d, p),
           \A l \in Timed : Left(n, l) \in {Left(m, l), 0}
    PROVE  Owed(n, s, d, p)
BY DEF Owed

\* A mon that comes in has at most the Taunt it was passed.
LEMMA EnterLeft ==
    ASSUME Kept(mon), NEW kit \in Kits, NEW copy \in BOOLEAN, Enter(kit, copy), NEW l \in Timed
    PROVE  Left(mon', l) = 0 \/ (copy /\ Left(mon', l) = Left(mon, l))
<1>1. Kept(Fresh(kit)) /\ Left(Fresh(kit), l) = 0
  BY FreshKept DEF Left, Fresh, Off, Timed, Flat
<1>2. [Fresh(kit) EXCEPT !.flat = mon.flat] \in Mon
  BY <1>1 DEF Kept, Mon
<1>3. Kept(Passed(mon, Fresh(kit))) /\ Left(Passed(mon, Fresh(kit)), l) \in {Left(mon, l), 0}
  <2>1. Left([Fresh(kit) EXCEPT !.flat = mon.flat], l) \in {Left(mon, l), 0}
    BY <1>1, <1>2 DEF Left, Timed, Fresh, Off
  <2>2. Left(Sync([Fresh(kit) EXCEPT !.flat = mon.flat]), l) = Left([Fresh(kit) EXCEPT !.flat = mon.flat], l)
    BY <1>2 DEF Left, Timed, Sync, Mon
  <2> QED BY <1>2, <2>1, <2>2, SyncKept DEF Passed
<1>4. CASE copy
  <2>1. mon' = Update(Passed(mon, Fresh(kit)), room)
    BY <1>4 DEF Enter
  <2>2. Left(mon', l) \in {Left(Passed(mon, Fresh(kit)), l), 0}
    BY <1>3, <2>1, UpdateLeft
  <2> QED BY <1>3, <1>4, <2>2
<1>5. CASE ~copy
  <2>1. mon' = Update(Fresh(kit), room)
    BY <1>5 DEF Enter
  <2> QED BY <1>1, <2>1, UpdateLeft
<1> QED BY <1>4, <1>5

\* A deed that starts no lock, whichever way its history is written.
LEMMA DeedCosts ==
    ASSUME IInv, CostInv, NEW kind, NEW m, NEW r, Kept(m), Deed(kind, m, r),
           \A l \in Timed : Left(m, l) \in {Left(mon, l), 0},
           Counts(mon', spent, due) \/ UNCHANGED <<spent, due>>
    PROVE  CostInv'
<1>1. mon' = Update(m, r) /\ pc' = pc /\ came' = came
  BY DEF Deed
<1>2. Kept(mon') /\ \A l \in Timed : Left(mon', l) \in {Left(mon, l), 0}
  BY <1>1, UpdateLeft, UpdateKept
<1>3. Owed(mon', spent, due, pc')
  BY <1>1, <1>2, OwedKept DEF CostInv
<1>4. CASE Counts(mon', spent, due)
  BY <1>1, <1>2, <1>3, <1>4, CountsKept DEF CostInv
<1>5. CASE UNCHANGED <<spent, due>>
  BY <1>1, <1>3, <1>5 DEF CostInv
<1> QED BY <1>4, <1>5

\* One that starts a lock on n actions: the countdown is one more for a mon
\* that has acted.
LEMMA StartCosts ==
    ASSUME IInv, CostInv, NEW kind \in Timed, NEW m, NEW n \in Nat, Kept(m), Deed(kind, m, room),
           Left(m, kind) = n + Behind(pc), \A l \in Timed \ {kind} : Left(m, l) = Left(mon, l),
           Starts(kind, n)
    PROVE  CostInv'
<1> DEFINE s == [spent EXCEPT ![kind] = 0]
           d == [due EXCEPT ![kind] = n]
<1>1. mon' = Update(m, room) /\ pc' = pc /\ came' = came
  BY DEF Deed
<1>2. Kept(mon') /\ \A l \in Timed : Left(mon', l) \in {Left(m, l), 0}
  BY <1>1, UpdateLeft, UpdateKept
<1>3. s \in [Timed -> Nat] /\ d \in [Timed -> Nat]
  BY DEF CostInv
<1>4. Owed(m, s, d, pc)
  <2> SUFFICES ASSUME NEW l \in Timed, Left(m, l) > 0 PROVE s[l] + Left(m, l) = d[l] + Behind(pc)
    BY DEF Owed
  <2>1. CASE l = kind
    <3>1. s[l] = 0 /\ d[l] = n
      BY <2>1 DEF CostInv
    <3>2. Behind(pc) \in Nat
      BY DEF Behind
    <3> QED BY <2>1, <3>1, <3>2
  <2>2. CASE l # kind
    BY <2>2 DEF CostInv, Owed
  <2> QED BY <2>1, <2>2
<1>5. Owed(mon', s, d, pc')
  BY <1>1, <1>2, <1>4, OwedKept
<1>6. Counts(mon', s, d)
  BY DEF Starts
<1> QED BY <1>1, <1>2, <1>3, <1>5, <1>6, CountsKept DEF CostInv

\* The mon's action, taken or not, counts for each lock it leaves.
LEMMA FallenOwed ==
    ASSUME IInv, CostInv, pc = "before", NEW n, \A l \in Timed : Left(n, l) \in {Left(mon, l), 0}
    PROVE  Fallen \in [Timed -> Nat] /\ Owed(n, Fallen, due, "after")
<1>1. Fallen \in [Timed -> Nat]
  BY DEF Fallen, CostInv
<1>2. ASSUME NEW l \in Timed, Left(n, l) > 0 PROVE Fallen[l] + Left(n, l) = due[l] + 1
  <2>1. Left(n, l) = Left(mon, l) /\ Active(mon, l) /\ Left(mon, l) \in Nat
    BY <1>2, LeftActive DEF IInv
  <2>2. spent[l] + Left(mon, l) = due[l] + 0 /\ spent[l] \in Nat /\ due[l] \in Nat
    BY <1>2, <2>1 DEF CostInv, Owed, Behind
  <2>3. Fallen[l] = spent[l] + 1
    BY <2>1 DEF Fallen
  <2> QED BY <2>1, <2>2, <2>3
<1> QED BY <1>1, <1>2 DEF Owed, Behind

\* Every countdown is one less at the end of a turn; an Encore may end of its
\* PP.
LEMMA TickLeft ==
    ASSUME NEW m, Kept(m)
    PROVE  /\ Tick(m).item = m.item
           /\ \A l \in Timed :
                /\ Left(Tick(m), l) > 0 => Left(Tick(m), l) = Left(m, l) - 1
                /\ (l = "encore" => m.pp[m.encore.slot] > 0) /\ Left(m, l) > 0 =>
                       Left(Tick(m), l) = Left(m, l) - 1
<1> DEFINE a == TickEncore(m)
           b == TickDisable(a)
           c == TickFlat(b, "chop")
           d == TickFlat(c, "heal")
           e == TickFlat(d, "taunt")
<1>1. m.encore.turns \in Nat /\ m.encore.slot \in AnySlot /\ m.disable.turns \in Nat /\ m.flat["taunt"] \in Nat
  BY DEF Kept, Mon, Lock, Flat
<1>2. Kept(a)
  <2>1. m.encore.turns # 0 => (IF m.pp[m.encore.slot] = 0 THEN 0 ELSE m.encore.turns - 1) \in Nat
    BY <1>1
  <2> QED BY <1>1, <2>1, SetSlotKept DEF TickEncore
<1>3. /\ a.item = m.item /\ a.disable = m.disable /\ a.flat = m.flat
      /\ a.encore.turns = IF m.encore.turns = 0 \/ m.pp[m.encore.slot] = 0 THEN 0 ELSE m.encore.turns - 1
  <2>1. CASE m.encore.turns = 0
    BY <2>1 DEF TickEncore
  <2>2. CASE m.encore.turns # 0
    BY <1>1, <2>2 DEF TickEncore, SetSlot, Bit, Kept, Mon, Off
  <2> QED BY <2>1, <2>2
<1> HIDE DEF a
<1>4. Kept(b)
  <2>1. a.disable.turns \in Nat /\ a.disable.slot \in AnySlot
    BY <1>2 DEF Kept, Mon, Lock
  <2> QED BY <1>2, <2>1, SetSlotKept DEF TickDisable
<1>5. /\ b.item = a.item /\ b.encore = a.encore /\ b.flat = a.flat
      /\ b.disable.turns = IF a.disable.turns = 0 THEN 0 ELSE a.disable.turns - 1
  <2>1. CASE a.disable.turns = 0
    BY <2>1 DEF TickDisable
  <2>2. CASE a.disable.turns # 0
    BY <1>1, <1>2, <1>3, <2>2 DEF TickDisable, SetSlot, Bit, Kept, Mon, Off
  <2> QED BY <2>1, <2>2
<1> HIDE DEF b
<1>6. ASSUME NEW k, Kept(k), NEW l \in Flat
      PROVE  /\ Kept(TickFlat(k, l)) /\ TickFlat(k, l).item = k.item
             /\ TickFlat(k, l).encore = k.encore /\ TickFlat(k, l).disable = k.disable
             /\ \A j \in Flat \ {l} : TickFlat(k, l).flat[j] = k.flat[j]
             /\ TickFlat(k, l).flat[l] = IF k.flat[l] = 0 THEN 0 ELSE k.flat[l] - 1
  <2>1. k.flat[l] # 0 => k.flat[l] - 1 \in Nat
    BY <1>6 DEF Kept, Mon
  <2>2. Kept(TickFlat(k, l))
    BY <1>6, <2>1, SetFlatKept DEF TickFlat
  <2> QED BY <1>6, <2>2 DEF TickFlat, SetFlat, Bit, Kept, Mon
<1>7. Kept(c) /\ c.item = b.item /\ c.encore = b.encore /\ c.disable = b.disable /\ c.flat["taunt"] = b.flat["taunt"]
  BY <1>4, <1>6 DEF Flat
<1> HIDE DEF c
<1>8. Kept(d) /\ d.item = c.item /\ d.encore = c.encore /\ d.disable = c.disable /\ d.flat["taunt"] = c.flat["taunt"]
  BY <1>6, <1>7 DEF Flat
<1> HIDE DEF d
<1>9. /\ e.item = d.item /\ e.encore = d.encore /\ e.disable = d.disable
      /\ e.flat["taunt"] = IF d.flat["taunt"] = 0 THEN 0 ELSE d.flat["taunt"] - 1
  BY <1>6, <1>8 DEF Flat
<1> HIDE DEF e
<1>10. Tick(m) = e
  BY DEF Tick, a, b, c, d, e
<1>11. ASSUME NEW l \in Timed
       PROVE  Left(e, l) = IF Left(m, l) = 0 \/ (l = "encore" /\ m.pp[m.encore.slot] = 0) THEN 0 ELSE Left(m, l) - 1
  <2>1. CASE l = "taunt"
    BY <1>3, <1>5, <1>7, <1>8, <1>9, <2>1 DEF Left
  <2>2. CASE l = "encore"
    BY <1>3, <1>5, <1>7, <1>8, <1>9, <2>2 DEF Left
  <2>3. CASE l = "disable"
    BY <1>3, <1>5, <1>7, <1>8, <1>9, <2>3 DEF Left
  <2> QED BY <2>1, <2>2, <2>3 DEF Timed
<1>12. \A l \in Timed : Left(m, l) \in Nat
  BY LeftActive
<1> QED BY <1>3, <1>5, <1>7, <1>8, <1>9, <1>10, <1>11, <1>12

-----------------------------------------------------------------------------
(* The steps, again.                                                        *)

LEMMA CostStart == ASSUME Init PROVE CostInv
<1>1. \A l \in Timed : Left(mon, l) = 0
  BY DEF Init, Fresh, Off, Left, Timed, Flat
<1>2. \A l \in Timed : ~(Left(mon, l) > 0)
  BY <1>1
<1> QED BY <1>2 DEF Init, CostInv, Owed

LEMMA ActCosts == ASSUME BothInv, BothInv', CostInv, Act PROVE CostInv'
<1> DEFINE i == Override(mon, queued)
           d == Used(mon, i)
<1>1. i \in AnySlot /\ Kept(mon) /\ Kept(mon') /\ (~Repeats(i) => Kept(d))
  BY MoveFacts, UsedKept DEF BothInv, IInv, Act, Repeats
<1>2. pc = "before" /\ pc' = "after"
  BY DEF Act
<1>3. \A l \in Timed : Left(d, l) = Left(mon, l)
  BY <1>1 DEF Left, Timed, Used, SetLock, Bit, Kept, Mon
<1>4. due \in [Timed -> Nat]
  BY DEF CostInv
<1>5. CASE Counts(mon', Fallen, due) /\ \A l \in Timed : Left(mon', l) \in {Left(mon, l), 0}
  <2>1. Fallen \in [Timed -> Nat] /\ Owed(mon', Fallen, due, "after")
    BY <1>2, <1>5, FallenOwed DEF BothInv
  <2> QED BY <1>1, <1>2, <1>4, <1>5, <2>1, CountsKept
<1>6. CASE mon' = Spoiled(mon, i) /\ Counts(mon', Fallen, due)
  <2>1. \A l \in Timed : Left(mon', l) = Left(mon, l)
    BY <1>1, <1>6 DEF Left, Timed, Spoiled, Kept, Mon
  <2> QED BY <1>5, <1>6, <2>1
<1>7. CASE ~Repeats(i) /\ mon' = Update(d, room) /\ Counts(mon', Fallen, due)
  <2>1. \A l \in Timed : Left(mon', l) \in {Left(mon, l), 0}
    BY <1>1, <1>3, <1>7, UpdateLeft
  <2> QED BY <1>5, <1>7, <2>1
<1>8. CASE /\ ~Repeats(i) /\ mon' = Update(Cursed(d, i), room)
           /\ Counts(mon', [Fallen EXCEPT !["disable"] = 0], [due EXCEPT !["disable"] = 3])
  <2> DEFINE s == [Fallen EXCEPT !["disable"] = 0]
             t == [due EXCEPT !["disable"] = 3]
             n == Cursed(d, i)
  <2>1. Fallen \in [Timed -> Nat] /\ Owed(d, Fallen, due, "after")
    BY <1>2, <1>3, FallenOwed DEF BothInv
  <2>2. s \in [Timed -> Nat] /\ t \in [Timed -> Nat] /\ s["disable"] = 0 /\ t["disable"] = 3
        /\ \A l \in Timed \ {"disable"} : s[l] = Fallen[l] /\ t[l] = due[l]
    BY <1>4, <2>1 DEF Timed
  <2>0. Kept(d)
    BY <1>1, <1>8
  <2>3. Kept(n)
    BY <1>1, <2>0, SetSlotKept DEF Cursed
  <2>4. Left(n, "disable") = 4 /\ Left(n, "taunt") = Left(d, "taunt") /\ Left(n, "encore") = Left(d, "encore")
    BY <1>1, <2>0 DEF Left, Cursed, SetSlot, Bit, Kept, Mon
  <2> HIDE DEF n, s, t, d
  <2>5. Owed(n, s, t, "after")
    <3> SUFFICES ASSUME NEW l \in Timed, Left(n, l) > 0 PROVE s[l] + Left(n, l) = t[l] + 1
      BY DEF Owed, Behind
    <3>1. CASE l = "disable"
      BY <2>2, <2>4, <3>1
    <3>2. CASE l # "disable"
      <4>1. Left(n, l) = Left(d, l)
        BY <2>4, <3>2 DEF Timed
      <4> QED BY <2>1, <2>2, <3>2, <4>1 DEF Owed, Behind
    <3> QED BY <3>1, <3>2
  <2>6. mon' = Update(n, room) /\ Counts(mon', s, t)
    BY <1>8 DEF n, s, t
  <2>7. \A l \in Timed : Left(mon', l) \in {Left(n, l), 0}
    BY <2>3, <2>6, UpdateLeft
  <2>8. Owed(mon', s, t, pc')
    BY <1>1, <1>2, <2>5, <2>7, OwedKept
  <2> QED BY <1>1, <1>2, <2>2, <2>6, <2>8, CountsKept
<1>9. CASE (\E kit \in Kits : Enter(kit, TRUE)) /\ Counts(mon', Fallen, due)
  <2>1. \A l \in Timed : Left(mon', l) \in {Left(mon, l), 0}
    BY <1>1, <1>9, EnterLeft
  <2> QED BY <1>5, <1>9, <2>1
<1> QED BY <1>6, <1>7, <1>8, <1>9 DEF Act, Repeats

LEMMA OthersCost == ASSUME BothInv, BothInv', CostInv, Others PROVE CostInv'
<1>0. IInv /\ Kept(mon) /\ Kept(mon') /\ mon.last \in AnySlot
  BY MoveFacts DEF BothInv, IInv
<1>1. CASE Encore
  <2> DEFINE m == SetSlot(mon, "encore", EncoreTurns, mon.last)
  <2>1. EncoreTurns = 3 + Behind(pc) /\ EncoreTurns \in Nat \ {0}
    BY <1>1 DEF EncoreTurns, Pending, Behind, Encore, Deed
  <2>2. Kept(m)
    BY <1>0, <2>1, SetSlotKept
  <2>3. Left(m, "encore") = EncoreTurns /\ Left(m, "taunt") = Left(mon, "taunt") /\ Left(m, "disable") = Left(mon, "disable")
    BY <1>0, <2>1 DEF Left, SetSlot, Bit, Kept, Mon
  <2> HIDE DEF m
  <2>4. Deed("encore", m, room) /\ Starts("encore", 3)
    BY <1>1 DEF Encore, m
  <2>5. \A l \in Timed \ {"encore"} : Left(m, l) = Left(mon, l)
    BY <2>3 DEF Timed
  <2> QED BY <1>0, <2>1, <2>2, <2>3, <2>4, <2>5, StartCosts DEF Timed
<1>2. CASE Disable
  <2> DEFINE t == IF Pending THEN 4 ELSE 5
             m == SetSlot(mon, "disable", t, mon.last)
  <2>1. t = 4 + Behind(pc) /\ t \in Nat \ {0}
    BY <1>2 DEF Pending, Behind, Disable, Deed
  <2>2. Deed("disable", m, room) /\ Starts("disable", 4)
    BY <1>2 DEF Disable
  <2> HIDE DEF t
  <2>3. Kept(m)
    BY <1>0, <2>1, SetSlotKept
  <2>4. Left(m, "disable") = t /\ Left(m, "taunt") = Left(mon, "taunt") /\ Left(m, "encore") = Left(mon, "encore")
    BY <1>0, <2>1 DEF Left, SetSlot, Bit, Kept, Mon
  <2> HIDE DEF m
  <2>5. \A l \in Timed \ {"disable"} : Left(m, l) = Left(mon, l)
    BY <2>4 DEF Timed
  <2> QED BY <1>0, <2>1, <2>2, <2>3, <2>4, <2>5, StartCosts DEF Timed
<1>3. ASSUME NEW kind \in Flat, NEW n \in Nat
      PROVE  /\ Kept(SetFlat(mon, kind, n))
             /\ \A l \in Timed \ {kind} : Left(SetFlat(mon, kind, n), l) = Left(mon, l)
             /\ kind = "taunt" => Left(SetFlat(mon, kind, n), kind) = n
  <2>1. Kept(SetFlat(mon, kind, n))
    BY <1>0, SetFlatKept
  <2> QED BY <1>0, <2>1 DEF Left, Timed, Flat, SetFlat, Bit, Kept, Mon
<1>4. CASE Taunt
  <2> DEFINE t == IF ~came /\ ~Pending THEN 4 ELSE 3
             c == IF came THEN 2 ELSE 3
             m == SetFlat(mon, "taunt", t)
  <2>1. t = c + Behind(pc) /\ t \in Nat /\ c \in Nat
    BY <1>4 DEF Pending, Behind, Taunt, Deed, CostInv
  <2>2. Deed("taunt", m, room) /\ Starts("taunt", c)
    BY <1>4 DEF Taunt
  <2> HIDE DEF t, c
  <2>3. Kept(m) /\ Left(m, "taunt") = t /\ \A l \in Timed \ {"taunt"} : Left(m, l) = Left(mon, l)
    BY <1>3, <2>1 DEF Flat
  <2> HIDE DEF m
  <2> QED BY <1>0, <2>1, <2>2, <2>3, StartCosts DEF Timed
<1>5. CASE \E kind \in {"chop", "heal"} : Silence(kind)
  <2>1. PICK kind \in {"chop", "heal"} : Silence(kind)
    BY <1>5
  <2>2. Deed(kind, SetFlat(mon, kind, 2), room) /\ UNCHANGED <<spent, due>>
    BY <2>1 DEF Silence
  <2>3. Kept(SetFlat(mon, kind, 2)) /\ \A l \in Timed : Left(SetFlat(mon, kind, 2), l) = Left(mon, l)
    BY <1>3 DEF Flat, Timed
  <2> QED BY <1>0, <2>2, <2>3, DeedCosts
<1>6. ASSUME NEW kind, NEW m, NEW r, Kept(m), Deed(kind, m, r), m.encore = mon.encore,
             m.disable = mon.disable, m.flat = mon.flat, Counts(mon', spent, due) \/ UNCHANGED <<spent, due>>
      PROVE  CostInv'
  <2>1. \A l \in Timed : Left(m, l) = Left(mon, l)
    BY <1>6 DEF Left, Timed
  <2> QED BY <1>0, <1>6, <2>1, DeedCosts
<1>7. CASE Torment
  <2> DEFINE e == [mon EXCEPT !.torment = TRUE]
  <2>1. Kept(e) /\ e.encore = mon.encore /\ e.disable = mon.disable /\ e.flat = mon.flat
    BY <1>0, OtherFields DEF Kept, Mon
  <2> QED BY <1>6, <1>7, <2>1 DEF Torment
<1>8. CASE Spite
  <2> DEFINE e == [mon EXCEPT !.pp[mon.last] = 0]
  <2>1. mon.last \in Slot
    BY <1>8 DEF Spite, Lockable
  <2>2. e \in Mon
    BY <1>0, <2>1 DEF Kept, Mon
  <2>3. Kept(e) /\ e.encore = mon.encore /\ e.disable = mon.disable /\ e.flat = mon.flat
    BY <1>0, <2>2, OtherFields DEF Kept, Mon
  <2> QED BY <1>6, <1>8, <2>3 DEF Spite
<1>9. CASE Cure
  <2>1. PICK m \in {Cured(mon), Rid(mon)} : Deed("cure", m, room)
    BY <1>9 DEF Cure
  <2>2. [mon EXCEPT !.flat = [@ EXCEPT !["taunt"] = 0]] \in Mon
    BY <1>0 DEF Kept, Mon, Flat
  <2>3. Kept(Cured(mon)) /\ Kept(Rid(mon))
    BY <1>0, <2>2, CuredKept, SyncKept DEF Rid, Kept
  <2>4. \A l \in Timed : Left(Cured(mon), l) = 0
    BY <1>0, CuredLeft DEF Kept
  <2>5. \A l \in Timed : Left(Rid(mon), l) \in {Left(mon, l), 0}
    BY <1>0 DEF Left, Timed, Rid, Sync, Kept, Mon, Flat
  <2>6. Counts(mon', spent, due)
    BY <1>9 DEF Cure
  <2> QED BY <1>0, <2>1, <2>3, <2>4, <2>5, <2>6, DeedCosts
<1>10. CASE Swap
  <2>1. \A item \in Items : Kept([mon EXCEPT !.item = item])
    BY <1>0, OtherFields DEF Kept, Mon
  <2>2. Kept([mon EXCEPT !.tactics = ~@])
    BY <1>0, OtherFields DEF Kept, Mon
  <2>3. /\ \A item \in Items : LET e == [mon EXCEPT !.item = item] IN
             e.encore = mon.encore /\ e.disable = mon.disable /\ e.flat = mon.flat
        /\ LET e == [mon EXCEPT !.tactics = ~@] IN
             e.encore = mon.encore /\ e.disable = mon.disable /\ e.flat = mon.flat
    BY <1>0 DEF Kept, Mon
  <2>4. Counts(mon', spent, due)
    BY <1>10 DEF Swap
  <2>5. CASE \E item \in Items \ {mon.item} : Deed("item", [mon EXCEPT !.item = item], room)
    <3>1. PICK item \in Items \ {mon.item} : Deed("item", [mon EXCEPT !.item = item], room)
      BY <2>5
    <3> QED BY <1>6, <2>1, <2>3, <2>4, <3>1
  <2>6. CASE Deed("ability", [mon EXCEPT !.tactics = ~@], room)
    BY <1>6, <2>2, <2>3, <2>4, <2>6
  <2> QED BY <1>10, <2>5, <2>6 DEF Swap
<1>11. CASE MagicRoom
  BY <1>0, <1>6, <1>11 DEF MagicRoom
<1>12. CASE Imprison
  BY <1>0, <1>6, <1>12 DEF Imprison
<1>13. CASE Drag
  <2>1. pc' = "after" /\ Counts(mon', spent, due) /\ \E kit \in Kits : Enter(kit, FALSE)
    BY <1>13 DEF Drag
  <2>2. \A l \in Timed : Left(mon', l) = 0
    BY <1>0, <2>1, EnterLeft
  <2>3. Owed(mon', spent, due, pc')
    BY <2>2 DEF Owed
  <2> QED BY <1>0, <2>1, <2>3, CountsKept DEF CostInv
<1> QED BY <1>1, <1>2, <1>4, <1>5, <1>7, <1>8, <1>9, <1>10, <1>11, <1>12, <1>13 DEF Others

\* When a turn ends a lock with a turn left has one less to cost.
LEMMA EndCosts == ASSUME BothInv, BothInv', CostInv, EndTurn PROVE CostInv'
<1> DEFINE u == Update(mon, room')
<1>0. Kept(mon) /\ Kept(mon') /\ Kept(u)
  BY UpdateKept DEF BothInv, IInv
<1>1. pc = "after" /\ pc' = "menu" /\ came' = FALSE /\ mon' = Tick(u) /\ Counts(mon', spent, due)
  BY DEF EndTurn
<1>2. \A l \in Timed : Left(u, l) \in {Left(mon, l), 0}
  BY <1>0, UpdateLeft
<1> HIDE DEF u
<1>3. \A l \in Timed : Left(mon', l) > 0 => Left(mon', l) = Left(u, l) - 1
  BY <1>0, <1>1, TickLeft
<1>4. ASSUME NEW l \in Timed, Left(mon', l) > 0 PROVE spent[l] + Left(mon', l) = due[l]
  <2>1. Left(mon, l) \in Nat /\ spent[l] \in Nat /\ due[l] \in Nat /\ Left(mon', l) \in Nat
    BY <1>0, LeftActive DEF CostInv
  <2>2. Left(mon', l) = Left(mon, l) - 1 /\ Left(mon, l) > 0
    BY <1>2, <1>3, <1>4, <2>1
  <2>3. spent[l] + Left(mon, l) = due[l] + 1
    BY <1>1, <2>2 DEF CostInv, Owed, Behind
  <2> QED BY <2>1, <2>2, <2>3
<1>5. due \in [Timed -> Nat] /\ spent \in [Timed -> Nat]
  BY DEF CostInv
<1>6. Owed(mon', spent, due, pc')
  BY <1>1, <1>4, <1>5 DEF Owed, Behind
<1> QED BY <1>0, <1>1, <1>5, <1>6, CountsKept

LEMMA CostStep == ASSUME BothInv, CostInv, [Next]_vars PROVE CostInv'
<1>0. BothInv' /\ Kept(mon) /\ Kept(mon')
  BY BothStep DEF BothInv, IInv
<1>1. CASE Choose
  <2>1. mon'.encore = mon.encore /\ mon'.disable = mon.disable /\ mon'.flat = mon.flat
    BY <1>0, <1>1 DEF Choose, Begun, SetLock, Bit, Kept, Mon
  <2>2. \A l \in Timed : Left(mon', l) = Left(mon, l)
    BY <2>1 DEF Left, Timed
  <2>3. pc = "menu" /\ pc' = "before" /\ UNCHANGED <<came, spent, due>>
    BY <1>1 DEF Choose
  <2> QED BY <2>2, <2>3 DEF CostInv, Owed, Behind
<1>2. CASE SwitchOut
  <2>1. pc' = "after" /\ Counts(mon', spent, due) /\ \E kit \in Kits : Enter(kit, FALSE)
    BY <1>2 DEF SwitchOut
  <2>2. \A l \in Timed : Left(mon', l) = 0
    BY <1>0, <2>1, EnterLeft
  <2>3. Owed(mon', spent, due, pc')
    BY <2>2 DEF Owed
  <2> QED BY <1>0, <2>1, <2>3, CountsKept DEF CostInv
<1>3. CASE Wait
  <2>1. pc = "before" /\ pc' = "after" /\ mon' = mon /\ Counts(mon, Fallen, due)
    BY <1>3 DEF Wait
  <2>2. Fallen \in [Timed -> Nat] /\ Owed(mon', Fallen, due, pc')
    BY <2>1, FallenOwed DEF BothInv
  <2>3. Counts(mon', Fallen, due)
    BY <2>1
  <2> QED BY <1>0, <2>1, <2>2, <2>3, CountsKept DEF CostInv
<1>4. CASE Act
  BY <1>0, <1>4, ActCosts
<1>5. CASE Others
  BY <1>0, <1>5, OthersCost
<1>6. CASE EndTurn
  BY <1>0, <1>6, EndCosts
<1>7. CASE UNCHANGED vars
  BY <1>7 DEF vars, CostInv, Owed, Left
<1> QED BY <1>1, <1>2, <1>3, <1>4, <1>5, <1>6, <1>7 DEF Next

(* However many turns, whoever interferes and whenever it hits, a timed     *)
(* lock that runs out has cost its target as many actions as it is meant to *)
(* (battle.rs 22672-22699).                                                 *)
THEOREM CostsTheSame == Spec => LocksCostTheSame
<1>1. Init => BothInv /\ CostInv
  BY BothStart, CostStart
<1>2. BothInv /\ CostInv /\ [Next]_vars => (BothInv /\ CostInv)'
  BY BothStep, CostStep
<1>3. ASSUME BothInv, CostInv, [Next]_vars
      PROVE  [pc = "after" /\ pc' = "menu" /\ mon'.item = mon.item =>
                \A l \in Timed :
                   /\ Active(mon, l) /\ ~Active(mon', l)
                   /\ l = "encore" => mon.pp[mon.encore.slot] > 0
                   => spent[l] = due[l]]_vars
  <2> SUFFICES ASSUME pc = "after", pc' = "menu", mon'.item = mon.item, NEW l \in Timed,
                      Active(mon, l), ~Active(mon', l), l = "encore" => mon.pp[mon.encore.slot] > 0
               PROVE  spent[l] = due[l]
    OBVIOUS
  <2>0. Kept(mon) /\ Kept(mon')
    BY <1>3, BothStep DEF BothInv, IInv
  <2>1. EndTurn
    BY <1>3 DEF Next, vars, Choose, SwitchOut, Wait, Act, Others, Encore, Disable, Taunt, Silence,
                Torment, Spite, Cure, Swap, MagicRoom, Imprison, Drag, Deed
  <2>2. mon' = Tick(Update(mon, room')) /\ Kept(Update(mon, room'))
    BY <2>0, <2>1, UpdateKept DEF EndTurn
  <2>3. mon' = Tick(mon)
    BY <2>0, <2>2, TickLeft, UpdateLeft
  <2>4. Left(mon, l) \in Nat /\ Left(mon, l) > 0 /\ Left(mon', l) \in Nat /\ ~(Left(mon', l) > 0)
    BY <2>0, LeftActive
  <2>5. Left(mon', l) = Left(mon, l) - 1
    BY <2>0, <2>3, <2>4, TickLeft
  <2>6. spent[l] + Left(mon, l) = due[l] + 1 /\ spent[l] \in Nat /\ due[l] \in Nat
    BY <1>3, <2>4 DEF CostInv, Owed, Behind
  <2> QED BY <2>4, <2>5, <2>6
<1> QED BY <1>1, <1>2, <1>3, PTL DEF Spec, LocksCostTheSame
=============================================================================
