-------------------------- MODULE TurnLoop_proofs --------------------------
(***************************************************************************)
(* Proofs about TurnLoop: the state keeps its types; the side arrays keep  *)
(* every mon in one place, the active slots in step with the party order;  *)
(* a stop mid-turn has somebody to ask; the battle is over as soon as a    *)
(* side is out; the sweep takes the picks of its stop; and actions follow  *)
(* the mons they were chosen for.                                          *)
(*                                                                         *)
(* PlacesInv is the inductive invariant of the places: the arrays          *)
(* themselves, the switches still to be made, the flags that ask for a     *)
(* switch and the picks that answer them need one another.  OneExitEach    *)
(* says that a side has at most one mon whose item or ability takes it off *)
(* the field; with two the code itself puts two slots in front of one      *)
(* reserve, and the arrays break.  ActionInv is the invariant of the       *)
(* actions: the queue, the latches of the slots, who has acted and who     *)
(* came in.                                                                *)
(***************************************************************************)
EXTENDS TurnLoop, WellFoundedInduction, TLAPS

Places == UNION {[side : {s}, slot : Slots, mon : Mons(s)] : s \in Sides}

Sided(S) ==
    /\ DOMAIN S = Sides /\ S = [s \in Sides |-> S[s]]
    /\ \A s \in Sides : S[s] \in SideState(s)

TypeInv ==
    /\ pc \in {"idle", "switching", "loop", "drags", "stop", "sweep", "residual"}
    /\ Sided(side)
    /\ queue \subseteq Places /\ switches \subseteq Places /\ halved \subseteq Places
    /\ drags \subseteq [side : Sides, slot : Slots]
    /\ todo \subseteq Sides /\ ended \in BOOLEAN /\ turn \in Nat

-----------------------------------------------------------------------------
(* The fields of a side: the lemmas speak of these, so that a leaf opens a  *)
(* record only where it must.                                               *)
Act(d) == d.active
Ord(d) == d.order
Down(d) == d.fainted
Flg(d) == d.flag
Itm(d) == d.items
Rep(d) == d.replaced
Cha(d) == d.chased
Def(d) == d.deferred
Usd(d) == d.used
Crs(d) == d.crossed
Rvd(d) == d.revived

LEMMA Basics ==
    ASSUME NEW s \in Sides
    PROVE  /\ Slots \subseteq Mons(s) /\ Mons(s) \subseteq Nat /\ Mons(s) # {}
           /\ Foe(s) \in Sides /\ Foe(s) # s /\ Foe(Foe(s)) = s
           /\ Sides = {s, Foe(s)}
BY TurnAssumption DEF Slots, Mons, Foe, Sides

LEMMA Fields ==
    ASSUME NEW s \in Sides, NEW d \in SideState(s)
    PROVE  /\ Act(d) \in [Slots -> Mons(s)] /\ Ord(d) \in [Mons(s) -> Mons(s)]
           /\ Down(d) \subseteq Mons(s) /\ Flg(d) \in [Mons(s) -> {"none", "self", "forced", "revive"}]
           /\ Itm(d) \subseteq Mons(s) /\ Rep(d) \subseteq Slots /\ Cha(d) \subseteq Slots
           /\ Usd(d) \subseteq Nat /\ Crs(d) \subseteq Mons(s) /\ Rvd(d) \in BOOLEAN
           /\ Def(d) \in Seq([slot : Slots, mon : Mons(s)])
BY DEF SideState, Act, Ord, Down, Flg, Itm, Rep, Cha, Def, Usd, Crs, Rvd

LEMMA FlagOf ==
    ASSUME NEW s \in Sides, NEW d \in SideState(s), NEW slot \in Slots
    PROVE  Act(d)[slot] \in Mons(s) /\ Flg(d)[Act(d)[slot]] \in {"none", "self", "forced", "revive"}
<1>1. Act(d) \in [Slots -> Mons(s)] /\ Flg(d) \in [Mons(s) -> {"none", "self", "forced", "revive"}]
  BY DEF SideState, Act, Flg
<1> QED BY <1>1

LEMMA Reads ==
    ASSUME NEW s, NEW d
    PROVE  /\ \A slot : Standing(d, slot) <=> Act(d)[slot] \notin Down(d)
           /\ Up(d) = {slot \in Slots : Act(d)[slot] \notin Down(d)}
           /\ Bench(s, d) = Mons(s) \ (Down(d) \cup {Act(d)[0], Act(d)[1]})
           /\ Reserve(s, d) = {Ord(d)[i] : i \in Mons(s) \ Slots} \ Down(d)
           /\ Flagged(d) = {slot \in Slots : Flg(d)[Act(d)[slot]] # "none"}
           /\ Out(s, d) <=> Down(d) = Mons(s)
BY DEF Standing, Up, Bench, Reserve, Flagged, Out, Act, Ord, Down, Flg

\* < on the naturals, as the library's theorem has it.
Less == {ss \in Nat \X Nat : ss[1] < ss[2]}

LEMMA LowestIn ==
    ASSUME NEW S, S \subseteq Nat, S # {}
    PROVE  Lowest(S) \in S
<1>1. IsWellFoundedOn(Less, Nat)
  BY NatLessThanWellFounded DEF OpToRel, Less
<1>2. \E n \in S : \A m \in S : ~(<<m, n>> \in Less)
  BY <1>1, WFMin
<1>3. \A m, n \in Nat : <<m, n>> \notin Less => n <= m
  BY DEF Less
<1>4. \E n \in S : \A m \in S : n <= m
  BY <1>2, <1>3
<1> QED BY <1>4 DEF Lowest

-----------------------------------------------------------------------------
(* The operators on one side.                                               *)

\* do_switch writes these fields and no other.
LEMMA SeatWrites ==
    ASSUME NEW s \in Sides, NEW d \in SideState(s), NEW slot \in Slots, NEW m \in Mons(s)
    PROVE  LET e == Seat(d, slot, m) IN
           /\ e \in SideState(s)
           /\ m \in Down(d) => e = d
           /\ m \notin Down(d) =>
                 /\ Act(e)[slot] = m /\ \A x \in Slots \ {slot} : Act(e)[x] = Act(d)[x]
                 /\ Flg(e)[m] = "none" /\ \A x \in Mons(s) \ {m} : Flg(e)[x] = Flg(d)[x]
                 /\ Crs(e) = Crs(d) \cup {Act(d)[slot], m}
           /\ Down(e) = Down(d) /\ Itm(e) = Itm(d) /\ Rep(e) = Rep(d)
           /\ Cha(e) = Cha(d) /\ Def(e) = Def(d) /\ Usd(e) = Usd(d) /\ Rvd(e) = Rvd(d)
<1> PICK e : e = Seat(d, slot, m)
  OBVIOUS
<1>1. e \in SideState(s)
  <2>1. slot \in Mons(s)
    BY Basics
  <2> QED BY <2>1 DEF Seat, SideState
<1>2. m \in Down(d) => e = d
  BY DEF Seat, Down
<1>3. /\ Down(e) = Down(d) /\ Itm(e) = Itm(d) /\ Rep(e) = Rep(d)
      /\ Cha(e) = Cha(d) /\ Def(e) = Def(d) /\ Usd(e) = Usd(d) /\ Rvd(e) = Rvd(d)
  BY DEF Seat, SideState, Down, Itm, Rep, Cha, Def, Usd, Rvd
<1>4. ASSUME m \notin Down(d)
      PROVE  /\ Act(e) = [Act(d) EXCEPT ![slot] = m] /\ Flg(e) = [Flg(d) EXCEPT ![m] = "none"]
             /\ Crs(e) = Crs(d) \cup {Act(d)[slot], m}
  BY <1>4 DEF Seat, SideState, Down, Act, Flg, Crs
<1>5. ASSUME m \notin Down(d)
      PROVE  /\ Act(e)[slot] = m /\ \A x \in Slots \ {slot} : Act(e)[x] = Act(d)[x]
             /\ Flg(e)[m] = "none" /\ \A x \in Mons(s) \ {m} : Flg(e)[x] = Flg(d)[x]
  <2>1. Act(d) \in [Slots -> Mons(s)] /\ Flg(d) \in [Mons(s) -> {"none", "self", "forced", "revive"}]
    BY Fields
  <2> QED BY <1>4, <1>5, <2>1
<1> QED BY <1>1, <1>2, <1>3, <1>4, <1>5

LEMMA MidTurnSeatWrites ==
    ASSUME NEW s \in Sides, NEW d \in SideState(s), NEW slot \in Slots, NEW m \in Mons(s)
    PROVE  LET e == MidTurnSeat(d, slot, m) IN
           /\ e \in SideState(s)
           /\ m \in Down(d) => e = d
           /\ m \notin Down(d) =>
                 /\ Act(e)[slot] = m /\ \A x \in Slots \ {slot} : Act(e)[x] = Act(d)[x]
                 /\ Flg(e)[m] = "none" /\ \A x \in Mons(s) \ {m} : Flg(e)[x] = Flg(d)[x]
                 /\ Crs(e) = Crs(d) \cup {Act(d)[slot], m}
                 /\ Rep(e) = Rep(d) \cup {slot}
                 /\ Ord(e) = Ord(Seat(d, slot, m))
           /\ Down(e) = Down(d) /\ Itm(e) = Itm(d)
           /\ Cha(e) = Cha(d) /\ Def(e) = Def(d) /\ Usd(e) = Usd(d) /\ Rvd(e) = Rvd(d)
<1> PICK b : b = Seat(d, slot, m)
  OBVIOUS
<1> PICK e : e = MidTurnSeat(d, slot, m)
  OBVIOUS
<1>1. CASE m \in Down(d)
  <2>1. e = d
    BY <1>1 DEF MidTurnSeat, Down
  <2> QED BY <1>1, <2>1
<1>2. CASE m \notin Down(d)
  <2>1. /\ b \in SideState(s)
        /\ Act(b)[slot] = m /\ \A x \in Slots \ {slot} : Act(b)[x] = Act(d)[x]
        /\ Flg(b)[m] = "none" /\ \A x \in Mons(s) \ {m} : Flg(b)[x] = Flg(d)[x]
        /\ Crs(b) = Crs(d) \cup {Act(d)[slot], m}
        /\ Down(b) = Down(d) /\ Itm(b) = Itm(d) /\ Rep(b) = Rep(d)
        /\ Cha(b) = Cha(d) /\ Def(b) = Def(d) /\ Usd(b) = Usd(d) /\ Rvd(b) = Rvd(d)
    BY <1>2, SeatWrites
  <2> PICK r : r = Rep(d) \cup {slot}
    OBVIOUS
  <2>2. e = [b EXCEPT !.replaced = r]
    BY <1>2 DEF MidTurnSeat, Down, Rep
  <2>3. r \in SUBSET Slots
    BY Fields
  <2>4. b \in SideState(s)
    BY <2>1
  <2>5. e \in SideState(s)
    BY <2>2, <2>3, <2>4 DEF SideState
  <2>6. /\ Act(e) = Act(b) /\ Ord(e) = Ord(b) /\ Flg(e) = Flg(b) /\ Crs(e) = Crs(b)
        /\ Down(e) = Down(b) /\ Itm(e) = Itm(b) /\ Cha(e) = Cha(b) /\ Rep(e) = r
        /\ Def(e) = Def(b) /\ Usd(e) = Usd(b) /\ Rvd(e) = Rvd(b)
    BY <2>2, <2>4 DEF SideState, Act, Ord, Flg, Crs, Down, Itm, Cha, Rep, Def, Usd, Rvd
  <2> QED BY <1>2, <2>1, <2>5, <2>6
<1> QED BY <1>1, <1>2

LEMMA FirstOfTheBench ==
    ASSUME NEW s \in Sides, NEW d \in SideState(s), Bench(s, d) # {}
    PROVE  Lowest(Bench(s, d)) \in Bench(s, d) /\ Bench(s, d) \subseteq Mons(s)
BY Basics, LowestIn DEF Bench

LEMMA PicksTyped ==
    ASSUME NEW s \in Sides, NEW d \in SideState(s), NEW slot \in Slots
    PROVE  /\ Picks(d, slot) # {} => Lowest(Picks(d, slot)) \in Picks(d, slot)
           /\ \A i \in Picks(d, slot) : i \in Nat \ Usd(d) /\ d.deferred[i].mon \in Mons(s)
<1>1. \A i \in Picks(d, slot) : i \in DOMAIN Def(d) /\ i \in 1 .. Kept /\ i \notin Usd(d)
  BY DEF Picks, Def, Usd
<1>2. Picks(d, slot) \subseteq Nat
  BY <1>1 DEF Kept
<1>3. \A i \in Picks(d, slot) : Def(d)[i].mon \in Mons(s)
  <2> DEFINE P == [slot : Slots, mon : Mons(s)]
  <2>1. Def(d) \in Seq(P)
    BY Fields
  <2>2. \A p \in P : p.mon \in Mons(s)
    OBVIOUS
  <2> HIDE DEF P
  <2> QED BY <1>1, <2>1, <2>2
<1>4. Picks(d, slot) # {} => Lowest(Picks(d, slot)) \in Picks(d, slot)
  BY <1>2, LowestIn
<1> QED BY <1>1, <1>2, <1>3, <1>4 DEF Def

LEMMA SeatOrders ==
    ASSUME NEW s \in Sides, NEW d \in SideState(s), NEW slot \in Slots, NEW m \in Mons(s),
           m \notin Down(d), NEW p \in Mons(s), Ord(d)[p] = m, \A q \in Mons(s) : Ord(d)[q] = m => q = p
    PROVE  LET e == Seat(d, slot, m) IN
           /\ Ord(e)[slot] = m /\ (p # slot => Ord(e)[p] = Ord(d)[slot])
           /\ \A x \in Mons(s) \ {slot, p} : Ord(e)[x] = Ord(d)[x]
<1> PICK e : e = Seat(d, slot, m)
  OBVIOUS
<1>1. Ord(d) \in [Mons(s) -> Mons(s)] /\ slot \in Mons(s)
  BY Fields, Basics
<1>2. Place(d, m) = p
  BY <1>1 DEF Place, Ord
<1>3. Ord(e) = [Ord(d) EXCEPT ![p] = Ord(d)[slot], ![slot] = m]
  BY <1>2 DEF Seat, Down, SideState, Ord
<1> QED BY <1>1, <1>3

\* Two mons stand in the two slots, and the party order has them first.
Placed(s, d) ==
    /\ Act(d)[0] # Act(d)[1]
    /\ \A x \in Slots : Ord(d)[x] = Act(d)[x]
    /\ \A x, y \in Mons(s) : Ord(d)[x] = Ord(d)[y] => x = y
    /\ \A m \in Mons(s) : \E x \in Mons(s) : Ord(d)[x] = m

\* do_switch keeps it, if the mon that enters was not in the other slot.
LEMMA SeatPlaces ==
    ASSUME NEW s \in Sides, NEW d \in SideState(s), NEW slot \in Slots, NEW m \in Mons(s),
           Placed(s, d), m \notin {Act(d)[x] : x \in Slots \ {slot}}
    PROVE  Placed(s, Seat(d, slot, m))
<1> PICK e : e = Seat(d, slot, m)
  OBVIOUS
<1>1. CASE m \in Down(d)
  BY <1>1, SeatWrites
<1>2. CASE m \notin Down(d)
  <2>1. /\ \A x \in Slots : Ord(d)[x] = Act(d)[x]
        /\ \A x, y \in Mons(s) : Ord(d)[x] = Ord(d)[y] => x = y
        /\ \A k \in Mons(s) : \E x \in Mons(s) : Ord(d)[x] = k
    BY DEF Placed
  <2>2. PICK p \in Mons(s) : Ord(d)[p] = m
    BY <2>1
  <2>3. \A q \in Mons(s) : Ord(d)[q] = m => q = p
    BY <2>1, <2>2
  <2>4. /\ Ord(e)[slot] = m /\ (p # slot => Ord(e)[p] = Ord(d)[slot])
        /\ \A x \in Mons(s) \ {slot, p} : Ord(e)[x] = Ord(d)[x]
    BY <1>2, <2>2, <2>3, SeatOrders
  <2>5. Act(e)[slot] = m /\ \A x \in Slots \ {slot} : Act(e)[x] = Act(d)[x]
    BY <1>2, SeatWrites
  <2>6. Slots \subseteq Mons(s) /\ 0 \in Slots /\ 1 \in Slots /\ \A x \in Slots : x = 0 \/ x = 1
    BY Basics DEF Slots
  <2>7. \A x \in Slots \ {slot} : p # x
    BY <2>1, <2>2
  <2>8. \A x \in Slots : Ord(e)[x] = Act(e)[x]
    BY <2>1, <2>4, <2>5, <2>6, <2>7
  <2>9. Act(e)[0] # Act(e)[1]
    BY <2>5, <2>6
  <2>10. \A x, y \in Mons(s) : Ord(e)[x] = Ord(e)[y] => x = y
    BY <2>1, <2>2, <2>4, <2>6
  <2>11. \A k \in Mons(s) : \E x \in Mons(s) : Ord(e)[x] = k
    <3> TAKE k \in Mons(s)
    <3>1. PICK x \in Mons(s) : Ord(d)[x] = k
      BY <2>1
    <3>2. CASE x = p
      BY <2>2, <2>4, <2>6, <3>1, <3>2
    <3>3. CASE x = slot /\ x # p
      BY <2>2, <2>4, <2>6, <3>1, <3>3
    <3>4. CASE x # slot /\ x # p
      BY <2>4, <3>1, <3>4
    <3> QED BY <3>2, <3>3, <3>4
  <2> QED BY <2>8, <2>9, <2>10, <2>11 DEF Placed
<1> QED BY <1>1, <1>2

LEMMA MidTurnSeatPlaces ==
    ASSUME NEW s \in Sides, NEW d \in SideState(s), NEW slot \in Slots, NEW m \in Mons(s),
           Placed(s, d), m \notin {Act(d)[x] : x \in Slots \ {slot}}
    PROVE  Placed(s, MidTurnSeat(d, slot, m))
<1>1. CASE m \in Down(d)
  BY <1>1, MidTurnSeatWrites
<1>2. CASE m \notin Down(d)
  <2>1. Placed(s, Seat(d, slot, m))
    BY SeatPlaces
  <2>2. \A x \in Slots : Act(MidTurnSeat(d, slot, m))[x] = Act(Seat(d, slot, m))[x]
    BY <1>2, SeatWrites, MidTurnSeatWrites
  <2>3. Ord(MidTurnSeat(d, slot, m)) = Ord(Seat(d, slot, m))
    BY <1>2, MidTurnSeatWrites
  <2> QED BY <2>1, <2>2, <2>3 DEF Placed, Slots
<1> QED BY <1>1, <1>2

\* With the party order in place, a reserve is whoever is on the bench.
LEMMA ReserveIsBench ==
    ASSUME NEW s \in Sides, NEW d \in SideState(s), Placed(s, d)
    PROVE  Reserve(s, d) = Bench(s, d)
<1>1. Reserve(s, d) = {Ord(d)[i] : i \in Mons(s) \ Slots} \ Down(d)
  BY Reads
<1>2. Bench(s, d) = Mons(s) \ (Down(d) \cup {Act(d)[0], Act(d)[1]})
  BY Reads
<1>3. Ord(d) \in [Mons(s) -> Mons(s)] /\ Slots \subseteq Mons(s) /\ Slots = {0, 1}
  BY Fields, Basics DEF Slots
<1>4. \A m : m \in {Ord(d)[i] : i \in Mons(s) \ Slots} <=> m \in Mons(s) \ {Act(d)[0], Act(d)[1]}
  <2>1. /\ \A x \in Slots : Ord(d)[x] = Act(d)[x]
        /\ \A x, y \in Mons(s) : Ord(d)[x] = Ord(d)[y] => x = y
        /\ \A m \in Mons(s) : \E x \in Mons(s) : Ord(d)[x] = m
    BY DEF Placed
  <2>2. \A i \in Mons(s) \ Slots : Ord(d)[i] \in Mons(s) \ {Act(d)[0], Act(d)[1]}
    BY <1>3, <2>1
  <2>3. \A m \in Mons(s) \ {Act(d)[0], Act(d)[1]} : \E i \in Mons(s) \ Slots : Ord(d)[i] = m
    BY <1>3, <2>1
  <2> QED BY <2>2, <2>3
<1> QED BY <1>1, <1>2, <1>4

LEMMA ReviveWrites ==
    ASSUME NEW s \in Sides, NEW d \in SideState(s), NEW m
    PROVE  LET e == ReviveMon(d, m) IN
           /\ e \in SideState(s)
           /\ \A x \in Slots : Act(e)[x] = Act(d)[x] /\ (Act(d)[x] = m => m \in Crs(e))
           /\ \A x \in Mons(s) : Flg(e)[x] = Flg(d)[x] \/ Flg(e)[x] = "none"
           /\ Crs(d) \subseteq Crs(e) /\ Down(e) = Down(d) \ {m}
           /\ Itm(e) = Itm(d) /\ Rep(e) = Rep(d)
           /\ Cha(e) = Cha(d) /\ Def(e) = Def(d) /\ Usd(e) = Usd(d) /\ Rvd(e) = Rvd(d)
           /\ Placed(s, d) => Placed(s, e)
<1> DEFINE up == [d EXCEPT !.fainted = d.fainted \ {m}]
           at == {slot \in Slots : d.active[slot] = m}
<1> PICK e : e = ReviveMon(d, m)
  OBVIOUS
<1> PICK u : u = up
  OBVIOUS
<1> PICK A : A = at
  OBVIOUS
<1>1. u \in SideState(s)
  BY DEF SideState
<1>2. /\ Down(u) = Down(d) \ {m} /\ Act(u) = Act(d) /\ Flg(u) = Flg(d)
      /\ Itm(u) = Itm(d) /\ Rep(u) = Rep(d) /\ Crs(u) = Crs(d) /\ Ord(u) = Ord(d)
      /\ Cha(u) = Cha(d) /\ Def(u) = Def(d) /\ Usd(u) = Usd(d) /\ Rvd(u) = Rvd(d)
  BY DEF SideState, Down, Act, Flg, Itm, Rep, Crs, Ord, Cha, Def, Usd, Rvd
<1>3. e = IF A = {} THEN u ELSE Seat(u, Lowest(A), m)
  BY DEF ReviveMon
<1>4. A = {slot \in Slots : Act(d)[slot] = m}
  BY DEF Act
<1>5. Placed(s, d) => Placed(s, u)
  BY <1>2 DEF Placed
<1> HIDE DEF up, at
<1>6. CASE A = {}
  <2>1. e = u /\ \A x \in Slots : Act(d)[x] # m
    BY <1>3, <1>4, <1>6
  <2> QED BY <1>1, <1>2, <1>5, <2>1
<1>7. CASE A # {}
  <2>1. Lowest(A) \in A
    BY <1>4, <1>7, LowestIn DEF Slots
  <2> PICK slot \in Slots : slot = Lowest(A) /\ Act(d)[slot] = m
    BY <1>4, <2>1
  <2>2. m \in Mons(s) /\ m \notin Down(u) /\ e = Seat(u, slot, m)
    BY <1>2, <1>3, <1>7, Fields
  <2>3. /\ e \in SideState(s)
        /\ Act(e)[slot] = m /\ \A x \in Slots \ {slot} : Act(e)[x] = Act(u)[x]
        /\ Flg(e)[m] = "none" /\ \A x \in Mons(s) \ {m} : Flg(e)[x] = Flg(u)[x]
        /\ Crs(e) = Crs(u) \cup {Act(u)[slot], m}
        /\ Down(e) = Down(u) /\ Itm(e) = Itm(u) /\ Rep(e) = Rep(u)
        /\ Cha(e) = Cha(u) /\ Def(e) = Def(u) /\ Usd(e) = Usd(u) /\ Rvd(e) = Rvd(u)
    BY <1>1, <2>2, SeatWrites
  <2>4. Placed(s, d) => Placed(s, e)
    <3> SUFFICES ASSUME Placed(s, d)  PROVE Placed(s, e)
      OBVIOUS
    <3>1. Placed(s, u) /\ \A x \in Slots \ {slot} : Act(u)[x] # m
      BY <1>2, <1>5 DEF Placed, Slots
    <3> QED BY <1>1, <2>2, <3>1, SeatPlaces
  <2> QED BY <1>2, <2>2, <2>3, <2>4
<1> QED BY <1>6, <1>7

\* The kept picks of a side that the sweep has not used.
Unused(d) == (DOMAIN Def(d) \cap 1 .. Kept) \ Usd(d)

\* What the sweep of one slot, d before and e after, may do.
Swept(s, d, e, slot) ==
    /\ e \in SideState(s)
    /\ Itm(e) = Itm(d) /\ Cha(e) = Cha(d) /\ Def(e) = Def(d) /\ Rvd(e) = Rvd(d)
    /\ \A x \in Slots \ {slot} : Act(e)[x] = Act(d)[x]
    /\ Rep(d) \subseteq Rep(e) /\ Rep(e) \subseteq Rep(d) \cup {slot}
    /\ Act(e)[slot] # Act(d)[slot] => slot \in Rep(e) /\ Act(e)[slot] \in Crs(e)
    /\ slot \in Rep(e) \ Rep(d) => Act(e)[slot] \in Crs(e)
    /\ Crs(d) \subseteq Crs(e)
    /\ \A m \in Mons(s) : Flg(e)[m] = Flg(d)[m] \/ Flg(e)[m] = "none"
    /\ Flg(e)[Act(e)[slot]] = "none"
    /\ Down(e) \subseteq Down(d)
    /\ \A x \in Slots : Act(e)[x] \in Down(d) => Act(e)[x] \in Down(e) \cup Crs(e)
    /\ Usd(d) \subseteq Usd(e) /\ Usd(e) \ Usd(d) \subseteq Picks(d, slot)
    /\ Flg(d)[Act(d)[slot]] = "none" => e = d
    /\ Flg(d)[Act(d)[slot]] = "revive" => Act(e)[slot] = Act(d)[slot] /\ Rep(e) = Rep(d)
    /\ Flg(d)[Act(d)[slot]] # "none" /\ Picks(d, slot) # {} => Lowest(Picks(d, slot)) \in Usd(e)
    /\ Flg(d)[Act(d)[slot]] # "forced" /\ Act(e)[slot] # Act(d)[slot] =>
           \E i \in Picks(d, slot) : i \in Usd(e) /\ d.deferred[i].mon = Act(e)[slot]

\* c is d with the flag of the slot cleared and its pick, if it has one, taken.
Taken(s, d, c, slot) ==
    /\ c \in SideState(s)
    /\ Act(c) = Act(d) /\ Ord(c) = Ord(d) /\ Down(c) = Down(d) /\ Itm(c) = Itm(d)
    /\ Rep(c) = Rep(d) /\ Cha(c) = Cha(d) /\ Def(c) = Def(d) /\ Crs(c) = Crs(d) /\ Rvd(c) = Rvd(d)
    /\ Flg(c)[Act(d)[slot]] = "none" /\ \A x \in Mons(s) \ {Act(d)[slot]} : Flg(c)[x] = Flg(d)[x]
    /\ Picks(d, slot) = {} => Usd(c) = Usd(d)
    /\ Picks(d, slot) # {} => Usd(c) = Usd(d) \cup {Lowest(Picks(d, slot))}

\* m is who the sweep of a self or forced switch sends in.
SentIn(s, d, slot, m) ==
    /\ m \in Mons(s)
    /\ Flg(d)[Act(d)[slot]] \notin {"none", "revive"}
    /\ Picks(d, slot) # {} => d.deferred[Lowest(Picks(d, slot))].mon = m
    /\ Picks(d, slot) = {} => Flg(d)[Act(d)[slot]] = "forced" /\ m \in Bench(s, d)

LEMMA SweptSeat ==
    ASSUME NEW s \in Sides, NEW d \in SideState(s), NEW slot \in Slots, NEW c, Taken(s, d, c, slot),
           NEW m, SentIn(s, d, slot, m)
    PROVE  Swept(s, d, MidTurnSeat(c, slot, m), slot)
<1> PICK e : e = MidTurnSeat(c, slot, m)
  OBVIOUS
<1>1. c \in SideState(s) /\ m \in Mons(s)
  BY DEF Taken, SentIn
<1>2. /\ e \in SideState(s)
      /\ m \in Down(c) => e = c
      /\ m \notin Down(c) =>
            /\ Act(e)[slot] = m /\ \A x \in Slots \ {slot} : Act(e)[x] = Act(c)[x]
            /\ Flg(e)[m] = "none" /\ \A x \in Mons(s) \ {m} : Flg(e)[x] = Flg(c)[x]
            /\ Crs(e) = Crs(c) \cup {Act(c)[slot], m}
            /\ Rep(e) = Rep(c) \cup {slot}
      /\ Down(e) = Down(c) /\ Itm(e) = Itm(c)
      /\ Cha(e) = Cha(c) /\ Def(e) = Def(c) /\ Usd(e) = Usd(c) /\ Rvd(e) = Rvd(c)
  BY <1>1, MidTurnSeatWrites
<1>3. Picks(d, slot) # {} => Lowest(Picks(d, slot)) \in Picks(d, slot)
  BY PicksTyped
<1>4. /\ Act(d)[slot] \in Mons(s)
      /\ Flg(d)[Act(d)[slot]] # "none" /\ Flg(d)[Act(d)[slot]] # "revive"
  BY FlagOf DEF SentIn
<1>5. /\ Down(e) = Down(d) /\ Itm(e) = Itm(d)
      /\ Cha(e) = Cha(d) /\ Def(e) = Def(d) /\ Rvd(e) = Rvd(d)
      /\ Usd(d) \subseteq Usd(e) /\ Usd(e) \ Usd(d) \subseteq Picks(d, slot)
      /\ Picks(d, slot) # {} => Lowest(Picks(d, slot)) \in Usd(e)
  BY <1>2, <1>3 DEF Taken
<1>6. CASE m \in Down(c)
  <2>1. e = c
    BY <1>2, <1>6
  <2>2. /\ Act(e) = Act(d) /\ Rep(e) = Rep(d) /\ Crs(e) = Crs(d) /\ Flg(e)[Act(d)[slot]] = "none"
        /\ \A x \in Mons(s) : Flg(e)[x] = Flg(d)[x] \/ Flg(e)[x] = "none"
    BY <2>1 DEF Taken
  <2> QED BY <1>2, <1>4, <1>5, <2>2 DEF Swept
<1>7. CASE m \notin Down(c)
  <2>1. /\ \A x \in Slots \ {slot} : Act(e)[x] = Act(d)[x]
        /\ Act(e)[slot] = m /\ Rep(e) = Rep(d) \cup {slot} /\ m \in Crs(e) /\ Crs(d) \subseteq Crs(e)
        /\ Flg(e)[m] = "none"
    BY <1>2, <1>7 DEF Taken
  <2>2. \A x \in Mons(s) : Flg(e)[x] = Flg(d)[x] \/ Flg(e)[x] = "none"
    BY <1>2, <1>7 DEF Taken
  <2>3. Flg(d)[Act(d)[slot]] # "forced" =>
           \E i \in Picks(d, slot) : i \in Usd(e) /\ d.deferred[i].mon = m
    BY <1>3, <1>5 DEF SentIn
  <2> QED BY <1>2, <1>4, <1>5, <2>1, <2>2, <2>3 DEF Swept
<1> QED BY <1>6, <1>7

LEMMA SweptRevive ==
    ASSUME NEW s \in Sides, NEW d \in SideState(s), NEW slot \in Slots, NEW c, Taken(s, d, c, slot),
           NEW m, Flg(d)[Act(d)[slot]] = "revive"
    PROVE  Swept(s, d, ReviveMon(c, m), slot)
<1> PICK e : e = ReviveMon(c, m)
  OBVIOUS
<1>1. c \in SideState(s)
  BY DEF Taken
<1>2. /\ e \in SideState(s)
      /\ \A x \in Slots : Act(e)[x] = Act(c)[x] /\ (Act(c)[x] = m => m \in Crs(e))
      /\ \A x \in Mons(s) : Flg(e)[x] = Flg(c)[x] \/ Flg(e)[x] = "none"
      /\ Crs(c) \subseteq Crs(e) /\ Down(e) = Down(c) \ {m}
      /\ Itm(e) = Itm(c) /\ Rep(e) = Rep(c)
      /\ Cha(e) = Cha(c) /\ Def(e) = Def(c) /\ Usd(e) = Usd(c) /\ Rvd(e) = Rvd(c)
  BY <1>1, ReviveWrites
<1>3. Picks(d, slot) # {} => Lowest(Picks(d, slot)) \in Picks(d, slot)
  BY PicksTyped
<1>0. Act(d)[slot] \in Mons(s)
  BY FlagOf
<1>4. /\ \A x \in Slots : Act(e)[x] = Act(d)[x] /\ (Act(d)[x] = m => m \in Crs(e))
      /\ Crs(d) \subseteq Crs(e) /\ Down(e) = Down(d) \ {m}
      /\ Itm(e) = Itm(d) /\ Rep(e) = Rep(d)
      /\ Cha(e) = Cha(d) /\ Def(e) = Def(d) /\ Rvd(e) = Rvd(d)
  BY <1>2 DEF Taken
<1>5. \A x \in Mons(s) : Flg(e)[x] = Flg(d)[x] \/ Flg(e)[x] = "none"
  BY <1>2 DEF Taken
<1>6. Flg(e)[Act(e)[slot]] = "none"
  BY <1>0, <1>2, <1>4 DEF Taken
<1>7. /\ Usd(d) \subseteq Usd(e) /\ Usd(e) \ Usd(d) \subseteq Picks(d, slot)
      /\ Picks(d, slot) # {} => Lowest(Picks(d, slot)) \in Usd(e)
  BY <1>2, <1>3 DEF Taken
<1> QED BY <1>2, <1>4, <1>5, <1>6, <1>7 DEF Swept

\* c is who the flag is cleared and, if there is one, the pick used up for.
Claimed(d, slot) ==
    LET cleared == [d EXCEPT !.flag = [d.flag EXCEPT ![d.active[slot]] = "none"]]
    IN  IF Picks(d, slot) = {} THEN cleared
        ELSE [cleared EXCEPT !.used = d.used \cup {Lowest(Picks(d, slot))}]

LEMMA ClaimedTakes ==
    ASSUME NEW s \in Sides, NEW d \in SideState(s), NEW slot \in Slots
    PROVE  Taken(s, d, Claimed(d, slot), slot)
<1> PICK c : c = [d EXCEPT !.flag = [d.flag EXCEPT ![d.active[slot]] = "none"]]
  OBVIOUS
<1> PICK e : e = Claimed(d, slot)
  OBVIOUS
<1>1. /\ d.active[slot] \in Mons(s) /\ Act(d)[slot] = d.active[slot]
      /\ d.flag \in [Mons(s) -> {"none", "self", "forced", "revive"}]
  BY DEF SideState, Act
<1>2. c \in SideState(s)
  BY <1>1 DEF SideState
<1>3. /\ Act(c) = Act(d) /\ Ord(c) = Ord(d) /\ Down(c) = Down(d) /\ Itm(c) = Itm(d)
      /\ Rep(c) = Rep(d) /\ Cha(c) = Cha(d) /\ Def(c) = Def(d) /\ Crs(c) = Crs(d) /\ Rvd(c) = Rvd(d)
      /\ Usd(c) = Usd(d) /\ Flg(c) = [Flg(d) EXCEPT ![d.active[slot]] = "none"]
  BY DEF SideState, Act, Ord, Down, Itm, Rep, Cha, Def, Crs, Rvd, Usd, Flg
<1>4. /\ Flg(c)[Act(d)[slot]] = "none" /\ \A x \in Mons(s) \ {Act(d)[slot]} : Flg(c)[x] = Flg(d)[x]
  BY <1>1, <1>3 DEF Flg
<1>5. CASE Picks(d, slot) = {}
  <2>1. e = c
    BY <1>5 DEF Claimed
  <2> QED BY <1>2, <1>3, <1>4, <1>5, <2>1 DEF Taken
<1>6. CASE Picks(d, slot) # {}
  <2> PICK i : i = Lowest(Picks(d, slot))
    OBVIOUS
  <2>1. i \in Nat
    BY <1>6, PicksTyped
  <2> PICK u : u = d.used \cup {i}
    OBVIOUS
  <2>2. e = [c EXCEPT !.used = u]
    BY <1>6 DEF Claimed
  <2>3. u \in SUBSET Nat
    BY <2>1 DEF SideState
  <2>4. e \in SideState(s)
    BY <1>2, <2>2, <2>3 DEF SideState
  <2>5. /\ Act(e) = Act(c) /\ Ord(e) = Ord(c) /\ Down(e) = Down(c) /\ Itm(e) = Itm(c)
        /\ Rep(e) = Rep(c) /\ Cha(e) = Cha(c) /\ Def(e) = Def(c) /\ Crs(e) = Crs(c) /\ Rvd(e) = Rvd(c)
        /\ Usd(e) = u /\ Flg(e) = Flg(c)
    BY <1>2, <2>2 DEF SideState, Act, Ord, Down, Itm, Rep, Cha, Def, Crs, Rvd, Usd, Flg
  <2>6. Usd(e) = Usd(d) \cup {i}
    BY <2>5 DEF Usd
  <2> QED BY <1>3, <1>4, <1>6, <2>4, <2>5, <2>6 DEF Taken
<1> QED BY <1>5, <1>6

\* apply_self_switches of one slot, by the kind of its flag.
SweptCases(s, d, e, slot) ==
    LET kind == Flg(d)[Act(d)[slot]]
        c    == Claimed(d, slot)
    IN  /\ kind = "none" => e = d
        /\ kind = "revive" => \E m : e = ReviveMon(c, m)
        /\ kind \in {"self", "forced"} =>
              \/ /\ e = c /\ Picks(d, slot) = {} /\ (kind = "self" \/ Bench(s, d) = {})
              \/ \E m : e = MidTurnSeat(c, slot, m) /\ SentIn(s, d, slot, m)

LEMMA SweepSlotCases ==
    ASSUME NEW s \in Sides, NEW d \in SideState(s), NEW slot \in Slots
    PROVE  SweptCases(s, d, SweepSlot(s, d, slot), slot)
<1> DEFINE m       == d.active[slot]
           cleared == [d EXCEPT !.flag = [d.flag EXCEPT ![m] = "none"]]
           i       == Lowest(Picks(d, slot))
           taken   == [cleared EXCEPT !.used = d.used \cup {i}]
<1> PICK e : e = SweepSlot(s, d, slot)
  OBVIOUS
<1> PICK kind : kind = d.flag[m]
  OBVIOUS
<1>1. kind = Flg(d)[Act(d)[slot]] /\ kind \in {"none", "self", "forced", "revive"}
  BY DEF SideState, Flg, Act
<1>2. /\ kind = "none" => e = d
      /\ kind = "revive" /\ Picks(d, slot) # {} => e = ReviveMon(taken, d.deferred[i].mon)
      /\ kind = "revive" /\ Picks(d, slot) = {} => e = ReviveMon(cleared, Lowest(d.fainted))
      /\ kind \in {"self", "forced"} /\ Picks(d, slot) # {} => e = MidTurnSeat(taken, slot, d.deferred[i].mon)
      /\ kind = "forced" /\ Picks(d, slot) = {} => e = ForceAuto(s, cleared, slot)
      /\ kind = "self" /\ Picks(d, slot) = {} => e = cleared
  BY Zenon DEF SweepSlot
<1>3. /\ Picks(d, slot) # {} => Claimed(d, slot) = taken
      /\ Picks(d, slot) = {} => Claimed(d, slot) = cleared
  BY DEF Claimed
<1>4. Picks(d, slot) # {} => d.deferred[i].mon \in Mons(s)
  BY PicksTyped
<1>5. Bench(s, cleared) = Bench(s, d)
  BY DEF Bench, SideState
<1> HIDE DEF cleared, taken, i
<1>6. kind = "revive" => \E x : e = ReviveMon(Claimed(d, slot), x)
  BY <1>2, <1>3
<1>7. ASSUME kind \in {"self", "forced"}, Picks(d, slot) # {}
      PROVE  e = MidTurnSeat(Claimed(d, slot), slot, d.deferred[i].mon) /\ SentIn(s, d, slot, d.deferred[i].mon)
  BY <1>1, <1>2, <1>3, <1>4, <1>7 DEF SentIn, i
<1>8. ASSUME kind \in {"self", "forced"}, Picks(d, slot) = {}
      PROVE  \/ e = Claimed(d, slot) /\ (kind = "self" \/ Bench(s, d) = {})
             \/ \E x : e = MidTurnSeat(Claimed(d, slot), slot, x) /\ SentIn(s, d, slot, x)
  <2>1. CASE kind = "self" \/ Bench(s, d) = {}
    BY <1>2, <1>3, <1>5, <1>8, <2>1 DEF ForceAuto
  <2>2. CASE kind = "forced" /\ Bench(s, d) # {}
    <3> PICK x : x = Lowest(Bench(s, d))
      OBVIOUS
    <3>1. e = MidTurnSeat(Claimed(d, slot), slot, x)
      BY <1>2, <1>3, <1>5, <1>8, <2>2 DEF ForceAuto
    <3>2. SentIn(s, d, slot, x)
      BY <1>1, <1>8, <2>2, FirstOfTheBench DEF SentIn
    <3> QED BY <3>1, <3>2
  <2> QED BY <1>8, <2>1, <2>2
<1> QED BY <1>1, <1>2, <1>6, <1>7, <1>8 DEF SweptCases

LEMMA SweepSlotDoes ==
    ASSUME NEW s \in Sides, NEW d \in SideState(s), NEW slot \in Slots
    PROVE  Swept(s, d, SweepSlot(s, d, slot), slot)
<1> PICK e : e = SweepSlot(s, d, slot)
  OBVIOUS
<1> PICK c : c = Claimed(d, slot)
  OBVIOUS
<1> PICK kind : kind = Flg(d)[Act(d)[slot]]
  OBVIOUS
<1>1. kind \in {"none", "self", "forced", "revive"} /\ Act(d)[slot] \in Mons(s)
  BY FlagOf
<1>2. SweptCases(s, d, e, slot) /\ Taken(s, d, c, slot)
  BY SweepSlotCases, ClaimedTakes
<1>3. CASE kind = "none"
  <2>1. e = d
    BY <1>2, <1>3 DEF SweptCases
  <2> QED BY <1>3, <2>1 DEF Swept
<1>4. CASE kind = "revive"
  <2>1. PICK m : e = ReviveMon(c, m)
    BY <1>2, <1>4 DEF SweptCases
  <2> QED BY <1>2, <1>4, <2>1, SweptRevive
<1>5. CASE kind \in {"self", "forced"}
  <2>1. CASE e = c /\ Picks(d, slot) = {}
    <3>1. \A x \in Mons(s) : Flg(e)[x] = Flg(d)[x] \/ Flg(e)[x] = "none"
      BY <1>2, <2>1 DEF Taken
    <3>2. /\ e \in SideState(s) /\ Act(e) = Act(d) /\ Down(e) = Down(d) /\ Itm(e) = Itm(d)
          /\ Rep(e) = Rep(d) /\ Cha(e) = Cha(d) /\ Def(e) = Def(d) /\ Crs(e) = Crs(d) /\ Rvd(e) = Rvd(d)
          /\ Usd(e) = Usd(d) /\ Flg(e)[Act(e)[slot]] = "none"
      BY <1>2, <2>1 DEF Taken
    <3> QED BY <1>5, <2>1, <3>1, <3>2 DEF Swept
  <2>2. CASE \E m : e = MidTurnSeat(c, slot, m) /\ SentIn(s, d, slot, m)
    BY <1>2, <2>2, SweptSeat
  <2> QED BY <1>2, <1>5, <2>1, <2>2 DEF SweptCases
<1> QED BY <1>1, <1>3, <1>4, <1>5

\* The sweep of a slot keeps the places, if the pick names somebody on the bench.
LEMMA SweepSlotPlaces ==
    ASSUME NEW s \in Sides, NEW d \in SideState(s), NEW slot \in Slots, Placed(s, d),
           Flg(d)[Act(d)[slot]] \in {"self", "forced"} =>
               \A i \in Picks(d, slot) : d.deferred[i].mon \in Bench(s, d)
    PROVE  Placed(s, SweepSlot(s, d, slot))
<1> PICK e : e = SweepSlot(s, d, slot)
  OBVIOUS
<1> PICK c : c = Claimed(d, slot)
  OBVIOUS
<1> PICK kind : kind = Flg(d)[Act(d)[slot]]
  OBVIOUS
<1>1. kind \in {"none", "self", "forced", "revive"} /\ Act(d)[slot] \in Mons(s)
  BY FlagOf
<1>2. SweptCases(s, d, e, slot) /\ c \in SideState(s) /\ Act(c) = Act(d) /\ Ord(c) = Ord(d)
  BY SweepSlotCases, ClaimedTakes DEF Taken
<1>3. Placed(s, c)
  BY <1>2 DEF Placed
<1>4. CASE kind = "none"
  BY <1>2, <1>4 DEF SweptCases
<1>5. CASE kind = "revive"
  <2>1. PICK m : e = ReviveMon(c, m)
    BY <1>2, <1>5 DEF SweptCases
  <2> QED BY <1>2, <1>3, <2>1, ReviveWrites
<1>6. CASE kind \in {"self", "forced"}
  <2>1. CASE e = c
    BY <1>3, <2>1
  <2>2. ASSUME NEW m, e = MidTurnSeat(c, slot, m), SentIn(s, d, slot, m)
        PROVE  Placed(s, e)
    <3>1. m \in Bench(s, d) /\ m \in Mons(s)
      BY <1>6, <2>2, PicksTyped DEF SentIn
    <3>2. m \notin {Act(c)[x] : x \in Slots \ {slot}}
      BY <1>2, <3>1, Reads DEF Slots
    <3> QED BY <1>2, <1>3, <2>2, <3>1, <3>2, MidTurnSeatPlaces
  <2> QED BY <1>2, <1>6, <2>1, <2>2 DEF SweptCases
<1> QED BY <1>1, <1>4, <1>5, <1>6

\* e is d after some do_switch calls: who stands where and the flags change.
FlagAt(d, x) == Flg(d)[Act(d)[x]]
Reseated(s, d, e) ==
    /\ e \in SideState(s) /\ \A x \in Slots : FlagAt(e, x) \in {"none", FlagAt(d, x)}
    /\ Down(e) = Down(d) /\ Itm(e) = Itm(d) /\ Rep(e) = Rep(d) /\ Cha(e) = Cha(d)
    /\ Def(e) = Def(d) /\ Usd(e) = Usd(d) /\ Rvd(e) = Rvd(d)
    /\ \A m \in Mons(s) : Flg(e)[m] = Flg(d)[m] \/ Flg(e)[m] = "none"

LEMMA PutInDoes ==
    ASSUME NEW s \in Sides, NEW d \in SideState(s), NEW slot \in Slots,
           NEW f, \A x \in DOMAIN f : f[x] \in Mons(s)
    PROVE  LET e == PutIn(f, d, slot) IN
           /\ Reseated(s, d, e)
           /\ \A x \in Slots \ {slot} : Act(e)[x] = Act(d)[x]
           /\ Act(e)[slot] = Act(d)[slot] \/ (slot \in DOMAIN f /\ Act(e)[slot] = f[slot])
           /\ Placed(s, d) /\ (slot \in DOMAIN f => f[slot] \notin {Act(d)[x] : x \in Slots \ {slot}})
                  => Placed(s, e)
<1> PICK e : e = PutIn(f, d, slot)
  OBVIOUS
<1>1. CASE slot \notin DOMAIN f
  <2>1. e = d
    BY <1>1 DEF PutIn
  <2> QED BY <1>1, <2>1 DEF Reseated
<1>2. CASE slot \in DOMAIN f
  <2> PICK m : m = f[slot]
    OBVIOUS
  <2>1. m \in Mons(s) /\ e = Seat(d, slot, m)
    BY <1>2 DEF PutIn
  <2>2. /\ e \in SideState(s)
        /\ m \in Down(d) => e = d
        /\ m \notin Down(d) =>
              /\ Act(e)[slot] = m /\ \A x \in Slots \ {slot} : Act(e)[x] = Act(d)[x]
              /\ Flg(e)[m] = "none" /\ \A x \in Mons(s) \ {m} : Flg(e)[x] = Flg(d)[x]
        /\ Down(e) = Down(d) /\ Itm(e) = Itm(d) /\ Rep(e) = Rep(d)
        /\ Cha(e) = Cha(d) /\ Def(e) = Def(d) /\ Usd(e) = Usd(d) /\ Rvd(e) = Rvd(d)
    BY <2>1, SeatWrites
  <2>f. \A x \in Slots : FlagAt(e, x) \in {"none", FlagAt(d, x)}
    <3>1. \A x \in Slots : Act(d)[x] \in Mons(s)
      BY FlagOf
    <3> QED BY <2>1, <2>2, <3>1 DEF FlagAt
  <2>3. Reseated(s, d, e)
    BY <2>2, <2>f DEF Reseated
  <2>4. Placed(s, d) /\ m \notin {Act(d)[x] : x \in Slots \ {slot}} => Placed(s, e)
    BY <2>1, SeatPlaces
  <2> QED BY <1>2, <2>2, <2>3, <2>4
<1> QED BY <1>1, <1>2

LEMMA LetOutDoes ==
    ASSUME NEW s \in Sides, NEW d \in SideState(s), NEW slot \in Slots
    PROVE  LET e == LetOut(s, d, slot) IN
           /\ Reseated(s, d, e)
           /\ Placed(s, d) => Placed(s, e)
<1> DEFINE cleared == [d EXCEPT !.flag = [d.flag EXCEPT ![d.active[slot]] = "none"]]
<1> PICK e : e = LetOut(s, d, slot)
  OBVIOUS
<1> PICK c : c = cleared
  OBVIOUS
<1>1. c \in SideState(s)
  BY DEF SideState
<1>2. /\ Act(c) = Act(d) /\ Ord(c) = Ord(d) /\ Down(c) = Down(d) /\ Itm(c) = Itm(d)
      /\ Rep(c) = Rep(d) /\ Cha(c) = Cha(d) /\ Def(c) = Def(d) /\ Rvd(c) = Rvd(d)
      /\ Usd(c) = Usd(d) /\ Flg(c) = [Flg(d) EXCEPT ![d.active[slot]] = "none"]
  BY DEF SideState, Act, Ord, Down, Itm, Rep, Cha, Def, Rvd, Usd, Flg
<1>3. \A m \in Mons(s) : Flg(c)[m] = Flg(d)[m] \/ Flg(c)[m] = "none"
  <2>1. Flg(d) \in [Mons(s) -> {"none", "self", "forced", "revive"}]
    BY DEF SideState, Flg
  <2> QED BY <1>2, <2>1
<1>4. Placed(s, d) => Placed(s, c)
  BY <1>2 DEF Placed
<1>x. \A x \in Slots : FlagAt(c, x) \in {"none", FlagAt(d, x)}
  <2>1. \A x \in Slots : Act(d)[x] \in Mons(s)
    BY FlagOf
  <2> QED BY <1>2, <1>3, <2>1 DEF FlagAt
<1>5. Reseated(s, d, c)
  BY <1>1, <1>2, <1>3, <1>x DEF Reseated
<1>6. \/ e = d
      \/ e = c
      \/ Bench(s, c) # {} /\ e = Seat(c, slot, Lowest(Bench(s, c)))
  BY DEF LetOut
<1>7. CASE e = d
  BY <1>7 DEF Reseated, FlagAt
<1>8. CASE e = c
  BY <1>4, <1>5, <1>8
<1>9. CASE Bench(s, c) # {} /\ e = Seat(c, slot, Lowest(Bench(s, c)))
  <2> PICK m : m = Lowest(Bench(s, c))
    OBVIOUS
  <2>1. m \in Mons(s) /\ m \in Bench(s, c)
    BY <1>1, <1>9, FirstOfTheBench
  <2>2. m \notin {Act(c)[x] : x \in Slots \ {slot}} /\ m \notin Down(c)
    BY <2>1, Reads DEF Slots
  <2>3. /\ e \in SideState(s)
        /\ Flg(e)[m] = "none" /\ \A x \in Mons(s) \ {m} : Flg(e)[x] = Flg(c)[x]
        /\ Act(e)[slot] = m /\ \A x \in Slots \ {slot} : Act(e)[x] = Act(c)[x]
        /\ Down(e) = Down(c) /\ Itm(e) = Itm(c) /\ Rep(e) = Rep(c)
        /\ Cha(e) = Cha(c) /\ Def(e) = Def(c) /\ Usd(e) = Usd(c) /\ Rvd(e) = Rvd(c)
    BY <1>1, <1>9, <2>1, <2>2, SeatWrites
  <2>f. \A x \in Slots : FlagAt(e, x) \in {"none", FlagAt(d, x)}
    <3>1. \A x \in Slots : FlagAt(e, x) \in {"none", FlagAt(c, x)}
      <4>1. \A x \in Slots : Act(c)[x] \in Mons(s)
        BY <1>1, FlagOf
      <4> QED BY <2>1, <2>3, <4>1 DEF FlagAt
    <3> QED BY <1>x, <3>1
  <2>4. Placed(s, d) => Placed(s, e)
    BY <1>1, <1>4, <1>9, <2>1, <2>2, SeatPlaces
  <2> QED BY <1>2, <1>3, <2>3, <2>f, <2>4 DEF Reseated
<1> QED BY <1>6, <1>7, <1>8, <1>9

LEMMA RefillDoes ==
    ASSUME NEW s \in Sides, NEW d \in SideState(s), NEW f, \A x \in DOMAIN f : f[x] \in Mons(s)
    PROVE  LET e == Refill(s, d, f) IN
           /\ Reseated(s, d, e)
           /\ Placed(s, d) /\ (\A x \in DOMAIN f : f[x] \in Bench(s, d))
                  /\ (\A x, y \in DOMAIN f : f[x] = f[y] => x = y) => Placed(s, e)
<1> PICK a : a = PutIn(f, d, 0)
  OBVIOUS
<1> PICK b : b = PutIn(f, a, 1)
  OBVIOUS
<1> PICK c : c = LetOut(s, b, 0)
  OBVIOUS
<1> PICK e : e = LetOut(s, c, 1)
  OBVIOUS
<1>0. e = Refill(s, d, f)
  BY DEF Refill
<1>1. 0 \in Slots /\ 1 \in Slots /\ Slots \ {0} = {1} /\ Slots \ {1} = {0}
  BY DEF Slots
<1>2. /\ Reseated(s, d, a) /\ a \in SideState(s) /\ Act(a)[1] = Act(d)[1]
      /\ Act(a)[0] = Act(d)[0] \/ (0 \in DOMAIN f /\ Act(a)[0] = f[0])
      /\ Placed(s, d) /\ (0 \in DOMAIN f => f[0] # Act(d)[1]) => Placed(s, a)
  <2>1. \A z : z \notin {Act(d)[x] : x \in Slots \ {0}} <=> z # Act(d)[1]
    BY <1>1
  <2>2. /\ Reseated(s, d, a)
        /\ \A x \in Slots \ {0} : Act(a)[x] = Act(d)[x]
        /\ Act(a)[0] = Act(d)[0] \/ (0 \in DOMAIN f /\ Act(a)[0] = f[0])
        /\ Placed(s, d) /\ (0 \in DOMAIN f => f[0] \notin {Act(d)[x] : x \in Slots \ {0}})
                  => Placed(s, a)
    BY <1>1, PutInDoes
  <2> QED BY <1>1, <2>1, <2>2 DEF Reseated
<1>3. /\ Reseated(s, a, b) /\ b \in SideState(s)
      /\ Placed(s, a) /\ (1 \in DOMAIN f => f[1] # Act(a)[0]) => Placed(s, b)
  <2>1. \A z : z \notin {Act(a)[x] : x \in Slots \ {1}} <=> z # Act(a)[0]
    BY <1>1
  <2>2. /\ Reseated(s, a, b)
        /\ Placed(s, a) /\ (1 \in DOMAIN f => f[1] \notin {Act(a)[x] : x \in Slots \ {1}})
                  => Placed(s, b)
    BY <1>1, <1>2, PutInDoes
  <2> QED BY <2>1, <2>2 DEF Reseated
<1>4. Reseated(s, b, c) /\ c \in SideState(s) /\ (Placed(s, b) => Placed(s, c))
  BY <1>1, <1>3, LetOutDoes DEF Reseated
<1>5. Reseated(s, c, e) /\ (Placed(s, c) => Placed(s, e))
  BY <1>1, <1>4, LetOutDoes
<1>6. Reseated(s, d, e)
  BY <1>2, <1>3, <1>4, <1>5 DEF Reseated
<1>7. ASSUME Placed(s, d), \A x \in DOMAIN f : f[x] \in Bench(s, d),
             \A x, y \in DOMAIN f : f[x] = f[y] => x = y
      PROVE  Placed(s, e)
  <2>1. \A x \in DOMAIN f : f[x] # Act(d)[0] /\ f[x] # Act(d)[1]
    BY <1>7, Reads
  <2>2. Placed(s, a)
    BY <1>2, <1>7, <2>1
  <2>3. 1 \in DOMAIN f => f[1] # Act(a)[0]
    BY <1>2, <1>7, <2>1
  <2> QED BY <1>3, <1>4, <1>5, <2>2, <2>3
<1> QED BY <1>0, <1>6, <1>7

\* What a player may answer: one switch a slot, to somebody of the party.
LEMMA AnswersTyped ==
    ASSUME NEW s \in Sides, side[s] \in SideState(s), NEW slots \in SUBSET Slots,
           NEW f \in Answers(s, slots)
    PROVE  /\ DOMAIN f \subseteq slots
           /\ \A x \in DOMAIN f : f[x] \in Mons(s)
           /\ (\A x \in slots : Flg(side[s])[Act(side[s])[x]] # "revive") =>
                  /\ \A x \in DOMAIN f : f[x] \in Reserve(s, side[s])
                  /\ \A x, y \in DOMAIN f : f[x] = f[y] => x = y
<1> PICK d : d = side[s]
  OBVIOUS
<1> PICK R : R = Reserve(s, d)
  OBVIOUS
<1>1. R \subseteq Mons(s) /\ Down(d) \subseteq Mons(s)
  <2>1. Ord(d) \in [Mons(s) -> Mons(s)] /\ Down(d) \subseteq Mons(s)
    BY Fields
  <2> QED BY <2>1, Reads
<1>2. CASE \E x \in slots : Flg(d)[Act(d)[x]] = "revive"
  <2>1. f \in [slots -> Down(d)]
    BY <1>2 DEF Answers, Flg, Act, Down
  <2> QED BY <1>1, <1>2, <2>1
<1>3. CASE \A x \in slots : Flg(d)[Act(d)[x]] # "revive"
  <2>1. PICK T \in SUBSET slots : f \in [T -> R] /\ \A a, b \in T : f[a] = f[b] => a = b
    BY <1>3 DEF Answers, Flg, Act
  <2> QED BY <1>1, <2>1
<1> QED BY <1>2, <1>3

\* The picks listed: one a slot asked, with the mon it names.
LEMMA ListedPicks ==
    ASSUME NEW s \in Sides, NEW f, DOMAIN f \subseteq Slots, \A x \in DOMAIN f : f[x] \in Mons(s)
    PROVE  /\ Listed(f) \in Seq([slot : Slots, mon : Mons(s)])
           /\ \A i \in DOMAIN Listed(f) : Listed(f)[i].slot \in DOMAIN f /\ Listed(f)[i].mon = f[Listed(f)[i].slot]
           /\ (\A x, y \in DOMAIN f : x = y) => Len(Listed(f)) <= 1
<1> DEFINE P == [slot : Slots, mon : Mons(s)]
<1> PICK a : a = IF 0 \in DOMAIN f THEN <<[slot |-> 0, mon |-> f[0]]>> ELSE <<>>
  OBVIOUS
<1> PICK b : b = IF 1 \in DOMAIN f THEN <<[slot |-> 1, mon |-> f[1]]>> ELSE <<>>
  OBVIOUS
<1>1. Listed(f) = a \o b
  BY DEF Listed
<1>2. /\ a \in Seq(P) /\ Len(a) <= 1 /\ (0 \notin DOMAIN f => Len(a) = 0)
      /\ \A i \in 1 .. Len(a) : a[i].slot = 0 /\ 0 \in DOMAIN f /\ a[i].mon = f[0]
  <2>1. CASE 0 \notin DOMAIN f
    <3>1. a = <<>>
      BY <2>1
    <3> QED BY <2>1, <3>1
  <2>2. CASE 0 \in DOMAIN f
    <3> PICK p : p = [slot |-> 0, mon |-> f[0]]
      OBVIOUS
    <3>1. p \in P /\ p.slot = 0 /\ p.mon = f[0]
      BY <2>2 DEF Slots
    <3>2. a = <<p>>
      BY <2>2
    <3> HIDE DEF P
    <3> QED BY <2>2, <3>1, <3>2
  <2> QED BY <2>1, <2>2
<1>3. /\ b \in Seq(P) /\ Len(b) <= 1 /\ (1 \notin DOMAIN f => Len(b) = 0)
      /\ \A i \in 1 .. Len(b) : b[i].slot = 1 /\ 1 \in DOMAIN f /\ b[i].mon = f[1]
  <2>1. CASE 1 \notin DOMAIN f
    <3>1. b = <<>>
      BY <2>1
    <3> QED BY <2>1, <3>1
  <2>2. CASE 1 \in DOMAIN f
    <3> PICK p : p = [slot |-> 1, mon |-> f[1]]
      OBVIOUS
    <3>1. p \in P /\ p.slot = 1 /\ p.mon = f[1]
      BY <2>2 DEF Slots
    <3>2. b = <<p>>
      BY <2>2
    <3> HIDE DEF P
    <3> QED BY <2>2, <3>1, <3>2
  <2> QED BY <2>1, <2>2
<1> HIDE DEF P
<1> PICK r : r = a \o b
  OBVIOUS
<1>4. /\ r \in Seq(P) /\ DOMAIN r = 1 .. Len(a) + Len(b) /\ Len(r) = Len(a) + Len(b)
      /\ Len(a) \in Nat /\ Len(b) \in Nat
      /\ \A i \in 1 .. Len(a) : r[i] = a[i]
      /\ \A i \in 1 .. Len(b) : r[i + Len(a)] = b[i]
  BY <1>2, <1>3
<1>5. \A i \in 1 .. Len(a) + Len(b) : i \in 1 .. Len(a) \/ (i - Len(a) \in 1 .. Len(b) /\ i = (i - Len(a)) + Len(a))
  BY <1>4
<1>6. \A i \in DOMAIN r : r[i].slot \in DOMAIN f /\ r[i].mon = f[r[i].slot]
  BY <1>2, <1>3, <1>4, <1>5
<1>7. (\A x, y \in DOMAIN f : x = y) => Len(r) <= 1
  BY <1>2, <1>3, <1>4
<1> QED BY <1>1, <1>4, <1>6, <1>7 DEF P

-----------------------------------------------------------------------------
(* What each action does to the two sides.                                  *)

\* S with e for side s and g for its foe.
Both(S, s, e, g) == Sided(S) /\ S[s] = e /\ S[Foe(s)] = g

LEMMA TwoSides ==
    ASSUME NEW S, Sided(S), NEW s \in Sides, NEW e \in SideState(s), NEW g \in SideState(Foe(s))
    PROVE  Both([S EXCEPT ![s] = e, ![Foe(s)] = g], s, e, g)
<1>t. PICK T : T = [S EXCEPT ![s] = e, ![Foe(s)] = g]
  OBVIOUS
<1>1. Foe(s) \in Sides /\ Foe(s) # s /\ \A x \in Sides : x = s \/ x = Foe(s)
  BY Basics
<1>2. DOMAIN T = Sides /\ T = [x \in Sides |-> T[x]]
  BY <1>t DEF Sided
<1>3. T[s] = e /\ T[Foe(s)] = g
  BY <1>t, <1>1 DEF Sided
<1>4. \A x \in Sides : T[x] \in SideState(x)
  BY <1>1, <1>3
<1> QED BY <1>t, <1>2, <1>3, <1>4 DEF Sided, Both

LEMMA OneSide ==
    ASSUME NEW S, Sided(S), NEW s \in Sides, NEW e \in SideState(s)
    PROVE  Both([S EXCEPT ![s] = e], s, e, S[Foe(s)])
<1>t. PICK T : T = [S EXCEPT ![s] = e]
  OBVIOUS
<1>1. Foe(s) \in Sides /\ Foe(s) # s /\ \A x \in Sides : x = s \/ x = Foe(s)
  BY Basics
<1>2. DOMAIN T = Sides /\ T = [x \in Sides |-> T[x]]
  BY <1>t DEF Sided
<1>3. T[s] = e /\ T[Foe(s)] = S[Foe(s)] /\ S[Foe(s)] \in SideState(Foe(s))
  BY <1>t, <1>1 DEF Sided
<1>4. \A x \in Sides : T[x] \in SideState(x)
  BY <1>1, <1>3
<1> QED BY <1>t, <1>2, <1>3, <1>4 DEF Sided, Both

\* e is d after something that sends nobody anywhere.
Stays(s, d, e) ==
    /\ e \in SideState(s)
    /\ Act(e) = Act(d) /\ Ord(e) = Ord(d) /\ Rep(e) = Rep(d)
    /\ Usd(e) = Usd(d) /\ Crs(e) = Crs(d) /\ Down(d) \subseteq Down(e)

\* An entry of a queue: where it points.
LEMMA Entry ==
    ASSUME TypeInv, NEW e \in Places
    PROVE  /\ e.side \in Sides /\ e.slot \in Slots /\ e.mon \in Mons(e.side)
           /\ side[e.side] \in SideState(e.side) /\ side[Foe(e.side)] \in SideState(Foe(e.side))
           /\ Mon(e) = Act(side[e.side])[e.slot] /\ Mon(e) \in Mons(e.side)
<1>1. e.side \in Sides /\ e.slot \in Slots /\ e.mon \in Mons(e.side)
  BY DEF Places
<1>2. side[e.side] \in SideState(e.side) /\ side[Foe(e.side)] \in SideState(Foe(e.side))
  BY <1>1, Basics DEF TypeInv, Sided
<1>3. Mon(e) = Act(side[e.side])[e.slot]
  BY DEF Mon, Act
<1> QED BY <1>1, <1>2, <1>3, FlagOf

\* e is d after `fell` fainted there and `leave` were flagged.
HurtIs(s, d, e, fell, leave, kind) ==
    /\ Stays(s, d, e) /\ Cha(e) = Cha(d) /\ Def(e) = Def(d)
    /\ Down(e) = Down(d) \cup fell
    /\ \A m \in Mons(s) : (m \in leave => Flg(e)[m] = kind) /\ (m \notin leave => Flg(e)[m] = Flg(d)[m])

LEMMA HurtDoes ==
    ASSUME NEW s \in Sides, NEW d \in SideState(s), NEW fell \in SUBSET Mons(s), NEW lost, NEW leave,
           NEW kind \in {"none", "self", "forced", "revive"}
    PROVE  HurtIs(s, d, Hurt(d, fell, lost, leave, kind), fell, leave, kind)
<1>e. PICK e : e = Hurt(d, fell, lost, leave, kind)
  OBVIOUS
<1>a. PICK A : A = d.fainted \cup fell
  OBVIOUS
<1>b. PICK B : B = [m \in DOMAIN d.flag |-> IF m \in leave THEN kind ELSE d.flag[m]]
  OBVIOUS
<1>c. PICK C : C = d.items \ lost
  OBVIOUS
<1>1. e = [d EXCEPT !.fainted = A, !.items = C, !.flag = B]
  BY <1>e, <1>a, <1>b, <1>c DEF Hurt
<1>2. d.flag \in [Mons(s) -> {"none", "self", "forced", "revive"}] /\ d.fainted \subseteq Mons(s) /\ d.items \subseteq Mons(s)
  BY DEF SideState
<1>3. A \in SUBSET Mons(s) /\ C \in SUBSET Mons(s)
  BY <1>2, <1>a, <1>c
<1>4. B \in [Mons(s) -> {"none", "self", "forced", "revive"}]
  BY <1>2, <1>b
<1>5. \A m \in Mons(s) : (m \in leave => B[m] = kind) /\ (m \notin leave => B[m] = Flg(d)[m])
  BY <1>2, <1>b DEF Flg
<1>6. e \in SideState(s)
  BY <1>1, <1>3, <1>4 DEF SideState
<1>7. /\ Act(e) = Act(d) /\ Ord(e) = Ord(d) /\ Rep(e) = Rep(d) /\ Usd(e) = Usd(d)
      /\ Crs(e) = Crs(d) /\ Cha(e) = Cha(d) /\ Def(e) = Def(d) /\ Down(e) = A /\ Flg(e) = B
  BY <1>1 DEF SideState, Act, Ord, Rep, Usd, Crs, Cha, Def, Down, Flg
<1>8. A = Down(d) \cup fell
  BY <1>a DEF Down
<1> QED BY <1>e, <1>5, <1>6, <1>7, <1>8 DEF Stays, HurtIs

\* What a damaging move may have done to the user's side, and to its foe's.
UserIs(s, d, a, mon) ==
    /\ Stays(s, d, a) /\ Cha(a) = Cha(d) /\ Def(a) = Def(d)
    /\ Down(a) \subseteq Down(d) \cup {Act(d)[0], Act(d)[1]}
    /\ \A m \in Mons(s) : Flg(a)[m] # Flg(d)[m] => m = mon /\ Flg(a)[m] = "self" /\ Bench(s, d) # {}
FoeIs(s, d, a) ==
    /\ Stays(s, d, a) /\ Cha(a) = Cha(d) /\ Def(a) = Def(d)
    /\ Down(a) \subseteq Down(d) \cup {Act(d)[0], Act(d)[1]}
    /\ \A m \in Mons(s) : Flg(a)[m] # Flg(d)[m] => <<s, m>> \in Button /\ Flg(a)[m] = "forced" /\ Bench(s, d) # {}

UserAfter(e, kind, slots, fell) ==
    Hurt(side[e.side], fell, {}, Pivots(e, kind, slots, fell), "self")
FoeAfter(e, slots, fell, ko) ==
    Hurt(side[Foe(e.side)], ko,
         Pushed(Foe(e.side), side[Foe(e.side)], slots, ko)
             \cup Shown(side[Foe(e.side)], Cards(e, side[Foe(e.side)], slots, fell, ko)),
         Pushed(Foe(e.side), side[Foe(e.side)], slots, ko), "forced")

LEMMA UserAfterDoes ==
    ASSUME TypeInv, NEW e \in queue, NEW kind, NEW slots, NEW fell \in SUBSET {Mon(e)}
    PROVE  UserIs(e.side, side[e.side], UserAfter(e, kind, slots, fell), Mon(e))
<1>1. /\ e.side \in Sides /\ side[e.side] \in SideState(e.side) /\ e.slot \in Slots
      /\ Mon(e) = Act(side[e.side])[e.slot] /\ fell \subseteq Mons(e.side)
  BY Entry DEF TypeInv
<1>2. \A m \in Pivots(e, kind, slots, fell) : m = Mon(e) /\ Bench(e.side, side[e.side]) # {}
  BY DEF Pivots, MayLeave
<1>3. HurtIs(e.side, side[e.side], UserAfter(e, kind, slots, fell), fell, Pivots(e, kind, slots, fell), "self")
  BY <1>1, HurtDoes DEF UserAfter
<1>5. fell \subseteq {Act(side[e.side])[0], Act(side[e.side])[1]}
  BY <1>1 DEF Slots
<1> QED BY <1>2, <1>3, <1>5 DEF HurtIs, UserIs

LEMMA FoeAfterDoes ==
    ASSUME TypeInv, NEW e \in queue, NEW slots \in SUBSET Slots, NEW fell,
           NEW ko \in SUBSET Met(side[Foe(e.side)], slots)
    PROVE  FoeIs(Foe(e.side), side[Foe(e.side)], FoeAfter(e, slots, fell, ko))
<1>t. PICK t : t = Foe(e.side)
  OBVIOUS
<1>d. PICK d : d = side[t]
  OBVIOUS
<1>p. PICK leave : leave = Pushed(t, d, slots, ko)
  OBVIOUS
<1>l. PICK lost : lost = leave \cup Shown(d, Cards(e, d, slots, fell, ko))
  OBVIOUS
<1>a. PICK a : a = Hurt(d, ko, lost, leave, "forced")
  OBVIOUS
<1>0. a = FoeAfter(e, slots, fell, ko)
  BY <1>t, <1>d, <1>p, <1>l, <1>a DEF FoeAfter
<1>1. t \in Sides /\ d \in SideState(t)
  BY <1>t, <1>d, Entry, Basics DEF TypeInv
<1>2. ko \subseteq {Act(d)[0], Act(d)[1]} /\ ko \subseteq Mons(t)
  <2>1. ko \subseteq {Act(d)[x] : x \in slots}
    BY <1>t, <1>d DEF Met, Act
  <2>2. Act(d) \in [Slots -> Mons(t)] /\ \A x \in slots : x \in Slots /\ (x = 0 \/ x = 1)
    BY <1>1 DEF SideState, Act, Slots
  <2> QED BY <2>1, <2>2
<1>3. \A m \in leave : <<t, m>> \in Button /\ Bench(t, d) # {}
  BY <1>p DEF Pushed
<1>4. HurtIs(t, d, a, ko, leave, "forced")
  BY <1>1, <1>2, <1>a, HurtDoes
<1>5. FoeIs(t, d, a)
  BY <1>2, <1>3, <1>4 DEF HurtIs, FoeIs
<1> QED BY <1>0, <1>5, <1>t, <1>d

\* An entry for somebody with Emergency Exit who stands in one of the slots.
Exits(s, d, slots, h) ==
    h \in Places /\ h.side = s /\ <<s, h.mon>> \in Exit /\ h.slot \in slots /\ h.mon = Act(d)[h.slot]

LEMMA HalvingIn ==
    ASSUME NEW s \in Sides, NEW d \in SideState(s), NEW slots \in SUBSET Slots, NEW ko,
           NEW h \in Halving(s, d, slots, ko)
    PROVE  Exits(s, d, slots, h)
<1>1. PICK x \in slots : h = [side |-> s, slot |-> x, mon |-> Act(d)[x]] /\ <<s, Act(d)[x]>> \in Exit
  BY DEF Halving, Act
<1>2. Act(d)[x] \in Mons(s)
  BY FlagOf
<1> QED BY <1>1, <1>2 DEF Places, Exits

\* What a damaging move does, whatever it hits.
AttackIs(e) ==
    /\ Sided(side')
    /\ UserIs(e.side, side[e.side], side'[e.side], Mon(e))
    /\ FoeIs(Foe(e.side), side[Foe(e.side)], side'[Foe(e.side)])
    /\ drags' \subseteq {[side |-> e.side, slot |-> e.slot]} /\ (drags' # {} => Card # {})
    /\ halved' \subseteq Places
    /\ \A h \in halved' : <<h.side, h.mon>> \in Exit /\ (h.side = e.side => h.mon = Mon(e))
    /\ queue' = queue \ {e} /\ Acts(e)

LEMMA AttackDoes ==
    ASSUME TypeInv, NEW e \in queue, NEW kind, Attack(e, kind)
    PROVE  AttackIs(e)
<1>1. PICK slots \in SUBSET Up(side[Foe(e.side)]), fell \in SUBSET {Mon(e)},
           ko \in SUBSET Met(side[Foe(e.side)], Up(side[Foe(e.side)])) :
         /\ ko \subseteq Met(side[Foe(e.side)], slots)
         /\ side' = [side EXCEPT ![e.side] = UserAfter(e, kind, slots, fell),
                                 ![Foe(e.side)] = FoeAfter(e, slots, fell, ko)]
         /\ drags' = {[side |-> e.side, slot |-> slot] :
                         slot \in {x \in {e.slot} : Cards(e, side[Foe(e.side)], slots, fell, ko) # {}}}
         /\ halved' \in SUBSET {h \in Halving(Foe(e.side), side[Foe(e.side)], slots, ko)
                                      \cup Halving(e.side, side[e.side], {e.slot}, fell) : slots # {}}
  BY Zenon DEF Attack, UserAfter, FoeAfter
<1>2. queue' = queue \ {e} /\ Acts(e)
  BY DEF Attack
<1>3. /\ e.side \in Sides /\ e.slot \in Slots /\ Foe(e.side) \in Sides /\ Foe(e.side) # e.side
      /\ side[e.side] \in SideState(e.side) /\ side[Foe(e.side)] \in SideState(Foe(e.side))
      /\ Mon(e) = Act(side[e.side])[e.slot]
      /\ slots \subseteq Slots /\ \A r \in Sides : r = e.side \/ r = Foe(e.side)
  BY Entry, Basics DEF TypeInv, Up
<1>4. drags' \subseteq {[side |-> e.side, slot |-> e.slot]} /\ (drags' # {} => Card # {})
  BY <1>1 DEF Cards
<1>5. /\ halved' \subseteq Places
      /\ \A h \in halved' : <<h.side, h.mon>> \in Exit /\ (h.side = e.side => h.mon = Mon(e))
  <2>1. slots \in SUBSET Slots /\ {e.slot} \in SUBSET Slots
    BY <1>3
  <2>2. \A h \in Halving(Foe(e.side), side[Foe(e.side)], slots, ko) :
            Exits(Foe(e.side), side[Foe(e.side)], slots, h)
    BY <1>3, <2>1, HalvingIn
  <2>3. \A h \in Halving(e.side, side[e.side], {e.slot}, fell) :
            Exits(e.side, side[e.side], {e.slot}, h)
    BY <1>3, <2>1, HalvingIn
  <2>4. \A h \in halved' : h \in Places /\ <<h.side, h.mon>> \in Exit /\ (h.side = e.side => h.mon = Mon(e))
    BY <1>1, <1>3, <2>2, <2>3 DEF Exits
  <2> QED BY <2>4
<1>6. UserIs(e.side, side[e.side], UserAfter(e, kind, slots, fell), Mon(e))
  BY UserAfterDoes
<1>7. FoeIs(Foe(e.side), side[Foe(e.side)], FoeAfter(e, slots, fell, ko))
  <2>1. slots \in SUBSET Slots /\ ko \in SUBSET Met(side[Foe(e.side)], slots)
    BY <1>1, <1>3
  <2> QED BY <2>1, FoeAfterDoes
<1>8. Both(side', e.side, UserAfter(e, kind, slots, fell), FoeAfter(e, slots, fell, ko))
  <2>1. UserAfter(e, kind, slots, fell) \in SideState(e.side) /\ FoeAfter(e, slots, fell, ko) \in SideState(Foe(e.side))
    BY <1>6, <1>7 DEF UserIs, FoeIs, Stays
  <2>2. Sided(side)
    BY DEF TypeInv
  <2>3. Both([side EXCEPT ![e.side] = UserAfter(e, kind, slots, fell),
                          ![Foe(e.side)] = FoeAfter(e, slots, fell, ko)],
             e.side, UserAfter(e, kind, slots, fell), FoeAfter(e, slots, fell, ko))
    BY <1>3, <2>1, <2>2, TwoSides
  <2> QED BY <1>1, <2>3
<1> QED BY <1>2, <1>4, <1>5, <1>6, <1>7, <1>8 DEF AttackIs, Both

\* e is d after the mon of the slot, hit or not on its way out, made place for m.
Left(s, d, e, slot, m) ==
    /\ e \in SideState(s)
    /\ Act(e)[slot] = m /\ \A x \in Slots \ {slot} : Act(e)[x] = Act(d)[x]
    /\ Rep(e) = Rep(d) /\ Cha(e) = Cha(d) /\ Def(e) = Def(d) /\ Usd(e) = Usd(d)
    /\ Crs(e) = Crs(d) \cup {Act(d)[slot], m}
    /\ Down(d) \subseteq Down(e) /\ Down(e) \subseteq Down(d) \cup {Act(d)[slot]}
    /\ Flg(e)[m] = "none"
    /\ \A x \in Mons(s) : Flg(e)[x] \in {"none", Flg(d)[x]}
                             \/ (x = Act(d)[slot] /\ Flg(e)[x] = "forced" /\ Button # {})
    /\ Placed(s, d) => Placed(s, e)

\* The side of whoever used Pursuit: their slots are marked.
Chased(s, d, e, slots) ==
    /\ e \in SideState(s)
    /\ Act(e) = Act(d) /\ Ord(e) = Ord(d) /\ Rep(e) = Rep(d) /\ Def(e) = Def(d) /\ Usd(e) = Usd(d)
    /\ Crs(e) = Crs(d) /\ Down(e) = Down(d) /\ Flg(e) = Flg(d) /\ Cha(e) = Cha(d) \cup slots

LEMMA ChasedDoes ==
    ASSUME NEW s \in Sides, NEW d \in SideState(s), NEW slots \in SUBSET Slots
    PROVE  Chased(s, d, [d EXCEPT !.chased = d.chased \cup slots], slots)
<1>a. PICK A : A = d.chased \cup slots
  OBVIOUS
<1>e. PICK e : e = [d EXCEPT !.chased = A]
  OBVIOUS
<1>1. A \in SUBSET Slots
  BY <1>a DEF SideState
<1>2. e \in SideState(s)
  BY <1>e, <1>1 DEF SideState
<1>3. /\ Act(e) = Act(d) /\ Ord(e) = Ord(d) /\ Rep(e) = Rep(d) /\ Def(e) = Def(d) /\ Usd(e) = Usd(d)
      /\ Crs(e) = Crs(d) /\ Down(e) = Down(d) /\ Flg(e) = Flg(d) /\ Cha(e) = A
  BY <1>e DEF SideState, Act, Ord, Rep, Def, Usd, Crs, Down, Flg, Cha
<1>4. A = Cha(d) \cup slots
  BY <1>a DEF Cha
<1> QED BY <1>a, <1>e, <1>2, <1>3, <1>4 DEF Chased

\* do_switch of m after the mon of the slot was hit.
LEMMA LeftDoes ==
    ASSUME NEW s \in Sides, NEW d \in SideState(s), NEW slot \in Slots, NEW m \in Mons(s),
           NEW fell \in SUBSET {Act(d)[slot]}, NEW lost, NEW leave \in SUBSET {Act(d)[slot]},
           leave # {} => Button # {}
    PROVE  /\ Seat(Hurt(d, fell, lost, leave, "forced"), slot, m) \in SideState(s)
           /\ m \in Bench(s, d) => Left(s, d, Seat(Hurt(d, fell, lost, leave, "forced"), slot, m), slot, m)
<1>c. PICK c : c = Hurt(d, fell, lost, leave, "forced")
  OBVIOUS
<1>e. PICK e : e = Seat(c, slot, m)
  OBVIOUS
<1>1. fell \in SUBSET Mons(s) /\ Act(d)[slot] \in Mons(s)
  BY FlagOf
<1>2. HurtIs(s, d, c, fell, leave, "forced")
  BY <1>c, <1>1, HurtDoes
<1>3. c \in SideState(s)
  BY <1>2 DEF HurtIs, Stays
<1>4. e \in SideState(s)
  BY <1>e, <1>3, SeatWrites
<1>5. ASSUME m \in Bench(s, d)  PROVE Left(s, d, e, slot, m)
  <2>1. m \notin Down(d) /\ m # Act(d)[0] /\ m # Act(d)[1] /\ m # Act(d)[slot]
    BY <1>5, Reads DEF Slots
  <2>2. /\ Act(c) = Act(d) /\ Ord(c) = Ord(d) /\ Rep(c) = Rep(d) /\ Usd(c) = Usd(d) /\ Crs(c) = Crs(d)
        /\ Cha(c) = Cha(d) /\ Def(c) = Def(d) /\ Down(c) = Down(d) \cup fell
        /\ \A x \in Mons(s) : (x \in leave => Flg(c)[x] = "forced") /\ (x \notin leave => Flg(c)[x] = Flg(d)[x])
    BY <1>2 DEF HurtIs, Stays
  <2>3. m \notin Down(c)
    BY <2>1, <2>2
  <2>4. /\ Act(e)[slot] = m /\ \A x \in Slots \ {slot} : Act(e)[x] = Act(c)[x]
        /\ Flg(e)[m] = "none" /\ \A x \in Mons(s) \ {m} : Flg(e)[x] = Flg(c)[x]
        /\ Crs(e) = Crs(c) \cup {Act(c)[slot], m}
        /\ Down(e) = Down(c) /\ Rep(e) = Rep(c) /\ Cha(e) = Cha(c) /\ Def(e) = Def(c) /\ Usd(e) = Usd(c)
    BY <1>e, <1>3, <2>3, SeatWrites
  <2>5. Placed(s, d) => Placed(s, e)
    <3>1. m \notin {Act(c)[x] : x \in Slots \ {slot}}
      BY <2>1, <2>2 DEF Slots
    <3>2. Placed(s, d) => Placed(s, c)
      BY <2>2 DEF Placed
    <3> QED BY <1>e, <1>3, <3>1, <3>2, SeatPlaces
  <2>6. \A x \in Mons(s) : Flg(e)[x] \in {"none", Flg(d)[x]}
                             \/ (x = Act(d)[slot] /\ Flg(e)[x] = "forced" /\ Button # {})
    BY <2>2, <2>4
  <2> QED BY <1>4, <2>2, <2>4, <2>5, <2>6 DEF Left
<1> QED BY <1>c, <1>e, <1>4, <1>5

\* One switch of the turn's start.
LeaveIs(w) ==
    /\ Sided(side')
    /\ w.mon \in Bench(w.side, side[w.side]) =>
           Left(w.side, side[w.side], side'[w.side], w.slot, w.mon)
    /\ Chased(Foe(w.side), side[Foe(w.side)], side'[Foe(w.side)], {e.slot : e \in Chasers(w)})
    /\ drags' \subseteq [side : Sides, slot : Slots]
    /\ Card = {} => drags' = drags
    /\ acted' = acted \cup {[side |-> e.side, mon |-> e.mon, queued |-> e.mon, how |-> "chase"] :
                               e \in Chasers(w)}
    /\ switches' = switches \ {w} /\ (switches' = {} => pc' = "drags") /\ (switches' # {} => pc' = pc)
    /\ UNCHANGED <<queue, halved, todo, ended, turn>>

LEMMA LeaveDoes ==
    ASSUME TypeInv, PreTurnSwitch
    PROVE  \E w \in switches : LeaveIs(w)
<1>u. PICK w \in switches : \E first \in Chasers(w) \cup {w}, ko \in SUBSET Struck(w) :
        LET d     == side[w.side]
            f     == side[Foe(w.side)]
            card  == Carded(w, first, ko)
            leave == Released(w, ko)
        IN  /\ first = w <=> Chasers(w) = {}
            /\ side' = [side EXCEPT
                  ![w.side] = Seat(Hurt(d, ko, card \cup leave, leave, "forced"), w.slot, w.mon),
                  ![Foe(w.side)] = [f EXCEPT !.chased = f.chased \cup {e.slot : e \in Chasers(w)}]]
            /\ drags' = drags \cup {[side |-> first.side, slot |-> first.slot] : m \in card}
            /\ acted' = acted \cup {[side |-> e.side, mon |-> e.mon, queued |-> e.mon, how |-> "chase"] :
                                     e \in Chasers(w)}
            /\ switches' = switches \ {w}
            /\ pc' = IF switches' = {} THEN "drags" ELSE pc
  BY Zenon DEF PreTurnSwitch
<1>v. PICK first \in Chasers(w) \cup {w}, ko \in SUBSET Struck(w) :
        /\ side' = [side EXCEPT
              ![w.side] = Seat(Hurt(side[w.side], ko, Carded(w, first, ko) \cup Released(w, ko),
                                    Released(w, ko), "forced"), w.slot, w.mon),
              ![Foe(w.side)] = [side[Foe(w.side)] EXCEPT
                                   !.chased = side[Foe(w.side)].chased \cup {e.slot : e \in Chasers(w)}]]
        /\ drags' = drags \cup {[side |-> first.side, slot |-> first.slot] : m \in Carded(w, first, ko)}
        /\ acted' = acted \cup {[side |-> e.side, mon |-> e.mon, queued |-> e.mon, how |-> "chase"] :
                                 e \in Chasers(w)}
        /\ switches' = switches \ {w}
        /\ pc' = IF switches' = {} THEN "drags" ELSE pc
  BY <1>u, Zenon
<1>m. PICK leave : leave = Released(w, ko)
  OBVIOUS
<1>n. PICK lost : lost = Carded(w, first, ko) \cup Released(w, ko)
  OBVIOUS
<1>1. /\ ko \subseteq {Mon(w)}
      /\ leave \subseteq {Mon(w)} /\ (leave # {} => Button # {})
      /\ side' = [side EXCEPT
            ![w.side] = Seat(Hurt(side[w.side], ko, lost, leave, "forced"), w.slot, w.mon),
            ![Foe(w.side)] = [side[Foe(w.side)] EXCEPT
                                 !.chased = side[Foe(w.side)].chased \cup {e.slot : e \in Chasers(w)}]]
      /\ Card = {} => drags' = drags
      /\ drags' \subseteq drags \cup {[side |-> first.side, slot |-> first.slot]}
      /\ switches' = switches \ {w} /\ (switches' = {} => pc' = "drags") /\ (switches' # {} => pc' = pc)
  <2>1. ko \subseteq {Mon(w)}
    BY DEF Struck
  <2>2. leave \subseteq {Mon(w)} /\ (leave # {} => Button # {})
    BY <1>m DEF Released, Struck
  <2>3. side' = [side EXCEPT ![w.side] = Seat(Hurt(side[w.side], ko, lost, leave, "forced"), w.slot, w.mon),
            ![Foe(w.side)] = [side[Foe(w.side)] EXCEPT
                                 !.chased = side[Foe(w.side)].chased \cup {e.slot : e \in Chasers(w)}]]
    BY <1>v, <1>m, <1>n, Zenon
  <2>4. Card = {} => Carded(w, first, ko) = {}
    BY DEF Carded
  <2>5. drags' \subseteq drags \cup {[side |-> first.side, slot |-> first.slot]}
    BY <1>v
  <2>6. Card = {} => drags' = drags
    BY <1>v, <2>4
  <2>7. switches' = switches \ {w} /\ (switches' = {} => pc' = "drags") /\ (switches' # {} => pc' = pc)
    BY <1>v
  <2> QED BY Zenon, <2>1, <2>2, <2>3, <2>5, <2>6, <2>7
<1>2. UNCHANGED <<queue, halved, todo, ended, turn>>
  BY DEF PreTurnSwitch
<1>3. w \in Places /\ first \in Places
  BY DEF TypeInv, Chasers
<1>4. /\ w.side \in Sides /\ w.slot \in Slots /\ w.mon \in Mons(w.side)
      /\ side[w.side] \in SideState(w.side) /\ side[Foe(w.side)] \in SideState(Foe(w.side))
      /\ first.side \in Sides /\ first.slot \in Slots /\ Foe(w.side) \in Sides
  BY <1>3, Entry, Basics
<1>5. {e.slot : e \in Chasers(w)} \in SUBSET Slots
  BY Entry DEF Chasers, TypeInv
<1>a. PICK a : a = Seat(Hurt(side[w.side], ko, lost, leave, "forced"), w.slot, w.mon)
  OBVIOUS
<1>b. PICK b : b = [side[Foe(w.side)] EXCEPT
                       !.chased = side[Foe(w.side)].chased \cup {e.slot : e \in Chasers(w)}]
  OBVIOUS
<1>6. /\ a \in SideState(w.side)
      /\ w.mon \in Bench(w.side, side[w.side]) => Left(w.side, side[w.side], a, w.slot, w.mon)
  <2>1. ko \in SUBSET {Act(side[w.side])[w.slot]} /\ leave \in SUBSET {Act(side[w.side])[w.slot]}
    BY <1>1 DEF Act, Mon
  <2> QED BY <1>1, <1>4, <1>a, <2>1, LeftDoes
<1>7. Chased(Foe(w.side), side[Foe(w.side)], b, {e.slot : e \in Chasers(w)})
  BY <1>4, <1>5, <1>b, ChasedDoes
<1>8. Both(side', w.side, a, b)
  <2>1. b \in SideState(Foe(w.side)) /\ Sided(side) /\ side' = [side EXCEPT ![w.side] = a, ![Foe(w.side)] = b]
    BY <1>1, <1>7, <1>a, <1>b DEF Chased, TypeInv
  <2>2. Both([side EXCEPT ![w.side] = a, ![Foe(w.side)] = b], w.side, a, b)
    BY <1>4, <1>6, <2>1, TwoSides
  <2> QED BY <2>1, <2>2
<1>9. drags' \subseteq [side : Sides, slot : Slots] /\ (Card = {} => drags' = drags)
  BY <1>1, <1>4 DEF TypeInv
<1>10. LeaveIs(w)
  BY <1>1, <1>v, <1>2, <1>6, <1>7, <1>8, <1>9 DEF LeaveIs, Both
<1> QED BY <1>10

\* e is d with the two active mons in each other's place.
Swapped(s, d, e) ==
    /\ e \in SideState(s)
    /\ \A x \in Slots : Act(e)[x] = Act(d)[1 - x] /\ 1 - x \in Slots
    /\ Down(e) = Down(d) /\ Flg(e) = Flg(d) /\ Rep(e) = Rep(d) /\ Def(e) = Def(d)
    /\ Usd(e) = Usd(d) /\ Crs(e) = Crs(d)
    /\ \A x \in Slots : x \in Cha(e) <=> 1 - x \in Cha(d)
    /\ Placed(s, d) => Placed(s, e)

LEMMA SwapDoes ==
    ASSUME NEW s \in Sides, NEW d \in SideState(s)
    PROVE  Swapped(s, d, [d EXCEPT !.active = [slot \in Slots |-> d.active[1 - slot]],
                                   !.order = [d.order EXCEPT ![0] = d.order[1], ![1] = d.order[0]],
                                   !.chased = {1 - slot : slot \in d.chased}])
<1>a. PICK A : A = [slot \in Slots |-> d.active[1 - slot]]
  OBVIOUS
<1>o. PICK O : O = [d.order EXCEPT ![0] = d.order[1], ![1] = d.order[0]]
  OBVIOUS
<1>c. PICK C : C = {1 - slot : slot \in d.chased}
  OBVIOUS
<1>e. PICK e : e = [d EXCEPT !.active = A, !.order = O, !.chased = C]
  OBVIOUS
<1>0. /\ d.active \in [Slots -> Mons(s)] /\ d.order \in [Mons(s) -> Mons(s)] /\ d.chased \subseteq Slots
      /\ \A x \in Slots : 1 - x \in Slots /\ 1 - (1 - x) = x /\ x # 1 - x
      /\ Slots = {0, 1} /\ Slots \subseteq Mons(s)
  BY Basics DEF SideState, Slots
<1>1. A \in [Slots -> Mons(s)] /\ \A x \in Slots : A[x] = d.active[1 - x]
  BY <1>0, <1>a
<1>2. O \in [Mons(s) -> Mons(s)] /\ O[0] = d.order[1] /\ O[1] = d.order[0]
      /\ \A x \in Mons(s) \ Slots : O[x] = d.order[x]
  BY <1>0, <1>o
<1>3. C \in SUBSET Slots /\ \A x \in Slots : x \in C <=> 1 - x \in d.chased
  BY <1>0, <1>c
<1>4. e \in SideState(s)
  BY <1>e, <1>1, <1>2, <1>3 DEF SideState
<1>5. /\ Act(e) = A /\ Ord(e) = O /\ Cha(e) = C /\ Down(e) = Down(d) /\ Flg(e) = Flg(d)
      /\ Rep(e) = Rep(d) /\ Def(e) = Def(d) /\ Usd(e) = Usd(d) /\ Crs(e) = Crs(d)
  BY <1>e DEF SideState, Act, Ord, Cha, Down, Flg, Rep, Def, Usd, Crs
<1>6. Act(d) = d.active /\ Ord(d) = d.order /\ Cha(d) = d.chased
  BY DEF Act, Ord, Cha
<1>7. ASSUME Placed(s, d)  PROVE Placed(s, e)
  <2>1. /\ Act(d)[0] # Act(d)[1] /\ Ord(d)[0] = Act(d)[0] /\ Ord(d)[1] = Act(d)[1]
        /\ \A x, y \in Mons(s) : Ord(d)[x] = Ord(d)[y] => x = y
        /\ \A m \in Mons(s) : \E x \in Mons(s) : Ord(d)[x] = m
    BY <1>0, <1>7 DEF Placed
  <2>2. /\ Ord(e)[0] = Ord(d)[1] /\ Ord(e)[1] = Ord(d)[0] /\ 0 \in Mons(s) /\ 1 \in Mons(s)
        /\ \A x \in Mons(s) : x = 0 \/ x = 1 \/ Ord(e)[x] = Ord(d)[x]
    BY <1>0, <1>2, <1>5, <1>6
  <2>3. Act(e)[0] = Act(d)[1] /\ Act(e)[1] = Act(d)[0]
    BY <1>0, <1>1, <1>5, <1>6
  <2>4. \A x, y \in Mons(s) : Ord(e)[x] = Ord(e)[y] => x = y
    BY <2>1, <2>2
  <2>5. \A m \in Mons(s) : \E x \in Mons(s) : Ord(e)[x] = m
    <3> TAKE m \in Mons(s)
    <3>1. PICK x \in Mons(s) : Ord(d)[x] = m
      BY <2>1
    <3> QED BY <2>2, <3>1
  <2>6. \A x \in Slots : Ord(e)[x] = Act(e)[x]
    BY <1>0, <2>1, <2>2, <2>3
  <2> QED BY <2>1, <2>3, <2>4, <2>5, <2>6 DEF Placed
<1>8. Swapped(s, d, e)
  BY <1>0, <1>1, <1>3, <1>4, <1>5, <1>6, <1>7 DEF Swapped
<1> QED BY <1>a, <1>o, <1>c, <1>e, <1>8

AllySwitchIs(e) ==
    /\ Sided(side')
    /\ Swapped(e.side, side[e.side], side'[e.side])
    /\ side'[Foe(e.side)] = side[Foe(e.side)]
    /\ queue' = {IF x.side = e.side THEN [x EXCEPT !.slot = 1 - @] ELSE x : x \in queue \ {e}}
    /\ Acts(e) /\ UNCHANGED <<drags, halved>>

LEMMA AllySwitchDoes ==
    ASSUME TypeInv, NEW e \in queue, AllySwitch(e)
    PROVE  AllySwitchIs(e)
<1>a. PICK a : a = [side[e.side] EXCEPT
                       !.active = [slot \in Slots |-> side[e.side].active[1 - slot]],
                       !.order = [side[e.side].order EXCEPT ![0] = side[e.side].order[1], ![1] = side[e.side].order[0]],
                       !.chased = {1 - slot : slot \in side[e.side].chased}]
  OBVIOUS
<1>1. /\ side' = [side EXCEPT ![e.side] = a]
      /\ queue' = {IF x.side = e.side THEN [x EXCEPT !.slot = 1 - @] ELSE x : x \in queue \ {e}}
      /\ Acts(e) /\ UNCHANGED <<drags, halved>>
  BY <1>a, Zenon DEF AllySwitch
<1>2. e.side \in Sides /\ side[e.side] \in SideState(e.side) /\ Sided(side)
  BY Entry DEF TypeInv
<1>3. Swapped(e.side, side[e.side], a)
  BY <1>a, <1>2, SwapDoes
<1>4. Both(side', e.side, a, side[Foe(e.side)])
  <2>1. a \in SideState(e.side)
    BY <1>3 DEF Swapped
  <2>2. Both([side EXCEPT ![e.side] = a], e.side, a, side[Foe(e.side)])
    BY <1>2, <2>1, OneSide
  <2> QED BY <1>1, <2>2
<1> QED BY <1>1, <1>3, <1>4 DEF AllySwitchIs, Both

\* Revival Blessing flags its user, and only with somebody to revive.
Prays(s, d, e, m) ==
    /\ Stays(s, d, e) /\ Cha(e) = Cha(d) /\ Def(e) = Def(d) /\ Down(e) = Down(d) /\ Down(d) # {}
    /\ Flg(e)[m] = "revive" /\ \A x \in Mons(s) \ {m} : Flg(e)[x] = Flg(d)[x]

ReviveIs(e) ==
    /\ Sided(side')
    /\ Prays(e.side, side[e.side], side'[e.side], Mon(e))
    /\ side'[Foe(e.side)] = side[Foe(e.side)]
    /\ queue' = queue \ {e} /\ Acts(e) /\ UNCHANGED <<drags, halved>>

LEMMA ReviveDoes ==
    ASSUME TypeInv, NEW e \in queue, Revive(e)
    PROVE  ReviveIs(e)
<1>d. PICK d : d = side[e.side]
  OBVIOUS
<1>b. PICK B : B = [d.flag EXCEPT ![Mon(e)] = "revive"]
  OBVIOUS
<1>c. PICK c : c = [d EXCEPT !.flag = B, !.revived = TRUE]
  OBVIOUS
<1>1. /\ d.fainted # {} /\ side' = [side EXCEPT ![e.side] = c]
      /\ queue' = queue \ {e} /\ Acts(e) /\ UNCHANGED <<drags, halved>>
  BY <1>b, <1>c, <1>d, Zenon DEF Revive
<1>2. e.side \in Sides /\ d \in SideState(e.side) /\ Mon(e) \in Mons(e.side)
  BY <1>d, Entry DEF TypeInv
<1>3. d.flag \in [Mons(e.side) -> {"none", "self", "forced", "revive"}]
  BY <1>2 DEF SideState
<1>4. B \in [Mons(e.side) -> {"none", "self", "forced", "revive"}]
      /\ B[Mon(e)] = "revive" /\ \A x \in Mons(e.side) \ {Mon(e)} : B[x] = d.flag[x]
  BY <1>b, <1>2, <1>3
<1>5. c \in SideState(e.side)
  BY <1>c, <1>2, <1>4 DEF SideState
<1>6. /\ Act(c) = Act(d) /\ Ord(c) = Ord(d) /\ Rep(c) = Rep(d) /\ Usd(c) = Usd(d) /\ Crs(c) = Crs(d)
      /\ Cha(c) = Cha(d) /\ Def(c) = Def(d) /\ Down(c) = Down(d) /\ Flg(c) = B
  BY <1>c, <1>2 DEF SideState, Act, Ord, Rep, Usd, Crs, Cha, Def, Down, Flg
<1>7. Prays(e.side, d, c, Mon(e))
  BY <1>1, <1>4, <1>5, <1>6 DEF Prays, Stays, Flg, Down
<1>8. Both(side', e.side, c, side[Foe(e.side)])
  <2>1. Both([side EXCEPT ![e.side] = c], e.side, c, side[Foe(e.side)])
    BY <1>2, <1>5, OneSide DEF TypeInv
  <2> QED BY <1>1, <2>1
<1> QED BY <1>1, <1>7, <1>8, <1>d DEF ReviveIs, Both

\* do_switch in the middle of a turn, of somebody from the reserve.
Dragged(s, d, e, slot, m) ==
    /\ e \in SideState(s)
    /\ Act(e)[slot] = m /\ \A x \in Slots \ {slot} : Act(e)[x] = Act(d)[x]
    /\ Flg(e)[m] = "none" /\ \A x \in Mons(s) \ {m} : Flg(e)[x] = Flg(d)[x]
    /\ Crs(e) = Crs(d) \cup {Act(d)[slot], m} /\ Rep(e) = Rep(d) \cup {slot}
    /\ Down(e) = Down(d) /\ Cha(e) = Cha(d) /\ Def(e) = Def(d) /\ Usd(e) = Usd(d)
    /\ m \notin Down(d)
    /\ Placed(s, d) => Placed(s, e) /\ m \in Bench(s, d)

LEMMA DraggedDoes ==
    ASSUME NEW s \in Sides, NEW d \in SideState(s), NEW slot \in Slots, NEW m \in Reserve(s, d)
    PROVE  Dragged(s, d, MidTurnSeat(d, slot, m), slot, m)
<1>e. PICK e : e = MidTurnSeat(d, slot, m)
  OBVIOUS
<1>1. m \in Mons(s) /\ m \notin Down(d)
  <2>1. d.order \in [Mons(s) -> Mons(s)]
    BY DEF SideState
  <2>2. m \in {d.order[i] : i \in Mons(s) \ Slots} /\ m \notin Down(d)
    BY DEF Reserve, Down
  <2> QED BY <2>1, <2>2
<1>2. /\ e \in SideState(s)
      /\ Act(e)[slot] = m /\ \A x \in Slots \ {slot} : Act(e)[x] = Act(d)[x]
      /\ Flg(e)[m] = "none" /\ \A x \in Mons(s) \ {m} : Flg(e)[x] = Flg(d)[x]
      /\ Crs(e) = Crs(d) \cup {Act(d)[slot], m} /\ Rep(e) = Rep(d) \cup {slot}
      /\ Down(e) = Down(d) /\ Cha(e) = Cha(d) /\ Def(e) = Def(d) /\ Usd(e) = Usd(d)
  BY <1>e, <1>1, MidTurnSeatWrites
<1>3. ASSUME Placed(s, d)  PROVE Placed(s, e) /\ m \in Bench(s, d)
  <2>1. m \in Bench(s, d)
    BY <1>3, ReserveIsBench
  <2>2. m \notin {Act(d)[x] : x \in Slots \ {slot}}
    BY <2>1, Reads DEF Slots
  <2> QED BY <1>e, <1>1, <1>3, <2>1, <2>2, MidTurnSeatPlaces
<1> QED BY <1>e, <1>1, <1>2, <1>3 DEF Dragged

DragIs(g) ==
    /\ Sided(side') /\ drags' = drags \ {g}
    /\ side' = side \/ (/\ side'[Foe(g.side)] = side[Foe(g.side)]
                        /\ g.slot \in Up(side[g.side])
                        /\ \E m : Dragged(g.side, side[g.side], side'[g.side], g.slot, m))
    /\ UNCHANGED <<pc, queue, switches, halved, todo, ended, turn, acted>>

LEMMA DragDoes ==
    ASSUME TypeInv, Drag
    PROVE  pc = "drags" /\ \E g \in drags : DragIs(g)
<1>1. PICK g \in drags :
         /\ drags' = drags \ {g}
         /\ IF Standing(side[g.side], g.slot) /\ Reserve(g.side, side[g.side]) # {}
            THEN \E m \in Reserve(g.side, side[g.side]) :
                   side' = [side EXCEPT ![g.side] = MidTurnSeat(side[g.side], g.slot, m)]
            ELSE UNCHANGED side
  BY Zenon DEF Drag
<1>2. pc = "drags" /\ UNCHANGED <<pc, queue, switches, halved, todo, ended, turn, acted>>
  BY DEF Drag
<1>3. g.side \in Sides /\ g.slot \in Slots /\ side[g.side] \in SideState(g.side) /\ Sided(side)
  BY DEF TypeInv, Sided
<1>4. CASE UNCHANGED side
  BY <1>1, <1>2, <1>3, <1>4 DEF DragIs, Sided
<1>5. CASE Standing(side[g.side], g.slot) /\ Reserve(g.side, side[g.side]) # {}
  <2>1. PICK m \in Reserve(g.side, side[g.side]) :
          side' = [side EXCEPT ![g.side] = MidTurnSeat(side[g.side], g.slot, m)]
    BY <1>1, <1>5
  <2>e. PICK e : e = MidTurnSeat(side[g.side], g.slot, m)
    OBVIOUS
  <2>2. Dragged(g.side, side[g.side], e, g.slot, m)
    BY <1>3, <2>e, DraggedDoes
  <2>3. e \in SideState(g.side)
    BY <2>2 DEF Dragged
  <2>4. Both(side', g.side, e, side[Foe(g.side)])
    <3>1. Both([side EXCEPT ![g.side] = e], g.side, e, side[Foe(g.side)])
      BY <1>3, <2>3, OneSide
    <3> QED BY <2>1, <2>e, <3>1
  <2>5. g.slot \in Up(side[g.side])
    BY <1>3, <1>5 DEF Up
  <2> QED BY <1>1, <1>2, <2>2, <2>4, <2>5 DEF DragIs, Both
<1> QED BY <1>1, <1>2, <1>4, <1>5

\* trigger_emergency_exits of a side.
Ordered(s, d, e) ==
    /\ Stays(s, d, e) /\ Cha(e) = Cha(d) /\ Def(e) = Def(d) /\ Down(e) = Down(d)
    /\ \A m \in Mons(s) :
          \/ Flg(e)[m] = Flg(d)[m]
          \/ /\ Flg(e)[m] = "forced" /\ Flg(d)[m] = "none" /\ m \notin Down(d) /\ Bench(s, d) # {}
             /\ \E h \in halved : h.side = s /\ h.mon = m /\ Act(d)[h.slot] = m

LEMMA EmergencyExitsDoes ==
    ASSUME TypeInv, EmergencyExits
    PROVE  /\ pc = "drags" /\ drags = {} /\ Sided(side')
           /\ \A s \in Sides : Ordered(s, side[s], side'[s])
           /\ pc' = Sync(side') /\ todo' = (IF pc' = "loop" THEN {} ELSE Sides)
           /\ halved' = {} /\ UNCHANGED <<queue, switches, drags, ended, turn, acted>>
<1> DEFINE wants(s, m) == /\ side[s].flag[m] = "none" /\ m \notin side[s].fainted /\ Bench(s, side[s]) # {}
                          /\ \E h \in halved : h.side = s /\ h.mon = m /\ side[s].active[h.slot] = m
           flag(s) == [m \in Mons(s) |-> IF wants(s, m) THEN "forced" ELSE side[s].flag[m]]
<1>1. /\ pc = "drags" /\ drags = {}
      /\ side' = [s \in Sides |-> [side[s] EXCEPT !.flag = flag(s)]]
      /\ pc' = Sync(side') /\ todo' = (IF pc' = "loop" THEN {} ELSE Sides)
      /\ halved' = {} /\ UNCHANGED <<queue, switches, drags, ended, turn, acted>>
  BY Zenon DEF EmergencyExits
<1> HIDE DEF flag
<1>2. ASSUME NEW s \in Sides  PROVE side'[s] \in SideState(s) /\ Ordered(s, side[s], side'[s])
  <2>d. PICK d : d = side[s]
    OBVIOUS
  <2>f. PICK F : F = flag(s)
    OBVIOUS
  <2>e. PICK e : e = [d EXCEPT !.flag = F]
    OBVIOUS
  <2>1. d \in SideState(s)
    BY <2>d DEF TypeInv, Sided
  <2>2. d.flag \in [Mons(s) -> {"none", "self", "forced", "revive"}]
    BY <2>1 DEF SideState
  <2>3. /\ F \in [Mons(s) -> {"none", "self", "forced", "revive"}]
        /\ \A m \in Mons(s) : F[m] = d.flag[m] \/ (F[m] = "forced" /\ wants(s, m))
    <3> HIDE DEF wants
    <3> QED BY <2>d, <2>f, <2>2 DEF flag
  <2>4. e \in SideState(s)
    BY <2>e, <2>1, <2>3 DEF SideState
  <2>5. /\ Act(e) = Act(d) /\ Ord(e) = Ord(d) /\ Rep(e) = Rep(d) /\ Usd(e) = Usd(d) /\ Crs(e) = Crs(d)
        /\ Cha(e) = Cha(d) /\ Def(e) = Def(d) /\ Down(e) = Down(d) /\ Flg(e) = F
    BY <2>e, <2>1 DEF SideState, Act, Ord, Rep, Usd, Crs, Cha, Def, Down, Flg
  <2>6. ASSUME NEW m \in Mons(s), F[m] # d.flag[m]
        PROVE  /\ F[m] = "forced" /\ Flg(d)[m] = "none" /\ m \notin Down(d) /\ Bench(s, d) # {}
               /\ \E h \in halved : h.side = s /\ h.mon = m /\ Act(d)[h.slot] = m
    BY <2>3, <2>6, <2>d DEF Flg, Down, Act
  <2>7. Stays(s, d, e)
    BY <2>4, <2>5 DEF Stays
  <2>8. Ordered(s, d, e)
    BY <2>5, <2>6, <2>7 DEF Ordered, Flg
  <2> QED BY <1>1, <2>4, <2>8, <2>d, <2>e, <2>f
<1>3. Sided(side')
  BY <1>1, <1>2 DEF Sided
<1> QED BY <1>1, <1>2, <1>3

\* The picks of a side's answer are added to those it has.
Told(s, d, e, f) ==
    /\ Stays(s, d, e) /\ Cha(e) = Cha(d) /\ Down(e) = Down(d) /\ Flg(e) = Flg(d)
    /\ Def(e) = Def(d) \o Listed(f) /\ f \in Answers(s, Asked(s))

LEMMA AnswerDoes ==
    ASSUME TypeInv, Answer
    PROVE  /\ pc = "stop" /\ pc' = "sweep" /\ Sided(side')
           /\ \A s \in Sides : \E f : Told(s, side[s], side'[s], f)
           /\ UNCHANGED <<queue, switches, drags, halved, todo, ended, turn, acted>>
<1>1. PICK f1 \in Answers("p1", Asked("p1")), f2 \in Answers("p2", Asked("p2")) :
         side' = [s \in Sides |->
                   [side[s] EXCEPT !.deferred = side[s].deferred \o Listed(IF s = "p1" THEN f1 ELSE f2)]]
  BY Zenon DEF Answer
<1>2. ASSUME NEW s \in Sides
      PROVE  side'[s] \in SideState(s) /\ \E f : Told(s, side[s], side'[s], f)
  <2>f. PICK f : f = IF s = "p1" THEN f1 ELSE f2
    OBVIOUS
  <2>d. PICK d : d = side[s]
    OBVIOUS
  <2>q. PICK Q : Q = d.deferred \o Listed(f)
    OBVIOUS
  <2>e. PICK e : e = [d EXCEPT !.deferred = Q]
    OBVIOUS
  <2>1. d \in SideState(s)
    BY <2>d DEF TypeInv, Sided
  <2>2. f \in Answers(s, Asked(s))
    BY <2>f DEF Sides
  <2>3. Asked(s) \in SUBSET Slots
    BY DEF Asked, Flagged
  <2>4. DOMAIN f \subseteq Slots /\ \A x \in DOMAIN f : f[x] \in Mons(s)
    BY <2>1, <2>2, <2>3, <2>d, AnswersTyped
  <2>5. Listed(f) \in Seq([slot : Slots, mon : Mons(s)])
    BY <2>4, ListedPicks
  <2>6. d.deferred \in Seq([slot : Slots, mon : Mons(s)])
    BY <2>1 DEF SideState
  <2>7. Q \in Seq([slot : Slots, mon : Mons(s)])
    BY <2>5, <2>6, <2>q
  <2>8. e \in SideState(s)
    BY <2>1, <2>7, <2>e DEF SideState
  <2>9. /\ Act(e) = Act(d) /\ Ord(e) = Ord(d) /\ Rep(e) = Rep(d) /\ Usd(e) = Usd(d) /\ Crs(e) = Crs(d)
        /\ Cha(e) = Cha(d) /\ Def(e) = Q /\ Down(e) = Down(d) /\ Flg(e) = Flg(d)
    BY <2>1, <2>e DEF SideState, Act, Ord, Rep, Usd, Crs, Cha, Def, Down, Flg
  <2>10. Told(s, d, e, f)
    BY <2>2, <2>8, <2>9, <2>q DEF Told, Stays, Def
  <2>11. side'[s] = e
    BY <1>1, <2>d, <2>e, <2>f, <2>q
  <2> QED BY <2>8, <2>10, <2>11, <2>d
<1>3. Sided(side')
  BY <1>1, <1>2 DEF Sided
<1>4. pc = "stop" /\ pc' = "sweep" /\ UNCHANGED <<queue, switches, drags, halved, todo, ended, turn, acted>>
  BY DEF Answer
<1> QED BY <1>2, <1>3, <1>4

\* One side of the sweep: its slot 0, then its slot 1.
SweptBoth(s, d, c, e) ==
    /\ Swept(s, d, c, 0) /\ Swept(s, c, e, 1) /\ e \in SideState(s)
    /\ c = SweepSlot(s, d, 0) /\ e = SweepSlot(s, c, 1)

SweepIs(s) ==
    /\ Sided(side') /\ side'[Foe(s)] = side[Foe(s)]
    /\ \E c : SweptBoth(s, side[s], c, side'[s])
    /\ todo' = todo \ {s} /\ pc' = (IF todo' = {} THEN "loop" ELSE pc)
    /\ UNCHANGED <<queue, switches, drags, halved, ended, turn, acted>>

LEMMA SweepDoes ==
    ASSUME TypeInv, Sweep
    PROVE  pc = "sweep" /\ \E s \in todo : SweepIs(s)
<1>1. PICK s \in todo : /\ side' = [side EXCEPT ![s] = SweepSlot(s, SweepSlot(s, side[s], 0), 1)]
                        /\ todo' = todo \ {s}
  BY Zenon DEF Sweep
<1>2. /\ pc = "sweep" /\ pc' = (IF todo' = {} THEN "loop" ELSE pc)
      /\ UNCHANGED <<queue, switches, drags, halved, ended, turn, acted>>
  BY DEF Sweep
<1>c. PICK c : c = SweepSlot(s, side[s], 0)
  OBVIOUS
<1>e. PICK e : e = SweepSlot(s, c, 1)
  OBVIOUS
<1>3. s \in Sides /\ side[s] \in SideState(s) /\ 0 \in Slots /\ 1 \in Slots /\ Sided(side)
  BY DEF TypeInv, Sided, Slots
<1>4. Swept(s, side[s], c, 0)
  BY <1>c, <1>3, SweepSlotDoes
<1>5. c \in SideState(s)
  BY <1>4 DEF Swept
<1>6. Swept(s, c, e, 1)
  BY <1>e, <1>3, <1>5, SweepSlotDoes
<1>7. e \in SideState(s)
  BY <1>6 DEF Swept
<1>8. SweptBoth(s, side[s], c, e)
  BY <1>c, <1>e, <1>4, <1>6, <1>7 DEF SweptBoth
<1>9. Both(side', s, e, side[Foe(s)])
  <2>1. Both([side EXCEPT ![s] = e], s, e, side[Foe(s)])
    BY <1>3, <1>7, OneSide
  <2> QED BY <1>1, <1>c, <1>e, <2>1
<1> QED BY <1>1, <1>2, <1>8, <1>9 DEF SweepIs, Both

-----------------------------------------------------------------------------
(* Between turns.                                                           *)

\* Residual damage and the residual Emergency Exits of a side.
Worn(s, d, e) ==
    /\ Stays(s, d, e) /\ Cha(e) = Cha(d) /\ Def(e) = Def(d)
    /\ Down(e) \subseteq Down(d) \cup {Act(d)[0], Act(d)[1]}
    /\ \A m \in Mons(s) : Flg(e)[m] = Flg(d)[m] \/ Flg(e)[m] = "forced"

LEMMA ResidualDoes ==
    ASSUME TypeInv, Residual
    PROVE  /\ pc = "residual" /\ Sided(side') /\ \A s \in Sides : Worn(s, side[s], side'[s])
           /\ ended' = Over(side')
           /\ pc' = "idle" /\ turn' = turn + 1 /\ queue' = {}
           /\ UNCHANGED <<switches, drags, halved, todo, acted>>
<1>1. PICK hurt \in SUBSET OnField, exits \in SUBSET (Exit \cap OnField) :
         LET d == [s \in Sides |->
                     [side[s] EXCEPT !.fainted = side[s].fainted \cup {m \in Mons(s) : <<s, m>> \in hurt}]]
             over == Over(d)
         IN  /\ Cardinality(hurt) <= MaxKO /\ exits \cap hurt = {}
             /\ Over(side) => hurt = {}
             /\ over => exits = {}
             /\ \A x \in exits : d[x[1]].flag[x[2]] = "none" /\ Bench(x[1], d[x[1]]) # {}
             /\ side' = [s \in Sides |->
                           [d[s] EXCEPT !.flag = [m \in Mons(s) |->
                               IF <<s, m>> \in exits THEN "forced" ELSE d[s].flag[m]]]]
             /\ ended' = over
  BY Zenon DEF Residual
<1>d. PICK d : d = [s \in Sides |->
                      [side[s] EXCEPT !.fainted = side[s].fainted \cup {m \in Mons(s) : <<s, m>> \in hurt}]]
  OBVIOUS
<1>2. /\ side' = [s \in Sides |->
                    [d[s] EXCEPT !.flag = [m \in Mons(s) |->
                        IF <<s, m>> \in exits THEN "forced" ELSE d[s].flag[m]]]]
      /\ ended' = Over(d)
  BY <1>1, <1>d, Zenon
<1>3. ASSUME NEW s \in Sides
      PROVE  side'[s] \in SideState(s) /\ Worn(s, side[s], side'[s]) /\ Down(side'[s]) = Down(d[s])
  <2>a. PICK a : a = side[s]
    OBVIOUS
  <2>h. PICK H : H = a.fainted \cup {m \in Mons(s) : <<s, m>> \in hurt}
    OBVIOUS
  <2>b. PICK b : b = [a EXCEPT !.fainted = H]
    OBVIOUS
  <2>f. PICK F : F = [m \in Mons(s) |-> IF <<s, m>> \in exits THEN "forced" ELSE b.flag[m]]
    OBVIOUS
  <2>e. PICK e : e = [b EXCEPT !.flag = F]
    OBVIOUS
  <2>1. a \in SideState(s)
    BY <2>a DEF TypeInv, Sided
  <2>2. H \in SUBSET Mons(s)
    BY <2>1, <2>h DEF SideState
  <2>3. b \in SideState(s)
    BY <2>1, <2>2, <2>b DEF SideState
  <2>4. /\ Act(b) = Act(a) /\ Ord(b) = Ord(a) /\ Rep(b) = Rep(a) /\ Usd(b) = Usd(a) /\ Crs(b) = Crs(a)
        /\ Cha(b) = Cha(a) /\ Def(b) = Def(a) /\ Down(b) = H /\ Flg(b) = Flg(a)
    BY <2>b, <2>1 DEF SideState, Act, Ord, Rep, Usd, Crs, Cha, Def, Down, Flg
  <2>5. b.flag \in [Mons(s) -> {"none", "self", "forced", "revive"}]
    BY <2>3 DEF SideState
  <2>6. /\ F \in [Mons(s) -> {"none", "self", "forced", "revive"}]
        /\ \A m \in Mons(s) : F[m] = b.flag[m] \/ F[m] = "forced"
    BY <2>5, <2>f
  <2>7. e \in SideState(s)
    BY <2>3, <2>6, <2>e DEF SideState
  <2>8. /\ Act(e) = Act(b) /\ Ord(e) = Ord(b) /\ Rep(e) = Rep(b) /\ Usd(e) = Usd(b) /\ Crs(e) = Crs(b)
        /\ Cha(e) = Cha(b) /\ Def(e) = Def(b) /\ Down(e) = Down(b) /\ Flg(e) = F
    BY <2>e, <2>3 DEF SideState, Act, Ord, Rep, Usd, Crs, Cha, Def, Down, Flg
  <2>9. Down(e) \subseteq Down(a) \cup {Act(a)[0], Act(a)[1]} /\ Down(a) \subseteq Down(e)
    <3>1. \A m : <<s, m>> \in hurt => m \in {Act(a)[0], Act(a)[1]}
      BY <2>a DEF OnField, Up, Slots, Act
    <3> QED BY <2>4, <2>8, <2>h, <3>1 DEF Down
  <2>10. Worn(s, a, e)
    BY <2>4, <2>6, <2>7, <2>8, <2>9 DEF Worn, Stays, Flg
  <2>11. d[s] = b
    BY <1>d, <2>a, <2>b, <2>h
  <2>12. side'[s] = e
    BY <1>2, <2>11, <2>e, <2>f
  <2> QED BY <2>7, <2>8, <2>10, <2>11, <2>12, <2>a
<1>4. Sided(side')
  BY <1>2, <1>3 DEF Sided
<1>5. ended' = Over(side')
  <2>1. \A s \in Sides : Out(s, side'[s]) <=> Out(s, d[s])
    BY <1>3, Reads
  <2>2. Over(side') <=> Over(d)
    BY <2>1 DEF Over
  <2>3. Over(side') \in BOOLEAN /\ Over(d) \in BOOLEAN
    BY DEF Over
  <2> QED BY <1>2, <2>2, <2>3
<1>6. /\ pc = "residual" /\ pc' = "idle" /\ turn' = turn + 1 /\ queue' = {}
      /\ UNCHANGED <<switches, drags, halved, todo, acted>>
  BY DEF Residual
<1> QED BY <1>3, <1>4, <1>5, <1>6

\* A side's picks are sent in; an entry hazard may knock them out.
Filled(s, d, f, c, e) ==
    /\ Reseated(s, d, c) /\ c = Refill(s, d, f) /\ f \in Answers(s, NeedsReplacement(s))
    /\ Stays(s, c, e) /\ Cha(e) = Cha(c) /\ Def(e) = Def(c)
    /\ \A m \in Mons(s) : Flg(e)[m] = Flg(c)[m]

LEMMA ReplaceDoes ==
    ASSUME TypeInv, Replace
    PROVE  /\ pc = "idle" /\ Sided(side')
           /\ \A s \in Sides : \E f, c : Filled(s, side[s], f, c, side'[s])
           /\ ended' = Over(side')
           /\ UNCHANGED <<pc, queue, switches, drags, halved, todo, turn, acted>>
<1>1. PICK f1 \in Answers("p1", NeedsReplacement("p1")), f2 \in Answers("p2", NeedsReplacement("p2")),
           spikes \in {{}} \cup {{x} : x \in Sides \X Slots} :
         side' = [s \in Sides |-> Hurt(Refilled(f1, f2)[s], Spiked(Refilled(f1, f2), s, spikes), {}, {}, "none")]
  BY DEF Replace
<1>s. PICK set : set = Refilled(f1, f2)
  OBVIOUS
<1>2. side' = [s \in Sides |-> Hurt(set[s], Spiked(set, s, spikes), {}, {}, "none")]
  BY <1>1, <1>s, Zenon
<1>5. ASSUME NEW s \in Sides
      PROVE  side'[s] \in SideState(s) /\ \E f, c : Filled(s, side[s], f, c, side'[s])
  <2>f. PICK f : f = IF s = "p1" THEN f1 ELSE f2
    OBVIOUS
  <2>d. PICK d : d = side[s]
    OBVIOUS
  <2>c. PICK c : c = Refill(s, d, f)
    OBVIOUS
  <2>h. PICK H : H = Spiked(set, s, spikes)
    OBVIOUS
  <2>e. PICK e : e = Hurt(c, H, {}, {}, "none")
    OBVIOUS
  <2>1. d \in SideState(s)
    BY <2>d DEF TypeInv, Sided
  <2>2. f \in Answers(s, NeedsReplacement(s))
    BY <2>f DEF Sides
  <2>3. NeedsReplacement(s) \in SUBSET Slots
    BY DEF NeedsReplacement
  <2>4. \A x \in DOMAIN f : f[x] \in Mons(s)
    BY <2>1, <2>2, <2>3, <2>d, AnswersTyped
  <2>5. Reseated(s, d, c)
    BY <2>1, <2>4, <2>c, RefillDoes
  <2>6. c \in SideState(s)
    BY <2>5 DEF Reseated
  <2>7. set[s] = c
    BY <1>s, <2>c, <2>d, <2>f DEF Refilled
  <2>8. H \in SUBSET Mons(s)
    <3>1. \A x \in Slots : c.active[x] \in Mons(s)
      BY <2>6 DEF SideState
    <3> QED BY <2>7, <2>h, <3>1 DEF Spiked, Landed
  <2>9. HurtIs(s, c, e, H, {}, "none")
    BY <2>6, <2>8, <2>e, HurtDoes
  <2>10. /\ e \in SideState(s) /\ Stays(s, c, e) /\ Cha(e) = Cha(c) /\ Def(e) = Def(c)
         /\ \A m \in Mons(s) : Flg(e)[m] = Flg(c)[m]
    BY <2>9 DEF HurtIs, Stays
  <2>11. Filled(s, d, f, c, e)
    BY <2>2, <2>5, <2>10, <2>c DEF Filled
  <2>12. side'[s] = e
    BY <1>2, <2>7, <2>e, <2>h
  <2> QED BY <2>10, <2>11, <2>12, <2>d
<1>6. Sided(side')
  BY <1>2, <1>5 DEF Sided
<1>7. pc = "idle" /\ ended' = Over(side') /\ UNCHANGED <<pc, queue, switches, drags, halved, todo, turn, acted>>
  BY DEF Replace
<1> QED BY <1>5, <1>6, <1>7

\* turn_prologue of a side.
Refreshed(s, d, e) ==
    /\ e \in SideState(s)
    /\ Act(e) = Act(d) /\ Ord(e) = Ord(d) /\ Down(e) = Down(d)
    /\ \A m \in Mons(s) : Flg(e)[m] = "none"
    /\ Rep(e) = {} /\ Cha(e) = {} /\ Crs(e) = {} /\ Usd(e) = {} /\ Def(e) = <<>>

LEMMA FreshDoes ==
    ASSUME NEW s \in Sides, NEW d \in SideState(s)
    PROVE  Refreshed(s, d, Fresh(s, d))
<1>f. PICK F : F = [m \in Mons(s) |-> "none"]
  OBVIOUS
<1>e. PICK e : e = Fresh(s, d)
  OBVIOUS
<1>1. F \in [Mons(s) -> {"none", "self", "forced", "revive"}] /\ \A m \in Mons(s) : F[m] = "none"
  BY <1>f
<1>2. e = [d EXCEPT !.flag = F, !.replaced = {}, !.chased = {}, !.deferred = <<>>,
                    !.used = {}, !.crossed = {}]
  BY <1>e, <1>f DEF Fresh
<1>3. <<>> \in Seq([slot : Slots, mon : Mons(s)])
  OBVIOUS
<1>4. e \in SideState(s)
  BY <1>1, <1>2, <1>3 DEF SideState
<1>5. /\ Act(e) = Act(d) /\ Ord(e) = Ord(d) /\ Down(e) = Down(d) /\ Flg(e) = F
      /\ Rep(e) = {} /\ Cha(e) = {} /\ Crs(e) = {} /\ Usd(e) = {} /\ Def(e) = <<>>
  BY <1>2 DEF SideState, Act, Ord, Rep, Usd, Crs, Cha, Def, Down, Flg
<1> QED BY <1>e, <1>1, <1>4, <1>5 DEF Refreshed

\* An entry of the new queue: whom the order of the slot is for.
Given(o, p) ==
    /\ p \in Places /\ p = [side |-> p.side, slot |-> p.slot, mon |-> o[p.side][p.slot]]
    /\ p.mon = o[p.side][p.slot] /\ p.slot \in Up(side[p.side])

Ordering(o) ==
    /\ \A s \in Sides : o[s][0] # o[s][1]
    /\ \A p \in queue' : Given(o, p) /\ p.mon = Act(side[p.side])[p.slot]
    /\ \A p \in switches' : Given(o, p) /\ p.mon \in Bench(p.side, side[p.side])
    /\ \A s \in Sides : \A x \in Up(side[s]) : \E p \in queue' \cup switches' : p.side = s /\ p.slot = x

LEMMA BeginDoes ==
    ASSUME TypeInv, Begin
    PROVE  /\ pc = "idle" /\ Sided(side') /\ \A s \in Sides : Refreshed(s, side[s], side'[s])
           /\ \A s \in Sides : NeedsReplacement(s) = {}
           /\ \E o : Ordering(o)
           /\ acted' = {} /\ pc' = (IF switches' = {} THEN "loop" ELSE "switching")
           /\ UNCHANGED <<drags, halved, todo, ended, turn>>
<1>1. /\ pc = "idle" /\ side' = [s \in Sides |-> Fresh(s, side[s])]
      /\ \A s \in Sides : NeedsReplacement(s) = {}
      /\ acted' = {} /\ pc' = (IF switches' = {} THEN "loop" ELSE "switching")
      /\ UNCHANGED <<drags, halved, todo, ended, turn>>
  BY DEF Begin
<1>2. ASSUME NEW s \in Sides  PROVE side[s] \in SideState(s) /\ Refreshed(s, side[s], side'[s])
  <2>1. side[s] \in SideState(s)
    BY DEF TypeInv, Sided
  <2> QED BY <1>1, <2>1, FreshDoes
<1>3. Sided(side')
  BY <1>1, <1>2 DEF Sided, Refreshed
<1>4. \E o : Ordering(o)
  <2>1. PICK o1 \in Orders("p1"), o2 \in Orders("p2") :
          LET o == [s \in Sides |-> IF s = "p1" THEN o1 ELSE o2]
          IN  /\ queue' = UNION {Entries(o, s, Moving(o, s)) : s \in Sides}
              /\ switches' = UNION {Entries(o, s, Up(side[s]) \ Moving(o, s)) : s \in Sides}
    BY Zenon DEF Begin
  <2>o. PICK o : o = [s \in Sides |-> IF s = "p1" THEN o1 ELSE o2]
    OBVIOUS
  <2>2. /\ queue' = UNION {Entries(o, s, Moving(o, s)) : s \in Sides}
        /\ switches' = UNION {Entries(o, s, Up(side[s]) \ Moving(o, s)) : s \in Sides}
    BY <2>1, <2>o, Zenon
  <2>3. ASSUME NEW s \in Sides
        PROVE  /\ o[s] \in [Slots -> Mons(s)] /\ o[s][0] # o[s][1]
               /\ \A slot \in Slots : \/ o[s][slot] = Act(side[s])[slot]
                                      \/ o[s][slot] \in Bench(s, side[s])
    <3>1. o[s] \in Orders(s)
      BY <2>o DEF Sides
    <3> QED BY <3>1 DEF Orders, Act
  <2>4. \A s \in Sides : Up(side[s]) \subseteq Slots
    BY DEF Up
  <2>5. ASSUME NEW p, NEW s \in Sides, NEW slot \in Up(side[s]),
               p = [side |-> s, slot |-> slot, mon |-> o[s][slot]]
        PROVE  Given(o, p)
    <3>1. slot \in Slots /\ o[s][slot] \in Mons(s)
      BY <2>3, <2>4
    <3>2. p \in Places
      BY <2>5, <3>1 DEF Places
    <3> QED BY <2>5, <3>2 DEF Given
  <2>6. ASSUME NEW p \in queue'  PROVE Given(o, p) /\ p.mon = Act(side[p.side])[p.slot]
    <3>a. PICK s \in Sides : \E slot \in Moving(o, s) : p = [side |-> s, slot |-> slot, mon |-> o[s][slot]]
      BY <2>2 DEF Entries
    <3>1. PICK slot \in Moving(o, s) : p = [side |-> s, slot |-> slot, mon |-> o[s][slot]]
      BY <3>a
    <3> QED BY <2>5, <3>1 DEF Act, Moving
  <2>7. ASSUME NEW p \in switches'  PROVE Given(o, p) /\ p.mon \in Bench(p.side, side[p.side])
    <3>a. PICK s \in Sides : \E slot \in Up(side[s]) \ Moving(o, s) :
                                p = [side |-> s, slot |-> slot, mon |-> o[s][slot]]
      BY <2>2 DEF Entries
    <3>1. PICK slot \in Up(side[s]) \ Moving(o, s) : p = [side |-> s, slot |-> slot, mon |-> o[s][slot]]
      BY <3>a
    <3>2. o[s][slot] \in Bench(s, side[s])
      BY <2>3, <2>4, <3>1 DEF Act, Moving
    <3> QED BY <2>5, <3>1, <3>2
  <2>8. ASSUME NEW s \in Sides, NEW x \in Up(side[s])
        PROVE  \E p \in queue' \cup switches' : p.side = s /\ p.slot = x
    <3>p. PICK p : p = [side |-> s, slot |-> x, mon |-> o[s][x]]
      OBVIOUS
    <3>1. CASE x \in Moving(o, s)
      BY <2>2, <3>p, <3>1 DEF Entries
    <3>2. CASE x \in Up(side[s]) \ Moving(o, s)
      BY <2>2, <3>p, <3>2 DEF Entries
    <3> QED BY <3>1, <3>2
  <2> QED BY <2>3, <2>6, <2>7, <2>8 DEF Ordering
<1> QED BY <1>1, <1>2, <1>3, <1>4

-----------------------------------------------------------------------------
(* The steps, each by what it does.                                         *)

BeginIs ==
    /\ pc = "idle" /\ Sided(side') /\ \A s \in Sides : Refreshed(s, side[s], side'[s])
    /\ \A s \in Sides : NeedsReplacement(s) = {}
    /\ \E o : Ordering(o)
    /\ acted' = {} /\ pc' = (IF switches' = {} THEN "loop" ELSE "switching")
    /\ UNCHANGED <<drags, halved, todo, ended, turn>>
PhazeIs(e) ==
    /\ drags' \subseteq [side : {Foe(e.side)}, slot : Slots]
    /\ queue' = queue \ {e} /\ Acts(e) /\ UNCHANGED <<side, halved>>
ExitsIs ==
    /\ pc = "drags" /\ drags = {} /\ Sided(side')
    /\ \A s \in Sides : Ordered(s, side[s], side'[s])
    /\ pc' = Sync(side') /\ todo' = (IF pc' = "loop" THEN {} ELSE Sides)
    /\ halved' = {} /\ UNCHANGED <<queue, switches, drags, ended, turn, acted>>
AnswerIs ==
    /\ pc = "stop" /\ pc' = "sweep" /\ Sided(side')
    /\ \A s \in Sides : \E f : Told(s, side[s], side'[s], f)
    /\ UNCHANGED <<queue, switches, drags, halved, todo, ended, turn, acted>>
ResidualIs ==
    /\ pc = "residual" /\ Sided(side') /\ \A s \in Sides : Worn(s, side[s], side'[s])
    /\ ended' = Over(side')
    /\ pc' = "idle" /\ turn' = turn + 1 /\ queue' = {}
    /\ UNCHANGED <<switches, drags, halved, todo, acted>>
ReplaceIs ==
    /\ pc = "idle" /\ Sided(side')
    /\ \A s \in Sides : \E f, c : Filled(s, side[s], f, c, side'[s])
    /\ ended' = Over(side')
    /\ UNCHANGED <<pc, queue, switches, drags, halved, todo, turn, acted>>

LEMMA ActionDoes ==
    ASSUME TypeInv, RunAction
    PROVE  /\ pc = "loop" /\ ~Over(side)
           /\ \E e \in queue : \/ Skip(e) \/ AttackIs(e) \/ ReviveIs(e)
                               \/ ("phaze" \in Moves /\ PhazeIs(e))
                               \/ ("swap" \in Moves /\ AllySwitchIs(e))
<1>0. pc = "loop" /\ ~Over(side)
  BY DEF RunAction
<1>1. PICK e \in queue : \/ Skip(e)
                         \/ \E kind \in Moves \cap {"hit", "pivot"} : Attack(e, kind)
                         \/ "phaze" \in Moves /\ Phaze(e)
                         \/ "swap" \in Moves /\ AllySwitch(e)
                         \/ "revive" \in Moves /\ Revive(e)
  BY DEF RunAction
<1>2. CASE Skip(e)
  BY <1>0, <1>2
<1>3. CASE \E kind \in Moves \cap {"hit", "pivot"} : Attack(e, kind)
  BY <1>0, <1>3, AttackDoes
<1>4. CASE "phaze" \in Moves /\ Phaze(e)
  <2>1. PICK slot \in Up(side[Foe(e.side)]) :
          drags' = IF Bench(Foe(e.side), side[Foe(e.side)]) = {} THEN {}
                   ELSE {[side |-> Foe(e.side), slot |-> slot]}
    BY <1>4 DEF Phaze
  <2>2. slot \in Slots
    BY DEF Up
  <2>3. drags' \subseteq [side : {Foe(e.side)}, slot : Slots]
    BY <2>1, <2>2
  <2>4. queue' = queue \ {e} /\ Acts(e) /\ UNCHANGED <<side, halved>>
    BY <1>4 DEF Phaze
  <2> QED BY <1>0, <1>4, <2>3, <2>4 DEF PhazeIs
<1>5. CASE "swap" \in Moves /\ AllySwitch(e)
  BY <1>0, <1>5, AllySwitchDoes
<1>6. CASE Revive(e)
  BY <1>0, <1>6, ReviveDoes
<1> QED BY <1>1, <1>2, <1>3, <1>4, <1>5, <1>6

LEMMA Steps ==
    ASSUME TypeInv, Next
    PROVE  \/ BeginIs
           \/ pc = "switching" /\ \E w \in switches : LeaveIs(w)
           \/ pc = "loop" /\ ~Over(side) /\ \E e \in queue :
                 \/ Skip(e) \/ AttackIs(e) \/ ReviveIs(e)
                 \/ ("phaze" \in Moves /\ PhazeIs(e))
                 \/ ("swap" \in Moves /\ AllySwitchIs(e))
           \/ pc = "drags" /\ \E g \in drags : DragIs(g)
           \/ ExitsIs \/ AnswerIs
           \/ pc = "sweep" /\ \E s \in todo : SweepIs(s)
           \/ EndOfActions \/ ResidualIs \/ ReplaceIs
<1>1. CASE Begin
  BY <1>1, BeginDoes DEF BeginIs
<1>2. CASE PreTurnSwitch
  <2>1. pc = "switching"
    BY <1>2 DEF PreTurnSwitch
  <2> QED BY <1>2, <2>1, LeaveDoes
<1>3. CASE RunAction
  BY <1>3, ActionDoes
<1>4. CASE Drag
  BY <1>4, DragDoes
<1>5. CASE EmergencyExits
  BY <1>5, EmergencyExitsDoes DEF ExitsIs
<1>6. CASE Answer
  BY <1>6, AnswerDoes DEF AnswerIs
<1>7. CASE Sweep
  BY <1>7, SweepDoes
<1>8. CASE Residual
  BY <1>8, ResidualDoes DEF ResidualIs
<1>9. CASE Replace
  BY <1>9, ReplaceDoes DEF ReplaceIs
<1> QED BY <1>1, <1>2, <1>3, <1>4, <1>5, <1>6, <1>7, <1>8, <1>9 DEF Next, Step

-----------------------------------------------------------------------------
(* What every state is made of.                                             *)

LEMMA TypeInit ==
    ASSUME Init
    PROVE  TypeInv
<1>1. ASSUME NEW s \in Sides  PROVE side[s] \in SideState(s)
  <2>d. PICK d : d = side[s]
    OBVIOUS
  <2>1. d = [active |-> [slot \in Slots |-> slot], order |-> [m \in Mons(s) |-> m],
             fainted |-> {}, flag |-> [m \in Mons(s) |-> "none"],
             items |-> {m \in Mons(s) : <<s, m>> \in Button \cup Card},
             replaced |-> {}, chased |-> {},
             deferred |-> <<>>, used |-> {}, crossed |-> {}, revived |-> FALSE]
    BY <2>d DEF Init
  <2>2. Slots \subseteq Mons(s)
    BY Basics
  <2>3. /\ [slot \in Slots |-> slot] \in [Slots -> Mons(s)]
        /\ [m \in Mons(s) |-> m] \in [Mons(s) -> Mons(s)]
        /\ [m \in Mons(s) |-> "none"] \in [Mons(s) -> {"none", "self", "forced", "revive"}]
        /\ {m \in Mons(s) : <<s, m>> \in Button \cup Card} \in SUBSET Mons(s)
        /\ <<>> \in Seq([slot : Slots, mon : Mons(s)])
    BY <2>2
  <2> QED BY <2>d, <2>1, <2>3 DEF SideState
<1>2. DOMAIN side = Sides /\ side = [s \in Sides |-> side[s]]
  BY DEF Init
<1> QED BY <1>1, <1>2 DEF Init, TypeInv, Sided

LEMMA ActedStepTyped ==
    ASSUME TypeInv, NEW e \in queue,
           Skip(e) \/ AttackIs(e) \/ PhazeIs(e) \/ ReviveIs(e) \/ AllySwitchIs(e)
    PROVE  TypeInv'
<1>1. CASE Skip(e)
  BY <1>1 DEF TypeInv, Skip
<1>2. CASE AttackIs(e)
  <2>1. e.side \in Sides /\ e.slot \in Slots
    BY Entry DEF TypeInv
  <2> QED BY <1>2, <2>1 DEF TypeInv, AttackIs, Acts
<1>3. CASE PhazeIs(e)
  <2>1. Foe(e.side) \in Sides
    BY Entry, Basics DEF TypeInv
  <2> QED BY <1>3, <2>1 DEF TypeInv, PhazeIs, Acts
<1>4. CASE ReviveIs(e)
  BY <1>4 DEF TypeInv, ReviveIs, Acts
<1>5. CASE AllySwitchIs(e)
  <2>1. ASSUME NEW x \in queue, x.side = e.side  PROVE [x EXCEPT !.slot = 1 - @] \in Places
    <3>1. x \in Places
      BY DEF TypeInv
    <3>2. PICK s \in Sides : x \in [side : {s}, slot : Slots, mon : Mons(s)]
      BY <3>1 DEF Places
    <3>3. 1 - x.slot \in Slots
      BY <3>2 DEF Slots
    <3>4. [x EXCEPT !.slot = 1 - @] \in [side : {s}, slot : Slots, mon : Mons(s)]
      BY <3>2, <3>3
    <3> QED BY <3>4 DEF Places
  <2>2. queue' \subseteq Places
    BY <1>5, <2>1 DEF AllySwitchIs, TypeInv
  <2> QED BY <1>5, <2>2 DEF TypeInv, AllySwitchIs, Acts
<1> QED BY <1>1, <1>2, <1>3, <1>4, <1>5

LEMMA TypeStep ==
    ASSUME TypeInv, [Next]_turnloop
    PROVE  TypeInv'
<1>0. CASE UNCHANGED turnloop
  BY <1>0 DEF turnloop, TypeInv
<1>1. CASE BeginIs
  <2>1. PICK o : Ordering(o)
    BY <1>1 DEF BeginIs
  <2>2. queue' \subseteq Places /\ switches' \subseteq Places
    BY <2>1 DEF Ordering, Given
  <2> QED BY <1>1, <2>2 DEF BeginIs, TypeInv
<1>2. CASE \E w \in switches : LeaveIs(w)
  BY <1>2 DEF LeaveIs, TypeInv
<1>3. CASE \E e \in queue : Skip(e) \/ AttackIs(e) \/ PhazeIs(e) \/ ReviveIs(e) \/ AllySwitchIs(e)
  BY <1>3, ActedStepTyped
<1>4. CASE \E g \in drags : DragIs(g)
  BY <1>4 DEF DragIs, TypeInv
<1>5. CASE ExitsIs
  <2>1. Sync(side') \in {"loop", "sweep", "stop"}
    BY DEF Sync
  <2> QED BY <1>5, <2>1 DEF ExitsIs, TypeInv
<1>6. CASE AnswerIs
  BY <1>6 DEF AnswerIs, TypeInv
<1>7. CASE \E s \in todo : SweepIs(s)
  BY <1>7 DEF SweepIs, TypeInv
<1>8. CASE EndOfActions
  <2>1. Sync(side) \in {"loop", "sweep", "stop"}
    BY DEF Sync
  <2> QED BY <1>8, <2>1 DEF EndOfActions, TypeInv
<1>9. CASE ResidualIs
  <2>1. ended' \in BOOLEAN
    BY <1>9 DEF ResidualIs, Over
  <2> QED BY <1>9, <2>1 DEF ResidualIs, TypeInv
<1>10. CASE ReplaceIs
  <2>1. ended' \in BOOLEAN
    BY <1>10 DEF ReplaceIs, Over
  <2> QED BY <1>10, <2>1 DEF ReplaceIs, TypeInv
<1> QED BY <1>0, <1>1, <1>2, <1>3, <1>4, <1>5, <1>6, <1>7, <1>8, <1>9, <1>10, Steps

(* Every state of a turn is well formed: mons, slots and picks are those of *)
(* the teams (Battle and Side of battle.rs and side.rs).                    *)
THEOREM TypeCorrect == Spec => []TypeInv
<1>1. Init => TypeInv
  BY TypeInit
<1>2. TypeInv /\ [Next]_turnloop => TypeInv'
  BY TypeStep
<1> QED BY <1>1, <1>2, PTL DEF Spec

LEMMA OverIsOut == OverWhenOut <=> (pc = "idle" => (ended <=> Over(side)))
BY DEF OverWhenOut, Over, Out

(* Between turns the battle is over exactly when a whole team is down       *)
(* (battle.rs 3088-3093): every step that ends or goes on between turns     *)
(* judges the winner after its last faint.                                  *)
THEOREM OverWhenOutHolds == Spec => []OverWhenOut
<1>1. Init => OverWhenOut
  <2> SUFFICES ASSUME Init PROVE OverWhenOut
    OBVIOUS
  <2>1. \A s \in Sides : side[s].fainted = {} /\ Mons(s) # {}
    BY Basics DEF Init
  <2> QED BY <2>1 DEF OverWhenOut, Init
<1>2. TypeInv /\ OverWhenOut /\ [Next]_turnloop => OverWhenOut'
  <2> SUFFICES ASSUME TypeInv, OverWhenOut, [Next]_turnloop  PROVE OverWhenOut'
    OBVIOUS
  <2>0. CASE UNCHANGED turnloop
    BY <2>0 DEF turnloop, OverWhenOut
  <2>1. pc' # "idle" => OverWhenOut'
    BY DEF OverWhenOut
  <2>2. ended' = Over(side') => OverWhenOut'
    BY DEF OverWhenOut, Over, Out
  <2>3. CASE BeginIs
    BY <2>1, <2>3 DEF BeginIs
  <2>4. CASE pc = "switching" /\ \E w \in switches : LeaveIs(w)
    BY <2>1, <2>4 DEF LeaveIs
  <2>5. CASE pc = "loop" /\ \E e \in queue : Skip(e) \/ AttackIs(e) \/ PhazeIs(e) \/ ReviveIs(e) \/ AllySwitchIs(e)
    BY <2>1, <2>5 DEF Skip, AttackIs, PhazeIs, ReviveIs, AllySwitchIs, Acts
  <2>6. CASE pc = "drags" /\ \E g \in drags : DragIs(g)
    BY <2>1, <2>6 DEF DragIs
  <2>7. CASE ExitsIs
    BY <2>1, <2>7 DEF ExitsIs, Sync
  <2>8. CASE AnswerIs
    BY <2>1, <2>8 DEF AnswerIs
  <2>9. CASE pc = "sweep" /\ \E s \in todo : SweepIs(s)
    BY <2>1, <2>9 DEF SweepIs
  <2>10. CASE EndOfActions
    BY <2>1, <2>10 DEF EndOfActions, Sync
  <2>11. CASE ResidualIs
    BY <2>2, <2>11 DEF ResidualIs
  <2>12. CASE ReplaceIs
    BY <2>2, <2>12 DEF ReplaceIs
  <2> QED BY <2>0, <2>3, <2>4, <2>5, <2>6, <2>7, <2>8, <2>9, <2>10, <2>11, <2>12, Steps
<1> QED BY <1>1, <1>2, TypeCorrect, PTL DEF Spec

-----------------------------------------------------------------------------
(* Where the mons stand.                                                    *)

\* No side has two mons that a hit can make leave.
OneExitEach ==
    \A s \in Sides : \A m, n \in Mons(s) : {<<s, m>>, <<s, n>>} \subseteq Button \cup Exit => m = n

Quiet(d) == \A x \in Slots : FlagAt(d, x) = "none"

\* All the flags and all the halvings H of a side are of one mon.
SameMon(s, d, H) ==
    \E m \in Mons(s) : /\ \A x \in Slots : FlagAt(d, x) # "none" => Act(d)[x] = m
                       /\ \A h \in H : h.side = s => h.mon = m

\* The flags of a side, at p, with the sides T still to sweep.
FlagsAre(s, d, p, T, H) ==
    /\ p \in {"switching", "loop", "residual"} => Quiet(d)
    /\ p = "sweep" /\ s \notin T => Quiet(d)
    /\ p = "idle" => \A x \in Slots : FlagAt(d, x) \in {"none", "forced"}
    /\ p \in {"drags", "stop"} => \A x \in Slots : FlagAt(d, x) \in {"none", "revive"} \/ Bench(s, d) # {}
    /\ p \in {"drags", "stop", "sweep"} => SameMon(s, d, H)

\* Its picks: one at most, for a flagged slot, of somebody on the bench.
PicksAre(s, d, p, T) ==
    /\ p # "sweep" \/ s \notin T => Unused(d) = {}
    /\ \A i, j \in Unused(d) : i = j
    /\ \A i \in Unused(d) : /\ Def(d)[i].slot \in Slots /\ FlagAt(d, Def(d)[i].slot) # "none"
                            /\ FlagAt(d, Def(d)[i].slot) # "revive" => Def(d)[i].mon \in Bench(s, d)

SideInv(s, d, p, T, H) == Placed(s, d) /\ FlagsAre(s, d, p, T, H) /\ PicksAre(s, d, p, T)

SwitchInv ==
    /\ pc # "switching" => switches = {}
    /\ \A w \in switches : w.mon \in Bench(w.side, side[w.side])
    /\ \A w, v \in switches : w.side = v.side /\ w # v => w.slot # v.slot /\ w.mon # v.mon

StopInv ==
    /\ pc = "stop" => todo = Sides /\ ~Over(side) /\ \E s \in Sides : ~Quiet(side[s])
    /\ pc # "drags" => halved = {}
    /\ \A h \in halved : <<h.side, h.mon>> \in Exit

PlacesInv ==
    /\ \A s \in Sides : SideInv(s, side[s], pc, todo, halved)
    /\ SwitchInv /\ StopInv

\* A side nothing is asked of and nothing is left for is fine anywhere.
LEMMA Rests ==
    ASSUME NEW s \in Sides, NEW d, Placed(s, d), Quiet(d), Unused(d) = {}, NEW p, NEW T
    PROVE  SideInv(s, d, p, T, {})
<1>1. \E m : m \in Mons(s)
  BY Basics
<1>2. SameMon(s, d, {})
  BY <1>1 DEF SameMon, Quiet
<1>3. FlagsAre(s, d, p, T, {})
  BY <1>2 DEF FlagsAre, Quiet
<1>4. PicksAre(s, d, p, T)
  BY DEF PicksAre
<1> QED BY <1>3, <1>4 DEF SideInv

\* In the action loop and before it, every side is like that.
LEMMA AtRest ==
    ASSUME PlacesInv, pc \in {"switching", "loop", "residual"}, NEW s \in Sides
    PROVE  Placed(s, side[s]) /\ Quiet(side[s]) /\ Unused(side[s]) = {} /\ halved = {}
BY DEF PlacesInv, SideInv, FlagsAre, PicksAre, StopInv

LEMMA UnusedKept ==
    ASSUME NEW d, NEW e, Def(e) = Def(d), Usd(e) = Usd(d)
    PROVE  Unused(e) = Unused(d)
BY DEF Unused

LEMMA SameBench ==
    ASSUME NEW s, NEW d, NEW e, Act(e) = Act(d), Down(e) = Down(d)
    PROVE  Bench(s, e) = Bench(s, d)
BY DEF Bench, Act, Down

\* Whom a hit on the field knocks out was not on the bench.
LEMMA BenchStays ==
    ASSUME NEW s, NEW d, NEW e, Act(e) = Act(d), Down(d) \subseteq Down(e),
           Down(e) \subseteq Down(d) \cup {Act(d)[0], Act(d)[1]}
    PROVE  Bench(s, e) = Bench(s, d)
BY DEF Bench, Act, Down

LEMMA PlacesInit == ASSUME Init PROVE PlacesInv
<1>1. TypeInv
  BY TypeInit
<1>2. ASSUME NEW s \in Sides  PROVE SideInv(s, side[s], pc, todo, halved)
  <2>d. PICK d : d = side[s]
    OBVIOUS
  <2>1. Slots = {0, 1} /\ Slots \subseteq Mons(s)
    BY Basics DEF Slots
  <2>2. /\ Act(d) = [slot \in Slots |-> slot] /\ Ord(d) = [m \in Mons(s) |-> m]
        /\ Flg(d) = [m \in Mons(s) |-> "none"] /\ Def(d) = <<>>
    BY <2>d DEF Init, Act, Ord, Flg, Def
  <2>3. Placed(s, d)
    BY <2>1, <2>2 DEF Placed
  <2>4. Quiet(d)
    BY <2>1, <2>2 DEF Quiet, FlagAt
  <2>5. Unused(d) = {}
    BY <2>2 DEF Unused
  <2> QED BY <2>3, <2>4, <2>5, <2>d, Rests DEF Init
<1> QED BY <1>2 DEF Init, PlacesInv, SwitchInv, StopInv

LEMMA BeginSwitches ==
    ASSUME TypeInv, BeginIs
    PROVE  SwitchInv'
<1>1. PICK o : Ordering(o)
  BY DEF BeginIs
<1>2. \A w \in switches' : Given(o, w) /\ w.mon \in Bench(w.side, side[w.side])
  BY <1>1 DEF Ordering
<1>3. \A w \in switches' : w.side \in Sides /\ w.slot \in Slots
  BY <1>2 DEF Given, Places
<1>4. ASSUME NEW s \in Sides  PROVE Bench(s, side'[s]) = Bench(s, side[s])
  BY SameBench DEF BeginIs, Refreshed
<1>5. \A w \in switches' : w.mon \in Bench(w.side, side'[w.side])
  BY <1>2, <1>3, <1>4
<1>6. ASSUME NEW w \in switches', NEW v \in switches', w.side = v.side, w # v
      PROVE  w.slot # v.slot /\ w.mon # v.mon
  <2>1. w.slot # v.slot
    BY <1>2, <1>6 DEF Given
  <2>2. w.mon = o[w.side][w.slot] /\ v.mon = o[w.side][v.slot]
    BY <1>2, <1>6 DEF Given
  <2>3. o[w.side][0] # o[w.side][1]
    BY <1>1, <1>3 DEF Ordering
  <2> QED BY <1>3, <2>1, <2>2, <2>3 DEF Slots
<1>7. pc' # "switching" => switches' = {}
  BY DEF BeginIs
<1> QED BY <1>5, <1>6, <1>7 DEF SwitchInv

LEMMA LeaveSwitches ==
    ASSUME TypeInv, SwitchInv, pc = "switching", NEW w \in switches, LeaveIs(w)
    PROVE  SwitchInv'
<1>1. /\ w.side \in Sides /\ w.slot \in Slots /\ Foe(w.side) \in Sides /\ Sides = {w.side, Foe(w.side)}
  BY Entry, Basics DEF TypeInv
<1>d. PICK d : d = side[w.side]
  OBVIOUS
<1>e. PICK e : e = side'[w.side]
  OBVIOUS
<1>2. Left(w.side, d, e, w.slot, w.mon)
  BY <1>d, <1>e DEF LeaveIs, SwitchInv
<1>3. /\ Act(e)[w.slot] = w.mon /\ \A x \in Slots \ {w.slot} : Act(e)[x] = Act(d)[x]
      /\ Down(e) \subseteq Down(d) \cup {Act(d)[w.slot]}
  BY <1>2 DEF Left
<1>4. Bench(Foe(w.side), side'[Foe(w.side)]) = Bench(Foe(w.side), side[Foe(w.side)])
  BY SameBench DEF LeaveIs, Chased
<1>5. switches' = switches \ {w} /\ (switches' = {} => pc' = "drags") /\ (switches' # {} => pc' = "switching")
  BY DEF LeaveIs
<1>6. ASSUME NEW v \in switches'  PROVE v.mon \in Bench(v.side, side'[v.side])
  <2>1. v \in switches /\ v # w /\ v.side \in Sides /\ v.mon \in Bench(v.side, side[v.side])
    BY <1>5, Entry DEF SwitchInv, TypeInv
  <2>2. CASE v.side = w.side
    <3>1. v.mon # w.mon /\ v.mon \in Bench(w.side, d)
      BY <2>1, <2>2, <1>d DEF SwitchInv
    <3>2. v.mon \in Mons(w.side) /\ v.mon \notin Down(d) /\ v.mon # Act(d)[0] /\ v.mon # Act(d)[1]
      BY <3>1, Reads
    <3>3. v.mon \notin Down(e) /\ v.mon # Act(e)[0] /\ v.mon # Act(e)[1]
      BY <1>1, <1>3, <3>1, <3>2 DEF Slots
    <3>4. v.mon \in Bench(w.side, e)
      BY <3>2, <3>3, Reads
    <3> QED BY <2>2, <3>4, <1>e
  <2>3. CASE v.side = Foe(w.side)
    BY <1>4, <2>1, <2>3
  <2> QED BY <1>1, <2>1, <2>2, <2>3
<1> QED BY <1>5, <1>6 DEF SwitchInv

LEMMA BeginPlaces ==
    ASSUME TypeInv, PlacesInv, BeginIs
    PROVE  PlacesInv'
<1>1. pc = "idle" /\ halved = {} /\ halved' = {} /\ pc' \in {"loop", "switching"}
      /\ (switches' = {} => pc' = "loop") /\ (switches' # {} => pc' = "switching")
  BY DEF BeginIs, PlacesInv, StopInv
<1>2. ASSUME NEW s \in Sides
      PROVE  Placed(s, side'[s]) /\ Quiet(side'[s]) /\ Unused(side'[s]) = {}
  <2>d. PICK d : d = side[s]
    OBVIOUS
  <2>e. PICK e : e = side'[s]
    OBVIOUS
  <2>1. Refreshed(s, d, e) /\ Placed(s, d)
    BY <2>d, <2>e DEF BeginIs, PlacesInv, SideInv
  <2>2. /\ e \in SideState(s)
        /\ Act(e) = Act(d) /\ Ord(e) = Ord(d) /\ Down(e) = Down(d)
        /\ \A m \in Mons(s) : Flg(e)[m] = "none"
        /\ Def(e) = <<>>
    BY <2>1 DEF Refreshed
  <2>3. Placed(s, e)
    BY <2>1, <2>2 DEF Placed
  <2>4. Quiet(e)
    BY <2>2, FlagOf DEF Quiet, FlagAt
  <2>5. Unused(e) = {}
    BY <2>2 DEF Unused
  <2> QED BY <2>3, <2>4, <2>5, <2>d, <2>e
<1>3. \A s \in Sides : SideInv(s, side'[s], pc', todo', halved')
  BY <1>1, <1>2, Rests
<1>4. SwitchInv'
  BY BeginSwitches
<1>5. StopInv'
  BY <1>1 DEF StopInv
<1> QED BY <1>3, <1>4, <1>5 DEF PlacesInv

LEMMA LeavePlaces ==
    ASSUME TypeInv, PlacesInv, pc = "switching", NEW w \in switches, LeaveIs(w)
    PROVE  PlacesInv'
<1>1. /\ w.side \in Sides /\ w.slot \in Slots /\ w.mon \in Mons(w.side) /\ Foe(w.side) \in Sides
      /\ side[w.side] \in SideState(w.side) /\ Sides = {w.side, Foe(w.side)}
  BY Entry, Basics DEF TypeInv
<1>d. PICK d : d = side[w.side]
  OBVIOUS
<1>e. PICK e : e = side'[w.side]
  OBVIOUS
<1>f. PICK f : f = side[Foe(w.side)]
  OBVIOUS
<1>g. PICK g : g = side'[Foe(w.side)]
  OBVIOUS
<1>2. w.mon \in Bench(w.side, d)
  BY <1>d DEF PlacesInv, SwitchInv
<1>3. Left(w.side, d, e, w.slot, w.mon)
  BY <1>2, <1>d, <1>e DEF LeaveIs
<1>4. Chased(Foe(w.side), f, g, {x.slot : x \in Chasers(w)})
  BY <1>f, <1>g DEF LeaveIs
<1>5. /\ Placed(w.side, d) /\ Quiet(d) /\ Unused(d) = {} /\ halved = {}
      /\ Placed(Foe(w.side), f) /\ Quiet(f) /\ Unused(f) = {}
  BY <1>1, <1>d, <1>f, AtRest
<1>6. /\ e \in SideState(w.side)
      /\ Act(e)[w.slot] = w.mon /\ \A x \in Slots \ {w.slot} : Act(e)[x] = Act(d)[x]
      /\ Def(e) = Def(d) /\ Usd(e) = Usd(d)
      /\ Down(e) \subseteq Down(d) \cup {Act(d)[w.slot]}
      /\ Flg(e)[w.mon] = "none"
      /\ \A x \in Mons(w.side) : Flg(e)[x] \in {"none", Flg(d)[x]} \/ x = Act(d)[w.slot]
      /\ Placed(w.side, e)
  BY <1>3, <1>5 DEF Left
<1>7. Quiet(e)
  <2>1. \A x \in Slots : Act(d)[x] \in Mons(w.side)
    BY <1>1, <1>d, FlagOf
  <2>2. \A x \in Slots \ {w.slot} : Act(d)[x] # Act(d)[w.slot]
    BY <1>1, <1>5 DEF Placed, Slots
  <2> QED BY <1>5, <1>6, <2>1, <2>2 DEF Quiet, FlagAt
<1>8. Unused(e) = {} /\ Unused(g) = {}
  BY <1>4, <1>5, <1>6, UnusedKept DEF Chased
<1>9. Placed(Foe(w.side), g) /\ Quiet(g) /\ Bench(Foe(w.side), g) = Bench(Foe(w.side), f)
  <2>1. Act(g) = Act(f) /\ Ord(g) = Ord(f) /\ Flg(g) = Flg(f) /\ Down(g) = Down(f)
    BY <1>4 DEF Chased
  <2>2. Bench(Foe(w.side), g) = Bench(Foe(w.side), f)
    BY <2>1, SameBench
  <2> QED BY <1>5, <2>1, <2>2 DEF Placed, Quiet, FlagAt
<1>10. halved' = {} /\ switches' = switches \ {w}
       /\ (switches' = {} => pc' = "drags") /\ (switches' # {} => pc' = "switching")
  BY <1>5 DEF LeaveIs
<1>11. \A s \in Sides : SideInv(s, side'[s], pc', todo', halved')
  BY <1>1, <1>6, <1>7, <1>8, <1>9, <1>10, <1>e, <1>g, Rests
<1>12. SwitchInv'
  BY LeaveSwitches DEF PlacesInv
<1>13. StopInv'
  BY <1>10 DEF StopInv
<1> QED BY <1>11, <1>12, <1>13 DEF PlacesInv

\* The side of whoever moved.
LEMMA UserPlaces ==
    ASSUME NEW s \in Sides, NEW d \in SideState(s), NEW a, NEW mon \in Mons(s), UserIs(s, d, a, mon),
           Placed(s, d), Quiet(d), Unused(d) = {}, NEW T,
           NEW H, \A h \in H : h.side = s => h.mon = mon
    PROVE  SideInv(s, a, "drags", T, H)
<1>1. /\ a \in SideState(s) /\ Act(a) = Act(d) /\ Ord(a) = Ord(d) /\ Usd(a) = Usd(d) /\ Def(a) = Def(d)
      /\ Down(d) \subseteq Down(a) /\ Down(a) \subseteq Down(d) \cup {Act(d)[0], Act(d)[1]}
      /\ \A m \in Mons(s) : Flg(a)[m] # Flg(d)[m] => m = mon /\ Bench(s, d) # {}
  BY DEF UserIs, Stays
<1>2. Placed(s, a) /\ Unused(a) = {}
  BY <1>1, UnusedKept DEF Placed
<1>3. Bench(s, a) = Bench(s, d)
  BY <1>1, BenchStays
<1>4. \A x \in Slots : FlagAt(a, x) # "none" => Act(a)[x] = mon /\ Bench(s, a) # {}
  <2>1. \A x \in Slots : Act(d)[x] \in Mons(s)
    BY FlagOf
  <2> QED BY <1>1, <1>3, <2>1 DEF Quiet, FlagAt
<1>5. SameMon(s, a, H)
  BY <1>4 DEF SameMon
<1>6. FlagsAre(s, a, "drags", T, H)
  BY <1>4, <1>5 DEF FlagsAre
<1>7. PicksAre(s, a, "drags", T)
  BY <1>2 DEF PicksAre
<1> QED BY <1>2, <1>6, <1>7 DEF SideInv

\* The side that was hit.
LEMMA FoePlaces ==
    ASSUME OneExitEach, NEW s \in Sides, NEW d \in SideState(s), NEW a, FoeIs(s, d, a),
           Placed(s, d), Quiet(d), Unused(d) = {}, NEW T,
           NEW H, \A h \in H : h.side = s => h.mon \in Mons(s) /\ <<s, h.mon>> \in Exit
    PROVE  SideInv(s, a, "drags", T, H)
<1>1. /\ a \in SideState(s) /\ Act(a) = Act(d) /\ Ord(a) = Ord(d) /\ Usd(a) = Usd(d) /\ Def(a) = Def(d)
      /\ Down(d) \subseteq Down(a) /\ Down(a) \subseteq Down(d) \cup {Act(d)[0], Act(d)[1]}
      /\ \A m \in Mons(s) : Flg(a)[m] # Flg(d)[m] => <<s, m>> \in Button /\ Bench(s, d) # {}
  BY DEF FoeIs, Stays
<1>2. Placed(s, a) /\ Unused(a) = {}
  BY <1>1, UnusedKept DEF Placed
<1>3. Bench(s, a) = Bench(s, d)
  BY <1>1, BenchStays
<1>4. \A x \in Slots : /\ Act(a)[x] \in Mons(s)
                       /\ FlagAt(a, x) # "none" => <<s, Act(a)[x]>> \in Button /\ Bench(s, a) # {}
  <2>1. \A x \in Slots : Act(d)[x] \in Mons(s)
    BY FlagOf
  <2> QED BY <1>1, <1>3, <2>1 DEF Quiet, FlagAt
<1>5. SameMon(s, a, H)
  <2> DEFINE leaving(m) == m \in Mons(s) /\ <<s, m>> \in Button \cup Exit
  <2>1. \A m, n : leaving(m) /\ leaving(n) => m = n
    BY DEF OneExitEach
  <2>2. \A x \in Slots : FlagAt(a, x) # "none" => leaving(Act(a)[x])
    BY <1>4
  <2>3. \A h \in H : h.side = s => leaving(h.mon)
    OBVIOUS
  <2>4. PICK k : k \in Mons(s)
    BY Basics
  <2> HIDE DEF leaving
  <2>5. CASE \E m \in Mons(s) : leaving(m)
    BY <2>1, <2>2, <2>3, <2>5 DEF SameMon
  <2>6. CASE \A m \in Mons(s) : ~leaving(m)
    BY <1>4, <2>2, <2>3, <2>4, <2>6 DEF SameMon
  <2> QED BY <2>5, <2>6
<1>6. FlagsAre(s, a, "drags", T, H)
  BY <1>4, <1>5 DEF FlagsAre
<1>7. PicksAre(s, a, "drags", T)
  BY <1>2 DEF PicksAre
<1> QED BY <1>2, <1>6, <1>7 DEF SideInv

LEMMA AttackPlaces ==
    ASSUME OneExitEach, TypeInv, PlacesInv, pc = "loop", NEW e \in queue, AttackIs(e)
    PROVE  PlacesInv'
<1>1. /\ e.side \in Sides /\ Mon(e) \in Mons(e.side) /\ Foe(e.side) \in Sides
      /\ side[e.side] \in SideState(e.side) /\ side[Foe(e.side)] \in SideState(Foe(e.side))
      /\ Sides = {e.side, Foe(e.side)} /\ Foe(e.side) # e.side
  BY Entry, Basics DEF TypeInv
<1>2. /\ UserIs(e.side, side[e.side], side'[e.side], Mon(e))
      /\ FoeIs(Foe(e.side), side[Foe(e.side)], side'[Foe(e.side)])
      /\ halved' \subseteq Places
      /\ \A h \in halved' : <<h.side, h.mon>> \in Exit /\ (h.side = e.side => h.mon = Mon(e))
      /\ pc' = "drags" /\ switches' = switches
  BY DEF AttackIs, Acts
<1>3. \A s \in Sides : Placed(s, side[s]) /\ Quiet(side[s]) /\ Unused(side[s]) = {}
  BY AtRest
<1>4. SideInv(e.side, side'[e.side], pc', todo', halved')
  BY <1>1, <1>2, <1>3, UserPlaces
<1>5. SideInv(Foe(e.side), side'[Foe(e.side)], pc', todo', halved')
  <2>1. \A h \in halved' : h.side = Foe(e.side) => h.mon \in Mons(Foe(e.side)) /\ <<Foe(e.side), h.mon>> \in Exit
    BY <1>2 DEF Places
  <2> QED BY <1>1, <1>2, <1>3, <2>1, FoePlaces
<1>6. switches = {}
  BY DEF PlacesInv, SwitchInv
<1>7. \A s \in Sides : SideInv(s, side'[s], pc', todo', halved')
  BY <1>1, <1>4, <1>5
<1>8. SwitchInv' /\ StopInv'
  BY <1>2, <1>6 DEF SwitchInv, StopInv
<1> QED BY <1>7, <1>8 DEF PlacesInv

LEMMA RevivePlaces ==
    ASSUME TypeInv, PlacesInv, pc = "loop", NEW e \in queue, ReviveIs(e)
    PROVE  PlacesInv'
<1>1. /\ e.side \in Sides /\ Mon(e) \in Mons(e.side) /\ Foe(e.side) \in Sides
      /\ side[e.side] \in SideState(e.side)
      /\ Sides = {e.side, Foe(e.side)} /\ Foe(e.side) # e.side
  BY Entry, Basics DEF TypeInv
<1>2. /\ side'[Foe(e.side)] = side[Foe(e.side)]
      /\ pc' = "drags" /\ switches' = switches /\ halved' = halved
  BY DEF ReviveIs, Acts
<1>3. halved = {} /\ \A s \in Sides : Placed(s, side[s]) /\ Quiet(side[s]) /\ Unused(side[s]) = {}
  BY AtRest, <1>1
<1>4. SideInv(Foe(e.side), side'[Foe(e.side)], pc', todo', halved')
  BY <1>1, <1>2, <1>3, Rests
<1>5. SideInv(e.side, side'[e.side], pc', todo', halved')
  <2>d. PICK d : d = side[e.side]
    OBVIOUS
  <2>a. PICK a : a = side'[e.side]
    OBVIOUS
  <2>1. Prays(e.side, d, a, Mon(e))
    BY <2>a, <2>d DEF ReviveIs
  <2>2. /\ Act(a) = Act(d) /\ Ord(a) = Ord(d) /\ Usd(a) = Usd(d) /\ Def(a) = Def(d)
        /\ Flg(a)[Mon(e)] = "revive" /\ \A x \in Mons(e.side) \ {Mon(e)} : Flg(a)[x] = Flg(d)[x]
    BY <2>1 DEF Prays, Stays
  <2>3. Placed(e.side, a) /\ Unused(a) = {}
    BY <1>1, <1>3, <2>2, <2>d, UnusedKept DEF Placed
  <2>4. \A x \in Slots : FlagAt(a, x) = "none" \/ (FlagAt(a, x) = "revive" /\ Act(a)[x] = Mon(e))
    <3>1. \A x \in Slots : Act(d)[x] \in Mons(e.side) /\ FlagAt(d, x) = "none"
      BY <1>1, <1>3, <2>d, FlagOf DEF Quiet
    <3> QED BY <2>2, <3>1 DEF FlagAt
  <2>5. SameMon(e.side, a, {})
    BY <1>1, <2>4 DEF SameMon
  <2>6. FlagsAre(e.side, a, "drags", todo', {})
    BY <2>4, <2>5 DEF FlagsAre
  <2>7. PicksAre(e.side, a, "drags", todo')
    BY <2>3 DEF PicksAre
  <2> QED BY <1>2, <1>3, <2>3, <2>6, <2>7, <2>a DEF SideInv
<1>6. switches = {}
  BY DEF PlacesInv, SwitchInv
<1>7. \A s \in Sides : SideInv(s, side'[s], pc', todo', halved')
  BY <1>1, <1>4, <1>5
<1>8. SwitchInv' /\ StopInv'
  BY <1>2, <1>3, <1>6 DEF SwitchInv, StopInv
<1> QED BY <1>7, <1>8 DEF PlacesInv

\* Phazing moves nobody yet, and Ally Switch moves both.
LEMMA ShufflePlaces ==
    ASSUME TypeInv, PlacesInv, pc = "loop", NEW e \in queue, PhazeIs(e) \/ AllySwitchIs(e)
    PROVE  PlacesInv'
<1>1. /\ e.side \in Sides /\ side[e.side] \in SideState(e.side) /\ Sides = {e.side, Foe(e.side)}
  BY Entry, Basics DEF TypeInv
<1>2. pc' = "drags" /\ switches' = switches /\ halved' = halved
  BY DEF PhazeIs, AllySwitchIs, Acts
<1>3. halved = {} /\ \A s \in Sides : Placed(s, side[s]) /\ Quiet(side[s]) /\ Unused(side[s]) = {}
  BY AtRest, <1>1
<1>4. \A s \in Sides : Placed(s, side'[s]) /\ Quiet(side'[s]) /\ Unused(side'[s]) = {}
  <2>1. CASE PhazeIs(e)
    BY <1>3, <2>1 DEF PhazeIs
  <2>2. CASE AllySwitchIs(e)
    <3>1. Swapped(e.side, side[e.side], side'[e.side]) /\ side'[Foe(e.side)] = side[Foe(e.side)]
      BY <2>2 DEF AllySwitchIs
    <3>2. Placed(e.side, side'[e.side])
      BY <1>1, <1>3, <3>1 DEF Swapped
    <3>3. Quiet(side'[e.side])
      BY <1>1, <1>3, <3>1 DEF Swapped, Quiet, FlagAt
    <3>4. Unused(side'[e.side]) = {}
      BY <1>1, <1>3, <3>1, UnusedKept DEF Swapped
    <3> QED BY <1>1, <1>3, <3>1, <3>2, <3>3, <3>4
  <2> QED BY <2>1, <2>2
<1>5. \A s \in Sides : SideInv(s, side'[s], pc', todo', halved')
  BY <1>2, <1>3, <1>4, Rests
<1>6. switches = {}
  BY DEF PlacesInv, SwitchInv
<1>7. SwitchInv' /\ StopInv'
  BY <1>2, <1>3, <1>6 DEF SwitchInv, StopInv
<1> QED BY <1>5, <1>7 DEF PlacesInv

LEMMA DragPlaces ==
    ASSUME TypeInv, PlacesInv, pc = "drags", NEW g \in drags, DragIs(g)
    PROVE  PlacesInv'
<1>1. /\ g.side \in Sides /\ g.slot \in Slots /\ side[g.side] \in SideState(g.side)
      /\ Sides = {g.side, Foe(g.side)}
  BY Basics DEF TypeInv, Sided
<1>2. UNCHANGED <<pc, switches, halved, todo>>
  BY DEF DragIs
<1>3. switches = {}
  BY DEF PlacesInv, SwitchInv
<1>4. SwitchInv' /\ StopInv'
  BY <1>2, <1>3 DEF PlacesInv, SwitchInv, StopInv
<1>5. CASE side' = side
  BY <1>2, <1>4, <1>5 DEF PlacesInv
<1>6. CASE /\ side'[Foe(g.side)] = side[Foe(g.side)]
           /\ g.slot \in Up(side[g.side])
           /\ \E m : Dragged(g.side, side[g.side], side'[g.side], g.slot, m)
  <2>s. PICK s : s = g.side
    OBVIOUS
  <2>d. PICK d : d = side[s]
    OBVIOUS
  <2>e. PICK e : e = side'[s]
    OBVIOUS
  <2>x. PICK slot : slot = g.slot
    OBVIOUS
  <2>1. PICK m : Dragged(s, d, e, slot, m)
    BY <1>6, <2>s, <2>d, <2>e, <2>x
  <2>2. s \in Sides /\ slot \in Slots /\ d \in SideState(s) /\ slot \in Up(d)
    BY <1>1, <1>6, <2>s, <2>d, <2>x
  <2>3. SideInv(s, d, "drags", todo, halved)
    BY <2>2, <2>d DEF PlacesInv
  <2>4. Placed(s, d) /\ Unused(d) = {} /\ SameMon(s, d, halved)
        /\ \A x \in Slots : FlagAt(d, x) \in {"none", "revive"} \/ Bench(s, d) # {}
    BY <2>3 DEF SideInv, FlagsAre, PicksAre
  <2>5. /\ e \in SideState(s) /\ Placed(s, e) /\ m \in Bench(s, d)
        /\ Act(e)[slot] = m /\ \A x \in Slots \ {slot} : Act(e)[x] = Act(d)[x]
        /\ Flg(e)[m] = "none" /\ \A x \in Mons(s) \ {m} : Flg(e)[x] = Flg(d)[x]
        /\ Down(e) = Down(d) /\ Def(e) = Def(d) /\ Usd(e) = Usd(d)
    BY <2>1, <2>4 DEF Dragged
  <2>6. Unused(e) = {}
    BY <2>4, <2>5, UnusedKept
  <2>7. Act(d)[slot] \in Mons(s) /\ Act(d)[slot] \notin Down(d) /\ \A x \in Slots : Act(d)[x] \in Mons(s)
    BY <2>2, FlagOf, Reads
  <2>8. m # Act(d)[0] /\ m # Act(d)[1]
    BY <2>5, Reads
  <2>9. Bench(s, e) # {}
    <3>1. Act(d)[slot] # Act(e)[0] /\ Act(d)[slot] # Act(e)[1]
      BY <2>2, <2>4, <2>5, <2>8 DEF Placed, Slots
    <3>2. Act(d)[slot] \in Mons(s) \ (Down(e) \cup {Act(e)[0], Act(e)[1]})
      BY <2>5, <2>7, <3>1
    <3> QED BY <3>2, Reads
  <2>10. \A x \in Slots : FlagAt(e, x) # "none" => FlagAt(d, x) # "none" /\ Act(e)[x] = Act(d)[x]
    BY <2>2, <2>5, <2>7, <2>8 DEF FlagAt, Slots
  <2>11. SameMon(s, e, halved)
    BY <2>4, <2>10 DEF SameMon
  <2>12. FlagsAre(s, e, "drags", todo, halved)
    BY <2>9, <2>11 DEF FlagsAre
  <2>13. PicksAre(s, e, "drags", todo)
    BY <2>6 DEF PicksAre
  <2>14. SideInv(s, side'[s], pc', todo', halved')
    BY <1>2, <2>5, <2>12, <2>13, <2>e DEF SideInv
  <2>15. SideInv(Foe(s), side'[Foe(s)], pc', todo', halved')
    BY <1>1, <1>2, <1>6, <2>s DEF PlacesInv
  <2> QED BY <1>1, <1>4, <2>14, <2>15, <2>s DEF PlacesInv
<1> QED BY <1>5, <1>6 DEF DragIs

LEMMA PendingIs ==
    ASSUME NEW S
    PROVE  Pending(S) <=> \E s \in Sides : ~Quiet(S[s])
BY DEF Pending, Flagged, Quiet, FlagAt, Flg, Act

LEMMA ExitsPlaces ==
    ASSUME TypeInv, PlacesInv, ExitsIs
    PROVE  PlacesInv'
<1>1. /\ pc = "drags" /\ switches' = switches /\ halved' = {} /\ switches = {}
      /\ pc' = Sync(side') /\ todo' = (IF pc' = "loop" THEN {} ELSE Sides)
  BY DEF ExitsIs, PlacesInv, SwitchInv
<1>2. ASSUME NEW s \in Sides
      PROVE  /\ Placed(s, side'[s]) /\ Unused(side'[s]) = {} /\ SameMon(s, side'[s], {})
             /\ \A x \in Slots : FlagAt(side'[s], x) \in {"none", "revive"} \/ Bench(s, side'[s]) # {}
  <2>d. PICK d : d = side[s]
    OBVIOUS
  <2>e. PICK e : e = side'[s]
    OBVIOUS
  <2>1. d \in SideState(s) /\ SideInv(s, d, "drags", todo, halved)
    BY <1>1, <2>d DEF PlacesInv, TypeInv, Sided
  <2>2. Placed(s, d) /\ Unused(d) = {} /\ SameMon(s, d, halved)
        /\ \A x \in Slots : FlagAt(d, x) \in {"none", "revive"} \/ Bench(s, d) # {}
    BY <2>1 DEF SideInv, FlagsAre, PicksAre
  <2>3. Ordered(s, d, e)
    BY <2>d, <2>e DEF ExitsIs
  <2>4. /\ Act(e) = Act(d) /\ Ord(e) = Ord(d) /\ Usd(e) = Usd(d) /\ Def(e) = Def(d) /\ Down(e) = Down(d)
        /\ \A m \in Mons(s) : \/ Flg(e)[m] = Flg(d)[m]
                              \/ Bench(s, d) # {} /\ \E h \in halved : h.side = s /\ h.mon = m
    BY <2>3 DEF Ordered, Stays
  <2>5. Placed(s, e) /\ Unused(e) = {} /\ Bench(s, e) = Bench(s, d)
    BY <2>2, <2>4, UnusedKept, SameBench DEF Placed
  <2>6. \A x \in Slots : Act(d)[x] \in Mons(s)
    BY <2>1, FlagOf
  <2>7. \A x \in Slots : \/ FlagAt(e, x) = FlagAt(d, x)
                         \/ Bench(s, e) # {} /\ \E h \in halved : h.side = s /\ h.mon = Act(d)[x]
    BY <2>4, <2>5, <2>6 DEF FlagAt
  <2>8. SameMon(s, e, {})
    <3>1. PICK m \in Mons(s) : /\ \A x \in Slots : FlagAt(d, x) # "none" => Act(d)[x] = m
                               /\ \A h \in halved : h.side = s => h.mon = m
      BY <2>2 DEF SameMon
    <3>2. \A x \in Slots : FlagAt(e, x) # "none" => Act(e)[x] = m
      BY <2>4, <2>7, <3>1
    <3> QED BY <3>2 DEF SameMon
  <2>9. \A x \in Slots : FlagAt(e, x) \in {"none", "revive"} \/ Bench(s, e) # {}
    BY <2>2, <2>5, <2>7
  <2> QED BY <2>5, <2>8, <2>9, <2>e
<1>3. CASE ~Pending(side')
  <2>1. pc' = "loop"
    BY <1>1, <1>3 DEF Sync
  <2>2. \A s \in Sides : Quiet(side'[s])
    BY <1>3, PendingIs
  <2>3. \A s \in Sides : SideInv(s, side'[s], pc', todo', halved')
    BY <1>1, <1>2, <2>2, Rests
  <2>4. SwitchInv' /\ StopInv'
    BY <1>1, <2>1 DEF SwitchInv, StopInv
  <2> QED BY <2>3, <2>4 DEF PlacesInv
<1>4. CASE Pending(side')
  <2>1. pc' \in {"stop", "sweep"} /\ todo' = Sides /\ (pc' = "stop" => ~Over(side'))
    BY <1>1, <1>4 DEF Sync
  <2>2. ASSUME NEW s \in Sides  PROVE SideInv(s, side'[s], pc', todo', halved')
    <3>1. FlagsAre(s, side'[s], pc', todo', {})
      BY <1>2, <2>1 DEF FlagsAre
    <3>2. PicksAre(s, side'[s], pc', todo')
      BY <1>2 DEF PicksAre
    <3> QED BY <1>1, <1>2, <3>1, <3>2 DEF SideInv
  <2>3. SwitchInv' /\ StopInv'
    BY <1>1, <1>4, <2>1, PendingIs DEF SwitchInv, StopInv
  <2> QED BY <2>2, <2>3 DEF PlacesInv
<1> QED BY <1>3, <1>4

\* The loop ends with nothing asked.
LEMMA EndPlaces ==
    ASSUME TypeInv, PlacesInv, EndOfActions
    PROVE  PlacesInv' /\ pc' = "residual"
<1>1. pc = "loop" /\ UNCHANGED <<side, switches, halved>>
  BY DEF EndOfActions
<1>2. halved = {} /\ \A s \in Sides : Placed(s, side[s]) /\ Quiet(side[s]) /\ Unused(side[s]) = {}
  BY <1>1, AtRest DEF PlacesInv, StopInv
<1>3. ~Pending(side)
  BY <1>2, PendingIs
<1>4. pc' = "residual"
  BY <1>3 DEF EndOfActions
<1>5. \A s \in Sides : SideInv(s, side'[s], pc', todo', halved')
  BY <1>1, <1>2, Rests
<1>6. SwitchInv' /\ StopInv'
  BY <1>1, <1>2, <1>4 DEF PlacesInv, SwitchInv, StopInv
<1> QED BY <1>4, <1>5, <1>6 DEF PlacesInv

\* The answer of a side at a stop: one pick, for the mon that has to leave.
LEMMA ToldPlaces ==
    ASSUME TypeInv, NEW s \in Sides, SideInv(s, side[s], "stop", todo, {}), NEW e, NEW f,
           Told(s, side[s], e, f), NEW T, s \in T
    PROVE  SideInv(s, e, "sweep", T, {})
<1>d. PICK d : d = side[s]
  OBVIOUS
<1>1. /\ d \in SideState(s) /\ Placed(s, d) /\ Unused(d) = {} /\ SameMon(s, d, {})
  BY <1>d DEF TypeInv, Sided, SideInv, FlagsAre, PicksAre
<1>2. /\ e \in SideState(s) /\ Act(e) = Act(d) /\ Ord(e) = Ord(d) /\ Usd(e) = Usd(d) /\ Down(e) = Down(d)
      /\ Flg(e) = Flg(d) /\ Def(e) = Def(d) \o Listed(f) /\ f \in Answers(s, Asked(s))
  BY <1>d DEF Told, Stays
<1>3. Placed(s, e) /\ Bench(s, e) = Bench(s, d) /\ \A x : FlagAt(e, x) = FlagAt(d, x)
  BY <1>1, <1>2, SameBench DEF Placed, FlagAt
<1>4. \A x \in Asked(s) : x \in Slots /\ FlagAt(d, x) # "none"
  BY <1>d DEF Asked, Flagged, FlagAt, Flg, Act
<1>5. \A x, y \in Slots : FlagAt(d, x) # "none" /\ FlagAt(d, y) # "none" => x = y
  BY <1>1 DEF SameMon, Placed, Slots
<1>a. PICK A : A = Asked(s)
  OBVIOUS
<1>6. A \in SUBSET Slots
  BY <1>4, <1>a
<1>7. /\ DOMAIN f \subseteq A
      /\ \A x \in DOMAIN f : f[x] \in Mons(s)
      /\ (\A x \in A : FlagAt(d, x) # "revive") => \A x \in DOMAIN f : f[x] \in Reserve(s, d)
  BY <1>1, <1>2, <1>6, <1>a, <1>d, AnswersTyped DEF FlagAt
<1>l. PICK L : L = Listed(f)
  OBVIOUS
<1>8. /\ L \in Seq([slot : Slots, mon : Mons(s)]) /\ Len(L) <= 1
      /\ \A i \in DOMAIN L : L[i].slot \in DOMAIN f /\ L[i].mon = f[L[i].slot]
  <2>1. DOMAIN f \subseteq Slots /\ \A x, y \in DOMAIN f : x = y
    BY <1>4, <1>5, <1>7, <1>a
  <2> QED BY <1>7, <1>l, <2>1, ListedPicks
<1>p. PICK P : P = [slot : Slots, mon : Mons(s)]
  OBVIOUS
<1>q. PICK D : D = Def(d)
  OBVIOUS
<1>9. D \in Seq(P) /\ L \in Seq(P) /\ Def(e) = D \o L
  BY <1>1, <1>2, <1>8, <1>l, <1>p, <1>q, Fields
<1>10. ASSUME NEW i \in Unused(e)
       PROVE  /\ i = Len(D) + 1 /\ Def(e)[i].slot \in DOMAIN f
              /\ Def(e)[i].mon = f[Def(e)[i].slot]
  <2>1. i \in DOMAIN (D \o L) /\ i \in 1 .. Kept /\ i \notin Usd(d)
    BY <1>2, <1>9 DEF Unused
  <2>2. i \notin DOMAIN D
    BY <1>1, <1>q, <2>1 DEF Unused
  <2>3. i - Len(D) \in DOMAIN L /\ (D \o L)[i] = L[i - Len(D)]
    BY <1>9, <2>1, <2>2
  <2>4. i = Len(D) + 1
    BY <1>8, <1>9, <2>1, <2>3 DEF Kept
  <2> QED BY <1>8, <1>9, <2>3, <2>4
<1>11. PicksAre(s, e, "sweep", T)
  <2>1. ASSUME NEW i \in Unused(e)
        PROVE  /\ Def(e)[i].slot \in Slots /\ FlagAt(e, Def(e)[i].slot) # "none"
               /\ FlagAt(e, Def(e)[i].slot) # "revive" => Def(e)[i].mon \in Bench(s, e)
    <3>x. PICK x : x = Def(e)[i].slot
      OBVIOUS
    <3>1. x \in DOMAIN f /\ x \in A /\ x \in Slots /\ FlagAt(d, x) # "none" /\ Def(e)[i].mon = f[x]
      BY <1>4, <1>7, <1>10, <1>a, <3>x
    <3>2. ASSUME FlagAt(d, x) # "revive"  PROVE f[x] \in Bench(s, d)
      <4>1. \A y \in A : FlagAt(d, y) # "revive"
        BY <1>4, <1>5, <1>a, <3>1, <3>2
      <4>2. f[x] \in Reserve(s, d)
        BY <1>7, <3>1, <4>1
      <4> QED BY <1>1, <4>2, ReserveIsBench
    <3> QED BY <1>3, <3>1, <3>2, <3>x
  <2>2. \A i, j \in Unused(e) : i = j
    BY <1>10
  <2> QED BY <2>1, <2>2 DEF PicksAre
<1>12. FlagsAre(s, e, "sweep", T, {})
  <2>1. SameMon(s, e, {})
    BY <1>1, <1>2, <1>3 DEF SameMon
  <2> QED BY <2>1 DEF FlagsAre
<1> QED BY <1>3, <1>11, <1>12 DEF SideInv

LEMMA AnswerPlaces ==
    ASSUME TypeInv, PlacesInv, AnswerIs
    PROVE  PlacesInv'
<1>1. /\ pc = "stop" /\ pc' = "sweep" /\ switches = {} /\ switches' = switches
      /\ todo = Sides /\ todo' = todo /\ halved = {} /\ halved' = halved
  BY DEF AnswerIs, PlacesInv, SwitchInv, StopInv
<1>2. ASSUME NEW s \in Sides  PROVE SideInv(s, side'[s], pc', todo', halved')
  <2>1. PICK f : Told(s, side[s], side'[s], f)
    BY DEF AnswerIs
  <2>2. SideInv(s, side[s], "stop", todo, {})
    BY <1>1 DEF PlacesInv
  <2>3. SideInv(s, side'[s], "sweep", todo, {})
    BY <1>1, <2>1, <2>2, ToldPlaces
  <2> QED BY <1>1, <2>3
<1>3. SwitchInv' /\ StopInv'
  BY <1>1 DEF SwitchInv, StopInv
<1> QED BY <1>2, <1>3 DEF PlacesInv

LEMMA PicksUnused ==
    ASSUME NEW d, NEW slot, NEW i
    PROVE  i \in Picks(d, slot) <=> i \in Unused(d) /\ Def(d)[i].slot = slot
BY DEF Picks, Unused, Def, Usd

\* A slot that is swept: its flag goes, and its pick if it has one.
LEMMA SlotSwept ==
    ASSUME NEW s \in Sides, NEW d \in SideState(s), NEW slot \in Slots, NEW e, Swept(s, d, e, slot),
           e = SweepSlot(s, d, slot), Placed(s, d), PicksAre(s, d, "sweep", {s})
    PROVE  /\ Placed(s, e) /\ FlagAt(e, slot) = "none"
           /\ \A x \in Slots \ {slot} : FlagAt(d, x) = "none" => FlagAt(e, x) = "none"
           /\ Unused(e) \subseteq Unused(d)
           /\ FlagAt(d, slot) # "none" =>
                 \A i \in Unused(e) : Def(d)[i].slot # slot
           /\ FlagAt(d, slot) = "none" => e = d
<1>1. /\ e \in SideState(s) /\ Def(e) = Def(d) /\ Usd(d) \subseteq Usd(e)
      /\ \A x \in Slots \ {slot} : Act(e)[x] = Act(d)[x]
      /\ \A m \in Mons(s) : Flg(e)[m] = Flg(d)[m] \/ Flg(e)[m] = "none"
      /\ FlagAt(e, slot) = "none"
      /\ FlagAt(d, slot) = "none" => e = d
      /\ FlagAt(d, slot) # "none" /\ Picks(d, slot) # {} => Lowest(Picks(d, slot)) \in Usd(e)
  BY DEF Swept, FlagAt
<1>2. /\ \A i, j \in Unused(d) : i = j
      /\ \A i \in Unused(d) : FlagAt(d, Def(d)[i].slot) # "revive" => Def(d)[i].mon \in Bench(s, d)
  BY DEF PicksAre
<1>3. Placed(s, e)
  <2>1. \A i \in Picks(d, slot) : FlagAt(d, slot) # "revive" => d.deferred[i].mon \in Bench(s, d)
    BY <1>2, PicksUnused DEF Def
  <2>2. Flg(d)[Act(d)[slot]] \in {"self", "forced"} =>
               \A i \in Picks(d, slot) : d.deferred[i].mon \in Bench(s, d)
    BY <2>1 DEF FlagAt
  <2> QED BY <2>2, SweepSlotPlaces
<1>4. \A x \in Slots \ {slot} : FlagAt(d, x) = "none" => FlagAt(e, x) = "none"
  <2>1. \A x \in Slots : Act(d)[x] \in Mons(s)
    BY FlagOf
  <2> QED BY <1>1, <2>1 DEF FlagAt
<1>5. Unused(e) \subseteq Unused(d)
  BY <1>1 DEF Unused
<1>6. ASSUME FlagAt(d, slot) # "none", NEW i \in Unused(e)  PROVE Def(d)[i].slot # slot
  <2> SUFFICES ASSUME Def(d)[i].slot = slot PROVE FALSE
    OBVIOUS
  <2>1. i \in Picks(d, slot)
    BY <1>5, PicksUnused
  <2>2. Lowest(Picks(d, slot)) \in Picks(d, slot)
    BY <2>1, PicksTyped
  <2>3. Lowest(Picks(d, slot)) = i
    BY <1>2, <1>5, <2>2, PicksUnused
  <2> QED BY <1>1, <1>6, <2>1, <2>3 DEF Unused
<1> QED BY <1>1, <1>3, <1>4, <1>5, <1>6

LEMMA SweptRests ==
    ASSUME NEW s \in Sides, NEW d \in SideState(s), NEW T, NEW H, SideInv(s, d, "sweep", T, H),
           NEW c, NEW e, SweptBoth(s, d, c, e)
    PROVE  Placed(s, e) /\ Quiet(e) /\ Unused(e) = {}
<1>1. Placed(s, d) /\ PicksAre(s, d, "sweep", {s}) /\ SameMon(s, d, H)
  BY DEF SideInv, FlagsAre, PicksAre
<1>2. Swept(s, d, c, 0) /\ Swept(s, c, e, 1) /\ c = SweepSlot(s, d, 0) /\ e = SweepSlot(s, c, 1)
  BY DEF SweptBoth
<1>3. 0 \in Slots /\ 1 \in Slots /\ \A x \in Slots : x = 0 \/ x = 1
  BY DEF Slots
<1>4. /\ Placed(s, c) /\ FlagAt(c, 0) = "none" /\ Unused(c) \subseteq Unused(d)
      /\ FlagAt(d, 1) = "none" => FlagAt(c, 1) = "none"
      /\ FlagAt(d, 0) # "none" => \A i \in Unused(c) : Def(d)[i].slot # 0
      /\ FlagAt(d, 0) = "none" => c = d
  BY <1>1, <1>2, <1>3, SlotSwept
<1>5. \A i \in Unused(d) : Def(d)[i].slot \in Slots /\ FlagAt(d, Def(d)[i].slot) # "none"
  BY <1>1 DEF PicksAre
<1>6. CASE FlagAt(d, 0) = "none"
  <2>1. c = d
    BY <1>4, <1>6
  <2>2. /\ Placed(s, e) /\ FlagAt(e, 1) = "none" /\ Unused(e) \subseteq Unused(d)
        /\ FlagAt(d, 0) = "none" => FlagAt(e, 0) = "none"
        /\ FlagAt(d, 1) # "none" => \A i \in Unused(e) : Def(d)[i].slot # 1
    BY <1>1, <1>2, <1>3, <2>1, SlotSwept
  <2>3. Unused(e) = {}
    BY <1>3, <1>5, <1>6, <2>2
  <2> QED BY <1>3, <1>6, <2>2, <2>3 DEF Quiet
<1>7. CASE FlagAt(d, 0) # "none"
  <2>1. FlagAt(d, 1) = "none"
    BY <1>1, <1>3, <1>7 DEF SameMon, Placed
  <2>2. FlagAt(c, 1) = "none"
    BY <1>4, <2>1
  <2>3. e = c
    BY <1>2, <2>2 DEF Swept, FlagAt
  <2>4. Unused(c) = {}
    BY <1>3, <1>4, <1>5, <1>7, <2>1
  <2> QED BY <1>3, <1>4, <2>2, <2>3, <2>4 DEF Quiet
<1> QED BY <1>6, <1>7

LEMMA SweepPlaces ==
    ASSUME TypeInv, PlacesInv, pc = "sweep", NEW s \in todo, SweepIs(s)
    PROVE  PlacesInv'
<1>1. /\ s \in Sides /\ Sides = {s, Foe(s)} /\ Foe(s) # s /\ side[s] \in SideState(s)
  BY Basics DEF TypeInv, Sided
<1>2. /\ side'[Foe(s)] = side[Foe(s)] /\ todo' = todo \ {s} /\ pc' = (IF todo' = {} THEN "loop" ELSE pc)
      /\ switches' = switches /\ halved' = halved /\ switches = {} /\ halved = {}
  BY DEF SweepIs, PlacesInv, SwitchInv, StopInv
<1>3. Placed(s, side'[s]) /\ Quiet(side'[s]) /\ Unused(side'[s]) = {}
  <2>1. PICK c : SweptBoth(s, side[s], c, side'[s])
    BY DEF SweepIs
  <2>2. SideInv(s, side[s], "sweep", todo, halved)
    BY <1>1 DEF PlacesInv
  <2> QED BY <1>1, <2>1, <2>2, SweptRests
<1>4. SideInv(s, side'[s], pc', todo', halved')
  BY <1>1, <1>2, <1>3, Rests
<1>5. SideInv(Foe(s), side'[Foe(s)], pc', todo', halved')
  <2>1. SideInv(Foe(s), side[Foe(s)], "sweep", todo, {})
    BY <1>1, <1>2 DEF PlacesInv
  <2>2. CASE Foe(s) \in todo
    <3>1. Foe(s) \in todo' /\ pc' = "sweep"
      BY <1>1, <1>2, <2>2
    <3> QED BY <1>2, <2>1, <2>2, <3>1 DEF SideInv, FlagsAre, PicksAre
  <2>3. CASE Foe(s) \notin todo
    <3>1. Placed(Foe(s), side[Foe(s)]) /\ Quiet(side[Foe(s)]) /\ Unused(side[Foe(s)]) = {}
      BY <2>1, <2>3 DEF SideInv, FlagsAre, PicksAre
    <3> QED BY <1>1, <1>2, <3>1, Rests
  <2> QED BY <2>2, <2>3
<1>6. SwitchInv' /\ StopInv'
  BY <1>2 DEF SwitchInv, StopInv
<1> QED BY <1>1, <1>4, <1>5, <1>6 DEF PlacesInv

LEMMA ResidualPlaces ==
    ASSUME TypeInv, PlacesInv, ResidualIs
    PROVE  PlacesInv'
<1>1. /\ pc = "residual" /\ pc' = "idle" /\ switches' = switches /\ halved' = halved /\ switches = {}
  BY DEF ResidualIs, PlacesInv, SwitchInv
<1>2. halved = {} /\ \A s \in Sides : Placed(s, side[s]) /\ Quiet(side[s]) /\ Unused(side[s]) = {}
  BY <1>1, AtRest DEF PlacesInv, StopInv
<1>3. ASSUME NEW s \in Sides  PROVE SideInv(s, side'[s], pc', todo', halved')
  <2>d. PICK d : d = side[s]
    OBVIOUS
  <2>e. PICK e : e = side'[s]
    OBVIOUS
  <2>1. Worn(s, d, e) /\ d \in SideState(s)
    BY <2>d, <2>e DEF ResidualIs, TypeInv, Sided
  <2>2. /\ Act(e) = Act(d) /\ Ord(e) = Ord(d) /\ Usd(e) = Usd(d) /\ Def(e) = Def(d)
        /\ \A m \in Mons(s) : Flg(e)[m] = Flg(d)[m] \/ Flg(e)[m] = "forced"
    BY <2>1 DEF Worn, Stays
  <2>3. Placed(s, e) /\ Unused(e) = {}
    BY <1>2, <2>2, <2>d, UnusedKept DEF Placed
  <2>4. \A x \in Slots : FlagAt(e, x) \in {"none", "forced"}
    <3>1. \A x \in Slots : Act(d)[x] \in Mons(s) /\ FlagAt(d, x) = "none"
      BY <1>2, <2>1, <2>d, FlagOf DEF Quiet
    <3> QED BY <2>2, <3>1 DEF FlagAt
  <2> QED BY <1>1, <2>3, <2>4, <2>e DEF SideInv, FlagsAre, PicksAre
<1>4. SwitchInv' /\ StopInv'
  BY <1>1, <1>2 DEF SwitchInv, StopInv
<1> QED BY <1>3, <1>4 DEF PlacesInv

LEMMA ReplacePlaces ==
    ASSUME TypeInv, PlacesInv, ReplaceIs
    PROVE  PlacesInv'
<1>1. /\ pc = "idle" /\ pc' = "idle" /\ switches' = switches /\ halved' = halved /\ switches = {}
      /\ halved = {}
  BY DEF ReplaceIs, PlacesInv, SwitchInv, StopInv
<1>2. ASSUME NEW s \in Sides  PROVE SideInv(s, side'[s], pc', todo', halved')
  <2>d. PICK d : d = side[s]
    OBVIOUS
  <2>e. PICK e : e = side'[s]
    OBVIOUS
  <2>1. PICK f, c : Filled(s, d, f, c, e)
    BY <2>d, <2>e DEF ReplaceIs
  <2>2. d \in SideState(s) /\ Placed(s, d) /\ Unused(d) = {}
        /\ \A x \in Slots : FlagAt(d, x) \in {"none", "forced"}
    BY <1>1, <2>d DEF TypeInv, Sided, PlacesInv, SideInv, FlagsAre, PicksAre
  <2>3. /\ Reseated(s, d, c) /\ c = Refill(s, d, f) /\ f \in Answers(s, NeedsReplacement(s))
        /\ e \in SideState(s) /\ Act(e) = Act(c) /\ Ord(e) = Ord(c) /\ Usd(e) = Usd(c)
        /\ Def(e) = Def(c) /\ \A m \in Mons(s) : Flg(e)[m] = Flg(c)[m]
    BY <2>1 DEF Filled, Stays
  <2>4. c \in SideState(s) /\ Def(c) = Def(d) /\ Usd(c) = Usd(d)
        /\ \A x \in Slots : FlagAt(c, x) \in {"none", FlagAt(d, x)}
    BY <2>3 DEF Reseated
  <2>n. PICK N : N = NeedsReplacement(s)
    OBVIOUS
  <2>5. N \in SUBSET Slots
    BY <2>n DEF NeedsReplacement
  <2>6. /\ \A x \in DOMAIN f : f[x] \in Mons(s)
        /\ \A x \in DOMAIN f : f[x] \in Reserve(s, d)
        /\ \A x, y \in DOMAIN f : f[x] = f[y] => x = y
    <3>1. \A x \in N : Flg(d)[Act(d)[x]] # "revive"
      BY <2>2, <2>5 DEF FlagAt
    <3> QED BY <2>2, <2>3, <2>5, <2>d, <2>n, <3>1, AnswersTyped
  <2>7. \A x \in DOMAIN f : f[x] \in Bench(s, d)
    BY <2>2, <2>6, ReserveIsBench
  <2>8. Placed(s, c)
    BY <2>2, <2>3, <2>6, <2>7, RefillDoes
  <2>9. Placed(s, e) /\ Unused(e) = {}
    BY <2>2, <2>3, <2>4, <2>8, UnusedKept DEF Placed
  <2>10. \A x \in Slots : FlagAt(e, x) \in {"none", "forced"}
    <3>1. \A x \in Slots : Act(c)[x] \in Mons(s)
      BY <2>4, FlagOf
    <3> QED BY <2>2, <2>3, <2>4, <3>1 DEF FlagAt
  <2> QED BY <1>1, <2>9, <2>10, <2>e DEF SideInv, FlagsAre, PicksAre
<1>3. SwitchInv' /\ StopInv'
  BY <1>1 DEF SwitchInv, StopInv
<1> QED BY <1>2, <1>3 DEF PlacesInv

LEMMA PlacesStep ==
    ASSUME OneExitEach, TypeInv, PlacesInv, [Next]_turnloop
    PROVE  PlacesInv'
<1>1. CASE UNCHANGED turnloop
  BY <1>1 DEF turnloop, PlacesInv, SwitchInv, StopInv
<1>2. CASE Next
  <2>1. CASE BeginIs
    BY <2>1, BeginPlaces
  <2>2. CASE pc = "switching" /\ \E w \in switches : LeaveIs(w)
    BY <2>2, LeavePlaces
  <2>3. ASSUME pc = "loop", NEW e \in queue,
               Skip(e) \/ AttackIs(e) \/ PhazeIs(e) \/ ReviveIs(e) \/ AllySwitchIs(e)
        PROVE  PlacesInv'
    <3>1. CASE Skip(e)
      BY <3>1 DEF Skip, PlacesInv, SwitchInv, StopInv
    <3>2. CASE AttackIs(e)
      BY <2>3, <3>2, AttackPlaces
    <3>3. CASE ReviveIs(e)
      BY <2>3, <3>3, RevivePlaces
    <3>4. CASE PhazeIs(e) \/ AllySwitchIs(e)
      BY <2>3, <3>4, ShufflePlaces
    <3> QED BY <2>3, <3>1, <3>2, <3>3, <3>4
  <2>4. CASE pc = "drags" /\ \E g \in drags : DragIs(g)
    BY <2>4, DragPlaces
  <2>5. CASE ExitsIs
    BY <2>5, ExitsPlaces
  <2>6. CASE AnswerIs
    BY <2>6, AnswerPlaces
  <2>7. CASE pc = "sweep" /\ \E s \in todo : SweepIs(s)
    BY <2>7, SweepPlaces
  <2>8. CASE EndOfActions
    BY <2>8, EndPlaces
  <2>9. CASE ResidualIs
    BY <2>9, ResidualPlaces
  <2>10. CASE ReplaceIs
    BY <2>10, ReplacePlaces
  <2> QED BY <1>2, <2>1, <2>2, <2>3, <2>4, <2>5, <2>6, <2>7, <2>8, <2>9, <2>10, Steps
<1> QED BY <1>1, <1>2

(* The invariant the next two theorems rest on, for every team size.        *)
THEOREM PlacesInvariant ==
    ASSUME OneExitEach
    PROVE  Spec => []PlacesInv
<1>1. Init => PlacesInv
  BY PlacesInit
<1>2. TypeInv /\ PlacesInv /\ [Next]_turnloop => PlacesInv'
  BY PlacesStep
<1> QED BY <1>1, <1>2, TypeCorrect, PTL DEF Spec

(* However switches, drags, pivots and replacements interleave, a side has  *)
(* two mons in its two slots and ps_order has them first (side.rs 37-39),   *)
(* when no side has two mons that a hit can make leave.                     *)
THEOREM PositionsHold ==
    ASSUME OneExitEach
    PROVE  Spec => []Positions
<1>1. PlacesInv => Positions
  BY DEF PlacesInv, SideInv, Placed, Positions, Act, Ord
<1> QED BY <1>1, PlacesInvariant, PTL

(* A mid-turn stop asks somebody, of a battle that is not over, and no      *)
(* residual starts over a switch still owed: a flag is only raised for a    *)
(* mon somebody can come in for, and stays answerable until its stop.       *)
THEOREM StopsAskSomeoneHolds ==
    ASSUME OneExitEach
    PROVE  Spec => []StopsAskSomeone
<1>1. PlacesInv => StopsAskSomeone
  <2> SUFFICES ASSUME PlacesInv PROVE StopsAskSomeone
    OBVIOUS
  <2>1. ASSUME pc = "stop"  PROVE ~Over(side) /\ \E s \in Sides : Asked(s) # {}
    <3>1. PICK s \in Sides : ~Quiet(side[s])
      BY <2>1 DEF PlacesInv, StopInv
    <3>2. PICK x \in Slots : FlagAt(side[s], x) # "none"
      BY <3>1 DEF Quiet
    <3>3. FlagAt(side[s], x) = "revive" \/ Bench(s, side[s]) # {}
      BY <2>1, <3>2 DEF PlacesInv, SideInv, FlagsAre
    <3>4. x \in Asked(s)
      BY <3>2, <3>3 DEF Asked, Flagged, FlagAt, Flg, Act
    <3> QED BY <2>1, <3>4 DEF PlacesInv, StopInv
  <2>2. pc = "residual" => ~Pending(side)
    BY PendingIs DEF PlacesInv, SideInv, FlagsAre
  <2> QED BY <2>1, <2>2 DEF StopsAskSomeone
<1> QED BY <1>1, PlacesInvariant, PTL

-----------------------------------------------------------------------------
(* Whom a sweep sends in.                                                   *)

NoForce(s, d) == \A m \in Mons(s) : Flg(d)[m] # "forced"
\* With no Eject Button and no Emergency Exit, nobody is forced out in a turn.
FreeInv == halved = {} /\ (pc # "idle" => \A s \in Sides : NoForce(s, side[s]))

LEMMA FreeActionStep ==
    ASSUME Button = {}, Exit = {}, TypeInv, FreeInv, pc = "loop", NEW e \in queue,
           Skip(e) \/ AttackIs(e) \/ PhazeIs(e) \/ ReviveIs(e) \/ AllySwitchIs(e)
    PROVE  FreeInv'
<1>1. /\ halved = {} /\ NoForce(e.side, side[e.side]) /\ NoForce(Foe(e.side), side[Foe(e.side)])
      /\ e.side \in Sides /\ Foe(e.side) \in Sides /\ Sides = {e.side, Foe(e.side)}
  BY Entry, Basics DEF FreeInv, TypeInv
<1>2. CASE Skip(e) \/ PhazeIs(e)
  BY <1>1, <1>2 DEF Skip, PhazeIs, Acts, FreeInv
<1>3. CASE AttackIs(e)
  <2>1. halved' = {}
    BY <1>3 DEF AttackIs
  <2>2. /\ UserIs(e.side, side[e.side], side'[e.side], Mon(e))
        /\ FoeIs(Foe(e.side), side[Foe(e.side)], side'[Foe(e.side)])
    BY <1>3 DEF AttackIs
  <2>3. NoForce(e.side, side'[e.side])
    BY <1>1, <2>2 DEF UserIs, NoForce
  <2>4. NoForce(Foe(e.side), side'[Foe(e.side)])
    BY <1>1, <2>2 DEF FoeIs, NoForce
  <2> QED BY <1>1, <2>1, <2>3, <2>4 DEF FreeInv
<1>4. CASE ReviveIs(e)
  <2>1. Prays(e.side, side[e.side], side'[e.side], Mon(e))
    BY <1>4 DEF ReviveIs
  <2>2. NoForce(e.side, side'[e.side])
    BY <1>1, <2>1 DEF Prays, NoForce
  <2> QED BY <1>1, <1>4, <2>2 DEF ReviveIs, FreeInv
<1>5. CASE AllySwitchIs(e)
  <2>1. Swapped(e.side, side[e.side], side'[e.side])
    BY <1>5 DEF AllySwitchIs
  <2>2. NoForce(e.side, side'[e.side])
    BY <1>1, <2>1 DEF Swapped, NoForce
  <2> QED BY <1>1, <1>5, <2>2 DEF AllySwitchIs, FreeInv
<1> QED BY <1>2, <1>3, <1>4, <1>5

LEMMA FreeStep ==
    ASSUME Button = {}, Exit = {}, TypeInv, PlacesInv, FreeInv, [Next]_turnloop
    PROVE  FreeInv'
<1>1. CASE UNCHANGED turnloop
  BY <1>1 DEF turnloop, FreeInv
<1>2. CASE BeginIs
  BY <1>2 DEF BeginIs, Refreshed, FreeInv, NoForce
<1>3. ASSUME pc = "switching", NEW w \in switches, LeaveIs(w)  PROVE FreeInv'
  <2>1. w.side \in Sides /\ Sides = {w.side, Foe(w.side)}
    BY Entry, Basics DEF TypeInv
  <2>2. w.mon \in Bench(w.side, side[w.side])
    BY DEF PlacesInv, SwitchInv
  <2>3. Left(w.side, side[w.side], side'[w.side], w.slot, w.mon)
    BY <1>3, <2>2 DEF LeaveIs
  <2>4. NoForce(w.side, side[w.side]) /\ NoForce(Foe(w.side), side[Foe(w.side)])
    BY <1>3, <2>1 DEF FreeInv
  <2>5. NoForce(w.side, side'[w.side])
    BY <2>3, <2>4 DEF Left, NoForce
  <2>6. NoForce(Foe(w.side), side'[Foe(w.side)])
    BY <1>3, <2>4 DEF LeaveIs, Chased, NoForce
  <2> QED BY <1>3, <2>1, <2>5, <2>6 DEF LeaveIs, FreeInv
<1>4. ASSUME pc = "loop", NEW e \in queue,
             Skip(e) \/ AttackIs(e) \/ PhazeIs(e) \/ ReviveIs(e) \/ AllySwitchIs(e)
      PROVE  FreeInv'
  BY <1>4, FreeActionStep
<1>5. ASSUME pc = "drags", NEW g \in drags, DragIs(g)  PROVE FreeInv'
  <2>1. g.side \in Sides /\ Sides = {g.side, Foe(g.side)} /\ NoForce(g.side, side[g.side])
    BY <1>5, Basics DEF TypeInv, FreeInv
  <2>2. ASSUME NEW m, Dragged(g.side, side[g.side], side'[g.side], g.slot, m)
        PROVE  NoForce(g.side, side'[g.side])
    BY <2>1, <2>2 DEF Dragged, NoForce
  <2> QED BY <1>5, <2>1, <2>2 DEF DragIs, FreeInv
<1>6. CASE ExitsIs
  <2>1. ASSUME NEW s \in Sides  PROVE NoForce(s, side'[s])
    <3>1. NoForce(s, side[s]) /\ halved = {} /\ Ordered(s, side[s], side'[s])
      BY <1>6 DEF ExitsIs, FreeInv
    <3> QED BY <3>1 DEF Ordered, NoForce
  <2> QED BY <1>6, <2>1 DEF ExitsIs, FreeInv
<1>7. CASE AnswerIs
  <2>1. ASSUME NEW s \in Sides  PROVE NoForce(s, side'[s])
    <3>1. PICK f : Told(s, side[s], side'[s], f)
      BY <1>7 DEF AnswerIs
    <3>2. NoForce(s, side[s])
      BY <1>7 DEF AnswerIs, FreeInv
    <3> QED BY <3>1, <3>2 DEF Told, NoForce
  <2> QED BY <1>7, <2>1 DEF AnswerIs, FreeInv
<1>8. ASSUME pc = "sweep", NEW s \in todo, SweepIs(s)  PROVE FreeInv'
  <2>1. s \in Sides /\ Sides = {s, Foe(s)} /\ NoForce(s, side[s])
    BY <1>8, Basics DEF TypeInv, FreeInv
  <2>2. PICK c : SweptBoth(s, side[s], c, side'[s])
    BY <1>8 DEF SweepIs
  <2>3. NoForce(s, c)
    BY <2>1, <2>2 DEF SweptBoth, Swept, NoForce
  <2>4. NoForce(s, side'[s])
    BY <2>2, <2>3 DEF SweptBoth, Swept, NoForce
  <2> QED BY <1>8, <2>1, <2>4 DEF SweepIs, FreeInv
<1>9. CASE EndOfActions
  BY <1>9 DEF EndOfActions, FreeInv
<1>10. CASE ResidualIs \/ ReplaceIs
  BY <1>10 DEF ResidualIs, ReplaceIs, FreeInv
<1> QED BY <1>1, <1>2, <1>3, <1>4, <1>5, <1>6, <1>7, <1>8, <1>9, <1>10, Steps

\* A change of a slot in its sweep is its pick.
LEMMA SweptPick ==
    ASSUME NEW s \in Sides, NEW d \in SideState(s), NEW slot \in Slots, NEW e, Swept(s, d, e, slot),
           NoForce(s, d), Act(e)[slot] # Act(d)[slot]
    PROVE  \E i \in Usd(e) \ Usd(d) : Def(d)[i] = [slot |-> slot, mon |-> Act(e)[slot]]
<1>1. Flg(d)[Act(d)[slot]] # "forced"
  BY FlagOf DEF NoForce
<1>2. PICK i \in Picks(d, slot) : i \in Usd(e) /\ d.deferred[i].mon = Act(e)[slot]
  BY <1>1 DEF Swept
<1>3. i \in DOMAIN Def(d) /\ i \notin Usd(d) /\ Def(d)[i].slot = slot
  BY DEF Picks, Def, Usd
<1>p. PICK P : P = [slot : Slots, mon : Mons(s)]
  OBVIOUS
<1>4. Def(d) \in Seq(P)
  BY <1>p, Fields
<1>5. Def(d)[i] \in P
  BY <1>3, <1>4
<1>6. Def(d)[i] = [slot |-> Def(d)[i].slot, mon |-> Def(d)[i].mon]
  BY <1>5, <1>p
<1>7. Def(d)[i].mon = Act(e)[slot]
  BY <1>2 DEF Def
<1> QED BY <1>2, <1>3, <1>6, <1>7

\* What SweepTakesPicks says of a side.
TakesPicks(d, e) ==
    \A slot \in Slots : Act(e)[slot] # Act(d)[slot] =>
        \E i \in Usd(e) \ Usd(d) : Def(d)[i] = [slot |-> slot, mon |-> Act(e)[slot]]

LEMMA SweptBothTakesPicks ==
    ASSUME NEW s \in Sides, NEW d \in SideState(s), NEW c, NEW e, SweptBoth(s, d, c, e), NoForce(s, d)
    PROVE  TakesPicks(d, e)
<1>1. 0 \in Slots /\ 1 \in Slots /\ \A x \in Slots : x = 0 \/ x = 1
  BY DEF Slots
<1>2. /\ Swept(s, d, c, 0) /\ Swept(s, c, e, 1)
      /\ c \in SideState(s) /\ Def(c) = Def(d) /\ Usd(d) \subseteq Usd(c) /\ Usd(c) \subseteq Usd(e)
      /\ Act(c)[1] = Act(d)[1] /\ Act(e)[0] = Act(c)[0]
      /\ \A m \in Mons(s) : Flg(c)[m] = Flg(d)[m] \/ Flg(c)[m] = "none"
  BY <1>1 DEF SweptBoth, Swept
<1>3. NoForce(s, c)
  BY <1>2 DEF NoForce
<1>4. Act(e)[0] # Act(d)[0] =>
          \E i \in Usd(e) \ Usd(d) : Def(d)[i] = [slot |-> 0, mon |-> Act(e)[0]]
  BY <1>1, <1>2, SweptPick
<1>5. Act(e)[1] # Act(d)[1] =>
          \E i \in Usd(e) \ Usd(d) : Def(d)[i] = [slot |-> 1, mon |-> Act(e)[1]]
  BY <1>1, <1>2, <1>3, SweptPick
<1> QED BY <1>1, <1>4, <1>5 DEF TakesPicks

(* In a sweep of self switches only the slots asked at the stop change,     *)
(* each to the pick of its own side (apply_self_switches, battle.rs): with  *)
(* nobody to force a mon out, no slot is ever filled on its own.            *)
THEOREM SweepTakesPicksHolds ==
    ASSUME Button = {}, Exit = {}
    PROVE  Spec => SweepTakesPicks
<1>0. OneExitEach
  BY DEF OneExitEach
<1>1. Init => FreeInv
  BY DEF Init, FreeInv
<1>2. TypeInv /\ PlacesInv /\ FreeInv /\ [Next]_turnloop => FreeInv'
  BY FreeStep
<1>3. TypeInv /\ FreeInv /\ [Next]_turnloop =>
         [pc = "sweep" =>
             \A s \in Sides : \A slot \in Slots :
                 LET d == side[s]
                     e == side'[s]
                 IN  e.active[slot] # d.active[slot] =>
                         \E i \in e.used \ d.used : d.deferred[i] = [slot |-> slot, mon |-> e.active[slot]]]_turnloop
  <2> SUFFICES ASSUME TypeInv, FreeInv, Next, pc = "sweep", NEW s \in Sides
               PROVE  TakesPicks(side[s], side'[s])
    BY DEF TakesPicks, Act, Usd, Def
  <2>1. PICK q \in todo : SweepIs(q)
    BY Steps DEF BeginIs, ExitsIs, AnswerIs, EndOfActions, ResidualIs, ReplaceIs
  <2>2. q \in Sides /\ Sides = {q, Foe(q)}
    BY Basics DEF TypeInv
  <2>3. CASE s = q
    <3>1. PICK c : SweptBoth(s, side[s], c, side'[s])
      BY <2>1, <2>3 DEF SweepIs
    <3>2. side[s] \in SideState(s) /\ NoForce(s, side[s])
      BY DEF TypeInv, Sided, FreeInv
    <3> QED BY <3>1, <3>2, SweptBothTakesPicks
  <2>4. CASE s = Foe(q)
    BY <2>1, <2>4 DEF SweepIs, TakesPicks
  <2> QED BY <2>2, <2>3, <2>4
<1>4. Spec => []PlacesInv
  BY <1>0, PlacesInvariant
<1> QED BY <1>1, <1>2, <1>3, <1>4, TypeCorrect, PTL DEF Spec, SweepTakesPicks

-----------------------------------------------------------------------------
(* What becomes of the picks.                                               *)

\* Only kept picks are ever used.
Filed(d) == Usd(d) \subseteq DOMAIN Def(d) \cap 1 .. Kept
UsedInv == \A s \in Sides : Filed(side[s])

\* e is d with the same picks, of which the same are used.
Refiles(d, e) == Def(e) = Def(d) /\ Usd(e) = Usd(d)

LEMMA Refiled ==
    ASSUME NEW d, NEW e, Filed(d), Refiles(d, e)
    PROVE  Filed(e)
BY DEF Filed, Refiles

LEMMA SweptFiled ==
    ASSUME NEW s, NEW d, NEW e, NEW slot, Swept(s, d, e, slot), Filed(d)
    PROVE  Filed(e)
<1>1. Def(e) = Def(d) /\ Usd(e) \ Usd(d) \subseteq Picks(d, slot)
  BY DEF Swept
<1>2. Picks(d, slot) \subseteq DOMAIN Def(d) \cap 1 .. Kept
  BY DEF Picks, Def
<1> QED BY <1>1, <1>2 DEF Filed

LEMMA ToldFiled ==
    ASSUME NEW s \in Sides, NEW e, NEW f, side[s] \in SideState(s), Told(s, side[s], e, f), Filed(side[s])
    PROVE  Filed(e)
<1>p. PICK P : P = [slot : Slots, mon : Mons(s)]
  OBVIOUS
<1>1. Def(side[s]) \in Seq(P)
  BY <1>p, Fields
<1>2. f \in Answers(s, Asked(s)) /\ Asked(s) \subseteq Slots
  BY DEF Told, Asked, Flagged
<1>3. Listed(f) \in Seq(P)
  BY <1>p, <1>2, AnswersTyped, ListedPicks
<1>4. Def(e) = Def(side[s]) \o Listed(f) /\ Usd(e) = Usd(side[s])
  BY DEF Told, Stays
<1>5. DOMAIN Def(side[s]) \subseteq DOMAIN Def(e)
  BY <1>1, <1>3, <1>4
<1> QED BY <1>4, <1>5 DEF Filed

LEMMA FilledRefiles ==
    ASSUME NEW s, NEW d, NEW f, NEW c, NEW e, Filled(s, d, f, c, e)
    PROVE  Refiles(d, e)
BY DEF Filled, Reseated, Stays, Refiles

LEMMA ActionRefiles ==
    ASSUME TypeInv, NEW e \in queue,
           Skip(e) \/ AttackIs(e) \/ PhazeIs(e) \/ ReviveIs(e) \/ AllySwitchIs(e)
    PROVE  \A s \in Sides : Refiles(side[s], side'[s])
<1>1. Sides = {e.side, Foe(e.side)}
  BY Entry, Basics DEF TypeInv
<1>2. CASE Skip(e) \/ PhazeIs(e)
  BY <1>2 DEF Skip, PhazeIs, Refiles
<1>3. CASE AttackIs(e)
  <2>1. Refiles(side[e.side], side'[e.side])
    BY <1>3 DEF AttackIs, UserIs, Stays, Refiles
  <2>2. Refiles(side[Foe(e.side)], side'[Foe(e.side)])
    BY <1>3 DEF AttackIs, FoeIs, Stays, Refiles
  <2> QED BY <1>1, <2>1, <2>2
<1>4. CASE ReviveIs(e)
  <2>1. Refiles(side[e.side], side'[e.side])
    BY <1>4 DEF ReviveIs, Prays, Stays, Refiles
  <2>2. Refiles(side[Foe(e.side)], side'[Foe(e.side)])
    BY <1>4 DEF ReviveIs, Refiles
  <2> QED BY <1>1, <2>1, <2>2
<1>5. CASE AllySwitchIs(e)
  <2>1. Refiles(side[e.side], side'[e.side])
    BY <1>5 DEF AllySwitchIs, Swapped, Refiles
  <2>2. Refiles(side[Foe(e.side)], side'[Foe(e.side)])
    BY <1>5 DEF AllySwitchIs, Refiles
  <2> QED BY <1>1, <2>1, <2>2
<1> QED BY <1>2, <1>3, <1>4, <1>5

LEMMA UsedStep ==
    ASSUME TypeInv, PlacesInv, UsedInv, [Next]_turnloop
    PROVE  UsedInv'
<1>0. (\A s \in Sides : Refiles(side[s], side'[s])) => UsedInv'
  BY Refiled DEF UsedInv
<1>1. CASE UNCHANGED turnloop
  BY <1>1 DEF turnloop, UsedInv
<1>2. CASE BeginIs
  BY <1>2 DEF BeginIs, Refreshed, UsedInv, Filed
<1>3. ASSUME pc = "switching", NEW w \in switches, LeaveIs(w)  PROVE UsedInv'
  <2>1. w.side \in Sides /\ Sides = {w.side, Foe(w.side)}
    BY Entry, Basics DEF TypeInv
  <2>2. w.mon \in Bench(w.side, side[w.side])
    BY DEF PlacesInv, SwitchInv
  <2>3. Left(w.side, side[w.side], side'[w.side], w.slot, w.mon)
    BY <1>3, <2>2 DEF LeaveIs
  <2>4. Refiles(side[w.side], side'[w.side])
    BY <2>3 DEF Left, Refiles
  <2>5. Refiles(side[Foe(w.side)], side'[Foe(w.side)])
    BY <1>3 DEF LeaveIs, Chased, Refiles
  <2> QED BY <1>0, <2>1, <2>4, <2>5
<1>4. ASSUME NEW e \in queue, Skip(e) \/ AttackIs(e) \/ PhazeIs(e) \/ ReviveIs(e) \/ AllySwitchIs(e)
      PROVE  UsedInv'
  BY <1>0, <1>4, ActionRefiles
<1>5. ASSUME NEW g \in drags, DragIs(g)  PROVE UsedInv'
  <2>1. g.side \in Sides /\ Sides = {g.side, Foe(g.side)}
    BY Basics DEF TypeInv
  <2>2. CASE side' = side
    BY <2>2 DEF UsedInv
  <2>3. ASSUME NEW m, Dragged(g.side, side[g.side], side'[g.side], g.slot, m),
               side'[Foe(g.side)] = side[Foe(g.side)]
        PROVE  UsedInv'
    <3>1. Refiles(side[g.side], side'[g.side])
      BY <2>3 DEF Dragged, Refiles
    <3>2. Refiles(side[Foe(g.side)], side'[Foe(g.side)])
      BY <2>3 DEF Refiles
    <3> QED BY <1>0, <2>1, <3>1, <3>2
  <2> QED BY <1>5, <2>2, <2>3 DEF DragIs
<1>6. CASE ExitsIs
  <2>1. ASSUME NEW s \in Sides  PROVE Refiles(side[s], side'[s])
    BY <1>6 DEF ExitsIs, Ordered, Stays, Refiles
  <2> QED BY <1>0, <2>1
<1>7. CASE AnswerIs
  <2>1. ASSUME NEW s \in Sides  PROVE Filed(side'[s])
    <3>1. PICK f : Told(s, side[s], side'[s], f)
      BY <1>7 DEF AnswerIs
    <3>2. side[s] \in SideState(s) /\ Filed(side[s])
      BY DEF TypeInv, Sided, UsedInv
    <3> QED BY <3>1, <3>2, ToldFiled
  <2> QED BY <2>1 DEF UsedInv
<1>8. ASSUME NEW s \in todo, SweepIs(s)  PROVE UsedInv'
  <2>1. s \in Sides /\ Sides = {s, Foe(s)} /\ Filed(side[s]) /\ Filed(side[Foe(s)])
    BY Basics DEF TypeInv, UsedInv
  <2>2. PICK c : SweptBoth(s, side[s], c, side'[s])
    BY <1>8 DEF SweepIs
  <2>3. Filed(c)
    BY <2>1, <2>2, SweptFiled DEF SweptBoth
  <2>4. Filed(side'[s])
    BY <2>2, <2>3, SweptFiled DEF SweptBoth
  <2> QED BY <1>8, <2>1, <2>4 DEF SweepIs, UsedInv
<1>9. CASE EndOfActions
  BY <1>9 DEF EndOfActions, UsedInv
<1>10. CASE ResidualIs
  <2>1. ASSUME NEW s \in Sides  PROVE Refiles(side[s], side'[s])
    BY <1>10 DEF ResidualIs, Worn, Stays, Refiles
  <2> QED BY <1>0, <2>1
<1>11. CASE ReplaceIs
  <2>1. ASSUME NEW s \in Sides  PROVE Refiles(side[s], side'[s])
    BY <1>11, FilledRefiles DEF ReplaceIs
  <2> QED BY <1>0, <2>1
<1> QED BY <1>1, <1>2, <1>3, <1>4, <1>5, <1>6, <1>7, <1>8, <1>9, <1>10, <1>11, Steps

\* No side is given more picks in a turn than `deferred` holds.
TwoPicks == \A s \in Sides : Len(side[s].deferred) <= Kept

(* Every pick a stop was given, of the two a turn can hold, is used by the  *)
(* sweep right after it (apply_self_switches, battle.rs): outside a stop    *)
(* and its sweep the used picks are all of them.  A third pick of a side in *)
(* one turn is not kept, so PicksUsed itself is for turns without one.      *)
THEOREM PicksUsedHolds ==
    ASSUME OneExitEach
    PROVE  Spec /\ []TwoPicks => []PicksUsed
<1>1. Init => UsedInv
  <2> SUFFICES ASSUME Init, NEW s \in Sides  PROVE Filed(side[s])
    BY DEF UsedInv
  <2>1. side[s].used = {}
    BY DEF Init
  <2> QED BY <2>1 DEF Filed, Usd
<1>2. TypeInv /\ PlacesInv /\ UsedInv /\ [Next]_turnloop => UsedInv'
  BY UsedStep
<1>3. TypeInv /\ PlacesInv /\ UsedInv /\ TwoPicks => PicksUsed
  <2> SUFFICES ASSUME TypeInv, PlacesInv, UsedInv, TwoPicks, pc \notin {"stop", "sweep"}, NEW s \in Sides
               PROVE  Usd(side[s]) = DOMAIN Def(side[s])
    BY DEF PicksUsed, Usd, Def
  <2>d. PICK d : d = side[s]
    OBVIOUS
  <2>1. Unused(d) = {} /\ Filed(d)
    BY <2>d DEF PlacesInv, SideInv, PicksAre, UsedInv
  <2>2. Def(d) \in Seq([slot : Slots, mon : Mons(s)]) /\ Len(Def(d)) <= Kept
    BY <2>d, Fields DEF TypeInv, Sided, TwoPicks, Def
  <2>3. DOMAIN Def(d) \subseteq 1 .. Kept
    BY <2>2 DEF Kept
  <2> QED BY <2>d, <2>1, <2>3 DEF Unused, Filed
<1> QED BY <1>1, <1>2, <1>3, TypeCorrect, PlacesInvariant, PTL DEF Spec

-----------------------------------------------------------------------------
(* Whose turn it is.                                                        *)

\* With Ally Switch in play, nothing else takes a mon off the field unasked.
SwapAlone == "swap" \in Moves => Button \cup Card \cup Exit = {} /\ "phaze" \notin Moves

\* Mon m of side s has acted, by A; a slot has an order left, in Q.
Has(A, s, m) == \E x \in A : x.side = s /\ x.mon = m
Owed(Q, s, x) == \E q \in Q : q.side = s /\ q.slot = x

QueueInv ==
    /\ \A p, q \in queue : p.side = q.side /\ p # q => p.slot # q.slot /\ p.mon # q.mon
    /\ \A q \in queue, w \in switches : q.side = w.side => q.slot # w.slot
    /\ \A q \in queue : q.slot \notin Rep(side[q.side]) => Act(side[q.side])[q.slot] = q.mon

\* Nothing is left of the queue when the turn is over.
EndInv ==
    /\ pc = "idle" => queue = {}
    /\ pc = "residual" => queue = {} \/ Over(side)

\* The Pursuit latch of a slot says that the mon of its entry has acted.
ChaseInv == \A q \in queue : Has(acted, q.side, q.mon) <=> q.slot \in Cha(side[q.side])

\* A slot filled in mid-turn holds a mon that came in this turn.
LatchInv ==
    "swap" \notin Moves /\ pc # "idle" => \A s \in Sides : \A x \in Rep(side[s]) : Act(side[s])[x] \in Crs(side[s])

\* With Ally Switch, who still has an action stays where it is.
SwapInv ==
    "swap" \in Moves =>
        /\ drags = {} /\ halved = {}
        /\ \A q \in queue : /\ q.slot \notin Rep(side[q.side])
                            /\ FlagAt(side[q.side], q.slot) \in {"none", "revive"}

\* Whoever stands in slot x came in this turn, has acted or has an order left.
Turned(s, d, x, A, Q) ==
    x \in Up(d) => Act(d)[x] \in Crs(d) \/ Has(A, s, Act(d)[x]) \/ Owed(Q, s, x)
TurnedInv ==
    pc # "idle" => \A s \in Sides : \A x \in Slots : Turned(s, side[s], x, acted, queue \cup switches)

ActionInv == SwitchInv /\ QueueInv /\ EndInv /\ OwnAction /\ ChaseInv /\ LatchInv /\ SwapInv /\ TurnedInv

-----------------------------------------------------------------------------
\* e is d with nobody moved.
Still(d, e) ==
    /\ Act(e) = Act(d) /\ Rep(e) = Rep(d) /\ Cha(e) = Cha(d) /\ Crs(e) = Crs(d)
    /\ Down(d) \subseteq Down(e)

\* e is d after slots were filled in mid-turn or fainted mons revived.
Moved(d, e) ==
    /\ Cha(e) = Cha(d) /\ Crs(d) \subseteq Crs(e) /\ Rep(d) \subseteq Rep(e)
    /\ \A x \in Slots : /\ Act(e)[x] # Act(d)[x] => x \in Rep(e) /\ Act(e)[x] \in Crs(e)
                        /\ x \in Rep(e) \ Rep(d) => Act(e)[x] \in Crs(e)
                        /\ x \in Up(e) \ Up(d) => Act(e)[x] \in Crs(e)

Uses(e) ==
    /\ queue' = queue \ {e} /\ CanAct(e) /\ switches' = switches /\ pc' # "idle"
    /\ acted' = acted \cup {[side |-> e.side, mon |-> Mon(e), queued |-> e.mon, how |-> "turn"]}
    /\ \A s \in Sides : Still(side[s], side'[s])

Swaps(e) ==
    /\ queue' = {IF x.side = e.side THEN [x EXCEPT !.slot = 1 - @] ELSE x : x \in queue \ {e}}
    /\ CanAct(e) /\ switches' = switches /\ pc' # "idle"
    /\ acted' = acted \cup {[side |-> e.side, mon |-> Mon(e), queued |-> e.mon, how |-> "turn"]}
    /\ Swapped(e.side, side[e.side], side'[e.side]) /\ side'[Foe(e.side)] = side[Foe(e.side)]

Settles ==
    /\ pc = "idle" => pc' = "idle"
    /\ UNCHANGED <<queue, switches, acted>> /\ \A s \in Sides : Moved(side[s], side'[s])

LEMMA StillMoves ==
    ASSUME NEW d, NEW e, Still(d, e)
    PROVE  Moved(d, e)
BY Reads DEF Still, Moved

LEMMA StaysStill ==
    ASSUME NEW s, NEW d, NEW e, Stays(s, d, e), Cha(e) = Cha(d)
    PROVE  Still(d, e)
BY DEF Stays, Still

LEMMA SweptMoves ==
    ASSUME NEW s, NEW d, NEW c, NEW e, SweptBoth(s, d, c, e)
    PROVE  Moved(d, e)
<1>0. \A x \in Slots : x = 0 \/ x = 1
  BY DEF Slots
<1>1. ASSUME NEW a, NEW b, NEW slot \in Slots, Swept(s, a, b, slot), b \in SideState(s)
      PROVE  Moved(a, b)
  <2>1. \A x \in Slots : x \in Up(b) \ Up(a) => Act(b)[x] \in Crs(b)
    <3> SUFFICES ASSUME NEW x \in Slots, x \in Up(b), x \notin Up(a)  PROVE Act(b)[x] \in Crs(b)
      OBVIOUS
    <3>1. Act(b)[x] \notin Down(b) /\ Act(a)[x] \in Down(a)
      BY Reads
    <3>2. CASE Act(b)[x] = Act(a)[x]
      BY <1>1, <3>1, <3>2 DEF Swept
    <3>3. CASE Act(b)[x] # Act(a)[x]
      BY <1>1, <3>3 DEF Swept
    <3> QED BY <3>2, <3>3
  <2>2. \A x \in Slots : /\ Act(b)[x] # Act(a)[x] => x \in Rep(b) /\ Act(b)[x] \in Crs(b)
                         /\ x \in Rep(b) \ Rep(a) => Act(b)[x] \in Crs(b)
    BY <1>1 DEF Swept
  <2>3. Cha(b) = Cha(a) /\ Crs(a) \subseteq Crs(b) /\ Rep(a) \subseteq Rep(b)
    BY <1>1 DEF Swept
  <2> QED BY <2>1, <2>2, <2>3 DEF Moved
<1>2. Swept(s, d, c, 0) /\ Swept(s, c, e, 1) /\ c \in SideState(s) /\ e \in SideState(s)
  BY DEF SweptBoth, Swept
<1>3. Moved(d, c) /\ Moved(c, e)
  BY <1>1, <1>2 DEF Slots
<1>4. Act(e)[0] = Act(c)[0] /\ Act(c)[1] = Act(d)[1] /\ Rep(e) \subseteq Rep(c) \cup {1} /\ Rep(c) \subseteq Rep(d) \cup {0}
      /\ Cha(e) = Cha(d) /\ Crs(d) \subseteq Crs(e) /\ Rep(d) \subseteq Rep(e)
  BY <1>2, <1>3 DEF Swept, Moved, Slots
<1>5. ASSUME NEW x \in Slots
      PROVE  /\ Act(e)[x] # Act(d)[x] => x \in Rep(e) /\ Act(e)[x] \in Crs(e)
             /\ x \in Rep(e) \ Rep(d) => Act(e)[x] \in Crs(e)
             /\ x \in Up(e) \ Up(d) => Act(e)[x] \in Crs(e)
  <2>1. CASE Act(e)[x] = Act(c)[x]
    BY <1>3, <2>1 DEF Moved
  <2>2. CASE Act(e)[x] # Act(c)[x]
    BY <1>3, <2>2 DEF Moved
  <2> QED BY <2>1, <2>2
<1> QED BY <1>4, <1>5 DEF Moved

Ends == pc' = "idle" /\ queue' = {} /\ switches' = switches /\ acted' = acted

LEMMA DraggedMoves ==
    ASSUME NEW s, NEW d, NEW e, NEW slot \in Slots, NEW m, Dragged(s, d, e, slot, m), slot \in Up(d)
    PROVE  Moved(d, e)
<1>1. /\ Act(e)[slot] = m /\ \A x \in Slots \ {slot} : Act(e)[x] = Act(d)[x]
      /\ Crs(e) = Crs(d) \cup {Act(d)[slot], m} /\ Rep(e) = Rep(d) \cup {slot}
      /\ Down(e) = Down(d) /\ Cha(e) = Cha(d)
  BY DEF Dragged
<1>2. \A x \in Slots : x \in Up(e) \ Up(d) => Act(e)[x] \in Crs(e)
  BY <1>1, Reads
<1> QED BY <1>1, <1>2 DEF Moved

\* What a step does to the entries and to those who stand in the slots.
LEMMA StepKinds ==
    ASSUME TypeInv, EndInv, [Next]_turnloop
    PROVE  \/ BeginIs
           \/ pc = "switching" /\ \E w \in switches : LeaveIs(w)
           \/ pc = "loop" /\ \E e \in queue : Skip(e) \/ Uses(e) \/ ("swap" \in Moves /\ Swaps(e))
           \/ Settles \/ Ends
<1>1. ASSUME UNCHANGED <<queue, switches, acted>>, pc = "idle" => pc' = "idle",
             \A s \in Sides : Still(side[s], side'[s])
      PROVE  Settles
  BY <1>1, StillMoves DEF Settles
<1>2. CASE UNCHANGED turnloop
  <2>1. \A s \in Sides : Still(side[s], side'[s])
    BY <1>2 DEF turnloop, Still
  <2> QED BY <1>1, <1>2, <2>1 DEF turnloop
<1>3. ASSUME NEW e \in queue, AttackIs(e) \/ PhazeIs(e) \/ ReviveIs(e)  PROVE Uses(e)
  <2>1. Acts(e) /\ queue' = queue \ {e}
    BY <1>3 DEF AttackIs, PhazeIs, ReviveIs
  <2>2. e.side \in Sides /\ Sides = {e.side, Foe(e.side)}
    BY Entry, Basics DEF TypeInv
  <2>3. CASE AttackIs(e)
    <3>1. Still(side[e.side], side'[e.side]) /\ Still(side[Foe(e.side)], side'[Foe(e.side)])
      BY <2>3, StaysStill DEF AttackIs, UserIs, FoeIs
    <3> QED BY <2>1, <2>2, <3>1 DEF Acts, Uses
  <2>4. CASE PhazeIs(e)
    BY <2>1, <2>4 DEF PhazeIs, Still, Acts, Uses
  <2>5. CASE ReviveIs(e)
    <3>1. Still(side[e.side], side'[e.side])
      BY <2>5, StaysStill DEF ReviveIs, Prays
    <3>2. Still(side[Foe(e.side)], side'[Foe(e.side)])
      BY <2>5 DEF ReviveIs, Still
    <3> QED BY <2>1, <2>2, <3>1, <3>2 DEF Acts, Uses
  <2> QED BY <1>3, <2>3, <2>4, <2>5
<1>4. ASSUME NEW e \in queue, AllySwitchIs(e)  PROVE Swaps(e)
  BY <1>4 DEF AllySwitchIs, Acts, Swaps
<1>5. ASSUME pc = "drags", NEW g \in drags, DragIs(g)  PROVE Settles
  <2>1. g.side \in Sides /\ g.slot \in Slots /\ Sides = {g.side, Foe(g.side)}
    BY Basics DEF TypeInv
  <2>2. UNCHANGED <<queue, switches, acted>> /\ pc # "idle"
    BY <1>5 DEF DragIs
  <2>3. CASE side' = side
    BY <1>1, <2>2, <2>3 DEF Still
  <2>4. CASE /\ side'[Foe(g.side)] = side[Foe(g.side)]
             /\ g.slot \in Up(side[g.side])
             /\ \E m : Dragged(g.side, side[g.side], side'[g.side], g.slot, m)
    <3>1. Moved(side[g.side], side'[g.side])
      BY <2>1, <2>4, DraggedMoves
    <3>2. Moved(side[Foe(g.side)], side'[Foe(g.side)])
      BY <2>4, StillMoves DEF Still
    <3> QED BY <2>1, <2>2, <3>1, <3>2 DEF Settles
  <2> QED BY <1>5, <2>3, <2>4 DEF DragIs
<1>6. CASE ExitsIs
  <2>1. \A s \in Sides : Still(side[s], side'[s])
    BY <1>6, StaysStill DEF ExitsIs, Ordered
  <2> QED BY <1>1, <1>6, <2>1 DEF ExitsIs
<1>7. CASE AnswerIs
  <2>1. \A s \in Sides : \E f : Told(s, side[s], side'[s], f)
    BY <1>7 DEF AnswerIs
  <2>2. \A s \in Sides : Still(side[s], side'[s])
    BY <2>1, StaysStill DEF Told
  <2> QED BY <1>1, <1>7, <2>2 DEF AnswerIs
<1>8. ASSUME pc = "sweep", NEW s \in todo, SweepIs(s)  PROVE Settles
  <2>1. s \in Sides /\ Sides = {s, Foe(s)}
    BY Basics DEF TypeInv
  <2>2. Moved(side[s], side'[s])
    BY <1>8, SweptMoves DEF SweepIs
  <2>3. Moved(side[Foe(s)], side'[Foe(s)])
    BY <1>8, StillMoves DEF SweepIs, Still
  <2> QED BY <1>8, <2>1, <2>2, <2>3 DEF SweepIs, Settles
<1>9. CASE EndOfActions
  <2>1. \A s \in Sides : Still(side[s], side'[s])
    BY <1>9 DEF EndOfActions, Still
  <2> QED BY <1>1, <1>9, <2>1 DEF EndOfActions
<1>10. CASE ResidualIs
  BY <1>10 DEF ResidualIs, Ends
<1>11. CASE ReplaceIs
  BY <1>11 DEF ReplaceIs, EndInv, Ends
<1>12. CASE pc = "loop" /\ \E e \in queue : \/ Skip(e) \/ AttackIs(e) \/ ReviveIs(e)
                                               \/ ("phaze" \in Moves /\ PhazeIs(e))
                                               \/ ("swap" \in Moves /\ AllySwitchIs(e))
  <2>1. PICK e \in queue : \/ Skip(e) \/ AttackIs(e) \/ ReviveIs(e) \/ PhazeIs(e)
                           \/ ("swap" \in Moves /\ AllySwitchIs(e))
    BY <1>12
  <2>2. Skip(e) \/ Uses(e) \/ ("swap" \in Moves /\ Swaps(e))
    BY <1>3, <1>4, <2>1
  <2> QED BY <1>12, <2>2
<1>13. CASE \/ pc = "drags" /\ \E g \in drags : DragIs(g)
            \/ pc = "sweep" /\ \E s \in todo : SweepIs(s)
  BY <1>5, <1>8, <1>13
<1> QED BY <1>2, <1>6, <1>7, <1>9, <1>10, <1>11, <1>12, <1>13, Steps

LEMMA EndStep ==
    ASSUME TypeInv, EndInv, [Next]_turnloop
    PROVE  EndInv'
<1>1. CASE UNCHANGED turnloop
  BY <1>1 DEF turnloop, EndInv
<1>2. CASE BeginIs
  BY <1>2 DEF BeginIs, EndInv
<1>3. CASE pc = "switching" /\ \E w \in switches : LeaveIs(w)
  BY <1>3 DEF LeaveIs, EndInv
<1>4. CASE pc = "loop" /\ \E e \in queue : Skip(e) \/ AttackIs(e) \/ PhazeIs(e) \/ ReviveIs(e) \/ AllySwitchIs(e)
  BY <1>4 DEF Skip, AttackIs, PhazeIs, ReviveIs, AllySwitchIs, Acts, EndInv
<1>5. CASE pc = "drags" /\ \E g \in drags : DragIs(g)
  BY <1>5 DEF DragIs, EndInv
<1>6. CASE ExitsIs \/ AnswerIs
  BY <1>6 DEF ExitsIs, AnswerIs, Sync, EndInv
<1>7. CASE pc = "sweep" /\ \E s \in todo : SweepIs(s)
  BY <1>7 DEF SweepIs, EndInv
<1>8. CASE EndOfActions
  BY <1>8 DEF EndOfActions, Sync, EndInv
<1>9. CASE ResidualIs \/ ReplaceIs
  BY <1>9 DEF ResidualIs, ReplaceIs, EndInv
<1> QED BY <1>1, <1>2, <1>3, <1>4, <1>5, <1>6, <1>7, <1>8, <1>9, Steps

LEMMA SwitchStep ==
    ASSUME TypeInv, SwitchInv, [Next]_turnloop
    PROVE  SwitchInv'
<1>1. CASE UNCHANGED turnloop
  BY <1>1 DEF turnloop, SwitchInv
<1>2. CASE BeginIs
  BY <1>2, BeginSwitches
<1>3. CASE pc = "switching" /\ \E w \in switches : LeaveIs(w)
  BY <1>3, LeaveSwitches
<1>4. switches = {} /\ switches' = {} => SwitchInv'
  BY DEF SwitchInv
<1>5. CASE pc = "loop" /\ \E e \in queue : Skip(e) \/ AttackIs(e) \/ PhazeIs(e) \/ ReviveIs(e) \/ AllySwitchIs(e)
  BY <1>4, <1>5 DEF Skip, AttackIs, PhazeIs, ReviveIs, AllySwitchIs, Acts, SwitchInv
<1>6. CASE pc = "drags" /\ \E g \in drags : DragIs(g)
  BY <1>4, <1>6 DEF DragIs, SwitchInv
<1>7. CASE ExitsIs \/ AnswerIs \/ EndOfActions \/ ResidualIs \/ ReplaceIs
  BY <1>4, <1>7 DEF ExitsIs, AnswerIs, EndOfActions, ResidualIs, ReplaceIs, SwitchInv
<1>8. CASE pc = "sweep" /\ \E s \in todo : SweepIs(s)
  BY <1>4, <1>8 DEF SweepIs, SwitchInv
<1> QED BY <1>1, <1>2, <1>3, <1>5, <1>6, <1>7, <1>8, Steps

\* The two orders of a turn, a move's and a switch's, are in different slots.
LEMMA BeginQueue ==
    ASSUME TypeInv, BeginIs
    PROVE  QueueInv' /\ ChaseInv' /\ OwnAction' /\ LatchInv' /\ TurnedInv'
<1>1. PICK o : Ordering(o)
  BY DEF BeginIs
<1>2. /\ \A p \in queue' : Given(o, p) /\ p.mon = Act(side[p.side])[p.slot]
      /\ \A p \in switches' : Given(o, p) /\ p.mon \in Bench(p.side, side[p.side])
      /\ \A s \in Sides : \A x \in Up(side[s]) : \E p \in queue' \cup switches' : p.side = s /\ p.slot = x
      /\ \A s \in Sides : o[s][0] # o[s][1]
  BY <1>1 DEF Ordering
<1>3. \A p \in queue' \cup switches' : p.side \in Sides /\ p.slot \in Slots
  BY <1>2 DEF Given, Places
<1>4. ASSUME NEW s \in Sides
      PROVE  /\ Act(side'[s]) = Act(side[s]) /\ Up(side'[s]) = Up(side[s])
             /\ Rep(side'[s]) = {} /\ Cha(side'[s]) = {}
  BY Reads DEF BeginIs, Refreshed
<1>5. acted' = {}
  BY DEF BeginIs
<1>6. ASSUME NEW p \in queue', NEW q \in queue', p.side = q.side, p # q
      PROVE  p.slot # q.slot /\ p.mon # q.mon
  <2>1. p.slot # q.slot
    BY <1>2, <1>6 DEF Given
  <2>2. p.mon = o[p.side][p.slot] /\ q.mon = o[p.side][q.slot]
    BY <1>2, <1>6 DEF Given
  <2> QED BY <1>2, <1>3, <2>1, <2>2 DEF Slots
<1>7. ASSUME NEW q \in queue', NEW w \in switches', q.side = w.side  PROVE q.slot # w.slot
  <2> SUFFICES ASSUME q.slot = w.slot  PROVE FALSE
    OBVIOUS
  <2>1. q.mon = w.mon
    BY <1>2, <1>7 DEF Given
  <2>2. q.mon = Act(side[q.side])[q.slot] /\ w.mon \in Bench(q.side, side[q.side])
    BY <1>2, <1>7
  <2> QED BY <1>3, <2>1, <2>2, Reads DEF Slots
<1>8. QueueInv'
  BY <1>2, <1>3, <1>4, <1>6, <1>7 DEF QueueInv
<1>9. ChaseInv' /\ OwnAction' /\ LatchInv'
  BY <1>3, <1>4, <1>5 DEF ChaseInv, Has, OwnAction, LatchInv
<1>10. TurnedInv'
  BY <1>2, <1>4 DEF TurnedInv, Turned, Owed
<1> QED BY <1>8, <1>9, <1>10

LEMMA HasMore ==
    ASSUME NEW A, NEW B, NEW s, NEW m
    PROVE  Has(A \cup B, s, m) <=> Has(A, s, m) \/ Has(B, s, m)
BY DEF Has

\* What the Pursuits of one switch add to those who have acted.
Chases(K) == {[side |-> e.side, mon |-> e.mon, queued |-> e.mon, how |-> "chase"] : e \in K}

LEMMA HasChased ==
    ASSUME NEW K, NEW s, NEW m
    PROVE  Has(Chases(K), s, m) <=> \E k \in K : k.side = s /\ k.mon = m
<1>1. ASSUME NEW x \in Chases(K)
      PROVE  \E k \in K : x = [side |-> k.side, mon |-> k.mon, queued |-> k.mon, how |-> "chase"]
  BY DEF Chases
<1>2. ASSUME NEW k \in K
      PROVE  [side |-> k.side, mon |-> k.mon, queued |-> k.mon, how |-> "chase"] \in Chases(K)
  BY DEF Chases
<1>3. ASSUME Has(Chases(K), s, m)  PROVE \E k \in K : k.side = s /\ k.mon = m
  <2>1. PICK x \in Chases(K) : x.side = s /\ x.mon = m
    BY <1>3 DEF Has
  <2>2. PICK k \in K : x = [side |-> k.side, mon |-> k.mon, queued |-> k.mon, how |-> "chase"]
    BY <1>1
  <2> QED BY <2>1, <2>2
<1>4. ASSUME NEW k \in K, k.side = s, k.mon = m  PROVE Has(Chases(K), s, m)
  <2> DEFINE x == [side |-> k.side, mon |-> k.mon, queued |-> k.mon, how |-> "chase"]
  <2>1. x \in Chases(K) /\ x.side = s /\ x.mon = m
    BY <1>2, <1>4
  <2> HIDE DEF x
  <2> QED BY <2>1 DEF Has
<1> QED BY <1>3, <1>4

LEMMA ChasersAre ==
    ASSUME NEW w, NEW k \in Chasers(w)
    PROVE  /\ k \in queue /\ k.side = Foe(w.side) /\ Act(side[k.side])[k.slot] = k.mon
           /\ k.slot \notin Cha(side[k.side])
BY DEF Chasers, Act, Cha

LEMMA LeaveQueue ==
    ASSUME TypeInv, SwitchInv, QueueInv, ChaseInv, OwnAction, LatchInv, TurnedInv, pc = "switching",
           NEW w \in switches, LeaveIs(w)
    PROVE  QueueInv' /\ ChaseInv' /\ OwnAction' /\ LatchInv' /\ TurnedInv'
<1>1. /\ w.side \in Sides /\ w.slot \in Slots /\ Foe(w.side) \in Sides /\ Sides = {w.side, Foe(w.side)}
      /\ Foe(w.side) # w.side
  BY Entry, Basics DEF TypeInv
<1>s. PICK s : s = w.side
  OBVIOUS
<1>d. PICK d : d = side[w.side]
  OBVIOUS
<1>e. PICK e : e = side'[w.side]
  OBVIOUS
<1>f. PICK f : f = side[Foe(w.side)]
  OBVIOUS
<1>g. PICK g : g = side'[Foe(w.side)]
  OBVIOUS
<1>k. PICK K : K = Chasers(w)
  OBVIOUS
<1>2. Left(w.side, d, e, w.slot, w.mon)
  BY <1>d, <1>e DEF LeaveIs, SwitchInv
<1>3. /\ Act(e)[w.slot] = w.mon /\ \A x \in Slots \ {w.slot} : Act(e)[x] = Act(d)[x]
      /\ Rep(e) = Rep(d) /\ Cha(e) = Cha(d) /\ Down(d) \subseteq Down(e)
      /\ Crs(d) \subseteq Crs(e) /\ w.mon \in Crs(e)
  BY <1>2 DEF Left
<1>4. /\ Act(g) = Act(f) /\ Rep(g) = Rep(f) /\ Crs(g) = Crs(f) /\ Down(g) = Down(f)
      /\ Cha(g) = Cha(f) \cup {x.slot : x \in K}
  BY <1>f, <1>g, <1>k DEF LeaveIs, Chased
<1>5. /\ queue' = queue /\ switches' = switches \ {w} /\ acted' = acted \cup Chases(K)
  BY <1>k DEF LeaveIs, Chases
<1>6. \A k \in K : /\ k \in queue /\ k.side = Foe(w.side) /\ Act(f)[k.slot] = k.mon /\ k.slot \notin Cha(f)
  BY <1>k, <1>f, ChasersAre
<1>7. \A q \in queue : q.side \in Sides /\ q.slot \in Slots
  BY Entry DEF TypeInv
<1>8. QueueInv'
  <2>1. ASSUME NEW q \in queue, q.slot \notin Rep(side'[q.side])  PROVE Act(side'[q.side])[q.slot] = q.mon
    <3>1. CASE q.side = w.side
      BY <1>3, <1>7, <1>d, <1>e, <2>1, <3>1 DEF QueueInv
    <3>2. CASE q.side = Foe(w.side)
      BY <1>4, <1>f, <1>g, <2>1, <3>2 DEF QueueInv
    <3> QED BY <1>1, <1>7, <3>1, <3>2
  <2>2. \A p, q \in queue : p.side = q.side /\ p # q => p.slot # q.slot /\ p.mon # q.mon
    BY DEF QueueInv
  <2>3. \A q \in queue, v \in switches' : q.side = v.side => q.slot # v.slot
    BY <1>5 DEF QueueInv
  <2> QED BY <1>5, <2>1, <2>2, <2>3 DEF QueueInv
<1>9. ChaseInv'
  <2> SUFFICES ASSUME NEW q \in queue
               PROVE  Has(acted \cup Chases(K), q.side, q.mon) <=> q.slot \in Cha(side'[q.side])
    BY <1>5 DEF ChaseInv
  <2>1. Has(acted, q.side, q.mon) <=> q.slot \in Cha(side[q.side])
    BY DEF ChaseInv
  <2>2. Has(acted \cup Chases(K), q.side, q.mon)
            <=> Has(acted, q.side, q.mon) \/ \E k \in K : k.side = q.side /\ k.mon = q.mon
    <3>1. Has(acted \cup Chases(K), q.side, q.mon)
             <=> Has(acted, q.side, q.mon) \/ Has(Chases(K), q.side, q.mon)
      BY HasMore
    <3>2. Has(Chases(K), q.side, q.mon) <=> \E k \in K : k.side = q.side /\ k.mon = q.mon
      BY HasChased
    <3> QED BY <3>1, <3>2
  <2>3. CASE q.side = w.side
    BY <1>1, <1>3, <1>6, <1>d, <1>e, <2>1, <2>2, <2>3
  <2>4. CASE q.side = Foe(w.side)
    <3>1. \A k \in K : k.mon = q.mon <=> k.slot = q.slot
      BY <1>6, <2>4 DEF QueueInv
    <3> QED BY <1>4, <1>6, <1>f, <1>g, <2>1, <2>2, <2>4, <3>1
  <2> QED BY <1>1, <1>7, <2>3, <2>4
<1>10. OwnAction'
  <2>1. ASSUME NEW x \in acted'
        PROVE  x \in acted \/ \E k \in K : x = [side |-> k.side, mon |-> k.mon, queued |-> k.mon, how |-> "chase"]
    BY <1>5, <2>1 DEF Chases
  <2>2. ASSUME NEW k \in K, NEW x \in acted  PROVE ~(x.side = k.side /\ x.mon = k.mon)
    <3>1. ~Has(acted, k.side, k.mon)
      BY <1>6, <1>f DEF ChaseInv
    <3> QED BY <3>1 DEF Has
  <2>3. \A k, l \in K : k.side = l.side /\ k.mon = l.mon => k = l
    BY <1>6 DEF QueueInv
  <2>4. \A x \in acted' : x.mon = x.queued
    BY <2>1 DEF OwnAction
  <2>5. ASSUME NEW x \in acted', NEW y \in acted', y.side = x.side, y.mon = x.mon  PROVE y = x
    <3>1. CASE x \in acted /\ y \in acted
      BY <2>5, <3>1 DEF OwnAction
    <3>2. CASE x \in acted /\ y \notin acted
      BY <2>1, <2>2, <2>5, <3>2
    <3>3. CASE x \notin acted /\ y \in acted
      BY <2>1, <2>2, <2>5, <3>3
    <3>4. CASE x \notin acted /\ y \notin acted
      BY <2>1, <2>3, <2>5, <3>4
    <3> QED BY <3>1, <3>2, <3>3, <3>4
  <2> QED BY <2>4, <2>5 DEF OwnAction
<1>11. LatchInv'
  <2> SUFFICES ASSUME "swap" \notin Moves, NEW v \in Sides, NEW x \in Rep(side'[v])
               PROVE  Act(side'[v])[x] \in Crs(side'[v])
    BY DEF LatchInv
  <2>0. Sided(side)
    BY DEF TypeInv
  <2>1. CASE v = w.side
    <3>1. x \in Slots
      BY <1>1, <1>3, <1>d, <1>e, <2>0, <2>1, Fields DEF Sided
    <3> QED BY <1>1, <1>3, <1>d, <1>e, <2>1, <3>1 DEF LatchInv
  <2>2. CASE v = Foe(w.side)
    BY <1>1, <1>4, <1>f, <1>g, <2>2 DEF LatchInv
  <2> QED BY <1>1, <2>1, <2>2
<1>12. TurnedInv'
  <2> SUFFICES ASSUME NEW v \in Sides, NEW x \in Slots, x \in Up(side'[v])
               PROVE  \/ Act(side'[v])[x] \in Crs(side'[v]) \/ Has(acted', v, Act(side'[v])[x])
                      \/ Owed(queue' \cup switches', v, x)
    BY DEF TurnedInv, Turned
  <2>1. \A m : Has(acted, v, m) => Has(acted', v, m)
    BY <1>5, HasMore
  <2>2. x \in Up(side[v]) =>
            Act(side[v])[x] \in Crs(side[v]) \/ Has(acted, v, Act(side[v])[x]) \/ Owed(queue \cup switches, v, x)
    BY DEF TurnedInv, Turned
  <2>3. Owed(queue \cup switches, v, x) => Owed(queue' \cup switches', v, x) \/ (v = w.side /\ x = w.slot)
    BY <1>5 DEF Owed
  <2>4. CASE v = w.side
    <3>1. CASE x = w.slot
      BY <1>3, <1>e, <2>4, <3>1
    <3>2. CASE x # w.slot
      <4>1. Act(e)[x] = Act(d)[x]
        BY <1>3, <3>2
      <4>2. x \in Up(d)
        BY <1>3, <1>e, <2>4, <4>1, Reads
      <4> QED BY <1>3, <1>d, <1>e, <2>1, <2>2, <2>3, <2>4, <3>2, <4>1, <4>2
    <3> QED BY <3>1, <3>2
  <2>5. CASE v = Foe(w.side)
    <3>1. x \in Up(f)
      BY <1>4, <1>g, <2>5, Reads
    <3> QED BY <1>1, <1>4, <1>f, <1>g, <2>1, <2>2, <2>3, <2>5, <3>1
  <2> QED BY <1>1, <2>4, <2>5
<1> QED BY <1>8, <1>9, <1>10, <1>11, <1>12

LEMMA CanActIs ==
    ASSUME NEW e
    PROVE  CanAct(e) <=> /\ Mon(e) \notin Down(side[e.side])
                         /\ e.slot \notin Cha(side[e.side]) /\ e.slot \notin Rep(side[e.side])
BY DEF CanAct, Standing, Mon, Act, Down, Cha, Rep

LEMMA SettleQueue ==
    ASSUME TypeInv, TypeInv', QueueInv, ChaseInv, OwnAction, LatchInv, TurnedInv, Settles
    PROVE  QueueInv' /\ ChaseInv' /\ OwnAction' /\ LatchInv' /\ TurnedInv'
<1>1. queue' = queue /\ switches' = switches /\ acted' = acted /\ \A s \in Sides : Moved(side[s], side'[s])
  BY DEF Settles
<1>2. \A q \in queue : q.side \in Sides /\ q.slot \in Slots
  BY Entry DEF TypeInv
<1>3. QueueInv'
  <2>1. ASSUME NEW q \in queue, q.slot \notin Rep(side'[q.side])  PROVE Act(side'[q.side])[q.slot] = q.mon
    BY <1>1, <1>2, <2>1 DEF QueueInv, Moved
  <2> QED BY <1>1, <2>1 DEF QueueInv
<1>4. ChaseInv'
  BY <1>1, <1>2 DEF ChaseInv, Moved
<1>5. OwnAction'
  BY <1>1 DEF OwnAction
<1>6. LatchInv'
  <2> SUFFICES ASSUME "swap" \notin Moves, pc # "idle", NEW s \in Sides, NEW x \in Rep(side'[s])
               PROVE  Act(side'[s])[x] \in Crs(side'[s])
    BY DEF LatchInv, Settles
  <2>1. Moved(side[s], side'[s])
    BY <1>1
  <2>2. x \in Slots
    BY Fields DEF TypeInv, Sided
  <2>3. x \in Rep(side[s]) => Act(side[s])[x] \in Crs(side[s])
    BY DEF LatchInv
  <2> QED BY <2>1, <2>2, <2>3 DEF Moved
<1>7. TurnedInv'
  <2> SUFFICES ASSUME pc # "idle", NEW s \in Sides, NEW x \in Slots, x \in Up(side'[s])
               PROVE  \/ Act(side'[s])[x] \in Crs(side'[s]) \/ Has(acted, s, Act(side'[s])[x])
                      \/ Owed(queue \cup switches, s, x)
    BY <1>1 DEF TurnedInv, Turned, Settles
  <2>1. Moved(side[s], side'[s])
    BY <1>1
  <2>2. x \in Up(side[s]) =>
            Act(side[s])[x] \in Crs(side[s]) \/ Has(acted, s, Act(side[s])[x]) \/ Owed(queue \cup switches, s, x)
    BY DEF TurnedInv, Turned
  <2> QED BY <2>1, <2>2 DEF Moved
<1> QED BY <1>3, <1>4, <1>5, <1>6, <1>7

LEMMA SkipQueue ==
    ASSUME TypeInv, QueueInv, ChaseInv, OwnAction, LatchInv, SwapInv, TurnedInv, pc = "loop",
           NEW e \in queue, Skip(e)
    PROVE  QueueInv' /\ ChaseInv' /\ OwnAction' /\ LatchInv' /\ TurnedInv'
<1>1. queue' = queue \ {e} /\ side' = side /\ switches' = switches /\ acted' = acted /\ ~CanAct(e)
  BY DEF Skip
<1>2. QueueInv' /\ ChaseInv' /\ OwnAction' /\ LatchInv'
  BY <1>1 DEF QueueInv, ChaseInv, OwnAction, LatchInv
<1>3. e.side \in Sides /\ Mon(e) = Act(side[e.side])[e.slot]
  BY Entry DEF TypeInv
<1>4. e.slot \in Up(side[e.side]) => Mon(e) \in Crs(side[e.side]) \/ Has(acted, e.side, Mon(e))
  <2> SUFFICES ASSUME e.slot \in Up(side[e.side])
               PROVE  Mon(e) \in Crs(side[e.side]) \/ Has(acted, e.side, Mon(e))
    OBVIOUS
  <2>1. Mon(e) \notin Down(side[e.side])
    <3>1. Up(side[e.side]) = {x \in Slots : Act(side[e.side])[x] \notin Down(side[e.side])}
      BY Reads
    <3> QED BY <1>3, <3>1
  <2>2. e.slot \in Cha(side[e.side]) \/ e.slot \in Rep(side[e.side])
    BY <1>1, <2>1, CanActIs
  <2>3. CASE e.slot \in Rep(side[e.side])
    BY <1>3, <2>3 DEF LatchInv, SwapInv
  <2>4. CASE e.slot \notin Rep(side[e.side])
    BY <1>3, <2>2, <2>4 DEF QueueInv, ChaseInv
  <2> QED BY <2>3, <2>4
<1>5. TurnedInv'
  <2> SUFFICES ASSUME NEW s \in Sides, NEW x \in Slots, x \in Up(side[s])
               PROVE  \/ Act(side[s])[x] \in Crs(side[s]) \/ Has(acted, s, Act(side[s])[x])
                      \/ Owed(queue' \cup switches, s, x)
    BY <1>1 DEF TurnedInv, Turned
  <2>1. Act(side[s])[x] \in Crs(side[s]) \/ Has(acted, s, Act(side[s])[x]) \/ Owed(queue \cup switches, s, x)
    BY DEF TurnedInv, Turned
  <2>2. Owed(queue \cup switches, s, x) => Owed(queue' \cup switches, s, x) \/ (s = e.side /\ x = e.slot)
    BY <1>1 DEF Owed
  <2> QED BY <1>3, <1>4, <2>1, <2>2
<1> QED BY <1>2, <1>5

\* Who has acted, once e's mon has.
LEMMA ActedMore ==
    ASSUME TypeInv, QueueInv, ChaseInv, OwnAction, NEW e \in queue, CanAct(e),
           acted' = acted \cup {[side |-> e.side, mon |-> Mon(e), queued |-> e.mon, how |-> "turn"]}
    PROVE  /\ Mon(e) = e.mon /\ OwnAction'
           /\ \A s, m : Has(acted', s, m) <=> Has(acted, s, m) \/ (s = e.side /\ m = e.mon)
<1>1. Mon(e) = Act(side[e.side])[e.slot] /\ e.slot \notin Rep(side[e.side]) /\ e.slot \notin Cha(side[e.side])
  BY Entry, CanActIs DEF TypeInv
<1>2. Mon(e) = e.mon /\ ~Has(acted, e.side, e.mon)
  BY <1>1 DEF QueueInv, ChaseInv
<1>r. PICK r : r = [side |-> e.side, mon |-> e.mon, queued |-> e.mon, how |-> "turn"]
  OBVIOUS
<1>3. acted' = acted \cup {r} /\ r.side = e.side /\ r.mon = e.mon /\ r.queued = e.mon
  BY <1>2, <1>r
<1>4. \A s, m : Has(acted', s, m) <=> Has(acted, s, m) \/ (s = e.side /\ m = e.mon)
  BY <1>3 DEF Has
<1>5. \A x \in acted : ~(x.side = e.side /\ x.mon = e.mon)
  BY <1>2 DEF Has
<1>6. OwnAction'
  <2>1. \A x \in acted' : x.mon = x.queued
    BY <1>3 DEF OwnAction
  <2>2. ASSUME NEW x \in acted', NEW y \in acted', y.side = x.side, y.mon = x.mon  PROVE y = x
    BY <1>3, <1>5, <2>2 DEF OwnAction
  <2> QED BY <2>1, <2>2 DEF OwnAction
<1> QED BY <1>2, <1>4, <1>6

LEMMA UseQueue ==
    ASSUME TypeInv, TypeInv', QueueInv, ChaseInv, OwnAction, LatchInv, TurnedInv, pc = "loop",
           NEW e \in queue, Uses(e)
    PROVE  QueueInv' /\ ChaseInv' /\ OwnAction' /\ LatchInv' /\ TurnedInv'
<1>1. /\ queue' = queue \ {e} /\ CanAct(e) /\ switches' = switches
      /\ acted' = acted \cup {[side |-> e.side, mon |-> Mon(e), queued |-> e.mon, how |-> "turn"]}
      /\ \A s \in Sides : Still(side[s], side'[s])
  BY DEF Uses
<1>2. /\ Mon(e) = e.mon /\ OwnAction'
      /\ \A s, m : Has(acted', s, m) <=> Has(acted, s, m) \/ (s = e.side /\ m = e.mon)
  BY <1>1, ActedMore
<1>3. /\ \A q \in queue : q.side \in Sides /\ q.slot \in Slots
      /\ Mon(e) = Act(side[e.side])[e.slot]
  BY Entry DEF TypeInv
<1>4. QueueInv'
  <2>1. ASSUME NEW q \in queue, q.slot \notin Rep(side'[q.side])  PROVE Act(side'[q.side])[q.slot] = q.mon
    BY <1>1, <1>3, <2>1 DEF QueueInv, Still
  <2> QED BY <1>1, <2>1 DEF QueueInv
<1>5. ChaseInv'
  <2> SUFFICES ASSUME NEW q \in queue, q # e
               PROVE  Has(acted', q.side, q.mon) <=> q.slot \in Cha(side'[q.side])
    BY <1>1 DEF ChaseInv
  <2>1. Has(acted, q.side, q.mon) <=> q.slot \in Cha(side[q.side])
    BY DEF ChaseInv
  <2>2. ~(q.side = e.side /\ q.mon = e.mon)
    BY DEF QueueInv
  <2>3. Cha(side'[q.side]) = Cha(side[q.side])
    BY <1>1, <1>3 DEF Still
  <2> QED BY <1>2, <2>1, <2>2, <2>3
<1>6. LatchInv'
  <2> SUFFICES ASSUME "swap" \notin Moves, NEW s \in Sides, NEW x \in Rep(side'[s])
               PROVE  Act(side'[s])[x] \in Crs(side'[s])
    BY DEF LatchInv
  <2>1. Still(side[s], side'[s])
    BY <1>1
  <2> QED BY <2>1 DEF LatchInv, Still
<1>7. TurnedInv'
  <2> SUFFICES ASSUME NEW s \in Sides, NEW x \in Slots, x \in Up(side'[s])
               PROVE  \/ Act(side'[s])[x] \in Crs(side'[s]) \/ Has(acted', s, Act(side'[s])[x])
                      \/ Owed(queue' \cup switches, s, x)
    BY <1>1 DEF TurnedInv, Turned
  <2>1. Still(side[s], side'[s])
    BY <1>1
  <2>2. x \in Up(side[s])
    BY <2>1, Reads DEF Still
  <2>3. Act(side[s])[x] \in Crs(side[s]) \/ Has(acted, s, Act(side[s])[x]) \/ Owed(queue \cup switches, s, x)
    BY <2>2 DEF TurnedInv, Turned
  <2>4. Owed(queue \cup switches, s, x) => Owed(queue' \cup switches, s, x) \/ (s = e.side /\ x = e.slot)
    BY <1>1 DEF Owed
  <2>5. Act(side'[s]) = Act(side[s]) /\ Crs(side'[s]) = Crs(side[s])
    BY <2>1 DEF Still
  <2> QED BY <1>2, <1>3, <2>3, <2>4, <2>5
<1> QED BY <1>2, <1>4, <1>5, <1>6, <1>7

LEMMA SwapQueue ==
    ASSUME TypeInv, SwitchInv, QueueInv, ChaseInv, OwnAction, SwapInv, TurnedInv, pc = "loop",
           "swap" \in Moves, NEW e \in queue, Swaps(e)
    PROVE  QueueInv' /\ ChaseInv' /\ OwnAction' /\ LatchInv' /\ TurnedInv'
<1> DEFINE flip(x) == IF x.side = e.side THEN [x EXCEPT !.slot = 1 - @] ELSE x
<1>1. /\ queue' = {flip(x) : x \in queue \ {e}} /\ CanAct(e) /\ switches' = switches
      /\ acted' = acted \cup {[side |-> e.side, mon |-> Mon(e), queued |-> e.mon, how |-> "turn"]}
      /\ Swapped(e.side, side[e.side], side'[e.side]) /\ side'[Foe(e.side)] = side[Foe(e.side)]
  BY DEF Swaps
<1>2. /\ Mon(e) = e.mon /\ OwnAction'
      /\ \A s, m : Has(acted', s, m) <=> Has(acted, s, m) \/ (s = e.side /\ m = e.mon)
  BY <1>1, ActedMore
<1>3. /\ \A q \in queue : q.side \in Sides /\ q.slot \in Slots
      /\ Mon(e) = Act(side[e.side])[e.slot]
      /\ Sides = {e.side, Foe(e.side)} /\ e.side # Foe(e.side) /\ e.side \in Sides
  BY Entry, Basics DEF TypeInv
<1>4. \A x \in Slots : 1 - x \in Slots /\ 1 - (1 - x) = x /\ x # 1 - x /\ \A y \in Slots : y = x \/ y = 1 - x
  BY DEF Slots
<1>5. ASSUME NEW q \in queue
      PROVE  /\ flip(q).side = q.side /\ flip(q).mon = q.mon
             /\ flip(q).slot = (IF q.side = e.side THEN 1 - q.slot ELSE q.slot)
  <2>1. q \in Places
    BY DEF TypeInv
  <2>2. PICK s \in Sides : q \in [side : {s}, slot : Slots, mon : Mons(s)]
    BY <2>1 DEF Places
  <2> QED BY <2>2
<1>6. /\ \A p \in queue' : \E q \in queue \ {e} : p = flip(q)
      /\ \A q \in queue \ {e} : flip(q) \in queue'
  BY <1>1
<1> HIDE DEF flip
<1>7. /\ \A x \in Slots : Act(side'[e.side])[x] = Act(side[e.side])[1 - x]
      /\ Rep(side'[e.side]) = Rep(side[e.side]) /\ Crs(side'[e.side]) = Crs(side[e.side])
      /\ Down(side'[e.side]) = Down(side[e.side])
      /\ \A x \in Slots : x \in Cha(side'[e.side]) <=> 1 - x \in Cha(side[e.side])
  BY <1>1 DEF Swapped
<1>8. switches = {} /\ switches' = {}
  BY <1>1 DEF SwitchInv
<1>9. ASSUME NEW q \in queue, q # e
      PROVE  /\ Act(side'[q.side])[flip(q).slot] = q.mon
             /\ flip(q).slot \in Cha(side'[q.side]) <=> q.slot \in Cha(side[q.side])
  <2>1. Act(side[q.side])[q.slot] = q.mon
    BY DEF QueueInv, SwapInv
  <2>2. CASE q.side = e.side
    BY <1>3, <1>4, <1>5, <1>7, <2>1, <2>2
  <2>3. CASE q.side = Foe(e.side)
    BY <1>1, <1>3, <1>5, <2>1, <2>3
  <2> QED BY <1>3, <2>2, <2>3
<1>10. QueueInv'
  <2>1. ASSUME NEW p \in queue', NEW q \in queue', p.side = q.side, p # q
        PROVE  p.slot # q.slot /\ p.mon # q.mon
    <3>1. PICK a \in queue \ {e} : p = flip(a)
      BY <1>6
    <3>2. PICK b \in queue \ {e} : q = flip(b)
      BY <1>6
    <3>3. a # b /\ a.side = b.side
      BY <1>5, <2>1, <3>1, <3>2
    <3>4. a.slot # b.slot /\ a.mon # b.mon
      BY <3>3 DEF QueueInv
    <3> QED BY <1>3, <1>4, <1>5, <3>1, <3>2, <3>3, <3>4
  <2>2. \A p \in queue' : Act(side'[p.side])[p.slot] = p.mon
    BY <1>5, <1>6, <1>9
  <2> QED BY <1>8, <2>1, <2>2 DEF QueueInv
<1>11. ChaseInv'
  <2> SUFFICES ASSUME NEW p \in queue'
               PROVE  Has(acted', p.side, p.mon) <=> p.slot \in Cha(side'[p.side])
    BY DEF ChaseInv
  <2>1. PICK q \in queue \ {e} : p = flip(q)
    BY <1>6
  <2>2. p.side = q.side /\ p.mon = q.mon /\ (p.slot \in Cha(side'[p.side]) <=> q.slot \in Cha(side[q.side]))
    BY <1>5, <1>9, <2>1
  <2>3. ~(q.side = e.side /\ q.mon = e.mon)
    BY DEF QueueInv
  <2>4. Has(acted, q.side, q.mon) <=> q.slot \in Cha(side[q.side])
    BY DEF ChaseInv
  <2> QED BY <1>2, <2>2, <2>3, <2>4
<1>12. LatchInv'
  BY DEF LatchInv
<1>13. TurnedInv'
  <2> SUFFICES ASSUME pc # "idle", NEW s \in Sides, NEW x \in Slots, x \in Up(side'[s])
               PROVE  \/ Act(side'[s])[x] \in Crs(side'[s]) \/ Has(acted', s, Act(side'[s])[x])
                      \/ Owed(queue', s, x)
    BY <1>8 DEF TurnedInv, Turned
  <2>y. PICK y : y = IF s = e.side THEN 1 - x ELSE x
    OBVIOUS
  <2>1. y \in Slots /\ x = (IF s = e.side THEN 1 - y ELSE y)
    BY <1>4, <2>y
  <2>2. /\ Act(side'[s])[x] = Act(side[s])[y] /\ Crs(side'[s]) = Crs(side[s])
        /\ Down(side'[s]) = Down(side[s])
    BY <1>1, <1>3, <1>7, <2>y
  <2>3. y \in Up(side[s])
    BY <2>1, <2>2, Reads
  <2>4. Act(side[s])[y] \in Crs(side[s]) \/ Has(acted, s, Act(side[s])[y]) \/ Owed(queue, s, y)
    BY <1>8, <2>1, <2>3 DEF TurnedInv, Turned
  <2>5. CASE Owed(queue, s, y)
    <3>1. PICK q \in queue : q.side = s /\ q.slot = y
      BY <2>5 DEF Owed
    <3>2. CASE q = e
      BY <1>2, <1>3, <2>2, <3>1, <3>2
    <3>3. CASE q # e
      <4>1. flip(q) \in queue' /\ flip(q).side = s /\ flip(q).slot = x
        BY <1>5, <1>6, <2>1, <3>1, <3>3
      <4> QED BY <4>1 DEF Owed
    <3> QED BY <3>2, <3>3
  <2> QED BY <1>2, <2>2, <2>4, <2>5
<1> QED BY <1>2, <1>10, <1>11, <1>12, <1>13

\* Who has an order left keeps its slot, and nothing but its own move can flag it.
LEMMA SweptKeeps ==
    ASSUME NEW s \in Sides, NEW d \in SideState(s), NEW e, NEW slot \in Slots, Swept(s, d, e, slot),
           NEW x \in Slots, x \notin Rep(d), FlagAt(d, x) \in {"none", "revive"}
    PROVE  x \notin Rep(e) /\ FlagAt(e, x) \in {"none", "revive"}
<1>1. CASE x = slot
  BY <1>1 DEF Swept, FlagAt
<1>2. CASE x # slot
  <2>1. Act(e)[x] = Act(d)[x] /\ Act(d)[x] \in Mons(s) /\ Rep(e) \subseteq Rep(d) \cup {slot}
    BY <1>2, FlagOf DEF Swept
  <2>2. Flg(e)[Act(d)[x]] = Flg(d)[Act(d)[x]] \/ Flg(e)[Act(d)[x]] = "none"
    BY <2>1 DEF Swept
  <2> QED BY <1>2, <2>1, <2>2 DEF FlagAt
<1> QED BY <1>1, <1>2

LEMMA SwapActs ==
    ASSUME SwapAlone, "swap" \in Moves, TypeInv, QueueInv, SwapInv, NEW e \in queue,
           AttackIs(e) \/ ReviveIs(e) \/ AllySwitchIs(e)
    PROVE  SwapInv'
<1>1. drags = {} /\ halved = {} /\ Button = {} /\ Card = {} /\ Exit = {}
  BY DEF SwapInv, SwapAlone
<1>2. /\ \A q \in queue : q.side \in Sides /\ q.slot \in Slots /\ side[q.side] \in SideState(q.side)
      /\ Mon(e) = Act(side[e.side])[e.slot]
      /\ Sides = {e.side, Foe(e.side)} /\ e.side # Foe(e.side) /\ e.side \in Sides
  BY Entry, Basics DEF TypeInv
<1>3. CanAct(e)
  BY DEF AttackIs, ReviveIs, AllySwitchIs, Acts
<1>4. \A q \in queue : /\ q.slot \notin Rep(side[q.side]) /\ Act(side[q.side])[q.slot] = q.mon
                       /\ FlagAt(side[q.side], q.slot) \in {"none", "revive"}
                       /\ q.mon \in Mons(q.side)
  BY <1>2, FlagOf DEF QueueInv, SwapInv
<1>5. \A q \in queue \ {e} : q.side = e.side => q.mon # Mon(e) /\ q.slot # e.slot
  BY <1>2, <1>4 DEF QueueInv
<1>6. CASE AttackIs(e)
  <2>1. drags' = {} /\ halved' = {} /\ queue' = queue \ {e}
    BY <1>1, <1>6 DEF AttackIs
  <2>2. ASSUME NEW q \in queue, q # e
        PROVE  q.slot \notin Rep(side'[q.side]) /\ FlagAt(side'[q.side], q.slot) \in {"none", "revive"}
    <3>1. CASE q.side = e.side
      <4>1. UserIs(e.side, side[e.side], side'[e.side], Mon(e))
        BY <1>6 DEF AttackIs
      <4>2. /\ Act(side'[e.side]) = Act(side[e.side]) /\ Rep(side'[e.side]) = Rep(side[e.side])
            /\ \A m \in Mons(e.side) : m # Mon(e) => Flg(side'[e.side])[m] = Flg(side[e.side])[m]
        BY <4>1 DEF UserIs, Stays
      <4> QED BY <1>4, <1>5, <2>2, <3>1, <4>2 DEF FlagAt
    <3>2. CASE q.side = Foe(e.side)
      <4>1. FoeIs(Foe(e.side), side[Foe(e.side)], side'[Foe(e.side)])
        BY <1>6 DEF AttackIs
      <4>2. /\ Act(side'[Foe(e.side)]) = Act(side[Foe(e.side)])
            /\ Rep(side'[Foe(e.side)]) = Rep(side[Foe(e.side)])
            /\ \A m \in Mons(Foe(e.side)) : Flg(side'[Foe(e.side)])[m] = Flg(side[Foe(e.side)])[m]
        BY <1>1, <4>1 DEF FoeIs, Stays
      <4> QED BY <1>4, <3>2, <4>2 DEF FlagAt
    <3> QED BY <1>2, <3>1, <3>2
  <2> QED BY <2>1, <2>2 DEF SwapInv
<1>7. CASE ReviveIs(e)
  <2>1. drags' = {} /\ halved' = {} /\ queue' = queue \ {e} /\ side'[Foe(e.side)] = side[Foe(e.side)]
    BY <1>1, <1>7 DEF ReviveIs
  <2>2. ASSUME NEW q \in queue, q # e
        PROVE  q.slot \notin Rep(side'[q.side]) /\ FlagAt(side'[q.side], q.slot) \in {"none", "revive"}
    <3>1. CASE q.side = e.side
      <4>1. Prays(e.side, side[e.side], side'[e.side], Mon(e))
        BY <1>7 DEF ReviveIs
      <4>2. /\ Act(side'[e.side]) = Act(side[e.side]) /\ Rep(side'[e.side]) = Rep(side[e.side])
            /\ \A m \in Mons(e.side) : m # Mon(e) => Flg(side'[e.side])[m] = Flg(side[e.side])[m]
        BY <4>1 DEF Prays, Stays
      <4> QED BY <1>4, <1>5, <2>2, <3>1, <4>2 DEF FlagAt
    <3>2. CASE q.side = Foe(e.side)
      BY <1>4, <2>1, <3>2
    <3> QED BY <1>2, <3>1, <3>2
  <2> QED BY <2>1, <2>2 DEF SwapInv
<1>8. CASE AllySwitchIs(e)
  <2>1. /\ drags' = {} /\ halved' = {} /\ side'[Foe(e.side)] = side[Foe(e.side)]
        /\ queue' = {IF x.side = e.side THEN [x EXCEPT !.slot = 1 - @] ELSE x : x \in queue \ {e}}
        /\ Swapped(e.side, side[e.side], side'[e.side])
    BY <1>1, <1>8 DEF AllySwitchIs
  <2>2. ASSUME NEW p \in queue'
        PROVE  p.slot \notin Rep(side'[p.side]) /\ FlagAt(side'[p.side], p.slot) \in {"none", "revive"}
    <3>1. PICK q \in queue \ {e} : p = (IF q.side = e.side THEN [q EXCEPT !.slot = 1 - @] ELSE q)
      BY <2>1, <2>2
    <3>2. CASE q.side = e.side
      <4>1. q \in Places
        BY DEF TypeInv
      <4>2. p.side = e.side /\ p.slot = 1 - q.slot
        <5>1. PICK s \in Sides : q \in [side : {s}, slot : Slots, mon : Mons(s)]
          BY <4>1 DEF Places
        <5> QED BY <3>1, <3>2, <5>1
      <4>3. p.slot = e.slot /\ p.slot \in Slots /\ 1 - p.slot = q.slot
        BY <1>2, <1>5, <3>2, <4>2 DEF Slots
      <4>4. /\ Rep(side'[e.side]) = Rep(side[e.side]) /\ Flg(side'[e.side]) = Flg(side[e.side])
            /\ Act(side'[e.side])[p.slot] = Act(side[e.side])[q.slot]
        BY <2>1, <4>3 DEF Swapped
      <4>5. e.slot \notin Rep(side[e.side])
        BY <1>3, CanActIs
      <4> QED BY <1>4, <3>2, <4>2, <4>3, <4>4, <4>5 DEF FlagAt
    <3>3. CASE q.side = Foe(e.side)
      BY <1>2, <1>4, <2>1, <3>1, <3>3
    <3> QED BY <1>2, <3>2, <3>3
  <2> QED BY <2>1, <2>2 DEF SwapInv
<1> QED BY <1>6, <1>7, <1>8

LEMMA SwapLeave ==
    ASSUME SwapAlone, "swap" \in Moves, TypeInv, SwitchInv, QueueInv, SwapInv, pc = "switching",
           NEW w \in switches, LeaveIs(w)
    PROVE  SwapInv'
<1>1. /\ drags' = {} /\ halved' = {} /\ queue' = queue /\ Button = {}
  BY DEF SwapInv, SwapAlone, LeaveIs
<1>2. /\ \A q \in queue : q.side \in Sides /\ q.slot \in Slots /\ side[q.side] \in SideState(q.side)
      /\ Sides = {w.side, Foe(w.side)} /\ w.side \in Sides
  BY Entry, Basics DEF TypeInv
<1>3. Left(w.side, side[w.side], side'[w.side], w.slot, w.mon)
  BY DEF LeaveIs, SwitchInv
<1>4. Chased(Foe(w.side), side[Foe(w.side)], side'[Foe(w.side)], {e.slot : e \in Chasers(w)})
  BY DEF LeaveIs
<1>5. ASSUME NEW q \in queue
      PROVE  q.slot \notin Rep(side'[q.side]) /\ FlagAt(side'[q.side], q.slot) \in {"none", "revive"}
  <2>1. q.slot \notin Rep(side[q.side]) /\ FlagAt(side[q.side], q.slot) \in {"none", "revive"}
    BY DEF SwapInv
  <2>2. CASE q.side = w.side
    <3>1. q.slot # w.slot
      BY <2>2 DEF QueueInv
    <3>2. /\ Act(side'[q.side])[q.slot] = Act(side[q.side])[q.slot]
          /\ Rep(side'[q.side]) = Rep(side[q.side])
          /\ \A m \in Mons(q.side) : Flg(side'[q.side])[m] \in {"none", Flg(side[q.side])[m]}
      BY <1>1, <1>2, <1>3, <2>2, <3>1 DEF Left
    <3>3. Act(side[q.side])[q.slot] \in Mons(q.side)
      BY <1>2, FlagOf
    <3> QED BY <2>1, <3>2, <3>3 DEF FlagAt
  <2>3. CASE q.side = Foe(w.side)
    BY <1>4, <2>1, <2>3 DEF Chased, FlagAt
  <2> QED BY <1>2, <2>2, <2>3
<1> QED BY <1>1, <1>5 DEF SwapInv

\* A stop, its answer and its sweep.
LEMMA SwapStop ==
    ASSUME "swap" \in Moves, TypeInv, SwapInv,
           \/ ExitsIs \/ AnswerIs \/ \E s \in todo : SweepIs(s)
    PROVE  SwapInv'
<1>1. drags' = {} /\ halved' = {} /\ queue' = queue /\ drags = {} /\ halved = {}
  BY DEF SwapInv, ExitsIs, AnswerIs, SweepIs
<1>2. \A q \in queue : q.side \in Sides /\ q.slot \in Slots /\ side[q.side] \in SideState(q.side)
  BY Entry DEF TypeInv
<1>3. ASSUME NEW q \in queue
      PROVE  q.slot \notin Rep(side'[q.side]) /\ FlagAt(side'[q.side], q.slot) \in {"none", "revive"}
  <2>d. PICK d : d = side[q.side]
    OBVIOUS
  <2>e. PICK e : e = side'[q.side]
    OBVIOUS
  <2>x. PICK x : x = q.slot
    OBVIOUS
  <2>s. PICK s : s = q.side
    OBVIOUS
  <2>1. /\ s \in Sides /\ x \in Slots /\ d \in SideState(s)
        /\ x \notin Rep(d) /\ FlagAt(d, x) \in {"none", "revive"} /\ Act(d)[x] \in Mons(s)
    BY <1>2, <2>d, <2>x, <2>s, FlagOf DEF SwapInv
  <2>2. CASE ExitsIs
    <3>1. Ordered(s, d, e)
      BY <1>2, <2>2, <2>d, <2>e, <2>s DEF ExitsIs
    <3>2. Act(e) = Act(d) /\ Rep(e) = Rep(d) /\ \A m \in Mons(s) : Flg(e)[m] = Flg(d)[m]
      BY <1>1, <3>1 DEF Ordered, Stays
    <3> QED BY <2>1, <2>e, <2>x, <3>2 DEF FlagAt
  <2>3. CASE AnswerIs
    <3>1. PICK f : Told(s, d, e, f)
      BY <1>2, <2>3, <2>d, <2>e, <2>s DEF AnswerIs
    <3> QED BY <2>1, <2>e, <2>x, <3>1 DEF FlagAt, Told, Stays
  <2>4. ASSUME NEW v \in todo, SweepIs(v)
        PROVE  x \notin Rep(e) /\ FlagAt(e, x) \in {"none", "revive"}
    <3>1. v \in Sides /\ Sides = {v, Foe(v)}
      BY Basics DEF TypeInv
    <3>2. CASE s = v
      <4>1. PICK c : SweptBoth(s, d, c, e)
        BY <2>4, <2>d, <2>e, <2>s, <3>2 DEF SweepIs
      <4>2. Swept(s, d, c, 0) /\ Swept(s, c, e, 1) /\ c \in SideState(s)
        BY <4>1 DEF SweptBoth, Swept
      <4>3. x \notin Rep(c) /\ FlagAt(c, x) \in {"none", "revive"}
        BY <2>1, <4>2, SweptKeeps DEF Slots
      <4> QED BY <2>1, <4>2, <4>3, SweptKeeps DEF Slots
    <3>3. CASE s = Foe(v)
      BY <2>1, <2>4, <2>d, <2>e, <2>s, <3>3 DEF SweepIs
    <3> QED BY <2>1, <3>1, <3>2, <3>3
  <2> QED BY <2>2, <2>3, <2>4, <2>e, <2>x
<1> QED BY <1>1, <1>3 DEF SwapInv

LEMMA SwapStep ==
    ASSUME SwapAlone, TypeInv, SwitchInv, EndInv, QueueInv, SwapInv, [Next]_turnloop
    PROVE  SwapInv'
<1> SUFFICES ASSUME "swap" \in Moves  PROVE SwapInv'
  BY DEF SwapInv
<1>1. CASE UNCHANGED turnloop
  BY <1>1 DEF turnloop, SwapInv
<1>2. CASE BeginIs
  <2>1. \A q \in queue' : q.side \in Sides /\ q.slot \in Slots
    BY <1>2 DEF BeginIs, Ordering, Given, Places
  <2>2. ASSUME NEW s \in Sides, NEW x \in Slots
        PROVE  Rep(side'[s]) = {} /\ FlagAt(side'[s], x) = "none"
    BY <1>2, FlagOf DEF BeginIs, Refreshed, FlagAt
  <2> QED BY <1>2, <2>1, <2>2 DEF BeginIs, SwapInv
<1>3. CASE pc = "switching" /\ \E w \in switches : LeaveIs(w)
  BY <1>3, SwapLeave
<1>4. CASE \E e \in queue : \/ Skip(e) \/ AttackIs(e) \/ ReviveIs(e) \/ AllySwitchIs(e)
  <2>1. PICK e \in queue : Skip(e) \/ AttackIs(e) \/ ReviveIs(e) \/ AllySwitchIs(e)
    BY <1>4
  <2>2. Skip(e) => SwapInv'
    BY DEF Skip, SwapInv
  <2> QED BY <2>1, <2>2, SwapActs
<1>5. ~\E g \in drags : DragIs(g)
  BY DEF SwapInv
<1>6. "phaze" \notin Moves
  BY DEF SwapAlone
<1>7. CASE ExitsIs \/ AnswerIs \/ \E s \in todo : SweepIs(s)
  BY <1>7, SwapStop
<1>8. CASE EndOfActions
  BY <1>8 DEF EndOfActions, SwapInv
<1>9. CASE ResidualIs
  BY <1>9 DEF ResidualIs, SwapInv
<1>10. CASE ReplaceIs
  <2>1. queue' = {} /\ drags' = {} /\ halved' = {}
    BY <1>10 DEF ReplaceIs, EndInv, SwapInv
  <2> QED BY <2>1 DEF SwapInv
<1> QED BY <1>1, <1>2, <1>3, <1>4, <1>5, <1>6, <1>7, <1>8, <1>9, <1>10, Steps

LEMMA ActionInit == ASSUME Init PROVE ActionInv
<1>1. pc = "idle" /\ queue = {} /\ switches = {} /\ drags = {} /\ halved = {} /\ acted = {}
  BY DEF Init
<1>2. \A s \in Sides : Rep(side[s]) = {}
  BY DEF Init, Rep
<1>3. LatchInv
  BY <1>2 DEF LatchInv
<1>4. SwitchInv /\ QueueInv /\ EndInv /\ OwnAction /\ ChaseInv /\ SwapInv /\ TurnedInv
  BY <1>1 DEF SwitchInv, QueueInv, EndInv, OwnAction, ChaseInv, SwapInv, TurnedInv
<1> QED BY <1>3, <1>4 DEF ActionInv

LEMMA ActionStep ==
    ASSUME SwapAlone, TypeInv, TypeInv', ActionInv, [Next]_turnloop
    PROVE  ActionInv'
<1>1. SwitchInv /\ QueueInv /\ EndInv /\ OwnAction /\ ChaseInv /\ LatchInv /\ SwapInv /\ TurnedInv
  BY DEF ActionInv
<1>2. SwitchInv' /\ EndInv' /\ SwapInv'
  BY <1>1, SwitchStep, EndStep, SwapStep
<1>3. CASE BeginIs
  BY <1>2, <1>3, BeginQueue DEF ActionInv
<1>4. CASE pc = "switching" /\ \E w \in switches : LeaveIs(w)
  <2>1. QueueInv' /\ ChaseInv' /\ OwnAction' /\ LatchInv' /\ TurnedInv'
    BY <1>1, <1>4, LeaveQueue
  <2> QED BY <1>2, <2>1 DEF ActionInv
<1>5. ASSUME pc = "loop", NEW e \in queue, Skip(e) \/ Uses(e) \/ ("swap" \in Moves /\ Swaps(e))
      PROVE  ActionInv'
  <2>1. QueueInv' /\ ChaseInv' /\ OwnAction' /\ LatchInv' /\ TurnedInv'
    BY <1>1, <1>5, SkipQueue, UseQueue, SwapQueue
  <2> QED BY <1>2, <2>1 DEF ActionInv
<1>6. CASE Settles
  <2>1. QueueInv' /\ ChaseInv' /\ OwnAction' /\ LatchInv' /\ TurnedInv'
    BY <1>1, <1>6, SettleQueue
  <2> QED BY <1>2, <2>1 DEF ActionInv
<1>7. CASE Ends
  <2>1. QueueInv' /\ ChaseInv' /\ OwnAction' /\ LatchInv' /\ TurnedInv'
    BY <1>1, <1>7 DEF Ends, QueueInv, ChaseInv, OwnAction, LatchInv, TurnedInv
  <2> QED BY <1>2, <2>1 DEF ActionInv
<1> QED BY <1>1, <1>3, <1>4, <1>5, <1>6, <1>7, StepKinds

(* Actions follow the mons they were chosen for, whatever switches, drags,  *)
(* pivots, Pursuits and revivals move: nobody acts twice in a turn or on    *)
(* somebody else's action (battle.rs 600-602), and whoever was given a move *)
(* and stayed has acted when the turn ends.  Only Ally Switch beside forced *)
(* switches is left out: there the code itself loses an action.             *)
THEOREM ActionsFollowMonsHolds ==
    ASSUME SwapAlone
    PROVE  Spec => []ActionsFollowMons
<1>1. Init => ActionInv
  BY ActionInit
<1>2. TypeInv /\ TypeInv' /\ ActionInv /\ [Next]_turnloop => ActionInv'
  BY ActionStep
<1>3. ActionInv => ActionsFollowMons
  <2> SUFFICES ASSUME ActionInv, pc = "residual", ~Over(side), NEW s \in Sides, NEW slot \in Up(side[s])
               PROVE  \/ side[s].active[slot] \in side[s].crossed
                      \/ \E x \in acted : x.side = s /\ x.mon = side[s].active[slot]
    BY DEF ActionInv, ActionsFollowMons, EveryoneActs
  <2>1. queue = {} /\ switches = {} /\ slot \in Slots
    BY DEF ActionInv, EndInv, SwitchInv, Up
  <2>2. Turned(s, side[s], slot, acted, queue \cup switches)
    BY <2>1 DEF ActionInv, TurnedInv
  <2> QED BY <2>1, <2>2 DEF Turned, Has, Owed, Act, Crs
<1> QED BY <1>1, <1>2, <1>3, TypeCorrect, PTL DEF Spec
=============================================================================
