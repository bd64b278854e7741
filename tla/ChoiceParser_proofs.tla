------------------------ MODULE ChoiceParser_proofs ------------------------
(***************************************************************************)
(* Proofs about ChoiceParser, for every team size, move set, string of     *)
(* parts and request.  IInv, the inductive invariant, says what the parts  *)
(* read so far have filled: the actions are legal one by one, the switch   *)
(* counters are what those actions spend, and what a request tells a side  *)
(* is what has been told before.  SwitchLeft is the count behind it: as    *)
(* long as a forced slot is unanswered and no forced pass is left, some    *)
(* mon on the bench is unspoken for.                                       *)
(***************************************************************************)
EXTENDS ChoiceParser, FiniteSetTheorems, SequenceTheorems, WellFoundedInduction, TLAPS

Act ==
    {PassAct} \cup [act : {"switch", "team"}, pos : Pos]
      \cup [act : {"move"}, m : 0 .. Slots, loc : Loc, mega : BOOLEAN, tera : BOOLEAN]

Parser == [acts : Seq(Act), ins : SUBSET Pos, fs : Nat, fp : Int, mega : BOOLEAN,
           tera : BOOLEAN, err : BOOLEAN, cant : BOOLEAN]

Entry == [off : SUBSET Slot, told : SUBSET Slot, trapped : BOOLEAN, maybeTrapped : BOOLEAN,
          maybeOff : BOOLEAN, maybeLocked : BOOLEAN, mega : BOOLEAN, tera : BOOLEAN]

-----------------------------------------------------------------------------
(* What a request may say of a slot.                                        *)
Honest(b, a, r) ==
    /\ r \in Entry
    /\ r.maybeOff \/ r.maybeLocked \/ r.maybeTrapped => IsLast(b, a)
    /\ r.maybeOff /\ N < 2 => r.maybeLocked \/ Mode(b, a) = "menu"
    /\ r.mega => a \in b.mega
    /\ r.tera => a \in b.tera

Requests(b, sh) == sh \in [Active -> Entry] /\ \A a \in Active : Honest(b, a, sh[a])

-----------------------------------------------------------------------------
(* What has been read of an answer.                                         *)

\* A part that a slot may be given.
SlotLegal(b, a, x) ==
    /\ b.kind = "Move" =>
          IF a \in AutoPass(b) THEN x = PassAct
          ELSE \/ x.act = "move" /\ LegalMove(b, a, x)
               \/ x.act = "switch" /\ x.pos \in Living(b) /\ ~ReallyTrapped(b, a)
    /\ b.kind = "Switch" =>
          \/ x = PassAct
          \/ /\ x.act = "switch" /\ a \in b.force
             /\ IF b.reviving # {} THEN x.pos \in b.fainted ELSE x.pos \in Living(b)

\* What the parser keeps of a part, to refuse a second one like it.
Noted(b, q, x) ==
    /\ x.act = "switch" /\ b.reviving = {} => x.pos \in q.ins
    /\ x.act = "move" => (x.mega => q.mega) /\ (x.tera => q.tera)

Apart(b, x, y) ==
    /\ x.act = "switch" /\ y.act = "switch" /\ b.reviving = {} => x.pos # y.pos
    /\ x.act = "move" /\ y.act = "move" => ~(x.mega /\ y.mega) /\ ~(x.tera /\ y.tera)

\* An answer that can still be changed has found out nothing.
Harmless(b, sh, q, a, x) ==
    b.kind = "Move" /\ ~q.cant =>
        /\ x.act = "move"   => ~(sh[a].maybeOff /\ N < 2)
        /\ x.act = "switch" => ~sh[a].maybeTrapped

Sent(acts) == {k \in 1 .. Len(acts) : acts[k].act = "switch"}

\* The forced switches still to come, and the mons named for the others.
Counted(b, q) ==
    b.kind = "Switch" /\ b.reviving = {} =>
        /\ q.fs + Cardinality(Sent(q.acts)) = AtMost(Cardinality(b.force), Cardinality(Living(b)))
        /\ q.ins \subseteq Living(b) /\ Cardinality(q.ins) = Cardinality(Sent(q.acts))

\* What is final leaves nothing to choose.
Finished(b, q) ==
    q.cant => b.kind = "Move" /\ \A a \in Active : a > Len(q.acts) => Skips(b, a)

Slotwise(b, sh, q) ==
    /\ Len(q.acts) <= N
    /\ \A k \in 1 .. Len(q.acts) :
          /\ SlotLegal(b, k, q.acts[k]) /\ Noted(b, q, q.acts[k])
          /\ Harmless(b, sh, q, k, q.acts[k])
    /\ \A j, k \in 1 .. Len(q.acts) : j < k => Apart(b, q.acts[j], q.acts[k])

ReadWell(b, sh, q) ==
    /\ q \in Parser
    /\ b.kind # "TeamPreview" => Slotwise(b, sh, q)
    /\ b.kind = "Move" => q.fs = 0
    /\ Finished(b, q) /\ Counted(b, q)

-----------------------------------------------------------------------------
(* The choices already made, one part more.                                 *)

LEMMA Widths == N \in {1, 2} /\ Active = 1 .. N /\ Mons \in Nat /\ Slots \in Nat /\ Slots >= 1
BY ParserAssumption DEF Active

LEMMA PassIsAct == PassAct \in Act /\ PassAct.act = "pass"
BY DEF PassAct, Act

LEMMA AppendIs ==
    ASSUME NEW S, NEW s \in Seq(S), NEW x \in S
    PROVE  /\ Append(s, x) \in Seq(S) /\ Len(Append(s, x)) = Len(s) + 1
           /\ \A k \in 1 .. Len(s) : Append(s, x)[k] = s[k]
           /\ Append(s, x)[Len(s) + 1] = x
BY AppendProperties, LenProperties

LEMMA SentIs ==
    ASSUME NEW s \in Seq(Act), NEW x \in Act
    PROVE  Sent(Append(s, x)) = IF x.act = "switch" THEN Sent(s) \cup {Len(s) + 1} ELSE Sent(s)
<1>1. Len(s) \in Nat
  BY LenProperties
<1> QED BY <1>1, AppendIs DEF Sent

LEMMA SentFinite ==
    ASSUME NEW s \in Seq(Act)
    PROVE  IsFiniteSet(Sent(s)) /\ Cardinality(Sent(s)) \in Nat
<1>1. Len(s) \in Nat
  BY LenProperties
<1>2. IsFiniteSet(1 .. Len(s))
  BY <1>1, FS_Interval
<1>3. Sent(s) \subseteq 1 .. Len(s)
  BY DEF Sent
<1> QED BY <1>2, <1>3, FS_Subset, FS_CardinalityType

LEMMA SentMore ==
    ASSUME NEW s \in Seq(Act), NEW x \in Act
    PROVE  Cardinality(Sent(Append(s, x))) =
             IF x.act = "switch" THEN Cardinality(Sent(s)) + 1 ELSE Cardinality(Sent(s))
<1>1. Len(s) + 1 \notin Sent(s)
  BY LenProperties DEF Sent
<1> QED BY <1>1, SentIs, SentFinite, FS_AddElement

\* Where the next part goes.
LEMMA NextSlotIs ==
    ASSUME NEW b, NEW i \in Nat \ {0}
    PROVE  LET n == NextSlot(b, i) IN
           /\ n \in {i, i + 1, i + 2} /\ (i <= N => n <= N + 1) /\ (i > N => n = i)
           /\ \A a \in Active : i <= a /\ a < n => Skips(b, a)
           /\ n <= N => ~Skips(b, n)
BY Widths DEF NextSlot, Active

LEMMA FilledIs ==
    ASSUME NEW b, NEW s \in Seq(Act)
    PROVE  LET n == NextSlot(b, Len(s) + 1) IN
           \/ n = Len(s) + 1 /\ Filled(b, s) = s
           \/ n = Len(s) + 2 /\ Filled(b, s) = Append(s, PassAct)
           \/ n = Len(s) + 3 /\ Filled(b, s) = Append(Append(s, PassAct), PassAct)
<1> DEFINE n == NextSlot(b, Len(s) + 1)
           k == n - Len(s) - 1
           t == [i \in 1 .. k |-> PassAct]
<1>1. Len(s) \in Nat
  BY LenProperties
<1>2. n \in {Len(s) + 1, Len(s) + 2, Len(s) + 3}
  BY <1>1, NextSlotIs
<1>3. Filled(b, s) = s \o t
  BY DEF Filled
<1>4. CASE k = 0
  <2>1. t = <<>>
    BY <1>4
  <2> QED BY <2>1, <1>1, <1>2, <1>3, <1>4, ConcatEmptySeq
<1>5. CASE k = 1
  <2>1. t = <<PassAct>>
    BY <1>5
  <2> QED BY <2>1, <1>1, <1>2, <1>3, <1>5, AppendIsConcat, PassIsAct
<1>6. CASE k = 2
  <2> DEFINE u == s \o t
             v == Append(Append(s, PassAct), PassAct)
  <2>1. t \in Seq(Act) /\ Len(t) = 2 /\ t[1] = PassAct /\ t[2] = PassAct
    <3>1. t = <<PassAct, PassAct>>
      BY <1>6
    <3>2. <<PassAct, PassAct>> \in Seq(Act)
      BY PassIsAct
    <3> HIDE DEF t
    <3> QED BY <3>1, <3>2
  <2> HIDE DEF t
  <2>2. u \in Seq(Act) /\ Len(u) = Len(s) + 2 /\ \A i \in 1 .. Len(s) + 2 :
           u[i] = IF i <= Len(s) THEN s[i] ELSE PassAct
    <3>1. u \in Seq(Act) /\ Len(u) = Len(s) + Len(t) /\ \A i \in 1 .. Len(s) + Len(t) :
             u[i] = IF i <= Len(s) THEN s[i] ELSE t[i - Len(s)]
      BY <2>1, ConcatProperties
    <3>2. \A i \in 1 .. Len(s) + 2 : i <= Len(s) \/ i - Len(s) = 1 \/ i - Len(s) = 2
      BY <1>1
    <3> HIDE DEF u
    <3> QED BY <3>1, <3>2, <2>1
  <2>3. v \in Seq(Act) /\ Len(v) = Len(s) + 2 /\ \A i \in 1 .. Len(s) + 2 :
           v[i] = IF i <= Len(s) THEN s[i] ELSE PassAct
    BY <1>1, PassIsAct, AppendIs
  <2>4. u = v
    BY <2>2, <2>3, SeqEqual
  <2> QED BY <2>4, <1>1, <1>2, <1>3, <1>6
<1> QED BY <1>1, <1>2, <1>4, <1>5, <1>6

\* One part more, of a slot that may have it, leaves an answer read well.
LEMMA Grows ==
    ASSUME NEW b, b.kind # "TeamPreview", NEW sh, NEW q, ReadWell(b, sh, q), Len(q.acts) < N,
           NEW x \in Act, NEW r \in Parser, r.acts = Append(q.acts, x),
           q.ins \subseteq r.ins, q.mega => r.mega, q.tera => r.tera, q.cant => r.cant,
           SlotLegal(b, Len(r.acts), x), Noted(b, r, x), Harmless(b, sh, r, Len(r.acts), x),
           \A k \in 1 .. Len(q.acts) : Apart(b, q.acts[k], x),
           b.kind = "Move" => r.fs = 0, Finished(b, r), Counted(b, r)
    PROVE  ReadWell(b, sh, r)
<1>1. q \in Parser /\ Slotwise(b, sh, q)
  BY DEF ReadWell
<1>2. q.acts \in Seq(Act) /\ Len(q.acts) \in Nat
  BY <1>1, LenProperties DEF Parser
<1>3. /\ Len(r.acts) = Len(q.acts) + 1 /\ r.acts[Len(r.acts)] = x
      /\ \A k \in 1 .. Len(q.acts) : r.acts[k] = q.acts[k]
  BY <1>2, AppendIs
<1>4. Len(r.acts) <= N
  BY <1>2, <1>3, Widths
<1>5. ASSUME NEW k \in 1 .. Len(r.acts)
      PROVE  /\ SlotLegal(b, k, r.acts[k]) /\ Noted(b, r, r.acts[k])
             /\ Harmless(b, sh, r, k, r.acts[k])
  <2>1. CASE k = Len(r.acts)
    BY <2>1, <1>3
  <2>2. CASE k # Len(r.acts)
    <3>1. k \in 1 .. Len(q.acts) /\ r.acts[k] = q.acts[k]
      BY <2>2, <1>2, <1>3
    <3>2. SlotLegal(b, k, q.acts[k]) /\ Noted(b, q, q.acts[k]) /\ Harmless(b, sh, q, k, q.acts[k])
      BY <3>1, <1>1 DEF Slotwise
    <3>3. Noted(b, r, q.acts[k])
      BY <3>2 DEF Noted
    <3>4. Harmless(b, sh, r, k, q.acts[k])
      BY <3>2 DEF Harmless
    <3> QED BY <3>1, <3>2, <3>3, <3>4
  <2> QED BY <2>1, <2>2
<1>6. ASSUME NEW j \in 1 .. Len(r.acts), NEW k \in 1 .. Len(r.acts), j < k
      PROVE  Apart(b, r.acts[j], r.acts[k])
  <2>1. j \in 1 .. Len(q.acts) /\ r.acts[j] = q.acts[j]
    BY <1>2, <1>3, <1>6
  <2>2. CASE k = Len(r.acts)
    BY <2>1, <2>2, <1>3
  <2>3. CASE k # Len(r.acts)
    <3>1. k \in 1 .. Len(q.acts) /\ r.acts[k] = q.acts[k]
      BY <2>3, <1>2, <1>3
    <3> QED BY <3>1, <2>1, <1>1, <1>6 DEF Slotwise
  <2> QED BY <2>2, <2>3
<1>7. Slotwise(b, sh, r)
  BY <1>4, <1>5, <1>6 DEF Slotwise
<1> QED BY <1>7 DEF ReadWell

LEMMA FinishedGrows ==
    ASSUME NEW b, NEW q, Finished(b, q), q.acts \in Seq(Act), NEW x \in Act, NEW r,
           r.acts = Append(q.acts, x), r.cant = q.cant
    PROVE  Finished(b, r)
<1>1. Len(q.acts) \in Nat /\ Len(r.acts) = Len(q.acts) + 1
  BY LenProperties, AppendIs
<1> QED BY <1>1, Widths DEF Finished, Active

\* A pass, of a slot that has nothing to choose or no mon left to send in.
LEMMA PassGrows ==
    ASSUME NEW b, b.kind # "TeamPreview", NEW sh, NEW q, ReadWell(b, sh, q), Len(q.acts) < N,
           b.kind = "Move" => Len(q.acts) + 1 \in AutoPass(b), NEW i \in Int
    PROVE  ReadWell(b, sh, [q EXCEPT !.acts = Append(q.acts, PassAct), !.fp = i])
<1> DEFINE r == [q EXCEPT !.acts = Append(q.acts, PassAct), !.fp = i]
<1>1. q \in Parser /\ q.acts \in Seq(Act) /\ Len(q.acts) \in Nat
  BY LenProperties DEF ReadWell, Parser
<1>2. r \in Parser /\ r.acts = Append(q.acts, PassAct) /\ r.ins = q.ins /\ r.fs = q.fs
      /\ r.mega = q.mega /\ r.tera = q.tera /\ r.cant = q.cant
  BY <1>1, PassIsAct, AppendIs DEF Parser
<1>3. Len(r.acts) = Len(q.acts) + 1
  BY <1>1, <1>2, PassIsAct, AppendIs
<1> HIDE DEF r
<1>4. SlotLegal(b, Len(r.acts), PassAct)
  BY <1>3 DEF SlotLegal
<1>5. Noted(b, r, PassAct) /\ Harmless(b, sh, r, Len(r.acts), PassAct)
      /\ \A k \in 1 .. Len(q.acts) : Apart(b, q.acts[k], PassAct)
  BY PassIsAct DEF Noted, Harmless, Apart
<1>6. Finished(b, r)
  BY <1>1, <1>2, PassIsAct, FinishedGrows DEF ReadWell
<1>7. Sent(r.acts) = Sent(q.acts)
  BY <1>1, <1>2, PassIsAct, SentIs
<1>8. Counted(b, r)
  BY <1>2, <1>7 DEF Counted, ReadWell
<1>9. b.kind = "Move" => r.fs = 0
  BY <1>2 DEF ReadWell
<1>10. ReadWell(b, sh, r)
  BY <1>2, <1>4, <1>5, <1>6, <1>8, <1>9, PassIsAct, Grows
<1> QED BY <1>10 DEF r

LEMMA Asked ==
    ASSUME NEW b \in Situations
    PROVE  /\ b \in Situation
           /\ b.kind # "Switch" => b.force = {} /\ b.reviving = {}
           /\ b.kind = "Switch" /\ b.reviving # {} => b.reviving = b.force
           /\ b.force \subseteq Active /\ b.reviving \subseteq Active /\ b.mega \subseteq Active
           /\ b.tera \subseteq Active /\ b.fainted \subseteq Pos
<1>1. b \in Situation /\ Askable(b)
  BY ParserAssumption
<1>2. /\ b.force \subseteq Active /\ b.reviving \subseteq Active /\ b.mega \subseteq Active
      /\ b.tera \subseteq Active /\ b.fainted \subseteq Pos
  BY <1>1 DEF Situation
<1> QED BY <1>1, <1>2 DEF Askable

LEMMA SetsFinite ==
    ASSUME NEW b \in Situations
    PROVE  /\ IsFiniteSet(Living(b)) /\ IsFiniteSet(b.force)
           /\ Cardinality(Living(b)) \in Nat /\ Cardinality(b.force) \in Nat
<1>1. IsFiniteSet(Pos) /\ IsFiniteSet(Active)
  BY Widths, FS_Interval DEF Pos, Active
<1>2. Living(b) \subseteq Pos /\ b.force \subseteq Active
  BY Asked DEF Living
<1> QED BY <1>1, <1>2, FS_Subset, FS_CardinalityType

Filling(b, q) == [q EXCEPT !.acts = Filled(b, @)]

\* The automatic passes, up to a slot that has to choose.
LEMMA FillingReads ==
    ASSUME NEW b \in Situations, NEW sh, NEW q, ReadWell(b, sh, q)
    PROVE  /\ ReadWell(b, sh, Filling(b, q))
           /\ Len(Filling(b, q).acts) + 1 <= N => ~Skips(b, Len(Filling(b, q).acts) + 1)
           /\ Filling(b, q).cant = q.cant
<1> DEFINE n == NextSlot(b, Len(q.acts) + 1)
           q1 == [q EXCEPT !.acts = Append(q.acts, PassAct), !.fp = q.fp]
           q2 == [q1 EXCEPT !.acts = Append(q1.acts, PassAct), !.fp = q1.fp]
<1>1. q \in Parser /\ q.acts \in Seq(Act) /\ Len(q.acts) \in Nat
  BY LenProperties DEF ReadWell, Parser
<1>2. /\ n \in {Len(q.acts) + 1, Len(q.acts) + 2, Len(q.acts) + 3}
      /\ Len(q.acts) + 1 <= N => n <= N + 1
      /\ Len(q.acts) + 1 > N => n = Len(q.acts) + 1
      /\ \A a \in Active : Len(q.acts) + 1 <= a /\ a < n => Skips(b, a)
      /\ n <= N => ~Skips(b, n)
  BY <1>1, NextSlotIs
<1>3. \A a : Skips(b, a) => b.kind # "TeamPreview" /\ (b.kind = "Move" => a \in AutoPass(b))
  BY DEF Skips
<1>4. Filling(b, q).cant = q.cant /\ Filling(b, q).acts = Filled(b, q.acts)
  BY <1>1 DEF Filling, Parser
<1>5. CASE n = Len(q.acts) + 1
  <2>1. Filled(b, q.acts) = q.acts
    BY <1>1, <1>5, FilledIs
  <2>2. Filling(b, q) = q
    BY <2>1, <1>1 DEF Filling, Parser
  <2> HIDE DEF n
  <2> QED BY <2>2, <1>1, <1>2, <1>4, <1>5
<1>6. ASSUME n > Len(q.acts) + 1
      PROVE  ReadWell(b, sh, q1) /\ q1.acts = Append(q.acts, PassAct) /\ Len(q1.acts) = Len(q.acts) + 1 /\ q1.fp = q.fp
  <2>1. Len(q.acts) < N /\ Len(q.acts) + 1 \in Active
    BY <1>1, <1>2, <1>6, Widths
  <2>2. Skips(b, Len(q.acts) + 1)
    BY <1>1, <1>2, <1>6, <2>1
  <2>3. q.fp \in Int
    BY <1>1 DEF Parser
  <2>4. ReadWell(b, sh, q1)
    BY <2>1, <2>2, <2>3, <1>3, PassGrows
  <2> QED BY <2>4, <1>1, PassIsAct, AppendIs DEF Parser
<1>7. CASE n = Len(q.acts) + 2
  <2>1. Filled(b, q.acts) = Append(q.acts, PassAct)
    BY <1>1, <1>7, FilledIs
  <2>2. Filling(b, q) = q1
    BY <2>1, <1>1 DEF Filling, Parser
  <2> HIDE DEF n, q1
  <2> QED BY <2>2, <1>1, <1>2, <1>4, <1>6, <1>7
<1>8. CASE n = Len(q.acts) + 3
  <2>0. ReadWell(b, sh, q1) /\ q1.acts = Append(q.acts, PassAct) /\ Len(q1.acts) = Len(q.acts) + 1
    BY <1>1, <1>6, <1>8
  <2>1. Filled(b, q.acts) = Append(Append(q.acts, PassAct), PassAct)
    BY <1>1, <1>8, FilledIs
  <2>2. Filling(b, q) = q2
    BY <2>1, <1>1 DEF Filling, Parser
  <2>3. Len(q1.acts) < N /\ Len(q1.acts) + 1 \in Active
    BY <2>0, <1>1, <1>2, <1>8, Widths
  <2>4. Skips(b, Len(q1.acts) + 1)
    BY <2>0, <2>3, <1>1, <1>2, <1>8
  <2>5. q1 \in Parser /\ q1.fp \in Int /\ q1.acts \in Seq(Act)
    BY <2>0 DEF ReadWell, Parser
  <2>6. ReadWell(b, sh, q2)
    BY <2>0, <2>3, <2>4, <2>5, <1>3, PassGrows
  <2>7. q2.acts = Append(q1.acts, PassAct)
    BY <2>5 DEF Parser
  <2>8. Len(q2.acts) = Len(q.acts) + 2
    BY <2>0, <2>5, <2>7, <1>1, PassIsAct, AppendIs
  <2> HIDE DEF n, q1, q2
  <2> QED BY <2>2, <2>6, <2>8, <1>1, <1>2, <1>4, <1>8
<1> QED BY <1>2, <1>5, <1>7, <1>8

\* A request that tells more leaves what was read as it was.
LEMMA Tightens ==
    ASSUME NEW b, NEW sh, NEW q, ReadWell(b, sh, q), NEW t,
           \A a \in Active : /\ t[a].maybeOff => sh[a].maybeOff
                             /\ t[a].maybeTrapped => sh[a].maybeTrapped
    PROVE  ReadWell(b, t, q)
<1>1. CASE b.kind = "TeamPreview"
  BY <1>1 DEF ReadWell
<1>2. CASE b.kind # "TeamPreview"
  <2>1. Slotwise(b, sh, q) /\ q.acts \in Seq(Act)
    BY <1>2 DEF ReadWell, Parser
  <2>2. \A k \in 1 .. Len(q.acts) : k \in Active
    BY <2>1, Widths, LenProperties DEF Slotwise
  <2>3. \A k \in 1 .. Len(q.acts) : Harmless(b, sh, q, k, q.acts[k]) => Harmless(b, t, q, k, q.acts[k])
    BY <2>2 DEF Harmless
  <2>4. Slotwise(b, t, q)
    BY <2>1, <2>3 DEF Slotwise
  <2> QED BY <2>4 DEF ReadWell
<1> QED BY <1>1, <1>2

LEMMA ErrorReads ==
    ASSUME NEW b, NEW sh, NEW q, ReadWell(b, sh, q)
    PROVE  ReadWell(b, sh, [q EXCEPT !.err = TRUE])
<1> DEFINE r == [q EXCEPT !.err = TRUE]
<1>1. q \in Parser
  BY DEF ReadWell
<1>2. r \in Parser /\ r.acts = q.acts /\ r.ins = q.ins /\ r.fs = q.fs /\ r.mega = q.mega
      /\ r.tera = q.tera /\ r.cant = q.cant
  BY <1>1 DEF Parser
<1> HIDE DEF r
<1>3. Slotwise(b, sh, q) => Slotwise(b, sh, r)
  BY <1>2 DEF Slotwise, Noted, Harmless
<1>4. Finished(b, r) /\ Counted(b, r)
  BY <1>2 DEF ReadWell, Finished, Counted
<1>5. ReadWell(b, sh, r)
  BY <1>2, <1>3, <1>4 DEF ReadWell
<1> QED BY <1>5 DEF r

\* A part has been dealt with: the answer is read well, and the request is honest.
Fine(o) == Requests(battle, o.shown) /\ ReadWell(battle, o.shown, o.p)

LEMMA RefusedFine ==
    ASSUME NEW q, Requests(battle, shown), ReadWell(battle, shown, q)
    PROVE  Fine(Refused(q))
<1>1. Refused(q).p = [q EXCEPT !.err = TRUE] /\ Refused(q).shown = shown
  BY DEF Refused
<1> QED BY <1>1, ErrorReads DEF Fine

LEMMA TookFine ==
    ASSUME NEW q, Requests(battle, shown), ReadWell(battle, shown, q)
    PROVE  Fine(Took(q))
<1>1. Took(q).p = q /\ Took(q).shown = shown
  BY DEF Took
<1> QED BY <1>1 DEF Fine

\* ... with what a refusal tells about one slot.
LEMMA ToldFine ==
    ASSUME NEW q, Requests(battle, shown), ReadWell(battle, shown, q), NEW a \in Active, NEW r,
           Honest(battle, a, r), r.maybeOff => shown[a].maybeOff,
           r.maybeTrapped => shown[a].maybeTrapped,
           NEW o, o.p = [q EXCEPT !.err = TRUE], o.shown = [shown EXCEPT ![a] = r]
    PROVE  Fine(o)
<1>1. shown \in [Active -> Entry] /\ r \in Entry
  BY DEF Requests, Honest
<1>2. o.shown \in [Active -> Entry] /\ o.shown[a] = r /\ \A c \in Active : c # a => o.shown[c] = shown[c]
  BY <1>1
<1>3. Requests(battle, o.shown)
  BY <1>2 DEF Requests
<1>4. ReadWell(battle, o.shown, q)
  BY <1>2, Tightens
<1> QED BY <1>3, <1>4, ErrorReads DEF Fine

LEMMA ToldHonest ==
    ASSUME NEW b, NEW a, NEW r, Honest(b, a, r), Mode(b, a) = "menu" \/ ~(r.maybeOff /\ N < 2)
    PROVE  /\ Honest(b, a, Told(b, a, r))
           /\ ~Told(b, a, r).maybeLocked /\ (Told(b, a, r).maybeOff => r.maybeOff /\ N < 2)
           /\ Told(b, a, r).maybeTrapped = r.maybeTrapped
<1> DEFINE bare == [r EXCEPT !.maybeLocked = FALSE, !.maybeOff = @ /\ N < 2,
                             !.off = IF r.maybeOff /\ N >= 2 /\ Mode(b, a) = "menu"
                                     THEN @ \cup Really(b, a) ELSE @]
<1>1. r \in Entry /\ Really(b, a) \subseteq Slot
  BY DEF Honest, Really
<1>2. /\ bare \in Entry /\ bare.mega = r.mega /\ bare.tera = r.tera /\ ~bare.maybeLocked
      /\ bare.maybeOff = (r.maybeOff /\ N < 2) /\ bare.maybeTrapped = r.maybeTrapped
  BY <1>1 DEF Entry
<1>3. Told(b, a, r) \in {bare, [bare EXCEPT !.mega = FALSE, !.tera = FALSE]}
  BY DEF Told
<1> HIDE DEF bare
<1> DEFINE t == Told(b, a, r)
<1> HIDE DEF t
<1>4. /\ t \in Entry /\ (t.mega => r.mega) /\ (t.tera => r.tera) /\ ~t.maybeLocked
      /\ t.maybeOff = (r.maybeOff /\ N < 2) /\ t.maybeTrapped = r.maybeTrapped
  BY <1>2, <1>3 DEF Entry, t
<1>5. Honest(b, a, t)
  BY <1>4 DEF Honest
<1> QED BY <1>4, <1>5 DEF t

-----------------------------------------------------------------------------
(* The parts.                                                               *)

LEMMA PassFine ==
    ASSUME NEW q, battle \in Situations, Requests(battle, shown), ReadWell(battle, shown, q)
    PROVE  Fine(ChoosePass(battle, q))
<1> DEFINE a == Len(q.acts) + 1
           i == IF battle.kind = "Switch" /\ a \in battle.force THEN q.fp - 1 ELSE q.fp
           r == [q EXCEPT !.acts = Append(q.acts, PassAct), !.fp = i]
<1>1. q \in Parser /\ q.acts \in Seq(Act) /\ Len(q.acts) \in Nat /\ q.fp \in Int /\ i \in Int
  BY LenProperties DEF ReadWell, Parser
<1>2. CASE \/ a > N \/ battle.kind = "TeamPreview"
           \/ battle.kind = "Switch" /\ a \in battle.force /\ q.fp = 0
           \/ battle.kind = "Move" /\ a \notin AutoPass(battle)
  <2>1. ChoosePass(battle, q) = Refused(q)
    BY <1>2 DEF ChoosePass
  <2> QED BY <2>1, RefusedFine
<1>3. CASE ~(\/ a > N \/ battle.kind = "TeamPreview"
             \/ battle.kind = "Switch" /\ a \in battle.force /\ q.fp = 0
             \/ battle.kind = "Move" /\ a \notin AutoPass(battle))
  <2>1. ChoosePass(battle, q) = Took(r)
    BY <1>1, <1>3 DEF ChoosePass, Parser
  <2>2. Len(q.acts) < N
    BY <1>1, <1>3, Widths
  <2>3. ReadWell(battle, shown, r)
    BY <1>1, <1>3, <2>2, PassGrows
  <2> QED BY <2>1, <2>3, TookFine
<1> QED BY <1>2, <1>3

LEMMA MappedSeq == ASSUME NEW S, NEW n \in Nat, NEW f \in [1 .. n -> S] PROVE f \in Seq(S)
OBVIOUS

LEMMA TeamFine ==
    ASSUME NEW q, battle \in Situations, Requests(battle, shown), ReadWell(battle, shown, q), NEW order
    PROVE  Fine(ChooseTeam(battle, q, order))
<1> DEFINE t == TeamOrder(order)
           out == \/ battle.kind # "TeamPreview"
                  \/ \E i \in 1 .. Picked : t[i] \notin Pos
                  \/ \E i, j \in 1 .. Picked : i < j /\ t[i] = t[j]
           f == [i \in 1 .. Picked |-> [act |-> "team", pos |-> t[i]]]
           r == [q EXCEPT !.acts = @ \o f, !.ins = @ \cup {t[i] : i \in 1 .. Picked}]
<1>1. CASE out
  <2>1. ChooseTeam(battle, q, order) = Refused(q)
    BY <1>1 DEF ChooseTeam
  <2> QED BY <2>1, RefusedFine
<1>2. CASE ~out
  <2>1. ChooseTeam(battle, q, order) = Took(r)
    BY <1>2 DEF ChooseTeam
  <2>2. q \in Parser /\ q.acts \in Seq(Act)
    BY DEF ReadWell, Parser
  <2>3. f \in [1 .. Picked -> Act]
    BY <1>2 DEF Act
  <2>4. Picked \in Nat
    BY ParserAssumption
  <2>5. f \in Seq(Act)
    BY <2>3, <2>4, MappedSeq
  <2>6. q.acts \o f \in Seq(Act) /\ {t[i] : i \in 1 .. Picked} \subseteq Pos
    BY <1>2, <2>2, <2>5, ConcatProperties
  <2>7. r \in Parser /\ r.cant = q.cant
    BY <2>2, <2>6 DEF Parser
  <2>8. battle.kind = "TeamPreview"
    BY <1>2
  <2> HIDE DEF r
  <2>9. ReadWell(battle, shown, r)
    BY <2>7, <2>8 DEF ReadWell, Finished, Counted
  <2> QED BY <2>1, <2>9, TookFine
<1> QED BY <1>1, <1>2

LEMMA JunkFine ==
    ASSUME NEW q, Requests(battle, shown), ReadWell(battle, shown, q)
    PROVE  Fine(Junk(q))
BY ErrorReads, TookFine DEF Junk

LEMMA ShiftFine ==
    ASSUME NEW q, battle \in Situations, Requests(battle, shown), ReadWell(battle, shown, q)
    PROVE  Fine(ChooseShift(battle, q))
BY FillingReads, RefusedFine DEF ChooseShift, Filling

\* < on the naturals, as the library's theorem has it.
Less == {ss \in Nat \X Nat : ss[1] < ss[2]}

LEMMA LeastIn ==
    ASSUME NEW S \in SUBSET Nat, S # {}, NEW d
    PROVE  LeastOr(S, d) \in S /\ \A x \in S : LeastOr(S, d) <= x
<1>1. IsWellFoundedOn(Less, Nat)
  BY NatLessThanWellFounded DEF OpToRel, Less
<1>2. \E n \in S : \A m \in S : ~(<<m, n>> \in Less)
  BY <1>1, WFMin
<1>3. \A m, n \in Nat : <<m, n>> \notin Less => n =< m
  BY DEF Less
<1>4. \E n \in S : \A m \in S : n =< m
  BY <1>2, <1>3
<1> QED BY <1>4 DEF LeastOr

LEMMA NamedIs ==
    ASSUME NEW q, battle \in Situations, NEW a, NEW n \in 0 .. Mons + 1,
           NEW i, i = Named(battle, q, a, n), ~NoSwitch(battle, q, a, i)
    PROVE  i \in Pos
<1> DEFINE S == IF a \in battle.reviving THEN battle.fainted ELSE Living(battle) \ q.ins
<1>1. ~(i > Mons)
  BY DEF NoSwitch
<1>2. S \in SUBSET Pos /\ Pos \subseteq Nat
  BY Asked DEF Living, Pos
<1>3. CASE n # 0
  BY <1>1, <1>3, Widths DEF Named, Pos
<1>4. CASE n = 0
  <2>1. i = LeastOr(S, Mons + 1)
    BY <1>4 DEF Named
  <2>2. CASE S = {}
    BY <2>1, <2>2, <1>1, Widths DEF LeastOr
  <2>3. CASE S # {}
    BY <2>1, <2>3, <1>2, LeastIn
  <2> QED BY <2>2, <2>3
<1> QED BY <1>3, <1>4

\* A mon named for a slot that has to choose: where it goes, and what it is.
Goes(b, q, i, r) ==
    /\ r \in Parser /\ r.acts = Append(q.acts, [act |-> "switch", pos |-> i])
    /\ r.mega = q.mega /\ r.tera = q.tera
    /\ r.fs = IF b.kind = "Switch" /\ q.fs > 0 THEN q.fs - 1 ELSE q.fs

LEMMA SwitchIsAct ==
    ASSUME NEW i \in Pos
    PROVE  LET x == [act |-> "switch", pos |-> i] IN x \in Act /\ x.act = "switch" /\ x.pos = i
BY DEF Act

LEMMA GoesIs ==
    ASSUME NEW b, NEW q \in Parser, NEW i \in Pos
    PROVE  /\ Goes(b, q, i, SwitchTo(b, q, i))
           /\ SwitchTo(b, q, i).ins = q.ins /\ SwitchTo(b, q, i).cant = q.cant
<1> DEFINE x == [act |-> "switch", pos |-> i]
           fs == IF b.kind = "Switch" /\ q.fs > 0 THEN q.fs - 1 ELSE q.fs
           s == SwitchTo(b, q, i)
<1>1. x \in Act /\ q.acts \in Seq(Act) /\ fs \in Nat
  BY SwitchIsAct DEF Parser
<1>2. Append(q.acts, x) \in Seq(Act)
  BY <1>1, AppendIs
<1> HIDE DEF x, fs
<1>3. s = [q EXCEPT !.acts = Append(q.acts, x), !.fs = fs]
  BY DEF SwitchTo, x, fs, Parser
<1>4. /\ s \in Parser /\ s.acts = Append(q.acts, x) /\ s.fs = fs /\ s.ins = q.ins /\ s.cant = q.cant
      /\ s.mega = q.mega /\ s.tera = q.tera
  BY <1>1, <1>2, <1>3 DEF Parser
<1> HIDE DEF s
<1> QED BY <1>4 DEF Goes, s, x, fs

\* Revival Blessing: a fainted mon is named.
LEMMA RevivalReads ==
    ASSUME NEW b \in Situations, NEW sh, NEW q, ReadWell(b, sh, q), NEW a, a = Len(q.acts) + 1,
           a \in b.reviving, NEW i \in Pos, ~NoSwitch(b, q, a, i),
           NEW r, Goes(b, q, i, r), r.ins = q.ins, r.cant = q.cant
    PROVE  ReadWell(b, sh, r)
<1> DEFINE x == [act |-> "switch", pos |-> i]
<1>1. q \in Parser /\ q.acts \in Seq(Act) /\ Len(q.acts) \in Nat
  BY LenProperties DEF ReadWell, Parser
<1>2. x \in Act /\ x.act = "switch" /\ x.pos = i
  BY SwitchIsAct
<1> HIDE DEF x
<1>3. r.acts = Append(q.acts, x) /\ Len(r.acts) = a /\ r \in Parser /\ r.mega = q.mega /\ r.tera = q.tera
  BY <1>1, <1>2, AppendIs DEF Goes, x
<1>4. b.kind = "Switch" /\ a \in b.force /\ b.reviving # {} /\ i \in b.fainted
  BY Asked DEF NoSwitch
<1>5. Len(q.acts) < N
  BY <1>1, <1>4, Asked, Widths
<1>6. SlotLegal(b, a, x)
  BY <1>2, <1>4 DEF SlotLegal
<1>7. Noted(b, r, x) /\ Harmless(b, sh, r, a, x) /\ \A k \in 1 .. Len(q.acts) : Apart(b, q.acts[k], x)
  BY <1>2, <1>4 DEF Noted, Harmless, Apart
<1>8. Finished(b, r)
  BY <1>1, <1>2, <1>3, FinishedGrows DEF ReadWell
<1>9. Counted(b, r)
  BY <1>4 DEF Counted
<1> QED BY <1>2, <1>3, <1>4, <1>5, <1>6, <1>7, <1>8, <1>9, Grows

\* A mon leaves by choice.
LEMMA LeavingReads ==
    ASSUME NEW b \in Situations, Requests(b, shown), NEW q, ReadWell(b, shown, q), NEW a, a = Len(q.acts) + 1,
           a <= N, ~Skips(b, a), b.kind = "Move", NEW i \in Pos, ~NoSwitch(b, q, a, i),
           ~ReallyTrapped(b, a),
           NEW r, Goes(b, q, i, r), r.ins = q.ins \cup {i}, r.cant = (q.cant \/ Final(b, a))
    PROVE  ReadWell(b, shown, r)
<1> DEFINE x == [act |-> "switch", pos |-> i]
<1>1. q \in Parser /\ q.acts \in Seq(Act) /\ Len(q.acts) \in Nat /\ q.fs = 0
  BY LenProperties DEF ReadWell, Parser
<1>2. x \in Act /\ x.act = "switch" /\ x.pos = i
  BY SwitchIsAct
<1> HIDE DEF x
<1>3. /\ r.acts = Append(q.acts, x) /\ Len(r.acts) = a /\ r \in Parser
      /\ r.mega = q.mega /\ r.tera = q.tera /\ r.fs = 0
  BY <1>1, <1>2, AppendIs DEF Goes, x
<1>4. b.reviving = {} /\ a \notin AutoPass(b) /\ i \in Living(b) /\ i \notin q.ins /\ a \in Active
  <2>1. b.reviving = {}
    BY Asked
  <2>2. i \notin q.ins /\ i > N /\ i \notin b.fainted
    BY <2>1, Widths DEF NoSwitch, Pos
  <2> QED BY <2>1, <2>2, <1>1, Widths DEF Skips, Living
<1>5. SlotLegal(b, a, x)
  BY <1>2, <1>4 DEF SlotLegal
<1>6. Noted(b, r, x)
  BY <1>2 DEF Noted
<1>7. Harmless(b, shown, r, a, x)
  BY <1>2 DEF Harmless, Final
<1>8. \A k \in 1 .. Len(q.acts) : Apart(b, q.acts[k], x)
  <2>1. \A k \in 1 .. Len(q.acts) : Noted(b, q, q.acts[k])
    BY DEF ReadWell, Slotwise
  <2> QED BY <2>1, <1>2, <1>4 DEF Noted, Apart
<1>9. Finished(b, r)
  <2>1. CASE q.cant
    BY <2>1, <1>1, <1>3, Widths DEF ReadWell, Finished, Active
  <2>2. CASE Final(b, a)
    <3>1. IsLast(b, a)
      BY <2>2, <1>4 DEF Final, Requests, Honest
    <3> QED BY <3>1, <1>3 DEF IsLast, Finished, Skips, AutoPass
  <2>3. CASE ~q.cant /\ ~Final(b, a)
    BY <2>3 DEF Finished
  <2> QED BY <2>1, <2>2, <2>3
<1>10. Counted(b, r)
  BY DEF Counted
<1>11. Len(q.acts) < N
  BY <1>1, Widths
<1> QED BY <1>2, <1>3, <1>5, <1>6, <1>7, <1>8, <1>9, <1>10, <1>11, Grows

\* As long as a forced slot names a mon that may come in, a switch is left: who
\* has been sent in is all the mons there were, or stands in all the forced slots.
LEMMA SwitchLeft ==
    ASSUME NEW b \in Situations, NEW sh, NEW q, ReadWell(b, sh, q), NEW a, a = Len(q.acts) + 1,
           b.kind = "Switch", b.reviving = {}, a \in b.force, NEW i \in Living(b), i \notin q.ins
    PROVE  q.fs > 0
<1> DEFINE S == Sent(q.acts)
           F == b.force
           L == Living(b)
<1>1. q \in Parser /\ q.acts \in Seq(Act) /\ Len(q.acts) \in Nat /\ q.fs \in Nat
  BY LenProperties DEF ReadWell, Parser
<1>2. /\ q.fs + Cardinality(S) = AtMost(Cardinality(F), Cardinality(L))
      /\ q.ins \subseteq L /\ Cardinality(q.ins) = Cardinality(S)
  BY DEF ReadWell, Counted
<1>3. /\ IsFiniteSet(L) /\ IsFiniteSet(F) /\ Cardinality(L) \in Nat /\ Cardinality(F) \in Nat
      /\ Cardinality(S) \in Nat
  BY <1>1, SetsFinite, SentFinite
<1>4. Cardinality(S) # Cardinality(L)
  <2>1. q.ins \in SUBSET L
    BY <1>2
  <2>2. Cardinality(L) = Cardinality(q.ins) => L = q.ins
    BY <2>1, <1>3, FS_Subset
  <2> QED BY <2>2, <1>2
<1>5. Cardinality(S) # Cardinality(F)
  <2>1. S \subseteq F
    <3> SUFFICES ASSUME NEW k \in S PROVE k \in F
      OBVIOUS
    <3>1. k \in 1 .. Len(q.acts) /\ q.acts[k].act = "switch"
      BY DEF Sent
    <3>2. SlotLegal(b, k, q.acts[k])
      BY <3>1 DEF ReadWell, Slotwise
    <3> QED BY <3>1, <3>2, PassIsAct DEF SlotLegal
  <2>2. a \notin S
    BY <1>1 DEF Sent
  <2>3. S \in SUBSET F
    BY <2>1
  <2>4. Cardinality(F) = Cardinality(S) => F = S
    BY <2>3, <1>3, FS_Subset
  <2> QED BY <2>2, <2>4
<1> HIDE DEF S, F, L
<1> QED BY <1>1, <1>2, <1>3, <1>4, <1>5 DEF AtMost

\* A mon comes in for one that is gone.
LEMMA ReplacingReads ==
    ASSUME NEW b \in Situations, NEW sh, NEW q, ReadWell(b, sh, q), NEW a, a = Len(q.acts) + 1,
           a <= N, ~Skips(b, a), b.kind = "Switch", a \notin b.reviving, NEW i \in Pos,
           ~NoSwitch(b, q, a, i),
           NEW r, Goes(b, q, i, r), r.ins = q.ins \cup {i}, r.cant = q.cant
    PROVE  ReadWell(b, sh, r)
<1> DEFINE x == [act |-> "switch", pos |-> i]
<1>1. q \in Parser /\ q.acts \in Seq(Act) /\ Len(q.acts) \in Nat /\ q.fs \in Nat
  BY LenProperties DEF ReadWell, Parser
<1>2. x \in Act /\ x.act = "switch" /\ x.pos = i
  BY SwitchIsAct
<1> HIDE DEF x
<1>3. /\ r.acts = Append(q.acts, x) /\ Len(r.acts) = a /\ r \in Parser
      /\ r.mega = q.mega /\ r.tera = q.tera
  BY <1>1, <1>2, AppendIs DEF Goes, x
<1>4. a \in Active /\ a \in b.force
  BY <1>1, Widths DEF Skips
<1>5. b.reviving = {}
  BY <1>4, Asked
<1>6. i \in Living(b) /\ i \notin q.ins
  BY <1>5, Widths DEF NoSwitch, Living, Pos
<1>7. q.fs > 0 /\ r.fs = q.fs - 1
  BY <1>4, <1>5, <1>6, SwitchLeft DEF Goes
<1>8. SlotLegal(b, a, x)
  BY <1>2, <1>4, <1>5, <1>6 DEF SlotLegal
<1>9. Noted(b, r, x) /\ Harmless(b, sh, r, a, x)
  BY <1>2 DEF Noted, Harmless
<1>10. \A k \in 1 .. Len(q.acts) : Apart(b, q.acts[k], x)
  <2>1. \A k \in 1 .. Len(q.acts) : Noted(b, q, q.acts[k])
    BY DEF ReadWell, Slotwise
  <2> QED BY <2>1, <1>2, <1>6 DEF Noted, Apart
<1>11. Finished(b, r)
  BY <1>1, <1>2, <1>3, FinishedGrows DEF ReadWell
<1>12. Counted(b, r)
  <2>1. /\ q.fs + Cardinality(Sent(q.acts)) = AtMost(Cardinality(b.force), Cardinality(Living(b)))
        /\ q.ins \subseteq Living(b) /\ Cardinality(q.ins) = Cardinality(Sent(q.acts))
    BY <1>5 DEF ReadWell, Counted
  <2>2. Cardinality(Sent(r.acts)) = Cardinality(Sent(q.acts)) + 1
    BY <1>1, <1>2, <1>3, SentMore
  <2>3. Cardinality(Sent(q.acts)) \in Nat
    BY <1>1, SentFinite
  <2>4. IsFiniteSet(q.ins)
    <3>1. q.ins \in SUBSET Living(b)
      BY <2>1
    <3> QED BY <3>1, SetsFinite, FS_Subset
  <2>5. Cardinality(r.ins) = Cardinality(q.ins) + 1
    BY <2>4, <1>6, FS_AddElement
  <2>6. r.fs + Cardinality(Sent(r.acts)) = q.fs + Cardinality(Sent(q.acts))
    BY <2>2, <2>3, <1>1, <1>7
  <2>7. r.ins \subseteq Living(b)
    BY <2>1, <1>6
  <2> QED BY <2>1, <2>2, <2>5, <2>6, <2>7 DEF Counted
<1>13. Len(q.acts) < N
  BY <1>1, Widths
<1> QED BY <1>2, <1>3, <1>8, <1>9, <1>10, <1>11, <1>12, <1>13, Grows

LEMMA SwitchFine ==
    ASSUME NEW q0, battle \in Situations, Requests(battle, shown), ReadWell(battle, shown, q0),
           NEW n \in 0 .. Mons + 1
    PROVE  Fine(ChooseSwitch(battle, q0, n))
<1> DEFINE q == Filling(battle, q0)
           a == Len(q.acts) + 1
           i == Named(battle, q, a, n)
<1>1. ReadWell(battle, shown, q) /\ (a <= N => ~Skips(battle, a))
  BY FillingReads
<1>2. q \in Parser /\ q.acts \in Seq(Act) /\ Len(q.acts) \in Nat
  BY <1>1, LenProperties DEF ReadWell, Parser
<1>3. ChooseSwitch(battle, q0, n) =
        IF battle.kind = "TeamPreview" THEN Refused(q0)
        ELSE IF a > N \/ (n = 0 /\ battle.kind # "Switch") THEN Refused(q)
        ELSE IF n = 0 /\ a \notin battle.reviving /\ q.fs = 0 THEN ChoosePass(battle, q)
        ELSE IF NoSwitch(battle, q, a, i) THEN Refused(q)
        ELSE IF a \in battle.reviving THEN Took(SwitchTo(battle, q, i))
        ELSE IF battle.kind = "Move" /\ ReallyTrapped(battle, a) THEN Trapped(q, a)
        ELSE Took([SwitchTo(battle, q, i) EXCEPT !.ins = @ \cup {i}, !.cant = @ \/ Final(battle, a)])
  BY DEF ChooseSwitch, Filling
<1>4. Fine(Refused(q0)) /\ Fine(Refused(q)) /\ Fine(ChoosePass(battle, q))
  BY <1>1, RefusedFine, PassFine
<1> HIDE DEF q, a, i
<1>5. ASSUME ~(a > N), battle.kind # "TeamPreview", ~NoSwitch(battle, q, a, i)
      PROVE  i \in Pos /\ a <= N /\ a \in Active /\ ~Skips(battle, a)
  <2>1. i \in Pos
    BY <1>5, NamedIs DEF i
  <2> QED BY <2>1, <1>1, <1>2, <1>5, Widths DEF a
<1>6. ASSUME ~(a > N), battle.kind # "TeamPreview", ~NoSwitch(battle, q, a, i), a \in battle.reviving
      PROVE  Fine(Took(SwitchTo(battle, q, i)))
  <2>1. Goes(battle, q, i, SwitchTo(battle, q, i))
        /\ SwitchTo(battle, q, i).ins = q.ins /\ SwitchTo(battle, q, i).cant = q.cant
    BY <1>2, <1>5, <1>6, GoesIs
  <2>2. ReadWell(battle, shown, SwitchTo(battle, q, i))
    BY <2>1, <1>1, <1>5, <1>6, RevivalReads DEF a
  <2> QED BY <2>2, TookFine
<1>7. ASSUME ~(a > N), battle.kind # "TeamPreview", ~NoSwitch(battle, q, a, i), ReallyTrapped(battle, a)
      PROVE  Fine(Trapped(q, a))
  <2> DEFINE r == [[shown[a] EXCEPT !.maybeTrapped = FALSE] EXCEPT !.trapped = TRUE]
             o == Trapped(q, a)
  <2>1. a \in Active /\ shown \in [Active -> Entry] /\ Honest(battle, a, shown[a])
    BY <1>5, <1>7 DEF Requests
  <2>2. /\ r \in Entry /\ r.maybeOff = shown[a].maybeOff /\ r.maybeLocked = shown[a].maybeLocked
        /\ ~r.maybeTrapped /\ r.mega = shown[a].mega /\ r.tera = shown[a].tera
    BY <2>1 DEF Entry
  <2>3. o.p = [q EXCEPT !.err = TRUE] /\ o.shown = [shown EXCEPT ![a] = r]
    BY <2>1 DEF Trapped, Refused
  <2> HIDE DEF r, o
  <2>4. Honest(battle, a, r)
    BY <2>1, <2>2 DEF Honest
  <2>6. (r.maybeOff => shown[a].maybeOff) /\ (r.maybeTrapped => shown[a].maybeTrapped)
    BY <2>2
  <2>5. Fine(o)
    BY <2>1, <2>3, <2>4, <2>6, <1>1, ToldFine
  <2> QED BY <2>5 DEF o
<1>8. ASSUME ~(a > N), battle.kind # "TeamPreview", ~NoSwitch(battle, q, a, i), a \notin battle.reviving,
             ~(battle.kind = "Move" /\ ReallyTrapped(battle, a))
      PROVE  Fine(Took([SwitchTo(battle, q, i) EXCEPT !.ins = @ \cup {i}, !.cant = @ \/ Final(battle, a)]))
  <2> DEFINE r == [SwitchTo(battle, q, i) EXCEPT !.ins = @ \cup {i}, !.cant = @ \/ Final(battle, a)]
  <2>0. i \in Pos /\ a <= N /\ a \in Active /\ ~Skips(battle, a)
    BY <1>5, <1>8
  <2>1. Final(battle, a) \in BOOLEAN
    BY <2>0 DEF Final, Requests, Entry
  <2>2. Goes(battle, q, i, r) /\ r.ins = q.ins \cup {i} /\ r.cant = (q.cant \/ Final(battle, a))
    <3>1. Goes(battle, q, i, SwitchTo(battle, q, i))
          /\ SwitchTo(battle, q, i).ins = q.ins /\ SwitchTo(battle, q, i).cant = q.cant
      BY <2>0, <1>2, GoesIs
    <3> DEFINE s == SwitchTo(battle, q, i)
               c == Final(battle, a)
    <3>2. r = [s EXCEPT !.ins = @ \cup {i}, !.cant = @ \/ c]
      OBVIOUS
    <3>3. Goes(battle, q, i, s) /\ s.ins = q.ins /\ s.cant = q.cant /\ c \in BOOLEAN
      BY <3>1, <2>1
    <3> HIDE DEF r, s
    <3> QED
      <4>1. s \in Parser
        BY <3>3 DEF Goes
      <4>2. /\ r \in Parser /\ r.acts = s.acts /\ r.fs = s.fs /\ r.ins = s.ins \cup {i}
            /\ r.cant = (s.cant \/ c) /\ r.mega = s.mega /\ r.tera = s.tera
        BY <2>0, <2>1, <3>2, <4>1 DEF Parser
      <4> QED BY <3>3, <4>2 DEF Goes
  <2> HIDE DEF r
  <2>3. CASE battle.kind = "Move"
    <3>1. ReadWell(battle, shown, r)
      BY <2>0, <2>2, <2>3, <1>1, <1>8, LeavingReads DEF a
    <3> QED BY <3>1, TookFine DEF r
  <2>4. CASE battle.kind = "Switch"
    <3>1. q.cant \in BOOLEAN
      BY <1>2 DEF Parser
    <3>2. r.cant = q.cant
      BY <2>2, <2>4, <3>1 DEF Final
    <3>3. ReadWell(battle, shown, r)
      BY <2>0, <2>2, <2>4, <3>2, <1>1, <1>8, ReplacingReads DEF a
    <3> QED BY <3>3, TookFine DEF r
  <2>5. battle.kind \in {"Move", "Switch"}
    BY <1>8, Asked DEF Situation
  <2> QED BY <2>3, <2>4, <2>5
<1> QED BY <1>3, <1>4, <1>6, <1>7, <1>8

LEMMA MoveReads ==
    ASSUME NEW b \in Situations, Requests(b, shown), NEW q, ReadWell(b, shown, q), NEW a, a = Len(q.acts) + 1,
           a <= N, ~Skips(b, a), b.kind = "Move",
           NEW x \in Act, x.act = "move", LegalMove(b, a, x), x.mega => ~q.mega, x.tera => ~q.tera,
           NEW r \in Parser, r.acts = Append(q.acts, x), r.ins = q.ins, r.fs = q.fs,
           q.mega \/ x.mega => r.mega, q.tera \/ x.tera => r.tera, q.cant => r.cant,
           r.cant => q.cant \/ shown[a].maybeLocked \/ shown[a].maybeOff,
           shown[a].maybeOff /\ N < 2 => r.cant
    PROVE  ReadWell(b, shown, r)
<1>1. q \in Parser /\ q.acts \in Seq(Act) /\ Len(q.acts) \in Nat /\ q.fs = 0
  BY LenProperties DEF ReadWell, Parser
<1>2. Len(r.acts) = a /\ a \in Active /\ Len(q.acts) < N
  BY <1>1, AppendIs, Widths
<1>3. a \notin AutoPass(b)
  BY DEF Skips
<1>4. SlotLegal(b, a, x)
  BY <1>3 DEF SlotLegal
<1>5. Noted(b, r, x) /\ Harmless(b, shown, r, a, x)
  BY DEF Noted, Harmless
<1>6. \A k \in 1 .. Len(q.acts) : Apart(b, q.acts[k], x)
  <2>1. \A k \in 1 .. Len(q.acts) : Noted(b, q, q.acts[k])
    BY DEF ReadWell, Slotwise
  <2> QED BY <2>1 DEF Noted, Apart
<1>7. Finished(b, r)
  <2>1. CASE q.cant
    BY <2>1, <1>1, <1>2, Widths DEF ReadWell, Finished, Active
  <2>2. CASE shown[a].maybeLocked \/ shown[a].maybeOff
    <3>1. IsLast(b, a)
      BY <2>2, <1>2 DEF Requests, Honest
    <3> QED BY <3>1, <1>2 DEF IsLast, Finished, Skips, AutoPass
  <2>3. CASE ~r.cant
    BY <2>3 DEF Finished
  <2> QED BY <2>1, <2>2, <2>3
<1>8. Counted(b, r)
  BY DEF Counted
<1>9. r.fs = 0
  BY <1>1
<1> QED BY <1>2, <1>4, <1>5, <1>6, <1>7, <1>8, <1>9, Grows

LEMMA FirstOpenIs == ASSUME NEW b, NEW a PROVE FirstOpen(b, a) \in Slot
<1> DEFINE open == Slot \ Really(b, a)
<1>1. 1 \in Slot /\ open \in SUBSET Nat
  BY Widths DEF Slot
<1>2. CASE Mode(b, a) # "menu" \/ open = {}
  BY <1>1, <1>2 DEF FirstOpen
<1>3. CASE Mode(b, a) = "menu" /\ open # {}
  <2>1. FirstOpen(b, a) = LeastOr(open, 0)
    BY <1>3 DEF FirstOpen, LeastOr
  <2> QED BY <2>1, <1>1, <1>3, LeastIn
<1> QED BY <1>2, <1>3

\* A move that is aimed well does not hit its user, unless it is that kind.
LEMMA AimedAway ==
    ASSUME NEW b, NEW a \in Active, NEW part, part.loc \in Loc, NEW m, Aimed(b, a, part, m), Mode(b, a) = "menu"
    PROVE  part.loc # -a \/ b.target[m] = "adjacentAllyOrSelf"
<1>1. a \in 1 .. 2 /\ part.loc \in Int
  BY Widths DEF Loc
<1>2. TargetOf(b, a, m, part.named) = b.target[m]
  BY DEF TargetOf
<1>3. CASE part.loc = 0
  BY <1>1, <1>3
<1>4. CASE part.loc # 0
  <2>1. ValidTargetLoc(part.loc, a, b.target[m]) /\ b.target[m] \in Choosable
    BY <1>2, <1>4 DEF Aimed
  <2> SUFFICES ASSUME part.loc = -a PROVE b.target[m] = "adjacentAllyOrSelf"
    OBVIOUS
  <2>2. part.loc < 0 /\ part.loc + a = 0
    BY <1>1
  <2> QED BY <2>1, <2>2, <1>1 DEF ValidTargetLoc, Choosable
<1> QED BY <1>3, <1>4

Moves == [ty : {"move"}, n : 0 .. Slots + 1, loc : Loc, named : BOOLEAN,
          ev : {"", "mega", "tera", "zmove", "megax"}]

LEMMA MoveFine ==
    ASSUME NEW q0, battle \in Situations, Requests(battle, shown), ReadWell(battle, shown, q0),
           NEW part \in Moves
    PROVE  Fine(ChooseMove(battle, q0, part))
<1> DEFINE q == Filling(battle, q0)
           a == Len(q.acts) + 1
           m == IF part.n = 0 THEN FirstOpen(battle, a) ELSE part.n
           loc == IF part.n = 0 THEN 0 ELSE part.loc
           x == [act |-> "move", m |-> m, loc |-> loc, mega |-> part.ev = "mega", tera |-> part.ev = "tera"]
           taken == [q EXCEPT !.acts = Append(@, x), !.cant = @ \/ (shown[a].maybeOff /\ N < 2),
                              !.mega = @ \/ part.ev = "mega", !.tera = @ \/ part.ev = "tera"]
           bad == \/ a > N \/ m > (IF Mode(battle, a) = "menu" THEN Slots ELSE 1) \/ part.ev = "zmove"
                  \/ ~(part.n = 0) /\ ~Aimed(battle, a, part, m)
<1>1. ReadWell(battle, shown, q) /\ (a <= N => ~Skips(battle, a))
  BY FillingReads
<1>2. q \in Parser /\ q.acts \in Seq(Act) /\ Len(q.acts) \in Nat
  BY <1>1, LenProperties DEF ReadWell, Parser
<1>3. ChooseMove(battle, q0, part) =
        IF battle.kind # "Move" THEN Refused(q0)
        ELSE IF bad THEN Refused(q)
        ELSE IF Mode(battle, a) # "menu" THEN Stock(q, shown[a])
        ELSE IF m \in Really(battle, a) THEN Disabled(battle, q, a, m)
        ELSE IF Barred(q, shown[a], part.ev) THEN Refused(q)
        ELSE Took(taken)
  BY DEF ChooseMove, Filling
<1>4. Fine(Refused(q0)) /\ Fine(Refused(q))
  BY <1>1, RefusedFine
<1> HIDE DEF q
<1>5. ASSUME ~bad
      PROVE  a <= N /\ a \in Active /\ ~Skips(battle, a) /\ m \in Slot
  <2>1. a <= N /\ a \in Active
    BY <1>2, <1>5, Widths
  <2>2. m \in Nat /\ m >= 1
    <3>1. part.n \in 0 .. Slots + 1
      BY DEF Moves
    <3>2. FirstOpen(battle, a) \in Nat /\ FirstOpen(battle, a) >= 1
      BY FirstOpenIs, Widths DEF Slot
    <3> QED BY <3>1, <3>2, Widths
  <2>3. m \in Slot
    BY <2>2, <1>5, Widths DEF Slot
  <2> QED BY <2>1, <2>3, <1>1
<1>6. ASSUME ~bad, battle.kind = "Move", Mode(battle, a) # "menu"
      PROVE  Fine(Stock(q, shown[a]))
  <2> DEFINE y == [act |-> "move", m |-> 0, loc |-> 0, mega |-> FALSE, tera |-> FALSE]
             r == [q EXCEPT !.acts = Append(@, y), !.cant = @ \/ shown[a].maybeLocked]
  <2>1. a <= N /\ a \in Active /\ ~Skips(battle, a) /\ Honest(battle, a, shown[a])
    BY <1>5, <1>6 DEF Requests
  <2>2. y \in Act /\ y.act = "move" /\ y.m = 0 /\ ~y.mega /\ ~y.tera
    BY Widths DEF Act, Loc
  <2>3. LegalMove(battle, a, y)
    BY <2>2, <1>6 DEF LegalMove
  <2> HIDE DEF y
  <2>4. Append(q.acts, y) \in Seq(Act) /\ shown[a].maybeLocked \in BOOLEAN
    BY <2>1, <2>2, <1>2, AppendIs DEF Honest, Entry
  <2>5. /\ r \in Parser /\ r.acts = Append(q.acts, y) /\ r.ins = q.ins /\ r.fs = q.fs /\ r.mega = q.mega
        /\ r.tera = q.tera /\ r.cant = (q.cant \/ shown[a].maybeLocked)
    BY <1>2, <2>4 DEF Parser
  <2>6. Stock(q, shown[a]) = Took(r)
    BY DEF Stock, y
  <2>7. shown[a].maybeOff /\ N < 2 => shown[a].maybeLocked
    BY <2>1, <1>6 DEF Honest
  <2> HIDE DEF r, a
  <2>8. ReadWell(battle, shown, r)
    <3>1. (q.cant => r.cant) /\ (q.mega => r.mega)
      BY <2>5
    <3>2. r.cant => q.cant \/ shown[a].maybeLocked \/ shown[a].maybeOff
      BY <2>5
    <3>3. shown[a].maybeOff /\ N < 2 => r.cant
      BY <2>5, <2>7
    <3>4. (q.cant => r.cant) /\ (q.mega \/ y.mega => r.mega) /\ (q.tera \/ y.tera => r.tera)
      BY <2>2, <2>5
    <3> QED BY <3>2, <3>3, <3>4, <2>1, <2>2, <2>3, <2>5, <1>1, <1>6, MoveReads DEF a
  <2> QED BY <2>6, <2>8, TookFine
<1>7. ASSUME ~bad, Mode(battle, a) = "menu"
      PROVE  Fine(Disabled(battle, q, a, m))
  <2> DEFINE t == Told(battle, a, shown[a])
             r == [[t EXCEPT !.off = @ \cup {m}] EXCEPT !.told = @ \cup {m}]
             o == Disabled(battle, q, a, m)
  <2>1. a \in Active /\ m \in Slot /\ shown \in [Active -> Entry] /\ Honest(battle, a, shown[a])
    BY <1>5, <1>7 DEF Requests
  <2>2. Honest(battle, a, t) /\ (t.maybeOff => shown[a].maybeOff) /\ t.maybeTrapped = shown[a].maybeTrapped
    BY <2>1, <1>7, ToldHonest
  <2>3. o.p = [q EXCEPT !.err = TRUE] /\ o.shown = [shown EXCEPT ![a] = r]
    BY <2>1 DEF Disabled, Refused
  <2> HIDE DEF t, a, m
  <2>4. /\ r \in Entry /\ r.maybeOff = t.maybeOff /\ r.maybeLocked = t.maybeLocked
        /\ r.maybeTrapped = t.maybeTrapped /\ r.mega = t.mega /\ r.tera = t.tera
    BY <2>1, <2>2 DEF Entry, Honest
  <2> HIDE DEF r, o
  <2>5. Honest(battle, a, r)
    BY <2>2, <2>4 DEF Honest
  <2>6. (r.maybeOff => shown[a].maybeOff) /\ (r.maybeTrapped => shown[a].maybeTrapped)
    BY <2>2, <2>4
  <2>7. Fine(o)
    BY <2>1, <2>3, <2>5, <2>6, <1>1, ToldFine
  <2> QED BY <2>7 DEF o
<1>8. ASSUME ~bad, battle.kind = "Move", Mode(battle, a) = "menu", m \notin Really(battle, a),
             ~Barred(q, shown[a], part.ev)
      PROVE  Fine(Took(taken))
  <2>1. a <= N /\ a \in Active /\ ~Skips(battle, a) /\ m \in Slot /\ Honest(battle, a, shown[a])
    BY <1>5, <1>8 DEF Requests
  <2>2. loc \in Loc /\ (loc # -a \/ battle.target[m] = "adjacentAllyOrSelf")
    <3>1. CASE part.n = 0
      BY <3>1, <2>1, Widths DEF Loc
    <3>2. CASE part.n # 0
      <4>1. Aimed(battle, a, part, m) /\ loc = part.loc
        BY <3>2, <1>8
      <4>2. part.loc \in Loc
        BY DEF Moves
      <4> HIDE DEF m, loc
      <4> QED BY <4>1, <4>2, <2>1, <1>8, AimedAway
    <3> QED BY <3>1, <3>2
  <2> HIDE DEF m, loc, a
  <2>3. /\ x \in Act /\ x.act = "move" /\ x.m = m /\ x.loc = loc
        /\ x.mega = (part.ev = "mega") /\ x.tera = (part.ev = "tera")
    BY <2>1, <2>2, Widths DEF Act, Slot
  <2> HIDE DEF x
  <2>4. /\ x.mega => shown[a].mega /\ ~q.mega
        /\ x.tera => shown[a].tera /\ ~q.tera
    BY <2>3, <1>8 DEF Barred
  <2>5. LegalMove(battle, a, x)
    BY <2>1, <2>2, <2>3, <2>4, <1>8 DEF LegalMove, Honest
  <2>6. Append(q.acts, x) \in Seq(Act) /\ (shown[a].maybeOff /\ N < 2) \in BOOLEAN
    BY <2>1, <2>3, <1>2, AppendIs DEF Honest, Entry
  <2>7. /\ taken \in Parser /\ taken.acts = Append(q.acts, x) /\ taken.ins = q.ins /\ taken.fs = q.fs
        /\ taken.mega = (q.mega \/ part.ev = "mega") /\ taken.tera = (q.tera \/ part.ev = "tera")
        /\ taken.cant = (q.cant \/ (shown[a].maybeOff /\ N < 2))
    BY <1>2, <2>6 DEF Parser
  <2> HIDE DEF taken
  <2>8. ReadWell(battle, shown, taken)
    <3>1. taken.cant => q.cant \/ shown[a].maybeLocked \/ shown[a].maybeOff
      BY <2>7
    <3>2. shown[a].maybeOff /\ N < 2 => taken.cant
      BY <2>7
    <3>3. (q.cant => taken.cant) /\ (q.mega \/ x.mega => taken.mega) /\ (q.tera \/ x.tera => taken.tera)
      BY <2>3, <2>7
    <3> QED BY <3>1, <3>2, <3>3, <2>1, <2>3, <2>4, <2>5, <2>7, <1>1, <1>8, MoveReads DEF a
  <2> QED BY <2>8, TookFine
<1> HIDE DEF bad, taken, m, a
<1> QED BY <1>3, <1>4, <1>6, <1>7, <1>8

Reads(part) == part \in Part /\ part.ty # "default"

LEMMA OutcomeFine ==
    ASSUME NEW q, battle \in Situations, Requests(battle, shown), ReadWell(battle, shown, q),
           NEW part, Reads(part)
    PROVE  Fine(Outcome(battle, q, part))
<1>1. CASE part.ty = "move"
  <2>1. part \in Moves
    BY <1>1 DEF Reads, Part, Moves
  <2>2. Outcome(battle, q, part) = ChooseMove(battle, q, part)
    BY <1>1 DEF Outcome
  <2> QED BY <2>1, <2>2, MoveFine
<1>2. CASE part.ty = "switch"
  <2>1. part.n \in 0 .. Mons + 1
    BY <1>2 DEF Reads, Part
  <2>2. Outcome(battle, q, part) = ChooseSwitch(battle, q, part.n)
    BY <1>2 DEF Outcome
  <2> QED BY <2>1, <2>2, SwitchFine
<1>3. CASE part.ty = "team"
  <2>1. Outcome(battle, q, part) = ChooseTeam(battle, q, part.order)
    BY <1>3 DEF Outcome
  <2> QED BY <2>1, TeamFine
<1>4. CASE part.ty = "pass"
  <2>1. Outcome(battle, q, part) = ChoosePass(battle, q)
    BY <1>4 DEF Outcome
  <2> QED BY <2>1, PassFine
<1>5. CASE part.ty = "shift"
  <2>1. Outcome(battle, q, part) = ChooseShift(battle, q)
    BY <1>5 DEF Outcome
  <2> QED BY <2>1, ShiftFine
<1>6. CASE part.ty = "junk"
  <2>1. Outcome(battle, q, part) = Junk(q)
    BY <1>6 DEF Outcome
  <2> QED BY <2>1, JunkFine
<1>7. part.ty \in {"move", "switch", "team", "pass", "shift", "junk"}
  BY DEF Reads, Part
<1> QED BY <1>1, <1>2, <1>3, <1>4, <1>5, <1>6, <1>7

LEMMA AutoReads == ASSUME NEW b \in Situations PROVE Reads(AutoPart(b))
<1>1. b.kind \in {"TeamPreview", "Move", "Switch"}
  BY Asked DEF Situation
<1>2. CASE b.kind = "TeamPreview"
  <2>1. <<>> \in Seq(0 .. Mons + 1)
    BY EmptySeq
  <2> DEFINE part == [ty |-> "team", order |-> <<>>]
  <2>2. AutoPart(b) = part
    BY <1>2 DEF AutoPart
  <2>3. part \in [ty : {"team"}, order : Seq(0 .. Mons + 1)] /\ part.ty # "default"
    BY <2>1
  <2> QED BY <2>2, <2>3 DEF Reads, Part
<1>3. CASE b.kind = "Switch"
  <2> DEFINE part == [ty |-> "switch", n |-> 0]
  <2>1. AutoPart(b) = part
    BY <1>3 DEF AutoPart
  <2>2. part \in [ty : {"switch"}, n : 0 .. Mons + 1] /\ part.ty # "default"
    BY Widths
  <2> QED BY <2>1, <2>2 DEF Reads, Part
<1>4. CASE b.kind = "Move"
  <2> DEFINE part == [ty |-> "move", n |-> 0, loc |-> 0, named |-> FALSE, ev |-> ""]
  <2>1. AutoPart(b) = part
    BY <1>4 DEF AutoPart
  <2>2. part \in Moves /\ part.ty # "default"
    BY Widths DEF Moves, Loc
  <2> QED BY <2>1, <2>2 DEF Reads, Part, Moves
<1> QED BY <1>1, <1>2, <1>3, <1>4

-----------------------------------------------------------------------------
(* An answer begins empty, and ends as one the battle can play.             *)

LEMMA ClearedReads ==
    ASSUME NEW b \in Situations, NEW sh
    PROVE  ReadWell(b, sh, Cleared(b))
<1> DEFINE r == Cleared(b)
           out == IF b.kind = "Switch" THEN Cardinality(b.force) ELSE 0
           in == AtMost(out, Cardinality(Living(b)))
<1>1. out \in Nat /\ in \in Nat /\ out - in \in Int /\ (b.kind = "Move" => in = 0)
  BY SetsFinite DEF AtMost
<1>2. /\ r.acts = <<>> /\ r.ins = {} /\ r.fs = in /\ r.cant = FALSE
      /\ r = [acts |-> <<>>, ins |-> {}, fs |-> in, fp |-> out - in, mega |-> FALSE,
              tera |-> FALSE, err |-> FALSE, cant |-> FALSE]
  BY DEF Cleared
<1>3. <<>> \in Seq(Act) /\ Len(<<>>) = 0
  BY EmptySeq
<1>4. b.kind = "Switch" => in = AtMost(Cardinality(b.force), Cardinality(Living(b)))
  OBVIOUS
<1> HIDE DEF out, in, r
<1>5. r \in Parser
  BY <1>1, <1>2, <1>3 DEF Parser
<1>6. Slotwise(b, sh, r)
  BY <1>2, <1>3, Widths DEF Slotwise
<1>7. Sent(r.acts) = {} /\ Cardinality({}) = 0
  <2>1. 1 .. Len(<<>>) = {}
    BY <1>3
  <2>2. Cardinality({}) = 0
    BY FS_EmptySet
  <2> QED BY <2>1, <2>2, <1>2 DEF Sent
<1>8. Counted(b, r)
  <2>1. Cardinality(Sent(r.acts)) = 0 /\ Cardinality(r.ins) = 0
    BY <1>2, <1>7
  <2>2. r.fs + Cardinality(Sent(r.acts)) = in
    BY <2>1, <1>1, <1>2
  <2> QED BY <2>1, <2>2, <1>2, <1>4 DEF Counted
<1>9. ReadWell(b, sh, r)
  BY <1>1, <1>2, <1>5, <1>6, <1>8 DEF ReadWell, Finished
<1> QED BY <1>9 DEF r

LEMMA FinalIsDone ==
    ASSUME NEW b \in Situations, NEW sh, NEW q, ReadWell(b, sh, q), q.cant
    PROVE  Done(b, q)
<1> DEFINE r == Filling(b, q)
<1>1. ReadWell(b, sh, r) /\ (Len(r.acts) + 1 <= N => ~Skips(b, Len(r.acts) + 1)) /\ r.cant
  BY FillingReads
<1>2. r.acts = Filled(b, q.acts)
  BY DEF Filling, ReadWell, Parser
<1> HIDE DEF r
<1>3. r.acts \in Seq(Act) /\ Len(r.acts) \in Nat
  BY <1>1, LenProperties DEF ReadWell, Parser
<1>4. b.kind = "Move" /\ \A a \in Active : a > Len(r.acts) => Skips(b, a)
  BY <1>1 DEF ReadWell, Finished
<1>5. Len(r.acts) >= N
  BY <1>1, <1>3, <1>4, Widths
<1>6. q.fs = 0
  BY <1>4 DEF ReadWell
<1> QED BY <1>2, <1>4, <1>5, <1>6 DEF Done

Played(b, acts) ==
    /\ b.kind = "Move" => LegalTurn(b, acts)
    /\ b.kind = "Switch" => LegalReplacement(b, acts)

LEMMA WholeIsLegal ==
    ASSUME NEW b \in Situations, NEW sh, NEW q, ReadWell(b, sh, q), Done(b, q), b.kind # "TeamPreview"
    PROVE  /\ Played(b, Filled(b, q.acts)) /\ Len(Filled(b, q.acts)) = N
           /\ \A a \in Active : Harmless(b, sh, q, a, Filled(b, q.acts)[a])
<1> DEFINE r == Filling(b, q)
           s == Filled(b, q.acts)
<1>1. ReadWell(b, sh, r) /\ r.cant = q.cant
  BY FillingReads
<1>2. r.acts = s /\ r.fs = q.fs
  BY DEF Filling, ReadWell, Parser
<1>3. q.fs = 0 /\ Len(s) >= N
  BY DEF Done
<1> HIDE DEF r, s
<1>4. Slotwise(b, sh, r) /\ s \in Seq(Act) /\ Len(s) \in Nat
  BY <1>1, <1>2, LenProperties DEF ReadWell, Parser
<1>5. Len(s) = N /\ 1 .. Len(s) = Active
  BY <1>2, <1>3, <1>4, Widths DEF Slotwise
<1>6. \A a \in Active : SlotLegal(b, a, s[a]) /\ Harmless(b, sh, q, a, s[a])
  BY <1>1, <1>2, <1>4, <1>5 DEF Slotwise, Harmless
<1>7. \A a, c \in Active : a # c => Apart(b, s[a], s[c])
  <2>1. \A a, c \in Active : a < c => Apart(b, s[a], s[c])
    BY <1>2, <1>4, <1>5 DEF Slotwise
  <2>2. \A a, c \in Active : a # c => a < c \/ c < a
    BY Widths
  <2>3. \A a, c \in Active : Apart(b, s[a], s[c]) => Apart(b, s[c], s[a])
    BY DEF Apart
  <2> QED BY <2>1, <2>2, <2>3
<1>8. ASSUME b.kind = "Move" PROVE LegalTurn(b, s)
  <2>1. b.reviving = {}
    BY <1>8, Asked
  <2>2. \A a \in Active :
           IF a \in AutoPass(b) THEN s[a] = PassAct
           ELSE \/ s[a].act = "move" /\ LegalMove(b, a, s[a])
                \/ s[a].act = "switch" /\ s[a].pos \in Living(b) /\ ~ReallyTrapped(b, a)
    BY <1>6, <1>8 DEF SlotLegal
  <2>3. \A a, c \in Active : a # c =>
           /\ s[a].act = "switch" /\ s[c].act = "switch" => s[a].pos # s[c].pos
           /\ s[a].act = "move" /\ s[c].act = "move" =>
                  ~(s[a].mega /\ s[c].mega) /\ ~(s[a].tera /\ s[c].tera)
    BY <2>1, <1>7 DEF Apart
  <2> QED BY <2>2, <2>3, <1>5 DEF LegalTurn
<1>9. ASSUME b.kind = "Switch" PROVE LegalReplacement(b, s)
  <2> DEFINE sent == {a \in Active : s[a].act = "switch"}
  <2>1. sent = Sent(s)
    BY <1>5 DEF Sent
  <2>2. \A a \in Active : /\ s[a].act \in {"pass", "switch"}
                          /\ s[a].act = "switch" => /\ a \in b.force
                                /\ IF b.reviving # {} THEN s[a].pos \in b.fainted ELSE s[a].pos \in Living(b)
    BY <1>6, <1>9, PassIsAct DEF SlotLegal
  <2>3. b.reviving = {} =>
           Cardinality(sent) = AtMost(Cardinality(b.force), Cardinality(Living(b)))
    <3>1. Cardinality(Sent(s)) \in Nat
      BY <1>4, SentFinite
    <3>2. b.reviving = {} => r.fs + Cardinality(Sent(r.acts)) = AtMost(Cardinality(b.force), Cardinality(Living(b)))
      BY <1>1, <1>9 DEF ReadWell, Counted
    <3>3. r.fs = 0 /\ Sent(r.acts) = sent
      BY <2>1, <1>2, <1>3
    <3>4. r.fs + Cardinality(Sent(r.acts)) = Cardinality(sent)
      BY <3>1, <3>3, <2>1
    <3> QED BY <3>2, <3>4
  <2>4. b.reviving = {} => \A a, c \in sent : a # c => s[a].pos # s[c].pos
    BY <1>7 DEF Apart
  <2>5. \A a \in Active : s[a].act \in {"pass", "switch"}
    BY <2>2
  <2>6. sent \subseteq b.force
    BY <2>2
  <2>7. b.reviving # {} => \A a \in sent : s[a].pos \in b.fainted
    BY <2>2
  <2>8. b.reviving = {} => \A a \in sent : s[a].pos \in Living(b)
    BY <2>2
  <2> QED BY <2>3, <2>4, <2>5, <2>6, <2>7, <2>8, <1>5 DEF LegalReplacement
<1> QED BY <1>5, <1>6, <1>8, <1>9 DEF Played, s

-----------------------------------------------------------------------------
(* The session.                                                             *)

\* An answer on file that can be taken back has found out nothing.
Filed ==
    file.on /\ battle.kind = "Move" =>
        /\ Len(file.acts) = N
        /\ ~cantUndo => \A a \in Active :
              /\ file.acts[a].act = "move"   => ~(shown[a].maybeOff /\ N < 2)
              /\ file.acts[a].act = "switch" => ~shown[a].maybeTrapped

IInv ==
    /\ battle \in Situations
    /\ Requests(battle, shown)
    /\ ReadWell(battle, shown, p)
    /\ cantUndo => pc = "idle" /\ file.on
    /\ pc # "idle" => ~file.on
    /\ file.on => Played(battle, file.acts)
    /\ Filed

LEMMA FirstHonest ==
    ASSUME NEW b \in Situations, NEW a \in Active
    PROVE  Honest(b, a, FirstRequest(b, a))
<1> DEFINE soft == a \notin b.lock /\ IsLast(b, a)
           can  == Living(b) # {}
           off  == IF Mode(b, a) = "menu" THEN OffAtFirst(b, a) ELSE {}
           trapped == IF soft THEN can /\ b.trap[a] = "known"
                      ELSE (a \in b.lock \/ can) /\ ReallyTrapped(b, a)
           mt == soft /\ can /\ b.trap[a] # "known" /\ a \in b.maybeTrap
           hid == soft /\ b.imprison
           mega == Mode(b, a) = "menu" /\ a \in b.mega
           tera == Mode(b, a) = "menu" /\ a \in b.tera
           r == FirstRequest(b, a)
<1>1. r = [off |-> off, told |-> {}, trapped |-> trapped, maybeTrapped |-> mt, maybeOff |-> hid,
           maybeLocked |-> hid, mega |-> mega, tera |-> tera]
  BY DEF FirstRequest
<1>2. /\ off \in SUBSET Slot /\ trapped \in BOOLEAN /\ mt \in BOOLEAN /\ hid \in BOOLEAN
      /\ mega \in BOOLEAN /\ tera \in BOOLEAN
  BY DEF OffAtFirst, Really, ReallyTrapped
<1>3. (hid \/ mt => IsLast(b, a)) /\ (mega => a \in b.mega) /\ (tera => a \in b.tera)
  OBVIOUS
<1> HIDE DEF off, trapped, mt, hid, mega, tera, r
<1>4. r \in Entry
  BY <1>1, <1>2 DEF Entry
<1>5. Honest(b, a, r)
  BY <1>1, <1>3, <1>4 DEF Honest
<1> QED BY <1>5 DEF r

LEMMA FirstState == Init => IInv
<1> SUFFICES ASSUME Init PROVE IInv
  OBVIOUS
<1>1. battle \in Situations /\ pc = "idle" /\ ~file.on /\ cantUndo = FALSE
  BY DEF Init, NoFile
<1>2. shown \in [Active -> Entry] /\ \A a \in Active : shown[a] = FirstRequest(battle, a)
  BY <1>1, FirstHonest DEF Init, Honest
<1>3. Requests(battle, shown)
  BY <1>1, <1>2, FirstHonest DEF Requests
<1>4. ReadWell(battle, shown, p)
  BY <1>1, ClearedReads DEF Init
<1> QED BY <1>1, <1>3, <1>4 DEF IInv, Filed

LEMMA ReadStep ==
    ASSUME IInv, pc # "idle", NEW part, Reads(part), Take(Outcome(battle, p, part)),
           UNCHANGED <<battle, file, cantUndo>>
    PROVE  IInv'
<1>1. Fine(Outcome(battle, p, part))
  BY OutcomeFine DEF IInv
<1>2. Requests(battle, shown') /\ ReadWell(battle, shown', p')
  BY <1>1 DEF Fine, Take
<1>3. Requests(battle, shown)' /\ ReadWell(battle, shown, p)'
  BY <1>2
<1> QED BY <1>3 DEF IInv, Filed

LEMMA CloseStep == ASSUME IInv, Close PROVE IInv'
<1> DEFINE whole == Done(battle, p)
           s == Filled(battle, p.acts)
<1>1. /\ battle' = battle /\ shown' = shown /\ pc' = "idle" /\ p' = Cleared(battle)
      /\ file' = IF whole THEN [on |-> TRUE, refused |-> p.err, acts |-> s] ELSE NoFile
      /\ cantUndo' = (p.cant \/ (whole /\ ~p.err /\ ~CancelMod))
  BY DEF Close
<1>2. battle \in Situations /\ Requests(battle, shown) /\ ReadWell(battle, shown, p)
  BY DEF IInv
<1>3. ReadWell(battle, shown', p')
  BY <1>1, <1>2, ClearedReads
<1>4. cantUndo' => whole
  BY <1>1, <1>2, FinalIsDone
<1>5. file'.on => whole
  BY <1>1 DEF NoFile
<1>6. whole => file'.on /\ file'.acts = s
  BY <1>1
<1>7. file'.on => Played(battle, file'.acts)
  <2> SUFFICES ASSUME file'.on PROVE Played(battle, s)
    BY <1>5, <1>6
  <2>1. CASE battle.kind = "TeamPreview"
    BY <2>1 DEF Played
  <2>2. CASE battle.kind # "TeamPreview"
    BY <2>2, <1>2, <1>5, WholeIsLegal
  <2> QED BY <2>1, <2>2
<1>8. Filed'
  <2> SUFFICES ASSUME file'.on, battle.kind = "Move"
               PROVE  /\ Len(s) = N
                      /\ ~cantUndo' => \A a \in Active :
                            /\ s[a].act = "move"   => ~(shown[a].maybeOff /\ N < 2)
                            /\ s[a].act = "switch" => ~shown[a].maybeTrapped
    BY <1>1, <1>5, <1>6 DEF Filed
  <2>1. Len(s) = N /\ \A a \in Active : Harmless(battle, shown, p, a, s[a])
    BY <1>2, <1>5, WholeIsLegal
  <2>2. ~cantUndo' => ~p.cant
    BY <1>1
  <2> QED BY <2>1, <2>2 DEF Harmless
<1> HIDE DEF whole, s
<1> QED BY <1>1, <1>2, <1>3, <1>4, <1>6, <1>7, <1>8 DEF IInv

LEMMA UndoStep ==
    ASSUME IInv, Undo
    PROVE  /\ IInv'
           /\ battle.kind = "Move" => \A a \in Active :
                 /\ file.acts[a].act = "move"   => ~shown'[a].maybeOff /\ ~shown'[a].maybeLocked
                 /\ file.acts[a].act = "switch" => ~shown[a].maybeTrapped
<1>1. /\ file.on /\ ~cantUndo /\ battle' = battle /\ p' = p /\ pc' = pc /\ cantUndo' = cantUndo /\ file' = NoFile
      /\ shown' = [a \in Active |-> IF battle.kind = "Move" /\ file.acts[a].act = "move"
                                    THEN Told(battle, a, shown[a]) ELSE shown[a]]
  BY DEF Undo
<1>2. ASSUME NEW a \in Active
      PROVE  /\ shown[a] \in Entry /\ Honest(battle, a, shown[a])
             /\ battle.kind = "Move" => /\ file.acts[a].act = "move" => ~(shown[a].maybeOff /\ N < 2)
                                        /\ file.acts[a].act = "switch" => ~shown[a].maybeTrapped
  BY <1>1 DEF IInv, Filed, Requests
<1>3. ASSUME NEW a \in Active
      PROVE  /\ Honest(battle, a, shown'[a])
             /\ shown'[a].maybeOff => shown[a].maybeOff
             /\ shown'[a].maybeTrapped => shown[a].maybeTrapped
             /\ battle.kind = "Move" /\ file.acts[a].act = "move" => ~shown'[a].maybeOff /\ ~shown'[a].maybeLocked
  <2>1. CASE battle.kind = "Move" /\ file.acts[a].act = "move"
    <3>1. shown'[a] = Told(battle, a, shown[a])
      BY <1>1, <2>1
    <3>2. ~(shown[a].maybeOff /\ N < 2)
      BY <1>2, <2>1
    <3>3. /\ Honest(battle, a, Told(battle, a, shown[a]))
          /\ ~Told(battle, a, shown[a]).maybeLocked
          /\ (Told(battle, a, shown[a]).maybeOff => shown[a].maybeOff /\ N < 2)
          /\ Told(battle, a, shown[a]).maybeTrapped = shown[a].maybeTrapped
      BY <1>2, <3>2, ToldHonest
    <3> QED BY <3>1, <3>2, <3>3
  <2>2. CASE ~(battle.kind = "Move" /\ file.acts[a].act = "move")
    BY <1>1, <1>2, <2>2
  <2> QED BY <2>1, <2>2
<1>4. shown' \in [Active -> Entry]
  <2>1. \A a \in Active : shown'[a] \in Entry
    BY <1>3 DEF Honest
  <2>2. DOMAIN shown' = Active /\ shown' = [a \in Active |-> shown'[a]]
    BY <1>1
  <2> QED BY <2>1, <2>2
<1>5. Requests(battle, shown')
  BY <1>3, <1>4 DEF Requests
<1>6. ReadWell(battle, shown', p)
  BY <1>3, Tightens DEF IInv
<1>7. ~file'.on
  BY <1>1 DEF NoFile
<1>8. IInv'
  BY <1>1, <1>5, <1>6, <1>7 DEF IInv, Filed
<1> QED BY <1>2, <1>3, <1>8

LEMMA Inductive == IInv /\ [Next]_vars => IInv'
<1> SUFFICES ASSUME IInv, [Next]_vars PROVE IInv'
  OBVIOUS
<1>1. CASE \E n \in 1 .. N + 1 : Send(n)
  <2>1. PICK n \in 1 .. N + 1 : Send(n)
    BY <1>1
  <2>2. battle' = battle /\ shown' = shown /\ cantUndo' = cantUndo /\ file' = NoFile /\ ~cantUndo
    BY <2>1 DEF Send
  <2>3. p' = Cleared(battle) \/ p' = [Cleared(battle) EXCEPT !.err = TRUE]
    BY <2>1 DEF Send
  <2>4. ReadWell(battle, shown, p')
    BY <2>3, ClearedReads, ErrorReads DEF IInv
  <2>5. ~file'.on
    BY <2>2 DEF NoFile
  <2> QED BY <2>2, <2>4, <2>5 DEF IInv, Filed
<1>2. CASE ReadDefault
  BY <1>2 DEF ReadDefault, IInv, Filed
<1>3. CASE AutoSlot
  <2>1. pc # "idle" /\ Take(Outcome(battle, p, AutoPart(battle))) /\ UNCHANGED <<battle, file, cantUndo>>
    BY <1>3 DEF AutoSlot
  <2> QED BY <2>1, ReadStep, AutoReads DEF IInv
<1>4. CASE AutoDone
  <2>1. p' = Filling(battle, p) /\ UNCHANGED <<battle, shown, file, cantUndo>> /\ pc # "idle"
    BY <1>4 DEF AutoDone, Filling
  <2>2. ReadWell(battle, shown, p')
    BY <2>1, FillingReads DEF IInv
  <2> QED BY <2>1, <2>2 DEF IInv, Filed
<1>5. CASE Close
  BY <1>5, CloseStep
<1>6. CASE \E part \in Inputs : ReadPart(part)
  <2>1. PICK part \in Inputs : ReadPart(part)
    BY <1>6
  <2>2. pc # "idle" /\ Take(Outcome(battle, p, part)) /\ UNCHANGED <<battle, file, cantUndo>> /\ part.ty # "default"
    BY <2>1 DEF ReadPart
  <2>3. Reads(part)
    BY <2>2, ParserAssumption DEF Reads
  <2> QED BY <2>2, <2>3, ReadStep
<1>7. CASE Undo
  BY <1>7, UndoStep
<1>8. CASE FallBack
  BY <1>8 DEF FallBack, IInv, Filed
<1>9. CASE UNCHANGED vars
  BY <1>9 DEF vars, IInv, Filed
<1> QED BY <1>1, <1>2, <1>3, <1>4, <1>5, <1>6, <1>7, <1>8, <1>9 DEF Next, Parse

LEMMA Kept == Spec => []IInv
<1> QED BY FirstState, Inductive, PTL DEF Spec

-----------------------------------------------------------------------------
(* Whatever is kept of a string at a move or replacement request, accepted  *)
(* or refused, is an answer the battle can play, however its parts,         *)
(* refusals and corrected requests follow each other (ps_session.rs,        *)
(* choose_detailed).                                                        *)
THEOREM AnswersAreLegal == Spec => []OnFileIsLegal
<1>1. IInv => OnFileIsLegal
  BY DEF IInv, OnFileIsLegal, Played
<1> QED BY <1>1, Kept, PTL

(* A side that can no longer change its answer has one (ps_session.rs, line *)
(* 310): only the last slot that chooses is ever told `maybe`, so what is   *)
(* final leaves nothing to choose.                                          *)
THEOREM FinalAnswers == Spec => []FinalMeansAnswered
<1>1. IInv => FinalMeansAnswered
  BY DEF IInv, FinalMeansAnswered
<1> QED BY <1>1, Kept, PTL

(* An answer that is taken back has told its side nothing the request does  *)
(* not say from then on (ps_session.rs, undo and cant_undo).                *)
THEOREM UndoTellsNothing == Spec => NoFreeProbe
<1> DEFINE Told_ == file.on /\ ~file'.on /\ pc = "idle" /\ pc' = "idle" /\ battle.kind = "Move" =>
                      \A a \in Active :
                        /\ file.acts[a].act = "move"   => ~shown'[a].maybeOff /\ ~shown'[a].maybeLocked
                        /\ file.acts[a].act = "switch" => ~shown[a].maybeTrapped
<1>1. IInv /\ [Next]_vars => [Told_]_vars
  <2> SUFFICES ASSUME IInv, Next, file.on, ~file'.on, pc = "idle", pc' = "idle", battle.kind = "Move"
               PROVE  Told_
    OBVIOUS
  <2>1. ~Parse
    BY DEF Parse, ReadDefault, AutoSlot, AutoDone, Close, ReadPart
  <2>2. ~ \E n \in 1 .. N + 1 : Send(n)
    BY DEF Send
  <2>3. ~FallBack
    BY DEF FallBack
  <2>4. Undo
    BY <2>1, <2>2, <2>3 DEF Next
  <2> QED BY <2>4, UndoStep
<1> QED BY <1>1, Kept, PTL DEF Spec, NoFreeProbe
=============================================================================
