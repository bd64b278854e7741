-------------------------- MODULE PsStream_proofs --------------------------
(***************************************************************************)
(* Proofs about PsStream.tla, from StreamAssumption alone: any script, any *)
(* number of players, any bounds.                                          *)
(*                                                                         *)
(* The properties are about the sequences that FlattenSeq folds out of the *)
(* output and the logs, so the first half says what FlattenSeq, Without,   *)
(* WithRating and Repeated do to a concatenation.  Those lemmas need       *)
(* induction; the provers take no theorem with an operator parameter, so   *)
(* it is done with the set of the sequences that satisfy the claim         *)
(* (SeqInduction), from the least-number principle.                        *)
(*                                                                         *)
(* The second half is the invariant, StreamInv.  A line of a chunk adds x  *)
(* to the log and y to the input log (Grows) and leaves the battle where   *)
(* it is (Stays), opens it (Opens) or moves it on (Goes); or it says       *)
(* something that tells no line (Says); the end of a chunk sends (Sends).  *)
(* Each of these preserves each part of the invariant.                     *)
(***************************************************************************)
EXTENDS PsStream, FunctionTheorems, SequenceTheorems, FiniteSetTheorems, WellFoundedInduction, TLAPS

Less == {mn \in Nat \X Nat : mn[1] < mn[2]}

\* The least-number principle.
LEMMA Least ==
    ASSUME NEW B, B \subseteq Nat, B # {}
    PROVE  \E n \in B : \A m \in B : n <= m
<1>1. IsWellFoundedOn(Less, Nat)
  BY NatLessThanWellFounded DEF OpToRel, Less
<1>2. \E n \in B : \A m \in B : ~(<<m, n>> \in Less)
  BY <1>1, WFMin
<1>3. \A m, n \in Nat : <<m, n>> \notin Less => n <= m
  BY DEF Less
<1> QED BY <1>2, <1>3

\* Induction on sequences, over the set of those that satisfy the claim.
LEMMA SeqInduction ==
    ASSUME NEW D, NEW P, <<>> \in P, \A s \in Seq(D), x \in D : s \in P => Append(s, x) \in P
    PROVE  Seq(D) \subseteq P
<1> DEFINE B == {k \in Nat : \E s \in Seq(D) : Len(s) = k /\ s \notin P}
<1>0. \A s \in Seq(D) : s \notin P => Len(s) \in B
  OBVIOUS
<1> SUFFICES ASSUME B # {} PROVE FALSE
  BY <1>0
<1>1. PICK k \in B : \A j \in B : k <= j
  <2>1. B \subseteq Nat
    OBVIOUS
  <2> HIDE DEF B
  <2> QED BY <2>1, Least
<1>2. PICK s \in Seq(D) : Len(s) = k /\ s \notin P
  BY <1>1
<1> HIDE DEF B
<1>3. s # <<>>
  BY <1>2
<1>4. PICK t \in Seq(D), x \in D : s = Append(t, x)
  BY <1>3, SequenceEmptyOrAppend
<1>5. Len(t) \in Nat /\ k = Len(t) + 1
  BY <1>2, <1>4, AppendProperties
<1>6. ~(k <= Len(t))
  BY <1>5
<1>7. t \in P
  BY <1>0, <1>1, <1>4, <1>6
<1> QED BY <1>2, <1>4, <1>7

-----------------------------------------------------------------------------
(* FlattenSeq.                                                              *)

\* g holds what FlattenSeq has gathered of s after n of its elements.
Gathers(g, s, n) == g = [i \in 1 .. n |-> IF i = 1 THEN s[i] ELSE g[i - 1] \o s[i]]

Gathered(s) == CHOOSE g : Gathers(g, s, Len(s))

LEMMA FlattenIs ==
    ASSUME NEW s
    PROVE  FlattenSeq(s) = IF Len(s) = 0 THEN s ELSE Gathered(s)[Len(s)]
BY DEF FlattenSeq, Gathered, Gathers

LEMMA GatherFirst ==
    ASSUME NEW s, NEW g, NEW n \in Nat, Gathers(g, s, n), n > 0
    PROVE  g[1] = s[1]
<1>1. 1 \in 1 .. n
  OBVIOUS
<1> QED BY <1>1 DEF Gathers

LEMMA GatherNext ==
    ASSUME NEW s, NEW g, NEW n \in Nat, Gathers(g, s, n), NEW i \in 2 .. n
    PROVE  g[i] = g[i - 1] \o s[i]
<1>1. i \in 1 .. n /\ i # 1
  OBVIOUS
<1> QED BY <1>1 DEF Gathers

LEMMA GatherExists ==
    ASSUME NEW s, NEW n \in Nat
    PROVE  \E g : Gathers(g, s, n)
<1> DEFINE B == {k \in Nat : ~\E g : Gathers(g, s, k)}
<1> SUFFICES B = {}
  OBVIOUS
<1> SUFFICES ASSUME B # {} PROVE FALSE
  OBVIOUS
<1>1. PICK k \in B : \A j \in B : k <= j
  <2>1. B \subseteq Nat
    OBVIOUS
  <2> HIDE DEF B
  <2> QED BY <2>1, Least
<1>2. CASE k = 0
  <2> DEFINE g == [i \in 1 .. 0 |-> 0]
  <2>1. Gathers(g, s, 0)
    BY DEF Gathers
  <2> QED BY <1>1, <1>2, <2>1
<1>3. CASE k # 0
  <2>1. k \in Nat /\ k - 1 \in Nat /\ k - 1 \notin B
    BY <1>1, <1>3
  <2>2. PICK h : Gathers(h, s, k - 1)
    BY <2>1
  <2> DEFINE g == [i \in 1 .. k |-> IF i < k THEN h[i] ELSE IF k = 1 THEN s[1] ELSE h[k - 1] \o s[k]]
  <2>3. ASSUME NEW i \in 1 .. k
        PROVE  g[i] = IF i = 1 THEN s[i] ELSE g[i - 1] \o s[i]
    <3>1. CASE i = k
      BY <3>1, <2>1
    <3>2. CASE i < k /\ i = 1
      BY <3>2, <2>1, <2>2, GatherFirst
    <3>3. CASE i < k /\ i # 1
      <4>1. i \in 2 .. k - 1
        BY <3>3
      <4>2. h[i] = h[i - 1] \o s[i]
        BY <4>1, <2>1, <2>2, GatherNext
      <4>3. g[i] = h[i] /\ g[i - 1] = h[i - 1]
        <5>1. i - 1 \in 1 .. k /\ i - 1 < k
          BY <3>3, <2>1
        <5> QED BY <5>1, <3>3
      <4> QED BY <3>3, <4>2, <4>3
    <3> QED BY <3>1, <3>2, <3>3
  <2>4. Gathers(g, s, k)
    BY <2>3 DEF Gathers
  <2> QED BY <1>1, <2>4
<1> QED BY <1>2, <1>3

Alike(s, t, n) == \A i \in 1 .. n : s[i] = t[i]

\* What is gathered of a beginning does not depend on what follows.
LEMMA GatherSame ==
    ASSUME NEW s, NEW t, NEW n \in Nat, NEW m \in Nat, n <= m,
           Alike(s, t, n),
           NEW g, NEW h, Gathers(g, s, n), Gathers(h, t, m)
    PROVE  Alike(g, h, n)
<1> DEFINE B == {i \in 1 .. n : g[i] # h[i]}
<1> SUFFICES ASSUME B # {} PROVE FALSE
  BY DEF Alike
<1> USE DEF Alike
<1>1. PICK k \in B : \A j \in B : k <= j
  <2>1. B \subseteq Nat
    OBVIOUS
  <2> HIDE DEF B
  <2> QED BY <2>1, Least
<1>2. CASE k = 1
  BY <1>1, <1>2, GatherFirst
<1>3. CASE k # 1
  <2>1. k \in 2 .. n /\ k \in 2 .. m /\ k - 1 \in 1 .. n
    BY <1>1, <1>3
  <2>2. g[k - 1] = h[k - 1]
    BY <1>1, <2>1
  <2>3. g[k] = g[k - 1] \o s[k] /\ h[k] = h[k - 1] \o t[k]
    BY <2>1, GatherNext
  <2> QED BY <1>1, <2>1, <2>2, <2>3
<1> QED BY <1>2, <1>3

LEMMA GatherSeq ==
    ASSUME NEW S, NEW s \in Seq(Seq(S)), NEW n \in 0 .. Len(s), NEW g, Gathers(g, s, n)
    PROVE  \A i \in 1 .. n : g[i] \in Seq(S)
<1> DEFINE B == {i \in 1 .. n : g[i] \notin Seq(S)}
<1> SUFFICES ASSUME B # {} PROVE FALSE
  OBVIOUS
<1>1. PICK k \in B : \A j \in B : k <= j
  <2>1. B \subseteq Nat
    OBVIOUS
  <2> HIDE DEF B
  <2> QED BY <2>1, Least
<1>2. k \in 1 .. n /\ k \in 1 .. Len(s) /\ s[k] \in Seq(S) /\ g[k] \notin Seq(S) /\ n \in Nat
  BY <1>1
<1>3. CASE k = 1
  <2>1. n > 0
    BY <1>2
  <2>2. g[1] = s[1]
    BY <1>2, <2>1, GatherFirst
  <2> QED BY <1>2, <1>3, <2>2
<1>4. CASE k # 1
  <2>1. k \in 2 .. n /\ k - 1 \in 1 .. n /\ ~(k <= k - 1)
    BY <1>2, <1>4
  <2>2. g[k - 1] \in Seq(S)
    BY <1>1, <2>1
  <2>3. g[k] = g[k - 1] \o s[k]
    BY <1>2, <2>1, GatherNext
  <2> HIDE DEF B
  <2> QED BY <1>2, <2>2, <2>3
<1> QED BY <1>3, <1>4

LEMMA FlattenEmpty == FlattenSeq(<<>>) = <<>>
BY FlattenIs

LEMMA FlattenSeqType ==
    ASSUME NEW S, NEW s \in Seq(Seq(S))
    PROVE  FlattenSeq(s) \in Seq(S)
<1>1. CASE Len(s) = 0
  <2>1. s = <<>>
    BY <1>1, EmptySeq
  <2> QED BY <2>1, FlattenEmpty, EmptySeq
<1>2. CASE Len(s) # 0
  <2>0. Len(s) \in Nat
    OBVIOUS
  <2>1. Gathers(Gathered(s), s, Len(s))
    BY <2>0, GatherExists DEF Gathered
  <2>2. Len(s) \in 1 .. Len(s) /\ Len(s) \in 0 .. Len(s)
    BY <1>2
  <2> QED BY <1>2, <2>1, <2>2, GatherSeq, FlattenIs
<1> QED BY <1>1, <1>2

LEMMA FlattenAppend ==
    ASSUME NEW S, NEW s \in Seq(Seq(S)), NEW x \in Seq(S)
    PROVE  FlattenSeq(Append(s, x)) = FlattenSeq(s) \o x
<1> DEFINE t == Append(s, x)
           n == Len(s)
<1>1. /\ t \in Seq(Seq(S)) /\ Len(t) = n + 1 /\ n \in Nat /\ t[n + 1] = x
      /\ \A i \in 1 .. n : t[i] = s[i]
  OBVIOUS
<1> HIDE DEF t, n
<1>2. Gathers(Gathered(t), t, n + 1)
  <2>1. n + 1 \in Nat
    BY <1>1
  <2> QED BY <2>1, <1>1, GatherExists DEF Gathered
<1>3. FlattenSeq(t) = Gathered(t)[n + 1]
  BY <1>1, FlattenIs
<1>4. CASE n = 0
  <2>1. s = <<>>
    BY <1>4 DEF n
  <2>2. Gathered(t)[1] = x
    BY <1>1, <1>2, <1>4, GatherFirst
  <2> QED BY <1>3, <1>4, <2>1, <2>2, FlattenEmpty DEF t
<1>5. CASE n # 0
  <2>1. Gathers(Gathered(s), s, n)
    BY <1>1, GatherExists DEF Gathered, n
  <2>2. Gathered(t)[n + 1] = Gathered(t)[n] \o x
    <3>1. n + 1 \in 2 .. n + 1 /\ (n + 1) - 1 = n /\ n + 1 \in Nat
      BY <1>1, <1>5
    <3> QED BY <3>1, <1>1, <1>2, GatherNext
  <2>3. Gathered(s)[n] = Gathered(t)[n]
    <3>1. n \in 1 .. n /\ n <= n + 1 /\ n + 1 \in Nat
      BY <1>1, <1>5
    <3>2. Alike(s, t, n)
      BY <1>1 DEF Alike
    <3>3. n \in Nat
      BY <1>1
    <3>4. Alike(Gathered(s), Gathered(t), n)
      BY <3>1, <3>2, <3>3, <1>2, <2>1, GatherSame
    <3> QED BY <3>1, <3>4 DEF Alike
  <2>4. FlattenSeq(s) = Gathered(s)[n]
    BY <1>5, FlattenIs DEF n
  <2> QED BY <1>3, <2>2, <2>3, <2>4 DEF t
<1> QED BY <1>4, <1>5

Joins(s, t) == FlattenSeq(s \o t) = FlattenSeq(s) \o FlattenSeq(t)

LEMMA JoinsNext ==
    ASSUME NEW S, NEW s \in Seq(Seq(S)), NEW t \in Seq(Seq(S)), NEW x \in Seq(S), Joins(s, t)
    PROVE  Joins(s, Append(t, x))
<1>1. s \o Append(t, x) = Append(s \o t, x) /\ s \o t \in Seq(Seq(S))
  OBVIOUS
<1>2. FlattenSeq(Append(s \o t, x)) = FlattenSeq(s \o t) \o x
  BY <1>1, FlattenAppend
<1>3. FlattenSeq(Append(t, x)) = FlattenSeq(t) \o x
  BY FlattenAppend
<1>4. FlattenSeq(s) \in Seq(S) /\ FlattenSeq(t) \in Seq(S)
  BY FlattenSeqType
<1>5. (FlattenSeq(s) \o FlattenSeq(t)) \o x = FlattenSeq(s) \o (FlattenSeq(t) \o x)
  BY <1>4
<1> QED BY <1>1, <1>2, <1>3, <1>5 DEF Joins

LEMMA FlattenConcat ==
    ASSUME NEW S, NEW s \in Seq(Seq(S)), NEW t \in Seq(Seq(S))
    PROVE  FlattenSeq(s \o t) = FlattenSeq(s) \o FlattenSeq(t)
<1> DEFINE P == {u \in Seq(Seq(S)) : Joins(s, u)}
<1>1. <<>> \in P
  <2>1. FlattenSeq(s) \in Seq(S) /\ s \o <<>> = s /\ <<>> \in Seq(Seq(S))
    BY FlattenSeqType, ConcatEmptySeq
  <2>2. FlattenSeq(s) \o <<>> = FlattenSeq(s)
    BY <2>1, ConcatEmptySeq
  <2> QED BY <2>1, <2>2, FlattenEmpty DEF Joins
<1>2. \A u \in Seq(Seq(S)), x \in Seq(S) : u \in P => Append(u, x) \in P
  BY JoinsNext, AppendProperties
<1>3. t \in P
  <2> HIDE DEF P
  <2> QED BY <1>1, <1>2, SeqInduction
<1> QED BY <1>3 DEF Joins

LEMMA FlattenOne ==
    ASSUME NEW S, NEW x \in Seq(S)
    PROVE  FlattenSeq(<<x>>) = x
<1>1. <<>> \in Seq(Seq(S)) /\ Append(<<>>, x) = <<x>>
  OBVIOUS
<1>2. FlattenSeq(<<x>>) = <<>> \o x
  BY <1>1, FlattenAppend, FlattenEmpty
<1> QED BY <1>2, ConcatEmptySeq

\* Nothing gives nothing.
LEMMA FlattenNothing ==
    ASSUME NEW s, NEW n \in Nat, s = [i \in 1 .. n |-> <<>>]
    PROVE  FlattenSeq(s) = <<>>
<1>1. s \in Seq(Seq({}))
  <2>1. <<>> \in Seq({})
    BY EmptySeq
  <2>2. s \in [1 .. n -> Seq({})]
    BY <2>1
  <2> QED BY <2>2, SeqDef
<1>2. FlattenSeq(s) \in Seq({})
  BY <1>1, FlattenSeqType
<1> QED BY <1>2

-----------------------------------------------------------------------------
(* Sequences without the members of a set.                                  *)
Marked(s, T) == [i \in 1 .. Len(s) |-> IF s[i] \in T THEN <<>> ELSE <<s[i]>>]

LEMMA WithoutIs == ASSUME NEW s, NEW T PROVE Without(s, T) = FlattenSeq(Marked(s, T))
BY DEF Without, Marked

LEMMA MarkedType ==
    ASSUME NEW D, NEW s \in Seq(D), NEW T
    PROVE  Marked(s, T) \in Seq(Seq(D))
<1>1. \A i \in 1 .. Len(s) : (IF s[i] \in T THEN <<>> ELSE <<s[i]>>) \in Seq(D)
  OBVIOUS
<1>2. Marked(s, T) \in [1 .. Len(s) -> Seq(D)] /\ Len(s) \in Nat
  BY <1>1 DEF Marked
<1> QED BY <1>2, SeqDef

LEMMA MarkedConcat ==
    ASSUME NEW D, NEW s \in Seq(D), NEW t \in Seq(D), NEW T
    PROVE  Marked(s \o t, T) = Marked(s, T) \o Marked(t, T)
<1>1. /\ Marked(s, T) \in Seq(Seq(D)) /\ Marked(t, T) \in Seq(Seq(D)) /\ Marked(s \o t, T) \in Seq(Seq(D))
      /\ s \o t \in Seq(D)
  BY MarkedType, ConcatProperties
<1>2. Len(Marked(s, T)) = Len(s) /\ Len(Marked(t, T)) = Len(t) /\ Len(Marked(s \o t, T)) = Len(s) + Len(t)
  BY <1>1 DEF Marked
<1>3. ASSUME NEW i \in 1 .. Len(s) + Len(t)
      PROVE  Marked(s \o t, T)[i] = (Marked(s, T) \o Marked(t, T))[i]
  BY <1>1, <1>2 DEF Marked
<1>4. Marked(s, T) \o Marked(t, T) \in Seq(Seq(D)) /\ Len(Marked(s, T) \o Marked(t, T)) = Len(s) + Len(t)
  BY <1>1, <1>2, ConcatProperties
<1> QED BY <1>1, <1>2, <1>3, <1>4, SeqEqual

LEMMA WithoutConcat ==
    ASSUME NEW D, NEW s \in Seq(D), NEW t \in Seq(D), NEW T
    PROVE  Without(s \o t, T) = Without(s, T) \o Without(t, T)
<1>1. Marked(s, T) \in Seq(Seq(D)) /\ Marked(t, T) \in Seq(Seq(D))
  BY MarkedType
<1>2. Marked(s \o t, T) = Marked(s, T) \o Marked(t, T)
  BY MarkedConcat
<1>3. Joins(Marked(s, T), Marked(t, T))
  BY <1>1, FlattenConcat DEF Joins
<1>4. PICK u : u = s \o t
  OBVIOUS
<1>5. Without(u, T) = FlattenSeq(Marked(u, T)) /\ Without(s, T) = FlattenSeq(Marked(s, T))
      /\ Without(t, T) = FlattenSeq(Marked(t, T))
  BY WithoutIs
<1>6. FlattenSeq(Marked(u, T)) = FlattenSeq(Marked(s, T)) \o FlattenSeq(Marked(t, T))
  BY <1>2, <1>3, <1>4 DEF Joins
<1> QED BY <1>4, <1>5, <1>6

LEMMA WithoutType ==
    ASSUME NEW D, NEW s \in Seq(D), NEW T
    PROVE  Without(s, T) \in Seq(D)
BY MarkedType, WithoutIs, FlattenSeqType

LEMMA WithoutEmpty == ASSUME NEW T PROVE Without(<<>>, T) = <<>>
<1>1. Marked(<<>>, T) = [i \in 1 .. 0 |-> <<>>]
  BY DEF Marked
<1> QED BY <1>1, WithoutIs, FlattenNothing

LEMMA WithoutOne ==
    ASSUME NEW D, NEW x \in D, NEW T
    PROVE  Without(<<x>>, T) = IF x \in T THEN <<>> ELSE <<x>>
<1>1. Marked(<<x>>, T) = <<IF x \in T THEN <<>> ELSE <<x>>>>
  BY DEF Marked
<1>2. (IF x \in T THEN <<>> ELSE <<x>>) \in Seq(D)
  OBVIOUS
<1> QED BY <1>1, <1>2, WithoutIs, FlattenOne

LEMMA WithoutAll ==
    ASSUME NEW T, NEW s \in Seq(T)
    PROVE  Without(s, T) = <<>>
<1>1. Len(s) \in Nat /\ Marked(s, T) = [i \in 1 .. Len(s) |-> <<>>]
  BY DEF Marked
<1> QED BY <1>1, WithoutIs, FlattenNothing

LEMMA WithoutNone ==
    ASSUME NEW D, NEW T, D \cap T = {}, NEW s \in Seq(D)
    PROVE  Without(s, T) = s
<1> DEFINE P == {u \in Seq(D) : Without(u, T) = u}
<1>1. <<>> \in P
  BY WithoutEmpty
<1>2. ASSUME NEW u \in Seq(D), NEW x \in D, u \in P
      PROVE  Append(u, x) \in P
  <2>0. <<x>> \in Seq(D)
    OBVIOUS
  <2>1. PICK v \in Seq(D) : v = <<x>>
    BY <2>0
  <2>2. Append(u, x) = u \o v /\ Append(u, x) \in Seq(D)
    BY <2>1, AppendIsConcat, AppendProperties
  <2>3. Without(v, T) = v
    BY <2>1, WithoutOne
  <2>4. Without(u \o v, T) = Without(u, T) \o Without(v, T)
    BY WithoutConcat
  <2> QED BY <1>2, <2>2, <2>3, <2>4
<1>3. s \in P
  <2> HIDE DEF P
  <2> QED BY <1>1, <1>2, SeqInduction
<1> QED BY <1>3

-----------------------------------------------------------------------------
(* Lines and inputs.                                                        *)
LogLine == ToSet(Script) \cup OwnLine

Command == {"start", "player", "force", "chat"}
Text == [cmd : {"choice"}, stop : Nat]
Input == [cmd : Command, stop : {0}] \cup Text

LEMMA ScriptIs == Script \in Seq(LogLine) /\ Len(Script) \in Nat \ {0}
<1>1. Script \in Seq(ToSet(Script)) /\ Script # <<>>
  BY StreamAssumption
<1>2. ToSet(Script) \subseteq LogLine
  BY DEF LogLine
<1>3. Script \in Seq(LogLine)
  BY <1>1, <1>2, SeqMonotonic
<1> QED BY <1>1, <1>3, EmptySeq

LEMMA OwnIs == OwnLine \subseteq LogLine /\ {"t", "gametype", "player", "rated", "chat"} \subseteq OwnLine
BY StreamAssumption DEF LogLine

LEMMA BattleConcat ==
    ASSUME NEW s \in Seq(LogLine), NEW t \in Seq(LogLine)
    PROVE  OfBattle(s \o t) = OfBattle(s) \o OfBattle(t)
<1>1. PICK u : u = s \o t
  OBVIOUS
<1>2. Without(u, OwnLine) = Without(s, OwnLine) \o Without(t, OwnLine)
  BY <1>1, WithoutConcat
<1> QED BY <1>1, <1>2 DEF OfBattle

LEMMA BattleOwn ==
    ASSUME NEW s \in Seq(OwnLine)
    PROVE  OfBattle(s) = <<>> /\ s \in Seq(LogLine)
BY WithoutAll, OwnIs, SeqMonotonic DEF OfBattle

LEMMA BattleType ==
    ASSUME NEW s \in Seq(LogLine)
    PROVE  OfBattle(s) \in Seq(LogLine)
BY WithoutType DEF OfBattle

\* Lines of the stream's own, written behind the battle's.
LEMMA BattleThenOwn ==
    ASSUME NEW s \in Seq(LogLine), NEW t \in Seq(OwnLine)
    PROVE  OfBattle(s \o t) = OfBattle(s)
<1>1. OfBattle(t) = <<>> /\ t \in Seq(LogLine) /\ OfBattle(s) \in Seq(LogLine)
  BY BattleOwn, BattleType
<1>2. OfBattle(s \o t) = OfBattle(s) \o OfBattle(t)
  BY <1>1, BattleConcat
<1> QED BY <1>1, <1>2, ConcatEmptySeq

\* The order the other way round.
LEMMA OwnThenBattle ==
    ASSUME NEW s \in Seq(LogLine), NEW t \in Seq(OwnLine)
    PROVE  OfBattle(t \o s) = OfBattle(s)
<1>1. OfBattle(t) = <<>> /\ t \in Seq(LogLine) /\ OfBattle(s) \in Seq(LogLine)
  BY BattleOwn, BattleType
<1>2. OfBattle(t \o s) = OfBattle(t) \o OfBattle(s)
  BY <1>1, BattleConcat
<1> QED BY <1>1, <1>2, ConcatEmptySeq

Plain == {Entry(cmd) : cmd \in Command}

LEMMA ChosenIs == ASSUME NEW s PROVE ChosenIn(s) = Without(s, Plain)
BY DEF ChosenIn, Plain, Command

LEMMA InputsAre == Plain \subseteq Input /\ Text \subseteq Input /\ Text \cap Plain = {}
BY DEF Plain, Text, Input, Entry, Command

LEMMA ChosenConcat ==
    ASSUME NEW s \in Seq(Input), NEW t \in Seq(Input)
    PROVE  ChosenIn(s \o t) = ChosenIn(s) \o ChosenIn(t)
<1>1. PICK u : u = s \o t
  OBVIOUS
<1>2. Without(u, Plain) = Without(s, Plain) \o Without(t, Plain)
  BY <1>1, WithoutConcat
<1> QED BY <1>1, <1>2, ChosenIs

LEMMA ChosenTexts ==
    ASSUME NEW s \in Seq(Text)
    PROVE  ChosenIn(s) = s /\ s \in Seq(Input)
BY WithoutNone, ChosenIs, InputsAre, SeqMonotonic

LEMMA ChosenThenPlain ==
    ASSUME NEW s \in Seq(Input), NEW t \in Seq(Plain)
    PROVE  ChosenIn(s \o t) = ChosenIn(s)
<1>1. ChosenIn(t) = <<>> /\ t \in Seq(Input) /\ ChosenIn(s) \in Seq(Input)
  BY WithoutAll, WithoutType, ChosenIs, InputsAre, SeqMonotonic
<1>2. ChosenIn(s \o t) = ChosenIn(s) \o ChosenIn(t)
  BY <1>1, ChosenConcat
<1> QED BY <1>1, <1>2, ConcatEmptySeq

Rated(x) == IF x = "tier" /\ opts.rated THEN <<"tier", "rated">> ELSE <<x>>

LEMMA RatedIs ==
    ASSUME NEW x \in LogLine
    PROVE  Rated(x) \in Seq(LogLine) /\ Len(Rated(x)) \in Nat \ {0} /\ OfBattle(Rated(x)) = OfBattle(<<x>>)
<1>1. <<x>> \in Seq(LogLine)
  OBVIOUS
<1>2. CASE ~(x = "tier" /\ opts.rated)
  BY <1>1, <1>2 DEF Rated
<1>3. CASE x = "tier" /\ opts.rated
  <2>1. PICK r : r = <<"rated">>
    OBVIOUS
  <2>2. r \in Seq(OwnLine) /\ r \in Seq(LogLine)
    BY <2>1, OwnIs
  <2>3. Rated(x) = <<x>> \o r /\ Rated(x) \in Seq(LogLine) /\ Len(Rated(x)) = 2
    <3>1. <<x>> \o <<"rated">> = Append(<<x>>, "rated") /\ "rated" \in LogLine
      BY <1>1, AppendIsConcat, OwnIs
    <3>2. Rated(x) = Append(<<x>>, "rated")
      BY <1>3 DEF Rated
    <3> QED BY <1>1, <2>1, <3>1, <3>2, AppendProperties
  <2>4. OfBattle(<<x>> \o r) = OfBattle(<<x>>)
    BY <1>1, <2>2, BattleThenOwn
  <2> QED BY <2>3, <2>4
<1> QED BY <1>2, <1>3

LEMMA RatingNext ==
    ASSUME NEW s \in Seq(LogLine), NEW x \in LogLine
    PROVE  WithRating(Append(s, x)) = WithRating(s) \o Rated(x) /\ WithRating(s) \in Seq(LogLine)
<1> DEFINE M(u) == [i \in 1 .. Len(u) |-> Rated(u[i])]
<1>1. \A u : WithRating(u) = FlattenSeq(M(u))
  BY DEF WithRating, Rated
<1>2. M(s) \in Seq(Seq(LogLine))
  <2>1. \A i \in 1 .. Len(s) : Rated(s[i]) \in Seq(LogLine)
    <3>1. \A i \in 1 .. Len(s) : s[i] \in LogLine
      OBVIOUS
    <3> HIDE DEF M
    <3> QED BY <3>1, RatedIs
  <2>2. M(s) \in [1 .. Len(s) -> Seq(LogLine)] /\ Len(s) \in Nat
    BY <2>1
  <2> QED BY <2>2, SeqDef
<1>3. Rated(x) \in Seq(LogLine)
  BY RatedIs
<1>4. M(Append(s, x)) = Append(M(s), Rated(x))
  <2>1. Len(Append(s, x)) = Len(s) + 1 /\ Append(s, x)[Len(s) + 1] = x /\ \A i \in 1 .. Len(s) : Append(s, x)[i] = s[i]
    OBVIOUS
  <2> QED BY <2>1, <1>2
<1>5. FlattenSeq(Append(M(s), Rated(x))) = FlattenSeq(M(s)) \o Rated(x)
  BY <1>2, <1>3, FlattenAppend
<1> HIDE DEF M
<1> QED BY <1>1, <1>2, <1>4, <1>5, FlattenSeqType

LEMMA RatingIs ==
    ASSUME NEW s \in Seq(LogLine)
    PROVE  /\ WithRating(s) \in Seq(LogLine) /\ OfBattle(WithRating(s)) = OfBattle(s)
           /\ s # <<>> => WithRating(s) # <<>>
<1> DEFINE P == {u \in Seq(LogLine) : OfBattle(WithRating(u)) = OfBattle(u)}
<1>1. <<>> \in P
  BY FlattenEmpty DEF WithRating
<1>2. ASSUME NEW u \in Seq(LogLine), NEW x \in LogLine, u \in P
      PROVE  Append(u, x) \in P
  <2>0. <<x>> \in Seq(LogLine)
    OBVIOUS
  <2>1. PICK v \in Seq(LogLine) : v = <<x>>
    BY <2>0
  <2>2. Append(u, x) = u \o v /\ Append(u, x) \in Seq(LogLine)
    BY <2>1, AppendIsConcat, AppendProperties
  <2>3. /\ WithRating(Append(u, x)) = WithRating(u) \o Rated(x) /\ WithRating(u) \in Seq(LogLine)
        /\ Rated(x) \in Seq(LogLine) /\ OfBattle(Rated(x)) = OfBattle(v)
    BY <2>1, RatingNext, RatedIs
  <2>4. OfBattle(WithRating(u) \o Rated(x)) = OfBattle(WithRating(u)) \o OfBattle(Rated(x))
    BY <2>3, BattleConcat
  <2>5. OfBattle(u \o v) = OfBattle(u) \o OfBattle(v)
    BY BattleConcat
  <2> QED BY <1>2, <2>2, <2>3, <2>4, <2>5
<1>3. s \in P
  <2> HIDE DEF P
  <2> QED BY <1>1, <1>2, SeqInduction
<1>4. CASE s = <<>>
  <2>1. WithRating(s) = <<>>
    BY <1>4, FlattenEmpty DEF WithRating
  <2> QED BY <1>3, <1>4, <2>1
<1>5. CASE s # <<>>
  <2>1. PICK u \in Seq(LogLine), x \in LogLine : s = Append(u, x)
    BY <1>5, SequenceEmptyOrAppend
  <2>2. /\ WithRating(s) = WithRating(u) \o Rated(x) /\ WithRating(u) \in Seq(LogLine)
        /\ Rated(x) \in Seq(LogLine) /\ Len(Rated(x)) \in Nat \ {0}
    BY <2>1, RatingNext, RatedIs
  <2>3. WithRating(s) \in Seq(LogLine) /\ Len(WithRating(s)) > 0
    BY <2>2, ConcatProperties, LenProperties
  <2> QED BY <1>3, <2>3
<1> QED BY <1>4, <1>5

LEMMA RepeatedIs ==
    ASSUME NEW s \in Seq(LogLine)
    PROVE  Repeated(s) \in 0 .. Len(s) /\ SubSeq(s, 1, Repeated(s)) \in Seq(OwnLine)
<1> DEFINE B == {n \in 0 .. Len(s) : n < Len(s) => s[n + 1] \notin {"t", "gametype", "player"}}
<1>1. B \subseteq Nat /\ Len(s) \in B
  OBVIOUS
<1>2. Repeated(s) = Min(B)
  BY DEF Repeated
<1>3. Min(B) \in B /\ \A m \in B : Min(B) <= m
  <2> HIDE DEF B
  <2>1. \E n \in B : \A m \in B : n <= m
    BY <1>1, Least
  <2> QED BY <2>1 DEF Min
<1>4. ASSUME NEW i \in 1 .. Repeated(s)
      PROVE  s[i] \in OwnLine
  <2>1. i - 1 \in 0 .. Len(s) /\ i - 1 < Len(s) /\ i - 1 < Repeated(s) /\ (i - 1) + 1 = i
    BY <1>2, <1>3
  <2>2. i - 1 \notin B
    <3>1. ~(Repeated(s) <= i - 1)
      BY <2>1, <1>2, <1>3
    <3> HIDE DEF B
    <3> QED BY <1>2, <1>3, <3>1
  <2>3. s[i] \in {"t", "gametype", "player"}
    BY <2>1, <2>2
  <2> QED BY <2>3, OwnIs
<1>5. Repeated(s) \in 0 .. Len(s) /\ Repeated(s) \in Int
  BY <1>2, <1>3
<1> QED BY <1>4, <1>5, SubSeqProperties

-----------------------------------------------------------------------------
(* Messages, and the lines they tell.                                       *)
Message ==
    [type : {"update"}, lines : Seq(LogLine)]
      \cup [type : {"request", "revealed"}, side : Player, stop : Nat]
      \cup [type : {"error"}, side : Player]
      \cup [type : {"end"}, inputs : Seq(Input)]
      \cup {RequestedData}

LEMMA MessagesAre ==
    /\ \A x \in Seq(LogLine) : Update(x) \in Message /\ Update(x).type = "update" /\ Update(x).lines = x
    /\ \A p \in Player, n \in Nat : /\ {Request(p, n), Revealed(p, n), ErrorTo(p)} \subseteq Message
                                   /\ Request(p, n).type = "request" /\ Revealed(p, n).type = "revealed"
                                   /\ Request(p, n).stop = n
                                   /\ ErrorTo(p).type = "error"
    /\ \A x \in Seq(Input) : /\ EndRecord(x) \in Message /\ EndRecord(x).type = "end"
                             /\ EndRecord(x).inputs = x
    /\ RequestedData \in Message /\ RequestedData.type = "requesteddata"
    /\ \A m \in Message : m.type = "update" => m.lines \in Seq(LogLine)
BY DEF Message, Update, Request, Revealed, ErrorTo, EndRecord, RequestedData

LinesOf(m) == IF m.type = "update" THEN m.lines ELSE <<>>
Told(o, n) == FlattenSeq([i \in 1 .. n |-> LinesOf(o[i])])

Makes(o, q, r) == r = o \o q
Silent(q) == \A i \in 1 .. Len(q) : q[i].type # "update"

LEMMA DeliveredIs == \A n : Delivered(n) = Told(out, n)
BY DEF Delivered, Told, LinesOf

LEMMA LinesType ==
    ASSUME NEW o \in Seq(Message), NEW n \in 0 .. Len(o)
    PROVE  /\ [i \in 1 .. n |-> LinesOf(o[i])] \in Seq(Seq(LogLine))
           /\ Len([i \in 1 .. n |-> LinesOf(o[i])]) = n
           /\ Told(o, n) \in Seq(LogLine)
<1>1. \A i \in 1 .. n : o[i] \in Message /\ LinesOf(o[i]) \in Seq(LogLine)
  BY MessagesAre DEF LinesOf
<1>2. n \in Nat
  OBVIOUS
<1> PICK s : s = [i \in 1 .. n |-> LinesOf(o[i])]
  OBVIOUS
<1>3. s \in [1 .. n -> Seq(LogLine)] /\ s \in Seq(Seq(LogLine)) /\ Len(s) = n
  BY <1>1, <1>2, SeqDef
<1>4. Told(o, n) = FlattenSeq(s)
  BY DEF Told
<1> QED BY <1>3, <1>4, FlattenSeqType

LEMMA ToldSame ==
    ASSUME NEW o, NEW q, NEW n, Alike(o, q, n)
    PROVE  Told(o, n) = Told(q, n)
<1>1. [i \in 1 .. n |-> LinesOf(o[i])] = [i \in 1 .. n |-> LinesOf(q[i])]
  BY DEF Alike
<1> QED BY <1>1 DEF Told

LEMMA ToldSilent ==
    ASSUME NEW q \in Seq(Message), Silent(q), NEW k \in 0 .. Len(q)
    PROVE  Told(q, k) = <<>>
<1>1. k \in Nat /\ [i \in 1 .. k |-> LinesOf(q[i])] = [i \in 1 .. k |-> <<>>]
  BY DEF LinesOf, Silent
<1> QED BY <1>1, FlattenNothing DEF Told

LEMMA ToldPast ==
    ASSUME NEW o \in Seq(Message), NEW q \in Seq(Message), NEW k \in 0 .. Len(q), NEW r, Makes(o, q, r),
           NEW j, j = Len(o) + k
    PROVE  Told(r, j) = Told(o, Len(o)) \o Told(q, k)
<1> PICK n : n = Len(o)
  OBVIOUS
<1>0. r = o \o q
  BY DEF Makes
<1>1. n \in Nat /\ r \in Seq(Message) /\ Len(r) = n + Len(q) /\ n + k \in 0 .. Len(r)
  BY <1>0, ConcatProperties
<1>2. \A i \in 1 .. n + k : r[i] = IF i <= n THEN o[i] ELSE q[i - n]
  BY <1>0, ConcatProperties
<1> DEFINE a == [i \in 1 .. n |-> LinesOf(o[i])]
           b == [i \in 1 .. k |-> LinesOf(q[i])]
           c == [i \in 1 .. n + k |-> LinesOf(r[i])]
<1>3. a \in Seq(Seq(LogLine)) /\ b \in Seq(Seq(LogLine)) /\ c \in Seq(Seq(LogLine)) /\ Len(a) = n /\ Len(b) = k /\ Len(c) = n + k
  <2>1. n \in 0 .. Len(o)
    BY <1>1
  <2> QED BY <1>1, <2>1, LinesType
<1>4. a \o b \in Seq(Seq(LogLine)) /\ Len(a \o b) = n + k
  <2> HIDE DEF a, b
  <2>1. a \o b \in Seq(Seq(LogLine)) /\ Len(a \o b) = Len(a) + Len(b)
    BY <1>3, ConcatProperties
  <2> QED BY <1>3, <2>1
<1>5. ASSUME NEW i \in 1 .. n + k
      PROVE  c[i] = (a \o b)[i]
  <2>1. c[i] = LinesOf(r[i])
    OBVIOUS
  <2>2. CASE i <= n
    <3>1. a[i] = LinesOf(o[i]) /\ r[i] = o[i]
      BY <1>1, <1>2, <2>2
    <3>2. (a \o b)[i] = a[i]
      <4> HIDE DEF a, b
      <4> QED BY <1>1, <1>3, <2>2, ConcatProperties
    <3> HIDE DEF a, b, c
    <3> QED BY <2>1, <3>1, <3>2
  <2>3. CASE ~(i <= n)
    <3>1. b[i - n] = LinesOf(q[i - n]) /\ r[i] = q[i - n]
      BY <1>1, <1>2, <2>3
    <3>2. (a \o b)[i] = b[i - n]
      <4> HIDE DEF a, b
      <4>1. i \in 1 .. Len(a) + Len(b) /\ ~(i <= Len(a)) /\ i - Len(a) = i - n
        BY <1>1, <1>3, <2>3
      <4> QED BY <1>3, <4>1, ConcatProperties
    <3> HIDE DEF a, b, c
    <3> QED BY <2>1, <3>1, <3>2
  <2> QED BY <2>2, <2>3
<1>6. c = a \o b
  <2> HIDE DEF a, b, c
  <2> QED BY <1>3, <1>4, <1>5, SeqEqual
<1>7. Joins(a, b)
  <2> HIDE DEF a, b, c
  <2> QED BY <1>3, FlattenConcat DEF Joins
<1>8. Told(r, j) = FlattenSeq(c) /\ Told(o, n) = FlattenSeq(a) /\ Told(q, k) = FlattenSeq(b)
  BY DEF Told
<1> HIDE DEF a, b, c
<1> QED BY <1>6, <1>7, <1>8 DEF Joins

\* Messages without lines change nothing of what was told.
LEMMA ToldStill ==
    ASSUME NEW o \in Seq(Message), NEW q \in Seq(Message), Silent(q), NEW r, Makes(o, q, r),
           NEW i \in 1 .. Len(r)
    PROVE  Told(r, i) = IF i <= Len(o) THEN Told(o, i) ELSE Told(o, Len(o))
<1>0. r = o \o q
  BY DEF Makes
<1>1. Len(o) \in Nat /\ Len(q) \in Nat /\ i \in 1 .. Len(o) + Len(q) /\ \A j \in 1 .. Len(o) : r[j] = o[j]
  BY <1>0, ConcatProperties
<1>2. CASE i <= Len(o)
  <2>1. Alike(r, o, i)
    BY <1>1, <1>2 DEF Alike
  <2> QED BY <1>2, <2>1, ToldSame
<1>3. CASE ~(i <= Len(o))
  <2>1. PICK k \in 0 .. Len(q) : i = Len(o) + k
    <3>1. i - Len(o) \in 0 .. Len(q) /\ i = Len(o) + (i - Len(o))
      BY <1>1, <1>3
    <3> QED BY <3>1
  <2>2. Told(q, k) = <<>>
    BY ToldSilent
  <2>3. Told(r, i) = Told(o, Len(o)) \o Told(q, k)
    BY <2>1, ToldPast
  <2>4. Told(o, Len(o)) \in Seq(LogLine)
    BY <1>1, LinesType
  <2> QED BY <1>3, <2>2, <2>3, <2>4, ConcatEmptySeq
<1> QED BY <1>2, <1>3

Updates(v, x) == v = <<Update(x)>>

LEMMA MakesIs ==
    ASSUME NEW o \in Seq(Message), NEW q \in Seq(Message), NEW r, Makes(o, q, r)
    PROVE  /\ r \in Seq(Message) /\ Len(o) \in Nat /\ Len(q) \in Nat /\ Len(r) = Len(o) + Len(q)
           /\ Alike(r, o, Len(o))
           /\ \A i \in 1 .. Len(r) : i > Len(o) => i - Len(o) \in 1 .. Len(q) /\ r[i] = q[i - Len(o)]
BY ConcatProperties DEF Makes, Alike

LEMMA UpdatesIs ==
    ASSUME NEW x \in Seq(LogLine), NEW v, Updates(v, x)
    PROVE  v \in Seq(Message) /\ Len(v) = 1 /\ v[1] = Update(x) /\ Told(v, Len(v)) = x
<1>1. Update(x) \in Message
  BY MessagesAre
<1>2. v \in Seq(Message) /\ Len(v) = 1 /\ v[1] = Update(x)
  BY <1>1 DEF Updates
<1>3. [j \in 1 .. 1 |-> LinesOf(v[j])] = <<x>>
  BY <1>2, MessagesAre DEF LinesOf
<1> QED BY <1>2, <1>3, FlattenOne DEF Told

LEMMA ToldEnd ==
    ASSUME NEW o \in Seq(Message), NEW q \in Seq(Message), NEW r, Makes(o, q, r)
    PROVE  Told(r, Len(r)) = Told(o, Len(o)) \o Told(q, Len(q))
<1>1. ASSUME NEW k \in 0 .. Len(q), NEW j, j = Len(o) + k
      PROVE  Told(r, j) = Told(o, Len(o)) \o Told(q, k)
  BY <1>1, ToldPast
<1>2. Len(r) = Len(o) + Len(q) /\ Len(q) \in 0 .. Len(q)
  BY MakesIs
<1> QED BY <1>1, <1>2

\* An update tells its lines, and what comes with it none.
LEMMA ToldMore ==
    ASSUME NEW o \in Seq(Message), NEW x \in Seq(LogLine), NEW q \in Seq(Message), Silent(q),
           NEW v, Updates(v, x), NEW u, Makes(o, v, u), NEW r, Makes(u, q, r), NEW i \in 1 .. Len(r)
    PROVE  Told(r, i) = IF i <= Len(o) THEN Told(o, i) ELSE Told(o, Len(o)) \o x
<1>1. v \in Seq(Message) /\ Len(v) = 1
  BY UpdatesIs
<1>2. u \in Seq(Message) /\ Len(u) = Len(o) + 1 /\ Len(o) \in Nat /\ Alike(u, o, Len(o))
  <2>1. u \in Seq(Message) /\ Len(u) = Len(o) + Len(v) /\ Len(o) \in Nat /\ Alike(u, o, Len(o))
    BY <1>1, MakesIs
  <2> QED BY <1>1, <2>1
<1>3. Told(r, i) = IF i <= Len(u) THEN Told(u, i) ELSE Told(u, Len(u))
  BY <1>2, ToldStill
<1>4. Told(u, Len(u)) = Told(o, Len(o)) \o x
  <2>1. v \in Seq(Message) /\ Told(v, Len(v)) = x
    BY UpdatesIs
  <2>2. Told(u, Len(u)) = Told(o, Len(o)) \o Told(v, Len(v))
    BY <2>1, ToldEnd
  <2> QED BY <2>1, <2>2
<1>5. CASE i <= Len(o)
  <2>1. i <= Len(u)
    BY <1>2, <1>5
  <2>2. Alike(u, o, i)
    BY <1>2, <1>5 DEF Alike
  <2>3. Told(u, i) = Told(o, i)
    BY <2>2, ToldSame
  <2> QED BY <1>3, <1>5, <2>1, <2>3
<1>6. CASE ~(i <= Len(o))
  <2>1. i <= Len(u) => i = Len(u)
    BY <1>2, <1>6
  <2>2. Told(r, i) = Told(u, Len(u))
    BY <1>3, <2>1
  <2> QED BY <1>4, <1>6, <2>2
<1> QED BY <1>5, <1>6

-----------------------------------------------------------------------------
(* What a chunk's end sends.                                                *)
LEMMA ListIs ==
    ASSUME NEW S, IsFiniteSet(S)
    PROVE  /\ SetToSeq(S) \in Seq(S)
           /\ \A x \in S : \E i \in 1 .. Len(SetToSeq(S)) : SetToSeq(S)[i] = x
<1> PICK n : n = Cardinality(S)
  OBVIOUS
<1>1. n \in Nat /\ ExistsBijection(1 .. n, S)
  BY FS_CardinalityType
<1>2. PICK f \in Bijection(1 .. n, S) : TRUE
  BY <1>1 DEF ExistsBijection
<1>3. f \in [1 .. n -> S] /\ IsInjective(f)
  BY <1>2 DEF Bijection, Injection
<1> PICK g : g = SetToSeq(S)
  OBVIOUS
<1>4. g \in [1 .. n -> S] /\ IsInjective(g)
  BY <1>3 DEF SetToSeq
<1>5. g \in Injection(1 .. n, S)
  BY <1>4 DEF Injection
<1>6. IsFiniteSet(1 .. n) /\ Cardinality(1 .. n) = n
  BY <1>1, FS_Interval
<1>7. g \in Surjection(1 .. n, S)
  BY <1>5, <1>6, FS_Injection
<1>8. \A x \in S : \E i \in 1 .. n : g[i] = x
  BY <1>7 DEF Surjection
<1>9. g \in Seq(S) /\ Len(g) = n
  BY <1>1, <1>4, SeqDef
<1> QED BY <1>8, <1>9

StopNow == IF ended THEN 0 ELSE Len(stops)
Ending == session /\ ended /\ ~sentEnd

LEMMA RequestsAre ==
    ASSUME Len(stops) \in Nat
    PROVE  /\ Requests \in Seq(Message)
           /\ \A i \in 1 .. Len(Requests) : newRequests /\ \E p \in Player : Requests[i] = Request(p, StopNow)
           /\ newRequests => \A p \in Player : \E i \in 1 .. Len(Requests) : Requests[i] = Request(p, StopNow)
<1> DEFINE S == {Request(p, StopNow) : p \in Player}
<1>0. StopNow \in Nat
  BY DEF StopNow
<1>1. IsFiniteSet(S)
  <2>1. IsFiniteSet(Player)
    BY StreamAssumption
  <2> DEFINE f == [p \in Player |-> Request(p, StopNow)]
  <2>2. f \in [Player -> S]
    OBVIOUS
  <2>3. \A x \in S : \E p \in Player : f[p] = x
    OBVIOUS
  <2>4. f \in Surjection(Player, S)
    <3> HIDE DEF f, S
    <3> QED BY <2>2, <2>3, Fun_IsSurj
  <2> HIDE DEF f, S
  <2> QED BY <2>1, <2>4, FS_Surjection
<1>2. S \subseteq Message
  BY <1>0, MessagesAre
<1>3. CASE ~newRequests
  <2>1. Requests = <<>>
    BY <1>3 DEF Requests
  <2> QED BY <1>3, <2>1, EmptySeq
<1>4. CASE newRequests
  <2>1. Requests = SetToSeq(S)
    BY <1>4 DEF Requests, StopNow
  <2>2. Requests \in Seq(S) /\ \A x \in S : \E i \in 1 .. Len(Requests) : Requests[i] = x
    <3> HIDE DEF S
    <3> QED BY <1>1, <2>1, ListIs
  <2>3. Requests \in Seq(Message)
    <3> HIDE DEF S
    <3> QED BY <1>2, <2>2, SeqMonotonic
  <2>4. \A i \in 1 .. Len(Requests) : Requests[i] \in S
    <3> HIDE DEF S
    <3> QED BY <2>2, ElementOfSeq
  <2> QED BY <1>4, <2>2, <2>3, <2>4
<1> QED BY <1>3, <1>4

LEMMA RecordIs ==
    ASSUME inputLog \in Seq(Input)
    PROVE  Record = (IF Ending THEN <<EndRecord(inputLog)>> ELSE <<>>) /\ Record \in Seq(Message)
<1>1. EndRecord(inputLog) \in Message
  BY MessagesAre
<1> QED BY <1>1 DEF Record, Ending

\* The messages q that follow an update.
Follows(q) ==
    /\ q \in Seq(Message) /\ Silent(q)
    /\ \A i \in 1 .. Len(q) :
          \/ newRequests /\ \E p \in Player : q[i] = Request(p, StopNow)
          \/ Ending /\ q[i] = EndRecord(inputLog) /\ i = Len(q)

Complete(q) ==
    /\ newRequests => \A p \in Player : \E i \in 1 .. Len(q) : q[i] = Request(p, StopNow)
    /\ Ending => \E i \in 1 .. Len(q) : q[i] = EndRecord(inputLog)

LEMMA FollowersAre ==
    ASSUME Len(stops) \in Nat, inputLog \in Seq(Input)
    PROVE  Follows(Requests \o Record) /\ Complete(Requests \o Record)
<1> PICK a : a = Requests
  OBVIOUS
<1> PICK b : b = Record
  OBVIOUS
<1> PICK q : q = a \o b
  OBVIOUS
<1>1. /\ a \in Seq(Message)
      /\ \A i \in 1 .. Len(a) : newRequests /\ \E p \in Player : a[i] = Request(p, StopNow)
      /\ newRequests => \A p \in Player : \E i \in 1 .. Len(a) : a[i] = Request(p, StopNow)
  BY RequestsAre
<1>2. /\ b \in Seq(Message) /\ Len(b) \in {0, 1}
      /\ Len(b) = 1 <=> Ending
      /\ Len(b) = 1 => b[1] = EndRecord(inputLog)
  BY RecordIs
<1>3. /\ q \in Seq(Message) /\ Len(a) \in Nat /\ Len(q) = Len(a) + Len(b)
      /\ \A i \in 1 .. Len(a) : q[i] = a[i]
      /\ Len(b) = 1 => q[Len(a) + 1] = b[1]
  BY <1>1, <1>2, ConcatProperties
<1>4. \A i \in 1 .. Len(q) : i \in 1 .. Len(a) \/ (Len(b) = 1 /\ i = Len(a) + 1 /\ i = Len(q))
  BY <1>2, <1>3
<1>5. StopNow \in Nat
  BY DEF StopNow
<1>6. \A p \in Player : Request(p, StopNow).type = "request" /\ EndRecord(inputLog).type = "end"
  BY <1>5, MessagesAre
<1>7. EndRecord(inputLog).type = "end"
  BY MessagesAre
<1>8. ASSUME NEW i \in 1 .. Len(q)
      PROVE  /\ q[i].type # "update"
             /\ \/ newRequests /\ \E p \in Player : q[i] = Request(p, StopNow)
                \/ Ending /\ q[i] = EndRecord(inputLog) /\ i = Len(q)
  <2>1. CASE i \in 1 .. Len(a)
    BY <1>1, <1>3, <1>6, <2>1
  <2>2. CASE Len(b) = 1 /\ i = Len(a) + 1 /\ i = Len(q)
    BY <1>2, <1>3, <1>7, <2>2
  <2> QED BY <1>4, <2>1, <2>2
<1>9. Complete(q)
  <2>1. ASSUME newRequests, NEW p \in Player
        PROVE  \E i \in 1 .. Len(q) : q[i] = Request(p, StopNow)
    <3>1. PICK i \in 1 .. Len(a) : a[i] = Request(p, StopNow)
      BY <1>1, <2>1
    <3>2. i \in 1 .. Len(q) /\ q[i] = a[i]
      BY <1>2, <1>3
    <3> QED BY <3>1, <3>2
  <2>2. ASSUME Ending  PROVE \E i \in 1 .. Len(q) : q[i] = EndRecord(inputLog)
    <3>1. Len(b) = 1
      BY <1>2, <2>2
    <3>2. Len(a) + 1 \in 1 .. Len(q)
      BY <1>3, <3>1
    <3> QED BY <1>2, <1>3, <3>1, <3>2
  <2> QED BY <2>1, <2>2 DEF Complete
<1>10. Follows(q)
  BY <1>3, <1>8 DEF Follows, Silent
<1> QED BY <1>9, <1>10

Dropped(m) == {x \in ToSet(m) : opts.replayOnly /\ x.type # "update"}
Kept(q) == IF opts.replayOnly THEN <<>> ELSE q

LEMMA WithoutMakes ==
    ASSUME NEW s \in Seq(Message), NEW t \in Seq(Message), NEW T, NEW r, Makes(s, t, r)
    PROVE  Without(r, T) = Without(s, T) \o Without(t, T)
BY WithoutConcat DEF Makes

LEMMA KeptIs ==
    ASSUME NEW u \in Seq(Message), \A i \in 1 .. Len(u) : u[i].type = "update",
           NEW q \in Seq(Message), Silent(q), NEW m, Makes(u, q, m)
    PROVE  Makes(u, Kept(q), Without(m, Dropped(m)))
<1>1. m \in Seq(Message) /\ m = u \o q
  BY ConcatProperties DEF Makes
<1>2. CASE ~opts.replayOnly
  <2>1. Message \cap Dropped(m) = {}
    BY <1>2 DEF Dropped
  <2>2. Without(m, Dropped(m)) = m
    BY <1>1, <2>1, WithoutNone
  <2> QED BY <1>2, <2>2 DEF Kept
<1>3. CASE opts.replayOnly
  <2> PICK T : T = Dropped(m)
    OBVIOUS
  <2> DEFINE U == {x \in Message : x.type = "update"}
  <2>1. u \in Seq(U) /\ U \cap T = {}
    <3>1. \A i \in 1 .. Len(u) : u[i] \in U
      OBVIOUS
    <3>2. Len(u) \in Nat /\ u \in [1 .. Len(u) -> U]
      <4>1. DOMAIN u = 1 .. Len(u) /\ u = [i \in 1 .. Len(u) |-> u[i]] /\ Len(u) \in Nat
        BY LenProperties
      <4> HIDE DEF U
      <4> QED BY <3>1, <4>1
    <3>3. u \in Seq(U)
      <4> HIDE DEF U
      <4> QED BY <3>2, SeqDef
    <3> QED BY <3>3 DEF Dropped
  <2>2. q \in Seq(T)
    <3>1. \A i \in 1 .. Len(q) : q[i] \in T
      <4> SUFFICES ASSUME NEW i \in 1 .. Len(q) PROVE q[i] \in T
        OBVIOUS
      <4>1. Len(u) + i \in 1 .. Len(m) /\ m[Len(u) + i] = q[i] /\ DOMAIN m = 1 .. Len(m)
        BY <1>1, ConcatProperties, LenProperties
      <4>2. q[i] \in ToSet(m)
        BY <4>1 DEF ToSet
      <4> QED BY <1>3, <4>2 DEF Dropped, Silent
    <3>2. DOMAIN q = 1 .. Len(q) /\ q = [i \in 1 .. Len(q) |-> q[i]] /\ Len(q) \in Nat
      BY LenProperties
    <3>3. q \in [1 .. Len(q) -> T]
      BY <3>1, <3>2
    <3> QED BY <3>2, <3>3, SeqDef
  <2>3. Without(u, T) = u
    <3> HIDE DEF U
    <3> QED BY <2>1, WithoutNone
  <2>4. Without(q, T) = <<>>
    BY <2>2, WithoutAll
  <2>5. Without(m, T) = Without(u, T) \o Without(q, T)
    BY WithoutMakes
  <2> QED BY <1>3, <2>3, <2>4, <2>5 DEF Kept, Makes
<1> QED BY <1>2, <1>3

-----------------------------------------------------------------------------
(* The invariant.                                                           *)
TypeInv ==
    /\ raw \in Seq(LogLine) /\ newRequests \in BOOLEAN /\ committed \in Seq(Text) /\ ended \in BOOLEAN
    /\ opts \in Options /\ format \in BOOLEAN /\ players \subseteq Player /\ session \in BOOLEAN
    /\ log \in Seq(LogLine) /\ sentPos \in 0 .. Len(log) /\ inputLog \in Seq(Input)
    /\ sentEnd \in BOOLEAN /\ closed \in BOOLEAN /\ out \in Seq(Message)
    /\ chunk \in {"open", "aborted", "sent"} /\ stops \in Seq(Nat)

\* The battle has written its script up to here; its stops are on the way,
\* and it stands at the last of them until it ends.
BattleInv ==
    /\ Len(raw) <= Len(Script) /\ raw = SubSeq(Script, 1, Len(raw))
    /\ \A i \in 1 .. Len(stops) : stops[i] \in 1 .. Len(raw)
    /\ session /\ ~ended => stops # <<>> /\ stops[Len(stops)] = Len(raw)
    /\ ~session => raw = <<>> /\ committed = <<>> /\ stops = <<>> /\ ~ended /\ ~newRequests

\* The end is sent only when there is one, and closes the stream.
SentInv ==
    /\ SentOnce
    /\ closed => sentEnd
    /\ sentEnd => session /\ ended
    /\ sentEnd /\ ~opts.keepAlive => closed

EndInv ==
    /\ OneEnd
    /\ \A i \in 1 .. Len(out) : out[i].type = "end" => sentEnd
    /\ sentEnd /\ ~opts.replayOnly => \E i \in 1 .. Len(out) : out[i].type = "end"

AskInv ==
    /\ RequestsFollowLog
    /\ \A i \in 1 .. Len(out) : out[i].type = "request" => out[i].stop \in 0 .. Len(stops)

\* Whatever waits to be sent has left a line in the log that waits too.
WaitInv ==
    /\ newRequests \/ Ending => sentPos < Len(log)
    /\ session /\ ~newRequests /\ ~ended /\ ~opts.replayOnly =>
          \A p \in Player : \E i \in 1 .. Len(out) : out[i] = Request(p, Len(stops))
    /\ chunk = "sent" => ~newRequests /\ ~Ending

StreamInv == LogCarriesBattle /\ BattleInv /\ SentInv /\ EndInv /\ AskInv /\ WaitInv

-----------------------------------------------------------------------------
(* What the lines of a chunk do to the two logs and to the battle.          *)

Grows(x, y) ==
    /\ x \in Seq(LogLine) /\ log' = log \o x
    /\ y \in Seq(Input) /\ inputLog' = inputLog \o y
    /\ UNCHANGED <<opts, sentPos, sentEnd, closed, out>>
    /\ chunk' \in {"open", "aborted"} /\ format' \in BOOLEAN /\ players' \subseteq Player

Stays(x, y) ==
    /\ UNCHANGED <<feed, session, stops, sessionSeen, taken>>
    /\ OfBattle(x) = <<>> /\ ChosenIn(y) = <<>>

Caught == sessionSeen' = Len(raw') /\ taken' = Len(committed')

Opens(x, y) ==
    /\ ~session /\ session' = TRUE /\ x # <<>> /\ Caught
    /\ \E n \in 1 .. Len(Script) : raw' = SubSeq(Script, 1, n) /\ stops' = <<n>>
    /\ newRequests' = TRUE /\ committed' = <<>> /\ ended' = FALSE
    /\ OfBattle(x) = OfBattle(raw') /\ ChosenIn(y) = <<>>

Goes(x, y) ==
    /\ session /\ ~ended /\ session' = TRUE /\ x # <<>> /\ Caught
    /\ ended' \in BOOLEAN
    /\ \E n \in Len(raw) + 1 .. Len(Script) :
          /\ raw' = raw \o SubSeq(Script, Len(raw) + 1, n)
          /\ OfBattle(x) = OfBattle(SubSeq(Script, Len(raw) + 1, n))
          /\ stops' = IF ended' THEN stops ELSE Append(stops, n)
    /\ newRequests' = IF ended' THEN newRequests ELSE TRUE
    /\ ChosenIn(y) \in Seq(Text) /\ committed' = committed \o ChosenIn(y)

LEMMA Written ==
    ASSUME NEW D, NEW s \in Seq(D), NEW t \in Seq(D), NEW r, r = s \o t
    PROVE  SubSeq(r, Len(s) + 1, Len(r)) = t
<1>1. Len(s) \in Nat /\ Len(t) \in Nat /\ Len(r) = Len(s) + Len(t) /\ r \in Seq(D)
  BY ConcatProperties
<1>2. CASE t = <<>>
  <2>1. Len(r) < Len(s) + 1
    BY <1>1, <1>2
  <2> QED BY <1>1, <1>2, <2>1, SubSeqEmpty
<1>3. CASE t # <<>>
  <2>1. Len(s) + 1 \in Len(s) + 1 .. Len(s) + Len(t) /\ Len(r) \in Len(s) + 1 .. Len(s) + Len(t)
    BY <1>1, <1>3
  <2>2. SubSeq(r, Len(s) + 1, Len(r)) = SubSeq(t, (Len(s) + 1) - Len(s), Len(r) - Len(s))
    BY <2>1, SubSeqOfConcat2
  <2>3. (Len(s) + 1) - Len(s) = 1 /\ Len(r) - Len(s) = Len(t)
    BY <1>1
  <2> QED BY <2>2, <2>3, SubSeqFull
<1> QED BY <1>2, <1>3

LEMMA Nothing ==
    /\ <<>> \in Seq(LogLine) /\ OfBattle(<<>>) = <<>> /\ WithRating(<<>>) = <<>>
    /\ <<>> \in Seq(Input) /\ ChosenIn(<<>>) = <<>> /\ <<>> \in Seq(Text)
<1>1. WithRating(<<>>) = <<>>
  BY FlattenEmpty DEF WithRating
<1> QED BY <1>1, WithoutEmpty, ChosenIs, EmptySeq DEF OfBattle

LEMMA PlainOne ==
    ASSUME NEW cmd \in Command
    PROVE  <<Entry(cmd)>> \in Seq(Input) /\ ChosenIn(<<Entry(cmd)>>) = <<>>
<1>1. Entry(cmd) \in Plain /\ Entry(cmd) \in Input
  BY InputsAre DEF Plain
<1>2. <<Entry(cmd)>> \in Seq(Plain) /\ <<Entry(cmd)>> \in Seq(Input)
  BY <1>1
<1> QED BY <1>2, WithoutAll, ChosenIs

LEMMA StartGrows ==
    ASSUME TypeInv, Start
    PROVE  \E x, y : Grows(x, y) /\ Stays(x, y)
<1> PICK x : x = <<"t", "gametype">>
  OBVIOUS
<1> PICK y : y = <<Entry("start")>>
  OBVIOUS
<1>1. x \in Seq(OwnLine)
  BY OwnIs
<1>2. x \in Seq(LogLine) /\ OfBattle(x) = <<>>
  BY <1>1, BattleOwn
<1>3. y \in Seq(Input) /\ ChosenIn(y) = <<>>
  BY PlainOne DEF Command
<1>4. inputLog' = inputLog \o y
  <2>1. Entry("start") \in Input /\ inputLog' = Append(inputLog, Entry("start"))
    BY InputsAre DEF Start, Plain, Command
  <2> QED BY <2>1, AppendIsConcat DEF TypeInv
<1>5. log' = log \o x
  BY DEF Start
<1> QED BY <1>2, <1>3, <1>4, <1>5 DEF Start, Grows, Stays, TypeInv

LEMMA QuietGrows ==
    ASSUME TypeInv, Throw \/ Ignored
    PROVE  \E x, y : Grows(x, y) /\ Stays(x, y)
<1>1. log' = log \o <<>> /\ inputLog' = inputLog \o <<>>
  BY ConcatEmptySeq DEF Throw, Ignored, TypeInv
<1>2. Grows(<<>>, <<>>) /\ Stays(<<>>, <<>>)
  BY <1>1, Nothing DEF Throw, Ignored, Grows, Stays, TypeInv
<1> QED BY <1>2

LEMMA TalkGrows ==
    ASSUME TypeInv, Talk
    PROVE  \E x, y : Grows(x, y) /\ Stays(x, y)
<1>1. PICK x \in {<<>>, <<"chat">>}, y \in {<<>>, <<Entry("chat")>>} : log' = log \o x /\ inputLog' = inputLog \o y
  BY DEF Talk
<1>2. x \in Seq(OwnLine)
  <2>1. <<>> \in Seq(OwnLine) /\ <<"chat">> \in Seq(OwnLine)
    BY OwnIs
  <2> QED BY <1>1, <2>1
<1>3. x \in Seq(LogLine) /\ OfBattle(x) = <<>>
  BY <1>2, BattleOwn
<1>4. y \in Seq(Input) /\ ChosenIn(y) = <<>>
  BY <1>1, PlainOne, Nothing DEF Command
<1>5. Grows(x, y) /\ Stays(x, y)
  BY <1>1, <1>3, <1>4 DEF Talk, Grows, Stays, TypeInv
<1> QED BY <1>5

LEMMA JoinGrows ==
    ASSUME TypeInv, NEW p \in Player, Join(p)
    PROVE  \E x, y : Grows(x, y) /\ (Stays(x, y) \/ Opens(x, y))
<1> PICK y : y = <<Entry("player")>>
  OBVIOUS
<1> PICK l : l = <<"player">>
  OBVIOUS
<1>1. l \in Seq(OwnLine)
  BY OwnIs
<1>2. l \in Seq(LogLine) /\ OfBattle(l) = <<>> /\ Append(log, "player") = log \o l
  <2>1. "player" \in LogLine
    BY OwnIs
  <2> QED BY <1>1, <2>1, BattleOwn, AppendIsConcat DEF TypeInv
<1>3. y \in Seq(Input) /\ ChosenIn(y) = <<>>
  BY PlainOne DEF Command
<1>4. inputLog' = inputLog \o y
  <2>1. Entry("player") \in Input /\ inputLog' = Append(inputLog, Entry("player"))
    BY InputsAre DEF Join, Plain, Command
  <2> QED BY <2>1, AppendIsConcat DEF TypeInv
<1>5. UNCHANGED <<opts, format, sentPos, sentEnd, closed, out>> /\ players' \subseteq Player /\ chunk' \in {"open", "aborted"}
  BY DEF Join, TypeInv
<1>6. CASE log' = Append(log, "player") /\ UNCHANGED <<feed, session, sessionSeen, taken, stops>>
  <2>1. Grows(l, y) /\ Stays(l, y)
    BY <1>2, <1>3, <1>4, <1>5, <1>6 DEF Grows, Stays, TypeInv
  <2> QED BY <2>1
<1>7. CASE ~session /\ \E n \in 1 .. Len(Script) : Begin(n) /\ Pull(Append(log, "player"), Repeated(raw'))
  <2>1. PICK n \in 1 .. Len(Script) : Begin(n) /\ Pull(Append(log, "player"), Repeated(raw'))
    BY <1>7
  <2> PICK r : r = raw'
    OBVIOUS
  <2>2. r = SubSeq(Script, 1, n) /\ r \in Seq(LogLine) /\ Len(r) = n
    <3>1. raw' = SubSeq(Script, 1, n)
      BY <2>1 DEF Begin
    <3>2. n \in Int /\ \A i \in 1 .. n : Script[i] \in LogLine
      BY ScriptIs
    <3> QED BY <3>1, <3>2, SubSeqProperties
  <2> PICK k : k = Repeated(r)
    OBVIOUS
  <2>3. k \in 0 .. Len(r) /\ SubSeq(r, 1, k) \in Seq(OwnLine)
    BY <2>2, RepeatedIs
  <2> PICK rest : rest = SubSeq(r, k + 1, Len(r))
    OBVIOUS
  <2>4. rest \in Seq(LogLine)
    BY <2>2, <2>3, SubSeqProperties
  <2>5. OfBattle(r) = OfBattle(rest)
    <3>1. SubSeq(r, 1, k) \o SubSeq(r, k + 1, Len(r)) = SubSeq(r, 1, Len(r))
      <4>1. 1 \in 1 .. Len(r) + 1 /\ k \in 1 - 1 .. Len(r) /\ Len(r) \in k .. Len(r)
        BY <2>2, <2>3
      <4> QED BY <2>2, <4>1, ConcatAdjacentSubSeq
    <3>2. SubSeq(r, 1, Len(r)) = r
      BY <2>2, SubSeqFull
    <3>3. OfBattle(SubSeq(r, 1, k) \o rest) = OfBattle(rest)
      BY <2>3, <2>4, OwnThenBattle
    <3> QED BY <3>1, <3>2, <3>3
  <2> PICK w : w = WithRating(rest)
    OBVIOUS
  <2>6. w \in Seq(LogLine) /\ OfBattle(w) = OfBattle(rest)
    BY <2>4, RatingIs
  <2> PICK x : x = l \o w
    OBVIOUS
  <2>7. x \in Seq(LogLine) /\ x # <<>> /\ OfBattle(x) = OfBattle(w)
    <3>1. Len(l) = 1
      OBVIOUS
    <3>2. x \in Seq(LogLine) /\ Len(x) = 1 + Len(w) /\ Len(w) \in Nat
      BY <1>2, <2>6, <3>1, ConcatProperties
    <3>3. OfBattle(l \o w) = OfBattle(w)
      BY <1>1, <2>6, OwnThenBattle
    <3>4. Len(x) # 0
      BY <3>2
    <3> QED BY <3>2, <3>3, <3>4, EmptySeq
  <2>8. log' = log \o x
    <3>1. log' = (log \o l) \o w
      BY <1>2, <2>1 DEF Pull
    <3>2. log \in Seq(LogLine)
      BY DEF TypeInv
    <3>3. (log \o l) \o w = log \o (l \o w)
      BY <1>2, <2>6, <3>2, ConcatAssociative
    <3> QED BY <3>1, <3>3
  <2>9. Grows(x, y)
    BY <1>3, <1>4, <1>5, <2>7, <2>8 DEF Grows, TypeInv
  <2>10. Opens(x, y)
    <3>1. Caught
      BY <2>1 DEF Pull, Caught
    <3> QED BY <1>3, <1>7, <2>1, <2>5, <2>6, <2>7, <3>1 DEF Opens, Begin
  <2> QED BY <2>9, <2>10
<1> QED BY <1>6, <1>7 DEF Join

LEMMA ScriptPart ==
    ASSUME BattleInv, NEW n \in Len(raw) + 1 .. Len(Script), raw \in Seq(LogLine), NEW z, z = SubSeq(Script, Len(raw) + 1, n)
    PROVE  /\ z \in Seq(LogLine) /\ z # <<>> /\ Len(z) = n - Len(raw)
           /\ raw \o z = SubSeq(Script, 1, n) /\ raw \o z \in Seq(LogLine) /\ Len(raw \o z) = n
<1> PICK k : k = Len(raw)
  OBVIOUS
<1>1. k \in Nat /\ n \in Nat /\ k + 1 <= n /\ n <= Len(Script) /\ Len(Script) \in Nat /\ Script \in Seq(LogLine)
  BY ScriptIs
<1>2. \A i \in k + 1 .. n : Script[i] \in LogLine
  BY <1>1
<1>3. z \in Seq(LogLine) /\ Len(z) = n - k
  <2>1. Len(z) = n - (k + 1) + 1
    BY <1>1, <1>2, SubSeqProperties
  <2> QED BY <1>1, <1>2, <2>1, SubSeqProperties
<1>4. Len(z) # 0
  BY <1>1, <1>3
<1>5. SubSeq(Script, 1, k) \o SubSeq(Script, k + 1, n) = SubSeq(Script, 1, n)
  <2>1. 1 \in 1 .. Len(Script) + 1 /\ k \in 1 - 1 .. Len(Script) /\ n \in k .. Len(Script)
    BY <1>1
  <2> QED BY <1>1, <2>1, ConcatAdjacentSubSeq
<1>6. raw \o z \in Seq(LogLine) /\ Len(raw \o z) = Len(raw) + Len(z)
  BY <1>3, ConcatProperties
<1>7. raw = SubSeq(Script, 1, k)
  BY DEF BattleInv
<1>8. raw \o z = SubSeq(Script, 1, n)
  <2>1. z = SubSeq(Script, k + 1, n)
    OBVIOUS
  <2> QED BY <1>5, <1>7, <2>1
<1>9. Len(raw \o z) = n
  <2>1. Len(raw) + Len(z) = n
    BY <1>1, <1>3
  <2> QED BY <1>6, <2>1
<1>10. z # <<>>
  BY <1>4
<1>11. Len(z) = n - Len(raw)
  BY <1>3
<1> QED BY <1>3, <1>6, <1>8, <1>9, <1>10, <1>11

\* What a pull adds to the log when the battle has written z.
LEMMA PullAdds ==
    ASSUME TypeInv, LogCarriesBattle, NEW z \in Seq(LogLine), raw' = raw \o z, Pull(log, sessionSeen)
    PROVE  /\ log' = log \o WithRating(z) /\ WithRating(z) \in Seq(LogLine)
           /\ OfBattle(WithRating(z)) = OfBattle(z) /\ Caught
           /\ z # <<>> => WithRating(z) # <<>>
<1>1. SubSeq(raw', Len(raw) + 1, Len(raw')) = z
  BY Written DEF TypeInv
<1> QED BY <1>1, RatingIs DEF Pull, LogCarriesBattle, Caught

LEMMA NewTextsAre ==
    ASSUME TypeInv, LogCarriesBattle, NEW t \in Seq(Text), committed' = committed \o t
    PROVE  NewTexts = t
<1>1. SubSeq(committed', Len(committed) + 1, Len(committed')) = t
  BY Written DEF TypeInv
<1> QED BY <1>1 DEF NewTexts, LogCarriesBattle

LEMMA ChooseGrows ==
    ASSUME TypeInv, LogCarriesBattle, BattleInv, Choose
    PROVE  \E x, y : Grows(x, y) /\ Goes(x, y)
<1>1. PICK n \in Len(raw) + 1 .. Len(Script), over \in BOOLEAN, k \in 1 .. 2 :
           /\ MoveOn(SubSeq(Script, Len(raw) + 1, n), [i \in 1 .. k |-> ChoiceAt(Len(stops))], over)
           /\ stops' = IF over THEN stops ELSE Append(stops, n)
  BY DEF Choose
<1> PICK z : z = SubSeq(Script, Len(raw) + 1, n)
  OBVIOUS
<1> PICK t : t = [i \in 1 .. k |-> ChoiceAt(Len(stops))]
  OBVIOUS
<1>2. MoveOn(z, t, over)
  BY <1>1
<1>3. t \in Seq(Text)
  <2>1. ChoiceAt(Len(stops)) \in Text
    BY DEF ChoiceAt, Text, TypeInv
  <2>2. k \in Nat /\ t \in [1 .. k -> Text]
    BY <2>1
  <2> QED BY <2>2, SeqDef
<1>4. z \in Seq(LogLine) /\ z # <<>>
  BY ScriptPart DEF TypeInv
<1>5. raw' = raw \o z /\ committed' = committed \o t
  BY <1>2 DEF MoveOn
<1> PICK x : x = WithRating(z)
  OBVIOUS
<1>6. log' = log \o x /\ x \in Seq(LogLine) /\ x # <<>> /\ OfBattle(x) = OfBattle(z) /\ Caught
  <2>1. Pull(log, sessionSeen)
    BY DEF Choose
  <2> QED BY <1>4, <1>5, <2>1, PullAdds
<1>7. inputLog' = inputLog \o t /\ ChosenIn(t) = t /\ t \in Seq(Input)
  BY <1>3, <1>5, NewTextsAre, ChosenTexts DEF Choose
<1>8. Grows(x, t)
  BY <1>6, <1>7 DEF Choose, Grows, TypeInv
<1>9. ended' = over /\ newRequests' = (IF over THEN newRequests ELSE TRUE) /\ ~ended
  BY <1>2 DEF MoveOn
<1>10. session /\ session' = TRUE
  BY DEF Choose, TypeInv
<1>11. Goes(x, t)
  BY <1>1, <1>3, <1>5, <1>6, <1>7, <1>9, <1>10 DEF Goes
<1> QED BY <1>8, <1>11

LEMMA ForceGrows ==
    ASSUME TypeInv, LogCarriesBattle, BattleInv, ForceEnd
    PROVE  \E x, y : Grows(x, y) /\ (Stays(x, y) \/ Goes(x, y))
<1> PICK y : y = <<Entry("force")>>
  OBVIOUS
<1>1. y \in Seq(Input) /\ ChosenIn(y) = <<>>
  BY PlainOne DEF Command
<1>2. committed' = committed /\ committed' = committed \o <<>>
  <2>1. committed' = committed
    BY DEF ForceEnd, Close, feed
  <2> QED BY <2>1, ConcatEmptySeq DEF TypeInv
<1>3. inputLog' = inputLog \o y
  <2>1. NewTexts = <<>>
    BY <1>2, NewTextsAre, Nothing
  <2>2. inputLog \o <<>> = inputLog
    BY ConcatEmptySeq DEF TypeInv
  <2>3. Entry("force") \in Input
    BY InputsAre DEF Plain, Command
  <2>4. inputLog' = Append(inputLog, Entry("force"))
    BY <2>1, <2>2 DEF ForceEnd
  <2> QED BY <2>3, <2>4, AppendIsConcat DEF TypeInv
<1>4. Pull(log, sessionSeen) /\ session /\ session' = TRUE
  BY DEF ForceEnd, TypeInv
<1>5. CASE UNCHANGED feed
  <2>1. raw' = raw \o <<>> /\ raw' = raw
    BY <1>5, ConcatEmptySeq DEF feed, TypeInv
  <2>2. log' = log \o <<>> /\ Caught
    BY <1>4, <2>1, PullAdds, Nothing
  <2>3. Grows(<<>>, y)
    BY <1>1, <1>3, <2>2, Nothing DEF ForceEnd, Grows, TypeInv
  <2>4. Stays(<<>>, y)
    BY <1>1, <1>5, <2>2, Nothing DEF ForceEnd, Stays, Caught, LogCarriesBattle, feed
  <2> QED BY <2>3, <2>4
<1>6. CASE Len(raw) < Len(Script) /\ Close(SubSeq(Script, Len(raw) + 1, Len(raw) + 1))
  <2> PICK n : n = Len(raw) + 1
    OBVIOUS
  <2>1. n \in Len(raw) + 1 .. Len(Script)
    BY <1>6, ScriptIs DEF TypeInv
  <2> PICK z : z = SubSeq(Script, Len(raw) + 1, n)
    OBVIOUS
  <2>2. Close(z)
    BY <1>6
  <2>3. z \in Seq(LogLine) /\ z # <<>>
    BY <2>1, ScriptPart DEF TypeInv
  <2>4. raw' = raw \o z /\ ~ended /\ ended' = TRUE /\ newRequests' = newRequests
    BY <2>2 DEF Close
  <2> PICK x : x = WithRating(z)
    OBVIOUS
  <2>5. log' = log \o x /\ x \in Seq(LogLine) /\ x # <<>> /\ OfBattle(x) = OfBattle(z) /\ Caught
    BY <1>4, <2>3, <2>4, PullAdds
  <2>6. Grows(x, y)
    BY <1>1, <1>3, <2>5 DEF ForceEnd, Grows, TypeInv
  <2>7. stops' = stops
    BY DEF ForceEnd
  <2>8. Goes(x, y)
    BY <1>1, <1>2, <1>4, <2>1, <2>4, <2>5, <2>7, Nothing DEF Goes
  <2> QED BY <2>6, <2>8
<1> QED BY <1>5, <1>6 DEF ForceEnd

\* What every line of a chunk does.
LEMMA LinesAdd ==
    ASSUME TypeInv, LogCarriesBattle, BattleInv, Line
    PROVE  \/ \E x, y : Grows(x, y) /\ (Stays(x, y) \/ Opens(x, y) \/ Goes(x, y))
           \/ \E p \in Player : Heard(p)
           \/ RequestData
<1>1. CASE Start
  BY <1>1, StartGrows
<1>2. CASE \E p \in Player : Join(p)
  BY <1>2, JoinGrows
<1>3. CASE Choose
  BY <1>3, ChooseGrows
<1>4. CASE ForceEnd
  BY <1>4, ForceGrows
<1>5. CASE Talk
  BY <1>5, TalkGrows
<1>6. CASE Throw \/ Ignored
  BY <1>6, QuietGrows
<1> QED BY <1>1, <1>2, <1>3, <1>4, <1>5, <1>6 DEF Line

LEMMA LogGrows ==
    ASSUME TypeInv, NEW x, NEW y, Grows(x, y)
    PROVE  /\ log' \in Seq(LogLine) /\ Len(log) \in Nat /\ Len(x) \in Nat /\ Len(log') = Len(log) + Len(x)
           /\ inputLog' \in Seq(Input)
           /\ Alike(log, log', Len(log))
           /\ x # <<>> => Len(log) < Len(log')
<1>1. log \in Seq(LogLine) /\ x \in Seq(LogLine) /\ log' = log \o x
  BY DEF TypeInv, Grows
<1>2. Len(log) \in Nat /\ Len(x) \in Nat /\ log' \in Seq(LogLine) /\ Len(log') = Len(log) + Len(x)
  BY <1>1, ConcatProperties
<1>3. Alike(log, log', Len(log))
  BY <1>1, ConcatProperties DEF Alike
<1>4. x # <<>> => Len(x) # 0
  BY <1>1, EmptySeq
<1>5. x # <<>> => Len(log) < Len(log')
  BY <1>2, <1>4
<1>6. inputLog' \in Seq(Input)
  BY ConcatProperties DEF TypeInv, Grows
<1> QED BY <1>2, <1>3, <1>5, <1>6

\* The stops of the battle after it went on.
LEMMA GoesOn ==
    ASSUME TypeInv, BattleInv, NEW x, NEW y, Goes(x, y)
    PROVE  \E n \in Len(raw) + 1 .. Len(Script) :
              /\ raw' \in Seq(LogLine) /\ raw' = SubSeq(Script, 1, n) /\ Len(raw') = n /\ Len(raw) \in Nat
              /\ OfBattle(raw') = OfBattle(raw) \o OfBattle(x)
              /\ stops' = IF ended' THEN stops ELSE Append(stops, n)
              /\ stops' \in Seq(Nat) /\ Len(stops) \in Nat
              /\ Len(stops') = IF ended' THEN Len(stops) ELSE Len(stops) + 1
              /\ \A i \in 1 .. Len(stops) : stops'[i] = stops[i]
              /\ ~ended' => stops'[Len(stops) + 1] = n
<1>1. PICK n \in Len(raw) + 1 .. Len(Script) :
          /\ raw' = raw \o SubSeq(Script, Len(raw) + 1, n)
          /\ OfBattle(x) = OfBattle(SubSeq(Script, Len(raw) + 1, n))
          /\ stops' = IF ended' THEN stops ELSE Append(stops, n)
  BY DEF Goes
<1> PICK z : z = SubSeq(Script, Len(raw) + 1, n)
  OBVIOUS
<1>2. raw' = raw \o z /\ OfBattle(x) = OfBattle(z)
  BY <1>1
<1>3. raw \in Seq(LogLine) /\ stops \in Seq(Nat)
  BY DEF TypeInv
<1>4. z \in Seq(LogLine) /\ raw \o z = SubSeq(Script, 1, n) /\ raw \o z \in Seq(LogLine) /\ Len(raw \o z) = n
  BY <1>3, ScriptPart
<1>5. OfBattle(raw') = OfBattle(raw) \o OfBattle(x)
  BY <1>2, <1>3, <1>4, BattleConcat
<1>6. raw' \in Seq(LogLine) /\ raw' = SubSeq(Script, 1, n) /\ Len(raw') = n
  BY <1>2, <1>4
<1>7. n \in Nat /\ Len(stops) \in Nat /\ Len(raw) \in Nat
  BY <1>3, ScriptIs
<1>8. CASE ended'
  <2>1. stops' = stops
    BY <1>1, <1>8
  <2> QED BY <1>1, <1>3, <1>5, <1>6, <1>7, <1>8, <2>1
<1>9. CASE ~ended'
  <2>1. stops' = Append(stops, n)
    BY <1>1, <1>9
  <2>2. /\ stops' \in Seq(Nat) /\ Len(stops') = Len(stops) + 1
        /\ \A i \in 1 .. Len(stops) : stops'[i] = stops[i]
        /\ stops'[Len(stops) + 1] = n
    BY <1>3, <1>7, <2>1, AppendProperties
  <2> QED BY <1>1, <1>5, <1>6, <1>7, <1>9, <2>2
<1> QED BY <1>8, <1>9

LEMMA OpensAt ==
    ASSUME NEW x, NEW y, Opens(x, y)
    PROVE  \E n \in 1 .. Len(Script) :
              /\ raw' \in Seq(LogLine) /\ raw' = SubSeq(Script, 1, n) /\ Len(raw') = n
              /\ stops' = <<n>> /\ stops' \in Seq(Nat) /\ Len(stops') = 1 /\ stops'[1] = n
<1>1. PICK n \in 1 .. Len(Script) : raw' = SubSeq(Script, 1, n) /\ stops' = <<n>>
  BY DEF Opens
<1>2. \A i \in 1 .. n : Script[i] \in LogLine
  BY ScriptIs
<1>3. raw' \in Seq(LogLine) /\ Len(raw') = n
  BY <1>1, <1>2, ScriptIs, SubSeqProperties
<1>4. stops' \in Seq(Nat) /\ Len(stops') = 1 /\ stops'[1] = n
  BY <1>1
<1> QED BY <1>1, <1>3, <1>4

LEMMA LinesKeepType ==
    ASSUME TypeInv, BattleInv, NEW x, NEW y, Grows(x, y), Stays(x, y) \/ Opens(x, y) \/ Goes(x, y)
    PROVE  TypeInv'
<1>1. log' \in Seq(LogLine) /\ inputLog' \in Seq(Input) /\ sentPos' \in 0 .. Len(log')
  <2>1. log' \in Seq(LogLine) /\ inputLog' \in Seq(Input) /\ Len(log) \in Nat /\ Len(x) \in Nat /\ Len(log') = Len(log) + Len(x)
    BY LogGrows
  <2>2. sentPos' = sentPos /\ sentPos \in 0 .. Len(log)
    BY DEF TypeInv, Grows
  <2> QED BY <2>1, <2>2
<1>2. /\ opts' \in Options /\ format' \in BOOLEAN /\ players' \subseteq Player
      /\ sentEnd' \in BOOLEAN /\ closed' \in BOOLEAN /\ out' \in Seq(Message)
      /\ chunk' \in {"open", "aborted", "sent"}
  BY DEF TypeInv, Grows
<1>3. /\ raw' \in Seq(LogLine) /\ newRequests' \in BOOLEAN /\ committed' \in Seq(Text) /\ ended' \in BOOLEAN
      /\ session' \in BOOLEAN /\ stops' \in Seq(Nat)
  <2>1. CASE Stays(x, y)
    BY <2>1 DEF TypeInv, Stays, feed
  <2>2. CASE Opens(x, y)
    <3>1. raw' \in Seq(LogLine) /\ stops' \in Seq(Nat)
      BY <2>2, OpensAt
    <3>2. committed' \in Seq(Text)
      BY <2>2, Nothing DEF Opens
    <3>3. newRequests' \in BOOLEAN /\ ended' \in BOOLEAN /\ session' \in BOOLEAN
      BY <2>2 DEF Opens
    <3> QED BY <3>1, <3>2, <3>3
  <2>3. CASE Goes(x, y)
    <3>1. raw' \in Seq(LogLine) /\ stops' \in Seq(Nat)
      BY <2>3, GoesOn
    <3>2. committed' \in Seq(Text)
      <4>1. committed \in Seq(Text) /\ ChosenIn(y) \in Seq(Text) /\ committed' = committed \o ChosenIn(y)
        BY <2>3 DEF TypeInv, Goes
      <4> QED BY <4>1, ConcatProperties
    <3>3. newRequests' \in BOOLEAN /\ ended' \in BOOLEAN /\ session' \in BOOLEAN
      BY <2>3 DEF TypeInv, Goes
    <3> QED BY <3>1, <3>2, <3>3
  <2> QED BY <2>1, <2>2, <2>3
<1> QED BY <1>1, <1>2, <1>3 DEF TypeInv

LEMMA LinesCarry ==
    ASSUME TypeInv, LogCarriesBattle, BattleInv, NEW x, NEW y, Grows(x, y),
           Stays(x, y) \/ Opens(x, y) \/ Goes(x, y)
    PROVE  LogCarriesBattle'
<1>1. /\ sessionSeen = Len(raw) /\ taken = Len(committed)
      /\ OfBattle(log) = OfBattle(raw) /\ ChosenIn(inputLog) = committed
  BY DEF LogCarriesBattle
<1>2. OfBattle(log') = OfBattle(log) \o OfBattle(x)
  BY BattleConcat DEF TypeInv, Grows
<1>3. ChosenIn(inputLog') = ChosenIn(inputLog) \o ChosenIn(y)
  BY ChosenConcat DEF TypeInv, Grows
<1>4. OfBattle(raw) \in Seq(LogLine) /\ committed \in Seq(Text) /\ OfBattle(x) \in Seq(LogLine)
  BY BattleType DEF TypeInv, Grows
<1>5. /\ sessionSeen' = Len(raw') /\ taken' = Len(committed')
      /\ OfBattle(log') = OfBattle(raw') /\ ChosenIn(inputLog') = committed'
  <2>1. CASE Stays(x, y)
    <3>1. raw' = raw /\ committed' = committed /\ sessionSeen' = sessionSeen /\ taken' = taken
          /\ OfBattle(x) = <<>> /\ ChosenIn(y) = <<>>
      BY <2>1 DEF Stays, feed
    <3>2. OfBattle(raw) \o <<>> = OfBattle(raw) /\ committed \o <<>> = committed
      BY <1>4, ConcatEmptySeq
    <3> QED BY <1>1, <1>2, <1>3, <3>1, <3>2
  <2>2. CASE Opens(x, y)
    <3>1. ~session /\ Caught /\ committed' = <<>> /\ OfBattle(x) = OfBattle(raw') /\ ChosenIn(y) = <<>>
      BY <2>2 DEF Opens
    <3>2. raw = <<>> /\ committed = <<>>
      BY <3>1 DEF BattleInv
    <3>3. OfBattle(raw) = <<>> /\ <<>> \o OfBattle(x) = OfBattle(x) /\ committed \o <<>> = committed
      BY <1>4, <3>2, Nothing, ConcatEmptySeq
    <3> QED BY <1>1, <1>2, <1>3, <3>1, <3>2, <3>3 DEF Caught
  <2>3. CASE Goes(x, y)
    <3>1. OfBattle(raw') = OfBattle(raw) \o OfBattle(x)
      BY <2>3, GoesOn
    <3>2. committed' = committed \o ChosenIn(y) /\ Caught
      BY <2>3 DEF Goes
    <3> QED BY <1>1, <1>2, <1>3, <3>1, <3>2 DEF Caught
  <2> QED BY <2>1, <2>2, <2>3
<1> QED BY <1>5 DEF LogCarriesBattle

LEMMA LinesBattle ==
    ASSUME TypeInv, BattleInv, NEW x, NEW y, Grows(x, y), Stays(x, y) \/ Opens(x, y) \/ Goes(x, y)
    PROVE  BattleInv'
<1>1. CASE Stays(x, y)
  BY <1>1 DEF Stays, BattleInv, feed
<1>2. CASE Opens(x, y)
  <2>1. PICK n \in 1 .. Len(Script) :
              /\ raw' = SubSeq(Script, 1, n) /\ Len(raw') = n
              /\ stops' = <<n>> /\ Len(stops') = 1 /\ stops'[1] = n
    BY <1>2, OpensAt
  <2>2. session' = TRUE
    BY <1>2 DEF Opens
  <2>3. n \in Nat /\ 1 <= n /\ n <= Len(Script)
    BY ScriptIs
  <2>4. \A i \in 1 .. Len(stops') : stops'[i] \in 1 .. Len(raw')
    BY <2>1, <2>3
  <2>5. stops' # <<>> /\ stops'[Len(stops')] = Len(raw')
    BY <2>1
  <2>6. Len(raw') <= Len(Script) /\ raw' = SubSeq(Script, 1, Len(raw'))
    BY <2>1, <2>3
  <2> QED BY <2>2, <2>4, <2>5, <2>6 DEF BattleInv
<1>3. CASE Goes(x, y)
  <2>1. PICK n \in Len(raw) + 1 .. Len(Script) :
              /\ raw' = SubSeq(Script, 1, n) /\ Len(raw') = n /\ Len(raw) \in Nat
              /\ stops' \in Seq(Nat) /\ Len(stops) \in Nat
              /\ Len(stops') = IF ended' THEN Len(stops) ELSE Len(stops) + 1
              /\ \A i \in 1 .. Len(stops) : stops'[i] = stops[i]
              /\ ~ended' => stops'[Len(stops) + 1] = n
    BY <1>3, GoesOn
  <2>2. session' = TRUE
    BY <1>3 DEF Goes
  <2>3. n \in Nat /\ Len(raw) < n /\ n <= Len(Script)
    BY <2>1, ScriptIs
  <2>4. ASSUME NEW i \in 1 .. Len(stops')
        PROVE  stops'[i] \in 1 .. Len(raw')
    <3>1. CASE i \in 1 .. Len(stops)
      <4>1. stops[i] \in 1 .. Len(raw) /\ stops'[i] = stops[i]
        BY <2>1, <3>1 DEF BattleInv
      <4>2. stops[i] \in 1 .. n
        BY <2>1, <2>3, <4>1
      <4> QED BY <2>1, <4>1, <4>2
    <3>2. CASE ~ended' /\ i = Len(stops) + 1
      BY <2>1, <2>3, <3>2
    <3> QED BY <2>1, <3>1, <3>2
  <2>5. ~ended' => stops' # <<>> /\ stops'[Len(stops')] = Len(raw')
    <3>1. SUFFICES ASSUME ~ended' PROVE stops' # <<>> /\ stops'[Len(stops')] = Len(raw')
      OBVIOUS
    <3>2. Len(stops') = Len(stops) + 1 /\ Len(stops') # 0
      BY <2>1, <3>1
    <3> QED BY <2>1, <3>1, <3>2, EmptySeq
  <2>6. Len(raw') <= Len(Script) /\ raw' = SubSeq(Script, 1, Len(raw'))
    BY <2>1, <2>3
  <2> QED BY <2>2, <2>4, <2>5, <2>6 DEF BattleInv
<1> QED BY <1>1, <1>2, <1>3

-----------------------------------------------------------------------------
(* The three properties, of any output.                                     *)
ToldOnce(o, l, n, c) ==
    IF c THEN IsPrefix(Told(o, Len(o)), l) ELSE Told(o, Len(o)) = SubSeq(l, 1, n)

EndsOnce(o, t, b, k) ==
    \A i \in 1 .. Len(o) : o[i].type = "end" =>
        /\ ChosenIn(o[i].inputs) = t
        /\ OfBattle(Told(o, i)) = b
        /\ \A j \in i + 1 .. Len(o) : IF k THEN o[j].type # "end" ELSE o[j].type = "requesteddata"

AsksRight(o, s) ==
    \A i \in 1 .. Len(o) : o[i].type = "request" /\ o[i].stop # 0 =>
        OfBattle(Told(o, i)) = OfBattle(SubSeq(Script, 1, s[o[i].stop]))

LEMMA PropertiesAre ==
    /\ SentOnce <=> ToldOnce(out, log, sentPos, closed)
    /\ OneEnd <=> EndsOnce(out, committed, OfBattle(raw), opts.keepAlive)
    /\ RequestsFollowLog <=> AsksRight(out, stops)
<1>1. SentOnce <=> ToldOnce(out, log, sentPos, closed)
  BY DeliveredIs DEF SentOnce, ToldOnce
<1>2. OneEnd <=> EndsOnce(out, committed, OfBattle(raw), opts.keepAlive)
  BY DeliveredIs DEF OneEnd, EndsOnce
<1>3. RequestsFollowLog <=> AsksRight(out, stops)
  BY DeliveredIs DEF RequestsFollowLog, AsksRight
<1> QED BY <1>1, <1>2, <1>3

LEMMA PropertiesNext ==
    /\ SentOnce' <=> ToldOnce(out', log', sentPos', closed')
    /\ OneEnd' <=> EndsOnce(out', committed', OfBattle(raw'), opts'.keepAlive)
    /\ RequestsFollowLog' <=> AsksRight(out', stops')
<1>1. SentOnce' <=> ToldOnce(out', log', sentPos', closed')
  BY DEF SentOnce, ToldOnce, Delivered, Told, LinesOf
<1>2. OneEnd' <=> EndsOnce(out', committed', OfBattle(raw'), opts'.keepAlive)
  BY DEF OneEnd, EndsOnce, Delivered, Told, LinesOf
<1>3. RequestsFollowLog' <=> AsksRight(out', stops')
  BY DEF RequestsFollowLog, AsksRight, Delivered, Told, LinesOf
<1> QED BY <1>1, <1>2, <1>3

\* A longer log has the same beginnings.
LEMMA SameStart ==
    ASSUME NEW s \in Seq(LogLine), NEW t \in Seq(LogLine), Len(s) <= Len(t), Alike(s, t, Len(s)), NEW n \in 0 .. Len(s)
    PROVE  SubSeq(t, 1, n) = SubSeq(s, 1, n)
<1>1. n \in Nat /\ \A i \in 1 .. n : s[i] \in LogLine /\ t[i] = s[i]
  BY DEF Alike
<1> PICK u : u = SubSeq(s, 1, n)
  OBVIOUS
<1> PICK v : v = SubSeq(t, 1, n)
  OBVIOUS
<1>2. u \in Seq(LogLine) /\ Len(u) = n /\ \A i \in 1 .. n : u[i] = s[i]
  BY <1>1, SubSeqProperties
<1>3. v \in Seq(LogLine) /\ Len(v) = n /\ \A i \in 1 .. n : v[i] = t[i]
  BY <1>1, SubSeqProperties
<1> QED BY <1>1, <1>2, <1>3, SeqEqual

LEMMA ToldStays ==
    ASSUME NEW o \in Seq(Message), NEW s \in Seq(LogLine), NEW t \in Seq(LogLine),
           Len(s) <= Len(t), Alike(s, t, Len(s)), NEW n \in 0 .. Len(s), NEW c, ToldOnce(o, s, n, c)
    PROVE  ToldOnce(o, t, n, c)
<1> PICK d : d = Told(o, Len(o))
  OBVIOUS
<1>1. d \in Seq(LogLine) /\ Len(d) \in Nat
  BY LinesType
<1>2. CASE c
  <2>1. Len(d) <= Len(s) /\ SubSeq(d, 1, Len(d)) = SubSeq(s, 1, Len(d))
    BY <1>2 DEF ToldOnce, IsPrefix
  <2>2. SubSeq(t, 1, Len(d)) = SubSeq(s, 1, Len(d))
    BY <1>1, <2>1, SameStart
  <2>3. Len(d) <= Len(t)
    BY <1>1, <2>1
  <2> QED BY <1>2, <2>1, <2>2, <2>3 DEF ToldOnce, IsPrefix
<1>3. CASE ~c
  <2>1. SubSeq(t, 1, n) = SubSeq(s, 1, n)
    BY SameStart
  <2> QED BY <1>3, <2>1 DEF ToldOnce
<1> QED BY <1>2, <1>3

LEMMA LinesSent ==
    ASSUME TypeInv, SentInv, NEW x, NEW y, Grows(x, y), Stays(x, y) \/ Opens(x, y) \/ Goes(x, y)
    PROVE  SentInv'
<1>1. ToldOnce(out, log, sentPos, closed)
  BY PropertiesAre DEF SentInv
<1>2. out' = out /\ sentPos' = sentPos /\ closed' = closed /\ sentEnd' = sentEnd /\ opts' = opts
  BY DEF Grows
<1>3. ToldOnce(out, log', sentPos, closed)
  <2>1. /\ log' \in Seq(LogLine) /\ Len(log) \in Nat /\ Len(x) \in Nat /\ Len(log') = Len(log) + Len(x)
        /\ Alike(log, log', Len(log))
    BY LogGrows
  <2>2. Len(log) <= Len(log')
    BY <2>1
  <2> QED BY <1>1, <2>1, <2>2, ToldStays DEF TypeInv
<1>4. SentOnce'
  BY <1>2, <1>3, PropertiesNext
<1>5. sentEnd => session /\ ended /\ session' /\ ended'
  BY DEF SentInv, Stays, Opens, Goes, feed
<1> QED BY <1>2, <1>4, <1>5 DEF SentInv

LEMMA LinesEnd ==
    ASSUME TypeInv, SentInv, EndInv, NEW x, NEW y, Grows(x, y), Stays(x, y) \/ Opens(x, y) \/ Goes(x, y)
    PROVE  EndInv'
<1>1. out' = out /\ sentEnd' = sentEnd /\ opts' = opts
  BY DEF Grows
<1>2. OneEnd'
  <2>1. EndsOnce(out, committed, OfBattle(raw), opts.keepAlive)
    BY PropertiesAre DEF EndInv
  <2>2. CASE sentEnd
    <3>1. raw' = raw /\ committed' = committed
      BY <2>2 DEF SentInv, Stays, Opens, Goes, feed
    <3> QED BY <1>1, <2>1, <3>1, PropertiesNext
  <2>3. CASE ~sentEnd
    <3>1. \A i \in 1 .. Len(out) : out[i].type # "end"
      BY <2>3 DEF EndInv
    <3>2. EndsOnce(out, committed', OfBattle(raw'), opts.keepAlive)
      BY <3>1 DEF EndsOnce
    <3> QED BY <1>1, <3>2, PropertiesNext
  <2> QED BY <2>2, <2>3
<1> QED BY <1>1, <1>2 DEF EndInv

LEMMA LinesAsk ==
    ASSUME TypeInv, BattleInv, AskInv, NEW x, NEW y, Grows(x, y), Stays(x, y) \/ Opens(x, y) \/ Goes(x, y)
    PROVE  AskInv'
<1>1. out' = out
  BY DEF Grows
<1>2. Len(stops) \in Nat /\ Len(stops') \in Nat /\ Len(stops) <= Len(stops') /\ \A i \in 1 .. Len(stops) : stops'[i] = stops[i]
  <2>1. CASE Stays(x, y)
    BY <2>1 DEF Stays, TypeInv
  <2>2. CASE Opens(x, y)
    <3>1. stops = <<>>
      BY <2>2 DEF Opens, BattleInv
    <3>2. Len(stops') = 1
      BY <2>2, OpensAt
    <3> QED BY <3>1, <3>2
  <2>3. CASE Goes(x, y)
    <3>1. /\ Len(stops) \in Nat /\ Len(stops') = IF ended' THEN Len(stops) ELSE Len(stops) + 1
          /\ \A i \in 1 .. Len(stops) : stops'[i] = stops[i]
      BY <2>3, GoesOn
    <3> QED BY <3>1
  <2> QED BY <2>1, <2>2, <2>3
<1>3. AsksRight(out, stops)
  BY PropertiesAre DEF AskInv
<1>4. \A i \in 1 .. Len(out) : out[i].type = "request" => out[i].stop \in 0 .. Len(stops)
  BY DEF AskInv
<1>5. \A i \in 1 .. Len(out) : out[i].type = "request" => out[i].stop \in 0 .. Len(stops')
  BY <1>2, <1>4
<1>6. AsksRight(out, stops')
  <2> SUFFICES ASSUME NEW i \in 1 .. Len(out), out[i].type = "request", out[i].stop # 0
               PROVE  OfBattle(Told(out, i)) = OfBattle(SubSeq(Script, 1, stops'[out[i].stop]))
    BY DEF AsksRight
  <2>1. out[i].stop \in 1 .. Len(stops)
    BY <1>2, <1>4
  <2>2. stops'[out[i].stop] = stops[out[i].stop]
    BY <1>2, <2>1
  <2> QED BY <1>3, <2>2 DEF AsksRight
<1>7. RequestsFollowLog'
  BY <1>1, <1>6, PropertiesNext
<1> QED BY <1>1, <1>5, <1>7 DEF AskInv

LEMMA LinesWait ==
    ASSUME TypeInv, WaitInv, NEW x, NEW y, Grows(x, y), Stays(x, y) \/ Opens(x, y) \/ Goes(x, y)
    PROVE  WaitInv'
<1>1. out' = out /\ sentPos' = sentPos /\ opts' = opts /\ sentEnd' = sentEnd /\ chunk' # "sent"
  BY DEF Grows
<1>2. /\ Len(log) \in Nat /\ Len(x) \in Nat /\ Len(log') = Len(log) + Len(x)
      /\ x # <<>> => Len(log) < Len(log')
  BY LogGrows
<1>3. sentPos \in Nat /\ sentPos <= Len(log)
  BY DEF TypeInv
<1>4. CASE Stays(x, y)
  <2>1. newRequests' = newRequests /\ session' = session /\ ended' = ended /\ stops' = stops
    BY <1>4 DEF Stays, feed
  <2>2. sentPos < Len(log) => sentPos' < Len(log')
    BY <1>1, <1>2, <1>3
  <2> QED BY <1>1, <2>1, <2>2 DEF WaitInv, Ending
<1>5. CASE Opens(x, y) \/ Goes(x, y)
  <2>1. sentPos' < Len(log')
    <3>1. x # <<>>
      BY <1>5 DEF Opens, Goes
    <3> QED BY <1>1, <1>2, <1>3, <3>1
  <2>2. newRequests' \/ ended'
    BY <1>5 DEF Opens, Goes
  <2> QED BY <1>1, <2>1, <2>2 DEF WaitInv, Ending
<1> QED BY <1>4, <1>5

-----------------------------------------------------------------------------
(* Messages that tell no line: errors, revealed requests, asked-for data.   *)
Aside(m) == m.type \in {"error", "revealed", "requesteddata"}

Says(q) ==
    /\ q \in Seq(Message) /\ \A i \in 1 .. Len(q) : Aside(q[i]) /\ (closed => q[i].type = "requesteddata")
    /\ Makes(out, q, out')
    /\ UNCHANGED <<feed, opts, format, players, session, log, sentPos, sessionSeen, taken,
                   inputLog, sentEnd, closed, stops>>
    /\ chunk' = "open"

LEMMA HeardSays ==
    ASSUME TypeInv, NEW p \in Player, Heard(p)
    PROVE  \E q : Says(q)
<1>1. PICK m \in {<<>>, <<ErrorTo(p)>>, <<ErrorTo(p), Revealed(p, Len(stops))>>} : out' = Pushed(m)
  BY DEF Heard
<1>2. /\ UNCHANGED <<feed, opts, format, players, session, log, sentPos, sessionSeen, taken,
                   inputLog, sentEnd, closed, stops>>
      /\ chunk' = "open"
  BY DEF Heard
<1>3. m \in Seq(Message) /\ \A i \in 1 .. Len(m) : Aside(m[i])
  <2>1. /\ ErrorTo(p) \in Message /\ ErrorTo(p).type = "error"
        /\ Revealed(p, Len(stops)) \in Message /\ Revealed(p, Len(stops)).type = "revealed"
    BY MessagesAre DEF TypeInv
  <2>2. CASE m = <<>>
    BY <2>2
  <2>3. CASE m = <<ErrorTo(p)>>
    BY <2>1, <2>3 DEF Aside
  <2>4. CASE m = <<ErrorTo(p), Revealed(p, Len(stops))>>
    BY <2>1, <2>4 DEF Aside
  <2> QED BY <1>1, <2>2, <2>3, <2>4
<1>4. <<>> \in Seq(Message) /\ Len(<<>>) = 0 /\ out \in Seq(Message) /\ out \o <<>> = out
  BY ConcatEmptySeq DEF TypeInv
<1>5. CASE closed
  <2>1. Makes(out, <<>>, out')
    BY <1>1, <1>4, <1>5 DEF Pushed, Makes
  <2> PICK q : q = <<>>
    OBVIOUS
  <2>2. q \in Seq(Message) /\ Makes(out, q, out')
    BY <1>4, <2>1
  <2>3. \A i \in 1 .. Len(q) : Aside(q[i]) /\ (closed => q[i].type = "requesteddata")
    BY <1>4
  <2> QED BY <1>2, <2>2, <2>3 DEF Says
<1>6. CASE ~closed
  <2>1. Silent(m)
    BY <1>3 DEF Silent, Aside
  <2>2. Makes(<<>>, m, m)
    BY <1>3, ConcatEmptySeq DEF Makes
  <2>3. Makes(<<>>, Kept(m), Without(m, Dropped(m)))
    <3> PICK u : u = <<>>
      OBVIOUS
    <3>1. u \in Seq(Message) /\ Makes(u, m, m) /\ \A i \in 1 .. Len(u) : u[i].type = "update"
      BY <1>4, <2>2
    <3>2. Makes(u, Kept(m), Without(m, Dropped(m)))
      BY <1>3, <2>1, <3>1, KeptIs
    <3> QED BY <3>2
  <2>4. Kept(m) \in Seq(Message) /\ \A i \in 1 .. Len(Kept(m)) : Aside(Kept(m)[i])
    BY <1>3, <1>4 DEF Kept
  <2>5. Without(m, Dropped(m)) = Kept(m)
    BY <2>3, <2>4, ConcatEmptySeq DEF Makes
  <2>6. Makes(out, Kept(m), out')
    BY <1>1, <1>6, <2>5 DEF Pushed, Dropped, Makes
  <2> QED BY <1>2, <1>6, <2>4, <2>6 DEF Says
<1> QED BY <1>5, <1>6

LEMMA DataSays ==
    ASSUME TypeInv, RequestData
    PROVE  \E q : Says(q)
<1> PICK q : q = <<RequestedData>>
  OBVIOUS
<1>1. q \in Seq(Message) /\ Len(q) = 1 /\ q[1].type = "requesteddata"
  BY MessagesAre
<1>2. Makes(out, q, out')
  <2>1. out' = Append(out, RequestedData) /\ out \in Seq(Message) /\ RequestedData \in Message
    BY MessagesAre DEF RequestData, TypeInv
  <2> QED BY <2>1, AppendIsConcat DEF Makes
<1>3. \A i \in 1 .. Len(q) : Aside(q[i]) /\ q[i].type = "requesteddata"
  BY <1>1 DEF Aside
<1> QED BY <1>1, <1>2, <1>3 DEF RequestData, Says

\* Where a message is in the output now.
LEMMA SaysAt ==
    ASSUME TypeInv, NEW q, Says(q)
    PROVE  /\ out' \in Seq(Message) /\ Len(out) \in Nat /\ Len(out) <= Len(out')
           /\ \A i \in 1 .. Len(out) : i \in 1 .. Len(out') /\ out'[i] = out[i] /\ Told(out', i) = Told(out, i)
           /\ \A i \in 1 .. Len(out') : i \notin 1 .. Len(out) =>
                 Aside(out'[i]) /\ (closed => out'[i].type = "requesteddata")
           /\ Told(out', Len(out')) = Told(out, Len(out))
<1>1. q \in Seq(Message) /\ out \in Seq(Message) /\ Makes(out, q, out')
  BY DEF Says, TypeInv
<1>2. \A i \in 1 .. Len(q) : Aside(q[i]) /\ (closed => q[i].type = "requesteddata")
  BY DEF Says
<1>3. /\ out' \in Seq(Message) /\ Len(out) \in Nat /\ Len(q) \in Nat /\ Len(out') = Len(out) + Len(q)
      /\ Alike(out', out, Len(out))
      /\ \A i \in 1 .. Len(out') : i > Len(out) => i - Len(out) \in 1 .. Len(q) /\ out'[i] = q[i - Len(out)]
  BY <1>1, MakesIs
<1>4. Silent(q)
  BY <1>2 DEF Silent, Aside
<1>5. ASSUME NEW i \in 1 .. Len(out)
      PROVE  i \in 1 .. Len(out') /\ out'[i] = out[i] /\ Told(out', i) = Told(out, i)
  <2>1. i \in 1 .. Len(out') /\ i <= Len(out)
    BY <1>3
  <2>2. Told(out', i) = Told(out, i)
    BY <1>1, <1>4, <2>1, ToldStill
  <2> QED BY <1>3, <2>1, <2>2 DEF Alike
<1>6. ASSUME NEW i \in 1 .. Len(out'), i \notin 1 .. Len(out)
      PROVE  Aside(out'[i]) /\ (closed => out'[i].type = "requesteddata")
  <2>1. i > Len(out)
    BY <1>3, <1>6
  <2>2. i - Len(out) \in 1 .. Len(q) /\ out'[i] = q[i - Len(out)]
    BY <1>3, <2>1
  <2> QED BY <1>2, <2>2
<1>7. Told(out', Len(out')) = Told(out, Len(out))
  <2>1. Told(out', Len(out')) = Told(out, Len(out)) \o Told(q, Len(q))
    BY <1>1, ToldEnd
  <2>2. Told(q, Len(q)) = <<>>
    <3>1. Len(q) \in 0 .. Len(q)
      BY <1>3
    <3> QED BY <1>1, <1>4, <3>1, ToldSilent
  <2>3. Told(out, Len(out)) \in Seq(LogLine)
    <3>1. Len(out) \in 0 .. Len(out)
      BY <1>3
    <3> QED BY <1>1, <3>1, LinesType
  <2> QED BY <2>1, <2>2, <2>3, ConcatEmptySeq
<1>8. Len(out) <= Len(out')
  BY <1>3
<1> QED BY <1>3, <1>5, <1>6, <1>7, <1>8

LEMMA SaysKeeps ==
    ASSUME TypeInv, StreamInv, NEW q, Says(q)
    PROVE  TypeInv' /\ StreamInv'
<1>1. /\ UNCHANGED <<feed, opts, format, players, session, log, sentPos, sessionSeen, taken,
                   inputLog, sentEnd, closed, stops>>
      /\ raw' = raw /\ newRequests' = newRequests /\ committed' = committed /\ ended' = ended
      /\ chunk' = "open"
  BY DEF Says, feed
<1>2. /\ out' \in Seq(Message) /\ Len(out) \in Nat /\ Len(out) <= Len(out')
      /\ \A i \in 1 .. Len(out) : i \in 1 .. Len(out') /\ out'[i] = out[i] /\ Told(out', i) = Told(out, i)
      /\ \A i \in 1 .. Len(out') : i \notin 1 .. Len(out) =>
            Aside(out'[i]) /\ (closed => out'[i].type = "requesteddata")
      /\ Told(out', Len(out')) = Told(out, Len(out))
  BY SaysAt
<1>3. TypeInv'
  BY <1>1, <1>2 DEF TypeInv
<1>4. LogCarriesBattle' /\ BattleInv'
  BY <1>1 DEF StreamInv, LogCarriesBattle, BattleInv
<1>5. SentInv'
  <2>1. ToldOnce(out', log, sentPos, closed)
    BY <1>2, PropertiesAre DEF StreamInv, SentInv, ToldOnce
  <2>2. SentOnce'
    BY <1>1, <2>1, PropertiesNext
  <2> QED BY <1>1, <2>2 DEF StreamInv, SentInv
<1>6. EndInv'
  <2>1. EndsOnce(out, committed, OfBattle(raw), opts.keepAlive)
    BY PropertiesAre DEF StreamInv, EndInv
  <2>2. ASSUME NEW i \in 1 .. Len(out'), out'[i].type = "end"
        PROVE  i \in 1 .. Len(out) /\ out[i].type = "end" /\ sentEnd
    <3>1. i \in 1 .. Len(out)
      BY <1>2, <2>2 DEF Aside
    <3> QED BY <1>2, <2>2, <3>1 DEF StreamInv, EndInv
  <2>3. EndsOnce(out', committed, OfBattle(raw), opts.keepAlive)
    <3> SUFFICES ASSUME NEW i \in 1 .. Len(out'), out'[i].type = "end"
                 PROVE  /\ ChosenIn(out'[i].inputs) = committed
                        /\ OfBattle(Told(out', i)) = OfBattle(raw)
                        /\ \A j \in i + 1 .. Len(out') :
                              IF opts.keepAlive THEN out'[j].type # "end" ELSE out'[j].type = "requesteddata"
      BY DEF EndsOnce
    <3>1. i \in 1 .. Len(out) /\ out[i].type = "end" /\ sentEnd
      BY <2>2
    <3>2. ChosenIn(out'[i].inputs) = committed /\ OfBattle(Told(out', i)) = OfBattle(raw)
      BY <1>2, <2>1, <3>1 DEF EndsOnce
    <3>3. ASSUME NEW j \in i + 1 .. Len(out')
          PROVE  IF opts.keepAlive THEN out'[j].type # "end" ELSE out'[j].type = "requesteddata"
      <4>0. j \in 1 .. Len(out')
        BY <1>2, <3>1
      <4>1. CASE j \in 1 .. Len(out)
        <5>1. j \in i + 1 .. Len(out)
          BY <4>1, <3>1
        <5>2. IF opts.keepAlive THEN out[j].type # "end" ELSE out[j].type = "requesteddata"
          BY <2>1, <3>1, <5>1 DEF EndsOnce
        <5> QED BY <1>2, <4>1, <5>2
      <4>2. CASE j \notin 1 .. Len(out)
        <5>1. Aside(out'[j]) /\ (closed => out'[j].type = "requesteddata")
          BY <1>2, <4>0, <4>2
        <5>2. ~opts.keepAlive => closed
          BY <3>1 DEF StreamInv, SentInv
        <5> QED BY <5>1, <5>2 DEF Aside
      <4> QED BY <4>1, <4>2
    <3> QED BY <3>2, <3>3
  <2>4. OneEnd'
    BY <1>1, <2>3, PropertiesNext
  <2>5. \A i \in 1 .. Len(out') : out'[i].type = "end" => sentEnd
    BY <2>2
  <2>6. sentEnd /\ ~opts.replayOnly => \E i \in 1 .. Len(out') : out'[i].type = "end"
    <3>1. sentEnd /\ ~opts.replayOnly => \E i \in 1 .. Len(out) : out[i].type = "end"
      BY DEF StreamInv, EndInv
    <3> QED BY <1>2, <3>1
  <2> QED BY <1>1, <2>4, <2>5, <2>6 DEF EndInv
<1>7. AskInv'
  <2>1. AsksRight(out, stops)
    BY PropertiesAre DEF StreamInv, AskInv
  <2>2. ASSUME NEW i \in 1 .. Len(out'), out'[i].type = "request"
        PROVE  i \in 1 .. Len(out) /\ out[i].type = "request"
    BY <1>2, <2>2 DEF Aside
  <2>3. AsksRight(out', stops)
    <3> SUFFICES ASSUME NEW i \in 1 .. Len(out'), out'[i].type = "request", out'[i].stop # 0
                 PROVE  OfBattle(Told(out', i)) = OfBattle(SubSeq(Script, 1, stops[out'[i].stop]))
      BY DEF AsksRight
    <3>1. i \in 1 .. Len(out) /\ out[i].type = "request"
      BY <2>2
    <3>2. out'[i] = out[i] /\ Told(out', i) = Told(out, i)
      BY <1>2, <3>1
    <3> QED BY <2>1, <3>1, <3>2 DEF AsksRight
  <2>4. \A i \in 1 .. Len(out') : out'[i].type = "request" => out'[i].stop \in 0 .. Len(stops)
    <3>1. \A i \in 1 .. Len(out) : out[i].type = "request" => out[i].stop \in 0 .. Len(stops)
      BY DEF StreamInv, AskInv
    <3> QED BY <1>2, <2>2, <3>1
  <2>5. RequestsFollowLog'
    BY <1>1, <2>3, PropertiesNext
  <2> QED BY <1>1, <2>4, <2>5 DEF AskInv
<1>8. WaitInv'
  <2>1. newRequests' \/ Ending' => sentPos' < Len(log')
    BY <1>1 DEF StreamInv, WaitInv, Ending
  <2>2. ASSUME session, ~newRequests, ~ended, ~opts.replayOnly, NEW p \in Player
        PROVE  \E i \in 1 .. Len(out') : out'[i] = Request(p, Len(stops))
    <3>1. \E i \in 1 .. Len(out) : out[i] = Request(p, Len(stops))
      BY <2>2 DEF StreamInv, WaitInv
    <3> QED BY <1>2, <3>1
  <2> QED BY <1>1, <2>1, <2>2 DEF WaitInv
<1> QED BY <1>3, <1>4, <1>5, <1>6, <1>7, <1>8 DEF StreamInv

-----------------------------------------------------------------------------
(* The end of a chunk that has something to send, into an open stream.      *)
Asking(m) == newRequests /\ \E p \in Player : m = Request(p, StopNow)
Closing(m) == Ending /\ m = EndRecord(inputLog)

Sends(r) ==
    /\ r \in Seq(Message) /\ Len(out) \in Nat /\ Len(out) < Len(r)
    /\ \A i \in 1 .. Len(out) : i \in 1 .. Len(r) /\ r[i] = out[i] /\ Told(r, i) = Told(out, i)
    /\ \A i \in 1 .. Len(r) : i \notin 1 .. Len(out) =>
          /\ Told(r, i) = log
          /\ r[i].type = "update" \/ Asking(r[i]) \/ (Closing(r[i]) /\ i = Len(r))
    /\ newRequests /\ ~opts.replayOnly => \A p \in Player : \E i \in 1 .. Len(r) : r[i] = Request(p, StopNow)
    /\ Ending /\ ~opts.replayOnly => \E i \in 1 .. Len(r) : r[i] = EndRecord(inputLog)

\* What is where when one message and then others are added.
LEMMA MakesTwo ==
    ASSUME NEW o \in Seq(Message), NEW v \in Seq(Message), NEW e \in Seq(Message),
           NEW u, Makes(o, v, u), NEW r, Makes(u, e, r)
    PROVE  /\ u \in Seq(Message) /\ Len(o) \in Nat /\ Len(u) = Len(o) + Len(v) /\ Alike(u, o, Len(o))
           /\ Len(v) = 1 => u[Len(o) + 1] = v[1]
           /\ r \in Seq(Message) /\ Len(e) \in Nat /\ Len(r) = Len(u) + Len(e) /\ Alike(r, u, Len(u))
           /\ \A i \in 1 .. Len(r) : i > Len(u) => i - Len(u) \in 1 .. Len(e) /\ r[i] = e[i - Len(u)]
<1>1. /\ u \in Seq(Message) /\ Len(o) \in Nat /\ Len(u) = Len(o) + Len(v) /\ Alike(u, o, Len(o))
      /\ \A i \in 1 .. Len(u) : i > Len(o) => i - Len(o) \in 1 .. Len(v) /\ u[i] = v[i - Len(o)]
  BY MakesIs
<1>2. Len(v) = 1 => u[Len(o) + 1] = v[1]
  <2> SUFFICES ASSUME Len(v) = 1 PROVE u[Len(o) + 1] = v[1]
    OBVIOUS
  <2>1. Len(o) + 1 \in 1 .. Len(u) /\ Len(o) + 1 > Len(o) /\ (Len(o) + 1) - Len(o) = 1
    BY <1>1
  <2> QED BY <1>1, <2>1
<1>3. /\ r \in Seq(Message) /\ Len(e) \in Nat /\ Len(r) = Len(u) + Len(e) /\ Alike(r, u, Len(u))
      /\ \A i \in 1 .. Len(r) : i > Len(u) => i - Len(u) \in 1 .. Len(e) /\ r[i] = e[i - Len(u)]
  <2>1. u \in Seq(Message)
    BY <1>1
  <2> QED BY <2>1, MakesIs
<1> QED BY <1>1, <1>2, <1>3

Tells(o, x, r) ==
    \A i \in 1 .. Len(r) : Told(r, i) = IF i <= Len(o) THEN Told(o, i) ELSE Told(o, Len(o)) \o x

LEMMA TellsIs ==
    ASSUME NEW o \in Seq(Message), NEW x \in Seq(LogLine), NEW q \in Seq(Message), Silent(q),
           NEW v, Updates(v, x), NEW u, Makes(o, v, u), NEW r, Makes(u, q, r)
    PROVE  Tells(o, x, r)
<1>1. ASSUME NEW i \in 1 .. Len(r)
      PROVE  Told(r, i) = IF i <= Len(o) THEN Told(o, i) ELSE Told(o, Len(o)) \o x
  BY ToldMore
<1> QED BY <1>1 DEF Tells

LEMMA RestOfLog ==
    ASSUME TypeInv, SentInv, ~closed, sentPos < Len(log), NEW w, w = SubSeq(log, sentPos + 1, Len(log))
    PROVE  w \in Seq(LogLine) /\ Told(out, Len(out)) \o w = log
<1> PICK k : k = sentPos
  OBVIOUS
<1>1. log \in Seq(LogLine) /\ k \in 0 .. Len(log) /\ Len(log) \in Nat /\ Told(out, Len(out)) = SubSeq(log, 1, k)
  BY PropertiesAre DEF TypeInv, SentInv, ToldOnce
<1>2. w \in Seq(LogLine)
  <2>1. \A i \in k + 1 .. Len(log) : log[i] \in LogLine
    BY <1>1
  <2> QED BY <1>1, <2>1, SubSeqProperties
<1>3. SubSeq(log, 1, k) \o SubSeq(log, k + 1, Len(log)) = SubSeq(log, 1, Len(log))
  <2>1. 1 \in 1 .. Len(log) + 1 /\ k \in 1 - 1 .. Len(log) /\ Len(log) \in k .. Len(log)
    BY <1>1
  <2> QED BY <1>1, <2>1, ConcatAdjacentSubSeq
<1>4. SubSeq(log, 1, Len(log)) = log
  BY <1>1, SubSeqFull
<1> QED BY <1>1, <1>2, <1>3, <1>4

LEMMA ChunkSends ==
    ASSUME TypeInv, SentInv, SendUpdates, sentPos < Len(log), ~closed
    PROVE  Sends(out')
<1> PICK w : w = SubSeq(log, sentPos + 1, Len(log))
  OBVIOUS
<1> PICK v : Updates(v, w)
  BY DEF Updates
<1> PICK q : Makes(Requests, Record, q)
  BY DEF Makes
<1> PICK m : Makes(v, q, m)
  BY DEF Makes
<1> PICK u : Makes(out, v, u)
  BY DEF Makes
<1> PICK e : e = Kept(q)
  OBVIOUS
<1>1. w \in Seq(LogLine) /\ Told(out, Len(out)) \o w = log
  BY RestOfLog
<1>2. Updates(v, w) /\ v \in Seq(Message) /\ Len(v) = 1 /\ v[1].type = "update"
  <2>1. Updates(v, w)
    OBVIOUS
  <2>2. v \in Seq(Message) /\ Len(v) = 1 /\ v[1] = Update(w)
    BY <1>1, <2>1, UpdatesIs
  <2>3. Update(w).type = "update"
    BY <1>1, MessagesAre
  <2> QED BY <2>1, <2>2, <2>3
<1>3. Follows(q) /\ Complete(q)
  BY FollowersAre DEF TypeInv, Makes
<1>4. q \in Seq(Message) /\ Silent(q)
  BY <1>3 DEF Follows
<1>5. Makes(v, e, Without(m, Dropped(m)))
  <2>1. Makes(v, q, m)
    OBVIOUS
  <2>2. \A i \in 1 .. Len(v) : v[i].type = "update"
    BY <1>2
  <2>3. Makes(v, Kept(q), Without(m, Dropped(m)))
    BY <1>2, <1>4, <2>1, <2>2, KeptIs
  <2> QED BY <2>3
<1>6. e \in Seq(Message) /\ Silent(e) /\ (e = q \/ (e = <<>> /\ opts.replayOnly))
  <2>1. <<>> \in Seq(Message) /\ Silent(<<>>)
    BY DEF Silent
  <2> QED BY <1>4, <2>1 DEF Kept
<1>7. out \in Seq(Message) /\ Makes(out, v, u) /\ Makes(u, e, out')
  <2>1. out' = out \o Without(m, Dropped(m))
    <3>1. out' = Pushed(<<Update(SubSeq(log, sentPos + 1, Len(log)))>> \o Requests \o Record)
      BY DEF SendUpdates
    <3>2. Requests \in Seq(Message) /\ Record \in Seq(Message)
      BY RequestsAre, RecordIs DEF TypeInv
    <3>3. (v \o Requests) \o Record = m
      <4>1. v \in Seq(Message)
        BY <1>2
      <4>2. (v \o Requests) \o Record = v \o (Requests \o Record)
        BY <3>2, <4>1, ConcatAssociative
      <4> QED BY <4>2 DEF Makes
    <3>4. out' = Pushed(m)
      BY <3>1, <3>3 DEF Updates
    <3> QED BY <3>4 DEF Pushed, Dropped
  <2>2. out \in Seq(Message)
    BY DEF TypeInv
  <2>3. (out \o v) \o e = out \o (v \o e)
    BY <1>2, <1>6, <2>2, ConcatAssociative
  <2>4. Without(m, Dropped(m)) = v \o e
    BY <1>5 DEF Makes
  <2> QED BY <2>1, <2>2, <2>3, <2>4 DEF Makes
<1> PICK r : r = out'
  OBVIOUS
<1>7a. Makes(u, e, r) /\ Makes(out, v, u) /\ v \in Seq(Message)
  BY <1>2, <1>7
<1>8. /\ u \in Seq(Message) /\ Len(out) \in Nat /\ Len(u) = Len(out) + 1 /\ Alike(u, out, Len(out))
      /\ u[Len(out) + 1] = v[1]
      /\ r \in Seq(Message) /\ Len(e) \in Nat /\ Len(r) = Len(u) + Len(e) /\ Alike(r, u, Len(u))
      /\ \A i \in 1 .. Len(r) : i > Len(u) => i - Len(u) \in 1 .. Len(e) /\ r[i] = e[i - Len(u)]
  <2>1. /\ u \in Seq(Message) /\ Len(out) \in Nat /\ Len(u) = Len(out) + Len(v) /\ Alike(u, out, Len(out))
        /\ Len(v) = 1 => u[Len(out) + 1] = v[1]
        /\ r \in Seq(Message) /\ Len(e) \in Nat /\ Len(r) = Len(u) + Len(e) /\ Alike(r, u, Len(u))
        /\ \A i \in 1 .. Len(r) : i > Len(u) => i - Len(u) \in 1 .. Len(e) /\ r[i] = e[i - Len(u)]
    BY <1>6, <1>7, <1>7a, MakesTwo
  <2> QED BY <1>2, <2>1
<1>10. \A i \in 1 .. Len(r) : Told(r, i) = IF i <= Len(out) THEN Told(out, i) ELSE log
  <2>1. /\ out \in Seq(Message) /\ w \in Seq(LogLine) /\ e \in Seq(Message) /\ Silent(e)
        /\ Updates(v, w) /\ Makes(out, v, u) /\ Makes(u, e, r)
    BY <1>1, <1>2, <1>6, <1>7
  <2>2. Tells(out, w, r)
    BY <2>1, TellsIs
  <2> QED BY <1>1, <2>2 DEF Tells
<1>11. ASSUME NEW i \in 1 .. Len(out)
       PROVE  i \in 1 .. Len(r) /\ r[i] = out[i] /\ Told(r, i) = Told(out, i)
  <2>1. i \in 1 .. Len(r) /\ i \in 1 .. Len(u) /\ i <= Len(out)
    BY <1>8
  <2>2. r[i] = u[i] /\ u[i] = out[i]
    BY <1>8, <2>1 DEF Alike
  <2> QED BY <1>10, <2>1, <2>2
<1>12. \A i \in 1 .. Len(q) : Asking(q[i]) \/ (Closing(q[i]) /\ i = Len(q))
  BY <1>3 DEF Follows, Asking, Closing
<1>13. \A i \in 1 .. Len(e) : e = q /\ (Asking(e[i]) \/ (Closing(e[i]) /\ i = Len(e)))
  <2>1. CASE e = q
    BY <1>12, <2>1
  <2>2. CASE e = <<>>
    BY <2>2
  <2> QED BY <1>6, <2>1, <2>2
<1>14. ASSUME NEW i \in 1 .. Len(r), i \notin 1 .. Len(out)
       PROVE  /\ Told(r, i) = log
              /\ r[i].type = "update" \/ Asking(r[i]) \/ (Closing(r[i]) /\ i = Len(r))
  <2>1. ~(i <= Len(out))
    BY <1>8, <1>14
  <2>2. Told(r, i) = log
    BY <1>10, <2>1
  <2>3. CASE i = Len(out) + 1
    <3>1. i \in 1 .. Len(u)
      BY <1>8, <2>3
    <3>2. r[i] = u[i]
      BY <1>8, <3>1 DEF Alike
    <3> QED BY <1>2, <1>8, <2>2, <2>3, <3>2
  <2>4. CASE i # Len(out) + 1
    <3>1. i > Len(u)
      BY <1>8, <2>1, <2>4
    <3>2. i - Len(u) \in 1 .. Len(e) /\ r[i] = e[i - Len(u)]
      BY <1>8, <3>1
    <3>3. Asking(r[i]) \/ (Closing(r[i]) /\ i - Len(u) = Len(e))
      BY <1>13, <3>2
    <3>4. i - Len(u) = Len(e) => i = Len(r)
      BY <1>8
    <3> QED BY <2>2, <3>3, <3>4
  <2> QED BY <2>3, <2>4
<1>15. ASSUME ~opts.replayOnly, NEW x, \E i \in 1 .. Len(q) : q[i] = x
       PROVE  \E i \in 1 .. Len(r) : r[i] = x
  <2>1. e = q
    BY <1>6, <1>15
  <2>2. PICK k \in 1 .. Len(e) : e[k] = x
    BY <1>15, <2>1
  <2>3. Len(u) + k \in 1 .. Len(r) /\ Len(u) + k > Len(u) /\ (Len(u) + k) - Len(u) = k
    BY <1>8
  <2>4. r[Len(u) + k] = e[k]
    BY <1>8, <2>3
  <2> QED BY <2>2, <2>3, <2>4
<1>16. newRequests /\ ~opts.replayOnly => \A p \in Player : \E i \in 1 .. Len(r) : r[i] = Request(p, StopNow)
  BY <1>3, <1>15 DEF Complete
<1>17. Ending /\ ~opts.replayOnly => \E i \in 1 .. Len(r) : r[i] = EndRecord(inputLog)
  BY <1>3, <1>15 DEF Complete
<1>18. Len(out) < Len(r)
  BY <1>8
<1>19. Sends(r)
  BY <1>8, <1>11, <1>14, <1>16, <1>17, <1>18 DEF Sends
<1> QED BY <1>19

\* Nothing new in the log: nothing happens, and nothing waits.
LEMMA NothingToSend ==
    ASSUME TypeInv, StreamInv, EndChunk, ~(sentPos < Len(log))
    PROVE  TypeInv' /\ StreamInv'
<1>1. /\ UNCHANGED <<opts, format, players, session, log, sessionSeen, taken, inputLog, stops>>
      /\ UNCHANGED <<feed, sentPos, sentEnd, closed, out>> /\ chunk' = "sent"
  BY DEF EndChunk, SendUpdates
<1>2. raw' = raw /\ newRequests' = newRequests /\ committed' = committed /\ ended' = ended
  BY <1>1 DEF feed
<1>3. TypeInv'
  BY <1>1, <1>2 DEF TypeInv
<1>4. LogCarriesBattle' /\ BattleInv'
  BY <1>1, <1>2 DEF StreamInv, LogCarriesBattle, BattleInv
<1>5. SentOnce' /\ OneEnd' /\ RequestsFollowLog'
  BY <1>1, <1>2, PropertiesAre, PropertiesNext DEF StreamInv, SentInv, EndInv, AskInv
<1>6. SentInv' /\ EndInv' /\ AskInv'
  BY <1>1, <1>2, <1>5 DEF StreamInv, SentInv, EndInv, AskInv
<1>7. WaitInv'
  BY <1>1, <1>2 DEF StreamInv, WaitInv, Ending
<1> QED BY <1>3, <1>4, <1>6, <1>7 DEF StreamInv

LEMMA SendingType ==
    ASSUME TypeInv, EndChunk, sentPos < Len(log)
    PROVE  /\ UNCHANGED <<opts, format, players, session, log, sessionSeen, taken, inputLog, stops>>
           /\ UNCHANGED <<raw, committed, ended>>
           /\ chunk' = "sent" /\ sentPos' = Len(log) /\ newRequests' = FALSE
           /\ sentEnd' = (sentEnd \/ (session /\ ended))
           /\ closed' = (closed \/ (Ending /\ ~opts.keepAlive))
           /\ out' \in Seq(Message) => TypeInv'
<1>1. /\ UNCHANGED <<opts, format, players, session, log, sessionSeen, taken, inputLog, stops>>
      /\ UNCHANGED <<raw, committed, ended>>
      /\ chunk' = "sent" /\ sentPos' = Len(log) /\ newRequests' = FALSE
      /\ sentEnd' = (sentEnd \/ (session /\ ended))
  BY DEF EndChunk, SendUpdates, TakeNewRequests
<1>2. closed' = (closed \/ (Ending /\ ~opts.keepAlive))
  <2>1. Record # <<>> <=> Ending
    <3>1. Record = IF Ending THEN <<EndRecord(inputLog)>> ELSE <<>>
      BY RecordIs DEF TypeInv
    <3>2. Len(<<EndRecord(inputLog)>>) = 1 /\ Len(<<>>) = 0
      OBVIOUS
    <3> QED BY <3>1, <3>2
  <2>2. closed' = (closed \/ (Record # <<>> /\ ~opts.keepAlive))
    BY DEF EndChunk, SendUpdates
  <2>3. opts.keepAlive \in BOOLEAN
    BY StreamAssumption DEF TypeInv
  <2> QED BY <2>1, <2>2, <2>3 DEF TypeInv
<1>3. sentPos' \in 0 .. Len(log')
  <2>1. Len(log) \in Nat
    BY DEF TypeInv
  <2> QED BY <1>1, <2>1
<1>4. closed' \in BOOLEAN
  BY <1>2
<1>5. sentEnd' \in BOOLEAN
  BY <1>1
<1>6. out' \in Seq(Message) => TypeInv'
  BY <1>1, <1>3, <1>4, <1>5 DEF TypeInv
<1> QED BY <1>1, <1>2, <1>6

\* Nobody reads a closed stream any more.
LEMMA ClosedKeeps ==
    ASSUME TypeInv, StreamInv, EndChunk, sentPos < Len(log), closed
    PROVE  TypeInv' /\ StreamInv'
<1>1. /\ UNCHANGED <<opts, format, players, session, log, sessionSeen, taken, inputLog, stops>>
      /\ UNCHANGED <<raw, committed, ended>>
      /\ sentPos' = Len(log) /\ newRequests' = FALSE
      /\ sentEnd' = (sentEnd \/ (session /\ ended))
      /\ closed' = (closed \/ (Ending /\ ~opts.keepAlive))
      /\ out' \in Seq(Message) => TypeInv'
  BY SendingType
<1>2. sentEnd /\ session /\ ended
  BY DEF StreamInv, SentInv
<1>3. sentEnd' = sentEnd /\ closed' = closed
  BY <1>1, <1>2
<1>4. out' = out
  BY DEF EndChunk, SendUpdates, Pushed
<1>5. TypeInv'
  BY <1>1, <1>4 DEF TypeInv
<1>6. LogCarriesBattle'
  BY <1>1 DEF StreamInv, LogCarriesBattle
<1>7. BattleInv'
  BY <1>1, <1>2 DEF StreamInv, BattleInv
<1>8. SentOnce' /\ OneEnd' /\ RequestsFollowLog'
  BY <1>1, <1>3, <1>4, PropertiesAre, PropertiesNext DEF StreamInv, SentInv, EndInv, AskInv, ToldOnce
<1>9. SentInv' /\ EndInv' /\ AskInv'
  BY <1>1, <1>2, <1>3, <1>4, <1>8 DEF StreamInv, SentInv, EndInv, AskInv
<1>10. WaitInv'
  BY <1>1, <1>2, <1>3 DEF WaitInv, Ending
<1> QED BY <1>5, <1>6, <1>7, <1>9, <1>10 DEF StreamInv

LEMMA OpenKeeps ==
    ASSUME TypeInv, StreamInv, EndChunk, sentPos < Len(log), ~closed
    PROVE  TypeInv' /\ StreamInv'
<1>1. /\ UNCHANGED <<opts, format, players, session, log, sessionSeen, taken, inputLog, stops>>
      /\ UNCHANGED <<raw, committed, ended>>
      /\ sentPos' = Len(log) /\ newRequests' = FALSE
      /\ sentEnd' = (sentEnd \/ (session /\ ended))
      /\ closed' = (closed \/ (Ending /\ ~opts.keepAlive))
      /\ out' \in Seq(Message) => TypeInv'
  BY SendingType
<1>2. /\ out' \in Seq(Message) /\ Len(out) \in Nat /\ Len(out) < Len(out')
      /\ \A i \in 1 .. Len(out) : i \in 1 .. Len(out') /\ out'[i] = out[i] /\ Told(out', i) = Told(out, i)
      /\ \A i \in 1 .. Len(out') : i \notin 1 .. Len(out) =>
            /\ Told(out', i) = log
            /\ out'[i].type = "update" \/ Asking(out'[i]) \/ (Closing(out'[i]) /\ i = Len(out'))
      /\ newRequests /\ ~opts.replayOnly => \A p \in Player : \E i \in 1 .. Len(out') : out'[i] = Request(p, StopNow)
      /\ Ending /\ ~opts.replayOnly => \E i \in 1 .. Len(out') : out'[i] = EndRecord(inputLog)
  <2>1. SendUpdates
    BY DEF EndChunk
  <2> QED BY <2>1, ChunkSends DEF StreamInv, Sends
<1>3. TypeInv'
  BY <1>1, <1>2
<1>4. LogCarriesBattle'
  BY <1>1 DEF StreamInv, LogCarriesBattle
<1>5. BattleInv'
  BY <1>1 DEF StreamInv, BattleInv
<1>6. /\ \A m : Asking(m) => /\ newRequests /\ session /\ m.type = "request"
                             /\ m.stop = IF ended THEN 0 ELSE Len(stops)
      /\ \A m : Closing(m) => Ending /\ m.type = "end" /\ m.inputs = inputLog
  <2>1. StopNow \in Nat /\ Len(stops) \in Nat
    BY DEF StopNow, TypeInv
  <2>2. ASSUME NEW m, Asking(m)
        PROVE  newRequests /\ session /\ m.type = "request" /\ m.stop = IF ended THEN 0 ELSE Len(stops)
    <3>1. newRequests /\ \E p \in Player : m = Request(p, StopNow)
      BY <2>2 DEF Asking
    <3>2. m.type = "request" /\ m.stop = StopNow
      BY <2>1, <3>1, MessagesAre
    <3>3. session
      BY <3>1 DEF StreamInv, BattleInv, TypeInv
    <3> QED BY <3>1, <3>2, <3>3 DEF StopNow
  <2>3. ASSUME NEW m, Closing(m)
        PROVE  Ending /\ m.type = "end" /\ m.inputs = inputLog
    BY <2>3, MessagesAre DEF Closing, TypeInv
  <2> QED BY <2>2, <2>3
<1>7. /\ OfBattle(log) = OfBattle(raw) /\ ChosenIn(inputLog) = committed
  BY DEF StreamInv, LogCarriesBattle
<1>8. SentInv'
  <2>1. Told(out', Len(out')) = log
    <3>1. Len(out') \in 1 .. Len(out') /\ Len(out') \notin 1 .. Len(out)
      BY <1>2
    <3> QED BY <1>2, <3>1
  <2>2. SubSeq(log, 1, Len(log)) = log /\ Len(log) \in Nat
    BY SubSeqFull DEF TypeInv
  <2>3. ToldOnce(out', log, Len(log), closed')
    BY <2>1, <2>2 DEF ToldOnce, IsPrefix
  <2>4. SentOnce'
    BY <1>1, <2>3, PropertiesNext
  <2>5. ~sentEnd => ~closed
    OBVIOUS
  <2> QED BY <1>1, <2>4 DEF StreamInv, SentInv, Ending
<1>9. EndInv'
  <2>1. EndsOnce(out, committed, OfBattle(raw), opts.keepAlive) /\ \A i \in 1 .. Len(out) : out[i].type = "end" => sentEnd
    BY PropertiesAre DEF StreamInv, EndInv
  <2>2. sentEnd => ~Ending /\ opts.keepAlive
    BY DEF StreamInv, SentInv, Ending
  <2>3. \A i \in 1 .. Len(out') : i \in 1 .. Len(out) \/ (out'[i].type = "end" => Closing(out'[i]) /\ i = Len(out'))
    BY <1>2, <1>6
  <2>4. EndsOnce(out', committed, OfBattle(raw), opts.keepAlive)
    <3> SUFFICES ASSUME NEW i \in 1 .. Len(out'), out'[i].type = "end"
                 PROVE  /\ ChosenIn(out'[i].inputs) = committed
                        /\ OfBattle(Told(out', i)) = OfBattle(raw)
                        /\ \A j \in i + 1 .. Len(out') :
                              IF opts.keepAlive THEN out'[j].type # "end" ELSE out'[j].type = "requesteddata"
      BY DEF EndsOnce
    <3>1. CASE i \in 1 .. Len(out)
      <4>1. out[i].type = "end"
        BY <1>2, <3>1
      <4>2. sentEnd /\ opts.keepAlive /\ ~Ending
        BY <2>1, <2>2, <3>1, <4>1
      <4>3. ChosenIn(out'[i].inputs) = committed /\ OfBattle(Told(out', i)) = OfBattle(raw)
        BY <1>2, <2>1, <3>1, <4>1 DEF EndsOnce
      <4>4. ASSUME NEW j \in i + 1 .. Len(out')
            PROVE  out'[j].type # "end"
        <5>1. j \in 1 .. Len(out')
          BY <1>2, <3>1
        <5>2. CASE j \in 1 .. Len(out)
          <6>1. j \in i + 1 .. Len(out)
            BY <5>2, <3>1
          <6>2. out[j].type # "end"
            BY <2>1, <3>1, <4>1, <4>2, <6>1 DEF EndsOnce
          <6> QED BY <1>2, <5>2, <6>2
        <5>3. CASE j \notin 1 .. Len(out)
          BY <2>3, <4>2, <5>1, <5>3 DEF Closing
        <5> QED BY <5>2, <5>3
      <4> QED BY <4>2, <4>3, <4>4
    <3>2. CASE i \notin 1 .. Len(out)
      <4>1. Closing(out'[i]) /\ i = Len(out')
        BY <2>3, <3>2
      <4>2. ChosenIn(out'[i].inputs) = committed
        BY <1>6, <1>7, <4>1
      <4>3. OfBattle(Told(out', i)) = OfBattle(raw)
        BY <1>2, <1>7, <3>2
      <4>4. \A j \in i + 1 .. Len(out') : FALSE
        BY <1>2, <4>1
      <4> QED BY <4>2, <4>3, <4>4
    <3> QED BY <3>1, <3>2
  <2>5. OneEnd'
    BY <1>1, <2>4, PropertiesNext
  <2>6. \A i \in 1 .. Len(out') : out'[i].type = "end" => sentEnd'
    <3> SUFFICES ASSUME NEW i \in 1 .. Len(out'), out'[i].type = "end" PROVE sentEnd'
      OBVIOUS
    <3>1. CASE i \in 1 .. Len(out)
      BY <1>1, <1>2, <2>1, <3>1
    <3>2. CASE i \notin 1 .. Len(out)
      BY <1>1, <2>3, <3>2 DEF Closing, Ending
    <3> QED BY <3>1, <3>2
  <2>7. sentEnd' /\ ~opts.replayOnly => \E i \in 1 .. Len(out') : out'[i].type = "end"
    <3> SUFFICES ASSUME sentEnd', ~opts.replayOnly PROVE \E i \in 1 .. Len(out') : out'[i].type = "end"
      OBVIOUS
    <3>1. CASE sentEnd
      <4>1. PICK i \in 1 .. Len(out) : out[i].type = "end"
        BY <3>1 DEF StreamInv, EndInv
      <4> QED BY <1>2, <4>1
    <3>2. CASE ~sentEnd
      <4>1. Ending
        BY <1>1, <3>2 DEF Ending
      <4>2. PICK i \in 1 .. Len(out') : out'[i] = EndRecord(inputLog)
        BY <1>2, <4>1
      <4>3. EndRecord(inputLog).type = "end"
        BY MessagesAre DEF TypeInv
      <4> QED BY <4>2, <4>3
    <3> QED BY <3>1, <3>2
  <2> QED BY <1>1, <2>5, <2>6, <2>7 DEF EndInv
<1>10. AskInv'
  <2>1. AsksRight(out, stops) /\ \A i \in 1 .. Len(out) : out[i].type = "request" => out[i].stop \in 0 .. Len(stops)
    BY PropertiesAre DEF StreamInv, AskInv
  <2>2. \A i \in 1 .. Len(out') : i \in 1 .. Len(out) \/ (out'[i].type = "request" => Asking(out'[i]))
    BY <1>2, <1>6
  <2>3. Len(stops) \in Nat
    BY DEF TypeInv
  <2>4. AsksRight(out', stops)
    <3> SUFFICES ASSUME NEW i \in 1 .. Len(out'), out'[i].type = "request", out'[i].stop # 0
                 PROVE  OfBattle(Told(out', i)) = OfBattle(SubSeq(Script, 1, stops[out'[i].stop]))
      BY DEF AsksRight
    <3>1. CASE i \in 1 .. Len(out)
      <4>1. out'[i] = out[i] /\ Told(out', i) = Told(out, i)
        BY <1>2, <3>1
      <4> QED BY <2>1, <3>1, <4>1 DEF AsksRight
    <3>2. CASE i \notin 1 .. Len(out)
      <4>1. Asking(out'[i])
        BY <2>2, <3>2
      <4>2. session /\ ~ended /\ out'[i].stop = Len(stops)
        BY <1>6, <4>1
      <4>3. stops[Len(stops)] = Len(raw) /\ raw = SubSeq(Script, 1, Len(raw))
        BY <4>2 DEF StreamInv, BattleInv
      <4>4. Told(out', i) = log
        BY <1>2, <3>2
      <4> QED BY <1>7, <4>2, <4>3, <4>4
    <3> QED BY <3>1, <3>2
  <2>5. ASSUME NEW i \in 1 .. Len(out'), out'[i].type = "request"
        PROVE  out'[i].stop \in 0 .. Len(stops)
    <3>1. CASE i \in 1 .. Len(out)
      BY <1>2, <2>1, <2>5, <3>1
    <3>2. CASE i \notin 1 .. Len(out)
      <4>1. out'[i].stop = IF ended THEN 0 ELSE Len(stops)
        BY <1>6, <2>2, <2>5, <3>2
      <4> QED BY <2>3, <4>1
    <3> QED BY <3>1, <3>2
  <2>6. RequestsFollowLog'
    BY <1>1, <2>4, PropertiesNext
  <2> QED BY <1>1, <2>5, <2>6 DEF AskInv
<1>11. WaitInv'
  <2>1. ~newRequests' /\ ~Ending'
    BY <1>1 DEF Ending
  <2>2. ASSUME session, ~ended, ~opts.replayOnly, NEW p \in Player
        PROVE  \E i \in 1 .. Len(out') : out'[i] = Request(p, Len(stops))
    <3>1. CASE newRequests
      BY <1>2, <2>2, <3>1 DEF StopNow
    <3>2. CASE ~newRequests
      <4>1. PICK i \in 1 .. Len(out) : out[i] = Request(p, Len(stops))
        BY <2>2, <3>2 DEF StreamInv, WaitInv
      <4> QED BY <1>2, <4>1
    <3> QED BY <3>1, <3>2
  <2> QED BY <1>1, <2>1, <2>2 DEF WaitInv
<1> QED BY <1>3, <1>4, <1>5, <1>8, <1>9, <1>10, <1>11 DEF StreamInv

-----------------------------------------------------------------------------
(* The theorems.                                                            *)
LEMMA StartsSo ==
    ASSUME StreamInit
    PROVE  TypeInv /\ StreamInv
<1>1. /\ raw = <<>> /\ newRequests = FALSE /\ committed = <<>> /\ ended = FALSE
      /\ opts \in Options /\ format = FALSE /\ players = {} /\ session = FALSE
      /\ log = <<>> /\ sentPos = 0 /\ sessionSeen = 0 /\ taken = 0 /\ inputLog = <<>>
      /\ sentEnd = FALSE /\ closed = FALSE /\ out = <<>> /\ chunk = "sent" /\ stops = <<>>
  BY DEF StreamInit
<1>2. Len(out) = 0 /\ Len(log) = 0 /\ Len(raw) = 0 /\ Len(stops) = 0 /\ Len(committed) = 0
  BY <1>1
<1>3. TypeInv
  <2>1. /\ raw \in Seq(LogLine) /\ committed \in Seq(Text) /\ log \in Seq(LogLine)
        /\ inputLog \in Seq(Input) /\ out \in Seq(Message) /\ stops \in Seq(Nat)
    BY <1>1, EmptySeq
  <2>2. sentPos \in 0 .. Len(log)
    BY <1>1, <1>2
  <2> QED BY <1>1, <2>1, <2>2 DEF TypeInv
<1>4. LogCarriesBattle
  BY <1>1, <1>2, Nothing DEF LogCarriesBattle
<1>5. BattleInv
  <2>1. SubSeq(Script, 1, 0) = <<>>
    BY SubSeqEmpty
  <2> QED BY <1>1, <1>2, <2>1, ScriptIs DEF BattleInv
<1>6. SentInv
  <2>1. Told(out, 0) = <<>>
    <3>1. out \in Seq(Message) /\ Silent(out) /\ 0 \in 0 .. Len(out)
      BY <1>1, <1>2 DEF Silent
    <3> QED BY <3>1, ToldSilent
  <2>2. SubSeq(log, 1, 0) = <<>>
    BY SubSeqEmpty
  <2>3. ToldOnce(out, log, sentPos, closed)
    BY <1>1, <1>2, <2>1, <2>2 DEF ToldOnce
  <2> QED BY <1>1, <2>3, PropertiesAre DEF SentInv
<1>7. EndInv /\ AskInv
  <2>1. 1 .. Len(out) = {}
    BY <1>2
  <2> QED BY <1>1, <2>1 DEF EndInv, AskInv, OneEnd, RequestsFollowLog
<1>8. WaitInv
  BY <1>1 DEF WaitInv, Ending
<1> QED BY <1>3, <1>4, <1>5, <1>6, <1>7, <1>8 DEF StreamInv

LEMMA LinesKeep ==
    ASSUME TypeInv, StreamInv, Line
    PROVE  TypeInv' /\ StreamInv'
<1>1. CASE \E x, y : Grows(x, y) /\ (Stays(x, y) \/ Opens(x, y) \/ Goes(x, y))
  <2>1. PICK x, y : Grows(x, y) /\ (Stays(x, y) \/ Opens(x, y) \/ Goes(x, y))
    BY <1>1
  <2>2. TypeInv'
    BY <2>1, LinesKeepType DEF StreamInv
  <2>3. LogCarriesBattle'
    BY <2>1, LinesCarry DEF StreamInv
  <2>4. BattleInv'
    BY <2>1, LinesBattle DEF StreamInv
  <2>5. SentInv'
    BY <2>1, LinesSent DEF StreamInv
  <2>6. EndInv'
    BY <2>1, LinesEnd DEF StreamInv
  <2>7. AskInv'
    BY <2>1, LinesAsk DEF StreamInv
  <2>8. WaitInv'
    BY <2>1, LinesWait DEF StreamInv
  <2> QED BY <2>2, <2>3, <2>4, <2>5, <2>6, <2>7, <2>8 DEF StreamInv
<1>2. CASE \E p \in Player : Heard(p)
  BY <1>2, HeardSays, SaysKeeps
<1>3. CASE RequestData
  BY <1>3, DataSays, SaysKeeps
<1> QED BY <1>1, <1>2, <1>3, LinesAdd DEF StreamInv

LEMMA StutterKeeps ==
    ASSUME TypeInv, StreamInv, UNCHANGED vars
    PROVE  TypeInv' /\ StreamInv'
<1>1. /\ UNCHANGED stream
      /\ raw' = raw /\ newRequests' = newRequests /\ committed' = committed /\ ended' = ended
  BY DEF vars, feed
<1>2. TypeInv'
  BY <1>1 DEF stream, TypeInv
<1>3. LogCarriesBattle' /\ BattleInv'
  BY <1>1 DEF stream, StreamInv, LogCarriesBattle, BattleInv
<1>4. SentOnce' /\ OneEnd' /\ RequestsFollowLog'
  BY <1>1, PropertiesAre, PropertiesNext DEF stream, StreamInv, SentInv, EndInv, AskInv
<1>5. SentInv' /\ EndInv' /\ AskInv'
  BY <1>1, <1>4 DEF stream, StreamInv, SentInv, EndInv, AskInv
<1>6. WaitInv'
  BY <1>1 DEF stream, StreamInv, WaitInv, Ending
<1> QED BY <1>2, <1>3, <1>5, <1>6 DEF StreamInv

LEMMA Invariant == StreamSpec => [](TypeInv /\ StreamInv)
<1>1. StreamInit => TypeInv /\ StreamInv
  BY StartsSo
<1>2. TypeInv /\ StreamInv /\ [StreamNext]_vars => (TypeInv /\ StreamInv)'
  <2> SUFFICES ASSUME TypeInv, StreamInv, [StreamNext]_vars PROVE TypeInv' /\ StreamInv'
    OBVIOUS
  <2>1. CASE Line
    BY <2>1, LinesKeep
  <2>2. CASE EndChunk
    BY <2>2, NothingToSend, ClosedKeeps, OpenKeeps
  <2>3. CASE UNCHANGED vars
    BY <2>3, StutterKeeps
  <2> QED BY <2>1, <2>2, <2>3 DEF StreamNext
<1> QED BY <1>1, <1>2, PTL DEF StreamSpec

\* Every variable keeps its type: the two logs hold only lines and commands
\* of theirs, and no more of the log is sent than there is.
THEOREM TypeCorrect == StreamSpec => []TypeInv
BY Invariant, PTL

\* However lines are cut into chunks and chunks given up, what the updates
\* tell is the log, line by line and once, and the one end record comes
\* behind the whole battle with every choice in it (`send_updates`).
THEOREM ReadersGetItOnceHolds == StreamSpec => []ReadersGetItOnce
<1>1. StreamInv => ReadersGetItOnce
  BY DEF StreamInv, SentInv, EndInv, ReadersGetItOnce
<1> QED BY <1>1, Invariant, PTL

\* Between two lines the stream's log is the session's, minus the preamble
\* it wrote itself, and its input log holds every committed choice
\* (`pull_session`).
THEOREM LogCarriesBattleHolds == StreamSpec => []LogCarriesBattle
<1>1. StreamInv => LogCarriesBattle
  BY DEF StreamInv
<1> QED BY <1>1, Invariant, PTL

\* A request goes out behind exactly the log of its stop, and once a chunk
\* is through every request and the end are out: the early return of
\* `send_updates` on an unchanged log leaves none behind.
THEOREM RequestsArriveHolds == StreamSpec => []RequestsArrive
<1>1. TypeInv /\ StreamInv => RequestsArrive
  <2> SUFFICES ASSUME TypeInv, StreamInv PROVE RequestsArrive
    OBVIOUS
  <2>1. RequestsFollowLog
    BY DEF StreamInv, AskInv
  <2>2. ASSUME chunk = "sent", session, ~opts.replayOnly, ended
        PROVE  \E i \in 1 .. Len(out) : out[i].type = "end"
    BY <2>2 DEF StreamInv, WaitInv, EndInv, Ending
  <2>3. ASSUME chunk = "sent", session, ~opts.replayOnly, ~ended, NEW p \in Player
        PROVE  Request(p, Len(stops)) \in ToSet(out)
    <3>1. PICK i \in 1 .. Len(out) : out[i] = Request(p, Len(stops))
      BY <2>3 DEF StreamInv, WaitInv
    <3>2. DOMAIN out = 1 .. Len(out)
      BY LenProperties DEF TypeInv
    <3> QED BY <3>1, <3>2 DEF ToSet
  <2>4. chunk = "sent" => ~newRequests
    BY DEF StreamInv, WaitInv
  <2> QED BY <2>1, <2>2, <2>3, <2>4 DEF RequestsArrive, NobodyWaits
<1> QED BY <1>1, Invariant, PTL
=============================================================================
