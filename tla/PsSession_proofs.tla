-------------------------- MODULE PsSession_proofs --------------------------
(***************************************************************************)
(* Theorems about PsSession, for every script, generator, number of        *)
(* mid-turn stops and number of commits: its decisions, its reruns, what   *)
(* they implement, and the feed of the stream.                             *)
(***************************************************************************)
EXTENDS PsSession, SequenceTheorems, FiniteSetTheorems, TLAPS

-----------------------------------------------------------------------------
(* Sequences. *)

\* A function on 1 .. n is a sequence of length n.
LEMMA SeqOfFcn ==
    ASSUME NEW S, NEW n \in Nat, NEW f \in [1 .. n -> S]
    PROVE  f \in Seq(S) /\ Len(f) = n
<1>1. f \in Seq(S)
  BY SeqDef
<1>2. DOMAIN f = 1 .. Len(f) /\ Len(f) \in Nat
  BY <1>1, LenProperties
<1> QED
  BY <1>1, <1>2

\* The second half of a concatenation, seen from where it starts.
LEMMA ConcatTail ==
    ASSUME NEW S, NEW s \in Seq(S), NEW t \in Seq(S)
    PROVE  /\ s \o t \in Seq(S)
           /\ Len(s \o t) = Len(s) + Len(t)
           /\ \A i \in 1 .. Len(s) : (s \o t)[i] = s[i]
           /\ \A i \in 1 .. Len(t) : (s \o t)[Len(s) + i] = t[i]
<1>1. Len(s) \in Nat /\ Len(t) \in Nat
  BY LenProperties
<1>2. /\ s \o t \in Seq(S)
      /\ Len(s \o t) = Len(s) + Len(t)
      /\ \A i \in 1 .. Len(s) + Len(t) :
            (s \o t)[i] = IF i <= Len(s) THEN s[i] ELSE t[i - Len(s)]
  BY ConcatProperties
<1>3. ASSUME NEW i \in 1 .. Len(t) PROVE (s \o t)[Len(s) + i] = t[i]
  <2>1. Len(s) + i \in 1 .. Len(s) + Len(t) /\ ~(Len(s) + i <= Len(s))
        /\ (Len(s) + i) - Len(s) = i
    BY <1>1
  <2> QED
    BY <2>1, <1>2
<1>4. ASSUME NEW i \in 1 .. Len(s) PROVE (s \o t)[i] = s[i]
  BY <1>1, <1>2
<1> QED
  BY <1>2, <1>3, <1>4

\* The first n elements of a sequence.
LEMMA PrefixOf ==
    ASSUME NEW S, NEW s \in Seq(S), NEW n \in Nat, n =< Len(s)
    PROVE  /\ SubSeq(s, 1, n) \in Seq(S)
           /\ Len(SubSeq(s, 1, n)) = n
           /\ \A i \in 1 .. n : SubSeq(s, 1, n)[i] = s[i]
<1>1. Len(s) \in Nat
  BY LenProperties
<1>2. ASSUME NEW i \in 1 .. n PROVE s[i] \in S
  <2>1. i \in 1 .. Len(s)
    BY <1>1
  <2> QED
    BY <2>1, ElementOfSeq
<1>3. /\ SubSeq(s, 1, n) \in Seq(S)
      /\ Len(SubSeq(s, 1, n)) = IF 1 <= n THEN n - 1 + 1 ELSE 0
      /\ \A i \in 1 .. n - 1 + 1 : SubSeq(s, 1, n)[i] = s[1 + i - 1]
  BY <1>2, SubSeqProperties
<1>4. n - 1 + 1 = n /\ (1 <= n \/ n = 0) /\ \A i \in 1 .. n : 1 + i - 1 = i
  OBVIOUS
<1> QED
  BY <1>3, <1>4

-----------------------------------------------------------------------------
(* What a run of a turn looks like. *)

\* ConcatTail for logs and for stops.
LEMMA ConcatLine ==
    \A s, t \in Seq(Line) :
        /\ s \o t \in Seq(Line)
        /\ Len(s \o t) = Len(s) + Len(t)
        /\ \A i \in 1 .. Len(s) : (s \o t)[i] = s[i]
        /\ \A i \in 1 .. Len(t) : (s \o t)[Len(s) + i] = t[i]
BY ConcatTail

LEMMA ConcatStop ==
    \A s, t \in Seq(Stop) :
        /\ s \o t \in Seq(Stop)
        /\ Len(s \o t) = Len(s) + Len(t)
        /\ \A i \in 1 .. Len(s) : (s \o t)[i] = s[i]
        /\ \A i \in 1 .. Len(t) : (s \o t)[Len(s) + i] = t[i]
BY ConcatTail

\* A resolved turn is a battle, its segments follow the old log line by
\* line, and the stops it leaves are those of its segments.
LEMMA StepShape ==
    ASSUME NEW b \in Battle, NEW m \in JointMain, NEW md \in MidHistory
    PROVE  LET t == Turn(b.rng, m, md)
               c == Step(b, m, md)
               n == IF t.segs[Len(t.segs)].kind = "Over" THEN Len(t.segs) - 1 ELSE Len(t.segs)
           IN  /\ c \in Battle
               /\ t.segs \in Seq(Segment) /\ Len(t.segs) \in 1 .. MaxMid + 1
               /\ Len(c.log) = Len(b.log) + Len(t.segs)
               /\ \A i \in 1 .. Len(b.log) : c.log[i] = b.log[i]
               /\ \A i \in 1 .. Len(t.segs) : c.log[Len(b.log) + i] = t.segs[i].line
               /\ Len(c.stops) = Len(b.stops) + n
               /\ \A i \in 1 .. n :
                     c.stops[Len(b.stops) + i] = StopAt(t.segs[i], Len(b.log) + i)
               /\ c.over = (t.segs[Len(t.segs)].kind = "Over")
               /\ c.rng = t.rng
<1> DEFINE t == Turn(b.rng, m, md)
           n == IF t.segs[Len(t.segs)].kind = "Over" THEN Len(t.segs) - 1 ELSE Len(t.segs)
           ls == Lines(t.segs)
           ss == StopsOf(t.segs, Len(b.log))
<1>1. /\ t.rng \in Rng
      /\ t.segs \in Seq(Segment)
      /\ Len(t.segs) \in 1 .. MaxMid + 1
      /\ \A i \in 1 .. Len(t.segs) : (t.segs[i].kind = "MidTurn") <=> (i < Len(t.segs))
      /\ \A i \in 1 .. Len(t.segs) : t.segs[i].kind # "TeamPreview"
  BY TurnShape DEF Battle
<1>2. b.log \in Seq(Line) /\ b.played \in Seq(Line) /\ b.stops \in Seq(Stop)
  BY DEF Battle
<1>3. Len(b.log) \in Nat /\ Len(b.stops) \in Nat /\ Len(t.segs) \in Nat
  BY <1>1, <1>2, LenProperties
<1>4. \A i \in 1 .. Len(t.segs) : t.segs[i] \in Segment
  BY <1>1, ElementOfSeq
<1> HIDE DEF t
<1>5. ls \in Seq(Line) /\ Len(ls) = Len(t.segs) /\ \A i \in 1 .. Len(t.segs) : ls[i] = t.segs[i].line
  <2>1. ls \in [1 .. Len(t.segs) -> Line]
    BY <1>4 DEF Lines, Segment
  <2> QED
    BY <1>3, <2>1, SeqOfFcn DEF Lines
<1>6. n \in Nat /\ n =< Len(t.segs) /\ \A i \in 1 .. n : t.segs[i].kind \in StopKind
  <2>1. \A i \in 1 .. Len(t.segs) : t.segs[i].kind \in StopKind \cup {"Over"}
    BY <1>4 DEF Segment
  <2>2. "MidTurn" # "Over" /\ Len(t.segs) >= 1
    BY <1>1, SidesAssumption
  <2> QED
    BY <1>1, <1>3, <2>1, <2>2
<1>7. ASSUME NEW i \in 1 .. n PROVE StopAt(t.segs[i], Len(b.log) + i) \in Stop
  <2>1. i \in 1 .. Len(t.segs) /\ Len(b.log) + i \in Nat
    BY <1>3, <1>6
  <2>2. t.segs[i].open \in SUBSET Sides /\ t.segs[i].maybe \in SUBSET Sides /\ t.segs[i].kind \in StopKind
    BY <1>4, <1>6, <2>1 DEF Segment
  <2> QED
    BY <2>1, <2>2 DEF StopAt, Stop
<1>8. ss \in Seq(Stop) /\ Len(ss) = n
      /\ \A i \in 1 .. n : ss[i] = StopAt(t.segs[i], Len(b.log) + i)
  <2>1. ss = [i \in 1 .. n |-> StopAt(t.segs[i], Len(b.log) + i)]
    BY DEF StopsOf
  <2> HIDE DEF n, ss
  <2>2. ss \in [1 .. n -> Stop]
    BY <1>7, <2>1
  <2> QED
    BY <1>6, <2>1, <2>2, SeqOfFcn
<1> HIDE DEF n, ls, ss
<1>9. /\ b.log \o ls \in Seq(Line)
      /\ Len(b.log \o ls) = Len(b.log) + Len(ls)
      /\ \A i \in 1 .. Len(b.log) : (b.log \o ls)[i] = b.log[i]
      /\ \A i \in 1 .. Len(ls) : (b.log \o ls)[Len(b.log) + i] = ls[i]
  BY <1>2, <1>5, ConcatLine
<1>10. b.played \o ls \in Seq(Line)
  BY <1>2, <1>5, ConcatTail
<1>11. /\ b.stops \o ss \in Seq(Stop)
       /\ Len(b.stops \o ss) = Len(b.stops) + Len(ss)
       /\ \A i \in 1 .. Len(ss) : (b.stops \o ss)[Len(b.stops) + i] = ss[i]
  BY <1>2, <1>8, ConcatStop
<1>12. Step(b, m, md) = [log |-> b.log \o ls, played |-> b.played \o ls,
                        stops |-> b.stops \o ss, rng |-> t.rng,
                        over |-> t.segs[Len(t.segs)].kind = "Over"]
  BY DEF Step, t, ls, ss
<1>13. Step(b, m, md) \in Battle
  BY <1>1, <1>9, <1>10, <1>11, <1>12 DEF Battle
<1>14. /\ Len(Step(b, m, md).log) = Len(b.log) + Len(t.segs)
       /\ \A i \in 1 .. Len(b.log) : Step(b, m, md).log[i] = b.log[i]
       /\ \A i \in 1 .. Len(t.segs) : Step(b, m, md).log[Len(b.log) + i] = t.segs[i].line
  <2>1. Step(b, m, md).log = b.log \o ls
    BY <1>12
  <2> QED
    BY <1>5, <1>9, <2>1
<1>15. /\ Len(Step(b, m, md).stops) = Len(b.stops) + n
       /\ \A i \in 1 .. n :
             Step(b, m, md).stops[Len(b.stops) + i] = StopAt(t.segs[i], Len(b.log) + i)
  <2>1. Step(b, m, md).stops = b.stops \o ss
    BY <1>12
  <2> QED
    BY <1>8, <1>11, <2>1
<1>16. Step(b, m, md).over = (t.segs[Len(t.segs)].kind = "Over")
  BY <1>12
<1>17. Step(b, m, md).rng = t.rng
  BY <1>12
<1> QED
  BY <1>1, <1>13, <1>14, <1>15, <1>16, <1>17 DEF t, n

-----------------------------------------------------------------------------
(* What committing or pausing does to the session. *)

\* The stops of a rerun that are still to be answered: the one after the
\* answers given, if the turn makes that many, and the turn's own stop.
LEMMA OpenStops ==
    ASSUME NEW b \in Battle, NEW m \in JointMain, NEW md \in MidHistory
    PROVE  LET t == Turn(b.rng, m, md)
               c == Step(b, m, md)
               k0 == Len(b.stops)
               k == Len(md) + 1
           IN  /\ Unanswered(c, k0, md) = IF k < Len(t.segs) THEN {k0 + k} ELSE {}
               /\ {i \in k0 + 1 .. Len(c.stops) : c.stops[i].kind # "MidTurn"}
                     = IF c.over THEN {} ELSE {k0 + Len(t.segs)}
<1> DEFINE t == Turn(b.rng, m, md)
           c == Step(b, m, md)
           k0 == Len(b.stops)
           T == Len(t.segs)
           n == IF t.segs[T].kind = "Over" THEN T - 1 ELSE T
<1>1. /\ T \in 1 .. MaxMid + 1
      /\ Len(c.stops) = k0 + n
      /\ \A i \in 1 .. n : c.stops[k0 + i] = StopAt(t.segs[i], Len(b.log) + i)
      /\ c.over <=> (t.segs[T].kind = "Over")
  BY StepShape
<1>2. \A i \in 1 .. T : (t.segs[i].kind = "MidTurn") <=> (i < T)
  BY TurnShape DEF Battle
<1>3. k0 \in Nat /\ T \in Nat /\ T >= 1 /\ Len(md) \in Nat
  <2>1. k0 \in Nat
    BY LenProperties DEF Battle
  <2>2. Len(md) \in Nat
    <3>1. PICK j \in 0 .. MaxMid : md \in [1 .. j -> JointPick]
      BY DEF MidHistory
    <3> QED
      BY <3>1, SeqOfFcn, SidesAssumption
  <2> QED
    BY <1>1, <2>1, <2>2, SidesAssumption
<1>4. n \in Nat /\ T - 1 =< n /\ n =< T
  BY <1>3
<1>5. ASSUME NEW i \in k0 + 1 .. Len(c.stops)
      PROVE  (c.stops[i].kind = "MidTurn") <=> (i < k0 + T)
  <2> HIDE DEF t, c, k0, T, n
  <2>1. i - k0 \in 1 .. n /\ i - k0 \in 1 .. T /\ k0 + (i - k0) = i
    BY <1>1, <1>3, <1>4
  <2>2. c.stops[i] = StopAt(t.segs[i - k0], Len(b.log) + (i - k0))
    BY <1>1, <2>1
  <2>3. c.stops[i].kind = t.segs[i - k0].kind
    BY <2>2 DEF StopAt
  <2>4. (t.segs[i - k0].kind = "MidTurn") <=> (i - k0 < T)
    BY <1>2, <2>1
  <2>5. i \in Int
    BY <1>1, <1>3, <1>4
  <2> QED
    BY <1>3, <2>3, <2>4, <2>5
<1> HIDE DEF t, c, k0, T, n
<1> DEFINE mids(j) == {i \in k0 + 1 .. j : c.stops[i].kind = "MidTurn"}
<1>6. ASSUME NEW j \in k0 + 1 .. Len(c.stops), j < k0 + T
      PROVE  Cardinality(mids(j)) = j - k0
  <2>1. mids(j) = k0 + 1 .. j
    BY <1>1, <1>3, <1>4, <1>5, <1>6
  <2>2. k0 + 1 \in Int /\ j \in Int /\ ~(k0 + 1 > j) /\ j - (k0 + 1) + 1 = j - k0
    BY <1>1, <1>3, <1>4
  <2>3. Cardinality(k0 + 1 .. j) = IF k0 + 1 > j THEN 0 ELSE j - (k0 + 1) + 1
    BY <2>2, FS_Interval
  <2> HIDE DEF mids
  <2> QED
    BY <2>1, <2>2, <2>3
<1>7. mids(Len(c.stops)) = k0 + 1 .. k0 + T - 1
  BY <1>1, <1>3, <1>4, <1>5
<1>8. ASSUME NEW i \in mids(Len(c.stops))
      PROVE  Cardinality(mids(i)) = i - k0
  <2>1. i \in k0 + 1 .. Len(c.stops) /\ i < k0 + T
    BY <1>1, <1>3, <1>4, <1>7
  <2> HIDE DEF mids
  <2> QED
    BY <1>6, <2>1
<1> DEFINE U == {i \in mids(Len(c.stops)) : Cardinality(mids(i)) = Len(md) + 1}
<1>9. U = Unanswered(c, k0, md)
  BY DEF Unanswered
<1>10. U = {i \in mids(Len(c.stops)) : i - k0 = Len(md) + 1}
  BY <1>8
<1>11. U = IF Len(md) + 1 < T THEN {k0 + (Len(md) + 1)} ELSE {}
  BY <1>3, <1>7, <1>10
<1>12. {i \in k0 + 1 .. Len(c.stops) : c.stops[i].kind # "MidTurn"}
          = IF c.over THEN {} ELSE {k0 + T}
  <2>1. {i \in k0 + 1 .. Len(c.stops) : c.stops[i].kind # "MidTurn"}
          = {i \in k0 + 1 .. Len(c.stops) : ~(i < k0 + T)}
    BY <1>5
  <2>2. n = IF c.over THEN T - 1 ELSE T
    BY <1>1 DEF n
  <2> QED
    BY <1>1, <1>3, <2>1, <2>2
<1> QED
  BY <1>9, <1>11, <1>12 DEF t, c, k0, T

\* The session stands at the stop `sp` of `b`, and its turn is over.
Reach(b, sp) ==
    /\ raw' = Expose(b, sp.line)
    /\ stop' = sp /\ open' = sp.open /\ maybe' = sp.maybe
    /\ newRequests' = TRUE /\ ended' = ended
    /\ base' = b /\ shown' = NoBattle
    /\ main' = Nobody /\ mid' = <<>>

\* `b` is played out.
Finish(b) ==
    /\ raw' = Expose(b, Len(b.log))
    /\ ended' = TRUE /\ open' = {}
    /\ stop' = stop /\ maybe' = maybe /\ newRequests' = newRequests
    /\ base' = b /\ shown' = NoBattle
    /\ main' = Nobody /\ mid' = <<>>

\* `b` waits for a pick at `sp`; its turn stays open.
Pause(b, sp, m, md) ==
    /\ raw' = Expose(b, sp.line)
    /\ stop' = sp /\ open' = sp.open /\ maybe' = sp.maybe
    /\ newRequests' = TRUE /\ ended' = ended
    /\ base' = base /\ shown' = b
    /\ main' = m /\ mid' = md

\* `run`: the turn pauses at the first stop its picks do not answer, or is
\* played to its end.
LEMMA RunEffect ==
    ASSUME base \in Battle, NEW m \in JointMain, NEW md \in MidHistory, Run(m, md)
    PROVE  LET t == Turn(base.rng, m, md)
               b == Step(base, m, md)
               k == Len(md) + 1
               T == Len(t.segs)
           IN  /\ b \in Battle /\ k \in Nat /\ T \in Nat \ {0} /\ T =< MaxMid + 1
               /\ \/ k < T /\ Pause(b, StopAt(t.segs[k], Len(base.log) + k), m, md)
                  \/ k >= T /\ t.segs[T].kind # "Over"
                     /\ Reach(b, StopAt(t.segs[T], Len(base.log) + T))
                  \/ k >= T /\ t.segs[T].kind = "Over" /\ Finish(b)
<1> DEFINE t == Turn(base.rng, m, md)
           b == Step(base, m, md)
           k == Len(md) + 1
           T == Len(t.segs)
           k0 == Len(base.stops)
           W == Unanswered(b, k0, md)
           L == {i \in k0 + 1 .. Len(b.stops) : b.stops[i].kind # "MidTurn"}
<1>1. /\ b \in Battle /\ T \in 1 .. MaxMid + 1
      /\ \A i \in 1 .. T : (i < T \/ ~b.over) =>
            b.stops[k0 + i] = StopAt(t.segs[i], Len(base.log) + i)
      /\ b.over <=> (t.segs[T].kind = "Over")
  <2> DEFINE n == IF t.segs[T].kind = "Over" THEN T - 1 ELSE T
  <2>1. /\ b \in Battle /\ T \in 1 .. MaxMid + 1
        /\ \A i \in 1 .. n : b.stops[k0 + i] = StopAt(t.segs[i], Len(base.log) + i)
        /\ b.over <=> (t.segs[T].kind = "Over")
    BY StepShape
  <2> HIDE DEF t, b, T, k0
  <2>2. T \in Int /\ T >= 1
    BY <2>1, SidesAssumption
  <2>3. ASSUME NEW i \in 1 .. T, i < T \/ ~b.over PROVE i \in 1 .. n
    BY <2>1, <2>2, <2>3
  <2> QED
    BY <2>1, <2>3
<1>2. /\ W = IF k < T THEN {k0 + k} ELSE {}
      /\ L = IF b.over THEN {} ELSE {k0 + T}
  BY OpenStops
<1>3. k \in Nat /\ k >= 1 /\ T \in Nat \ {0} /\ T >= 1 /\ T =< MaxMid + 1
  <2>1. PICK j \in 0 .. MaxMid : md \in [1 .. j -> JointPick]
    BY DEF MidHistory
  <2>2. Len(md) \in Nat
    BY <2>1, SeqOfFcn, SidesAssumption
  <2> QED
    BY <1>1, <2>2, SidesAssumption
<1>4. Settle(b, k0, m, md, TRUE)
  BY DEF Run
<1> DEFINE Outcome ==
             \/ k < T /\ Pause(b, StopAt(t.segs[k], Len(base.log) + k), m, md)
             \/ k >= T /\ t.segs[T].kind # "Over"
                /\ Reach(b, StopAt(t.segs[T], Len(base.log) + T))
             \/ k >= T /\ t.segs[T].kind = "Over" /\ Finish(b)
<1>a. SUFFICES Outcome
  <2>1. b \in Battle /\ k \in Nat /\ T \in Nat \ {0} /\ T =< MaxMid + 1 /\ Outcome
    BY <1>1, <1>3, <1>a
  <2> QED
    BY <2>1, Zenon
<1> HIDE DEF t, b, k, T, k0
<1>5. CASE k < T
  <2>1. W # {} /\ (CHOOSE i \in W : TRUE) = k0 + k
    BY <1>2, <1>5
  <2>2. StopMidTurn(b, b.stops[k0 + k]) /\ main' = m /\ mid' = md
    BY <1>4, <2>1 DEF Settle
  <2>3. b.stops[k0 + k] = StopAt(t.segs[k], Len(base.log) + k)
    BY <1>1, <1>3, <1>5
  <2>4. Pause(b, StopAt(t.segs[k], Len(base.log) + k), m, md)
    BY <2>2, <2>3 DEF StopMidTurn, Pause
  <2> QED
    BY <1>5, <2>4
<1>6. CASE ~(k < T)
  <2>1. Commit(b, L) /\ main' = Nobody /\ mid' = <<>>
    BY <1>2, <1>4, <1>6 DEF Settle
  <2>2. k >= T
    BY <1>3, <1>6
  <2>3. CASE b.over
    <3>1. Finish(b)
      BY <2>1, <2>3 DEF Commit, Finish
    <3> QED
      BY <1>1, <2>2, <2>3, <3>1
  <2>4. CASE ~b.over
    <3>1. L # {} /\ (CHOOSE i \in L : \A j \in L : j =< i) = k0 + T
      <4>1. L = {k0 + T} /\ k0 + T \in Int
        BY <1>2, <1>3, <2>4, LenProperties DEF k0, Battle
      <4>2. \A i \in L : i = k0 + T
        BY <4>1
      <4>3. \E i \in L : \A j \in L : j =< i
        BY <4>1
      <4> HIDE DEF L
      <4> QED
        BY <4>1, <4>2, <4>3
    <3> HIDE DEF L
    <3>2. b.stops[k0 + T] = StopAt(t.segs[T], Len(base.log) + T)
      BY <1>1, <1>3, <2>4
    <3>3. Reach(b, b.stops[k0 + T])
      BY <2>1, <2>4, <3>1 DEF Commit, Reach
    <3>4. Reach(b, StopAt(t.segs[T], Len(base.log) + T)) /\ t.segs[T].kind # "Over"
      BY <1>1, <2>4, <3>2, <3>3
    <3> QED
      BY <2>2, <3>4
  <2> QED
    BY <2>3, <2>4
<1> QED
  BY <1>5, <1>6

\* The battle built from team picks stands past the preview, at turn 1.
LEMMA BuilderShape ==
    ASSUME NEW picks \in Joint
    PROVE  LET b == Builder(picks)
               o == Opening(Seed, picks)
           IN  /\ b \in Battle /\ ~b.over
               /\ Len(b.log) = 2 /\ b.log[1] = Preview /\ b.log[2] = o.seg.line
               /\ Len(b.stops) = 2
               /\ b.stops[1] = StopAt(PreviewSeg, 1)
               /\ b.stops[2] = StopAt(o.seg, 2)
               /\ b.rng = o.rng
<1> DEFINE o == Opening(Seed, picks)
           b == Builder(picks)
<1>1. o.seg \in Segment /\ o.seg.kind = "Move" /\ o.seg.open # {} /\ o.rng \in Rng
  BY OpeningShape, SessionAssumption
<1>2. PreviewSeg.line \in Line /\ StopAt(PreviewSeg, 1) \in Stop
  BY SidesAssumption DEF PreviewSeg, StopAt, Stop, StopKind
<1>3. o.seg.line \in Line /\ StopAt(o.seg, 2) \in Stop
  BY <1>1 DEF Segment, StopAt, Stop, StopKind
<1> HIDE DEF o
<1>4. Lines(<<PreviewSeg, o.seg>>) = <<PreviewSeg.line, o.seg.line>>
  BY DEF Lines
<1>5. StopsOf(<<PreviewSeg, o.seg>>, 0) = <<StopAt(PreviewSeg, 1), StopAt(o.seg, 2)>>
  <2>1. <<PreviewSeg, o.seg>>[Len(<<PreviewSeg, o.seg>>)].kind # "Over" /\ Len(<<PreviewSeg, o.seg>>) = 2
    BY <1>1
  <2>2. StopsOf(<<PreviewSeg, o.seg>>, 0) = [i \in 1 .. 2 |-> StopAt(<<PreviewSeg, o.seg>>[i], 0 + i)]
    BY <2>1 DEF StopsOf
  <2> QED
    BY <2>2
<1>6. b = [log |-> <<PreviewSeg.line, o.seg.line>>, played |-> <<PreviewSeg.line, o.seg.line>>,
           stops |-> <<StopAt(PreviewSeg, 1), StopAt(o.seg, 2)>>, rng |-> o.rng, over |-> FALSE]
  BY <1>4, <1>5 DEF Builder, Built, o
<1>7. <<PreviewSeg.line, o.seg.line>> \in Seq(Line)
      /\ <<StopAt(PreviewSeg, 1), StopAt(o.seg, 2)>> \in Seq(Stop)
  BY <1>2, <1>3
<1>8. PreviewSeg.line = Preview
  BY DEF PreviewSeg
<1> HIDE DEF b
<1>9. b \in Battle
  BY <1>1, <1>6, <1>7 DEF Battle
<1> QED
  BY <1>6, <1>8, <1>9 DEF b, o

\* The battle built without a preview stands at its first turn.
LEMMA NoPreviewShape ==
    LET o == Opening(Seed, Nobody)
    IN  /\ NoPreview \in Battle /\ ~NoPreview.over
        /\ Len(NoPreview.log) = 1 /\ NoPreview.log[1] = o.seg.line
        /\ NoPreview.stops[1] = StopAt(o.seg, 1) /\ NoPreview.rng = o.rng
        /\ StopAt(o.seg, 1) \in Stop /\ o.seg.kind = "Move" /\ o.seg.open # {}
<1> DEFINE o == Opening(Seed, Nobody)
<1>1. o.seg \in Segment /\ o.seg.kind = "Move" /\ o.seg.open # {} /\ o.rng \in Rng
  <2>1. Nobody \in Joint
    BY DEF Nobody, Joint
  <2> QED
    BY <2>1, OpeningShape, SessionAssumption
<1>2. o.seg.line \in Line /\ StopAt(o.seg, 1) \in Stop
  BY <1>1 DEF Segment, StopAt, Stop, StopKind
<1> HIDE DEF o
<1>3. Lines(<<o.seg>>) = <<o.seg.line>>
  BY DEF Lines
<1>4. StopsOf(<<o.seg>>, 0) = <<StopAt(o.seg, 1)>>
  <2>1. <<o.seg>>[Len(<<o.seg>>)].kind # "Over" /\ Len(<<o.seg>>) = 1
    BY <1>1
  <2>2. StopsOf(<<o.seg>>, 0) = [i \in 1 .. 1 |-> StopAt(<<o.seg>>[i], 0 + i)]
    BY <2>1 DEF StopsOf
  <2> QED
    BY <2>2
<1>5. NoPreview = [log |-> <<o.seg.line>>, played |-> <<o.seg.line>>,
                   stops |-> <<StopAt(o.seg, 1)>>, rng |-> o.rng, over |-> FALSE]
  BY <1>3, <1>4 DEF NoPreview, Built, o
<1>6. <<o.seg.line>> \in Seq(Line) /\ <<StopAt(o.seg, 1)>> \in Seq(Stop)
  BY <1>2
<1>7. NoPreview \in Battle
  BY <1>1, <1>5, <1>6 DEF Battle
<1> QED
  BY <1>1, <1>2, <1>5, <1>7 DEF o

\* Team picks take the battle from the preview to the first turn.
LEMMA PreviewEffect ==
    ASSUME NEW ans \in Joint, NEW m, NEW md, Settle(Builder(ans), 1, m, md, FALSE)
    PROVE  LET o == Opening(Seed, ans)
           IN  /\ Reach(Builder(ans), StopAt(o.seg, 2))
               /\ StopAt(o.seg, 2) \in Stop /\ o.seg.kind = "Move" /\ o.seg.open # {}
<1> DEFINE o == Opening(Seed, ans)
           b == Builder(ans)
           L == {i \in 2 .. Len(b.stops) : b.stops[i].kind # "MidTurn"}
<1>1. o.seg \in Segment /\ o.seg.kind = "Move" /\ o.seg.open # {}
  BY OpeningShape, SessionAssumption
<1>2. /\ ~b.over /\ Len(b.stops) = 2
      /\ b.stops[2] = StopAt(o.seg, 2)
  BY BuilderShape
<1>3. Commit(b, L) /\ main' = Nobody /\ mid' = <<>>
  BY DEF Settle
<1> HIDE DEF o, b
<1>4. b.stops[2].kind = "Move"
  BY <1>1, <1>2 DEF StopAt
<1>5. L # {} /\ (CHOOSE i \in L : \A j \in L : j =< i) = 2
  <2>1. L = {2}
    BY <1>2, <1>4
  <2>2. \E i \in L : \A j \in L : j =< i
    BY <2>1
  <2> HIDE DEF L
  <2> QED
    BY <2>1, <2>2
<1> HIDE DEF L
<1>6. Reach(b, b.stops[2])
  BY <1>2, <1>3, <1>5 DEF Commit, Reach
<1>7. StopAt(o.seg, 2) \in Stop
  BY <1>1 DEF Segment, StopAt, Stop, StopKind
<1> QED
  BY <1>1, <1>2, <1>6, <1>7 DEF o, b

-----------------------------------------------------------------------------
(* Types. *)

\* The answers on file answer the stop the session stands at, and a turn
\* that waits for a pick has room for it.
TypeInv ==
    /\ TypeOK
    /\ ~ended /\ stop.kind = "MidTurn" => Len(mid) < MaxMid
    /\ ~ended => \A s \in Sides : answered[s] \in AnswerAt(stop.kind) \cup {None}

\* How any joint answer leaves the session.
Settled ==
    /\ base' \in Battle /\ shown' \in Battle /\ stop' \in Stop
    /\ open' \subseteq Sides /\ maybe' \subseteq Sides
    /\ main' \in JointMain /\ mid' \in MidHistory
    /\ raw' \in Seq(Line) /\ newRequests' \in BOOLEAN /\ ended' \in BOOLEAN
    /\ ~ended' /\ stop'.kind = "MidTurn" => Len(mid') < MaxMid
    /\ IF ended' THEN open' = {} ELSE open' = stop'.open /\ open' # {}

LEMMA NobodyTyped ==
    Nobody \in Joint /\ Nobody \in JointMain /\ <<>> \in MidHistory /\ NoBattle \in Battle
<1>1. <<>> \in MidHistory
  <2>1. <<>> \in [1 .. 0 -> JointPick] /\ 0 \in 0 .. MaxMid
    BY SidesAssumption
  <2> QED
    BY <2>1 DEF MidHistory
<1>2. <<>> \in Seq(Line) /\ <<>> \in Seq(Stop)
  BY EmptySeq
<1> QED
  BY <1>1, <1>2, SessionAssumption DEF Nobody, Joint, JointMain, NoBattle, Battle

\* Exposing lines of a log adds lines.
LEMMA ExposeTyped ==
    ASSUME NEW b \in Battle, raw \in Seq(Line), NEW n \in Nat, n =< Len(b.log)
    PROVE  Expose(b, n) \in Seq(Line)
<1>1. b.log \in Seq(Line) /\ Len(b.log) \in Nat /\ Len(raw) \in Nat
  BY LenProperties DEF Battle
<1>2. \A i \in Len(raw) + 1 .. n : b.log[i] \in Line
  BY <1>1, ElementOfSeq
<1>3. SubSeq(b.log, Len(raw) + 1, n) \in Seq(Line)
  BY <1>1, <1>2, SubSeqProperties
<1> QED
  BY <1>3, ConcatLine DEF Expose

\* A run of a turn leaves the session settled.
LEMMA RunTyped ==
    ASSUME TypeOK, ~ended, NEW m \in JointMain, NEW md \in MidHistory, Run(m, md)
    PROVE  Settled
<1> DEFINE t == Turn(base.rng, m, md)
           b == Step(base, m, md)
           k == Len(md) + 1
           T == Len(t.segs)
           at == Len(base.log)
<1>1. base \in Battle /\ raw \in Seq(Line)
  BY DEF TypeOK
<1>2. /\ b \in Battle /\ k \in Nat /\ T \in Nat \ {0} /\ T =< MaxMid + 1
      /\ \/ k < T /\ Pause(b, StopAt(t.segs[k], at + k), m, md)
         \/ k >= T /\ t.segs[T].kind # "Over" /\ Reach(b, StopAt(t.segs[T], at + T))
         \/ k >= T /\ t.segs[T].kind = "Over" /\ Finish(b)
  BY <1>1, RunEffect
<1>3. /\ t.segs \in Seq(Segment) /\ Len(b.log) = at + T
  BY <1>1, StepShape
<1>4. \A i \in 1 .. T : /\ (t.segs[i].kind = "MidTurn") <=> (i < T)
                        /\ t.segs[i].kind # "Over" => t.segs[i].open # {}
  <2>1. base.rng \in Rng
    BY <1>1 DEF Battle
  <2>2. \A i \in 1 .. Len(t.segs) :
           /\ (t.segs[i].kind = "MidTurn") <=> (i < Len(t.segs))
           /\ t.segs[i].kind # "Over" => t.segs[i].open # {}
    BY <2>1, TurnShape
  <2> HIDE DEF t
  <2> QED
    BY <2>2
<1>5. at \in Nat /\ k >= 1 /\ Len(b.log) \in Nat /\ Len(md) \in Nat
  <2>1. PICK j \in 0 .. MaxMid : md \in [1 .. j -> JointPick]
    BY DEF MidHistory
  <2>2. Len(md) \in Nat
    BY <2>1, SeqOfFcn, SidesAssumption
  <2> QED
    BY <1>1, <1>2, <2>2, LenProperties DEF Battle
<1> HIDE DEF t, b, T, at
<1>6. ASSUME NEW i \in 1 .. T, t.segs[i].kind # "Over"
      PROVE  /\ StopAt(t.segs[i], at + i) \in Stop /\ t.segs[i].open # {}
             /\ StopAt(t.segs[i], at + i).open = t.segs[i].open
             /\ StopAt(t.segs[i], at + i).kind = t.segs[i].kind
             /\ StopAt(t.segs[i], at + i).line = at + i
             /\ at + i =< Len(b.log) /\ at + i \in Nat
  <2>1. t.segs[i] \in Segment
    BY <1>3, ElementOfSeq DEF T
  <2>2. t.segs[i].open \in SUBSET Sides /\ t.segs[i].maybe \in SUBSET Sides /\ t.segs[i].kind \in StopKind
    BY <1>6, <2>1 DEF Segment
  <2>3. at + i =< Len(b.log) /\ at + i \in Nat
    BY <1>2, <1>3, <1>5
  <2> QED
    BY <1>4, <1>6, <2>2, <2>3 DEF StopAt, Stop
<1>7. NoBattle \in Battle /\ Nobody \in JointMain /\ <<>> \in MidHistory /\ Len(<<>>) = 0
  BY NobodyTyped
<1>8. CASE k < T /\ Pause(b, StopAt(t.segs[k], at + k), m, md)
  <2> DEFINE sp == StopAt(t.segs[k], at + k)
  <2>1. k \in 1 .. T
    BY <1>2, <1>5, <1>8
  <2>2. t.segs[k].kind = "MidTurn"
    BY <1>4, <1>8, <2>1
  <2>3. sp \in Stop /\ sp.open # {} /\ sp.line =< Len(b.log) /\ sp.line \in Nat
    BY <1>6, <2>1, <2>2
  <2>4. Expose(b, sp.line) \in Seq(Line)
    BY <1>1, <1>2, <2>3, ExposeTyped
  <2>5. Len(md) < MaxMid
    BY <1>2, <1>5, <1>8, SidesAssumption
  <2> HIDE DEF sp
  <2>6. sp.open \subseteq Sides /\ sp.maybe \subseteq Sides
    BY <2>3 DEF Stop
  <2>7. Pause(b, sp, m, md)
    BY <1>8 DEF sp
  <2> QED
    BY <1>1, <1>2, <2>3, <2>4, <2>5, <2>6, <2>7 DEF Pause, Settled, TypeOK
<1>9. CASE k >= T /\ t.segs[T].kind # "Over" /\ Reach(b, StopAt(t.segs[T], at + T))
  <2> DEFINE sp == StopAt(t.segs[T], at + T)
  <2>1. T \in 1 .. T
    BY <1>2
  <2>2. sp \in Stop /\ sp.open # {} /\ sp.line =< Len(b.log) /\ sp.line \in Nat /\ sp.kind # "MidTurn"
    BY <1>2, <1>4, <1>6, <1>9, <2>1
  <2>3. Expose(b, sp.line) \in Seq(Line)
    BY <1>1, <1>2, <2>2, ExposeTyped
  <2> HIDE DEF sp
  <2>4. sp.open \subseteq Sides /\ sp.maybe \subseteq Sides
    BY <2>2 DEF Stop
  <2>5. Reach(b, sp)
    BY <1>9 DEF sp
  <2> QED
    BY <1>1, <1>2, <1>7, <2>2, <2>3, <2>4, <2>5 DEF Reach, Settled, TypeOK
<1>10. CASE k >= T /\ t.segs[T].kind = "Over" /\ Finish(b)
  <2>1. Expose(b, Len(b.log)) \in Seq(Line)
    BY <1>1, <1>2, <1>5, ExposeTyped
  <2> QED
    BY <1>1, <1>2, <1>7, <1>10, <2>1 DEF Finish, Settled, TypeOK
<1> QED
  BY <1>2, <1>8, <1>9, <1>10

\* A joint answer to the stop the session stands at.
AnswersTo(ans) == ans \in Joint /\ \A s \in Sides : ans[s] \in AnswerAt(stop.kind) \cup {None}

\* How the battle takes a joint answer: a preview builds it, a turn's answer
\* runs the turn, and a mid-turn answer runs it again with one pick more.
LEMMA PlayEffect ==
    ASSUME TypeInv, ~ended, NEW ans, AnswersTo(ans), PlayAnswers(ans, <<>>, mid)
    PROVE  \/ stop.kind = "TeamPreview" /\ Settle(Builder(ans), 1, main, mid, FALSE)
           \/ stop.kind \in {"Move", "Replace"} /\ ans \in JointMain /\ Run(ans, <<>>)
           \/ /\ stop.kind = "MidTurn"
              /\ ans \in JointPick /\ Append(mid, ans) \in MidHistory
              /\ Len(mid) \in Nat /\ Len(Append(mid, ans)) = Len(mid) + 1
              /\ Run(main, Append(mid, ans))
<1>1. stop.kind \in StopKind
  BY DEF TypeInv, TypeOK, Stop
<1>2. CASE stop.kind = "TeamPreview"
  BY <1>2 DEF PlayAnswers
<1>3. CASE stop.kind \in {"Move", "Replace"}
  <2>1. AnswerAt(stop.kind) \subseteq MainAnswer \cup Pick
    BY <1>3 DEF AnswerAt
  <2>2. ans \in [Sides -> MainAnswer \cup Pick \cup {None}]
    BY <2>1 DEF AnswersTo, Joint
  <2>3. Run(ans, <<>>)
    BY <1>3 DEF PlayAnswers
  <2> QED
    BY <1>3, <2>2, <2>3 DEF JointMain
<1>4. CASE stop.kind = "MidTurn"
  <2>1. AnswerAt(stop.kind) = Pick \cup {Pass}
    BY <1>4 DEF AnswerAt
  <2>2. ans \in JointPick
    BY <2>1 DEF AnswersTo, Joint, JointPick
  <2>3. PICK n \in 0 .. MaxMid : mid \in [1 .. n -> JointPick]
    BY DEF TypeInv, TypeOK, MidHistory
  <2>4. mid \in Seq(JointPick) /\ Len(mid) = n
    BY <2>3, SeqOfFcn, SidesAssumption
  <2>5. n + 1 \in 0 .. MaxMid
    BY <1>4, <2>3, <2>4, SidesAssumption DEF TypeInv
  <2>6. Append(mid, ans) \in Seq(JointPick) /\ Len(Append(mid, ans)) = n + 1
    BY <2>2, <2>4, AppendProperties
  <2>7. Append(mid, ans) \in [1 .. n + 1 -> JointPick]
    BY <2>6, LenProperties
  <2>8. Append(mid, ans) \in MidHistory
    BY <2>5, <2>7 DEF MidHistory
  <2>9. Run(main, Append(mid, ans))
    BY <1>4 DEF PlayAnswers
  <2> QED
    BY <1>4, <2>2, <2>3, <2>4, <2>6, <2>8, <2>9
<1> QED
  BY <1>1, <1>2, <1>3, <1>4 DEF StopKind

\* Any joint answer leaves the session settled.
LEMMA PlayTyped ==
    ASSUME TypeInv, ~ended, NEW ans, AnswersTo(ans), PlayAnswers(ans, <<>>, mid)
    PROVE  Settled
<1>1. TypeOK /\ main \in JointMain /\ <<>> \in MidHistory /\ ans \in Joint
  BY NobodyTyped DEF TypeInv, TypeOK, AnswersTo
<1>2. CASE Settle(Builder(ans), 1, main, mid, FALSE)
  <2> DEFINE o == Opening(Seed, ans)
             sp == StopAt(o.seg, 2)
             b == Builder(ans)
  <2>1. Reach(b, sp) /\ sp \in Stop /\ o.seg.kind = "Move" /\ o.seg.open # {}
    BY <1>1, <1>2, PreviewEffect
  <2>2. b \in Battle /\ Len(b.log) = 2
    BY <1>1, BuilderShape
  <2>3. sp.line = 2 /\ sp.open # {} /\ sp.kind = "Move"
    BY <2>1 DEF StopAt
  <2> HIDE DEF o, sp, b
  <2>4. Expose(b, sp.line) \in Seq(Line)
    <3>1. raw \in Seq(Line) /\ sp.line \in Nat /\ sp.line =< Len(b.log)
      BY <1>1, <2>2, <2>3 DEF TypeOK
    <3> QED
      BY <2>2, <3>1, ExposeTyped
  <2>5. sp.open \subseteq Sides /\ sp.maybe \subseteq Sides
    BY <2>1 DEF Stop
  <2>6. ended \in BOOLEAN
    BY <1>1 DEF TypeOK
  <2> QED
    BY <2>1, <2>2, <2>3, <2>4, <2>5, <2>6, NobodyTyped DEF Reach, Settled
<1>3. CASE ans \in JointMain /\ Run(ans, <<>>)
  BY <1>1, <1>3, RunTyped
<1>4. CASE Append(mid, ans) \in MidHistory /\ Run(main, Append(mid, ans))
  BY <1>1, <1>4, RunTyped
<1> QED
  BY <1>2, <1>3, <1>4, PlayEffect

\* The answers on file and one more make a joint answer to the stop.
LEMMA LastAnswer ==
    ASSUME TypeInv, NEW s \in Sides, NEW a \in AnswerAt(stop.kind), ~ended
    PROVE  AnswersTo([answered EXCEPT ![s] = a])
<1>1. stop.kind \in StopKind
  BY DEF TypeInv, TypeOK, Stop
<1>2. a \in Answers
  BY <1>1 DEF AnswerAt, Answers, StopKind
<1> QED
  BY <1>2 DEF TypeInv, TypeOK, AnswersTo, Joint

LEMMA InitTyped == Init => TypeInv
<1> SUFFICES ASSUME Init PROVE TypeInv
  OBVIOUS
<1>1. Nobody \in Joint /\ Nobody \in JointMain /\ <<>> \in MidHistory /\ NoBattle \in Battle
  BY NobodyTyped
<1>2. base \in Battle /\ base.stops[1] \in Stop /\ base.stops[1].kind # "MidTurn"
      /\ base.stops[1].line = 1 /\ Len(base.log) >= 1
  <2>1. CASE base = Builder(Nobody)
    <3>1. StopAt(PreviewSeg, 1) \in Stop
      BY DEF StopAt, PreviewSeg, Stop, StopKind
    <3>2. StopAt(PreviewSeg, 1).kind = "TeamPreview" /\ StopAt(PreviewSeg, 1).line = 1
      BY DEF StopAt, PreviewSeg
    <3> QED
      BY <1>1, <2>1, <3>1, <3>2, BuilderShape
  <2>2. CASE base = NoPreview
    <3> DEFINE o == Opening(Seed, Nobody)
    <3>1. StopAt(o.seg, 1).kind = o.seg.kind /\ StopAt(o.seg, 1).line = 1
      BY DEF StopAt
    <3> QED
      BY <2>2, <3>1, NoPreviewShape
  <2> QED
    BY <2>1, <2>2 DEF Init
<1>3. SubSeq(base.log, 1, 1) \in Seq(Line)
  <2>1. base.log \in Seq(Line) /\ Len(base.log) \in Nat
    BY <1>2, LenProperties DEF Battle
  <2> QED
    BY <1>2, <2>1, PrefixOf
<1>4. stop = base.stops[1] /\ stop.open \subseteq Sides /\ stop.maybe \subseteq Sides
  BY <1>2 DEF Init, Stop
<1>5. TypeOK
  BY <1>1, <1>2, <1>3, <1>4 DEF Init, TypeOK
<1> QED
  BY <1>2, <1>4, <1>5 DEF Init, TypeInv, Nobody

\* A choice moves the battle on only when it is the last one.
LEMMA AcceptCases ==
    ASSUME NEW s \in Sides, NEW a \in AnswerAt(stop.kind), NEW hides \in BOOLEAN,
           Accept(s, a, hides)
    PROVE  /\ ~ended /\ s \in open /\ s \notin cantUndo
           /\ \/ /\ ~(\A r \in open : r = s \/ answered[r] # None)
                 /\ File(s, a, hides \/ ~CancelMod)
                 /\ rejected' = rejected \ {s}
                 /\ UNCHANGED <<base, shown, stop, open, maybe, main, mid, raw,
                                newRequests, inputLog, ended, commits, drained>>
              \/ /\ \A r \in open : r = s \/ answered[r] # None
                 /\ Advance([answered EXCEPT ![s] = a], [choiceText EXCEPT ![s] = a])
BY DEF Accept, Acceptable, MayChoose, FileOrAdvance

LEMMA TypeStep == TypeInv /\ [Next]_vars => TypeInv'
<1> SUFFICES ASSUME TypeInv, [Next]_vars PROVE TypeInv'
  OBVIOUS
<1> USE DEF TypeInv, TypeOK
<1>1. ASSUME NEW s \in Sides, NEW a \in AnswerAt(stop.kind), ~ended,
             answered' = [answered EXCEPT ![s] = a],
             choiceText' = [choiceText EXCEPT ![s] = a]
      PROVE  /\ answered' \in Joint /\ choiceText' \in Joint
             /\ \A r \in Sides : answered'[r] \in AnswerAt(stop.kind) \cup {None}
  <2>1. AnswersTo(answered')
    BY <1>1, LastAnswer
  <2>2. a \in Answers \cup {None}
    BY <1>1, <2>1 DEF AnswersTo, Joint
  <2> QED
    BY <1>1, <2>1, <2>2 DEF AnswersTo, Joint
<1>2. ASSUME NEW s \in Sides,
             answered' = [answered EXCEPT ![s] = None],
             choiceText' = [choiceText EXCEPT ![s] = None]
      PROVE  /\ answered' \in Joint /\ choiceText' \in Joint
             /\ ~ended => \A r \in Sides : answered'[r] \in AnswerAt(stop.kind) \cup {None}
  BY <1>2 DEF Joint
<1>3. ASSUME NEW s \in Sides, NEW a \in AnswerAt(stop.kind), NEW hides \in BOOLEAN,
             Accept(s, a, hides)
      PROVE  TypeInv'
  <2>1. CASE File(s, a, hides \/ ~CancelMod) /\ rejected' = rejected \ {s} /\ ~ended
             /\ UNCHANGED <<base, shown, stop, open, maybe, main, mid, raw,
                            newRequests, inputLog, ended, commits, drained>>
    BY <1>1, <2>1 DEF File
  <2>2. CASE ~ended /\ Advance([answered EXCEPT ![s] = a], [choiceText EXCEPT ![s] = a])
    <3> DEFINE ans == [answered EXCEPT ![s] = a]
    <3>1. AnswersTo(ans)
      BY <2>2, LastAnswer
    <3>2. /\ PlayAnswers(ans, <<>>, mid)
          /\ answered' = Nobody /\ choiceText' = Nobody /\ cantUndo' = {} /\ rejected' = {}
      BY <2>2 DEF Advance, Commitment
    <3> HIDE DEF ans
    <3>3. Settled
      BY <2>2, <3>1, <3>2, PlayTyped
    <3>4. \A r \in Sides : Nobody[r] = None
      BY DEF Nobody
    <3> QED
      BY <3>2, <3>3, <3>4, NobodyTyped DEF Settled
  <2> QED
    BY <1>3, <2>1, <2>2, AcceptCases
<1>4. ASSUME NEW s \in Sides, NEW a \in AnswerAt(stop.kind), NEW hides \in BOOLEAN,
             RefuseFilled(s, a, hides)
      PROVE  TypeInv'
  BY <1>1, <1>4 DEF RefuseFilled, Acceptable, MayChoose, File
<1>5. ASSUME NEW s \in Sides, Refuse(s) PROVE TypeInv'
  BY <1>2, <1>5 DEF Refuse, File
<1>6. ASSUME NEW s \in Sides, Undo(s) PROVE TypeInv'
  BY <1>2, <1>6 DEF Undo
<1>7. ASSUME NEW s \in Sides, Rebuff(s) PROVE TypeInv'
  BY <1>7 DEF Rebuff, vars
<1>8. ASSUME NEW v \in Verdict, End(v) PROVE TypeInv'
  <2> DEFINE b == IF shown # NoBattle THEN shown ELSE base
             n == IF Len(raw) < Len(b.log) THEN Len(raw) ELSE Len(b.log)
  <2>1. v \in Line /\ b \in Battle
    BY SessionAssumption
  <2>2. b.log \in Seq(Line) /\ Len(b.log) \in Nat /\ Len(raw) \in Nat
    BY <2>1, LenProperties DEF Battle
  <2>3. Cut(b.log, Len(raw)) \in Seq(Line)
    BY <2>2, PrefixOf DEF Cut
  <2>4. Append(Cut(b.log, Len(raw)), v) \in Seq(Line)
    BY <2>1, <2>3, AppendProperties
  <2>5. base' = [b EXCEPT !.log = Append(Cut(b.log, Len(raw)), v), !.over = TRUE]
    BY <1>8 DEF End
  <2>6. base' \in Battle
    BY <2>1, <2>4, <2>5 DEF Battle
  <2>7. base'.log \in Seq(Line) /\ Len(base'.log) \in Nat
    BY <2>6, LenProperties DEF Battle
  <2> HIDE DEF b
  <2>8. Expose(base', Len(base'.log)) \in Seq(Line)
    BY <2>6, <2>7, ExposeTyped
  <2> QED
    BY <1>8, <2>6, <2>8, NobodyTyped DEF End
<1>9. ASSUME NEW g \in Rng, Reseed(g) PROVE TypeInv'
  <2>1. base' \in Battle
    BY <1>9 DEF Reseed, Battle
  <2> QED
    BY <1>9, <2>1 DEF Reseed, history
<1>10. CASE TakeNewRequests
  BY <1>10 DEF TakeNewRequests, history
<1>11. CASE TakeInputLog
  BY <1>11 DEF TakeInputLog
<1>12. CASE UNCHANGED vars
  BY <1>12 DEF vars
<1> QED
  BY <1>3, <1>4, <1>5, <1>6, <1>7, <1>8, <1>9, <1>10, <1>11, <1>12 DEF Next, Choose

\* Every reachable session is typed: no order of choices, refusals, undos,
\* ends and reseeds puts a malformed value in the session's state.
THEOREM TypeCorrect == Spec => []TypeOK
<1>1. TypeInv /\ [Next]_vars => TypeInv'
  BY TypeStep
<1>2. TypeInv => TypeOK
  BY DEF TypeInv
<1> QED
  BY InitTyped, <1>1, <1>2, PTL DEF Spec

-----------------------------------------------------------------------------
(* Answers, and the commitments made of them. *)

Commitments == [ans : Joint, asked : SUBSET Sides]

\* Only sides asked have answered; the input log will say what they said.
AnswerInv ==
    /\ IF ended THEN open = {} ELSE open = stop.open /\ open # {}
    /\ ~ended => \A s \in Sides : answered[s] # None => s \in open
    /\ choiceText = answered
    /\ commits \in Seq(Commitments) /\ inputLog \in Seq(Joint) /\ drained \in Seq(Joint)

Decided ==
    /\ AnswerInv
    /\ EveryoneAskedAnswered
    /\ NobodyLockedOut
    /\ StallsOnlyAfterRefusal
    /\ InputLogIsHistory

\* A commitment extends the two histories in step.
LEMMA HistoryGrows ==
    ASSUME AnswerInv, InputLogIsHistory, NEW c \in Commitments,
           commits' = Append(commits, c), inputLog' = Append(inputLog, c.ans),
           drained' = drained
    PROVE  /\ commits' \in Seq(Commitments) /\ inputLog' \in Seq(Joint)
           /\ Len(commits) \in Nat /\ Len(commits') = Len(commits) + 1
           /\ \A i \in 1 .. Len(commits) : commits'[i] = commits[i]
           /\ commits'[Len(commits) + 1] = c
           /\ InputLogIsHistory'
<1>1. c.ans \in Joint
  BY DEF Commitments
<1>2. /\ commits \in Seq(Commitments) /\ inputLog \in Seq(Joint) /\ drained \in Seq(Joint)
      /\ Len(commits) \in Nat /\ Len(inputLog) \in Nat /\ Len(drained) \in Nat
  BY LenProperties DEF AnswerInv
<1>3. /\ commits' \in Seq(Commitments) /\ Len(commits') = Len(commits) + 1
      /\ \A i \in 1 .. Len(commits) : commits'[i] = commits[i]
      /\ commits'[Len(commits) + 1] = c
  BY <1>2, AppendProperties
<1>4. /\ inputLog' \in Seq(Joint) /\ inputLog' = inputLog \o <<c.ans>> /\ <<c.ans>> \in Seq(Joint)
  BY <1>1, <1>2, AppendProperties, AppendIsConcat
<1> DEFINE old == drained \o inputLog
           new == [i \in 1 .. Len(commits') |-> commits'[i].ans]
<1>5. drained' \o inputLog' = Append(old, c.ans)
  <2>1. drained' \o inputLog' = old \o <<c.ans>>
    BY <1>2, <1>4, ConcatAssociative
  <2>2. old \in Seq(Joint)
    BY <1>2, ConcatProperties
  <2> HIDE DEF old
  <2> QED
    BY <1>1, <2>1, <2>2, AppendIsConcat
<1>6. old = [i \in 1 .. Len(commits) |-> commits[i].ans] /\ old \in Seq(Joint)
  BY <1>2, ConcatProperties DEF InputLogIsHistory
<1>7. Len(old) = Len(commits)
  <2>1. DOMAIN old = 1 .. Len(commits)
    BY <1>6
  <2>2. DOMAIN old = 1 .. Len(old) /\ Len(old) \in Nat
    BY <1>6, LenProperties
  <2> QED
    BY <1>2, <2>1, <2>2
<1>8. /\ Append(old, c.ans) \in Seq(Joint) /\ Len(Append(old, c.ans)) = Len(commits) + 1
      /\ \A i \in 1 .. Len(commits) : Append(old, c.ans)[i] = commits[i].ans
      /\ Append(old, c.ans)[Len(commits) + 1] = c.ans
  <2>1. \A i \in 1 .. Len(commits) : old[i] = commits[i].ans
    BY <1>6
  <2> HIDE DEF old
  <2> QED
    BY <1>1, <1>6, <1>7, <2>1, AppendProperties
<1>9. new \in Seq(Joint) /\ Len(new) = Len(commits) + 1
  <2>1. \A i \in 1 .. Len(commits') : commits'[i].ans \in Joint
    <3>1. \A i \in 1 .. Len(commits') : commits'[i] \in Commitments
      BY <1>3, ElementOfSeq
    <3> QED
      BY <3>1 DEF Commitments
  <2>2. new \in [1 .. Len(commits') -> Joint] /\ Len(commits') \in Nat
    BY <1>2, <1>3, <2>1
  <2> HIDE DEF new
  <2> QED
    BY <1>3, <2>2, SeqOfFcn
<1>10. \A i \in 1 .. Len(commits) + 1 : new[i] = Append(old, c.ans)[i]
  <2> TAKE i \in 1 .. Len(commits) + 1
  <2>1. new[i] = commits'[i].ans
    BY <1>3
  <2>2. i \in 1 .. Len(commits) \/ i = Len(commits) + 1
    BY <1>2
  <2> HIDE DEF new, old
  <2> QED
    BY <1>3, <1>8, <2>1, <2>2
<1>11. new = Append(old, c.ans)
  <2> HIDE DEF new, old
  <2> QED
    BY <1>8, <1>9, <1>10, SeqEqual
<1> QED
  BY <1>2, <1>3, <1>4, <1>5, <1>11 DEF InputLogIsHistory

LEMMA DecidedInit == Init => Decided
<1> SUFFICES ASSUME Init PROVE Decided
  OBVIOUS
<1>1. <<>> \in Seq(Commitments) /\ <<>> \in Seq(Joint) /\ Len(<<>>) = 0
  BY EmptySeq
<1>2. \A s \in Sides : Nobody[s] = None
  BY DEF Nobody
<1>3. base.stops[1].open # {} /\ base.stops[1].open \subseteq Sides
  <2>1. CASE base = Builder(Nobody)
    <3>1. StopAt(PreviewSeg, 1).open = Sides
      BY DEF StopAt, PreviewSeg
    <3> QED
      BY <2>1, <3>1, SidesAssumption, NobodyTyped, BuilderShape
  <2>2. CASE base = NoPreview
    <3> DEFINE o == Opening(Seed, Nobody)
    <3>1. StopAt(o.seg, 1).open = o.seg.open
      BY DEF StopAt
    <3>2. StopAt(o.seg, 1).open \subseteq Sides
      BY NoPreviewShape DEF Stop
    <3> QED
      BY <2>2, <3>1, <3>2, NoPreviewShape
  <2> QED
    BY <2>1, <2>2 DEF Init
<1>4. open = base.stops[1].open /\ stop = base.stops[1] /\ ~ended
  BY DEF Init
<1>5. AnswerInv
  BY <1>1, <1>2, <1>3, <1>4 DEF AnswerInv, Init
<1>6. EveryoneAskedAnswered
  BY <1>1 DEF EveryoneAskedAnswered, Init
<1>7. NobodyLockedOut
  BY DEF NobodyLockedOut, Init
<1>8. StallsOnlyAfterRefusal
  BY <1>2, <1>3, <1>4 DEF StallsOnlyAfterRefusal, Init
<1>9. InputLogIsHistory
  <2>1. <<>> \o <<>> = <<>>
    BY <1>1, ConcatEmptySeq
  <2>2. commits = <<>> /\ Len(commits) = 0 /\ drained = <<>> /\ inputLog = <<>>
    BY <1>1 DEF Init
  <2>3. [i \in 1 .. Len(commits) |-> commits[i].ans] = <<>>
    BY <2>2
  <2> QED
    BY <2>1, <2>2, <2>3 DEF InputLogIsHistory
<1> QED
  BY <1>5, <1>6, <1>7, <1>8, <1>9 DEF Decided

\* The last answer becomes a commitment of all sides asked.
LEMMA DecidedAdvance ==
    ASSUME TypeInv, Decided, ~ended,
           NEW s \in Sides, NEW a \in AnswerAt(stop.kind), s \in open,
           \A r \in open : r = s \/ answered[r] # None,
           Advance([answered EXCEPT ![s] = a], [choiceText EXCEPT ![s] = a])
    PROVE  Decided'
<1> DEFINE ans == [answered EXCEPT ![s] = a]
           c == [ans |-> ans, asked |-> open]
<1>1. answered \in Joint /\ open \subseteq Sides /\ base.rng \in Rng /\ AnswersTo(ans)
  BY LastAnswer DEF TypeInv, TypeOK, Battle
<1>2. c \in Commitments
  BY <1>1, SessionAssumption DEF Commitments, AnswersTo
<1>3. /\ answered' = Nobody /\ choiceText' = Nobody /\ cantUndo' = {}
      /\ inputLog' = Append(inputLog, ans) /\ commits' = Append(commits, c)
      /\ drained' = drained /\ PlayAnswers(ans, <<>>, mid)
  BY DEF Advance, Commitment, Decided, AnswerInv
<1>4. a # None
  <2>1. stop.kind \in StopKind
    BY DEF TypeInv, TypeOK, Stop
  <2>2. a \in Answers
    BY <2>1 DEF AnswerAt, Answers, StopKind
  <2> QED
    BY <2>2, SidesAssumption
<1>5. \A r \in Sides : ans[r] # None <=> r \in open
  BY <1>1, <1>4 DEF Decided, AnswerInv, Joint
<1>6. c.ans = ans /\ c.asked = open
  OBVIOUS
<1> HIDE DEF ans, c
<1>7. Settled
  BY <1>1, <1>3, PlayTyped
<1>8. /\ commits' \in Seq(Commitments) /\ inputLog' \in Seq(Joint) /\ drained' \in Seq(Joint)
      /\ Len(commits) \in Nat /\ Len(commits') = Len(commits) + 1
      /\ \A i \in 1 .. Len(commits) : commits'[i] = commits[i]
      /\ commits'[Len(commits) + 1] = c
      /\ InputLogIsHistory'
  BY <1>2, <1>3, <1>6, HistoryGrows DEF Decided, AnswerInv
<1>9. \A r \in Sides : Nobody[r] = None
  BY DEF Nobody
<1>10. AnswerInv'
  BY <1>3, <1>7, <1>8, <1>9 DEF AnswerInv, Settled
<1>11. EveryoneAskedAnswered'
  <2> SUFFICES ASSUME NEW i \in 1 .. Len(commits'), NEW r \in Sides
               PROVE  commits'[i].ans[r] # None <=> r \in commits'[i].asked
    BY DEF EveryoneAskedAnswered
  <2>1. CASE i \in 1 .. Len(commits)
    BY <1>8, <2>1 DEF Decided, EveryoneAskedAnswered
  <2>2. CASE i = Len(commits) + 1
    BY <1>5, <1>6, <1>8, <2>2
  <2> QED
    BY <1>8, <2>1, <2>2
<1>12. NobodyLockedOut'
  BY <1>3 DEF NobodyLockedOut
<1>13. StallsOnlyAfterRefusal'
  BY <1>3, <1>7, <1>9 DEF StallsOnlyAfterRefusal, Settled
<1> QED
  BY <1>8, <1>10, <1>11, <1>12, <1>13 DEF Decided

LEMMA DecidedStep == TypeInv /\ Decided /\ [Next]_vars => Decided'
<1> SUFFICES ASSUME TypeInv, Decided, [Next]_vars PROVE Decided'
  OBVIOUS
<1> DEFINE HistoryKept == inputLog' = inputLog /\ commits' = commits /\ drained' = drained
           StandsStill == stop' = stop /\ open' = open /\ ended' = ended
<1>1. answered \in Joint /\ open \subseteq Sides
  BY DEF TypeInv, TypeOK
<1>2. ASSUME HistoryKept PROVE EveryoneAskedAnswered' /\ InputLogIsHistory'
  BY <1>2 DEF Decided, EveryoneAskedAnswered, InputLogIsHistory
<1>3. ASSUME HistoryKept, StandsStill, NEW s \in open, ~ended, NEW x,
             answered' = [answered EXCEPT ![s] = x],
             choiceText' = [choiceText EXCEPT ![s] = x]
      PROVE  AnswerInv'
  BY <1>1, <1>3 DEF Decided, AnswerInv, Joint
<1>4. ASSUME NEW s \in Sides, NEW a \in AnswerAt(stop.kind), NEW hides \in BOOLEAN,
             Accept(s, a, hides)
      PROVE  Decided'
  <2>1. CASE /\ ~(\A r \in open : r = s \/ answered[r] # None)
             /\ File(s, a, hides \/ ~CancelMod) /\ rejected' = rejected \ {s}
             /\ UNCHANGED <<base, shown, stop, open, maybe, main, mid, raw,
                            newRequests, inputLog, ended, commits, drained>>
    <3>1. ~ended /\ s \in open
      BY <1>4, AcceptCases
    <3>2. a # None
      <4>1. stop.kind \in StopKind
        BY DEF TypeInv, TypeOK, Stop
      <4>2. a \in Answers
        BY <4>1 DEF AnswerAt, Answers, StopKind
      <4> QED
        BY <4>2, SidesAssumption
    <3>3. AnswerInv' /\ EveryoneAskedAnswered' /\ InputLogIsHistory'
      BY <1>2, <1>3, <2>1, <3>1 DEF File
    <3>4. NobodyLockedOut'
      BY <1>1, <2>1, <3>2 DEF File, Decided, NobodyLockedOut, Joint
    <3>5. StallsOnlyAfterRefusal'
      BY <1>1, <2>1 DEF File, StallsOnlyAfterRefusal, Joint
    <3> QED
      BY <3>3, <3>4, <3>5 DEF Decided
  <2>2. CASE /\ \A r \in open : r = s \/ answered[r] # None
             /\ Advance([answered EXCEPT ![s] = a], [choiceText EXCEPT ![s] = a])
    <3>1. ~ended /\ s \in open
      BY <1>4, AcceptCases
    <3> QED
      BY <2>2, <3>1, DecidedAdvance
  <2> QED
    BY <1>4, <2>1, <2>2, AcceptCases
<1>5. ASSUME NEW s \in Sides, NEW a \in AnswerAt(stop.kind), NEW hides \in BOOLEAN,
             RefuseFilled(s, a, hides)
      PROVE  Decided'
  <2>1. /\ ~ended /\ s \in open /\ File(s, a, hides) /\ rejected' = rejected \cup {s}
        /\ HistoryKept /\ StandsStill
    BY <1>5 DEF RefuseFilled, Acceptable, MayChoose
  <2>2. a # None
    <3>1. stop.kind \in StopKind
      BY DEF TypeInv, TypeOK, Stop
    <3>2. a \in Answers
      BY <3>1 DEF AnswerAt, Answers, StopKind
    <3> QED
      BY <3>2, SidesAssumption
  <2>3. AnswerInv' /\ EveryoneAskedAnswered' /\ InputLogIsHistory'
    BY <1>2, <1>3, <2>1 DEF File
  <2>4. NobodyLockedOut'
    BY <1>1, <2>1, <2>2 DEF File, Decided, NobodyLockedOut, Joint
  <2>5. StallsOnlyAfterRefusal'
    BY <2>1 DEF StallsOnlyAfterRefusal
  <2> QED
    BY <2>3, <2>4, <2>5 DEF Decided
<1>6. ASSUME NEW s \in Sides, Refuse(s) \/ Undo(s) PROVE Decided'
  <2>1. /\ ~ended /\ s \in open /\ s \notin cantUndo /\ HistoryKept /\ StandsStill
        /\ answered' = [answered EXCEPT ![s] = None]
        /\ choiceText' = [choiceText EXCEPT ![s] = None]
        /\ cantUndo' \subseteq cantUndo
    BY <1>6 DEF Refuse, Undo, MayChoose, File
  <2>2. AnswerInv' /\ EveryoneAskedAnswered' /\ InputLogIsHistory'
    BY <1>2, <1>3, <2>1
  <2>3. NobodyLockedOut'
    BY <1>1, <2>1 DEF Decided, NobodyLockedOut, Joint
  <2>4. StallsOnlyAfterRefusal'
    BY <1>1, <2>1 DEF StallsOnlyAfterRefusal, Joint
  <2> QED
    BY <2>2, <2>3, <2>4 DEF Decided
<1>7. ASSUME NEW v \in Verdict, End(v) PROVE Decided'
  <2>1. /\ ended' = TRUE /\ open' = {} /\ HistoryKept
        /\ answered' = answered /\ choiceText' = choiceText
    BY <1>7 DEF End
  <2>2. AnswerInv'
    BY <2>1 DEF AnswerInv, Decided
  <2> QED
    BY <1>2, <2>1, <2>2 DEF Decided, NobodyLockedOut, StallsOnlyAfterRefusal
<1>8. CASE TakeInputLog
  <2>1. /\ inputLog' = <<>> /\ drained' = drained \o inputLog
        /\ commits' = commits /\ StandsStill
        /\ answered' = answered /\ choiceText' = choiceText
        /\ cantUndo' = cantUndo /\ rejected' = rejected
    BY <1>8 DEF TakeInputLog
  <2>2. drained \in Seq(Joint) /\ inputLog \in Seq(Joint)
    BY DEF Decided, AnswerInv
  <2>3. drained' \in Seq(Joint) /\ inputLog' \in Seq(Joint) /\ drained' \o inputLog' = drained \o inputLog
    BY <2>1, <2>2, ConcatProperties, ConcatEmptySeq, EmptySeq
  <2>4. AnswerInv'
    BY <2>1, <2>3 DEF AnswerInv, Decided
  <2>5. InputLogIsHistory'
    BY <2>1, <2>3 DEF InputLogIsHistory, Decided
  <2> QED
    BY <2>1, <2>4, <2>5
       DEF Decided, EveryoneAskedAnswered, NobodyLockedOut, StallsOnlyAfterRefusal
<1>9. CASE /\ HistoryKept /\ StandsStill /\ answered' = answered /\ choiceText' = choiceText
           /\ cantUndo' = cantUndo /\ rejected' = rejected
  BY <1>9 DEF Decided, AnswerInv, EveryoneAskedAnswered, NobodyLockedOut,
              StallsOnlyAfterRefusal, InputLogIsHistory
<1>10. ASSUME NEW g \in Rng, Reseed(g) PROVE Decided'
  BY <1>9, <1>10 DEF Reseed, history
<1>11. CASE TakeNewRequests
  BY <1>9, <1>11 DEF TakeNewRequests, history
<1>12. CASE UNCHANGED vars
  BY <1>9, <1>12 DEF vars
<1> QED
  BY <1>4, <1>5, <1>6, <1>7, <1>8, <1>10, <1>11, <1>12 DEF Next, Choose, Rebuff

\* A decision is made by every side asked and nobody else, no choice locks
\* a player out, the session stalls only on a refused choice, and the input
\* log is the history of what was played.
THEOREM DecisionsSound ==
    Spec => [](EveryoneAskedAnswered /\ NobodyLockedOut
               /\ StallsOnlyAfterRefusal /\ InputLogIsHistory)
<1>1. Init => TypeInv /\ Decided
  BY InitTyped, DecidedInit
<1>2. TypeInv /\ Decided /\ [Next]_vars => (TypeInv /\ Decided)'
  BY TypeStep, DecidedStep
<1>3. Decided => EveryoneAskedAnswered /\ NobodyLockedOut
                 /\ StallsOnlyAfterRefusal /\ InputLogIsHistory
  BY DEF Decided
<1> QED
  BY <1>1, <1>2, <1>3, PTL DEF Spec

\* Nobody is stuck: a side whose choice is final has one, and the battle waits
\* with all the answers in only behind one a refused choice filed
\* (PsSession::advance, and the Err arm of choose_detailed).
THEOREM NobodyIsStuck == Spec => []NobodyStuck
<1>1. NobodyLockedOut /\ StallsOnlyAfterRefusal => NobodyStuck
  BY DEF NobodyStuck
<1> QED
  BY <1>1, DecisionsSound, PTL

\* What take_input_log has handed out and still holds is the list of answers
\* the battle was played with.
THEOREM InputLogFaithful == Spec => []InputLogIsHistory
BY DecisionsSound, PTL

-----------------------------------------------------------------------------
(* Replays. *)

LEMMA SamePrefix ==
    ASSUME NEW S, NEW s \in Seq(S), NEW t \in Seq(S), NEW n \in Nat,
           n =< Len(s), n =< Len(t), \A i \in 1 .. n : s[i] = t[i]
    PROVE  SubSeq(s, 1, n) = SubSeq(t, 1, n)
<1>1. /\ SubSeq(s, 1, n) \in Seq(S) /\ Len(SubSeq(s, 1, n)) = n
      /\ \A i \in 1 .. n : SubSeq(s, 1, n)[i] = s[i]
  BY PrefixOf
<1>2. /\ SubSeq(t, 1, n) \in Seq(S) /\ Len(SubSeq(t, 1, n)) = n
      /\ \A i \in 1 .. n : SubSeq(t, 1, n)[i] = t[i]
  BY PrefixOf
<1>3. \A i \in 1 .. n : SubSeq(s, 1, n)[i] = SubSeq(t, 1, n)[i]
  BY <1>1, <1>2
<1> DEFINE a == SubSeq(s, 1, n)
           b == SubSeq(t, 1, n)
<1>4. a \in Seq(S) /\ b \in Seq(S) /\ Len(a) = Len(b) /\ \A i \in 1 .. Len(a) : a[i] = b[i]
  BY <1>1, <1>2, <1>3
<1> HIDE DEF a, b
<1>5. a = b
  BY <1>4, SeqEqual
<1> QED
  BY <1>5 DEF a, b

\* If what was shown is a prefix of a log, so is what will have been shown.
LEMMA ExposeMore ==
    ASSUME NEW b \in Battle, NEW p \in Nat, NEW n \in Nat, p =< n, n =< Len(b.log),
           raw = SubSeq(b.log, 1, p)
    PROVE  Expose(b, n) = SubSeq(b.log, 1, n)
<1>1. b.log \in Seq(Line) /\ Len(b.log) \in Nat
  BY LenProperties DEF Battle
<1>2. Len(raw) = p
  BY <1>1, PrefixOf
<1>3. 1 \in 1 .. Len(b.log) + 1 /\ p \in 1 - 1 .. Len(b.log) /\ n \in p .. Len(b.log)
  BY <1>1
<1>4. SubSeq(b.log, 1, p) \o SubSeq(b.log, p + 1, n) = SubSeq(b.log, 1, n)
  BY <1>1, <1>3, ConcatAdjacentSubSeq
<1> QED
  BY <1>2, <1>4 DEF Expose

\* Inside a turn the session shows the rerun of the turn up to its first
\* open stop; between turns, the battle it stands on up to its stop.
InsideTurn ==
    LET t == Turn(base.rng, main, mid)
        k == Len(mid) + 1
    IN  /\ k < Len(t.segs)
        /\ stop = StopAt(t.segs[k], Len(base.log) + k)
        /\ shown = Step(base, main, mid)
        /\ raw = SubSeq(shown.log, 1, stop.line)

BetweenTurns ==
    /\ shown = NoBattle /\ main = Nobody /\ mid = <<>>
    /\ stop.line \in 1 .. Len(base.log)
    /\ raw = SubSeq(base.log, 1, stop.line)
    /\ IF stop.kind = "TeamPreview"
       THEN stop.line = 1 /\ base.log[1] = Preview
       ELSE stop.line = Len(base.log)

ReplayInv ==
    /\ ~ended /\ stop.kind = "MidTurn" => InsideTurn
    /\ ~ended /\ stop.kind # "MidTurn" => BetweenTurns
    /\ ended => shown = NoBattle /\ raw = base.log

\* A run that reproduces the p lines shown shows more of the same log.
LEMMA RunReplays ==
    ASSUME TypeOK, ~ended, NEW m \in JointMain, NEW md \in MidHistory, Run(m, md),
           NEW p \in Nat, p =< Len(base.log) + Len(md) + 1,
           p =< Len(base.log) + Len(Turn(base.rng, m, md).segs),
           raw = SubSeq(Step(base, m, md).log, 1, p)
    PROVE  ReplayInv'
<1> DEFINE t == Turn(base.rng, m, md)
           b == Step(base, m, md)
           k == Len(md) + 1
           T == Len(t.segs)
           at == Len(base.log)
<1>1. base \in Battle /\ base.rng \in Rng /\ at \in Nat
  BY LenProperties DEF TypeOK, Battle
<1>2. /\ b \in Battle /\ k \in Nat /\ T \in Nat \ {0}
      /\ \/ k < T /\ Pause(b, StopAt(t.segs[k], at + k), m, md)
         \/ k >= T /\ t.segs[T].kind # "Over" /\ Reach(b, StopAt(t.segs[T], at + T))
         \/ k >= T /\ t.segs[T].kind = "Over" /\ Finish(b)
  BY <1>1, RunEffect
<1>3. Len(b.log) = at + T
  BY <1>1, StepShape
<1>4. \A i \in 1 .. T : /\ (t.segs[i].kind = "MidTurn") <=> (i < T)
                        /\ t.segs[i].kind # "TeamPreview"
  <2>1. \A i \in 1 .. Len(t.segs) :
           /\ (t.segs[i].kind = "MidTurn") <=> (i < Len(t.segs))
           /\ t.segs[i].kind # "TeamPreview"
    BY <1>1, TurnShape
  <2> HIDE DEF t
  <2> QED
    BY <2>1
<1>5. p =< at + k /\ p =< at + T /\ raw = SubSeq(b.log, 1, p) /\ k >= 1
  <2>1. Len(md) \in Nat
    <3>1. PICK j \in 0 .. MaxMid : md \in [1 .. j -> JointPick]
      BY DEF MidHistory
    <3> QED
      BY <3>1, SeqOfFcn, SidesAssumption
  <2>2. p =< at + Len(md) + 1 /\ p =< at + T /\ raw = SubSeq(b.log, 1, p)
    OBVIOUS
  <2> HIDE DEF at, b, T
  <2>3. at + Len(md) + 1 = at + k /\ k >= 1
    BY <1>1, <2>1
  <2> QED
    BY <2>2, <2>3
<1>6. CASE k < T /\ Pause(b, StopAt(t.segs[k], at + k), m, md)
  <2> DEFINE sp == StopAt(t.segs[k], at + k)
  <2>1. sp.line = at + k /\ sp.kind = t.segs[k].kind
    BY DEF StopAt
  <2> HIDE DEF b, T, t, at, k
  <2>2. k \in 1 .. T /\ at + k \in Nat /\ at + k =< Len(b.log)
    BY <1>1, <1>2, <1>3, <1>5, <1>6
  <2>3. Expose(b, at + k) = SubSeq(b.log, 1, at + k)
    BY <1>2, <1>5, <2>2, ExposeMore
  <2>4. sp.kind = "MidTurn"
    BY <1>4, <1>6, <2>1, <2>2
  <2>5. /\ raw' = SubSeq(b.log, 1, at + k) /\ stop' = sp /\ shown' = b /\ base' = base
        /\ main' = m /\ mid' = md /\ ended' = ended
    BY <1>6, <2>1, <2>3 DEF Pause
  <2> HIDE DEF sp
  <2>6. InsideTurn'
    BY <1>6, <2>1, <2>5 DEF InsideTurn, b, T, t, at, k, sp
  <2> QED
    BY <2>4, <2>5, <2>6 DEF ReplayInv
<1>7. CASE k >= T /\ t.segs[T].kind # "Over" /\ Reach(b, StopAt(t.segs[T], at + T))
  <2> DEFINE sp == StopAt(t.segs[T], at + T)
  <2>1. sp.line = at + T /\ sp.kind = t.segs[T].kind
    BY DEF StopAt
  <2> HIDE DEF b, T, t, at, k
  <2>2. T \in 1 .. T /\ at + T \in Nat /\ at + T \in 1 .. Len(b.log)
    BY <1>1, <1>2, <1>3
  <2>3. Expose(b, at + T) = SubSeq(b.log, 1, at + T)
    <3>1. b \in Battle /\ at + T \in Nat /\ p =< at + T /\ at + T =< Len(b.log) /\ raw = SubSeq(b.log, 1, p)
      BY <1>2, <1>3, <1>5, <2>2
    <3> QED
      BY <3>1, ExposeMore
  <2>4. sp.kind # "MidTurn" /\ sp.kind # "TeamPreview"
    BY <1>4, <2>1, <2>2
  <2>5. /\ raw' = SubSeq(b.log, 1, at + T) /\ stop' = sp /\ shown' = NoBattle /\ base' = b
        /\ main' = Nobody /\ mid' = <<>> /\ ended' = ended
    BY <1>7, <2>1, <2>3 DEF Reach
  <2> HIDE DEF sp
  <2>6. BetweenTurns'
    BY <1>3, <2>1, <2>2, <2>4, <2>5 DEF BetweenTurns
  <2> QED
    BY <2>4, <2>5, <2>6 DEF ReplayInv
<1>8. CASE k >= T /\ t.segs[T].kind = "Over" /\ Finish(b)
  <2>1. b.log \in Seq(Line) /\ Len(b.log) \in Nat /\ p =< Len(b.log)
    BY <1>2, <1>3, <1>5, LenProperties DEF Battle
  <2> HIDE DEF b, T, t, at, k
  <2>2. Expose(b, Len(b.log)) = SubSeq(b.log, 1, Len(b.log))
    <3>1. b \in Battle /\ Len(b.log) \in Nat /\ p =< Len(b.log)
          /\ Len(b.log) =< Len(b.log) /\ raw = SubSeq(b.log, 1, p)
      BY <1>2, <1>5, <2>1
    <3> QED
      BY <3>1, ExposeMore
  <2>3. SubSeq(b.log, 1, Len(b.log)) = b.log
    BY <2>1, SubSeqFull
  <2> QED
    BY <1>8, <2>2, <2>3 DEF Finish, ReplayInv
<1> QED
  BY <1>2, <1>6, <1>7, <1>8

\* A pick answering the stop a turn waits at reproduces all that was shown,
\* and the turn goes on behind it.
LEMMA PicksReplay ==
    ASSUME TypeInv, ReplayInv, ~ended, stop.kind = "MidTurn",
           NEW ans \in JointPick, AnswersTo(ans), open = stop.open,
           \A s \in Sides : ans[s] # None <=> s \in open,
           Append(mid, ans) \in MidHistory, Len(mid) \in Nat,
           Len(Append(mid, ans)) = Len(mid) + 1
    PROVE  LET md == Append(mid, ans)
           IN  /\ raw = SubSeq(Step(base, main, md).log, 1, Len(base.log) + Len(md))
               /\ Len(md) < Len(Turn(base.rng, main, md).segs)
<1> DEFINE md == Append(mid, ans)
           t == Turn(base.rng, main, mid)
           u == Turn(base.rng, main, md)
           k == Len(mid) + 1
           p == Len(base.log) + k
           c == Step(base, main, mid)
           b == Step(base, main, md)
<1>1. /\ base \in Battle /\ base.rng \in Rng /\ base.log \in Seq(Line)
      /\ Len(base.log) \in Nat /\ main \in JointMain /\ mid \in MidHistory
  BY LenProperties DEF TypeInv, TypeOK, Battle
<1>2. /\ k < Len(t.segs) /\ stop = StopAt(t.segs[k], p)
      /\ shown = c /\ raw = SubSeq(c.log, 1, stop.line)
  BY DEF ReplayInv, InsideTurn
<1>3. /\ c \in Battle /\ t.segs \in Seq(Segment) /\ Len(c.log) = Len(base.log) + Len(t.segs)
      /\ \A i \in 1 .. Len(base.log) : c.log[i] = base.log[i]
      /\ \A i \in 1 .. Len(t.segs) : c.log[Len(base.log) + i] = t.segs[i].line
  BY <1>1, StepShape
<1>4. /\ b \in Battle /\ u.segs \in Seq(Segment) /\ Len(b.log) = Len(base.log) + Len(u.segs)
      /\ \A i \in 1 .. Len(base.log) : b.log[i] = base.log[i]
      /\ \A i \in 1 .. Len(u.segs) : b.log[Len(base.log) + i] = u.segs[i].line
  BY <1>1, StepShape
<1>5. stop.open = t.segs[k].open /\ stop.kind = t.segs[k].kind /\ stop.line = p
  BY <1>2 DEF StopAt
<1>6. k =< Len(u.segs) /\ \A i \in 1 .. k : u.segs[i] = t.segs[i]
  <2>1. \A s \in Sides : IF s \in t.segs[k].open THEN ans[s] \in AnswerAt(t.segs[k].kind)
                                                  ELSE ans[s] = None
    <3> HIDE DEF t
    <3> QED
      BY <1>5 DEF AnswersTo
  <2>2. ans \in {j \in JointPick : AnswersStop(j, t.segs[k])}
    BY <2>1 DEF AnswersStop
  <2> QED
    BY <1>1, <1>2, <2>2, TurnIsStable
<1>7. /\ Len(t.segs) \in Nat /\ Len(u.segs) \in Nat /\ k \in Nat /\ k >= 1
      /\ b.log \in Seq(Line) /\ c.log \in Seq(Line)
  BY <1>3, <1>4, LenProperties DEF Battle
<1>8. k < Len(u.segs)
  <2>1. \A i \in 1 .. Len(u.segs) : (u.segs[i].kind = "MidTurn") <=> (i < Len(u.segs))
    BY <1>1, TurnShape
  <2> HIDE DEF t, u, k
  <2>2. k \in 1 .. Len(u.segs) /\ u.segs[k] = t.segs[k]
    BY <1>6, <1>7
  <2> QED
    BY <1>5, <2>1, <2>2
<1>a. SUFFICES raw = SubSeq(b.log, 1, p)
  <2>1. Len(md) = k
    OBVIOUS
  <2> QED
    BY <1>8, <1>a, <2>1
<1> HIDE DEF md, t, u, c, b, k
<1>9. p \in Nat /\ p =< Len(c.log) /\ p =< Len(b.log)
  BY <1>1, <1>2, <1>3, <1>4, <1>6, <1>7
<1>10. ASSUME NEW i \in 1 .. p PROVE c.log[i] = b.log[i]
  <2>1. CASE i \in 1 .. Len(base.log)
    BY <1>3, <1>4, <2>1
  <2>2. CASE i > Len(base.log)
    <3> DEFINE j == i - Len(base.log)
    <3>1. j \in 1 .. k /\ j \in 1 .. Len(t.segs) /\ j \in 1 .. Len(u.segs) /\ i = Len(base.log) + j
      BY <1>1, <1>2, <1>6, <1>7, <2>2
    <3> HIDE DEF j
    <3>2. c.log[i] = t.segs[j].line /\ b.log[i] = u.segs[j].line /\ u.segs[j] = t.segs[j]
      BY <1>3, <1>4, <1>6, <3>1
    <3> QED
      BY <3>2
  <2> QED
    BY <1>1, <1>9, <2>1, <2>2
<1>11. SubSeq(c.log, 1, p) = SubSeq(b.log, 1, p)
  <2> HIDE DEF p
  <2> QED
    BY <1>7, <1>9, <1>10, SamePrefix
<1> QED
  BY <1>2, <1>5, <1>11

\* A joint answer is played on from what was shown.
LEMMA ReplayAdvance ==
    ASSUME TypeInv, ReplayInv, ~ended, NEW ans, AnswersTo(ans), open = stop.open,
           \A s \in Sides : ans[s] # None <=> s \in open,
           PlayAnswers(ans, <<>>, mid)
    PROVE  ReplayInv'
<1>1. /\ TypeOK /\ base \in Battle /\ base.rng \in Rng /\ base.log \in Seq(Line)
      /\ Len(base.log) \in Nat /\ main \in JointMain /\ mid \in MidHistory /\ ans \in Joint
  BY LenProperties DEF TypeInv, TypeOK, Battle, AnswersTo
<1>2. CASE stop.kind = "TeamPreview" /\ Settle(Builder(ans), 1, main, mid, FALSE)
  <2> DEFINE b == Builder(ans)
             sp == StopAt(Opening(Seed, ans).seg, 2)
  <2>1. /\ Reach(b, sp) /\ sp.line = 2 /\ sp.kind = "Move"
    <3>1. Reach(b, sp) /\ Opening(Seed, ans).seg.kind = "Move"
      BY <1>1, <1>2, PreviewEffect
    <3> QED
      BY <3>1 DEF StopAt
  <2>2. b \in Battle /\ b.log \in Seq(Line) /\ Len(b.log) = 2 /\ b.log[1] = Preview
    BY <1>1, BuilderShape DEF Battle
  <2> HIDE DEF b, sp
  <2>3. BetweenTurns
    BY <1>2 DEF ReplayInv
  <2>4. raw = SubSeq(base.log, 1, 1) /\ base.log[1] = Preview /\ 1 =< Len(base.log)
    <3>1. stop.line = 1 /\ stop.line \in 1 .. Len(base.log) /\ base.log[1] = Preview
          /\ raw = SubSeq(base.log, 1, stop.line)
      BY <1>2, <2>3 DEF BetweenTurns
    <3> QED
      BY <1>1, <3>1
  <2>5. SubSeq(base.log, 1, 1) = SubSeq(b.log, 1, 1)
    BY <1>1, <2>2, <2>4, SamePrefix
  <2>6. Expose(b, 2) = SubSeq(b.log, 1, 2)
    <3>1. raw = SubSeq(b.log, 1, 1) /\ 1 =< 2 /\ 2 =< Len(b.log) /\ 1 \in Nat /\ 2 \in Nat
      BY <2>2, <2>4, <2>5
    <3>2. b \in Battle
      BY <2>2
    <3> QED
      BY <3>1, <3>2, ExposeMore, Zenon
  <2>7. /\ raw' = SubSeq(b.log, 1, 2) /\ stop' = sp /\ shown' = NoBattle /\ base' = b
        /\ main' = Nobody /\ mid' = <<>> /\ ended' = ended
    BY <2>1, <2>6 DEF Reach
  <2>8. BetweenTurns'
    <3>1. /\ stop'.line = 2 /\ stop'.kind = "Move" /\ Len(base'.log) = 2
          /\ raw' = SubSeq(base'.log, 1, stop'.line) /\ 2 \in 1 .. 2
      BY <2>1, <2>2, <2>7
    <3> QED
      BY <2>7, <3>1 DEF BetweenTurns
  <2> QED
    BY <2>1, <2>7, <2>8 DEF ReplayInv
<1>3. CASE stop.kind \in {"Move", "Replace"} /\ ans \in JointMain /\ Run(ans, <<>>)
  <2> DEFINE b == Step(base, ans, <<>>)
             p == Len(base.log)
             t == Turn(base.rng, ans, <<>>)
  <2>1. <<>> \in MidHistory /\ Len(<<>>) = 0
    BY NobodyTyped
  <2>2. /\ b \in Battle /\ b.log \in Seq(Line) /\ Len(b.log) = p + Len(t.segs)
        /\ Len(t.segs) \in 1 .. MaxMid + 1
        /\ \A i \in 1 .. p : b.log[i] = base.log[i]
    <3>1. /\ b \in Battle /\ Len(b.log) = p + Len(t.segs)
          /\ Len(t.segs) \in 1 .. MaxMid + 1
          /\ \A i \in 1 .. p : b.log[i] = base.log[i]
      BY <1>1, <1>3, <2>1, StepShape
    <3> HIDE DEF b
    <3> QED
      BY <3>1 DEF Battle
  <2>3. raw = SubSeq(base.log, 1, p)
    BY <1>3 DEF ReplayInv, BetweenTurns
  <2> HIDE DEF b, t, p
  <2>4. p \in Nat /\ p =< Len(base.log)
    BY <1>1 DEF p
  <2>5. Len(t.segs) \in Nat /\ p =< Len(b.log) /\ p =< p + 0 + 1
    BY <2>2, <2>4, SidesAssumption
  <2>6. SubSeq(base.log, 1, p) = SubSeq(b.log, 1, p)
    BY <1>1, <2>2, <2>4, <2>5, SamePrefix
  <2>7. /\ p =< Len(base.log) + Len(<<>>) + 1 /\ p =< Len(base.log) + Len(t.segs)
        /\ raw = SubSeq(b.log, 1, p)
    <3>1. Len(base.log) = p
      BY DEF p
    <3> QED
      BY <2>1, <2>3, <2>4, <2>5, <2>6, <3>1
  <2> QED
    BY <1>1, <1>3, <2>1, <2>4, <2>7, RunReplays DEF b, t
<1>4. CASE /\ stop.kind = "MidTurn" /\ ans \in JointPick /\ Append(mid, ans) \in MidHistory
           /\ Len(mid) \in Nat /\ Len(Append(mid, ans)) = Len(mid) + 1
           /\ Run(main, Append(mid, ans))
  <2> DEFINE md == Append(mid, ans)
             p == Len(base.log) + Len(md)
  <2>1. raw = SubSeq(Step(base, main, md).log, 1, p) /\ Len(md) < Len(Turn(base.rng, main, md).segs)
    BY <1>4, PicksReplay
  <2>2. Len(md) \in Nat /\ Len(Turn(base.rng, main, md).segs) \in Nat
    BY <1>1, <1>4, StepShape, LenProperties
  <2>3. md \in MidHistory /\ Run(main, md)
    BY <1>4
  <2> HIDE DEF md
  <2>4. /\ p \in Nat /\ p =< Len(base.log) + Len(md) + 1
        /\ p =< Len(base.log) + Len(Turn(base.rng, main, md).segs)
    BY <1>1, <2>1, <2>2
  <2> HIDE DEF p
  <2> QED
    BY <1>1, <2>1, <2>3, <2>4, RunReplays
<1> QED
  BY <1>2, <1>3, <1>4, PlayEffect

LEMMA InsideBounds ==
    \A at, k, n \in Nat : k < n => at + k \in Nat /\ at + k =< at + n /\ 0 < at + n
OBVIOUS

LEMMA ReplayInit == Init => ReplayInv
<1> SUFFICES ASSUME Init PROVE ReplayInv
  OBVIOUS
<1>1. CASE base = Builder(Nobody)
  <2>1. /\ base.stops[1] = StopAt(PreviewSeg, 1) /\ Len(base.log) = 2 /\ base.log[1] = Preview
    BY <1>1, NobodyTyped, BuilderShape
  <2>2. stop.line = 1 /\ stop.kind = "TeamPreview"
    BY <2>1 DEF Init, StopAt, PreviewSeg
  <2> QED
    BY <2>1, <2>2 DEF Init, ReplayInv, BetweenTurns
<1>2. CASE base = NoPreview
  <2>1. /\ base.stops[1] = StopAt(Opening(Seed, Nobody).seg, 1) /\ Len(base.log) = 1
        /\ Opening(Seed, Nobody).seg.kind = "Move"
    BY <1>2, NoPreviewShape
  <2>2. stop.line = 1 /\ stop.kind = "Move"
    BY <2>1 DEF Init, StopAt
  <2> QED
    BY <2>1, <2>2 DEF Init, ReplayInv, BetweenTurns
<1> QED
  BY <1>1, <1>2 DEF Init

\* The lines a forced end keeps are those shown, and it adds its own.
LEMMA EndExposes ==
    ASSUME TypeInv, ReplayInv, NEW v \in Verdict, End(v)
    PROVE  raw' = base'.log /\ raw' = Append(raw, v)
<1> DEFINE b == IF shown # NoBattle THEN shown ELSE base
           n == stop.line
<1>1. b \in Battle /\ v \in Line
  BY SessionAssumption DEF TypeInv, TypeOK
<1>2. b.log \in Seq(Line) /\ Len(b.log) \in Nat
  BY <1>1, LenProperties DEF Battle
<1>3. raw = SubSeq(b.log, 1, n) /\ n \in Nat /\ n =< Len(b.log)
  <2>1. ~ended /\ base \in Battle /\ base.log \in Seq(Line) /\ Len(base.log) \in Nat
    BY LenProperties DEF End, TypeInv, TypeOK, Battle
  <2>2. CASE stop.kind # "MidTurn"
    <3>1. BetweenTurns
      BY <2>1, <2>2 DEF ReplayInv
    <3>2. b = base /\ raw = SubSeq(base.log, 1, n) /\ n \in 1 .. Len(base.log)
      BY <3>1 DEF BetweenTurns
    <3> HIDE DEF b, n
    <3> QED
      BY <2>1, <3>2
  <2>3. CASE stop.kind = "MidTurn"
    <3> DEFINE t == Turn(base.rng, main, mid)
               k == Len(mid) + 1
               c == Step(base, main, mid)
    <3>1. /\ k < Len(t.segs) /\ stop = StopAt(t.segs[k], Len(base.log) + k)
          /\ shown = c /\ raw = SubSeq(shown.log, 1, n)
      BY <2>1, <2>3 DEF ReplayInv, InsideTurn
    <3>2. n = Len(base.log) + k
      BY <3>1 DEF StopAt
    <3>3. c \in Battle /\ t.segs \in Seq(Segment) /\ Len(c.log) = Len(base.log) + Len(t.segs)
      BY StepShape DEF TypeInv, TypeOK
    <3>4. Len(mid) \in Nat /\ Len(t.segs) \in Nat /\ k \in Nat
      <4>1. PICK j \in 0 .. MaxMid : mid \in [1 .. j -> JointPick]
        BY DEF TypeInv, TypeOK, MidHistory
      <4>2. Len(mid) \in Nat
        BY <4>1, SeqOfFcn, SidesAssumption
      <4> QED
        BY <3>3, <4>2, LenProperties
    <3> HIDE DEF t, k, c, n
    <3>5. n \in Nat /\ n =< Len(c.log) /\ 0 < Len(c.log)
      <4>1. Len(base.log) \in Nat /\ k \in Nat /\ Len(t.segs) \in Nat /\ k < Len(t.segs)
        BY <2>1, <3>1, <3>4
      <4> QED
        BY <3>2, <3>3, <4>1, InsideBounds
    <3>6. c # NoBattle
      BY <3>5, EmptySeq DEF NoBattle
    <3> QED
      BY <3>1, <3>5, <3>6
  <2> QED
    BY <2>2, <2>3
<1>4. base' = [b EXCEPT !.log = Append(Cut(b.log, Len(raw)), v), !.over = TRUE]
      /\ raw' = Expose(base', Len(base'.log))
  BY DEF End
<1> HIDE DEF b, n
<1>5. raw \in Seq(Line) /\ Len(raw) = n
  BY <1>2, <1>3, PrefixOf
<1>6. Cut(b.log, Len(raw)) = raw
  <2>1. CASE n < Len(b.log)
    BY <1>3, <1>5, <2>1 DEF Cut
  <2>2. CASE n = Len(b.log)
    <3>1. SubSeq(b.log, 1, n) = b.log
      BY <1>2, <2>2, SubSeqFull
    <3> QED
      BY <1>3, <1>5, <2>2, <3>1 DEF Cut
  <2> QED
    BY <1>2, <1>3, <2>1, <2>2
<1> DEFINE l == Append(raw, v)
<1>7. base' \in Battle /\ base'.log = l
  <2>1. l \in Seq(Line)
    BY <1>1, <1>5, AppendProperties
  <2> HIDE DEF l
  <2>2. base' = [b EXCEPT !.log = l, !.over = TRUE]
    BY <1>4, <1>6 DEF l
  <2> QED
    BY <1>1, <2>1, <2>2 DEF Battle
<1>8. /\ l \in Seq(Line) /\ Len(l) = n + 1
      /\ \A i \in 1 .. n : l[i] = raw[i]
  BY <1>1, <1>5, AppendProperties
<1>9. raw = SubSeq(l, 1, n)
  <2>1. SubSeq(raw, 1, n) = raw
    BY <1>5, SubSeqFull
  <2> HIDE DEF l
  <2>2. n =< Len(l) /\ n =< Len(raw)
    BY <1>3, <1>5, <1>8
  <2>3. SubSeq(raw, 1, n) = SubSeq(l, 1, n)
    BY <1>3, <1>5, <1>8, <2>2, SamePrefix
  <2> QED
    BY <2>1, <2>3
<1> HIDE DEF l
<1>10. Expose(base', n + 1) = SubSeq(base'.log, 1, n + 1)
  <2>1. n \in Nat /\ n + 1 \in Nat /\ n =< n + 1 /\ n + 1 =< Len(base'.log) /\ raw = SubSeq(base'.log, 1, n)
    BY <1>3, <1>7, <1>8, <1>9
  <2> QED
    BY <1>7, <2>1, ExposeMore
<1>11. SubSeq(l, 1, n + 1) = l
  BY <1>8, SubSeqFull
<1> QED
  BY <1>4, <1>7, <1>8, <1>10, <1>11 DEF l

LEMMA ReplayStep ==
    ASSUME "MidTurn" \notin ReseedAt
    PROVE  TypeInv /\ Decided /\ ReplayInv /\ [Next]_vars => ReplayInv'
<1> SUFFICES ASSUME TypeInv, Decided, ReplayInv, [Next]_vars PROVE ReplayInv'
  OBVIOUS
<1> DEFINE Kept == /\ shown' = shown /\ stop' = stop /\ main' = main /\ mid' = mid
                   /\ raw' = raw /\ ended' = ended
<1>1. CASE Kept /\ base' = base
  BY <1>1 DEF ReplayInv, InsideTurn, BetweenTurns
<1>2. ASSUME NEW s \in Sides, NEW a \in AnswerAt(stop.kind), NEW hides \in BOOLEAN,
             Accept(s, a, hides)
      PROVE  ReplayInv'
  <2>1. CASE UNCHANGED <<base, shown, stop, open, maybe, main, mid, raw,
                         newRequests, inputLog, ended, commits, drained>>
    BY <1>1, <2>1
  <2>2. CASE /\ \A r \in open : r = s \/ answered[r] # None
             /\ Advance([answered EXCEPT ![s] = a], [choiceText EXCEPT ![s] = a])
    <3> DEFINE ans == [answered EXCEPT ![s] = a]
    <3>1. ~ended /\ s \in open
      BY <1>2, AcceptCases
    <3>2. AnswersTo(ans)
      BY <3>1, LastAnswer
    <3>3. a # None
      <4>1. stop.kind \in StopKind
        BY DEF TypeInv, TypeOK, Stop
      <4>2. a \in Answers
        BY <4>1 DEF AnswerAt, Answers, StopKind
      <4> QED
        BY <4>2, SidesAssumption
    <3>4. \A r \in Sides : ans[r] # None <=> r \in open
      BY <2>2, <3>1, <3>3 DEF TypeInv, TypeOK, Decided, AnswerInv, Joint
    <3>5. PlayAnswers(ans, <<>>, mid)
      BY <2>2 DEF Advance, Commitment
    <3>6. open = stop.open
      BY <3>1 DEF Decided, AnswerInv
    <3> HIDE DEF ans
    <3> QED
      BY <3>1, <3>2, <3>4, <3>5, <3>6, ReplayAdvance
  <2> QED
    BY <1>2, <2>1, <2>2, AcceptCases
<1>3. ASSUME NEW s \in Sides, NEW a \in AnswerAt(stop.kind), NEW hides \in BOOLEAN,
             RefuseFilled(s, a, hides)
      PROVE  ReplayInv'
  BY <1>1, <1>3 DEF RefuseFilled
<1>4. ASSUME NEW s \in Sides, Refuse(s) \/ Undo(s) \/ Rebuff(s) PROVE ReplayInv'
  BY <1>1, <1>4 DEF Refuse, Undo, Rebuff, vars
<1>5. ASSUME NEW v \in Verdict, End(v) PROVE ReplayInv'
  <2>1. raw' = base'.log
    BY <1>5, EndExposes
  <2> QED
    BY <1>5, <2>1 DEF End, ReplayInv
<1>6. ASSUME NEW g \in Rng, Reseed(g) PROVE ReplayInv'
  <2>1. Kept /\ base' = [base EXCEPT !.rng = g] /\ stop.kind # "MidTurn"
    BY <1>6 DEF Reseed
  <2>2. base'.log = base.log
    BY <2>1 DEF TypeInv, TypeOK, Battle
  <2> QED
    BY <2>1, <2>2 DEF ReplayInv, BetweenTurns
<1>7. CASE TakeNewRequests \/ TakeInputLog \/ UNCHANGED vars
  BY <1>1, <1>7 DEF TakeNewRequests, TakeInputLog, vars, history
<1> QED
  BY <1>2, <1>3, <1>4, <1>5, <1>6, <1>7 DEF Next, Choose

\* Unless somebody reseeds inside a turn, what the players were shown is
\* always the log of the battle the session stands on, up to its stop, and
\* inside a turn that battle is the rerun the session would make again.
THEOREM ReplayFaithful ==
    ASSUME "MidTurn" \notin ReseedAt
    PROVE  Spec => []ShownIsPlayed
<1>1. Init => TypeInv /\ Decided /\ ReplayInv
  BY InitTyped, DecidedInit, ReplayInit
<1>2. TypeInv /\ Decided /\ ReplayInv /\ [Next]_vars => (TypeInv /\ Decided /\ ReplayInv)'
  BY TypeStep, DecidedStep, ReplayStep
<1>3. TypeInv /\ ReplayInv => ShownIsPlayed
  <2> SUFFICES ASSUME TypeInv, ReplayInv PROVE ExposedIsLog /\ ShownIsReplay
    BY DEF ShownIsPlayed
  <2>1. /\ base \in Battle /\ base.log \in Seq(Line) /\ Len(base.log) \in Nat
        /\ shown \in Battle /\ shown.log \in Seq(Line) /\ Len(shown.log) \in Nat
    BY LenProperties DEF TypeInv, TypeOK, Battle
  <2>2. CASE ended
    <3>1. shown = NoBattle /\ raw = base.log
      BY <2>2 DEF ReplayInv
    <3>2. SubSeq(base.log, 1, Len(base.log)) = base.log
      BY <2>1, SubSeqFull
    <3> QED
      BY <2>2, <3>1, <3>2 DEF ExposedIsLog, ShownIsReplay, Source
  <2>3. CASE ~ended /\ stop.kind # "MidTurn"
    <3>1. shown = NoBattle /\ raw = SubSeq(base.log, 1, stop.line) /\ stop.line \in 1 .. Len(base.log)
      BY <2>3 DEF ReplayInv, BetweenTurns
    <3>2. Len(raw) = stop.line
      BY <2>1, <3>1, PrefixOf
    <3> QED
      BY <2>3, <3>1, <3>2 DEF ExposedIsLog, ShownIsReplay, Source
  <2>4. CASE ~ended /\ stop.kind = "MidTurn"
    <3> DEFINE t == Turn(base.rng, main, mid)
               k == Len(mid) + 1
    <3>1. /\ k < Len(t.segs) /\ stop = StopAt(t.segs[k], Len(base.log) + k)
          /\ shown = Step(base, main, mid) /\ raw = SubSeq(shown.log, 1, stop.line)
      BY <2>4 DEF ReplayInv, InsideTurn
    <3>2. t.segs \in Seq(Segment) /\ Len(shown.log) = Len(base.log) + Len(t.segs)
      BY <3>1, StepShape DEF TypeInv, TypeOK
    <3>3. k \in Nat
      <4>1. PICK j \in 0 .. MaxMid : mid \in [1 .. j -> JointPick]
        BY DEF TypeInv, TypeOK, MidHistory
      <4> QED
        BY <4>1, SeqOfFcn, SidesAssumption
    <3>4. stop.line = Len(base.log) + k
      BY <3>1 DEF StopAt
    <3>5. Len(t.segs) \in Nat
      BY <3>2, LenProperties
    <3> HIDE DEF t, k
    <3>6. stop.line \in Nat /\ stop.line =< Len(shown.log) /\ 0 < Len(shown.log)
      <4>1. Len(base.log) \in Nat /\ k \in Nat /\ Len(t.segs) \in Nat /\ k < Len(t.segs)
        BY <2>1, <3>1, <3>3, <3>5
      <4> QED
        BY <3>2, <3>4, <4>1, InsideBounds
    <3>7. Len(raw) = stop.line
      BY <2>1, <3>1, <3>6, PrefixOf
    <3>8. shown # NoBattle
      BY <3>6, EmptySeq DEF NoBattle
    <3> QED
      BY <2>4, <3>1, <3>7, <3>8 DEF ExposedIsLog, ShownIsReplay, Source
  <2> QED
    BY <2>2, <2>3, <2>4
<1> QED
  BY <1>1, <1>2, <1>3, PTL DEF Spec

-----------------------------------------------------------------------------
(* Refinement: the session is the battle that stops and goes on. *)

LEMMA GrowsByOne ==
    ASSUME NEW S, NEW s \in Seq(S), NEW p \in Nat, p + 1 =< Len(s)
    PROVE  SubSeq(s, 1, p + 1) = Append(SubSeq(s, 1, p), s[p + 1])
<1>1. Len(s) \in Nat /\ 1 \in 1 .. Len(s) /\ p + 1 \in 1 .. Len(s) /\ (p + 1) - 1 = p
  BY LenProperties
<1>2. SubSeq(s, 1, p + 1) = SubSeq(s, 1, (p + 1) - 1) \o <<s[p + 1]>>
  BY <1>1, SubSeqRecursiveSecond
<1>3. SubSeq(s, 1, p) \in Seq(S) /\ s[p + 1] \in S
  BY <1>1, PrefixOf, ElementOfSeq
<1>4. Append(SubSeq(s, 1, p), s[p + 1]) = SubSeq(s, 1, p) \o <<s[p + 1]>>
  BY <1>3, AppendIsConcat
<1> QED
  BY <1>1, <1>2, <1>4

\* How segment `k` of the turn `t` leaves the session.
OneSegment(t, k, m, md) ==
    /\ raw' = Append(raw, t.segs[k].line)
    /\ IF t.segs[k].kind = "Over"
       THEN ended' = TRUE /\ stop' = stop
       ELSE /\ ended' = FALSE
            /\ stop'.kind = t.segs[k].kind /\ stop'.open = t.segs[k].open
            /\ IF k < Len(t.segs)
               THEN base' = base /\ main' = m /\ mid' = md
               ELSE base'.rng = t.rng /\ main' = Nobody /\ mid' = <<>>

\* A run that reproduces what was shown plays exactly one segment more.
LEMMA RunPlaysOne ==
    ASSUME TypeOK, ~ended, NEW m \in JointMain, NEW md \in MidHistory, Run(m, md),
           raw = SubSeq(Step(base, m, md).log, 1, Len(base.log) + Len(md)),
           Len(md) < Len(Turn(base.rng, m, md).segs)
    PROVE  LET t == Turn(base.rng, m, md)
               k == Len(md) + 1
           IN  /\ OneSegment(t, k, m, md)
               /\ t.segs[k].kind # "TeamPreview"
<1> DEFINE t == Turn(base.rng, m, md)
           b == Step(base, m, md)
           k == Len(md) + 1
           T == Len(t.segs)
           at == Len(base.log)
<1>1. base \in Battle /\ base.rng \in Rng /\ at \in Nat
  BY LenProperties DEF TypeOK, Battle
<1>2. /\ b \in Battle /\ k \in Nat /\ T \in Nat \ {0}
      /\ \/ k < T /\ Pause(b, StopAt(t.segs[k], at + k), m, md)
         \/ k >= T /\ t.segs[T].kind # "Over" /\ Reach(b, StopAt(t.segs[T], at + T))
         \/ k >= T /\ t.segs[T].kind = "Over" /\ Finish(b)
  BY <1>1, RunEffect
<1>3. /\ Len(b.log) = at + T /\ b.rng = t.rng
      /\ \A i \in 1 .. T : b.log[at + i] = t.segs[i].line
  BY <1>1, StepShape
<1>4. \A i \in 1 .. T : /\ (t.segs[i].kind = "MidTurn") <=> (i < T)
                        /\ t.segs[i].kind # "TeamPreview"
  <2>1. \A i \in 1 .. Len(t.segs) :
           /\ (t.segs[i].kind = "MidTurn") <=> (i < Len(t.segs))
           /\ t.segs[i].kind # "TeamPreview"
    BY <1>1, TurnShape
  <2> HIDE DEF t
  <2> QED
    BY <2>1
<1>5. Len(md) \in Nat
  <2>1. PICK j \in 0 .. MaxMid : md \in [1 .. j -> JointPick]
    BY DEF MidHistory
  <2> QED
    BY <2>1, SeqOfFcn, SidesAssumption
<1>6. raw = SubSeq(b.log, 1, at + Len(md)) /\ Len(md) < T
  OBVIOUS
<1>7. b.log \in Seq(Line)
  BY <1>2 DEF Battle
<1> HIDE DEF t, b, T, at
<1>8. /\ at + Len(md) \in Nat /\ at + Len(md) + 1 = at + k /\ k \in 1 .. T
      /\ at + k \in Nat /\ at + k =< Len(b.log)
  BY <1>1, <1>2, <1>3, <1>5, <1>6
<1>9. SubSeq(b.log, 1, at + k) = Append(raw, t.segs[k].line)
  <2>1. SubSeq(b.log, 1, at + Len(md) + 1)
           = Append(SubSeq(b.log, 1, at + Len(md)), b.log[at + Len(md) + 1])
    BY <1>7, <1>8, GrowsByOne
  <2>2. b.log[at + k] = t.segs[k].line
    BY <1>3, <1>8
  <2> HIDE DEF k
  <2> QED
    BY <1>6, <1>8, <2>1, <2>2
<1>10. Expose(b, at + k) = SubSeq(b.log, 1, at + k)
  <2>1. at + Len(md) =< at + k
    BY <1>1, <1>5
  <2> HIDE DEF k
  <2> QED
    BY <1>2, <1>6, <1>8, <2>1, ExposeMore
<1>a. SUFFICES OneSegment(t, k, m, md) /\ t.segs[k].kind # "TeamPreview"
  BY <1>a DEF t, k
<1> HIDE DEF k
<1>11. t.segs[k].kind # "TeamPreview"
  BY <1>4, <1>8
<1>12. CASE k < T /\ Pause(b, StopAt(t.segs[k], at + k), m, md)
  <2> DEFINE sp == StopAt(t.segs[k], at + k)
  <2>1. sp.line = at + k /\ sp.kind = t.segs[k].kind /\ sp.open = t.segs[k].open
    BY DEF StopAt
  <2>2. t.segs[k].kind # "Over"
    BY <1>4, <1>8, <1>12
  <2>3. /\ raw' = Append(raw, t.segs[k].line) /\ stop' = sp /\ base' = base
        /\ main' = m /\ mid' = md /\ ended' = ended
    BY <1>9, <1>10, <1>12, <2>1 DEF Pause
  <2>4. ended' = FALSE
    BY <2>3 DEF TypeOK
  <2> HIDE DEF sp
  <2> QED
    BY <1>11, <1>12, <2>1, <2>2, <2>3, <2>4 DEF OneSegment, T
<1>13. CASE k >= T
  <2>1. k = T
    BY <1>2, <1>8, <1>13
  <2>2. CASE t.segs[k].kind # "Over" /\ Reach(b, StopAt(t.segs[k], at + k))
    <3> DEFINE sp == StopAt(t.segs[k], at + k)
    <3>1. sp.line = at + k /\ sp.kind = t.segs[k].kind /\ sp.open = t.segs[k].open
      BY DEF StopAt
    <3>2. /\ raw' = Append(raw, t.segs[k].line) /\ stop' = sp /\ base' = b
          /\ main' = Nobody /\ mid' = <<>> /\ ended' = ended
      BY <1>9, <1>10, <2>2, <3>1 DEF Reach
    <3>3. ended' = FALSE
      BY <3>2 DEF TypeOK
    <3> HIDE DEF sp
    <3>4. ~(k < T)
      BY <1>2, <2>1
    <3> QED
      BY <1>3, <1>11, <2>2, <3>1, <3>2, <3>3, <3>4 DEF OneSegment, T
  <2>3. CASE t.segs[k].kind = "Over" /\ Finish(b)
    <3>1. raw' = Append(raw, t.segs[k].line)
      BY <1>3, <1>9, <1>10, <2>1, <2>3 DEF Finish
    <3> QED
      BY <1>11, <2>3, <3>1 DEF OneSegment, Finish, T
  <2>4. ~(k < T)
    BY <1>2, <2>1
  <2> QED
    BY <1>2, <2>1, <2>2, <2>3, <2>4
<1> QED
  BY <1>2, <1>12, <1>13

\* The mapped `turn` variable of IncrementalBattle.
TurnGiven == IF ended THEN None
             ELSE [rng |-> IF stop.kind = "TeamPreview" THEN Seed ELSE base.rng,
                   main |-> main, mid |-> mid]

\* The point the battle stands at, as the incremental battle names it.
PointAt == [kind |-> stop.kind, open |-> stop.open]

\* The instance's own copies of the definitions both modules extend.
LEMMA Shared ==
    /\ Incremental!Nobody = Nobody
    /\ \A g, m, md : Incremental!Turn(g, m, md) = Turn(g, m, md)
    /\ \A k : Incremental!AnswerAt(k) = AnswerAt(k)
<1>1. Incremental!Nobody = Nobody
  BY DEF Incremental!Nobody, Nobody
<1>2. \A g, m, md : Incremental!Turn(g, m, md) = Turn(g, m, md)
  BY DEF Incremental!Turn, Turn, Incremental!Picks, Picks
<1>3. \A k : Incremental!AnswerAt(k) = AnswerAt(k)
  BY DEF Incremental!AnswerAt, AnswerAt
<1> QED
  BY <1>1, <1>2, <1>3

LEMMA RefinesInit == Init => Incremental!Init
<1> SUFFICES ASSUME Init PROVE Incremental!Init
  OBVIOUS
<1>1. CASE base = Builder(Nobody)
  <2> DEFINE b == Builder(Nobody)
  <2>1. /\ b \in Battle /\ b.log \in Seq(Line) /\ Len(b.log) = 2 /\ b.log[1] = Preview
        /\ b.stops[1] = StopAt(PreviewSeg, 1)
    BY NobodyTyped, BuilderShape DEF Battle
  <2>2. stop.line = 1 /\ stop.kind = "TeamPreview" /\ stop.open = Sides
    BY <1>1, <2>1 DEF Init, StopAt, PreviewSeg
  <2> HIDE DEF b
  <2>3. raw = SubSeq(b.log, 1, 1)
    BY <1>1, <2>2 DEF Init, b
  <2>4. raw = <<Preview>>
    <3>1. SubSeq(b.log, 1, 1) \in Seq(Line) /\ Len(SubSeq(b.log, 1, 1)) = 1 /\ SubSeq(b.log, 1, 1)[1] = Preview
      BY <2>1, PrefixOf
    <3>2. <<Preview>> \in Seq(Line) /\ Len(<<Preview>>) = 1 /\ <<Preview>>[1] = Preview
      BY SidesAssumption
    <3>3. \A i \in 1 .. 1 : raw[i] = <<Preview>>[i]
      BY <2>3, <3>1
    <3> QED
      BY <2>3, <3>1, <3>2, <3>3, SeqEqual
  <2> QED
    BY <1>1, <2>2, <2>4, Shared
       DEF Init, Incremental!Init, Incremental!PreviewPoint, Incremental!Fresh
<1>2. CASE base = NoPreview
  <2> DEFINE o == Opening(Seed, Nobody)
  <2>1. /\ NoPreview \in Battle /\ NoPreview.log \in Seq(Line)
        /\ Len(NoPreview.log) = 1 /\ NoPreview.log[1] = o.seg.line
        /\ NoPreview.stops[1] = StopAt(o.seg, 1) /\ NoPreview.rng = o.rng /\ o.seg.kind = "Move"
    BY NoPreviewShape DEF Battle
  <2> HIDE DEF o
  <2>2. stop.line = 1 /\ stop.kind = o.seg.kind /\ stop.open = o.seg.open
    BY <1>2, <2>1 DEF Init, StopAt
  <2>3. raw = <<o.seg.line>>
    <3>1. SubSeq(NoPreview.log, 1, 1) = NoPreview.log
      BY <2>1, SubSeqFull
    <3>2. NoPreview.log = <<o.seg.line>>
      BY <2>1
    <3> QED
      BY <1>2, <2>2, <3>1, <3>2 DEF Init
  <2> QED
    BY <1>2, <2>1, <2>2, <2>3, Shared
       DEF Init, Incremental!Init, Incremental!PointOf, Incremental!Fresh, o
<1> QED
  BY <1>1, <1>2 DEF Init

\* The last answer resolves the stop: one segment more is played.
LEMMA AdvanceResolves ==
    ASSUME TypeInv, ReplayInv, ~ended, NEW ans, AnswersTo(ans), open = stop.open,
           \A s \in Sides : ans[s] # None <=> s \in open,
           PlayAnswers(ans, <<>>, mid), answered' = Nobody
    PROVE  Incremental!Resolve(ans)
<1>1. /\ TypeOK /\ base \in Battle /\ base.rng \in Rng /\ base.log \in Seq(Line)
      /\ Len(base.log) \in Nat /\ main \in JointMain /\ mid \in MidHistory /\ ans \in Joint
  BY LenProperties DEF TypeInv, TypeOK, Battle, AnswersTo
<1>2. CASE stop.kind = "TeamPreview" /\ Settle(Builder(ans), 1, main, mid, FALSE)
  <2> DEFINE o == Opening(Seed, ans)
             b == Builder(ans)
  <2>1. Reach(b, StopAt(o.seg, 2)) /\ o.seg.kind = "Move"
    BY <1>1, <1>2, PreviewEffect
  <2>2. /\ b \in Battle /\ b.log \in Seq(Line) /\ Len(b.log) = 2
        /\ b.log[1] = Preview /\ b.log[2] = o.seg.line /\ b.rng = o.rng
    BY <1>1, BuilderShape DEF Battle
  <2> HIDE DEF o, b
  <2>3. BetweenTurns
    BY <1>2 DEF ReplayInv
  <2>4. raw = SubSeq(base.log, 1, 1) /\ base.log[1] = Preview /\ 1 =< Len(base.log)
    <3>1. stop.line = 1 /\ stop.line \in 1 .. Len(base.log) /\ base.log[1] = Preview
          /\ raw = SubSeq(base.log, 1, stop.line)
      BY <1>2, <2>3 DEF BetweenTurns
    <3> QED
      BY <1>1, <3>1
  <2>5. raw = SubSeq(b.log, 1, 1)
    <3>1. SubSeq(base.log, 1, 1) = SubSeq(b.log, 1, 1)
      BY <1>1, <2>2, <2>4, SamePrefix
    <3> QED
      BY <2>4, <3>1
  <2>6. Expose(b, 2) = Append(raw, o.seg.line)
    <3>1. raw = SubSeq(b.log, 1, 1) /\ 2 =< Len(b.log) /\ 1 \in Nat /\ 2 \in Nat /\ 1 + 1 = 2
      BY <2>2, <2>5
    <3>2. Expose(b, 2) = SubSeq(b.log, 1, 2)
      BY <2>2, <3>1, ExposeMore
    <3>3. SubSeq(b.log, 1, 1 + 1) = Append(SubSeq(b.log, 1, 1), b.log[1 + 1])
      BY <2>2, <3>1, GrowsByOne
    <3> QED
      BY <2>2, <3>1, <3>2, <3>3
  <2>7. /\ raw' = Append(raw, o.seg.line) /\ ended' = FALSE /\ base' = b
        /\ stop'.kind = "Move" /\ stop'.open = o.seg.open /\ main' = Nobody /\ mid' = <<>>
    BY <1>1, <2>1, <2>6 DEF Reach, StopAt, TypeOK
  <2>8. Incremental!PlayOn(o.seg, Incremental!Fresh(o.rng))
    BY <2>1, <2>2, <2>7, Shared DEF Incremental!PlayOn, Incremental!Fresh, Incremental!PointOf
  <2> QED
    BY <1>2, <2>8 DEF Incremental!Resolve, o
<1>3. ASSUME NEW m \in JointMain, NEW md \in MidHistory, stop.kind # "TeamPreview",
             m = IF stop.kind = "MidTurn" THEN main ELSE ans,
             md = IF stop.kind = "MidTurn" THEN Append(mid, ans) ELSE <<>>,
             OneSegment(Turn(base.rng, m, md), Len(md) + 1, m, md),
             Turn(base.rng, m, md).segs[Len(md) + 1].kind # "TeamPreview"
      PROVE  Incremental!Resolve(ans)
  <2> DEFINE t == Turn(base.rng, m, md)
             k == Len(md) + 1
             after == IF k < Len(t.segs) THEN [TurnGiven EXCEPT !.main = m, !.mid = md]
                                         ELSE Incremental!Fresh(t.rng)
  <2>1. OneSegment(t, k, m, md) /\ t.segs[k].kind # "TeamPreview"
    BY <1>3
  <2>2. TurnGiven = [rng |-> base.rng, main |-> main, mid |-> mid]
    BY <1>3 DEF TurnGiven
  <2> HIDE DEF t, k
  <2>3. Incremental!PlayOn(t.segs[k], after)
    <3>1. CASE t.segs[k].kind = "Over"
      BY <2>1, <3>1, Shared DEF OneSegment, Incremental!PlayOn
    <3>2. CASE t.segs[k].kind # "Over" /\ k < Len(t.segs)
      BY <2>1, <2>2, <3>2, Shared DEF OneSegment, Incremental!PlayOn, Incremental!PointOf
    <3>3. CASE t.segs[k].kind # "Over" /\ ~(k < Len(t.segs))
      BY <2>1, <3>3, Shared DEF OneSegment, Incremental!PlayOn, Incremental!PointOf, Incremental!Fresh
    <3> QED
      BY <3>1, <3>2, <3>3
  <2> QED
    BY <1>3, <2>2, <2>3, Shared DEF Incremental!Resolve, TurnGiven, t, k
<1>4. CASE stop.kind \in {"Move", "Replace"} /\ ans \in JointMain /\ Run(ans, <<>>)
  <2> DEFINE b == Step(base, ans, <<>>)
             t == Turn(base.rng, ans, <<>>)
             p == Len(base.log)
  <2>1. <<>> \in MidHistory /\ Len(<<>>) = 0
    BY NobodyTyped
  <2>2. /\ b \in Battle /\ Len(b.log) = p + Len(t.segs) /\ Len(t.segs) \in 1 .. MaxMid + 1
        /\ \A i \in 1 .. p : b.log[i] = base.log[i]
    BY <1>1, <1>4, <2>1, StepShape
  <2>3. raw = SubSeq(base.log, 1, p)
    BY <1>4 DEF ReplayInv, BetweenTurns
  <2> HIDE DEF b, t, p
  <2>4. p \in Nat /\ p =< Len(base.log) /\ p + 0 = p /\ p = Len(base.log)
    BY <1>1 DEF p
  <2>5. Len(t.segs) \in Nat /\ p =< Len(b.log) /\ 0 < Len(t.segs) /\ b.log \in Seq(Line)
    <3>1. b.log \in Seq(Line)
      BY <2>2 DEF Battle
    <3>2. Len(t.segs) \in Nat /\ 0 < Len(t.segs)
      BY <2>2, SidesAssumption
    <3>3. p =< p + Len(t.segs)
      <4>1. \A x, y \in Nat : x =< x + y
        OBVIOUS
      <4> QED
        BY <2>4, <3>2, <4>1
    <3> QED
      BY <2>2, <3>1, <3>2, <3>3
  <2>6. SubSeq(base.log, 1, p) = SubSeq(b.log, 1, p)
    BY <1>1, <2>2, <2>4, <2>5, SamePrefix
  <2>7. raw = SubSeq(b.log, 1, Len(base.log) + Len(<<>>)) /\ Len(<<>>) < Len(t.segs)
    BY <2>1, <2>3, <2>4, <2>5, <2>6
  <2>8. /\ OneSegment(Turn(base.rng, ans, <<>>), Len(<<>>) + 1, ans, <<>>)
        /\ Turn(base.rng, ans, <<>>).segs[Len(<<>>) + 1].kind # "TeamPreview"
    BY <1>1, <1>4, <2>1, <2>7, RunPlaysOne DEF b, t
  <2>9. stop.kind # "TeamPreview" /\ stop.kind # "MidTurn"
    BY <1>4
  <2> QED
    BY <1>3, <1>4, <2>1, <2>8, <2>9
<1>5. CASE /\ stop.kind = "MidTurn" /\ ans \in JointPick /\ Append(mid, ans) \in MidHistory
           /\ Len(mid) \in Nat /\ Len(Append(mid, ans)) = Len(mid) + 1
           /\ Run(main, Append(mid, ans))
  <2> DEFINE md == Append(mid, ans)
             u == Turn(base.rng, main, md)
             b == Step(base, main, md)
  <2>1. raw = SubSeq(b.log, 1, Len(base.log) + Len(md)) /\ Len(md) < Len(u.segs)
    BY <1>1, <1>5, PicksReplay
  <2>2. /\ OneSegment(u, Len(md) + 1, main, md)
        /\ u.segs[Len(md) + 1].kind # "TeamPreview"
    BY <1>1, <1>5, <2>1, RunPlaysOne
  <2>3. stop.kind # "TeamPreview"
    BY <1>5
  <2> QED
    BY <1>1, <1>3, <1>5, <2>2, <2>3
<1> QED
  BY <1>2, <1>4, <1>5, PlayEffect

\* Every step of the session is a step of the incremental battle, or none.
LEMMA RefinesStep ==
    ASSUME "MidTurn" \notin ReseedAt
    PROVE  TypeInv /\ Decided /\ ReplayInv /\ [Next]_vars
              => [Incremental!Next]_(Incremental!vars)
<1> SUFFICES ASSUME TypeInv, Decided, ReplayInv, [Next]_vars
             PROVE  Incremental!Next \/ UNCHANGED Incremental!vars
  OBVIOUS
<1> DEFINE Stays == /\ raw' = raw /\ stop' = stop /\ base' = base
                    /\ main' = main /\ mid' = mid /\ ended' = ended
<1>1. ASSUME Stays, answered' = answered PROVE UNCHANGED Incremental!vars
  BY <1>1 DEF Incremental!vars
<1>2. ASSUME NEW s \in Sides, NEW a \in AnswerAt(stop.kind), ~ended, s \in open,
             answered' = [answered EXCEPT ![s] = a], Stays
      PROVE  Incremental!Next
  <2>1. s \in PointAt.open /\ a \in Incremental!AnswerAt(PointAt.kind)
    BY <1>2, Shared DEF PointAt, Decided, AnswerInv
  <2>2. Incremental!Seal(s, a)
    BY <1>2, <2>1 DEF Incremental!Seal, PointAt
  <2> QED
    BY <2>1, <2>2 DEF Incremental!Next, PointAt
<1>3. ASSUME NEW s \in Sides, NEW a \in AnswerAt(stop.kind), NEW hides \in BOOLEAN,
             Accept(s, a, hides)
      PROVE  Incremental!Next
  <2>1. CASE /\ File(s, a, hides \/ ~CancelMod)
             /\ UNCHANGED <<base, shown, stop, open, maybe, main, mid, raw,
                            newRequests, inputLog, ended, commits, drained>>
    BY <1>2, <1>3, <2>1, AcceptCases DEF File
  <2>2. CASE /\ \A r \in open : r = s \/ answered[r] # None
             /\ Advance([answered EXCEPT ![s] = a], [choiceText EXCEPT ![s] = a])
    <3> DEFINE ans == [answered EXCEPT ![s] = a]
    <3>1. ~ended /\ s \in open
      BY <1>3, AcceptCases
    <3>2. AnswersTo(ans)
      BY <3>1, LastAnswer
    <3>3. a # None
      <4>1. stop.kind \in StopKind
        BY DEF TypeInv, TypeOK, Stop
      <4>2. a \in Answers
        BY <4>1 DEF AnswerAt, Answers, StopKind
      <4> QED
        BY <4>2, SidesAssumption
    <3>4. \A r \in Sides : ans[r] # None <=> r \in open
      BY <2>2, <3>1, <3>3 DEF TypeInv, TypeOK, Decided, AnswerInv, Joint
    <3>5. PlayAnswers(ans, <<>>, mid) /\ answered' = Nobody
      BY <2>2 DEF Advance, Commitment
    <3>6. open = stop.open /\ open \subseteq Sides
      BY <3>1 DEF Decided, AnswerInv, TypeInv, TypeOK
    <3>7. Incremental!Resolve(ans)
      <4> HIDE DEF ans
      <4> QED
        BY <3>1, <3>2, <3>4, <3>5, <3>6, AdvanceResolves
    <3>8. s \in PointAt.open /\ a \in Incremental!AnswerAt(PointAt.kind)
          /\ \A r \in PointAt.open : ans[r] # None
      <4> HIDE DEF ans
      <4> QED
        BY <3>1, <3>4, <3>6, Shared DEF PointAt
    <3>9. Incremental!Seal(s, a)
      BY <3>1, <3>7, <3>8 DEF Incremental!Seal, PointAt
    <3> QED
      BY <3>8, <3>9 DEF Incremental!Next, PointAt
  <2> QED
    BY <1>3, <2>1, <2>2, AcceptCases
<1>4. ASSUME NEW s \in Sides, NEW a \in AnswerAt(stop.kind), NEW hides \in BOOLEAN,
             RefuseFilled(s, a, hides)
      PROVE  Incremental!Next
  BY <1>2, <1>4 DEF RefuseFilled, Acceptable, MayChoose, File
<1>5. ASSUME NEW s \in Sides, Refuse(s) \/ Undo(s) PROVE Incremental!Next
  <2>1. ~ended /\ s \in open /\ answered' = [answered EXCEPT ![s] = None] /\ Stays
    BY <1>5 DEF Refuse, Undo, MayChoose, File
  <2>2. s \in PointAt.open
    BY <2>1 DEF PointAt, Decided, AnswerInv
  <2>3. Incremental!Unseal(s)
    BY <2>1, <2>2 DEF Incremental!Unseal, PointAt
  <2> QED
    BY <2>3 DEF Incremental!Next
<1>6. ASSUME NEW v \in Verdict, End(v) PROVE Incremental!Next
  <2>1. raw' = Append(raw, v)
    BY <1>6, EndExposes
  <2>2. ~ended /\ ended' = TRUE /\ stop' = stop /\ answered' = answered
    BY <1>6 DEF End
  <2>3. Incremental!ForceEnd(v)
    BY <2>1, <2>2 DEF Incremental!ForceEnd
  <2> QED
    BY <2>3 DEF Incremental!Next
<1>7. ASSUME NEW g \in Rng, Reseed(g) PROVE Incremental!Next \/ UNCHANGED Incremental!vars
  <2>1. /\ base' = [base EXCEPT !.rng = g] /\ stop' = stop /\ raw' = raw /\ main' = main
        /\ mid' = mid /\ ended' = ended /\ answered' = answered /\ stop.kind # "MidTurn"
    BY <1>7 DEF Reseed, history
  <2>2. base'.rng = g
    BY <2>1 DEF TypeInv, TypeOK, Battle
  <2>3. CASE ended \/ stop.kind = "TeamPreview"
    BY <2>1, <2>3 DEF Incremental!vars
  <2>4. CASE ~ended /\ stop.kind # "TeamPreview"
    <3>1. TurnGiven = [rng |-> base.rng, main |-> main, mid |-> mid]
          /\ TurnGiven' = [rng |-> g, main |-> main, mid |-> mid]
      BY <2>1, <2>2, <2>4 DEF TurnGiven
    <3>2. TurnGiven' = [TurnGiven EXCEPT !.rng = g]
      BY <3>1
    <3>3. Incremental!Reseed(g)
      BY <2>1, <2>4, <3>2 DEF Incremental!Reseed, TurnGiven
    <3> QED
      BY <3>3 DEF Incremental!Next
  <2> QED
    BY <2>3, <2>4
<1>8. CASE TakeNewRequests \/ TakeInputLog \/ UNCHANGED vars
  BY <1>1, <1>8 DEF TakeNewRequests, TakeInputLog, vars, history
<1>9. ASSUME NEW s \in Sides, Rebuff(s) PROVE UNCHANGED Incremental!vars
  BY <1>1, <1>9 DEF Rebuff, vars
<1> QED
  BY <1>3, <1>4, <1>5, <1>6, <1>7, <1>8, <1>9 DEF Next, Choose

\* The session, which reruns whole turns, implements the battle that stops
\* wherever it needs a decision and goes on from that very point, whatever
\* the turns are, unless somebody reseeds inside a turn.
THEOREM SessionRefines ==
    ASSUME "MidTurn" \notin ReseedAt
    PROVE  Spec => ImplementsIncremental
<1>1. Init => TypeInv /\ Decided /\ ReplayInv /\ Incremental!Init
  BY InitTyped, DecidedInit, ReplayInit, RefinesInit
<1>2. TypeInv /\ Decided /\ ReplayInv /\ [Next]_vars => (TypeInv /\ Decided /\ ReplayInv)'
  BY TypeStep, DecidedStep, ReplayStep
<1>3. TypeInv /\ Decided /\ ReplayInv /\ [Next]_vars
         => [Incremental!Next]_(Incremental!vars)
  BY RefinesStep
<1> QED
  BY <1>1, <1>2, <1>3, PTL DEF Spec, ImplementsIncremental, Incremental!Spec

-----------------------------------------------------------------------------
(* The feed of the stream.  A session is the feed its stream relies on: this *)
(* joins PsSession.tla to PsStream.tla, which sees its session through       *)
(* SessionFeed.tla only.                                                     *)

told == drained \o inputLog

-----------------------------------------------------------------------------
(* What a sequence has grown by. *)

\* Whatever ends a longer sequence is one of its elements.
LEMMA LastElement ==
    ASSUME NEW S, NEW s \in Seq(S), NEW x, Append(s, x) \in Seq(S)
    PROVE  x \in S
<1> DEFINE R == S \cup {x}
<1>1. s \in Seq(R) /\ x \in R /\ Len(s) \in Nat
  <2>1. s \in [1 .. Len(s) -> S] /\ Len(s) \in Nat
    BY LenProperties
  <2>2. s \in [1 .. Len(s) -> R]
    BY <2>1
  <2> HIDE DEF R
  <2>3. s \in Seq(R)
    BY <2>1, <2>2, SeqOfFcn
  <2> QED
    BY <2>1, <2>3 DEF R
<1> HIDE DEF R
<1>2. Len(Append(s, x)) = Len(s) + 1 /\ Append(s, x)[Len(s) + 1] = x
  BY <1>1, AppendProperties
<1>3. Len(s) + 1 \in 1 .. Len(Append(s, x))
  BY <1>1, <1>2
<1> QED
  BY <1>2, <1>3, ElementOfSeq

\* What a concatenation added is its second half.
LEMMA GrownIsTail ==
    ASSUME NEW S, NEW s \in Seq(S), NEW t \in Seq(S)
    PROVE  Feed!Grown(s, s \o t) = t
<1> DEFINE u == s \o t
           g == SubSeq(u, Len(s) + 1, Len(u))
<1>1. Len(s) \in Nat /\ Len(t) \in Nat
  BY LenProperties
<1>2. /\ u \in Seq(S) /\ Len(u) = Len(s) + Len(t)
      /\ \A i \in 1 .. Len(t) : u[Len(s) + i] = t[i]
  BY ConcatTail
<1> HIDE DEF u
<1>3. \A i \in Len(s) + 1 .. Len(u) : u[i] \in S
  <2> TAKE i \in Len(s) + 1 .. Len(u)
  <2>1. i \in 1 .. Len(u)
    BY <1>1, <1>2
  <2> QED
    BY <1>2, <2>1, ElementOfSeq
<1>4. Len(s) + 1 \in Int /\ Len(u) \in Int
  BY <1>1, <1>2
<1>5. /\ g \in Seq(S)
      /\ Len(g) = IF Len(s) + 1 <= Len(u) THEN Len(u) - (Len(s) + 1) + 1 ELSE 0
      /\ \A i \in 1 .. Len(u) - (Len(s) + 1) + 1 : g[i] = u[Len(s) + 1 + i - 1]
  BY <1>3, <1>4, SubSeqProperties
<1> HIDE DEF g
<1>6. Len(g) = Len(t) /\ Len(u) - (Len(s) + 1) + 1 = Len(t)
  BY <1>1, <1>2, <1>5
<1>7. \A i \in 1 .. Len(t) : g[i] = t[i]
  <2> TAKE i \in 1 .. Len(t)
  <2>1. Len(s) + 1 + i - 1 = Len(s) + i
    BY <1>1
  <2> QED
    BY <1>2, <1>5, <1>6, <2>1
<1>8. g = t
  BY <1>5, <1>6, <1>7, SeqEqual
<1> QED
  BY <1>8 DEF Feed!Grown, g, u

\* One element more is a growth by that element.
LEMMA GrownByOne ==
    ASSUME NEW S, NEW s \in Seq(S), NEW x \in S
    PROVE  /\ Append(s, x) = s \o Feed!Grown(s, Append(s, x))
           /\ Feed!Grown(s, Append(s, x)) # <<>>
<1>1. Append(s, x) = s \o <<x>> /\ <<x>> \in Seq(S)
  BY AppendIsConcat
<1>2. Feed!Grown(s, Append(s, x)) = <<x>>
  BY <1>1, GrownIsTail
<1>3. <<x>> # <<>>
  OBVIOUS
<1> QED
  BY <1>1, <1>2, <1>3

-----------------------------------------------------------------------------
(* Every step feeds the stream, or tells it nothing. *)

\* Every stop a joint answer leads to announces its requests.
LEMMA PlayAnnounces ==
    ASSUME TypeInv, ~ended, NEW ans, AnswersTo(ans), PlayAnswers(ans, <<>>, mid)
    PROVE  newRequests' = IF ended' THEN newRequests ELSE TRUE
<1>1. /\ base \in Battle /\ main \in JointMain /\ <<>> \in MidHistory
      /\ ans \in Joint /\ ended \in BOOLEAN
  BY NobodyTyped DEF TypeInv, TypeOK, AnswersTo
<1> DEFINE Silenced == ended' = TRUE /\ newRequests' = newRequests
           Announced == ended' = FALSE /\ newRequests' = TRUE
<1>2. ASSUME NEW m \in JointMain, NEW md \in MidHistory, Run(m, md)
      PROVE  Silenced \/ Announced
  BY <1>1, <1>2, RunEffect DEF Pause, Reach, Finish
<1>3. ASSUME Settle(Builder(ans), 1, main, mid, FALSE) PROVE Announced
  <2>1. Reach(Builder(ans), StopAt(Opening(Seed, ans).seg, 2))
    BY <1>1, <1>3, PreviewEffect
  <2>2. newRequests' = TRUE /\ ended' = ended
    BY <2>1 DEF Reach
  <2> QED
    BY <1>1, <2>2
<1> HIDE DEF Silenced, Announced
<1>4. Silenced \/ Announced
  BY <1>1, <1>2, <1>3, PlayEffect
<1>5. CASE Silenced
  BY <1>5 DEF Silenced
<1>6. CASE Announced
  BY <1>6 DEF Announced
<1> QED
  BY <1>4, <1>5, <1>6

\* What the session has told, in order, is one sequence.
LEMMA ToldTyped == AnswerInv => told \in Seq(Joint)
BY ConcatProperties DEF AnswerInv, told

\* The last answer moves the battle on: new lines, and its choices are told.
LEMMA FeedMovesOn ==
    ASSUME TypeInv, Decided, ReplayInv, ~ended,
           NEW s \in Sides, NEW a \in AnswerAt(stop.kind), s \in open,
           \A r \in open : r = s \/ answered[r] # None,
           Advance([answered EXCEPT ![s] = a], [choiceText EXCEPT ![s] = a])
    PROVE  Feed!Next
<1> DEFINE ans == [answered EXCEPT ![s] = a]
           grown == Feed!Grown(raw, raw')
           more == Feed!Grown(told, told')
<1>1. AnswersTo(ans) /\ answered \in Joint /\ raw \in Seq(Line)
  BY LastAnswer DEF TypeInv, TypeOK
<1>2. /\ answered' = Nobody /\ drained' = drained /\ inputLog' = Append(inputLog, ans)
      /\ PlayAnswers(ans, <<>>, mid)
  BY DEF Advance, Commitment, Decided, AnswerInv
<1>3. a # None
  <2>1. stop.kind \in StopKind
    BY DEF TypeInv, TypeOK, Stop
  <2>2. a \in Answers
    BY <2>1 DEF AnswerAt, Answers, StopKind
  <2> QED
    BY <2>2, SidesAssumption
<1>4. \A r \in Sides : ans[r] # None <=> r \in open
  BY <1>1, <1>3 DEF TypeInv, TypeOK, Decided, AnswerInv, Joint
<1>5. open = stop.open
  BY DEF Decided, AnswerInv
<1> HIDE DEF ans
<1>6. PICK x : raw' = Append(raw, x)
  <2>1. Incremental!Resolve(ans)
    BY <1>1, <1>2, <1>4, <1>5, AdvanceResolves
  <2> QED
    BY <2>1 DEF Incremental!Resolve, Incremental!PlayOn
<1>7. raw' \in Seq(Line) /\ ended' \in BOOLEAN
  BY <1>1, <1>2, PlayTyped DEF Settled
<1>8. raw' = raw \o grown /\ grown # <<>>
  <2>1. x \in Line
    BY <1>1, <1>6, <1>7, LastElement
  <2> QED
    BY <1>1, <1>6, <2>1, GrownByOne
<1>9. told' = told \o more
  <2>1. /\ drained \in Seq(Joint) /\ inputLog \in Seq(Joint) /\ ans \in Joint
        /\ told \in Seq(Joint)
    BY <1>1, ToldTyped DEF Decided, AnswerInv, AnswersTo
  <2>2. Append(inputLog, ans) = inputLog \o <<ans>> /\ <<ans>> \in Seq(Joint)
    BY <2>1, AppendIsConcat
  <2>3. told' = told \o <<ans>>
    BY <1>2, <2>1, <2>2, ConcatAssociative DEF told
  <2> QED
    BY <2>1, <2>2, <2>3, GrownIsTail
<1>10. newRequests' = IF ended' THEN newRequests ELSE TRUE
  BY <1>1, <1>2, PlayAnnounces
<1>11. Feed!MoveOn(grown, more, ended')
  <2> HIDE DEF grown, more
  <2> QED
    BY <1>8, <1>9, <1>10 DEF Feed!MoveOn, told
<1> QED
  BY <1>7, <1>11 DEF Feed!Next, told

\* Every step of the session is a step of its feed, or none.
LEMMA FeedStep ==
    TypeInv /\ Decided /\ ReplayInv /\ [Next]_vars => [Feed!Next]_(Feed!feed)
<1> SUFFICES ASSUME TypeInv, Decided, ReplayInv, [Next]_vars
             PROVE  Feed!Next \/ UNCHANGED Feed!feed
  OBVIOUS
<1> DEFINE Silent == /\ raw' = raw /\ newRequests' = newRequests /\ ended' = ended
                     /\ inputLog' = inputLog /\ drained' = drained
<1>1. ASSUME Silent PROVE UNCHANGED Feed!feed
  BY <1>1 DEF Feed!feed
<1>2. ASSUME NEW s \in Sides, NEW a \in AnswerAt(stop.kind), NEW hides \in BOOLEAN,
             Accept(s, a, hides)
      PROVE  Feed!Next \/ UNCHANGED Feed!feed
  <2>1. CASE UNCHANGED <<base, shown, stop, open, maybe, main, mid, raw,
                         newRequests, inputLog, ended, commits, drained>>
    BY <1>1, <2>1
  <2>2. CASE /\ \A r \in open : r = s \/ answered[r] # None
             /\ Advance([answered EXCEPT ![s] = a], [choiceText EXCEPT ![s] = a])
    BY <1>2, <2>2, AcceptCases, FeedMovesOn
  <2> QED
    BY <1>2, <2>1, <2>2, AcceptCases
<1>3. ASSUME NEW s \in Sides, NEW a \in AnswerAt(stop.kind), NEW hides \in BOOLEAN,
             RefuseFilled(s, a, hides)
      PROVE  UNCHANGED Feed!feed
  BY <1>1, <1>3 DEF RefuseFilled
<1>4. ASSUME NEW s \in Sides, Refuse(s) \/ Undo(s) \/ Rebuff(s) PROVE UNCHANGED Feed!feed
  BY <1>1, <1>4 DEF Refuse, Undo, Rebuff, vars
<1>5. ASSUME NEW v \in Verdict, End(v) PROVE Feed!Next
  <2>1. raw' = Append(raw, v) /\ v \in Line /\ raw \in Seq(Line)
    BY <1>5, EndExposes, SessionAssumption DEF TypeInv, TypeOK
  <2>2. raw' = raw \o Feed!Grown(raw, raw') /\ Feed!Grown(raw, raw') # <<>>
    BY <2>1, GrownByOne
  <2>3. /\ ~ended /\ ended' = TRUE /\ newRequests' = newRequests
        /\ inputLog' = inputLog /\ drained' = drained
    BY <1>5 DEF End
  <2>4. Feed!Close(Feed!Grown(raw, raw'))
    BY <2>2, <2>3 DEF Feed!Close
  <2> QED
    BY <2>4 DEF Feed!Next
<1>6. ASSUME NEW g \in Rng, Reseed(g) PROVE UNCHANGED Feed!feed
  BY <1>1, <1>6 DEF Reseed, history
<1>7. CASE TakeNewRequests
  BY <1>7 DEF TakeNewRequests, history, Feed!TakeNewRequests, Feed!Next
<1>8. CASE TakeInputLog
  <2>1. told \in Seq(Joint)
    BY ToldTyped DEF Decided
  <2>2. told' = told
    <3>1. told' = told \o <<>>
      BY <1>8 DEF TakeInputLog, told
    <3> QED
      BY <2>1, <3>1, ConcatEmptySeq
  <2> QED
    BY <1>8, <2>2 DEF TakeInputLog, Feed!feed, told
<1>9. CASE UNCHANGED vars
  BY <1>1, <1>9 DEF vars
<1> QED
  BY <1>2, <1>3, <1>4, <1>5, <1>6, <1>7, <1>8, <1>9 DEF Next, Choose

\* A session shows the first stop's lines as soon as it exists.
LEMMA FeedInit == Init => Feed!Init
<1> SUFFICES ASSUME Init PROVE Feed!Init
  OBVIOUS
<1>1. raw # <<>>
  BY RefinesInit DEF Incremental!Init
<1>2. drained \o inputLog = <<>>
  <2>1. <<>> \in Seq(Joint)
    BY EmptySeq
  <2>2. <<>> \o <<>> = <<>>
    BY <2>1, ConcatEmptySeq
  <2> QED
    BY <2>2 DEF Init
<1> QED
  BY <1>1, <1>2 DEF Init, Feed!Init, Feed!Opened

\* Unless somebody reseeds inside a turn, the stream may rely on its session
\* as a feed: the log only grows, every choice the battle moved on with is told
\* once, in order and over any number of take_input_log calls, every stop raises
\* the requests flag, and nothing follows the end (ps_session.rs:206, 236, 427).
THEOREM SessionFeeds ==
    ASSUME "MidTurn" \notin ReseedAt
    PROVE  Spec => FeedsTheStream
<1>1. Init => TypeInv /\ Decided /\ ReplayInv /\ Feed!Init
  BY InitTyped, DecidedInit, ReplayInit, FeedInit
<1>2. TypeInv /\ Decided /\ ReplayInv /\ [Next]_vars => (TypeInv /\ Decided /\ ReplayInv)'
  BY TypeStep, DecidedStep, ReplayStep
<1>3. TypeInv /\ Decided /\ ReplayInv /\ [Next]_vars => [Feed!Next]_(Feed!feed)
  BY FeedStep
<1> QED
  BY <1>1, <1>2, <1>3, PTL DEF Spec, FeedsTheStream, Feed!Spec
=============================================================================
