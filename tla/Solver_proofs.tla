--------------------------- MODULE Solver_proofs ---------------------------
(***************************************************************************)
(* What the solver's loops promise: the one that finds out what a turn may *)
(* lead to (ChanceFrontier), the one that solves the game of a turn        *)
(* (DoubleOracle), and the one below it that solves a matrix (ZeroSum).    *)
(* The first part is about every turn, every stream the fallback may draw  *)
(* from, every cap on the rounds and every threshold.  Its invariants are  *)
(* DeepInv, of the misses, and FairInv, of the masses: they count the      *)
(* vectors of rolls, one roll for each site.  The second part, from        *)
(* Summing on, is about every matrix; its invariants are SimplexInv, of  *)
(* the tableau there is, and TrailInv, of those there have been.  The      *)
(* third, from InLoop on, is about every game and every support; its       *)
(* invariant is IInv.                                                      *)
(***************************************************************************)
EXTENDS ChanceFrontier, ZeroSum, DoubleOracle, FunctionTheorems, SequenceTheorems, FiniteSetTheorems,
        WellFoundedInduction, TLAPS

-----------------------------------------------------------------------------
Less == {mn \in Nat \X Nat : mn[1] < mn[2]}

\* The least-number principle.
LEMMA Least ==
    ASSUME NEW B, B \subseteq Nat, B # {}
    PROVE  \E n \in B : \A m \in B : n <= m
<1>1. IsWellFoundedOn(Less, Nat)
  BY NatLessThanWellFounded DEF OpToRel, Less
<1>2. \E n \in B : \A m \in B : ~(<<m, n>> \in Less)
  BY <1>1, WFMin
<1>3. \A m, n \in Nat : <<m, n>> \notin Less => n <= m
  BY DEF Less
<1> QED BY <1>2, <1>3

\* Induction on the naturals, over the set of those that satisfy the claim.
LEMMA Counting ==
    ASSUME NEW P, 0 \in P, \A n \in Nat : n \in P => n + 1 \in P
    PROVE  Nat \subseteq P
<1> DEFINE B == Nat \ P
<1> SUFFICES ASSUME B # {} PROVE FALSE
  OBVIOUS
<1>1. PICK k \in B : \A j \in B : k <= j
  <2>1. B \subseteq Nat
    OBVIOUS
  <2> HIDE DEF B
  <2> QED BY <2>1, Least
<1>2. k # 0 /\ k - 1 \in Nat /\ ~(k <= k - 1)
  BY <1>1
<1>3. k - 1 \in P
  BY <1>1, <1>2
<1>4. (k - 1) + 1 = k
  BY <1>2
<1> QED BY <1>1, <1>2, <1>3, <1>4

LEMMA MinIs ==
    ASSUME NEW S, S \subseteq Nat, S # {}
    PROVE  Min(S) \in S /\ \A x \in S : Min(S) <= x
<1>1. PICK n \in S : \A x \in S : n <= x
  BY Least
<1> QED BY <1>1 DEF Min

LEMMA MinIsOnly ==
    ASSUME NEW S, S \subseteq Nat, NEW n \in S, \A x \in S : n <= x
    PROVE  Min(S) = n
<1>1. Min(S) \in S /\ \A x \in S : Min(S) <= x
  BY MinIs
<1>2. Min(S) <= n /\ n <= Min(S) /\ Min(S) \in Nat /\ n \in Nat
  BY <1>1
<1> QED BY <1>2

\* A set of numbers with a bound has a greatest.
LEMMA Greatest ==
    ASSUME NEW S, S \subseteq Nat, S # {}, NEW b \in Nat, \A x \in S : x <= b
    PROVE  \E n \in S : \A x \in S : x <= n
<1> DEFINE D == {d \in Nat : b - d \in S}
<1>1. PICK s \in S : TRUE
  OBVIOUS
<1>2. b - s \in Nat /\ b - (b - s) = s
  BY <1>1
<1>3. D # {} /\ D \subseteq Nat
  BY <1>1, <1>2
<1>4. PICK d \in D : \A e \in D : d <= e
  <2> HIDE DEF D
  <2> QED BY <1>3, Least
<1>5. ASSUME NEW x \in S PROVE x <= b - d
  <2>1. x \in Nat /\ b - x \in Nat /\ b - (b - x) = x
    OBVIOUS
  <2>2. b - x \in D
    BY <2>1
  <2>3. d <= b - x /\ d \in Nat
    BY <1>4, <2>2
  <2> QED BY <2>1, <2>3
<1>6. b - d \in S
  BY <1>4
<1> QED BY <1>5, <1>6

-----------------------------------------------------------------------------
(* A run, draw by draw.                                                     *)

Begin(ss) == [at |-> <<>>, left |-> DOMAIN ss, log |-> <<>>]

\* g is the run after each of the first m draws.
Running(g, t, s, ss, c, m) ==
    g = [n \in 0 .. m |-> IF n = 0 THEN Begin(ss) ELSE Draw(t, s, ss, c, g[n - 1])]

LEMMA RunningSteps ==
    ASSUME NEW g, NEW t, NEW s, NEW ss, NEW c, NEW m \in Nat, Running(g, t, s, ss, c, m)
    PROVE  /\ g[0] = Begin(ss)
           /\ \A n \in 1 .. m : g[n] = Draw(t, s, ss, c, g[n - 1])
<1>1. 0 \in 0 .. m /\ \A n \in 1 .. m : n \in 0 .. m /\ n # 0
  OBVIOUS
<1> QED BY <1>1 DEF Running

LEMMA RunningExists ==
    ASSUME NEW t, NEW s, NEW ss, NEW c, NEW m \in Nat
    PROVE  \E g : Running(g, t, s, ss, c, m)
<1> DEFINE P == {k \in Nat : \E g : Running(g, t, s, ss, c, k)}
<1>1. 0 \in P
  <2> DEFINE g == [n \in 0 .. 0 |-> Begin(ss)]
  <2>1. Running(g, t, s, ss, c, 0)
    BY DEF Running
  <2> QED BY <2>1
<1>2. ASSUME NEW j \in Nat, j \in P PROVE j + 1 \in P
  <2>1. PICK h : Running(h, t, s, ss, c, j)
    BY <1>2
  <2>2. h[0] = Begin(ss) /\ \A n \in 1 .. j : h[n] = Draw(t, s, ss, c, h[n - 1])
    BY <2>1, RunningSteps
  <2>3. PICK k \in Nat : k = j + 1
    OBVIOUS
  <2> DEFINE g == [n \in 0 .. k |-> IF n = k THEN Draw(t, s, ss, c, h[j]) ELSE h[n]]
  <2>4. ASSUME NEW n \in 0 .. k
        PROVE  g[n] = IF n = 0 THEN Begin(ss) ELSE Draw(t, s, ss, c, g[n - 1])
    <3>1. CASE n = 0
      BY <2>2, <2>3, <3>1
    <3>2. CASE n # 0
      <4>1. n - 1 \in 0 .. k /\ n - 1 # k /\ (n # k => n \in 1 .. j) /\ (n = k => n - 1 = j)
        BY <2>3, <3>2
      <4>2. g[n - 1] = h[n - 1]
        BY <4>1
      <4> QED BY <2>2, <3>2, <4>1, <4>2
    <3> QED BY <3>1, <3>2
  <2>5. Running(g, t, s, ss, c, k)
    BY <2>4 DEF Running
  <2> QED BY <2>3, <2>5
<1> HIDE DEF P
<1>3. m \in P
  BY <1>1, <1>2, Counting
<1> QED BY <1>3 DEF P

\* What Run computes.
LEMMA RunSteps ==
    ASSUME NEW t, NEW s, NEW ss, NEW c
    PROVE  /\ Run(t, s, ss, c)[0] = Begin(ss)
           /\ \A n \in Nat : n < MaxDraws =>
                 Run(t, s, ss, c)[n + 1] = Draw(t, s, ss, c, Run(t, s, ss, c)[n])
<1> DEFINE G == CHOOSE g : Running(g, t, s, ss, c, MaxDraws)
<1>0. MaxDraws \in Nat
  BY FrontierAssumption
<1>1. Running(G, t, s, ss, c, MaxDraws)
  BY <1>0, RunningExists
<1>2. Run(t, s, ss, c) = G
  BY DEF Run, Running, Begin
<1> HIDE DEF G
<1>3. G[0] = Begin(ss) /\ \A n \in 1 .. MaxDraws : G[n] = Draw(t, s, ss, c, G[n - 1])
  BY <1>0, <1>1, RunningSteps
<1>4. ASSUME NEW n \in Nat, n < MaxDraws PROVE G[n + 1] = Draw(t, s, ss, c, G[n])
  <2>1. n + 1 \in 1 .. MaxDraws /\ (n + 1) - 1 = n
    BY <1>0, <1>4
  <2> QED BY <1>3, <2>1
<1> QED BY <1>2, <1>3, <1>4

-----------------------------------------------------------------------------
(* One draw: the path is finished, or a roll is on file, or it is missed.   *)

Queue(t, ss, run) == {i \in run.left : ss[i].key = Key(t, run.at)}

LEMMA DrawOver ==
    ASSUME NEW t, NEW s, NEW ss, NEW c, NEW run, Key(t, run.at) = Over
    PROVE  Draw(t, s, ss, c, run) = run
  BY DEF Draw

LEMMA DrawFiled ==
    ASSUME NEW t, NEW s, NEW ss, NEW c, NEW run, Key(t, run.at) # Over, Queue(t, ss, run) # {}
    PROVE  Draw(t, s, ss, c, run) =
             [at   |-> Append(run.at, Cell(ss, c, Min(Queue(t, ss, run))).roll <= Odds(t, run.at)),
              left |-> run.left \ {Min(Queue(t, ss, run))},
              log  |-> run.log]
  BY DEF Draw, Queue

LEMMA DrawMissed ==
    ASSUME NEW t, NEW s, NEW ss, NEW c, NEW run, Key(t, run.at) # Over, Queue(t, ss, run) = {}
    PROVE  Draw(t, s, ss, c, run) =
             [at   |-> Append(run.at, s[Len(run.log) + 1] <= Odds(t, run.at)),
              left |-> run.left,
              log  |-> Append(run.log, [key |-> Key(t, run.at), odds |-> Odds(t, run.at), after |-> Len(run.at)])]
  BY DEF Draw, Queue

-----------------------------------------------------------------------------
(* What a run is made of.                                                   *)

\* An entry of the log of misses.
Noted == [key : Keys, odds : 0 .. Den, after : Nat]

LEMMA StoryIs ==
    ASSUME NEW path \in Seq(BOOLEAN), Len(path) <= MaxDraws
    PROVE  path \in Stories
<1>1. MaxDraws \in Nat /\ Len(path) \in 0 .. MaxDraws
  BY FrontierAssumption, LenProperties
<1>2. path \in [1 .. Len(path) -> BOOLEAN]
  BY LenProperties
<1> QED BY <1>1, <1>2 DEF Stories

LEMMA KeyIs ==
    ASSUME NEW t \in Turns, NEW path \in Seq(BOOLEAN), Len(path) <= MaxDraws
    PROVE  /\ Key(t, path) \in Keys \cup {Over}
           /\ Len(path) = MaxDraws => Key(t, path) = Over
<1>1. path \in Stories
  BY StoryIs
<1>2. Len(path) = MaxDraws => path \in [1 .. MaxDraws -> BOOLEAN]
  BY LenProperties
<1> QED BY <1>1, <1>2, FrontierAssumption DEF Key

LEMMA DrawnIs ==
    ASSUME NEW t, NEW path \in Seq(BOOLEAN), NEW k
    PROVE  Drawn(t, path, k) \in 0 .. Len(path)
<1>1. Len(path) \in Nat
  BY LenProperties
<1>2. IsFiniteSet(1 .. Len(path)) /\ Cardinality(1 .. Len(path)) = Len(path)
  BY <1>1, FS_Interval
<1> DEFINE D == {i \in 1 .. Len(path) : Key(t, SubSeq(path, 1, i - 1)) = k}
<1>3. D \in SUBSET (1 .. Len(path))
  OBVIOUS
<1>4. Drawn(t, path, k) = Cardinality(D)
  BY DEF Drawn
<1> HIDE DEF D
<1>5. Cardinality(D) \in Nat /\ Cardinality(D) <= Len(path)
  BY <1>2, <1>3, FS_Subset, FS_CardinalityType
<1> QED BY <1>1, <1>4, <1>5

LEMMA OddsAre ==
    ASSUME NEW t \in Turns, NEW path \in Seq(BOOLEAN), Len(path) < MaxDraws, Key(t, path) # Over
    PROVE  /\ Key(t, path) \in Keys
           /\ Odds(t, path) \in 0 .. Den
           /\ Drawn(t, path, Key(t, path)) + 1 \in 1 .. MaxDraws
<1>1. MaxDraws \in Nat /\ Len(path) \in Nat
  BY FrontierAssumption, LenProperties
<1>2. Key(t, path) \in Keys
  BY <1>1, KeyIs
<1>3. Drawn(t, path, Key(t, path)) + 1 \in 1 .. MaxDraws
  BY <1>1, DrawnIs
<1>4. t.odds \in [Keys -> [1 .. MaxDraws -> 0 .. Den]]
  BY FrontierAssumption
<1> QED BY <1>2, <1>3, <1>4 DEF Odds

\* What holds of the run r after n draws.
RunOK(t, ss, n, r) ==
    /\ r = [at |-> r.at, left |-> r.left, log |-> r.log]
    /\ r.at \in Seq(BOOLEAN) /\ Len(r.at) <= n
    /\ Len(r.at) = n \/ Key(t, r.at) = Over
    /\ r.left \subseteq DOMAIN ss
    /\ r.log \in Seq(Noted)
    /\ \A j \in 1 .. Len(r.log) : r.log[j].after < n

LEMMA BeginOK ==
    ASSUME NEW t, NEW ss
    PROVE  RunOK(t, ss, 0, Begin(ss))
  BY DEF RunOK, Begin

LEMMA SideAppended ==
    ASSUME NEW path \in Seq(BOOLEAN), NEW a, NEW b
    PROVE  Append(path, a <= b) \in Seq(BOOLEAN) /\ Len(Append(path, a <= b)) = Len(path) + 1
<1>1. (a <= b) \in BOOLEAN
  OBVIOUS
<1> QED BY <1>1, AppendProperties

LEMMA DrawOK ==
    ASSUME NEW t \in Turns, NEW s, NEW ss, NEW c, NEW n \in Nat, n < MaxDraws,
           NEW r, RunOK(t, ss, n, r)
    PROVE  RunOK(t, ss, n + 1, Draw(t, s, ss, c, r))
<1> DEFINE q == Draw(t, s, ss, c, r)
<1>0. /\ r.at \in Seq(BOOLEAN) /\ Len(r.at) <= n /\ (Len(r.at) = n \/ Key(t, r.at) = Over)
      /\ r.left \subseteq DOMAIN ss /\ r.log \in Seq(Noted)
      /\ \A j \in 1 .. Len(r.log) : r.log[j].after < n
      /\ Len(r.at) \in Nat /\ Len(r.log) \in Nat /\ MaxDraws \in Nat
  BY FrontierAssumption, LenProperties DEF RunOK
<1>a. \A j \in 1 .. Len(r.log) : r.log[j].after \in Nat
  <2>1. \A j \in 1 .. Len(r.log) : r.log[j] \in Noted
    BY <1>0, ElementOfSeq
  <2> QED BY <2>1 DEF Noted
<1>1. CASE Key(t, r.at) = Over
  <2>1. q = r
    BY <1>1, DrawOver
  <2>2. \A j \in 1 .. Len(r.log) : r.log[j].after < n + 1
    BY <1>0, <1>a
  <2>3. RunOK(t, ss, n + 1, r)
    BY <1>0, <1>1, <2>2 DEF RunOK
  <2> QED BY <2>1, <2>3
<1>2. CASE Key(t, r.at) # Over
  <2>1. Key(t, r.at) \in Keys /\ Odds(t, r.at) \in 0 .. Den /\ Len(r.at) = n
    BY <1>0, <1>2, OddsAre
  <2>2. CASE Queue(t, ss, r) # {}
    <3> DEFINE b == Cell(ss, c, Min(Queue(t, ss, r))).roll
    <3>1. /\ q = [at |-> Append(r.at, b <= Odds(t, r.at)),
                  left |-> r.left \ {Min(Queue(t, ss, r))}, log |-> r.log]
      BY <1>2, <2>2, DrawFiled
    <3> HIDE DEF b, q
    <3>2. q.at \in Seq(BOOLEAN) /\ Len(q.at) = n + 1
      BY <1>0, <2>1, <3>1, SideAppended
    <3>3. q.left \subseteq DOMAIN ss /\ q.log = r.log /\ q = [at |-> q.at, left |-> q.left, log |-> q.log]
      BY <1>0, <3>1
    <3>4. \A j \in 1 .. Len(q.log) : q.log[j].after < n + 1
      BY <1>0, <1>a, <3>3
    <3>5. RunOK(t, ss, n + 1, q)
      BY <1>0, <3>2, <3>3, <3>4 DEF RunOK
    <3> QED BY <3>5 DEF q
  <2>3. CASE Queue(t, ss, r) = {}
    <3> DEFINE e == [key |-> Key(t, r.at), odds |-> Odds(t, r.at), after |-> Len(r.at)]
    <3>1. q = [at |-> Append(r.at, s[Len(r.log) + 1] <= Odds(t, r.at)),
               left |-> r.left, log |-> Append(r.log, e)]
      BY <1>2, <2>3, DrawMissed
    <3>2. e \in Noted /\ e.after = n
      BY <1>0, <2>1 DEF Noted
    <3> HIDE DEF q, e
    <3>3. q.at \in Seq(BOOLEAN) /\ Len(q.at) = n + 1
      BY <1>0, <2>1, <3>1, SideAppended
    <3>4. q.left \subseteq DOMAIN ss /\ q.log = Append(r.log, e) /\ q = [at |-> q.at, left |-> q.left, log |-> q.log]
      BY <1>0, <3>1
    <3>5. q.log \in Seq(Noted) /\ Len(q.log) = Len(r.log) + 1
          /\ q.log[Len(r.log) + 1] = e /\ \A j \in 1 .. Len(r.log) : q.log[j] = r.log[j]
      BY <1>0, <3>2, <3>4, AppendProperties
    <3>6. ASSUME NEW j \in 1 .. Len(q.log) PROVE q.log[j].after < n + 1
      <4>1. j \in 1 .. Len(r.log) \/ j = Len(r.log) + 1
        BY <1>0, <3>5
      <4>2. ASSUME j \in 1 .. Len(r.log) PROVE q.log[j].after < n + 1
        <5>1. q.log[j] = r.log[j]
          BY <3>5, <4>2
        <5>2. r.log[j].after < n /\ r.log[j].after \in Nat
          BY <1>0, <1>a, <4>2
        <5>3. r.log[j].after < n + 1
          BY <5>2
        <5> QED BY <5>1, <5>3
      <4>3. j = Len(r.log) + 1 => q.log[j].after < n + 1
        BY <3>2, <3>5
      <4> QED BY <4>1, <4>2, <4>3
    <3>7. RunOK(t, ss, n + 1, q)
      BY <1>0, <3>3, <3>4, <3>5, <3>6 DEF RunOK
    <3> QED BY <3>7 DEF q
  <2> QED BY <2>2, <2>3
<1> QED BY <1>1, <1>2

\* Every run is well formed at each of its draws.
LEMMA RunsOK ==
    ASSUME NEW t \in Turns, NEW s, NEW ss, NEW c
    PROVE  \A n \in 0 .. MaxDraws : RunOK(t, ss, n, Run(t, s, ss, c)[n])
<1> DEFINE P == {n \in Nat : n <= MaxDraws => RunOK(t, ss, n, Run(t, s, ss, c)[n])}
<1>0. MaxDraws \in Nat
  BY FrontierAssumption
<1>1. 0 \in P
  BY RunSteps, BeginOK
<1>2. ASSUME NEW n \in Nat, n \in P PROVE n + 1 \in P
  <2>1. n < MaxDraws \/ ~(n + 1 <= MaxDraws)
    BY <1>0
  <2>2. CASE n < MaxDraws
    <3>1. RunOK(t, ss, n, Run(t, s, ss, c)[n])
      BY <1>0, <1>2, <2>2
    <3>2. Run(t, s, ss, c)[n + 1] = Draw(t, s, ss, c, Run(t, s, ss, c)[n])
      BY <2>2, RunSteps
    <3>3. RunOK(t, ss, n + 1, Draw(t, s, ss, c, Run(t, s, ss, c)[n]))
      BY <2>2, <3>1, DrawOK
    <3> QED BY <3>2, <3>3
  <2> QED BY <2>1, <2>2
<1> HIDE DEF P
<1>3. Nat \subseteq P
  BY <1>1, <1>2, Counting
<1>4. ASSUME NEW n \in 0 .. MaxDraws PROVE RunOK(t, ss, n, Run(t, s, ss, c)[n])
  <2>1. n \in P /\ n <= MaxDraws
    BY <1>0, <1>3
  <2> QED BY <2>1 DEF P
<1> QED BY <1>4

-----------------------------------------------------------------------------
(* How far a run sees before its first miss.                                *)

\* Nothing is missed in the first d draws.
Deep(t, s, ss, c, d) ==
    \A n \in 0 .. MaxDraws : n <= d => Run(t, s, ss, c)[n].log = <<>>

\* A draw may add to the log, at its end.
LEMMA DrawLog ==
    ASSUME NEW t \in Turns, NEW s, NEW ss, NEW c, NEW n \in Nat, n < MaxDraws,
           Run(t, s, ss, c)[n].log # <<>>
    PROVE  /\ Run(t, s, ss, c)[n + 1].log # <<>>
           /\ Run(t, s, ss, c)[n + 1].log[1] = Run(t, s, ss, c)[n].log[1]
<1> DEFINE r == Run(t, s, ss, c)[n]
<1>0. Run(t, s, ss, c)[n + 1] = Draw(t, s, ss, c, r)
  BY RunSteps
<1>1. n \in 0 .. MaxDraws
  BY FrontierAssumption
<1>2. r.log \in Seq(Noted)
  BY <1>1, RunsOK DEF RunOK
<1> HIDE DEF r
<1>3. CASE Key(t, r.at) = Over
  BY <1>0, <1>3, DrawOver DEF r
<1>4. CASE Key(t, r.at) # Over /\ Queue(t, ss, r) # {}
  <2>1. Draw(t, s, ss, c, r).log = r.log
    BY <1>4, DrawFiled
  <2> QED BY <1>0, <2>1 DEF r
<1>5. CASE Key(t, r.at) # Over /\ Queue(t, ss, r) = {}
  <2> DEFINE e == [key |-> Key(t, r.at), odds |-> Odds(t, r.at), after |-> Len(r.at)]
  <2>1. Draw(t, s, ss, c, r).log = Append(r.log, e)
    BY <1>5, DrawMissed
  <2> HIDE DEF e
  <2>2. Len(r.log) \in Nat /\ Len(r.log) # 0
    BY <1>2, LenProperties DEF r
  <2>3. Append(r.log, e)[1] = r.log[1] /\ Append(r.log, e) # <<>>
    BY <1>2, <2>2
  <2> QED BY <1>0, <2>1, <2>3 DEF r
<1> QED BY <1>3, <1>4, <1>5

LEMMA LogGrows ==
    ASSUME NEW t \in Turns, NEW s, NEW ss, NEW c, NEW n \in 0 .. MaxDraws,
           Run(t, s, ss, c)[n].log # <<>>
    PROVE  \A m \in n .. MaxDraws : /\ Run(t, s, ss, c)[m].log # <<>>
                                    /\ Run(t, s, ss, c)[m].log[1] = Run(t, s, ss, c)[n].log[1]
<1> DEFINE R(m) == Run(t, s, ss, c)[m]
           P == {d \in Nat : n + d <= MaxDraws => R(n + d).log # <<>> /\ R(n + d).log[1] = R(n).log[1]}
<1>0. MaxDraws \in Nat /\ n \in Nat
  BY FrontierAssumption
<1>1. 0 \in P
  <2>1. n + 0 = n
    BY <1>0
  <2> QED BY <2>1
<1>2. ASSUME NEW d \in Nat, d \in P PROVE d + 1 \in P
  <2>1. PICK k \in Nat : k = n + d
    BY <1>0
  <2>2. n + (d + 1) = k + 1
    BY <1>0, <2>1
  <2>3. SUFFICES ASSUME k + 1 <= MaxDraws
                 PROVE  R(k + 1).log # <<>> /\ R(k + 1).log[1] = R(n).log[1]
    BY <2>2
  <2>4. k < MaxDraws /\ k <= MaxDraws
    BY <1>0, <2>3
  <2>5. R(k).log # <<>> /\ R(k).log[1] = R(n).log[1]
    BY <1>2, <2>1, <2>4
  <2> QED BY <2>4, <2>5, DrawLog
<1> HIDE DEF P
<1>3. Nat \subseteq P
  BY <1>1, <1>2, Counting
<1>4. ASSUME NEW m \in n .. MaxDraws PROVE R(m).log # <<>> /\ R(m).log[1] = R(n).log[1]
  <2>1. m - n \in Nat /\ n + (m - n) = m /\ m <= MaxDraws
    BY <1>0
  <2>2. m - n \in P
    BY <1>3, <2>1
  <2> QED BY <2>1, <2>2 DEF P
<1> QED BY <1>4

\* A miss at a draw is the first of the run if nothing was missed before.
LEMMA MissIsFirst ==
    ASSUME NEW t \in Turns, NEW s, NEW ss, NEW c, NEW n \in Nat, n < MaxDraws,
           NEW r, r = Run(t, s, ss, c)[n],
           r.log = <<>>, Key(t, r.at) # Over, Queue(t, ss, r) = {}
    PROVE  /\ Play(t, s, ss, c).log # <<>>
           /\ Play(t, s, ss, c).log[1] = [key |-> Key(t, r.at), odds |-> Odds(t, r.at), after |-> n]
           /\ Run(t, s, ss, c)[n + 1].log # <<>>
<1>0. MaxDraws \in Nat /\ n \in 0 .. MaxDraws /\ n + 1 \in 0 .. MaxDraws /\ MaxDraws \in n + 1 .. MaxDraws
  BY FrontierAssumption
<1>1. Len(r.at) = n
  <2>1. RunOK(t, ss, n, r)
    BY <1>0, RunsOK
  <2> QED BY <2>1 DEF RunOK
<1> DEFINE e == [key |-> Key(t, r.at), odds |-> Odds(t, r.at), after |-> Len(r.at)]
<1>2. Draw(t, s, ss, c, r).log = Append(r.log, e)
  BY DrawMissed
<1> HIDE DEF e
<1>3. Run(t, s, ss, c)[n + 1].log = <<e>>
  BY <1>2, RunSteps
<1>4. <<e>> # <<>> /\ <<e>>[1] = e
  OBVIOUS
<1>5. Play(t, s, ss, c).log # <<>> /\ Play(t, s, ss, c).log[1] = e
  <2>1. PICK k \in 0 .. MaxDraws : k = n + 1
    BY <1>0
  <2>2. Run(t, s, ss, c)[k].log = <<e>>
    BY <1>3, <2>1
  <2>3. \A m \in k .. MaxDraws : /\ Run(t, s, ss, c)[m].log # <<>>
                               /\ Run(t, s, ss, c)[m].log[1] = Run(t, s, ss, c)[k].log[1]
    <3>1. Run(t, s, ss, c)[k].log # <<>>
      BY <1>4, <2>2
    <3> QED BY <3>1, LogGrows
  <2>4. MaxDraws \in k .. MaxDraws
    BY <1>0, <2>1
  <2> QED BY <1>4, <2>2, <2>3, <2>4 DEF Play
<1> QED BY <1>1, <1>3, <1>4, <1>5 DEF e

\* A run that misses has a first miss.
LEMMA FirstMiss ==
    ASSUME NEW t \in Turns, NEW s, NEW ss, NEW c, Play(t, s, ss, c).log # <<>>
    PROVE  \E n \in 0 .. MaxDraws - 1 :
              /\ Run(t, s, ss, c)[n].log = <<>>
              /\ Run(t, s, ss, c)[n + 1].log # <<>>
              /\ Key(t, Run(t, s, ss, c)[n].at) # Over
              /\ Queue(t, ss, Run(t, s, ss, c)[n]) = {}
<1> DEFINE R(n) == Run(t, s, ss, c)[n]
           B == {n \in 0 .. MaxDraws : R(n).log # <<>>}
<1>0. MaxDraws \in Nat
  BY FrontierAssumption
<1>1. MaxDraws \in B /\ B \subseteq Nat
  BY <1>0 DEF Play
<1>2. PICK m \in B : \A j \in B : m <= j
  <2> HIDE DEF B
  <2> QED BY <1>1, Least
<1>3. R(0).log = <<>>
  <2>1. Run(t, s, ss, c)[0] = Begin(ss)
    BY RunSteps
  <2>2. Begin(ss).log = <<>>
    BY DEF Begin
  <2> HIDE DEF B
  <2> QED BY <2>1, <2>2
<1>4. m # 0 /\ m \in 0 .. MaxDraws /\ R(m).log # <<>>
  BY <1>2, <1>3
<1>5. PICK n \in 0 .. MaxDraws - 1 : m = n + 1
  <2>1. m - 1 \in 0 .. MaxDraws - 1 /\ m = (m - 1) + 1
    BY <1>0, <1>4
  <2> QED BY <2>1
<1>6. n \in 0 .. MaxDraws /\ n \in Nat /\ n < MaxDraws /\ ~(m <= n)
  BY <1>0, <1>5
<1>7. R(n).log = <<>>
  BY <1>2, <1>6
<1>8. R(n + 1) = Draw(t, s, ss, c, R(n))
  BY <1>6, RunSteps
<1>9. Key(t, R(n).at) # Over
  <2>1. Key(t, R(n).at) = Over => Draw(t, s, ss, c, R(n)) = R(n)
    BY DrawOver
  <2> QED BY <1>4, <1>5, <1>7, <1>8, <2>1
<1>10. Queue(t, ss, R(n)) = {}
  <2>1. Queue(t, ss, R(n)) # {} => Draw(t, s, ss, c, R(n)).log = R(n).log
    BY <1>9, DrawFiled
  <2> QED BY <1>4, <1>5, <1>7, <1>8, <2>1
<1> QED BY <1>4, <1>5, <1>7, <1>9, <1>10

\* What is missed first by a run that sees d draws.
LEMMA MissesLate ==
    ASSUME NEW t \in Turns, NEW s, NEW ss, NEW c, NEW d \in Nat, Deep(t, s, ss, c, d),
           Play(t, s, ss, c).log # <<>>
    PROVE  Play(t, s, ss, c).log[1].after >= d
<1>1. PICK n \in 0 .. MaxDraws - 1 :
              /\ Run(t, s, ss, c)[n].log = <<>>
              /\ Run(t, s, ss, c)[n + 1].log # <<>>
              /\ Key(t, Run(t, s, ss, c)[n].at) # Over
              /\ Queue(t, ss, Run(t, s, ss, c)[n]) = {}
  BY FirstMiss
<1>2. n \in Nat /\ n < MaxDraws /\ n + 1 \in 0 .. MaxDraws /\ n + 1 \in Nat
  BY FrontierAssumption
<1>3. Play(t, s, ss, c).log[1].after = n
  <2>1. PICK r : r = Run(t, s, ss, c)[n]
    OBVIOUS
  <2>2. r.log = <<>> /\ Key(t, r.at) # Over /\ Queue(t, ss, r) = {}
    BY <1>1, <2>1
  <2>3. Play(t, s, ss, c).log[1] = [key |-> Key(t, r.at), odds |-> Odds(t, r.at), after |-> n]
    BY <1>2, <2>1, <2>2, MissIsFirst
  <2> QED BY <2>3
<1>4. ~(n + 1 <= d)
  BY <1>1, <1>2 DEF Deep
<1> QED BY <1>2, <1>3, <1>4

-----------------------------------------------------------------------------
(* More sites at the end of the list: the run is the same up to its first   *)
(* miss, and one further if what it missed is among them.                   *)

SiteSet == [key : Keys, odds : 0 .. Den]

\* The cells of the product of the sites ss.
Cells(ss) == {c \in [DOMAIN ss -> {1, 2}] : \A i \in DOMAIN ss : c[i] <= Len(Outcomes(ss[i].odds))}

\* The part of a cell that is about the sites ss.
Short(ss, c) == [i \in DOMAIN ss |-> c[i]]

\* The places behind ss.
New(ss, dd) == Len(ss) + 1 .. Len(ss) + Len(dd)

LEMMA Behind ==
    ASSUME NEW ss \in Seq(SiteSet), NEW dd \in Seq(SiteSet)
    PROVE  /\ ss \o dd \in Seq(SiteSet)
           /\ Len(ss) \in Nat /\ Len(dd) \in Nat
           /\ DOMAIN ss = 1 .. Len(ss) /\ DOMAIN dd = 1 .. Len(dd)
           /\ DOMAIN (ss \o dd) = DOMAIN ss \cup New(ss, dd)
           /\ \A i \in DOMAIN ss : (ss \o dd)[i] = ss[i]
           /\ \A j \in DOMAIN dd : (ss \o dd)[Len(ss) + j] = dd[j] /\ Len(ss) + j \in New(ss, dd)
<1>1. Len(ss) \in Nat /\ Len(dd) \in Nat /\ DOMAIN ss = 1 .. Len(ss) /\ DOMAIN dd = 1 .. Len(dd)
  BY LenProperties
<1>2. /\ ss \o dd \in Seq(SiteSet) /\ Len(ss \o dd) = Len(ss) + Len(dd)
      /\ \A i \in 1 .. Len(ss) + Len(dd) : (ss \o dd)[i] = IF i <= Len(ss) THEN ss[i] ELSE dd[i - Len(ss)]
  BY ConcatProperties
<1>3. DOMAIN (ss \o dd) = 1 .. Len(ss) + Len(dd)
  BY <1>2, LenProperties
<1>4. \A j \in 1 .. Len(dd) : Len(ss) + j \in 1 .. Len(ss) + Len(dd) /\ ~(Len(ss) + j <= Len(ss)) /\ (Len(ss) + j) - Len(ss) = j
  BY <1>1
<1>5. \A j \in DOMAIN dd : (ss \o dd)[Len(ss) + j] = dd[j]
  BY <1>1, <1>2, <1>4
<1>6. \A j \in DOMAIN dd : Len(ss) + j \in New(ss, dd)
  BY <1>1 DEF New
<1>7. \A i \in DOMAIN ss : (ss \o dd)[i] = ss[i]
  BY <1>1, <1>2
<1>8. DOMAIN (ss \o dd) = DOMAIN ss \cup New(ss, dd)
  BY <1>1, <1>3 DEF New
<1> QED BY <1>1, <1>2, <1>5, <1>6, <1>7, <1>8

LEMMA ShortIs ==
    ASSUME NEW ss \in Seq(SiteSet), NEW dd \in Seq(SiteSet), NEW c \in Cells(ss \o dd)
    PROVE  Short(ss, c) \in Cells(ss)
<1>1. /\ DOMAIN (ss \o dd) = DOMAIN ss \cup New(ss, dd)
      /\ \A i \in DOMAIN ss : (ss \o dd)[i] = ss[i]
  BY Behind
<1>2. c \in [DOMAIN (ss \o dd) -> {1, 2}] /\ \A i \in DOMAIN (ss \o dd) : c[i] <= Len(Outcomes((ss \o dd)[i].odds))
  BY DEF Cells
<1>3. Short(ss, c) \in [DOMAIN ss -> {1, 2}] /\ \A i \in DOMAIN ss : Short(ss, c)[i] = c[i]
  BY <1>1, <1>2 DEF Short
<1>4. \A i \in DOMAIN ss : Short(ss, c)[i] <= Len(Outcomes(ss[i].odds))
  BY <1>1, <1>2, <1>3
<1> QED BY <1>3, <1>4 DEF Cells

\* The run r of the longer table, where that of the shorter is q.
Follows(r, q, new) ==
    r = [at |-> q.at, left |-> q.left \cup new, log |-> <<>>]

\* A roll on file is found at the same place.
LEMMA SameQueue ==
    ASSUME NEW t \in Turns, NEW ss \in Seq(SiteSet), NEW dd \in Seq(SiteSet),
           NEW q, q.left \subseteq DOMAIN ss, NEW r, Follows(r, q, New(ss, dd)),
           Queue(t, ss, q) # {}
    PROVE  /\ Queue(t, ss \o dd, r) # {}
           /\ Min(Queue(t, ss \o dd, r)) = Min(Queue(t, ss, q))
           /\ Min(Queue(t, ss, q)) \in q.left
           /\ r.left \ {Min(Queue(t, ss, q))} = (q.left \ {Min(Queue(t, ss, q))}) \cup New(ss, dd)
<1> DEFINE Q == Queue(t, ss, q)
           R == Queue(t, ss \o dd, r)
<1>0. /\ DOMAIN (ss \o dd) = DOMAIN ss \cup New(ss, dd)
      /\ \A i \in DOMAIN ss : (ss \o dd)[i] = ss[i]
      /\ DOMAIN ss = 1 .. Len(ss) /\ Len(ss) \in Nat /\ Len(dd) \in Nat
  BY Behind
<1>1. r.at = q.at /\ r.left = q.left \cup New(ss, dd)
  BY DEF Follows
<1>2. ASSUME NEW i \in q.left PROVE i \in Q <=> i \in R
  <2>1. i \in DOMAIN ss
    OBVIOUS
  <2>2. (ss \o dd)[i] = ss[i] /\ i \in r.left
    BY <1>0, <1>1, <2>1
  <2> QED BY <1>1, <2>2 DEF Queue
<1>3. Q \subseteq q.left /\ R \subseteq q.left \cup New(ss, dd)
  BY <1>1 DEF Queue
<1>4. Q \subseteq R
  BY <1>2, <1>3
<1>5. Q \subseteq Nat /\ R \subseteq Nat
  BY <1>0, <1>3 DEF New
<1> HIDE DEF Q, R
<1>6. Min(Q) \in Q /\ \A x \in Q : Min(Q) <= x
  BY <1>5, MinIs DEF Q
<1>7. Min(Q) \in DOMAIN ss /\ Min(Q) \in R /\ Min(Q) \in q.left
  BY <1>3, <1>4, <1>6
<1>8. ASSUME NEW x \in R PROVE Min(Q) <= x
  <2>1. x \in q.left => Min(Q) <= x
    BY <1>2, <1>6
  <2>2. x \in New(ss, dd) => Min(Q) <= x
    BY <1>0, <1>7 DEF New
  <2> QED BY <1>3, <2>1, <2>2
<1>9. Min(R) = Min(Q)
  BY <1>5, <1>7, <1>8, MinIsOnly
<1>10. Min(Q) \notin New(ss, dd)
  BY <1>0, <1>7 DEF New
<1>11. r.left \ {Min(Q)} = (q.left \ {Min(Q)}) \cup New(ss, dd)
  BY <1>1, <1>10
<1>12. R # {}
  BY <1>7
<1> QED BY <1>7, <1>9, <1>11, <1>12 DEF Q, R

\* The run of a longer table agrees with that of the shorter until a miss.
LEMMA SameUntilMiss ==
    ASSUME NEW t \in Turns, NEW s, NEW ss \in Seq(SiteSet), NEW dd \in Seq(SiteSet), NEW c
    PROVE  \A n \in 0 .. MaxDraws :
              Run(t, s, ss, Short(ss, c))[n].log = <<>> =>
                 Follows(Run(t, s, ss \o dd, c)[n], Run(t, s, ss, Short(ss, c))[n], New(ss, dd))
<1> DEFINE q(n) == Run(t, s, ss, Short(ss, c))[n]
           r(n) == Run(t, s, ss \o dd, c)[n]
           P == {n \in Nat : n <= MaxDraws /\ q(n).log = <<>> => Follows(r(n), q(n), New(ss, dd))}
<1>0. MaxDraws \in Nat
  BY FrontierAssumption
<1>a. /\ DOMAIN (ss \o dd) = DOMAIN ss \cup New(ss, dd)
      /\ \A i \in DOMAIN ss : (ss \o dd)[i] = ss[i]
  BY Behind
<1>1. 0 \in P
  <2>1. q(0) = Begin(ss) /\ r(0) = Begin(ss \o dd)
    BY RunSteps
  <2>2. Follows(Begin(ss \o dd), Begin(ss), New(ss, dd))
    BY <1>a DEF Follows, Begin
  <2> QED BY <2>1, <2>2
<1>2. ASSUME NEW n \in Nat, n \in P PROVE n + 1 \in P
  <2>1. SUFFICES ASSUME n + 1 <= MaxDraws, q(n + 1).log = <<>>
                 PROVE  Follows(r(n + 1), q(n + 1), New(ss, dd))
    OBVIOUS
  <2>2. n < MaxDraws /\ n \in 0 .. MaxDraws
    BY <1>0, <2>1
  <2>3. q(n).log = <<>>
    <3>1. Run(t, s, ss, Short(ss, c))[n].log # <<>> => Run(t, s, ss, Short(ss, c))[n + 1].log # <<>>
      BY <2>2, DrawLog
    <3> QED BY <2>1, <3>1
  <2>4. Follows(r(n), q(n), New(ss, dd))
    BY <1>2, <2>2, <2>3
  <2>5. /\ q(n + 1) = Draw(t, s, ss, Short(ss, c), q(n))
        /\ r(n + 1) = Draw(t, s, ss \o dd, c, r(n))
    BY <2>2, RunSteps
  <2>6. RunOK(t, ss, n, q(n))
    BY <2>2, RunsOK
  <2> HIDE DEF P, q, r
  <2>a. PICK a : a = q(n)
    OBVIOUS
  <2>b. PICK b : b = r(n)
    OBVIOUS
  <2>7. b.at = a.at /\ b.log = <<>> /\ a.log = <<>>
    BY <2>3, <2>4, <2>a, <2>b DEF Follows
  <2>8. CASE Key(t, a.at) = Over
    BY <2>4, <2>5, <2>7, <2>8, <2>a, <2>b, DrawOver
  <2>9. CASE Key(t, a.at) # Over /\ Queue(t, ss, a) # {}
    <3>1. a.left \subseteq DOMAIN ss
      BY <2>6, <2>a DEF RunOK
    <3>2. PICK i : i = Min(Queue(t, ss, a))
      OBVIOUS
    <3>3. /\ Queue(t, ss \o dd, b) # {}
          /\ Min(Queue(t, ss \o dd, b)) = i
          /\ i \in a.left
          /\ b.left \ {i} = (a.left \ {i}) \cup New(ss, dd)
      BY <2>4, <2>9, <2>a, <2>b, <3>1, <3>2, SameQueue
    <3>4. Cell(ss \o dd, c, i) = Cell(ss, Short(ss, c), i)
      <4>1. i \in DOMAIN ss
        BY <3>1, <3>3
      <4>2. Short(ss, c)[i] = c[i] /\ (ss \o dd)[i] = ss[i]
        BY <1>a, <4>1 DEF Short
      <4> QED BY <4>2 DEF Cell
    <3>5. Draw(t, s, ss, Short(ss, c), a) =
             [at   |-> Append(a.at, Cell(ss, Short(ss, c), i).roll <= Odds(t, a.at)),
              left |-> a.left \ {i}, log |-> a.log]
      BY <2>9, <3>2, DrawFiled
    <3>6. Draw(t, s, ss \o dd, c, b) =
             [at   |-> Append(b.at, Cell(ss \o dd, c, i).roll <= Odds(t, b.at)),
              left |-> b.left \ {i}, log |-> b.log]
      <4>1. Key(t, b.at) # Over
        BY <2>7, <2>9
      <4> QED BY <3>3, <4>1, DrawFiled
    <3>7. Follows(Draw(t, s, ss \o dd, c, b), Draw(t, s, ss, Short(ss, c), a), New(ss, dd))
      <4>1. PICK x : x = Append(a.at, Cell(ss, Short(ss, c), i).roll <= Odds(t, a.at))
        OBVIOUS
      <4>2. Draw(t, s, ss, Short(ss, c), a) = [at |-> x, left |-> a.left \ {i}, log |-> a.log]
        BY <3>5, <4>1
      <4>3. Append(b.at, Cell(ss \o dd, c, i).roll <= Odds(t, b.at)) = x
        BY <2>7, <3>4, <4>1
      <4>4. Draw(t, s, ss \o dd, c, b) = [at |-> x, left |-> b.left \ {i}, log |-> b.log]
        BY <3>6, <4>3
      <4>5. PICK da : da = Draw(t, s, ss, Short(ss, c), a)
        OBVIOUS
      <4>6. PICK db : db = Draw(t, s, ss \o dd, c, b)
        OBVIOUS
      <4>7. da.at = x /\ da.left = a.left \ {i}
        BY <4>2, <4>5
      <4>8. db = [at |-> x, left |-> (a.left \ {i}) \cup New(ss, dd), log |-> <<>>]
        BY <2>7, <3>3, <4>4, <4>6
      <4>9. db = [at |-> da.at, left |-> da.left \cup New(ss, dd), log |-> <<>>]
        BY <4>7, <4>8
      <4> QED BY <4>5, <4>6, <4>9 DEF Follows
    <3> QED BY <2>5, <2>a, <2>b, <3>7
  <2>10. CASE Key(t, a.at) # Over /\ Queue(t, ss, a) = {}
    <3> DEFINE e == [key |-> Key(t, a.at), odds |-> Odds(t, a.at), after |-> Len(a.at)]
    <3>1. Draw(t, s, ss, Short(ss, c), a).log = Append(a.log, e)
      BY <2>10, DrawMissed
    <3> HIDE DEF e
    <3>2. Append(<<>>, e) # <<>>
      OBVIOUS
    <3> QED BY <2>1, <2>5, <2>7, <2>a, <3>1, <3>2
  <2> QED BY <2>8, <2>9, <2>10
<1> HIDE DEF P
<1>3. Nat \subseteq P
  BY <1>1, <1>2, Counting
<1>4. ASSUME NEW n \in 0 .. MaxDraws, q(n).log = <<>> PROVE Follows(r(n), q(n), New(ss, dd))
  <2>1. n \in P /\ n <= MaxDraws
    BY <1>0, <1>3
  <2> QED BY <1>4, <2>1 DEF P
<1> QED BY <1>4

\* A table with a roll for what is missed first sees one draw further.
LEMMA SeesFurther ==
    ASSUME NEW t \in Turns, NEW s, NEW ss \in Seq(SiteSet), NEW dd \in Seq(SiteSet), NEW c,
           NEW d \in Nat, Deep(t, s, ss, Short(ss, c), d),
           Play(t, s, ss, Short(ss, c)).log # <<>> =>
              \E j \in DOMAIN dd : dd[j].key = Play(t, s, ss, Short(ss, c)).log[1].key
    PROVE  Deep(t, s, ss \o dd, c, d + 1)
<1> SUFFICES ASSUME NEW n \in 0 .. MaxDraws, n <= d + 1
             PROVE  Run(t, s, ss \o dd, c)[n].log = <<>>
  BY DEF Deep
<1> DEFINE q(k) == Run(t, s, ss, Short(ss, c))[k]
           r(k) == Run(t, s, ss \o dd, c)[k]
<1>0. MaxDraws \in Nat
  BY FrontierAssumption
<1>1. CASE q(n).log = <<>>
  <2>1. Follows(r(n), q(n), New(ss, dd))
    BY <1>1, SameUntilMiss
  <2> HIDE DEF q
  <2> QED BY <2>1 DEF Follows
<1>2. CASE q(n).log # <<>>
  <2>1. ~(n <= d)
    BY <1>2 DEF Deep
  <2>2. n = d + 1 /\ d \in 0 .. MaxDraws /\ d < MaxDraws
    BY <1>0, <2>1
  <2>3. q(d).log = <<>>
    BY <2>2 DEF Deep
  <2>4. Follows(r(d), q(d), New(ss, dd))
    BY <2>2, <2>3, SameUntilMiss
  <2>5. q(d + 1) = Draw(t, s, ss, Short(ss, c), q(d)) /\ r(d + 1) = Draw(t, s, ss \o dd, c, r(d))
    BY <2>2, RunSteps
  <2>a. PICK qd : qd = Run(t, s, ss, Short(ss, c))[d]
    OBVIOUS
  <2>b. PICK rd : rd = Run(t, s, ss \o dd, c)[d]
    OBVIOUS
  <2>6. Key(t, qd.at) # Over
    <3>1. Key(t, qd.at) = Over => Draw(t, s, ss, Short(ss, c), qd) = qd
      BY DrawOver
    <3> QED BY <1>2, <2>2, <2>3, <2>5, <2>a, <3>1
  <2>7. Queue(t, ss, qd) = {}
    <3>1. Queue(t, ss, qd) # {} => Draw(t, s, ss, Short(ss, c), qd).log = qd.log
      BY <2>6, DrawFiled
    <3> QED BY <1>2, <2>2, <2>3, <2>5, <2>a, <3>1
  <2>8. /\ Play(t, s, ss, Short(ss, c)).log # <<>>
        /\ Play(t, s, ss, Short(ss, c)).log[1] = [key |-> Key(t, qd.at), odds |-> Odds(t, qd.at), after |-> d]
    BY <2>2, <2>3, <2>6, <2>7, <2>a, MissIsFirst
  <2>9. PICK j \in DOMAIN dd : dd[j].key = Key(t, qd.at)
    BY <2>8
  <2>10. (ss \o dd)[Len(ss) + j] = dd[j] /\ Len(ss) + j \in New(ss, dd)
    BY Behind
  <2>11. rd.at = qd.at /\ rd.log = <<>> /\ rd.left = qd.left \cup New(ss, dd)
    BY <2>4, <2>a, <2>b DEF Follows
  <2>12. Len(ss) + j \in Queue(t, ss \o dd, rd)
    BY <2>9, <2>10, <2>11 DEF Queue
  <2>13. Draw(t, s, ss \o dd, c, rd).log = rd.log
    BY <2>6, <2>11, <2>12, DrawFiled
  <2> QED BY <2>2, <2>5, <2>11, <2>13, <2>b
<1> QED BY <1>1, <1>2

-----------------------------------------------------------------------------
(* The sites a pass discovers.                                              *)

LEMMA Listed ==
    ASSUME NEW S, IsFiniteSet(S)
    PROVE  /\ Cardinality(S) \in Nat
           /\ SetToSeq(S) \in [1 .. Cardinality(S) -> S]
           /\ \A x \in S : \E i \in 1 .. Cardinality(S) : SetToSeq(S)[i] = x
<1> DEFINE n == Cardinality(S)
<1>1. n \in Nat /\ ExistsBijection(1 .. n, S)
  BY FS_CardinalityType
<1> HIDE DEF n
<1>2. \E f \in [1 .. n -> S] : IsInjective(f)
  BY <1>1 DEF ExistsBijection, Bijection, Injection
<1>3. SetToSeq(S) \in [1 .. n -> S] /\ IsInjective(SetToSeq(S))
  BY <1>2 DEF SetToSeq, n
<1>4. SetToSeq(S) \in Injection(1 .. n, S)
  BY <1>3 DEF Injection
<1>5. IsFiniteSet(1 .. n) /\ Cardinality(1 .. n) = Cardinality(S)
  BY <1>1, FS_Interval DEF n
<1>6. SetToSeq(S) \in Surjection(1 .. n, S)
  BY <1>4, <1>5, FS_Injection
<1> QED BY <1>1, <1>3, <1>6 DEF Surjection, n

\* A list of numbers has a bound.
LEMMA Bounded ==
    ASSUME NEW n \in Nat, NEW f, \A i \in 1 .. n : f[i] \in Nat
    PROVE  \E b \in Nat : \A i \in 1 .. n : f[i] <= b
<1> DEFINE P == {m \in Nat : m <= n => \E b \in Nat : \A i \in 1 .. m : f[i] <= b}
<1>1. 0 \in P
  OBVIOUS
<1>2. ASSUME NEW m \in Nat, m \in P PROVE m + 1 \in P
  <2>1. SUFFICES ASSUME m + 1 <= n PROVE \E b \in Nat : \A i \in 1 .. m + 1 : f[i] <= b
    OBVIOUS
  <2>2. PICK a \in Nat : \A i \in 1 .. m : f[i] <= a
    BY <1>2, <2>1
  <2>3. PICK e \in Nat : e = f[m + 1]
    BY <2>1
  <2>4. ASSUME NEW i \in 1 .. m + 1 PROVE f[i] <= a + e
    <3>1. i \in 1 .. m \/ i = m + 1
      OBVIOUS
    <3>2. i \in 1 .. n /\ f[i] \in Nat
      BY <2>1
    <3> QED BY <2>2, <2>3, <3>1, <3>2
  <2>5. a + e \in Nat
    OBVIOUS
  <2> QED BY <2>4, <2>5
<1> HIDE DEF P
<1>3. n \in P
  BY <1>1, <1>2, Counting
<1> QED BY <1>3 DEF P

\* A history of miss logs.
Logs == Seq(Seq(Noted))

LEMMA LogIs ==
    ASSUME NEW ls \in Logs, NEW i \in DOMAIN ls
    PROVE  /\ ls[i] \in Seq(Noted) /\ Len(ls[i]) \in Nat /\ DOMAIN ls[i] = 1 .. Len(ls[i])
           /\ \A j \in DOMAIN ls[i] : ls[i][j] \in Noted
           /\ DOMAIN ls = 1 .. Len(ls) /\ Len(ls) \in Nat
<1>1. DOMAIN ls = 1 .. Len(ls) /\ Len(ls) \in Nat
  BY LenProperties DEF Logs
<1>2. ls[i] \in Seq(Noted)
  BY <1>1, ElementOfSeq DEF Logs
<1>3. Len(ls[i]) \in Nat /\ DOMAIN ls[i] = 1 .. Len(ls[i])
  BY <1>2, LenProperties
<1>4. \A j \in DOMAIN ls[i] : ls[i][j] \in Noted
  BY <1>2, <1>3, ElementOfSeq
<1> QED BY <1>1, <1>2, <1>3, <1>4

LEMMA MissesAre ==
    ASSUME NEW ls \in Logs, NEW i \in DOMAIN ls, NEW k
    PROVE  /\ Misses(ls[i], k) \subseteq DOMAIN ls[i]
           /\ Misses(ls[i], k) \subseteq Nat
           /\ Cardinality(Misses(ls[i], k)) \in Nat
           /\ Misses(ls[i], k) # {} <=> Cardinality(Misses(ls[i], k)) >= 1
<1>1. Misses(ls[i], k) \subseteq DOMAIN ls[i]
  BY DEF Misses
<1>2. Len(ls[i]) \in Nat /\ DOMAIN ls[i] = 1 .. Len(ls[i])
  BY LogIs
<1>3. IsFiniteSet(1 .. Len(ls[i]))
  BY <1>2, FS_Interval
<1> DEFINE M == Misses(ls[i], k)
<1>4. M \in SUBSET (1 .. Len(ls[i]))
  BY <1>1, <1>2
<1> HIDE DEF M
<1>5. IsFiniteSet(M) /\ Cardinality(M) \in Nat
  BY <1>3, <1>4, FS_Subset, FS_CardinalityType
<1>6. M # {} <=> Cardinality(M) >= 1
  BY <1>5, FS_EmptySet
<1>7. M \subseteq Nat
  BY <1>2, <1>4
<1> QED BY <1>1, <1>5, <1>6, <1>7 DEF M

\* Most is a greatest: zero, or what some log has.
LEMMA MostIs ==
    ASSUME NEW ls \in Logs, NEW k
    PROVE  /\ Most(ls, k) \in Nat
           /\ \A i \in DOMAIN ls : Cardinality(Misses(ls[i], k)) <= Most(ls, k)
           /\ Most(ls, k) # 0 => \E i \in DOMAIN ls : Misses(ls[i], k) # {}
<1> DEFINE f == [i \in 1 .. Len(ls) |-> Cardinality(Misses(ls[i], k))]
           S == {0} \cup {Cardinality(Misses(ls[i], k)) : i \in DOMAIN ls}
<1>1. DOMAIN ls = 1 .. Len(ls) /\ Len(ls) \in Nat
  BY LenProperties DEF Logs
<1>2. \A i \in 1 .. Len(ls) : f[i] = Cardinality(Misses(ls[i], k)) /\ f[i] \in Nat
  BY <1>1, MissesAre
<1> HIDE DEF f
<1>3. PICK b \in Nat : \A i \in 1 .. Len(ls) : f[i] <= b
  BY <1>1, <1>2, Bounded
<1>4. \A x \in S : x \in Nat /\ x <= b
  BY <1>1, <1>2, <1>3
<1>5. S \subseteq Nat /\ S # {}
  BY <1>4
<1>6. PICK n \in S : \A x \in S : x <= n
  <2> HIDE DEF S
  <2> QED BY <1>4, <1>5, Greatest
<1>7. \A x \in S : n >= x
  BY <1>4, <1>6
<1>8. Most(ls, k) \in S /\ \A x \in S : Most(ls, k) >= x
  <2>1. Most(ls, k) = Max(S)
    BY DEF Most
  <2> HIDE DEF S
  <2> QED BY <1>6, <1>7, <2>1 DEF Max
<1>9. \A i \in DOMAIN ls : Cardinality(Misses(ls[i], k)) <= Most(ls, k)
  BY <1>4, <1>8
<1>10. ASSUME Most(ls, k) # 0 PROVE \E i \in DOMAIN ls : Misses(ls[i], k) # {}
  <2>1. PICK i \in DOMAIN ls : Most(ls, k) = Cardinality(Misses(ls[i], k))
    BY <1>8, <1>10
  <2>2. Cardinality(Misses(ls[i], k)) >= 1
    BY <1>10, <2>1, MissesAre
  <2> QED BY <2>2, MissesAre
<1> QED BY <1>4, <1>8, <1>9, <1>10

\* A new site is one of the misses, its key and its threshold.
LEMMA NewSiteIs ==
    ASSUME NEW ls \in Logs, NEW k, Most(ls, k) # 0
    PROVE  \E i \in DOMAIN ls : \E j \in DOMAIN ls[i] :
              NewSite(ls, k) = [key |-> k, odds |-> ls[i][j].odds] /\ ls[i][j].key = k
<1>1. DOMAIN ls = 1 .. Len(ls) /\ Len(ls) \in Nat
  BY LenProperties DEF Logs
<1>2. Missed(ls, k) # {} /\ Missed(ls, k) \subseteq Nat
  <2>1. PICK i \in DOMAIN ls : Misses(ls[i], k) # {}
    BY MostIs
  <2>2. i \in Missed(ls, k)
    BY <2>1 DEF Missed
  <2>3. Missed(ls, k) \subseteq DOMAIN ls
    BY DEF Missed
  <2> QED BY <1>1, <2>2, <2>3
<1>3. Min(Missed(ls, k)) \in Missed(ls, k)
  BY <1>2, MinIs
<1>4. PICK i \in DOMAIN ls : i = Min(Missed(ls, k)) /\ Misses(ls[i], k) # {}
  BY <1>3 DEF Missed
<1>5. Misses(ls[i], k) \subseteq Nat /\ Misses(ls[i], k) \subseteq DOMAIN ls[i]
  BY MissesAre
<1>6. Min(Misses(ls[i], k)) \in Misses(ls[i], k)
  BY <1>4, <1>5, MinIs
<1>7. PICK j \in DOMAIN ls[i] : j = Min(Misses(ls[i], k)) /\ ls[i][j].key = k
  BY <1>6 DEF Misses
<1>8. NewSite(ls, k) = [key |-> k, odds |-> ls[i][j].odds]
  BY <1>4, <1>7 DEF NewSite
<1> QED BY <1>7, <1>8

Slots(ls) == UNION {{k} \X (1 .. Most(ls, k)) : k \in Keys}

LEMMA SlotsFinite ==
    ASSUME NEW ls \in Logs
    PROVE  IsFiniteSet(Slots(ls))
<1> DEFINE T == {{k} \X (1 .. Most(ls, k)) : k \in Keys}
           f == [k \in Keys |-> {k} \X (1 .. Most(ls, k))]
<1>1. f \in Surjection(Keys, T)
  <2>1. f \in [Keys -> T]
    OBVIOUS
  <2>2. \A x \in T : \E k \in Keys : f[k] = x
    OBVIOUS
  <2> HIDE DEF f, T
  <2> QED BY <2>1, <2>2 DEF Surjection
<1>2. \A x \in T : IsFiniteSet(x)
  <2>1. SUFFICES ASSUME NEW k \in Keys PROVE IsFiniteSet({k} \X (1 .. Most(ls, k)))
    OBVIOUS
  <2>2. IsFiniteSet(1 .. Most(ls, k)) /\ IsFiniteSet({k})
    <3>1. Most(ls, k) \in Int /\ 1 \in Int
      BY MostIs
    <3>2. IsFiniteSet(1 .. Most(ls, k))
      BY <3>1, FS_Interval
    <3> QED BY <3>2, FS_Singleton
  <2> QED BY <2>2, FS_Product
<1>3. IsFiniteSet(T)
  <2> HIDE DEF f, T
  <2> QED BY <1>1, FS_Surjection, FrontierAssumption
<1>4. IsFiniteSet(UNION T)
  <2> HIDE DEF f, T
  <2> QED BY <1>2, <1>3, FS_UNION
<1> QED BY <1>4 DEF Slots

\* Every site discovered was missed, and every key missed is discovered.
LEMMA DiscoveredIs ==
    ASSUME NEW ls \in Logs
    PROVE  /\ Discovered(ls) \in Seq(SiteSet)
           /\ \A n \in DOMAIN Discovered(ls) : \E i \in DOMAIN ls : \E j \in DOMAIN ls[i] :
                 Discovered(ls)[n] = [key |-> ls[i][j].key, odds |-> ls[i][j].odds]
           /\ \A i \in DOMAIN ls : \A j \in DOMAIN ls[i] : \E n \in DOMAIN Discovered(ls) :
                 Discovered(ls)[n].key = ls[i][j].key
<1> DEFINE n == Cardinality(Slots(ls))
           q == SetToSeq(Slots(ls))
           D == Discovered(ls)
<1>1. n \in Nat /\ q \in [1 .. n -> Slots(ls)] /\ \A x \in Slots(ls) : \E i \in 1 .. n : q[i] = x
  BY SlotsFinite, Listed
<1>2. D = [i \in DOMAIN q |-> NewSite(ls, q[i][1])]
  BY DEF Discovered, Slots
<1> HIDE DEF n, q, D
<1>3. D = [i \in 1 .. n |-> NewSite(ls, q[i][1])]
  BY <1>1, <1>2
<1>4. ASSUME NEW i \in 1 .. n PROVE q[i][1] \in Keys /\ Most(ls, q[i][1]) # 0
  <2>1. PICK k \in Keys : q[i] \in {k} \X (1 .. Most(ls, k))
    BY <1>1 DEF Slots
  <2>2. q[i][1] = k /\ q[i][2] \in 1 .. Most(ls, k)
    BY <2>1
  <2>3. Most(ls, k) \in Nat
    BY MostIs
  <2> QED BY <2>2, <2>3
<1>5. ASSUME NEW m \in 1 .. n
      PROVE  \E i \in DOMAIN ls : \E j \in DOMAIN ls[i] :
                D[m] = [key |-> ls[i][j].key, odds |-> ls[i][j].odds] /\ ls[i][j] \in Noted
  <2>1. PICK i \in DOMAIN ls : \E j \in DOMAIN ls[i] :
              NewSite(ls, q[m][1]) = [key |-> q[m][1], odds |-> ls[i][j].odds] /\ ls[i][j].key = q[m][1]
    BY <1>4, NewSiteIs
  <2>2. PICK j \in DOMAIN ls[i] :
              NewSite(ls, q[m][1]) = [key |-> q[m][1], odds |-> ls[i][j].odds] /\ ls[i][j].key = q[m][1]
    BY <2>1
  <2>3. ls[i][j] \in Noted
    BY LogIs
  <2>4. D[m] = NewSite(ls, q[m][1])
    BY <1>3
  <2> QED BY <2>2, <2>3, <2>4
<1>6. \A m \in 1 .. n : D[m] \in SiteSet
  <2>1. SUFFICES ASSUME NEW m \in 1 .. n PROVE D[m] \in SiteSet
    OBVIOUS
  <2>2. PICK e \in Noted : D[m] = [key |-> e.key, odds |-> e.odds]
    BY <1>5
  <2> QED BY <2>2 DEF SiteSet, Noted
<1>7. D \in [1 .. n -> SiteSet] /\ DOMAIN D = 1 .. n
  BY <1>3, <1>6
<1>8. D \in Seq(SiteSet)
  BY <1>1, <1>7, SeqDef
<1>9. ASSUME NEW i \in DOMAIN ls, NEW j \in DOMAIN ls[i]
      PROVE  \E m \in 1 .. n : D[m].key = ls[i][j].key
  <2>1. PICK k \in Keys : k = ls[i][j].key
    BY LogIs DEF Noted
  <2>2. Misses(ls[i], k) # {}
    BY <2>1 DEF Misses
  <2>3. Cardinality(Misses(ls[i], k)) >= 1 /\ Cardinality(Misses(ls[i], k)) \in Nat
    BY <2>2, MissesAre
  <2>4. Most(ls, k) \in Nat /\ 1 <= Most(ls, k)
    BY <2>3, MostIs
  <2>5. <<k, 1>> \in Slots(ls)
    BY <2>4 DEF Slots
  <2>6. PICK m \in 1 .. n : q[m] = <<k, 1>>
    BY <1>1, <2>5
  <2>7. D[m] = NewSite(ls, k)
    BY <1>3, <2>6
  <2>8. NewSite(ls, k).key = k
    BY DEF NewSite
  <2> QED BY <2>1, <2>7, <2>8
<1> QED BY <1>5, <1>7, <1>8, <1>9 DEF D

-----------------------------------------------------------------------------
(* The odometer goes through every cell, each once.                         *)

\* c comes before d: it is less at the last site where they differ.
LessAt(ss, c, d, j) == c[j] < d[j] /\ \A i \in DOMAIN ss : i > j => c[i] = d[i]
Before(ss, c, d) == \E j \in DOMAIN ss : LessAt(ss, c, d, j)

Wide(ss, i) == Len(Outcomes(ss[i].odds))

LEMMA WideIs ==
    ASSUME NEW ss, NEW i
    PROVE  Wide(ss, i) \in {1, 2}
<1>1. \A x, y : Len(<<x>>) = 1 /\ Len(<<x, y>>) = 2
  OBVIOUS
<1> QED BY <1>1 DEF Wide, Outcomes

LEMMA CellIs ==
    ASSUME NEW ss \in Seq(SiteSet), NEW c \in Cells(ss)
    PROVE  /\ c \in [DOMAIN ss -> {1, 2}] /\ DOMAIN c = DOMAIN ss
           /\ \A i \in DOMAIN ss : c[i] \in {1, 2} /\ c[i] <= Wide(ss, i)
           /\ DOMAIN ss = 1 .. Len(ss) /\ Len(ss) \in Nat
  BY LenProperties DEF Cells, Wide

LEMMA Differ ==
    ASSUME NEW ss \in Seq(SiteSet), NEW c \in Cells(ss), NEW d \in Cells(ss), c # d
    PROVE  \E j \in DOMAIN ss : c[j] # d[j] /\ \A i \in DOMAIN ss : i > j => c[i] = d[i]
<1> DEFINE S == {j \in DOMAIN ss : c[j] # d[j]}
<1>1. DOMAIN ss = 1 .. Len(ss) /\ Len(ss) \in Nat
  BY LenProperties
<1>2. S # {}
  BY CellIs
<1>3. S \subseteq Nat /\ \A j \in S : j <= Len(ss)
  BY <1>1
<1>4. PICK j \in S : \A i \in S : i <= j
  <2> HIDE DEF S
  <2> QED BY <1>1, <1>2, <1>3, Greatest
<1>5. ASSUME NEW i \in DOMAIN ss, i > j PROVE c[i] = d[i]
  <2>1. ~(i <= j)
    BY <1>1, <1>5
  <2> QED BY <1>4, <2>1
<1> QED BY <1>4, <1>5

LEMMA NotBeforeItself ==
    ASSUME NEW ss \in Seq(SiteSet), NEW c \in Cells(ss)
    PROVE  ~Before(ss, c, c)
<1> SUFFICES ASSUME NEW j \in DOMAIN ss, c[j] < c[j] PROVE FALSE
  BY DEF Before, LessAt
<1>1. c[j] \in {1, 2}
  BY CellIs
<1> QED BY <1>1

LEMMA NoneBefore ==
    ASSUME NEW ss \in Seq(SiteSet), NEW c \in Cells(ss)
    PROVE  /\ [i \in DOMAIN ss |-> 1] \in Cells(ss)
           /\ ~Before(ss, c, [i \in DOMAIN ss |-> 1])
<1> DEFINE d == [i \in DOMAIN ss |-> 1]
<1>1. d \in Cells(ss)
  <2>1. ASSUME NEW i \in DOMAIN ss PROVE d[i] <= Len(Outcomes(ss[i].odds))
    <3>1. Wide(ss, i) \in {1, 2}
      BY WideIs
    <3>2. 1 <= Wide(ss, i)
      BY <3>1
    <3> QED BY <3>2 DEF Wide
  <2> QED BY <2>1 DEF Cells
<1>2. ASSUME NEW j \in DOMAIN ss PROVE ~(c[j] < d[j])
  <2>1. c[j] \in {1, 2}
    BY CellIs
  <2> QED BY <2>1
<1> HIDE DEF d
<1>3. ~Before(ss, c, d)
  BY <1>2 DEF Before, LessAt
<1> QED BY <1>1, <1>3 DEF d

\* Where the odometer goes up.
Up(ss, d) == Min({i \in DOMAIN ss : d[i] < Len(Outcomes(ss[i].odds))})

LEMMA TurnedAt ==
    ASSUME NEW ss \in Seq(SiteSet), NEW d \in Cells(ss), ~LastCell(ss, d)
    PROVE  /\ Up(ss, d) \in DOMAIN ss
           /\ d[Up(ss, d)] = 1 /\ Turned(ss, d)[Up(ss, d)] = 2
           /\ \A i \in DOMAIN ss : i < Up(ss, d) => d[i] = Wide(ss, i) /\ Turned(ss, d)[i] = 1
           /\ \A i \in DOMAIN ss : i > Up(ss, d) => Turned(ss, d)[i] = d[i]
           /\ Turned(ss, d) \in Cells(ss)
<1> DEFINE S == {i \in DOMAIN ss : d[i] < Wide(ss, i)}
<1>0. /\ DOMAIN ss = 1 .. Len(ss) /\ Len(ss) \in Nat /\ DOMAIN d = DOMAIN ss
      /\ \A i \in DOMAIN ss : d[i] \in {1, 2} /\ d[i] <= Wide(ss, i)
  BY CellIs
<1>1. PICK i \in DOMAIN ss : d[i] # Wide(ss, i)
  BY DEF LastCell, Wide
<1>2. i \in S
  BY <1>0, <1>1, WideIs
<1>3. S \subseteq Nat
  BY <1>0
<1> PICK u : u = Min(S)
  OBVIOUS
<1>4. u \in S /\ \A x \in S : u <= x
  <2> HIDE DEF S
  <2> QED BY <1>2, <1>3, MinIs
<1>5. u = Up(ss, d)
  BY DEF Up, Wide
<1>6. u \in DOMAIN ss /\ u \in Nat /\ d[u] < Wide(ss, u)
  BY <1>0, <1>4
<1>7. d[u] = 1 /\ Wide(ss, u) = 2
  BY <1>0, <1>6, WideIs
<1>8. Turned(ss, d) = [x \in DOMAIN ss |-> IF x < u THEN 1 ELSE IF x = u THEN d[x] + 1 ELSE d[x]]
  BY <1>0, <1>5 DEF Turned, Up
<1> HIDE DEF S
<1>9. Turned(ss, d)[u] = 2
  BY <1>6, <1>7, <1>8
<1>10. ASSUME NEW x \in DOMAIN ss, x < u PROVE d[x] = Wide(ss, x) /\ Turned(ss, d)[x] = 1
  <2>1. x \notin S
    BY <1>0, <1>4, <1>6, <1>10
  <2>2. d[x] = Wide(ss, x)
    BY <1>0, <2>1, WideIs DEF S
  <2> QED BY <1>8, <1>10, <2>2
<1>11. ASSUME NEW x \in DOMAIN ss, x > u PROVE Turned(ss, d)[x] = d[x]
  <2>1. ~(x < u) /\ x # u
    BY <1>0, <1>6, <1>11
  <2> QED BY <1>8, <2>1
<1>12. Turned(ss, d) \in Cells(ss)
  <2>1. ASSUME NEW x \in DOMAIN ss
        PROVE  Turned(ss, d)[x] \in {1, 2} /\ Turned(ss, d)[x] <= Wide(ss, x)
    <3>1. x < u \/ x = u \/ x > u
      BY <1>0, <1>6
    <3>2. Wide(ss, x) \in {1, 2}
      BY WideIs
    <3> QED BY <1>0, <1>7, <1>9, <1>10, <1>11, <3>1, <3>2
  <2>2. Turned(ss, d) \in [DOMAIN ss -> {1, 2}]
    BY <1>8, <2>1
  <2> QED BY <2>1, <2>2 DEF Cells, Wide
<1> QED BY <1>5, <1>6, <1>7, <1>9, <1>10, <1>11, <1>12

\* After a turn of the odometer one cell more lies behind.
LEMMA TurnedIsNext ==
    ASSUME NEW ss \in Seq(SiteSet), NEW d \in Cells(ss), ~LastCell(ss, d), NEW c \in Cells(ss)
    PROVE  Before(ss, c, Turned(ss, d)) <=> Before(ss, c, d) \/ c = d
<1> PICK u : u = Up(ss, d)
  OBVIOUS
<1> PICK e : e = Turned(ss, d)
  OBVIOUS
<1>0. /\ u \in DOMAIN ss /\ d[u] = 1 /\ e[u] = 2
      /\ \A i \in DOMAIN ss : i < u => d[i] = Wide(ss, i) /\ e[i] = 1
      /\ \A i \in DOMAIN ss : i > u => e[i] = d[i]
  BY TurnedAt
<1>1. DOMAIN ss = 1 .. Len(ss) /\ Len(ss) \in Nat
      /\ \A i \in DOMAIN ss : c[i] \in {1, 2} /\ c[i] <= Wide(ss, i) /\ d[i] \in {1, 2} /\ Wide(ss, i) \in {1, 2}
  BY CellIs, WideIs
<1>2. ASSUME Before(ss, c, e), c # d PROVE Before(ss, c, d)
  <2>1. PICK j \in DOMAIN ss : c[j] < e[j] /\ \A i \in DOMAIN ss : i > j => c[i] = e[i]
    BY <1>2 DEF Before, LessAt
  <2>2. ~(j < u)
    BY <1>0, <1>1, <2>1
  <2>3. CASE j > u
    <3>1. c[j] < d[j]
      BY <1>0, <2>1, <2>3
    <3>2. ASSUME NEW i \in DOMAIN ss, i > j PROVE c[i] = d[i]
      <4>1. i > u
        BY <1>0, <1>1, <2>3, <3>2
      <4> QED BY <1>0, <2>1, <3>2, <4>1
    <3> QED BY <3>1, <3>2 DEF Before, LessAt
  <2>4. CASE j = u
    <3>1. \A i \in DOMAIN ss : i > u => c[i] = d[i]
      BY <1>0, <2>1, <2>4
    <3>2. PICK k \in DOMAIN ss : c[k] # d[k] /\ \A i \in DOMAIN ss : i > k => c[i] = d[i]
      BY <1>2, Differ
    <3>3. k <= u
      BY <1>0, <1>1, <3>1, <3>2
    <3>4. c[k] < d[k]
      <4>1. CASE k = u
        BY <1>0, <1>1, <2>1, <2>4, <3>2, <4>1
      <4>2. CASE k < u
        BY <1>0, <1>1, <3>2, <4>2
      <4> QED BY <1>0, <1>1, <3>3, <4>1, <4>2
    <3> QED BY <3>2, <3>4 DEF Before, LessAt
  <2> QED BY <1>0, <1>1, <2>2, <2>3, <2>4
<1>3. ASSUME c = d PROVE Before(ss, c, e)
  <2>1. LessAt(ss, c, e, u)
    BY <1>0, <1>3 DEF LessAt
  <2> QED BY <1>0, <2>1 DEF Before
<1>4. ASSUME Before(ss, c, d) PROVE Before(ss, c, e)
  <2>1. PICK j \in DOMAIN ss : c[j] < d[j] /\ \A i \in DOMAIN ss : i > j => c[i] = d[i]
    BY <1>4 DEF Before, LessAt
  <2>2. CASE j > u
    <3>1. c[j] < e[j]
      BY <1>0, <2>1, <2>2
    <3>2. ASSUME NEW i \in DOMAIN ss, i > j PROVE c[i] = e[i]
      <4>1. i > u
        BY <1>0, <1>1, <2>2, <3>2
      <4> QED BY <1>0, <2>1, <3>2, <4>1
    <3> QED BY <3>1, <3>2 DEF Before, LessAt
  <2>3. CASE j <= u
    <3>1. ASSUME NEW i \in DOMAIN ss, i > u PROVE c[i] = e[i]
      <4>1. i > j
        BY <1>0, <1>1, <2>3, <3>1
      <4> QED BY <1>0, <2>1, <3>1, <4>1
    <3>2. c[u] < e[u]
      <4>1. CASE j = u
        BY <1>0, <1>1, <2>1, <4>1
      <4>2. CASE j < u
        BY <1>0, <1>1, <2>1, <4>2
      <4> QED BY <1>0, <1>1, <2>3, <4>1, <4>2
    <3>3. LessAt(ss, c, e, u)
      BY <3>1, <3>2 DEF LessAt
    <3> QED BY <1>0, <3>3 DEF Before
  <2> QED BY <1>0, <1>1, <2>2, <2>3
<1> QED BY <1>2, <1>3, <1>4

\* At the last cell all others lie behind.
LEMMA LastIsLast ==
    ASSUME NEW ss \in Seq(SiteSet), NEW d \in Cells(ss), LastCell(ss, d), NEW c \in Cells(ss)
    PROVE  Before(ss, c, d) \/ c = d
<1> SUFFICES ASSUME c # d PROVE Before(ss, c, d)
  OBVIOUS
<1>1. PICK k \in DOMAIN ss : c[k] # d[k] /\ \A i \in DOMAIN ss : i > k => c[i] = d[i]
  BY Differ
<1>2. d[k] = Wide(ss, k) /\ c[k] <= Wide(ss, k) /\ c[k] \in {1, 2} /\ d[k] \in {1, 2}
  BY CellIs DEF LastCell, Wide
<1>3. c[k] < d[k]
  BY <1>1, <1>2
<1> QED BY <1>1, <1>3 DEF Before, LessAt

-----------------------------------------------------------------------------
(* The invariant of the rounds.                                             *)

Phases == {"record", "pass", "fold", "done", "refused", "tripped"}

Typed ==
    /\ turn \in Turns /\ cap \in Nat /\ rounds \in Nat /\ phase \in Phases
    /\ sites \in Seq(SiteSet) /\ logs \in Logs
    /\ phase \in {"pass", "fold"} => idx \in Cells(sites)

\* The cells that have been replayed.
Replayed(c) == phase = "fold" \/ (phase = "pass" /\ Before(sites, c, idx))

\* No cell of this pass misses one of its first draws.
PassIsDeep ==
    phase \in {"pass", "fold"} => \A c \in Cells(sites) : Deep(turn, stream, sites, c, rounds + 1)

\* What a replay missed is on record.
OnRecord(ls, log) == \E i \in DOMAIN ls : ls[i] = log

MissesNoted ==
    \A c \in Cells(sites) :
        Replayed(c) /\ Play(turn, stream, sites, c).log # <<>> => OnRecord(logs, Play(turn, stream, sites, c).log)

\* A log on record starts late.
Late(log, d) == log # <<>> /\ log[1].after > d /\ log[1].after < MaxDraws

LogsLate == \A i \in DOMAIN logs : Late(logs[i], rounds)

Capped == phase = "done" /\ logs # <<>> => rounds >= cap

Unrecorded == phase = "record" => sites = <<>> /\ mass = <<>> /\ logs = <<>> /\ rounds = 0

DeepInv == Typed /\ PassIsDeep /\ MissesNoted /\ LogsLate /\ Capped /\ Unrecorded

LEMMA InitDeep == FrontierInit => DeepInv
<1> SUFFICES ASSUME FrontierInit PROVE DeepInv
  OBVIOUS
<1>1. phase = "record" /\ sites = <<>> /\ logs = <<>> /\ rounds = 0 /\ turn \in Turns /\ cap \in Nat
  BY FrontierAssumption DEF FrontierInit
<1>2. <<>> \in Seq(SiteSet) /\ <<>> \in Logs /\ DOMAIN <<>> = {}
  BY DEF Logs
<1>3. Typed
  BY <1>1, <1>2 DEF Typed, Phases
<1>4. PassIsDeep /\ MissesNoted /\ Capped
  BY <1>1 DEF PassIsDeep, MissesNoted, Replayed, Capped
<1>5. LogsLate
  BY <1>1, <1>2 DEF LogsLate
<1>6. Unrecorded
  BY DEF FrontierInit, Unrecorded
<1> QED BY <1>3, <1>4, <1>5, <1>6 DEF DeepInv

\* The sites that are recorded: what the first run drew.
Recorded(log) == [i \in DOMAIN log |-> [key |-> log[i].key, odds |-> log[i].odds]]

LEMMA RecordedIs ==
    ASSUME NEW log \in Seq(Noted)
    PROVE  Recorded(log) \in Seq(SiteSet) /\ DOMAIN Recorded(log) = DOMAIN log
<1>1. DOMAIN log = 1 .. Len(log) /\ Len(log) \in Nat
  BY LenProperties
<1>2. \A i \in DOMAIN log : log[i] \in Noted
  BY <1>1, ElementOfSeq
<1>3. ASSUME NEW i \in DOMAIN log PROVE [key |-> log[i].key, odds |-> log[i].odds] \in SiteSet
  <2>1. log[i] \in Noted
    BY <1>2
  <2> QED BY <2>1 DEF Noted, SiteSet
<1>4. Recorded(log) \in [1 .. Len(log) -> SiteSet]
  BY <1>1, <1>3 DEF Recorded
<1>5. Recorded(log) \in Seq(SiteSet)
  BY <1>1, <1>4, SeqDef
<1> QED BY <1>5 DEF Recorded

\* The log of a run is a log.
LEMMA PlayIs ==
    ASSUME NEW t \in Turns, NEW s, NEW ss, NEW c
    PROVE  /\ RunOK(t, ss, MaxDraws, Play(t, s, ss, c))
           /\ Play(t, s, ss, c).log \in Seq(Noted)
           /\ Play(t, s, ss, c).log # <<>> =>
                 /\ 1 \in DOMAIN Play(t, s, ss, c).log
                 /\ Play(t, s, ss, c).log[1].after < MaxDraws
<1>1. MaxDraws \in 0 .. MaxDraws
  BY FrontierAssumption
<1>2. RunOK(t, ss, MaxDraws, Play(t, s, ss, c))
  BY <1>1, RunsOK DEF Play
<1> PICK log : log = Play(t, s, ss, c).log
  OBVIOUS
<1>3. log \in Seq(Noted) /\ \A j \in 1 .. Len(log) : log[j].after < MaxDraws
  BY <1>2 DEF RunOK
<1>4. log # <<>> => 1 \in DOMAIN log /\ 1 \in 1 .. Len(log)
  BY <1>3, LenProperties
<1> QED BY <1>2, <1>3, <1>4

\* The first draw of every replay of the recorded sites is on file.
LEMMA RecordedDeep ==
    ASSUME NEW t \in Turns, NEW s, Play(t, s, <<>>, <<>>).log # <<>>, NEW c
    PROVE  Deep(t, s, Recorded(Play(t, s, <<>>, <<>>).log), c, 1)
<1> PICK log : log = Play(t, s, <<>>, <<>>).log
  OBVIOUS
<1> PICK ss : ss = Recorded(log)
  OBVIOUS
<1>0. MaxDraws \in Nat
  BY FrontierAssumption
<1>1. log \in Seq(Noted) /\ 1 \in DOMAIN log
  BY PlayIs
<1>2. 1 \in DOMAIN ss /\ ss[1].key = log[1].key
  BY <1>1 DEF Recorded
<1>3. Run(t, s, ss, c)[0].log = <<>> /\ Run(t, s, ss, c)[0] = Begin(ss)
  BY RunSteps DEF Begin
<1>4. ASSUME 1 <= MaxDraws PROVE Run(t, s, ss, c)[1].log = <<>>
  <2>1. 0 < MaxDraws /\ 0 + 1 = 1
    BY <1>0, <1>4
  <2>2. Run(t, s, ss, c)[1] = Draw(t, s, ss, c, Begin(ss))
    BY <1>3, <2>1, RunSteps
  <2>3. CASE Key(t, <<>>) = Over
    <3>1. Draw(t, s, ss, c, Begin(ss)) = Begin(ss)
      BY <2>3, DrawOver DEF Begin
    <3> QED BY <2>2, <3>1 DEF Begin
  <2>4. CASE Key(t, <<>>) # Over
    <3> PICK r : r = Begin(<<>>)
      OBVIOUS
    <3>1. r.at = <<>> /\ r.log = <<>> /\ r.left = {}
      BY DEF Begin
    <3>2. Queue(t, <<>>, r) = {} /\ Key(t, r.at) # Over /\ r = Run(t, s, <<>>, <<>>)[0]
      BY <2>4, <3>1, RunSteps DEF Queue
    <3>3. log[1] = [key |-> Key(t, r.at), odds |-> Odds(t, r.at), after |-> 0]
      BY <2>1, <3>1, <3>2, MissIsFirst
    <3>4. log[1].key = Key(t, <<>>)
      BY <3>1, <3>3
    <3>5. 1 \in Queue(t, ss, Begin(ss))
      BY <1>2, <3>4 DEF Queue, Begin
    <3>6. Begin(ss).at = <<>> /\ Begin(ss).log = <<>>
      BY DEF Begin
    <3>7. Draw(t, s, ss, c, Begin(ss)).log = Begin(ss).log
      BY <2>4, <3>5, <3>6, DrawFiled
    <3> QED BY <2>2, <3>6, <3>7
  <2> QED BY <2>3, <2>4
<1>5. ASSUME NEW n \in 0 .. MaxDraws, n <= 1 PROVE Run(t, s, ss, c)[n].log = <<>>
  <2>1. n = 0 \/ (n = 1 /\ 1 <= MaxDraws)
    BY <1>0, <1>5
  <2> QED BY <1>3, <1>4, <2>1
<1> QED BY <1>5 DEF Deep

\* A pass that opens, deep enough, keeps the invariant.
LEMMA OpenKeeps ==
    ASSUME Typed, NEW ss \in Seq(SiteSet), Open(ss),
           turn' = turn, stream' = stream, cap' = cap, rounds' \in Nat,
           \A c \in Cells(ss) : Deep(turn, stream, ss, c, rounds' + 1)
    PROVE  DeepInv'
<1>1. /\ sites' = ss /\ logs' = <<>> /\ idx' = [i \in DOMAIN ss |-> 1]
      /\ phase' = "refused" \/ phase' = "pass"
  BY DEF Open
<1>2. idx' \in Cells(ss) /\ \A c \in Cells(ss) : ~Before(ss, c, idx')
  <2>1. idx' \in Cells(ss)
    <3>1. \A i \in DOMAIN ss : 1 <= Len(Outcomes(ss[i].odds))
      <4>1. ASSUME NEW i \in DOMAIN ss PROVE 1 <= Wide(ss, i)
        BY WideIs
      <4> QED BY <4>1 DEF Wide
    <3> QED BY <1>1, <3>1 DEF Cells
  <2> QED BY <1>1, <2>1, NoneBefore
<1>3. <<>> \in Logs /\ DOMAIN <<>> = {}
  BY DEF Logs
<1>4. Typed'
  BY <1>1, <1>2, <1>3 DEF Typed, Phases
<1>5. PassIsDeep'
  BY <1>1 DEF PassIsDeep
<1>6. MissesNoted'
  BY <1>1, <1>2 DEF MissesNoted, Replayed
<1>7. LogsLate' /\ Capped'
  BY <1>1, <1>3 DEF LogsLate, Capped
<1>8. Unrecorded'
  BY <1>1 DEF Unrecorded
<1> QED BY <1>4, <1>5, <1>6, <1>7, <1>8 DEF DeepInv

LEMMA RecordDeep == DeepInv /\ Record => DeepInv'
<1> SUFFICES ASSUME DeepInv, Record PROVE DeepInv'
  OBVIOUS
<1> PICK run : run = Play(turn, stream, <<>>, <<>>)
  OBVIOUS
<1>0. /\ phase = "record" /\ UNCHANGED <<turn, stream, cap, rounds>>
      /\ \/ /\ run.log = <<>> /\ phase' = "done" /\ UNCHANGED <<sites, idx, logs>>
         \/ /\ run.log # <<>>
            /\ Open([i \in DOMAIN run.log |-> [key |-> run.log[i].key, odds |-> run.log[i].odds]])
  BY DEF Record
<1>a. turn \in Turns /\ rounds \in Nat /\ Typed
  BY DEF DeepInv, Typed
<1>b. rounds = 0 /\ logs = <<>> /\ sites = <<>>
  BY <1>0 DEF DeepInv, Unrecorded
<1>1. CASE run.log = <<>> /\ phase' = "done" /\ UNCHANGED <<sites, idx, logs>>
  <2>1. Typed'
    BY <1>0, <1>1, <1>a DEF Typed, Phases
  <2>2. PassIsDeep' /\ MissesNoted' /\ Capped' /\ Unrecorded'
    BY <1>1, <1>b DEF PassIsDeep, MissesNoted, Replayed, Capped, Unrecorded
  <2>3. LogsLate'
    BY <1>0, <1>1, <1>b DEF LogsLate
  <2> QED BY <2>1, <2>2, <2>3 DEF DeepInv
<1>2. CASE run.log # <<>> /\ Open([i \in DOMAIN run.log |-> [key |-> run.log[i].key, odds |-> run.log[i].odds]])
  <2> PICK ss : ss = Recorded(run.log)
    OBVIOUS
  <2>1. Open(ss)
    BY <1>2 DEF Recorded
  <2>2. run.log \in Seq(Noted)
    BY <1>a, PlayIs
  <2>3. ss \in Seq(SiteSet)
    BY <2>2, RecordedIs
  <2>4. ASSUME NEW c \in Cells(ss) PROVE Deep(turn, stream, ss, c, 1)
    BY <1>2, <1>a, RecordedDeep
  <2>5. rounds' = 0 /\ rounds' \in Nat /\ rounds' + 1 = 1
    BY <1>0, <1>b
  <2>6. \A c \in Cells(ss) : Deep(turn, stream, ss, c, rounds' + 1)
    BY <2>4, <2>5
  <2> QED BY <1>0, <1>a, <2>1, <2>3, <2>5, <2>6, OpenKeeps
<1> QED BY <1>0, <1>1, <1>2

\* A history of logs goes on.
GoesOn(ls, log, ms) ==
    /\ ms \in Logs
    /\ \A x : OnRecord(ls, x) => OnRecord(ms, x)
    /\ log # <<>> => OnRecord(ms, log)
    /\ \A i \in DOMAIN ms : (ms[i] = log /\ log # <<>>) \/ (i \in DOMAIN ls /\ ms[i] = ls[i])

LEMMA LogsGrow ==
    ASSUME NEW ls \in Logs, NEW log \in Seq(Noted)
    PROVE  GoesOn(ls, log, IF log = <<>> THEN ls ELSE Append(ls, log))
<1> PICK ms : ms = IF log = <<>> THEN ls ELSE Append(ls, log)
  OBVIOUS
<1> SUFFICES GoesOn(ls, log, ms)
  OBVIOUS
<1>1. CASE log = <<>>
  BY <1>1 DEF GoesOn
<1>2. CASE log # <<>>
  <2>0. ms = Append(ls, log)
    BY <1>2
  <2>1. Len(ls) \in Nat /\ DOMAIN ls = 1 .. Len(ls) /\ ls \in Seq(Seq(Noted))
    BY LenProperties DEF Logs
  <2>2. /\ ms \in Seq(Seq(Noted)) /\ Len(ms) = Len(ls) + 1 /\ ms[Len(ls) + 1] = log
        /\ \A i \in 1 .. Len(ls) : ms[i] = ls[i]
    BY <2>0, <2>1, AppendProperties
  <2>3. DOMAIN ms = 1 .. Len(ls) + 1
    BY <2>2, LenProperties
  <2>4. \A i \in 1 .. Len(ls) + 1 : i \in 1 .. Len(ls) \/ i = Len(ls) + 1
    BY <2>1
  <2>5. Len(ls) + 1 \in 1 .. Len(ls) + 1 /\ \A i \in 1 .. Len(ls) : i \in 1 .. Len(ls) + 1
    BY <2>1
  <2>6. \A x : OnRecord(ls, x) => OnRecord(ms, x)
    BY <2>1, <2>2, <2>3, <2>5 DEF OnRecord
  <2>7. OnRecord(ms, log)
    BY <2>2, <2>3, <2>5 DEF OnRecord
  <2>8. \A i \in DOMAIN ms : ms[i] = log \/ (i \in DOMAIN ls /\ ms[i] = ls[i])
    BY <2>1, <2>2, <2>3, <2>4
  <2> QED BY <1>2, <2>2, <2>6, <2>7, <2>8 DEF Logs, GoesOn
<1> QED BY <1>1, <1>2

\* After a replay its cell lies behind, and no other that did not.
LEMMA ReplayedNext ==
    ASSUME Typed, Replay, NEW c \in Cells(sites)
    PROVE  Replayed(c)' <=> Replayed(c) \/ c = idx
<1>0. /\ phase = "pass" /\ sites \in Seq(SiteSet) /\ idx \in Cells(sites)
      /\ idx' = IF LastCell(sites, idx) THEN idx ELSE Turned(sites, idx)
      /\ phase' = IF LastCell(sites, idx) THEN "fold" ELSE "pass"
      /\ sites' = sites
  BY DEF Typed, Replay
<1>1. CASE LastCell(sites, idx)
  <2>1. Before(sites, c, idx) \/ c = idx
    BY <1>0, <1>1, LastIsLast
  <2> QED BY <1>0, <1>1, <2>1 DEF Replayed
<1>2. CASE ~LastCell(sites, idx)
  <2>1. Before(sites, c, Turned(sites, idx)) <=> Before(sites, c, idx) \/ c = idx
    BY <1>0, <1>2, TurnedIsNext
  <2>2. phase' = "pass" /\ idx' = Turned(sites, idx)
    BY <1>0, <1>2
  <2> QED BY <1>0, <2>1, <2>2 DEF Replayed
<1> QED BY <1>1, <1>2

LEMMA ReplayDeep == DeepInv /\ Replay => DeepInv'
<1> SUFFICES ASSUME DeepInv, Replay PROVE DeepInv'
  OBVIOUS
<1> PICK run : run = Play(turn, stream, sites, idx)
  OBVIOUS
<1>0. /\ phase = "pass" /\ UNCHANGED <<turn, stream, cap, sites, rounds>>
      /\ logs' = IF run.log = <<>> THEN logs ELSE Append(logs, run.log)
      /\ idx' = IF LastCell(sites, idx) THEN idx ELSE Turned(sites, idx)
      /\ phase' = "fold" \/ phase' = "pass"
  BY DEF Replay
<1>1. /\ turn \in Turns /\ cap \in Nat /\ rounds \in Nat /\ sites \in Seq(SiteSet) /\ logs \in Logs
      /\ idx \in Cells(sites) /\ Typed
  BY <1>0 DEF DeepInv, Typed
<1>2. run.log \in Seq(Noted) /\ (run.log # <<>> => run.log[1].after < MaxDraws)
  BY <1>1, PlayIs
<1>3. /\ logs' \in Logs
      /\ \A x : OnRecord(logs, x) => OnRecord(logs', x)
      /\ run.log # <<>> => OnRecord(logs', run.log)
      /\ \A i \in DOMAIN logs' : (logs'[i] = run.log /\ run.log # <<>>) \/ (i \in DOMAIN logs /\ logs'[i] = logs[i])
  <2> PICK ms : ms = logs'
    OBVIOUS
  <2>1. ms = IF run.log = <<>> THEN logs ELSE Append(logs, run.log)
    BY <1>0
  <2> PICK log : log = run.log
    OBVIOUS
  <2>2. ms = IF log = <<>> THEN logs ELSE Append(logs, log)
    BY <2>1
  <2>3. log \in Seq(Noted) /\ logs \in Logs
    BY <1>1, <1>2
  <2>4. GoesOn(logs, log, ms)
    BY <2>2, <2>3, LogsGrow
  <2> QED BY <2>4 DEF GoesOn
<1>4. Typed'
  <2>1. idx' \in Cells(sites)
    BY <1>0, <1>1, TurnedAt
  <2> QED BY <1>0, <1>1, <1>3, <2>1 DEF Typed, Phases
<1>5. PassIsDeep'
  BY <1>0 DEF DeepInv, PassIsDeep
<1>6. MissesNoted'
  <2>1. SUFFICES ASSUME NEW c \in Cells(sites), Replayed(c)', Play(turn, stream, sites, c).log # <<>>
                 PROVE  OnRecord(logs', Play(turn, stream, sites, c).log)
    BY <1>0 DEF MissesNoted
  <2>2. Replayed(c) \/ c = idx
    BY <1>1, <2>1, ReplayedNext
  <2>3. CASE Replayed(c)
    <3>1. OnRecord(logs, Play(turn, stream, sites, c).log)
      BY <2>1, <2>3 DEF DeepInv, MissesNoted
    <3> QED BY <1>3, <3>1
  <2>4. CASE c = idx
    BY <1>3, <2>1, <2>4
  <2> QED BY <2>2, <2>3, <2>4
<1>7. LogsLate'
  <2>1. ASSUME run.log # <<>> PROVE Late(run.log, rounds)
    <3>1. Deep(turn, stream, sites, idx, rounds + 1) /\ rounds + 1 \in Nat
      BY <1>0, <1>1 DEF DeepInv, PassIsDeep
    <3>2. run.log[1].after >= rounds + 1
      BY <1>1, <2>1, <3>1, MissesLate
    <3>3. run.log[1].after \in Nat
      <4>1. 1 \in 1 .. Len(run.log)
        BY <1>2, <2>1, LenProperties
      <4>2. run.log[1] \in Noted
        BY <1>2, <4>1, ElementOfSeq
      <4> QED BY <4>2 DEF Noted
    <3> QED BY <1>1, <1>2, <2>1, <3>2, <3>3 DEF Late
  <2>2. ASSUME NEW i \in DOMAIN logs' PROVE Late(logs'[i], rounds)
    <3>1. CASE logs'[i] = run.log /\ run.log # <<>>
      BY <2>1, <3>1
    <3>2. CASE i \in DOMAIN logs /\ logs'[i] = logs[i]
      BY <3>2 DEF DeepInv, LogsLate
    <3> QED BY <1>3, <3>1, <3>2
  <2> QED BY <1>0, <2>2 DEF LogsLate
<1>8. Capped' /\ Unrecorded'
  BY <1>0 DEF Capped, Unrecorded
<1> QED BY <1>4, <1>5, <1>6, <1>7, <1>8 DEF DeepInv

\* The sites the next pass has.
LEMMA FoldDeeper ==
    ASSUME DeepInv, phase = "fold", NEW c \in Cells(sites \o Discovered(logs))
    PROVE  Deep(turn, stream, sites \o Discovered(logs), c, rounds + 2)
<1> PICK dd : dd = Discovered(logs)
  OBVIOUS
<1>1. /\ turn \in Turns /\ rounds \in Nat /\ sites \in Seq(SiteSet) /\ logs \in Logs
  BY DEF DeepInv, Typed
<1>2. dd \in Seq(SiteSet)
  BY <1>1, DiscoveredIs
<1> PICK b : b = Short(sites, c)
  OBVIOUS
<1>3. b \in Cells(sites)
  BY <1>1, <1>2, ShortIs
<1>4. Deep(turn, stream, sites, b, rounds + 1)
  BY <1>3 DEF DeepInv, PassIsDeep
<1>5. ASSUME Play(turn, stream, sites, b).log # <<>>
      PROVE  \E j \in DOMAIN dd : dd[j].key = Play(turn, stream, sites, b).log[1].key
  <2> PICK log : log = Play(turn, stream, sites, b).log
    OBVIOUS
  <2>1. OnRecord(logs, log)
    BY <1>3, <1>5 DEF DeepInv, MissesNoted, Replayed
  <2>2. PICK i \in DOMAIN logs : logs[i] = log
    BY <2>1 DEF OnRecord
  <2>3. 1 \in DOMAIN log
    BY <1>1, <1>5, PlayIs
  <2>4. \E n \in DOMAIN dd : dd[n].key = logs[i][1].key
    BY <1>1, <2>2, <2>3, DiscoveredIs
  <2> QED BY <2>2, <2>4
<1>6. rounds + 1 \in Nat /\ (rounds + 1) + 1 = rounds + 2
  BY <1>1
<1>7. Deep(turn, stream, sites \o dd, c, (rounds + 1) + 1)
  BY <1>1, <1>2, <1>4, <1>5, <1>6, SeesFurther
<1> QED BY <1>6, <1>7

LEMMA FoldDeep == DeepInv /\ Fold => DeepInv'
<1> SUFFICES ASSUME DeepInv, Fold PROVE DeepInv'
  OBVIOUS
<1>0. phase = "fold" /\ UNCHANGED <<turn, stream, cap>>
  BY DEF Fold
<1>1. /\ turn \in Turns /\ cap \in Nat /\ rounds \in Nat /\ sites \in Seq(SiteSet) /\ logs \in Logs /\ Typed
  BY DEF DeepInv, Typed
<1>2. CASE /\ Discovered(logs) = <<>> \/ rounds >= cap
           /\ phase' = "done" /\ UNCHANGED <<sites, idx, mass, logs, rounds>>
  <2>1. Typed'
    BY <1>0, <1>1, <1>2 DEF Typed, Phases
  <2>2. PassIsDeep' /\ MissesNoted' /\ Unrecorded'
    BY <1>2 DEF PassIsDeep, MissesNoted, Replayed, Unrecorded
  <2>3. LogsLate'
    BY <1>0, <1>2 DEF DeepInv, LogsLate
  <2>4. ASSUME logs # <<>> PROVE Discovered(logs) # <<>>
    <3>1. 1 \in DOMAIN logs
      BY <1>1, <2>4, LenProperties DEF Logs
    <3>2. logs[1] # <<>> /\ logs[1] \in Seq(Noted)
      BY <1>1, <3>1, LogIs DEF DeepInv, LogsLate, Late
    <3>3. 1 \in DOMAIN logs[1]
      BY <3>2, LenProperties
    <3>4. DOMAIN Discovered(logs) # {}
      BY <1>1, <3>1, <3>3, DiscoveredIs
    <3> QED BY <3>4
  <2>5. Capped'
    BY <1>0, <1>2, <2>4 DEF Capped
  <2> QED BY <2>1, <2>2, <2>3, <2>5 DEF DeepInv
<1>3. CASE Open(sites \o Discovered(logs)) /\ rounds' = rounds + 1
  <2> PICK ss : ss = sites \o Discovered(logs)
    OBVIOUS
  <2>1. ss \in Seq(SiteSet)
    BY <1>1, DiscoveredIs, ConcatProperties
  <2>2. rounds' \in Nat /\ rounds' + 1 = rounds + 2
    BY <1>1, <1>3
  <2>3. \A c \in Cells(ss) : Deep(turn, stream, ss, c, rounds + 2)
    BY <1>0, FoldDeeper
  <2>4. \A c \in Cells(ss) : Deep(turn, stream, ss, c, rounds' + 1)
    BY <2>2, <2>3
  <2> QED BY <1>0, <1>1, <1>3, <2>1, <2>2, <2>4, OpenKeeps
<1> QED BY <1>2, <1>3 DEF Fold

LEMMA TripDeep == DeepInv /\ Trip => DeepInv'
<1> SUFFICES ASSUME DeepInv, Trip PROVE DeepInv'
  OBVIOUS
<1>0. phase' = "tripped" /\ UNCHANGED <<turn, stream, cap, sites, idx, mass, logs, rounds>>
  BY DEF Trip
<1>1. Typed'
  BY <1>0 DEF DeepInv, Typed, Phases
<1>2. PassIsDeep' /\ MissesNoted' /\ Capped' /\ Unrecorded'
  BY <1>0 DEF PassIsDeep, MissesNoted, Replayed, Capped, Unrecorded
<1>3. LogsLate'
  BY <1>0 DEF DeepInv, LogsLate
<1> QED BY <1>1, <1>2, <1>3 DEF DeepInv

LEMMA StutterDeep == DeepInv /\ UNCHANGED frontier => DeepInv'
<1> SUFFICES ASSUME DeepInv, UNCHANGED frontier PROVE DeepInv'
  OBVIOUS
<1>0. UNCHANGED <<turn, stream, cap, phase, sites, idx, mass, logs, rounds>>
  BY DEF frontier
<1>1. Typed' /\ PassIsDeep' /\ Capped' /\ Unrecorded' /\ LogsLate'
  BY <1>0 DEF DeepInv, Typed, PassIsDeep, Capped, Unrecorded, LogsLate
<1>2. MissesNoted'
  BY <1>0 DEF DeepInv, MissesNoted, Replayed
<1> QED BY <1>1, <1>2 DEF DeepInv

LEMMA RoundsInvariant == FrontierSpec => []DeepInv
<1>1. DeepInv /\ [FrontierNext]_frontier => DeepInv'
  BY RecordDeep, ReplayDeep, FoldDeep, TripDeep, StutterDeep DEF FrontierNext
<1> QED BY <1>1, InitDeep, PTL DEF FrontierSpec

\* Whatever the turn, the fallback and the thresholds, the first draw a replay
\* of the n-th pass misses comes later than n draws.
THEOREM EachPassDeeperHolds == FrontierSpec => []EachPassDeeper
<1>1. DeepInv => EachPassDeeper
  BY DEF DeepInv, LogsLate, Late, EachPassDeeper
<1> QED BY <1>1, RoundsInvariant, PTL

\* A cap on the rounds leaves draws unmatched only in a turn that may make
\* two draws more than it: sixteen never bind on a turn of real length
\* (lib.rs:290-294).
CapIsForLongTurns == phase = "done" /\ logs # <<>> => cap + 2 <= MaxDraws

\* Whatever the turn, the fallback and the thresholds, the cap on the rounds
\* binds on no turn of fewer draws than it and two.
THEOREM CapIsForLongTurnsHolds == FrontierSpec => []CapIsForLongTurns
<1>1. DeepInv => CapIsForLongTurns
  <2>1. SUFFICES ASSUME DeepInv, phase = "done", logs # <<>> PROVE cap + 2 <= MaxDraws
    BY DEF CapIsForLongTurns
  <2>2. logs \in Logs /\ cap \in Nat /\ rounds \in Nat /\ rounds >= cap /\ MaxDraws \in Nat
    BY <2>1, FrontierAssumption DEF DeepInv, Typed, Capped
  <2>3. 1 \in DOMAIN logs
    BY <2>1, <2>2, LenProperties DEF Logs
  <2>4. logs[1] # <<>> /\ logs[1][1].after > rounds /\ logs[1][1].after < MaxDraws
    BY <2>1, <2>3 DEF DeepInv, LogsLate, Late
  <2>5. 1 \in DOMAIN logs[1]
    <3>1. logs[1] \in Seq(Noted)
      BY <2>2, <2>3, LogIs
    <3> QED BY <2>4, <3>1, LenProperties
  <2>6. logs[1][1].after \in Nat
    <3>1. logs[1][1] \in Noted
      BY <2>2, <2>3, <2>5, LogIs
    <3> QED BY <3>1 DEF Noted
  <2> QED BY <2>2, <2>4, <2>6
<1> QED BY <1>1, RoundsInvariant, PTL

-----------------------------------------------------------------------------
(* Products, and how many vectors of rolls there are.                       *)

\* g is the product of each of the first m numbers of q.
Multiplying(g, q, m) == g = [i \in 0 .. m |-> IF i = 0 THEN 1 ELSE g[i - 1] * q[i]]

\* The same, number by number.
Partial(q, g) == g[0] = 1 /\ \A i \in 1 .. Len(q) : g[i] = g[i - 1] * q[i]

LEMMA MultiplyingSteps ==
    ASSUME NEW g, NEW q, NEW m \in Nat, Multiplying(g, q, m)
    PROVE  g[0] = 1 /\ \A i \in 1 .. m : g[i] = g[i - 1] * q[i]
<1>1. 0 \in 0 .. m /\ \A i \in 1 .. m : i \in 0 .. m /\ i # 0
  OBVIOUS
<1> QED BY <1>1 DEF Multiplying

LEMMA MultiplyingExists ==
    ASSUME NEW q, NEW m \in Nat
    PROVE  \E g : Multiplying(g, q, m)
<1> DEFINE P == {k \in Nat : \E g : Multiplying(g, q, k)}
<1>1. 0 \in P
  <2> DEFINE g == [i \in 0 .. 0 |-> 1]
  <2>1. Multiplying(g, q, 0)
    BY DEF Multiplying
  <2> QED BY <2>1
<1>2. ASSUME NEW j \in Nat, j \in P PROVE j + 1 \in P
  <2>1. PICK h : Multiplying(h, q, j)
    BY <1>2
  <2>2. h[0] = 1 /\ \A i \in 1 .. j : h[i] = h[i - 1] * q[i]
    BY <2>1, MultiplyingSteps
  <2>3. PICK k \in Nat : k = j + 1
    OBVIOUS
  <2> PICK last : last = h[j] * q[k]
    OBVIOUS
  <2> DEFINE g == [i \in 0 .. k |-> IF i = k THEN last ELSE h[i]]
  <2>4. ASSUME NEW i \in 0 .. k
        PROVE  g[i] = IF i = 0 THEN 1 ELSE g[i - 1] * q[i]
    <3>1. CASE i = 0
      BY <2>2, <2>3, <3>1
    <3>2. CASE i # 0
      <4>1. i - 1 \in 0 .. k /\ i - 1 # k /\ (i # k => i \in 1 .. j) /\ (i = k => i - 1 = j)
        BY <2>3, <3>2
      <4>2. g[i - 1] = h[i - 1]
        BY <4>1
      <4> QED BY <2>2, <3>2, <4>1, <4>2
    <3> QED BY <3>1, <3>2
  <2>5. Multiplying(g, q, k)
    BY <2>4 DEF Multiplying
  <2> QED BY <2>3, <2>5
<1> HIDE DEF P
<1>3. m \in P
  BY <1>1, <1>2, Counting
<1> QED BY <1>3 DEF P

\* What Product computes.
LEMMA ProductIs ==
    ASSUME NEW q \in Seq(Nat)
    PROVE  \E g : Partial(q, g) /\ g[Len(q)] = Product(q)
<1> DEFINE G == CHOOSE g : Multiplying(g, q, Len(q))
<1>0. Len(q) \in Nat
  BY LenProperties
<1>1. Multiplying(G, q, Len(q))
  BY <1>0, MultiplyingExists
<1>2. Product(q) = G[Len(q)]
  BY DEF Product, Multiplying
<1> HIDE DEF G
<1>3. Partial(q, G)
  BY <1>0, <1>1, MultiplyingSteps DEF Partial
<1> QED BY <1>2, <1>3

LEMMA TimesNat == ASSUME NEW a \in Nat, NEW b \in Nat PROVE a * b \in Nat
  OBVIOUS

LEMMA PartialNat ==
    ASSUME NEW q \in Seq(Nat), NEW g, Partial(q, g)
    PROVE  \A i \in 0 .. Len(q) : g[i] \in Nat
<1> DEFINE P == {i \in Nat : i <= Len(q) => g[i] \in Nat}
<1>0. Len(q) \in Nat
  BY LenProperties
<1>1. 0 \in P
  BY DEF Partial
<1>2. ASSUME NEW i \in Nat, i \in P PROVE i + 1 \in P
  <2>1. SUFFICES ASSUME i + 1 <= Len(q) PROVE g[i + 1] \in Nat
    OBVIOUS
  <2>2. PICK k \in 1 .. Len(q) : k = i + 1 /\ k - 1 = i
    BY <1>0, <2>1
  <2>3. g[i] \in Nat /\ q[k] \in Nat
    <3>1. i <= Len(q)
      BY <1>0, <2>1
    <3> QED BY <1>2, <2>2, <3>1, ElementOfSeq
  <2>4. g[k] = g[i] * q[k]
    BY <2>2 DEF Partial
  <2> QED BY <2>2, <2>3, <2>4, TimesNat
<1> HIDE DEF P
<1>3. Nat \subseteq P
  BY <1>1, <1>2, Counting
<1>4. ASSUME NEW i \in 0 .. Len(q) PROVE g[i] \in Nat
  <2>1. i \in P /\ i <= Len(q)
    BY <1>0, <1>3
  <2> QED BY <2>1 DEF P
<1> QED BY <1>4

\* A product of ones.
LEMMA ProductOfOnes ==
    ASSUME NEW q \in Seq(Nat), \A i \in 1 .. Len(q) : q[i] = 1
    PROVE  Product(q) = 1
<1>0. Len(q) \in Nat
  BY LenProperties
<1>1. PICK g : Partial(q, g) /\ g[Len(q)] = Product(q)
  BY ProductIs
<1> DEFINE P == {i \in Nat : i <= Len(q) => g[i] = 1}
<1>2. 0 \in P
  BY <1>1 DEF Partial
<1>3. ASSUME NEW i \in Nat, i \in P PROVE i + 1 \in P
  <2>1. SUFFICES ASSUME i + 1 <= Len(q) PROVE g[i + 1] = 1
    OBVIOUS
  <2>2. PICK k \in 1 .. Len(q) : k = i + 1 /\ k - 1 = i
    BY <1>0, <2>1
  <2>3. g[i] = 1 /\ q[k] = 1
    BY <1>0, <1>3, <2>1, <2>2
  <2>4. g[k] = g[i] * q[k]
    BY <1>1, <2>2 DEF Partial
  <2> QED BY <2>2, <2>3, <2>4
<1> HIDE DEF P
<1>4. Nat \subseteq P
  BY <1>2, <1>3, Counting
<1>5. Len(q) \in P /\ Len(q) <= Len(q)
  BY <1>0, <1>4
<1> QED BY <1>1, <1>5 DEF P

\* The ways n rolls may fall.
Vectors(n) == [1 .. n -> 1 .. Den]

LEMMA VectorsFinite ==
    ASSUME NEW n \in Nat
    PROVE  IsFiniteSet(Vectors(n))
<1> DEFINE T == SUBSET ((1 .. n) \X (1 .. Den))
           F == [f \in Vectors(n) |-> {<<i, f[i]>> : i \in 1 .. n}]
<1>0. Den \in Nat
  BY FrontierAssumption
<1>1. IsFiniteSet(T)
  <2>1. IsFiniteSet(1 .. n) /\ IsFiniteSet(1 .. Den)
    BY <1>0, FS_Interval
  <2>2. IsFiniteSet((1 .. n) \X (1 .. Den))
    BY <2>1, FS_Product
  <2> QED BY <2>2, FS_SUBSET
<1>2. F \in [Vectors(n) -> T]
  BY DEF Vectors
<1>3. ASSUME NEW f \in Vectors(n), NEW h \in Vectors(n), F[f] = F[h] PROVE f = h
  <2>1. {<<i, f[i]>> : i \in 1 .. n} = {<<i, h[i]>> : i \in 1 .. n}
    BY <1>3
  <2>2. ASSUME NEW i \in 1 .. n PROVE f[i] = h[i]
    <3>1. <<i, f[i]>> \in {<<j, f[j]>> : j \in 1 .. n}
      OBVIOUS
    <3>2. PICK j \in 1 .. n : <<i, f[i]>> = <<j, h[j]>>
      BY <2>1, <3>1
    <3> QED BY <3>2
  <2> QED BY <2>2 DEF Vectors
<1> HIDE DEF T, F
<1>4. F \in Injection(Vectors(n), T)
  BY <1>2, <1>3, Fun_IsInj
<1> QED BY <1>1, <1>4, FS_Injection

\* Sets of vectors are finite, and so are their counts.
LEMMA CountIs ==
    ASSUME NEW n \in Nat, NEW W \in SUBSET Vectors(n)
    PROVE  IsFiniteSet(W) /\ Cardinality(W) \in Nat /\ (Cardinality(W) = 0 <=> W = {})
<1>1. IsFiniteSet(W)
  BY VectorsFinite, FS_Subset
<1> QED BY <1>1, FS_CardinalityType, FS_EmptySet

\* Of vectors that may have any roll at u, those with a roll of A there are
\* to all as A is to the rolls.
LEMMA Slice ==
    ASSUME NEW n \in Nat, NEW W \in SUBSET Vectors(n), NEW u \in 1 .. n,
           \A f \in W : \A x \in 1 .. Den : [f EXCEPT ![u] = x] \in W,
           NEW A \in SUBSET (1 .. Den)
    PROVE  Cardinality({f \in W : f[u] \in A}) * Den = Cardinality(W) * Cardinality(A)
<1> DEFINE X == {f \in W : f[u] \in A}
           S == X \X (1 .. Den)
           T == W \X A
           F == [p \in S |-> <<[p[1] EXCEPT ![u] = p[2]], p[1][u]>>]
<1>0. Den \in Nat /\ IsFiniteSet(1 .. Den) /\ Cardinality(1 .. Den) = Den
  BY FrontierAssumption, FS_Interval
<1>1. IsFiniteSet(W) /\ IsFiniteSet(X) /\ IsFiniteSet(A)
  <2>1. X \in SUBSET Vectors(n)
    OBVIOUS
  <2> HIDE DEF X
  <2> QED BY <1>0, <2>1, CountIs, FS_Subset
<1>2. F \in [S -> T]
  <2>1. ASSUME NEW p \in S PROVE <<[p[1] EXCEPT ![u] = p[2]], p[1][u]>> \in T
    OBVIOUS
  <2> HIDE DEF S, T
  <2> QED BY <2>1
<1>a. \A f \in W : DOMAIN f = 1 .. n /\ f = [i \in 1 .. n |-> f[i]]
  BY DEF Vectors
<1>3. ASSUME NEW p \in S, NEW q \in S, F[p] = F[q] PROVE p = q
  <2>1. PICK f \in X, x \in 1 .. Den : p = <<f, x>>
    <3> HIDE DEF X, T, F
    <3> QED OBVIOUS
  <2>2. PICK h \in X, y \in 1 .. Den : q = <<h, y>>
    <3> HIDE DEF X, T, F
    <3> QED OBVIOUS
  <2>3. [f EXCEPT ![u] = x] = [h EXCEPT ![u] = y] /\ f[u] = h[u]
    BY <1>3, <2>1, <2>2
  <2>4. x = y
    <3>1. [f EXCEPT ![u] = x][u] = x /\ [h EXCEPT ![u] = y][u] = y
      BY <1>a
    <3> QED BY <2>3, <3>1
  <2>5. ASSUME NEW i \in 1 .. n PROVE f[i] = h[i]
    <3>1. CASE i = u
      BY <2>3, <3>1
    <3>2. CASE i # u
      <4>1. [f EXCEPT ![u] = x][i] = f[i] /\ [h EXCEPT ![u] = y][i] = h[i]
        BY <1>a, <3>2
      <4> QED BY <2>3, <4>1
    <3> QED BY <3>1, <3>2
  <2>6. f = h
    BY <1>a, <2>5
  <2> QED BY <2>1, <2>2, <2>4, <2>6
<1>4. ASSUME NEW r \in T PROVE \E p \in S : F[p] = r
  <2>1. PICK g \in W, a \in A : r = <<g, a>>
    <3> HIDE DEF X, S, F
    <3>1. r = <<r[1], r[2]>> /\ r[1] \in W /\ r[2] \in A
      OBVIOUS
    <3> QED BY <3>1
  <2>2. PICK f : f = [g EXCEPT ![u] = a]
    OBVIOUS
  <2>3. f \in W /\ f[u] = a
    BY <1>a, <2>2
  <2>4. g[u] \in 1 .. Den
    BY DEF Vectors
  <2>5. <<f, g[u]>> \in S
    BY <2>3, <2>4
  <2>6. [f EXCEPT ![u] = g[u]] = g
    <3>1. ASSUME NEW i \in 1 .. n PROVE [f EXCEPT ![u] = g[u]][i] = g[i]
      <4>1. DOMAIN f = 1 .. n /\ DOMAIN g = 1 .. n
        BY <1>a, <2>3
      <4> QED BY <2>2, <4>1
    <3>2. [f EXCEPT ![u] = g[u]] \in W
      BY <2>3, <2>4
    <3> QED BY <1>a, <3>1, <3>2
  <2>7. F[<<f, g[u]>>] = <<g, a>>
    BY <2>3, <2>5, <2>6
  <2> QED BY <2>1, <2>5, <2>7
<1>5. Cardinality(S) = Cardinality(X) * Den /\ IsFiniteSet(S)
  <2> HIDE DEF X
  <2> QED BY <1>0, <1>1, FS_Product
<1>6. Cardinality(T) = Cardinality(W) * Cardinality(A)
  BY <1>1, FS_Product
<1>7. Cardinality(T) = Cardinality(S)
  <2> HIDE DEF S, T, F
  <2>1. F \in Bijection(S, T)
    BY <1>2, <1>3, <1>4, Fun_IsBij
  <2>2. ExistsBijection(S, T)
    BY <2>1 DEF ExistsBijection
  <2> QED BY <1>5, <2>2, FS_Bijection
<1> QED BY <1>5, <1>6, <1>7

-----------------------------------------------------------------------------
(* How many vectors lie in a box: the rolls of each site in a set of theirs. *)

\* a is to b as s is to d.
AsMany(a, d, b, s) == a * d = b * s

\* From one slice to the next.
LEMMA Across ==
    ASSUME NEW a \in Nat, NEW b \in Nat, NEW s \in Nat, NEW d \in Nat, NEW g \in Nat, NEW h \in Nat, NEW r \in Nat,
           AsMany(a, d, b, s), AsMany(b, h, g, r)
    PROVE  AsMany(a, h * d, g * s, r)
<1>0. a * d = b * s /\ b * h = g * r
  BY DEF AsMany
<1>1. a * (h * d) = (a * d) * h
  OBVIOUS
<1>2. (b * s) * h = (b * h) * s
  OBVIOUS
<1>3. (g * r) * s = (g * s) * r
  OBVIOUS
<1> QED BY <1>0, <1>1, <1>2, <1>3 DEF AsMany

LEMMA Cancel ==
    ASSUME NEW a \in Nat, NEW b \in Nat, NEW r \in Nat, r # 0, a * r = b * r
    PROVE  a = b
<1>1. (a - b) * r = 0
  BY a * r = b * r
<1>2. a - b = 0
  <2>1. PICK x \in Int : x = a - b
    OBVIOUS
  <2>2. \A y \in Int : y * r = 0 => y = 0
    OBVIOUS
  <2> QED BY <1>1, <2>1, <2>2
<1> QED BY <1>2

\* Rolls(n) as a product of a list.
Dens(n) == [i \in 1 .. n |-> Den]

LEMMA RollsAre ==
    ASSUME NEW n \in Nat
    PROVE  /\ Dens(n) \in Seq(Nat) /\ Len(Dens(n)) = n /\ Rolls(n) = Product(Dens(n))
           /\ Rolls(n) \in Nat /\ Rolls(n) # 0
<1>0. Den \in Nat /\ Den # 0
  BY FrontierAssumption
<1>1. Dens(n) \in [1 .. n -> Nat]
  BY <1>0 DEF Dens
<1>2. Dens(n) \in Seq(Nat) /\ Len(Dens(n)) = n
  <2>1. Dens(n) \in Seq(Nat)
    BY <1>1, SeqDef
  <2>2. DOMAIN Dens(n) = 1 .. n
    BY <1>1
  <2> QED BY <2>1, <2>2, LenProperties
<1>3. Rolls(n) = Product(Dens(n))
  BY DEF Rolls, Dens
<1>4. PICK h : Partial(Dens(n), h) /\ h[n] = Rolls(n)
  BY <1>2, <1>3, ProductIs
<1> DEFINE P == {i \in Nat : i <= n => h[i] \in Nat /\ h[i] # 0}
<1>5. 0 \in P
  BY <1>4 DEF Partial
<1>6. ASSUME NEW i \in Nat, i \in P PROVE i + 1 \in P
  <2>1. SUFFICES ASSUME i + 1 <= n PROVE h[i + 1] \in Nat /\ h[i + 1] # 0
    OBVIOUS
  <2>2. PICK k \in 1 .. n : k = i + 1 /\ k - 1 = i
    BY <2>1
  <2>3. h[k] = h[i] * Den
    BY <1>2, <1>4, <2>2 DEF Partial, Dens
  <2>4. h[i] \in Nat /\ h[i] # 0
    BY <1>6, <2>1
  <2>5. \A x, y \in Nat : x # 0 /\ y # 0 => x * y \in Nat /\ x * y # 0
    OBVIOUS
  <2> QED BY <1>0, <2>2, <2>3, <2>4, <2>5
<1> HIDE DEF P
<1>7. n \in P
  BY <1>5, <1>6, Counting
<1> QED BY <1>2, <1>3, <1>4, <1>7 DEF P

\* The vectors with a roll of S[i] at each i up to m.
Box(n, S, m) == {f \in Vectors(n) : \A i \in 1 .. m : f[i] \in S[i]}

\* How large the sets of S are.
Sizes(n, S) == [i \in 1 .. n |-> Cardinality(S[i])]

LEMMA SizesAre ==
    ASSUME NEW n \in Nat, NEW S \in [1 .. n -> SUBSET (1 .. Den)]
    PROVE  /\ Sizes(n, S) \in Seq(Nat) /\ Len(Sizes(n, S)) = n
           /\ \A i \in 1 .. n : Sizes(n, S)[i] = Cardinality(S[i]) /\ Cardinality(S[i]) \in Nat
<1>1. IsFiniteSet(1 .. Den)
  BY FrontierAssumption, FS_Interval
<1>2. \A i \in 1 .. n : Cardinality(S[i]) \in Nat
  BY <1>1, FS_Subset, FS_CardinalityType
<1>3. Sizes(n, S) \in [1 .. n -> Nat]
  BY <1>2 DEF Sizes
<1>4. Sizes(n, S) \in Seq(Nat) /\ Len(Sizes(n, S)) = n
  <2>1. Sizes(n, S) \in Seq(Nat)
    BY <1>3, SeqDef
  <2> QED BY <1>3, <2>1, LenProperties
<1> QED BY <1>2, <1>4 DEF Sizes

LEMMA BoxNext ==
    ASSUME NEW n \in Nat, NEW S \in [1 .. n -> SUBSET (1 .. Den)], NEW k \in 1 .. n
    PROVE  Cardinality(Box(n, S, k)) * Den = Cardinality(Box(n, S, k - 1)) * Cardinality(S[k])
<1> PICK W : W = Box(n, S, k - 1)
  OBVIOUS
<1>1. W \in SUBSET Vectors(n)
  BY DEF Box
<1>2. ASSUME NEW f \in W, NEW x \in 1 .. Den PROVE [f EXCEPT ![k] = x] \in W
  <2>1. f \in Vectors(n) /\ \A i \in 1 .. k - 1 : f[i] \in S[i]
    BY DEF Box
  <2>2. [f EXCEPT ![k] = x] \in Vectors(n)
    BY <2>1 DEF Vectors
  <2>3. ASSUME NEW i \in 1 .. k - 1 PROVE [f EXCEPT ![k] = x][i] \in S[i]
    <3>1. i # k /\ i \in 1 .. n
      OBVIOUS
    <3> QED BY <2>1, <3>1 DEF Vectors
  <2> QED BY <2>2, <2>3 DEF Box
<1>3. Box(n, S, k) = {f \in W : f[k] \in S[k]}
  <2>1. \A i : i \in 1 .. k <=> i \in 1 .. k - 1 \/ i = k
    OBVIOUS
  <2> QED BY <2>1 DEF Box
<1>4. Cardinality({f \in W : f[k] \in S[k]}) * Den = Cardinality(W) * Cardinality(S[k])
  BY <1>1, <1>2, Slice
<1> QED BY <1>3, <1>4

LEMMA BoxCount ==
    ASSUME NEW n \in Nat, NEW S \in [1 .. n -> SUBSET (1 .. Den)]
    PROVE  Cardinality(Box(n, S, n)) * Rolls(n) = Cardinality(Vectors(n)) * Product(Sizes(n, S))
<1>1. PICK h : Partial(Dens(n), h) /\ h[n] = Rolls(n)
  BY RollsAre, ProductIs
<1>2. PICK g : Partial(Sizes(n, S), g) /\ g[n] = Product(Sizes(n, S))
  BY SizesAre, ProductIs
<1> PICK all : all = Cardinality(Vectors(n))
  OBVIOUS
<1> DEFINE P == {i \in Nat : i <= n => Cardinality(Box(n, S, i)) * h[i] = g[i] * all}
<1>3. all \in Nat /\ Den \in Nat
  BY CountIs, FrontierAssumption
<1>4. 0 \in P
  <2>1. Box(n, S, 0) = Vectors(n)
    BY DEF Box
  <2>2. h[0] = 1 /\ g[0] = 1
    BY <1>1, <1>2 DEF Partial
  <2> QED BY <1>3, <2>1, <2>2
<1>5. ASSUME NEW i \in Nat, i \in P PROVE i + 1 \in P
  <2>1. SUFFICES ASSUME i + 1 <= n PROVE Cardinality(Box(n, S, i + 1)) * h[i + 1] = g[i + 1] * all
    OBVIOUS
  <2>2. PICK k \in 1 .. n : k = i + 1 /\ k - 1 = i
    BY <2>1
  <2>3. h[k] = h[i] * Den /\ g[k] = g[i] * Cardinality(S[k])
    <3>1. h[k] = h[k - 1] * Dens(n)[k] /\ g[k] = g[k - 1] * Sizes(n, S)[k]
      BY <1>1, <1>2, RollsAre, SizesAre DEF Partial
    <3> QED BY <2>2, <3>1, SizesAre DEF Dens
  <2>4. PICK a, b, s : a = Cardinality(Box(n, S, k)) /\ b = Cardinality(Box(n, S, i)) /\ s = Cardinality(S[k])
    OBVIOUS
  <2>5. a \in Nat /\ b \in Nat /\ s \in Nat
    <3>1. Box(n, S, k) \in SUBSET Vectors(n) /\ Box(n, S, i) \in SUBSET Vectors(n)
      BY DEF Box
    <3> QED BY <2>4, <3>1, CountIs, SizesAre
  <2>6. h[i] \in Nat /\ g[i] \in Nat
    <3>1. i \in 0 .. n
      BY <2>1
    <3> QED BY <1>1, <1>2, <3>1, PartialNat, RollsAre, SizesAre
  <2>7. a * Den = b * s
    BY <2>2, <2>4, BoxNext
  <2>8. b * h[i] = g[i] * all
    BY <1>5, <2>1, <2>4
  <2>9. a * (h[i] * Den) = (g[i] * s) * all
    <3> PICK x, y : x = h[i] /\ y = g[i]
      OBVIOUS
    <3>1. x \in Nat /\ y \in Nat
      BY <2>6
    <3>2. AsMany(a, Den, b, s) /\ AsMany(b, x, y, all)
      BY <2>7, <2>8 DEF AsMany
    <3>3. AsMany(a, x * Den, y * s, all)
      BY <1>3, <2>5, <3>1, <3>2, Across
    <3> QED BY <3>3 DEF AsMany
  <2> QED BY <2>2, <2>3, <2>4, <2>9
<1> HIDE DEF P
<1>6. n \in P
  BY <1>4, <1>5, Counting
<1>7. g[n] * all = all * g[n]
  <2>1. g[n] \in Nat
    BY <1>2, PartialNat, SizesAre
  <2> QED BY <1>3, <2>1
<1> QED BY <1>1, <1>2, <1>6, <1>7 DEF P

\* There are as many vectors as ways the rolls may fall: one of them rolls
\* nothing but ones.
LEMMA VectorsCount ==
    ASSUME NEW n \in Nat
    PROVE  Cardinality(Vectors(n)) = Rolls(n)
<1> DEFINE S == [i \in 1 .. n |-> {1}]
           f == [i \in 1 .. n |-> 1]
<1>0. Den \in Nat /\ 1 \in 1 .. Den
  BY FrontierAssumption
<1>1. S \in [1 .. n -> SUBSET (1 .. Den)]
  BY <1>0
<1>2. \A i \in 1 .. n : S[i] = {1}
  OBVIOUS
<1>3. f \in Vectors(n) /\ \A i \in 1 .. n : f[i] = 1
  BY <1>0 DEF Vectors
<1> HIDE DEF S, f
<1>4. Box(n, S, n) = {f}
  <2>1. f \in Box(n, S, n)
    BY <1>2, <1>3 DEF Box
  <2>2. ASSUME NEW x \in Box(n, S, n) PROVE x = f
    <3>1. x \in Vectors(n) /\ \A i \in 1 .. n : x[i] = 1
      BY <1>2 DEF Box
    <3> QED BY <1>3, <3>1 DEF Vectors
  <2> QED BY <2>1, <2>2
<1>5. Cardinality(Box(n, S, n)) = 1
  BY <1>4, FS_Singleton
<1>6. Product(Sizes(n, S)) = 1
  <2>1. \A i \in 1 .. n : Sizes(n, S)[i] = 1
    <3>1. SUFFICES ASSUME NEW i \in 1 .. n PROVE Sizes(n, S)[i] = 1
      OBVIOUS
    <3>2. Sizes(n, S)[i] = Cardinality(S[i]) /\ S[i] = {1}
      BY <1>1, <1>2, SizesAre
    <3>3. Cardinality({1}) = 1
      BY FS_Singleton
    <3> QED BY <3>2, <3>3
  <2> QED BY <1>1, <2>1, SizesAre, ProductOfOnes
<1>7. 1 * Rolls(n) = Cardinality(Vectors(n)) * 1
  BY <1>1, <1>5, <1>6, BoxCount
<1>8. Cardinality(Vectors(n)) \in Nat /\ Rolls(n) \in Nat
  BY CountIs, RollsAre
<1> QED BY <1>7, <1>8

LEMMA BoxIsProduct ==
    ASSUME NEW n \in Nat, NEW S \in [1 .. n -> SUBSET (1 .. Den)]
    PROVE  Cardinality(Box(n, S, n)) = Product(Sizes(n, S))
<1> PICK a, b, r : a = Cardinality(Box(n, S, n)) /\ b = Product(Sizes(n, S)) /\ r = Rolls(n)
  OBVIOUS
<1>1. a \in Nat
  <2>1. Box(n, S, n) \in SUBSET Vectors(n)
    BY DEF Box
  <2> QED BY <2>1, CountIs
<1>2. b \in Nat
  <2>1. PICK g : Partial(Sizes(n, S), g) /\ g[n] = b
    BY SizesAre, ProductIs
  <2> QED BY <2>1, SizesAre, PartialNat
<1>3. r \in Nat /\ r # 0
  BY RollsAre
<1>4. a * r = r * b
  BY BoxCount, VectorsCount
<1>5. a * r = b * r
  BY <1>2, <1>3, <1>4
<1> QED BY <1>1, <1>2, <1>3, <1>5, Cancel

-----------------------------------------------------------------------------
(* The cell a vector falls into, and how many fall into it: its prior.      *)

\* A draw that has one outcome.
Certain(odds) == odds = 0 \/ odds >= Den

\* Which outcome of a site of these odds the roll x stands for.
Which(odds, x) == IF Certain(odds) \/ x <= odds THEN 1 ELSE 2

CellOf(ss, f) == [i \in DOMAIN ss |-> Which(ss[i].odds, f[i])]

\* The rolls that stand for the outcome o.
Falls(odds, o) == {x \in 1 .. Den : Which(odds, x) = o}

LEMMA CertainOutcome ==
    ASSUME NEW odds \in 0 .. Den, Certain(odds)
    PROVE  /\ Len(Outcomes(odds)) = 1
           /\ Outcomes(odds)[1].mass = Den
           /\ Outcomes(odds)[1].roll \in Nat
           /\ Outcomes(odds)[1].roll <= odds <=> odds >= Den
<1>0. Den \in Nat /\ Den # 0
  BY FrontierAssumption
<1>1. \A x : Len(<<x>>) = 1 /\ <<x>>[1] = x
  OBVIOUS
<1>2. CASE odds = 0
  <2>1. Outcomes(odds) = <<[roll |-> Den, mass |-> Den]>>
    BY <1>2 DEF Outcomes
  <2> QED BY <1>0, <1>1, <1>2, <2>1
<1>3. CASE odds >= Den
  <2>1. Outcomes(odds) = <<[roll |-> 1, mass |-> Den]>>
    BY <1>0, <1>3 DEF Outcomes
  <2> QED BY <1>0, <1>1, <1>3, <2>1
<1> QED BY <1>2, <1>3 DEF Certain

LEMMA SplitOutcomes ==
    ASSUME NEW odds \in 0 .. Den, ~Certain(odds)
    PROVE  /\ Len(Outcomes(odds)) = 2
           /\ Outcomes(odds)[1].mass = odds /\ Outcomes(odds)[1].roll = 1
           /\ Outcomes(odds)[2].mass = Den - odds /\ Outcomes(odds)[2].roll = odds + 1
<1>1. \A x, y : Len(<<x, y>>) = 2 /\ <<x, y>>[1] = x /\ <<x, y>>[2] = y
  OBVIOUS
<1>2. Outcomes(odds) = <<[roll |-> 1, mass |-> odds], [roll |-> odds + 1, mass |-> Den - odds]>>
  BY DEF Outcomes, Certain
<1> QED BY <1>1, <1>2

\* What an outcome is to its rolls: as many as its mass, all on the side of
\* the threshold that its own roll falls on.
Speaks(odds, o) ==
    /\ Cardinality(Falls(odds, o)) = Outcomes(odds)[o].mass
    /\ \A x \in Falls(odds, o) : Outcomes(odds)[o].roll <= odds <=> x <= odds

LEMMA OutcomeIs ==
    ASSUME NEW odds \in 0 .. Den, NEW o \in 1 .. Len(Outcomes(odds))
    PROVE  Speaks(odds, o)
<1>0. Den \in Nat /\ Den # 0
  BY FrontierAssumption
<1>1. CASE Certain(odds)
  <2>1. o = 1
    <3>1. Len(Outcomes(odds)) = 1
      BY <1>1, CertainOutcome
    <3> QED BY <3>1
  <2>2. Outcomes(odds)[1].mass = Den /\ (Outcomes(odds)[1].roll <= odds <=> odds >= Den)
    BY <1>1, CertainOutcome
  <2>3. Falls(odds, 1) = 1 .. Den
    BY <1>1 DEF Falls, Which
  <2>4. Cardinality(1 .. Den) = Den
    BY <1>0, FS_Interval
  <2>5. ASSUME NEW x \in 1 .. Den PROVE odds >= Den <=> x <= odds
    BY <1>0, <1>1 DEF Certain
  <2> QED BY <2>1, <2>2, <2>3, <2>4, <2>5 DEF Speaks
<1>2. CASE ~Certain(odds)
  <2>0. odds # 0 /\ odds < Den /\ odds \in Nat
    BY <1>0, <1>2 DEF Certain
  <2>1. o = 1 \/ o = 2
    <3>1. Len(Outcomes(odds)) = 2
      BY <1>2, SplitOutcomes
    <3> QED BY <3>1
  <2>2. Speaks(odds, 1)
    <3>1. Outcomes(odds)[1].mass = odds /\ Outcomes(odds)[1].roll = 1
      BY <1>2, SplitOutcomes
    <3>2. Falls(odds, 1) = 1 .. odds
      BY <1>0, <1>2, <2>0 DEF Falls, Which
    <3>3. Cardinality(1 .. odds) = odds
      BY <2>0, FS_Interval
    <3> QED BY <2>0, <3>1, <3>2, <3>3 DEF Speaks
  <2>3. Speaks(odds, 2)
    <3>1. Outcomes(odds)[2].mass = Den - odds /\ Outcomes(odds)[2].roll = odds + 1
      BY <1>2, SplitOutcomes
    <3>2. Falls(odds, 2) = odds + 1 .. Den
      BY <1>0, <1>2, <2>0 DEF Falls, Which
    <3>3. Cardinality(odds + 1 .. Den) = Den - odds
      BY <1>0, <2>0, FS_Interval
    <3> QED BY <1>0, <2>0, <3>1, <3>2, <3>3 DEF Speaks
  <2> QED BY <2>1, <2>2, <2>3
<1> QED BY <1>1, <1>2

\* Every roll stands for an outcome.
LEMMA WhichIs ==
    ASSUME NEW odds \in 0 .. Den, NEW x
    PROVE  Which(odds, x) \in {1, 2} /\ Which(odds, x) \in 1 .. Len(Outcomes(odds))
<1>1. CASE Certain(odds)
  BY <1>1, CertainOutcome DEF Which
<1>2. CASE ~Certain(odds)
  <2>1. Len(Outcomes(odds)) = 2
    BY <1>2, SplitOutcomes
  <2> QED BY <2>1 DEF Which
<1> QED BY <1>1, <1>2

LEMMA SiteIs ==
    ASSUME NEW ss \in Seq(SiteSet)
    PROVE  /\ Len(ss) \in Nat /\ DOMAIN ss = 1 .. Len(ss)
           /\ \A i \in DOMAIN ss : ss[i] \in SiteSet /\ ss[i].odds \in 0 .. Den /\ ss[i].key \in Keys
<1>1. Len(ss) \in Nat /\ DOMAIN ss = 1 .. Len(ss)
  BY LenProperties
<1>2. \A i \in DOMAIN ss : ss[i] \in SiteSet
  BY <1>1, ElementOfSeq
<1> QED BY <1>1, <1>2 DEF SiteSet

LEMMA CellOfIs ==
    ASSUME NEW ss \in Seq(SiteSet), NEW f \in Vectors(Len(ss))
    PROVE  /\ CellOf(ss, f) \in Cells(ss)
           /\ \A i \in DOMAIN ss : Cell(ss, CellOf(ss, f), i).roll <= ss[i].odds <=> f[i] <= ss[i].odds
<1>1. DOMAIN ss = 1 .. Len(ss) /\ \A i \in DOMAIN ss : ss[i].odds \in 0 .. Den /\ f[i] \in 1 .. Den
  BY SiteIs DEF Vectors
<1>2. ASSUME NEW i \in DOMAIN ss
      PROVE  CellOf(ss, f)[i] \in 1 .. Len(Outcomes(ss[i].odds)) /\ CellOf(ss, f)[i] \in {1, 2}
  <2>1. CellOf(ss, f)[i] = Which(ss[i].odds, f[i])
    BY DEF CellOf
  <2> QED BY <1>1, <2>1, WhichIs
<1>3. CellOf(ss, f) \in Cells(ss)
  BY <1>2 DEF Cells, CellOf
<1>4. ASSUME NEW i \in DOMAIN ss
      PROVE  Cell(ss, CellOf(ss, f), i).roll <= ss[i].odds <=> f[i] <= ss[i].odds
  <2> PICK o : o = CellOf(ss, f)[i]
    OBVIOUS
  <2>1. o = Which(ss[i].odds, f[i])
    BY DEF CellOf
  <2>2. f[i] \in Falls(ss[i].odds, o)
    BY <1>1, <2>1 DEF Falls
  <2>3. Outcomes(ss[i].odds)[o].roll <= ss[i].odds <=> f[i] <= ss[i].odds
    BY <1>1, <1>2, <2>2, OutcomeIs DEF Speaks
  <2> QED BY <2>3 DEF Cell
<1> QED BY <1>3, <1>4

\* The prior of a cell counts the vectors that fall into it.
LEMMA PriorCounts ==
    ASSUME NEW ss \in Seq(SiteSet), NEW c \in Cells(ss)
    PROVE  Cardinality({f \in Vectors(Len(ss)) : CellOf(ss, f) = c}) = Prior(ss, c)
<1> PICK n : n = Len(ss)
  OBVIOUS
<1> DEFINE S == [i \in 1 .. n |-> Falls(ss[i].odds, c[i])]
<1>1. /\ n \in Nat /\ DOMAIN ss = 1 .. n
      /\ \A i \in 1 .. n : ss[i].odds \in 0 .. Den /\ c[i] \in 1 .. Len(Outcomes(ss[i].odds))
      /\ DOMAIN c = 1 .. n /\ c = [i \in 1 .. n |-> c[i]]
  <2>1. n \in Nat /\ DOMAIN ss = 1 .. n /\ \A i \in 1 .. n : ss[i].odds \in 0 .. Den
    BY SiteIs
  <2>2. \A i \in 1 .. n : c[i] \in {1, 2} /\ c[i] <= Wide(ss, i) /\ Wide(ss, i) \in {1, 2}
    BY <2>1, CellIs, WideIs
  <2>3. \A i \in 1 .. n : c[i] \in 1 .. Wide(ss, i)
    BY <2>2
  <2> QED BY <2>1, <2>3, CellIs DEF Wide
<1>2. \A i \in 1 .. n : S[i] = Falls(ss[i].odds, c[i]) /\ S[i] \in SUBSET (1 .. Den)
                        /\ Cardinality(S[i]) = Cell(ss, c, i).mass
  <2>1. SUFFICES ASSUME NEW i \in 1 .. n
                 PROVE  /\ S[i] = Falls(ss[i].odds, c[i]) /\ S[i] \in SUBSET (1 .. Den)
                        /\ Cardinality(S[i]) = Cell(ss, c, i).mass
    OBVIOUS
  <2>2. S[i] = Falls(ss[i].odds, c[i])
    OBVIOUS
  <2>3. Speaks(ss[i].odds, c[i])
    BY <1>1, OutcomeIs
  <2> QED BY <2>2, <2>3 DEF Speaks, Cell, Falls
<1>3. S \in [1 .. n -> SUBSET (1 .. Den)]
  BY <1>2
<1> HIDE DEF S
<1>4. Box(n, S, n) = {f \in Vectors(n) : CellOf(ss, f) = c}
  <2>1. SUFFICES ASSUME NEW f \in Vectors(n)
                 PROVE  (\A i \in 1 .. n : f[i] \in S[i]) <=> CellOf(ss, f) = c
    BY DEF Box
  <2>2. ASSUME NEW i \in 1 .. n PROVE f[i] \in S[i] <=> CellOf(ss, f)[i] = c[i]
    <3>1. f[i] \in 1 .. Den
      BY DEF Vectors
    <3>2. CellOf(ss, f)[i] = Which(ss[i].odds, f[i])
      BY <1>1 DEF CellOf
    <3> QED BY <1>2, <3>1, <3>2 DEF Falls
  <2>3. CellOf(ss, f) = [i \in 1 .. n |-> CellOf(ss, f)[i]]
    BY <1>1 DEF CellOf
  <2> QED BY <1>1, <2>2, <2>3
<1>5. Sizes(n, S) = [i \in DOMAIN ss |-> Cell(ss, c, i).mass]
  BY <1>1, <1>2 DEF Sizes
<1>6. Prior(ss, c) = Product(Sizes(n, S))
  BY <1>5 DEF Prior
<1> QED BY <1>1, <1>3, <1>4, <1>6, BoxIsProduct

-----------------------------------------------------------------------------
(* Runs that miss nothing: what they draw depends on the vector alone.      *)

\* The path's first n draws.
Prefix(path, n) == SubSeq(path, 1, n)

LEMMA PrefixIs ==
    ASSUME NEW path \in Seq(BOOLEAN), NEW n \in 0 .. Len(path)
    PROVE  /\ Prefix(path, n) \in Seq(BOOLEAN) /\ Len(Prefix(path, n)) = n
           /\ n < Len(path) => Prefix(path, n + 1) = Append(Prefix(path, n), path[n + 1]) /\ path[n + 1] \in BOOLEAN
           /\ n = 0 => Prefix(path, n) = <<>>
           /\ n = Len(path) => Prefix(path, n) = path
<1>0. Len(path) \in Nat /\ n \in Nat /\ n <= Len(path)
  BY LenProperties
<1>1. \A i \in 1 .. n : path[i] \in BOOLEAN
  BY <1>0, ElementOfSeq
<1>2. Prefix(path, n) \in Seq(BOOLEAN) /\ Len(Prefix(path, n)) = n
  <2>1. Len(Prefix(path, n)) = IF 1 <= n THEN n - 1 + 1 ELSE 0
    BY <1>0, <1>1, SubSeqProperties DEF Prefix
  <2> QED BY <1>0, <1>1, <2>1, SubSeqProperties DEF Prefix
<1>3. ASSUME n < Len(path)
      PROVE  Prefix(path, n + 1) = Append(Prefix(path, n), path[n + 1]) /\ path[n + 1] \in BOOLEAN
  <2>1. PICK m \in 1 .. Len(path) : m = n + 1 /\ m - 1 = n
    BY <1>0, <1>3
  <2>2. path[m] \in BOOLEAN
    BY ElementOfSeq
  <2>3. SubSeq(path, 1, m) = SubSeq(path, 1, m - 1) \o <<path[m]>>
    <3>1. 1 \in 1 .. Len(path) /\ m \in 1 .. Len(path)
      BY <1>0, <2>1
    <3> QED BY <3>1, SubSeqRecursiveSecond
  <2>4. Append(Prefix(path, n), path[m]) = Prefix(path, n) \o <<path[m]>>
    BY <1>2, <2>2, AppendIsConcat
  <2> QED BY <2>1, <2>2, <2>3, <2>4 DEF Prefix
<1>4. n = 0 => Prefix(path, n) = <<>>
  BY SubSeqEmpty DEF Prefix
<1>5. n = Len(path) => Prefix(path, n) = path
  BY SubSeqFull DEF Prefix
<1> QED BY <1>2, <1>3, <1>4, <1>5

\* The paths of a turn, draw by draw.
LEMMA PathIs ==
    ASSUME NEW t \in Turns, NEW path \in Paths(t)
    PROVE  /\ path \in Seq(BOOLEAN) /\ Len(path) \in 0 .. MaxDraws /\ MaxDraws \in Nat
           /\ Key(t, path) = Over
           /\ \A n \in 0 .. Len(path) : n < Len(path) => Key(t, Prefix(path, n)) # Over
<1>0. MaxDraws \in Nat
  BY FrontierAssumption
<1>1. PICK m \in 0 .. MaxDraws : path \in [1 .. m -> BOOLEAN]
  BY DEF Paths, Stories
<1>2. path \in Seq(BOOLEAN) /\ Len(path) = m
  <2>1. path \in Seq(BOOLEAN)
    BY <1>1, SeqDef
  <2> QED BY <1>1, <2>1, LenProperties
<1>3. ASSUME NEW n \in 0 .. Len(path), n < Len(path) PROVE Key(t, Prefix(path, n)) # Over
  <2>1. n + 1 \in 1 .. Len(path) /\ (n + 1) - 1 = n
    BY <1>2, <1>3
  <2>2. \A i \in 1 .. Len(path) : Key(t, SubSeq(path, 1, i - 1)) # Over
    BY DEF Paths
  <2> QED BY <2>1, <2>2 DEF Prefix
<1> QED BY <1>0, <1>2, <1>3 DEF Paths

\* The replay misses nothing.
Quiet(t, s, ss, c) == Play(t, s, ss, c).log = <<>>

LEMMA NoMissYet ==
    ASSUME NEW t \in Turns, NEW s, NEW ss, NEW c, Quiet(t, s, ss, c), NEW n \in 0 .. MaxDraws
    PROVE  Run(t, s, ss, c)[n].log = <<>>
<1>1. MaxDraws \in n .. MaxDraws
  BY FrontierAssumption
<1> QED BY <1>1, LogGrows DEF Play, Quiet

\* Every site asks with the threshold of its key.
Asks(t, ss) == \A i \in DOMAIN ss : ss[i].odds = t.odds[ss[i].key][1]

LEMMA OneOdds ==
    ASSUME NEW t \in Turns, OneThreshold(t), NEW path \in Seq(BOOLEAN), Len(path) < MaxDraws, Key(t, path) # Over
    PROVE  Odds(t, path) = t.odds[Key(t, path)][1]
<1> PICK k, d : k = Key(t, path) /\ d = Drawn(t, path, k) + 1
  OBVIOUS
<1>1. k \in Keys /\ d \in 1 .. MaxDraws
  BY OddsAre
<1>2. 1 \in 1 .. MaxDraws
  BY <1>1, FrontierAssumption
<1>3. DOMAIN t.odds[k] = 1 .. MaxDraws
  BY <1>1, FrontierAssumption
<1>4. t.odds[k][d] = t.odds[k][1]
  <2> PICK row : row = t.odds[k]
    OBVIOUS
  <2>1. \A i, j \in DOMAIN row : row[i] = row[j]
    BY <1>1 DEF OneThreshold
  <2> QED BY <1>1, <1>2, <1>3, <2>1
<1> QED BY <1>4 DEF Odds

\* After r comes q, with the roll of the first site left for its key.
Takes(t, ss, c, r, q) ==
    /\ q.at = Append(r.at, Cell(ss, c, Min(Queue(t, ss, r))).roll <= Odds(t, r.at))
    /\ q.left = r.left \ {Min(Queue(t, ss, r))}

\* A run that misses nothing finds every roll on file.
LEMMA Filed ==
    ASSUME NEW t \in Turns, NEW s, NEW ss, NEW c, Quiet(t, s, ss, c),
           NEW n \in Nat, n < MaxDraws, NEW r, r = Run(t, s, ss, c)[n], Key(t, r.at) # Over
    PROVE  Queue(t, ss, r) # {} /\ Takes(t, ss, c, r, Run(t, s, ss, c)[n + 1])
<1>0. n \in 0 .. MaxDraws
  BY FrontierAssumption
<1>1. r.log = <<>>
  BY <1>0, NoMissYet
<1>2. Queue(t, ss, r) # {}
  <2>1. SUFFICES ASSUME Queue(t, ss, r) = {} PROVE FALSE
    OBVIOUS
  <2>2. /\ Play(t, s, ss, c).log # <<>>
        /\ Play(t, s, ss, c).log[1] = [key |-> Key(t, r.at), odds |-> Odds(t, r.at), after |-> n]
        /\ Run(t, s, ss, c)[n + 1].log # <<>>
    BY <1>1, <2>1, MissIsFirst
  <2> QED BY <2>2 DEF Quiet
<1>3. Draw(t, s, ss, c, r).at = Append(r.at, Cell(ss, c, Min(Queue(t, ss, r))).roll <= Odds(t, r.at))
      /\ Draw(t, s, ss, c, r).left = r.left \ {Min(Queue(t, ss, r))}
  BY <1>2, DrawFiled
<1>4. Run(t, s, ss, c)[n + 1] = Draw(t, s, ss, c, r)
  BY RunSteps
<1> QED BY <1>2, <1>3, <1>4 DEF Takes

\* The run of the cell a vector falls into.
Spun(t, s, ss, f) == Run(t, s, ss, CellOf(ss, f))

\* After r comes q, with the vector's own roll of the first site left.
Rolled(t, ss, f, r, q) ==
    /\ q.at = Append(r.at, f[Min(Queue(t, ss, r))] <= Odds(t, r.at))
    /\ q.left = r.left \ {Min(Queue(t, ss, r))}

\* A draw that is on file takes the roll of the first site left for its key.
LEMMA CleanDraw ==
    ASSUME NEW t \in Turns, OneThreshold(t), NEW s, NEW ss \in Seq(SiteSet), Asks(t, ss),
           NEW f \in Vectors(Len(ss)), Quiet(t, s, ss, CellOf(ss, f)),
           NEW n \in Nat, n < MaxDraws, NEW r, r = Spun(t, s, ss, f)[n], Key(t, r.at) # Over
    PROVE  /\ Queue(t, ss, r) # {} /\ Min(Queue(t, ss, r)) \in r.left /\ r.left \subseteq DOMAIN ss
           /\ r.at \in Seq(BOOLEAN) /\ Len(r.at) = n
           /\ Rolled(t, ss, f, r, Spun(t, s, ss, f)[n + 1])
<1> PICK c : c = CellOf(ss, f)
  OBVIOUS
<1> PICK u : u = Min(Queue(t, ss, r))
  OBVIOUS
<1>0. n \in 0 .. MaxDraws /\ MaxDraws \in Nat /\ r = Run(t, s, ss, c)[n]
  BY FrontierAssumption DEF Spun
<1>1. /\ r.at \in Seq(BOOLEAN) /\ Len(r.at) = n /\ r.left \subseteq DOMAIN ss
  <2>1. RunOK(t, ss, n, r)
    BY <1>0, RunsOK
  <2> QED BY <2>1 DEF RunOK
<1>3. /\ Queue(t, ss, r) # {}
      /\ Run(t, s, ss, c)[n + 1].at = Append(r.at, Cell(ss, c, u).roll <= Odds(t, r.at))
      /\ Run(t, s, ss, c)[n + 1].left = r.left \ {u}
  <2>1. Queue(t, ss, r) # {} /\ Takes(t, ss, c, r, Run(t, s, ss, c)[n + 1])
    BY <1>0, Filed
  <2> QED BY <2>1 DEF Takes
<1>4. u \in r.left /\ ss[u].key = Key(t, r.at)
  <2>1. Queue(t, ss, r) \subseteq Nat
    BY <1>1, SiteIs DEF Queue
  <2>2. u \in Queue(t, ss, r)
    BY <1>3, <2>1, MinIs
  <2> QED BY <2>2 DEF Queue
<1>5. ss[u].odds = Odds(t, r.at) /\ u \in DOMAIN ss
  <2>1. u \in DOMAIN ss
    BY <1>1, <1>4
  <2>2. ss[u].odds = t.odds[ss[u].key][1]
    BY <2>1 DEF Asks
  <2>3. Odds(t, r.at) = t.odds[Key(t, r.at)][1]
    BY <1>1, OneOdds
  <2> QED BY <1>4, <2>1, <2>2, <2>3
<1>6. Cell(ss, c, u).roll <= Odds(t, r.at) <=> f[u] <= Odds(t, r.at)
  BY <1>5, CellOfIs
<1>8. Append(r.at, Cell(ss, c, u).roll <= Odds(t, r.at)) = Append(r.at, f[u] <= Odds(t, r.at))
  <2>1. (Cell(ss, c, u).roll <= Odds(t, r.at)) = (f[u] <= Odds(t, r.at))
    BY <1>6
  <2> QED BY <2>1
<1> QED BY <1>1, <1>3, <1>4, <1>8 DEF Spun, Rolled

-----------------------------------------------------------------------------
(* How many vectors go down a path: its law.                                *)

\* No replay of the product misses anything.
AllQuiet(t, s, ss) == \A c \in Cells(ss) : Quiet(t, s, ss, c)

\* The vectors whose replay goes down the path for n draws.
Reach(t, s, ss, path, n) == {f \in Vectors(Len(ss)) : Spun(t, s, ss, f)[n].at = Prefix(path, n)}

\* They have the same sites left, and any rolls at those.
Even(t, s, ss, path, n, left) ==
    /\ left \subseteq DOMAIN ss
    /\ \A f \in Reach(t, s, ss, path, n) : Spun(t, s, ss, f)[n].left = left
    /\ \A f \in Reach(t, s, ss, path, n) : \A j \in left : \A x \in 1 .. Den :
          [f EXCEPT ![j] = x] \in Reach(t, s, ss, path, n)

\* The rolls that send draw k down the path.
Down(t, path, k) ==
    IF path[k] THEN 1 .. Odds(t, Prefix(path, k - 1)) ELSE Odds(t, Prefix(path, k - 1)) + 1 .. Den

LEMMA DownCounts ==
    ASSUME NEW t \in Turns, NEW path \in Paths(t), NEW k \in 1 .. Len(path)
    PROVE  /\ Down(t, path, k) \in SUBSET (1 .. Den)
           /\ Cardinality(Down(t, path, k)) = Side(t, path, k)
           /\ \A x \in 1 .. Den : (x <= Odds(t, Prefix(path, k - 1))) = path[k] <=> x \in Down(t, path, k)
<1> PICK o : o = Odds(t, Prefix(path, k - 1))
  OBVIOUS
<1>0. Den \in Nat /\ path \in Seq(BOOLEAN) /\ Len(path) \in 0 .. MaxDraws /\ MaxDraws \in Nat
  BY PathIs, FrontierAssumption
<1>1. k - 1 \in 0 .. Len(path) /\ k - 1 < Len(path) /\ k - 1 < MaxDraws
  BY <1>0
<1>2. o \in 0 .. Den
  <2>1. Prefix(path, k - 1) \in Seq(BOOLEAN) /\ Len(Prefix(path, k - 1)) = k - 1
    BY <1>0, <1>1, PrefixIs
  <2>2. Key(t, Prefix(path, k - 1)) # Over
    BY <1>1, PathIs
  <2> QED BY <1>1, <2>1, <2>2, OddsAre
<1>3. path[k] \in BOOLEAN
  BY <1>0, ElementOfSeq
<1>4. Down(t, path, k) = IF path[k] THEN 1 .. o ELSE o + 1 .. Den
  BY DEF Down
<1>5. Side(t, path, k) = IF path[k] THEN o ELSE Den - o
  BY DEF Side, Prefix
<1>6. CASE path[k] = TRUE
  <2>1. Down(t, path, k) = 1 .. o /\ Side(t, path, k) = o
    BY <1>4, <1>5, <1>6
  <2>2. Cardinality(1 .. o) = o
    BY <1>2, FS_Interval
  <2>3. \A x \in 1 .. Den : (x <= o) = TRUE <=> x \in 1 .. o
    BY <1>2
  <2> QED BY <1>0, <1>2, <1>6, <2>1, <2>2, <2>3
<1>7. CASE path[k] = FALSE
  <2>1. Down(t, path, k) = o + 1 .. Den /\ Side(t, path, k) = Den - o
    BY <1>4, <1>5, <1>7
  <2>2. Cardinality(o + 1 .. Den) = Den - o
    BY <1>0, <1>2, FS_Interval
  <2>3. \A x \in 1 .. Den : (x <= o) = FALSE <=> x \in o + 1 .. Den
    BY <1>0, <1>2
  <2> QED BY <1>0, <1>2, <1>7, <2>1, <2>2, <2>3
<1> QED BY <1>3, <1>6, <1>7

LEMMA EvenBegins ==
    ASSUME NEW t, NEW s, NEW ss \in Seq(SiteSet), NEW path \in Seq(BOOLEAN)
    PROVE  /\ Reach(t, s, ss, path, 0) = Vectors(Len(ss))
           /\ Even(t, s, ss, path, 0, DOMAIN ss)
<1>1. Prefix(path, 0) = <<>>
  BY SubSeqEmpty DEF Prefix
<1>2. \A f : Spun(t, s, ss, f)[0] = Begin(ss)
  BY RunSteps DEF Spun
<1>3. Begin(ss).at = <<>> /\ Begin(ss).left = DOMAIN ss
  BY DEF Begin
<1>4. Reach(t, s, ss, path, 0) = Vectors(Len(ss))
  BY <1>1, <1>2, <1>3 DEF Reach
<1>5. \A f \in Vectors(Len(ss)) : \A j \in DOMAIN ss : \A x \in 1 .. Den : [f EXCEPT ![j] = x] \in Vectors(Len(ss))
  BY DEF Vectors
<1> QED BY <1>2, <1>3, <1>4, <1>5 DEF Even

\* What the lemmas on a path take for granted.
Settles(t, s, ss) == t \in Turns /\ OneThreshold(t) /\ ss \in Seq(SiteSet) /\ Asks(t, ss) /\ AllQuiet(t, s, ss)

LEMMA SpunQuiet ==
    ASSUME NEW t, NEW s, NEW ss, Settles(t, s, ss), NEW f \in Vectors(Len(ss))
    PROVE  Quiet(t, s, ss, CellOf(ss, f))
  BY CellOfIs DEF Settles, AllQuiet

LEMMA SameStart ==
    ASSUME NEW p \in Seq(BOOLEAN), NEW q \in Seq(BOOLEAN), NEW a \in BOOLEAN, NEW b \in BOOLEAN,
           Append(p, a) = Append(q, b)
    PROVE  p = q /\ a = b
  BY AppendInjective

\* Who is down the path after a draw was so before it.
LEMMA ReachShrinks ==
    ASSUME NEW t, NEW s, NEW ss, Settles(t, s, ss), NEW path \in Paths(t),
           NEW n \in 0 .. Len(path), n < Len(path), NEW f \in Reach(t, s, ss, path, n + 1)
    PROVE  f \in Reach(t, s, ss, path, n)
<1> PICK r : r = Spun(t, s, ss, f)[n]
  OBVIOUS
<1>0. /\ t \in Turns /\ OneThreshold(t) /\ ss \in Seq(SiteSet) /\ Asks(t, ss)
      /\ f \in Vectors(Len(ss)) /\ Quiet(t, s, ss, CellOf(ss, f))
  BY SpunQuiet DEF Settles, Reach
<1>1. path \in Seq(BOOLEAN) /\ n \in Nat /\ n < MaxDraws /\ n \in 0 .. MaxDraws /\ n + 1 \in 0 .. Len(path)
  BY <1>0, PathIs
<1>2. /\ Prefix(path, n) \in Seq(BOOLEAN) /\ Len(Prefix(path, n + 1)) = n + 1
      /\ Prefix(path, n + 1) = Append(Prefix(path, n), path[n + 1]) /\ path[n + 1] \in BOOLEAN
  BY <1>1, PrefixIs
<1>3. Spun(t, s, ss, f)[n + 1].at = Prefix(path, n + 1)
  BY DEF Reach
<1>4. r.at \in Seq(BOOLEAN) /\ Len(r.at) <= n
  BY <1>0, <1>1, RunsOK DEF Spun, RunOK
<1>5. Key(t, r.at) # Over
  <2>1. SUFFICES ASSUME Key(t, r.at) = Over PROVE FALSE
    OBVIOUS
  <2>2. Spun(t, s, ss, f)[n + 1] = Draw(t, s, ss, CellOf(ss, f), r)
    BY <1>1, RunSteps DEF Spun
  <2>3. Draw(t, s, ss, CellOf(ss, f), r) = r
    BY <2>1, DrawOver
  <2>4. Len(r.at) = n + 1
    BY <1>2, <1>3, <2>2, <2>3
  <2> QED BY <1>1, <1>4, <2>4
<1>6. PICK b \in BOOLEAN : Append(r.at, b) = Append(Prefix(path, n), path[n + 1])
  <2>1. Spun(t, s, ss, f)[n + 1].at = Append(r.at, f[Min(Queue(t, ss, r))] <= Odds(t, r.at))
    <3>1. Rolled(t, ss, f, r, Spun(t, s, ss, f)[n + 1])
      BY <1>0, <1>1, <1>5, CleanDraw
    <3> QED BY <3>1 DEF Rolled
  <2>2. (f[Min(Queue(t, ss, r))] <= Odds(t, r.at)) \in BOOLEAN
    OBVIOUS
  <2> QED BY <1>2, <1>3, <2>1, <2>2
<1>7. r.at = Prefix(path, n)
  BY <1>2, <1>4, <1>6, SameStart
<1> QED BY <1>0, <1>7 DEF Reach

\* The site whose roll the next draw of the path takes.
SiteAt(t, ss, path, n, left) == Min({i \in left : ss[i].key = Key(t, Prefix(path, n))})

LEMMA ReachDraws ==
    ASSUME NEW t, NEW s, NEW ss, Settles(t, s, ss), NEW path \in Paths(t),
           NEW n \in 0 .. Len(path), n < Len(path), NEW left, Even(t, s, ss, path, n, left),
           NEW f \in Reach(t, s, ss, path, n), NEW u, u = SiteAt(t, ss, path, n, left)
    PROVE  /\ u \in left
           /\ f \in Reach(t, s, ss, path, n + 1) <=> f[u] \in Down(t, path, n + 1)
           /\ Spun(t, s, ss, f)[n + 1].left = left \ {u}
<1> PICK r, q : r = Spun(t, s, ss, f)[n] /\ q = Spun(t, s, ss, f)[n + 1]
  OBVIOUS
<1> PICK p : p = Prefix(path, n)
  OBVIOUS
<1>0. /\ t \in Turns /\ OneThreshold(t) /\ ss \in Seq(SiteSet) /\ Asks(t, ss)
      /\ f \in Vectors(Len(ss)) /\ Quiet(t, s, ss, CellOf(ss, f))
  BY SpunQuiet DEF Settles, Reach
<1>1. path \in Seq(BOOLEAN) /\ n \in Nat /\ n < MaxDraws /\ Key(t, p) # Over
      /\ n + 1 \in 1 .. Len(path) /\ (n + 1) - 1 = n
  BY <1>0, PathIs
<1>2. p \in Seq(BOOLEAN) /\ Prefix(path, n + 1) = Append(p, path[n + 1]) /\ path[n + 1] \in BOOLEAN
  BY <1>1, PrefixIs
<1>3. r.at = p /\ r.left = left
  BY DEF Reach, Even
<1>4. Min(Queue(t, ss, r)) = u
  BY <1>3 DEF Queue, SiteAt
<1>5. u \in left /\ left \subseteq DOMAIN ss /\ Rolled(t, ss, f, r, q)
  <2>0. Key(t, r.at) # Over
    BY <1>1, <1>3
  <2>1. Min(Queue(t, ss, r)) \in r.left /\ r.left \subseteq DOMAIN ss /\ Rolled(t, ss, f, r, Spun(t, s, ss, f)[n + 1])
    BY <1>0, <1>1, <2>0, CleanDraw
  <2> QED BY <1>3, <1>4, <2>1
<1>6. q.at = Append(p, f[u] <= Odds(t, p)) /\ q.left = left \ {u}
  BY <1>3, <1>4, <1>5 DEF Rolled
<1>7. f[u] \in 1 .. Den
  <2>1. u \in 1 .. Len(ss)
    BY <1>0, <1>5, SiteIs
  <2> QED BY <1>0, <2>1 DEF Vectors
<1>8. (f[u] <= Odds(t, p)) = path[n + 1] <=> f[u] \in Down(t, path, n + 1)
  <2>1. \A x \in 1 .. Den : (x <= Odds(t, Prefix(path, (n + 1) - 1))) = path[n + 1] <=> x \in Down(t, path, n + 1)
    BY <1>0, <1>1, DownCounts
  <2> QED BY <1>1, <1>7, <2>1
<1>9. PICK b \in BOOLEAN : b = (f[u] <= Odds(t, p))
  <2>1. (f[u] <= Odds(t, p)) \in BOOLEAN
    OBVIOUS
  <2> QED BY <2>1
<1>10. q.at = Prefix(path, n + 1) <=> b = path[n + 1]
  <2>1. q.at = Append(p, b)
    BY <1>6, <1>9
  <2>2. Append(p, b) = Append(p, path[n + 1]) <=> b = path[n + 1]
    BY <1>2, SameStart
  <2> QED BY <1>2, <2>1, <2>2
<1>11. f \in Reach(t, s, ss, path, n + 1) <=> f[u] \in Down(t, path, n + 1)
  <2>1. f \in Reach(t, s, ss, path, n + 1) <=> q.at = Prefix(path, n + 1)
    BY <1>0 DEF Reach
  <2> QED BY <1>8, <1>9, <1>10, <2>1
<1> QED BY <1>5, <1>6, <1>11

\* A draw parts them by their rolls at one site.
Parts(t, s, ss, path, n, left, u) ==
    /\ Even(t, s, ss, path, n + 1, left \ {u})
    /\ Reach(t, s, ss, path, n + 1) = {f \in Reach(t, s, ss, path, n) : f[u] \in Down(t, path, n + 1)}

LEMMA EvenSteps ==
    ASSUME NEW t, NEW s, NEW ss, Settles(t, s, ss), NEW path \in Paths(t),
           NEW n \in 0 .. Len(path), n < Len(path), NEW left, Even(t, s, ss, path, n, left),
           Reach(t, s, ss, path, n) # {}
    PROVE  \E u \in left : Parts(t, s, ss, path, n, left, u)
<1> PICK u : u = SiteAt(t, ss, path, n, left)
  OBVIOUS
<1> PICK W, X : W = Reach(t, s, ss, path, n) /\ X = Reach(t, s, ss, path, n + 1)
  OBVIOUS
<1>1. \A f \in W : /\ u \in left
                   /\ f \in X <=> f[u] \in Down(t, path, n + 1)
                   /\ Spun(t, s, ss, f)[n + 1].left = left \ {u}
  BY ReachDraws
<1>2. u \in left /\ left \subseteq DOMAIN ss
  BY <1>1 DEF Even
<1>3. X \subseteq W
  BY ReachShrinks
<1>4. X = {f \in W : f[u] \in Down(t, path, n + 1)}
  BY <1>1, <1>3
<1>5. ASSUME NEW f \in X, NEW j \in left \ {u}, NEW x \in 1 .. Den PROVE [f EXCEPT ![j] = x] \in X
  <2>1. [f EXCEPT ![j] = x] \in W
    BY <1>3 DEF Even
  <2>2. [f EXCEPT ![j] = x][u] = f[u]
    <3>1. DOMAIN f = 1 .. Len(ss) /\ u \in 1 .. Len(ss)
      BY <1>2, SiteIs DEF Reach, Vectors, Settles
    <3> QED BY <3>1
  <2> QED BY <1>4, <2>1, <2>2
<1>6. Even(t, s, ss, path, n + 1, left \ {u})
  BY <1>1, <1>2, <1>3, <1>5 DEF Even
<1> QED BY <1>2, <1>4, <1>6 DEF Parts

-----------------------------------------------------------------------------
\* A draw adds one side to the path, or finds it finished.
Longer(t, r, q) ==
    /\ Len(r.at) \in Nat
    /\ Key(t, r.at) = Over => q = r
    /\ Key(t, r.at) # Over => Len(q.at) = Len(r.at) + 1

LEMMA AtGrows ==
    ASSUME NEW t \in Turns, NEW s, NEW ss, NEW c, NEW n \in Nat, n < MaxDraws
    PROVE  Longer(t, Run(t, s, ss, c)[n], Run(t, s, ss, c)[n + 1])
<1> PICK r, q : r = Run(t, s, ss, c)[n] /\ q = Run(t, s, ss, c)[n + 1]
  OBVIOUS
<1>0. q = Draw(t, s, ss, c, r)
  BY RunSteps
<1>1. r.at \in Seq(BOOLEAN) /\ Len(r.at) \in Nat
  <2>1. n \in 0 .. MaxDraws
    BY FrontierAssumption
  <2>2. RunOK(t, ss, n, r)
    BY <2>1, RunsOK
  <2> QED BY <2>2, LenProperties DEF RunOK
<1>2. Key(t, r.at) = Over => q = r
  BY <1>0, DrawOver
<1>3. ASSUME Key(t, r.at) # Over PROVE Len(q.at) = Len(r.at) + 1
  <2>1. \E b : q.at = Append(r.at, b)
    <3>1. CASE Queue(t, ss, r) # {}
      <4>1. Draw(t, s, ss, c, r).at = Append(r.at, Cell(ss, c, Min(Queue(t, ss, r))).roll <= Odds(t, r.at))
        BY <1>3, <3>1, DrawFiled
      <4> QED BY <1>0, <4>1
    <3>2. CASE Queue(t, ss, r) = {}
      <4>1. Draw(t, s, ss, c, r) =
              [at |-> Append(r.at, s[Len(r.log) + 1] <= Odds(t, r.at)), left |-> r.left, log |-> Draw(t, s, ss, c, r).log]
        BY <1>3, <3>2 DEF Draw, Queue
      <4>2. Draw(t, s, ss, c, r).at = Append(r.at, s[Len(r.log) + 1] <= Odds(t, r.at))
        BY <4>1
      <4> QED BY <1>0, <4>2
    <3> QED BY <3>1, <3>2
  <2>2. PICK b : q.at = Append(r.at, b)
    BY <2>1
  <2> QED BY <1>1, <2>2, SideAppended
<1> QED BY <1>1, <1>2, <1>3 DEF Longer

\* What a run has at draw n it keeps if it is finished, and goes beyond if not.
Ended(t, r, q, n) ==
    /\ Key(t, r.at) = Over => q = r
    /\ Key(t, r.at) # Over => Len(q.at) > n

LEMMA EndedAt ==
    ASSUME NEW t \in Turns, NEW s, NEW ss, NEW c, NEW n \in 0 .. MaxDraws
    PROVE  Ended(t, Run(t, s, ss, c)[n], Play(t, s, ss, c), n)
<1> DEFINE R(m) == Run(t, s, ss, c)[m]
           P == {d \in Nat : n + d + 1 <= MaxDraws => Ended(t, R(n), R(n + d + 1), n)}
<1>0. MaxDraws \in Nat /\ n \in Nat /\ n <= MaxDraws
  BY FrontierAssumption
<1>1. RunOK(t, ss, n, R(n))
  BY RunsOK
<1>2. Key(t, R(n).at) # Over => Len(R(n).at) = n
  BY <1>1 DEF RunOK
<1>3. 0 \in P
  <2>1. SUFFICES ASSUME n + 1 <= MaxDraws PROVE Ended(t, R(n), R(n + 1), n)
    <3>1. n + 0 + 1 = n + 1
      BY <1>0
    <3> QED BY <3>1
  <2>2. n < MaxDraws
    BY <1>0, <2>1
  <2>3. Longer(t, R(n), R(n + 1))
    BY <1>0, <2>2, AtGrows
  <2>4. ASSUME Key(t, R(n).at) # Over PROVE Len(R(n + 1).at) > n
    <3> HIDE DEF R
    <3> QED BY <1>0, <1>2, <2>3, <2>4 DEF Longer
  <2> HIDE DEF R
  <2> QED BY <2>3, <2>4 DEF Ended, Longer
<1>4. ASSUME NEW d \in Nat, d \in P PROVE d + 1 \in P
  <2>1. PICK k \in Nat : k = n + d + 1
    BY <1>0
  <2>2. n + (d + 1) + 1 = k + 1
    BY <1>0, <2>1
  <2>3. SUFFICES ASSUME k + 1 <= MaxDraws PROVE Ended(t, R(n), R(k + 1), n)
    BY <2>2
  <2>4. k < MaxDraws /\ k <= MaxDraws
    BY <1>0, <2>3
  <2>5. Ended(t, R(n), R(k), n)
    BY <1>4, <2>1, <2>4
  <2>6. Longer(t, R(k), R(k + 1))
    BY <2>4, AtGrows
  <2> HIDE DEF R, P
  <2>7. ASSUME Key(t, R(n).at) # Over PROVE Len(R(k + 1).at) > n
    <3>1. Len(R(k).at) > n
      BY <2>5, <2>7 DEF Ended
    <3>2. CASE Key(t, R(k).at) = Over
      BY <2>6, <3>1, <3>2 DEF Longer
    <3>3. CASE Key(t, R(k).at) # Over
      BY <1>0, <2>6, <3>1, <3>3 DEF Longer
    <3> QED BY <3>2, <3>3
  <2>8. ASSUME Key(t, R(n).at) = Over PROVE R(k + 1) = R(n)
    BY <2>5, <2>6, <2>8 DEF Ended, Longer
  <2> QED BY <2>7, <2>8 DEF Ended
<1> HIDE DEF P
<1>5. Nat \subseteq P
  BY <1>3, <1>4, Counting
<1>6. CASE n < MaxDraws
  <2>1. PICK d \in Nat : n + d + 1 = MaxDraws
    <3>1. MaxDraws - n - 1 \in Nat /\ n + (MaxDraws - n - 1) + 1 = MaxDraws
      BY <1>0, <1>6
    <3> QED BY <3>1
  <2>2. d \in P
    BY <1>5
  <2> QED BY <1>0, <2>1, <2>2 DEF P, Play
<1>7. CASE n = MaxDraws
  <2>1. R(n).at \in Seq(BOOLEAN) /\ Len(R(n).at) <= MaxDraws
    BY <1>1, <1>7 DEF RunOK
  <2>2. Key(t, R(n).at) = Over
    <3>1. Len(R(n).at) = MaxDraws => Key(t, R(n).at) = Over
      BY <2>1, KeyIs
    <3> HIDE DEF R
    <3> QED BY <1>2, <1>7, <3>1
  <2>3. R(n) = Play(t, s, ss, c)
    BY <1>7 DEF Play
  <2> HIDE DEF R
  <2>4. Ended(t, R(n), Play(t, s, ss, c), n)
    BY <2>2, <2>3 DEF Ended
  <2> QED BY <2>4 DEF R
<1> QED BY <1>0, <1>6, <1>7

LEMMA PathEnds ==
    ASSUME NEW t \in Turns, NEW s, NEW ss, NEW c, NEW path \in Paths(t)
    PROVE  Play(t, s, ss, c).at = path <=> Run(t, s, ss, c)[Len(path)].at = path
<1> PICK n : n = Len(path)
  OBVIOUS
<1> PICK r, q : r = Run(t, s, ss, c)[n] /\ q = Play(t, s, ss, c)
  OBVIOUS
<1>1. n \in 0 .. MaxDraws /\ Key(t, path) = Over
  BY PathIs
<1>2. Ended(t, r, q, n)
  BY <1>1, EndedAt
<1>3. r.at = path => q.at = path
  BY <1>1, <1>2 DEF Ended
<1>4. q.at = path => r.at = path
  <2>1. CASE Key(t, r.at) = Over
    BY <1>2, <2>1 DEF Ended
  <2>2. CASE Key(t, r.at) # Over
    <3>1. Len(q.at) > n
      BY <1>2, <2>2 DEF Ended
    <3>2. ~(n > n)
      BY <1>1, FrontierAssumption
    <3> QED BY <3>1, <3>2
  <2> QED BY <2>1, <2>2
<1> QED BY <1>3, <1>4

\* The rolls that send each draw down the path.
Sides(t, path) == [i \in DOMAIN path |-> Side(t, path, i)]

LEMMA SidesAre ==
    ASSUME NEW t \in Turns, NEW path \in Paths(t)
    PROVE  /\ Sides(t, path) \in Seq(Nat) /\ Len(Sides(t, path)) = Len(path)
           /\ Law(t, path) = Product(Sides(t, path))
           /\ \A k \in 1 .. Len(path) : Sides(t, path)[k] = Side(t, path, k) /\ Side(t, path, k) \in Nat
<1>0. path \in Seq(BOOLEAN) /\ Len(path) \in Nat /\ DOMAIN path = 1 .. Len(path)
  BY PathIs, LenProperties
<1>1. \A k \in 1 .. Len(path) : Side(t, path, k) \in Nat
  <2>1. SUFFICES ASSUME NEW k \in 1 .. Len(path) PROVE Side(t, path, k) \in Nat
    OBVIOUS
  <2>2. Down(t, path, k) \in SUBSET (1 .. Den) /\ Cardinality(Down(t, path, k)) = Side(t, path, k)
    BY DownCounts
  <2>3. IsFiniteSet(1 .. Den)
    BY FrontierAssumption, FS_Interval
  <2> QED BY <2>2, <2>3, FS_Subset, FS_CardinalityType
<1>2. Sides(t, path) \in [1 .. Len(path) -> Nat]
  BY <1>0, <1>1 DEF Sides
<1>3. Sides(t, path) \in Seq(Nat) /\ Len(Sides(t, path)) = Len(path)
  <2>1. Sides(t, path) \in Seq(Nat)
    BY <1>0, <1>2, SeqDef
  <2> QED BY <1>0, <1>2, <2>1, LenProperties
<1>4. Law(t, path) = Product(Sides(t, path))
  BY DEF Law, Sides
<1>5. \A k \in 1 .. Len(path) : Sides(t, path)[k] = Side(t, path, k)
  BY <1>0 DEF Sides
<1> QED BY <1>1, <1>3, <1>4, <1>5

\* Of those that are down the path before a draw, as many are so after it as
\* the draw has rolls that lead there.
LEMMA ReachNext ==
    ASSUME NEW t, NEW s, NEW ss, Settles(t, s, ss), NEW path \in Paths(t),
           NEW n \in 0 .. Len(path), n < Len(path), NEW left, Even(t, s, ss, path, n, left)
    PROVE  /\ \E rest : Even(t, s, ss, path, n + 1, rest)
           /\ AsMany(Cardinality(Reach(t, s, ss, path, n + 1)), Den,
                     Cardinality(Reach(t, s, ss, path, n)), Side(t, path, n + 1))
<1> PICK W, X : W = Reach(t, s, ss, path, n) /\ X = Reach(t, s, ss, path, n + 1)
  OBVIOUS
<1>0. /\ t \in Turns /\ ss \in Seq(SiteSet) /\ Len(ss) \in Nat /\ DOMAIN ss = 1 .. Len(ss)
      /\ n + 1 \in 1 .. Len(path) /\ Den \in Nat
  BY SiteIs, PathIs, FrontierAssumption DEF Settles
<1>1. CASE W = {}
  <2>1. X = {}
    BY <1>1, ReachShrinks
  <2>2. Even(t, s, ss, path, n + 1, {})
    BY <2>1 DEF Even
  <2>3. Cardinality(X) = 0 /\ Cardinality(W) = 0
    BY <1>1, <2>1, FS_EmptySet
  <2>4. Side(t, path, n + 1) \in Nat
    BY <1>0, SidesAre
  <2>5. AsMany(Cardinality(X), Den, Cardinality(W), Side(t, path, n + 1))
    BY <1>0, <2>3, <2>4 DEF AsMany
  <2> QED BY <2>2, <2>5
<1>2. CASE W # {}
  <2>0. Reach(t, s, ss, path, n) # {}
    BY <1>2
  <2>a. PICK u \in left : Parts(t, s, ss, path, n, left, u)
    BY <2>0, EvenSteps
  <2>1. /\ Even(t, s, ss, path, n + 1, left \ {u})
        /\ X = {f \in W : f[u] \in Down(t, path, n + 1)}
    BY <2>a DEF Parts
  <2>2. u \in 1 .. Len(ss) /\ W \in SUBSET Vectors(Len(ss))
    BY <1>0 DEF Even, Reach
  <2>3. \A f \in W : \A x \in 1 .. Den : [f EXCEPT ![u] = x] \in W
    BY DEF Even
  <2>4. /\ Down(t, path, n + 1) \in SUBSET (1 .. Den)
        /\ Cardinality(Down(t, path, n + 1)) = Side(t, path, n + 1)
    BY <1>0, DownCounts
  <2>5. Cardinality({f \in W : f[u] \in Down(t, path, n + 1)}) * Den = Cardinality(W) * Cardinality(Down(t, path, n + 1))
    BY <1>0, <2>2, <2>3, <2>4, Slice
  <2>6. AsMany(Cardinality(X), Den, Cardinality(W), Side(t, path, n + 1))
    BY <2>1, <2>4, <2>5 DEF AsMany
  <2> QED BY <2>1, <2>6
<1> QED BY <1>1, <1>2

-----------------------------------------------------------------------------
\* The vectors that end on a path, and how many they are to all: as the law
\* of the path is to all the ways its draws may fall.
Ends(t, s, ss, path) == {f \in Vectors(Len(ss)) : Play(t, s, ss, CellOf(ss, f)).at = path}

LEMMA EndsAre ==
    ASSUME NEW t \in Turns, NEW s, NEW ss, NEW path \in Paths(t)
    PROVE  Ends(t, s, ss, path) = Reach(t, s, ss, path, Len(path))
<1>1. path \in Seq(BOOLEAN) /\ Len(path) \in Nat
  BY PathIs, LenProperties
<1>2. Prefix(path, Len(path)) = path
  BY <1>1, PrefixIs
<1>3. SUFFICES ASSUME NEW f
               PROVE  Play(t, s, ss, CellOf(ss, f)).at = path
                         <=> Run(t, s, ss, CellOf(ss, f))[Len(path)].at = path
  BY <1>2 DEF Ends, Reach, Spun
<1> QED BY PathEnds

LEMMA EndsCount ==
    ASSUME NEW t, NEW s, NEW ss, Settles(t, s, ss), NEW path \in Paths(t)
    PROVE  AsMany(Cardinality(Ends(t, s, ss, path)), Rolls(Len(path)), Law(t, path), Rolls(Len(ss)))
<1> PICK L, N : L = Len(path) /\ N = Len(ss)
  OBVIOUS
<1> PICK D, q : D = Dens(L) /\ q = Sides(t, path)
  OBVIOUS
<1>0. /\ t \in Turns /\ ss \in Seq(SiteSet) /\ N \in Nat /\ Den \in Nat
      /\ path \in Seq(BOOLEAN) /\ L \in Nat
  BY SiteIs, PathIs, LenProperties, FrontierAssumption DEF Settles
<1>1. D \in Seq(Nat) /\ Len(D) = L /\ Rolls(L) = Product(D) /\ Rolls(N) \in Nat
  BY <1>0, RollsAre
<1>2. /\ q \in Seq(Nat) /\ Len(q) = L /\ Law(t, path) = Product(q)
      /\ \A k \in 1 .. L : q[k] = Side(t, path, k) /\ Side(t, path, k) \in Nat
  BY <1>0, SidesAre
<1>3. PICK h : Partial(D, h) /\ h[Len(D)] = Product(D)
  BY <1>1, ProductIs
<1>4. PICK g : Partial(q, g) /\ g[Len(q)] = Product(q)
  BY <1>2, ProductIs
<1>5. /\ h[0] = 1 /\ g[0] = 1
      /\ \A i \in 1 .. L : h[i] = h[i - 1] * D[i] /\ g[i] = g[i - 1] * q[i]
  BY <1>1, <1>2, <1>3, <1>4 DEF Partial
<1>6. \A i \in 0 .. L : h[i] \in Nat /\ g[i] \in Nat
  BY <1>1, <1>2, <1>3, <1>4, PartialNat
<1>7. \A i \in 1 .. L : D[i] = Den
  BY DEF Dens
<1> DEFINE C(n) == Cardinality(Reach(t, s, ss, path, n))
           Good(n) == (\E left : Even(t, s, ss, path, n, left)) /\ AsMany(C(n), h[n], g[n], Rolls(N))
           P == {n \in Nat : n <= L => Good(n)}
<1>8. \A n : C(n) \in Nat
  <2>1. \A n : Reach(t, s, ss, path, n) \in SUBSET Vectors(N)
    BY DEF Reach
  <2> QED BY <1>0, <2>1, CountIs
<1>9. Good(0)
  <2>1. Reach(t, s, ss, path, 0) = Vectors(N) /\ Even(t, s, ss, path, 0, DOMAIN ss)
    BY <1>0, EvenBegins
  <2>2. C(0) = Rolls(N)
    BY <1>0, <2>1, VectorsCount
  <2>3. AsMany(C(0), h[0], g[0], Rolls(N))
    <3> HIDE DEF C
    <3> QED BY <1>1, <1>5, <2>2 DEF AsMany
  <2> QED BY <2>1, <2>3
<1>10. ASSUME NEW n \in Nat, n < L, Good(n) PROVE Good(n + 1)
  <2>1. n \in 0 .. Len(path) /\ n < Len(path) /\ n \in 0 .. L /\ n + 1 \in 1 .. L /\ (n + 1) - 1 = n
    BY <1>0, <1>10
  <2>2. PICK left : Even(t, s, ss, path, n, left)
    BY <1>10
  <2>3. /\ \E rest : Even(t, s, ss, path, n + 1, rest)
        /\ AsMany(C(n + 1), Den, C(n), Side(t, path, n + 1))
    BY <2>1, <2>2, ReachNext
  <2>4. AsMany(C(n), h[n], g[n], Rolls(N))
    BY <1>10
  <2>5. C(n) \in Nat /\ C(n + 1) \in Nat
    BY <1>8
  <2>6. Side(t, path, n + 1) \in Nat /\ h[n] \in Nat /\ g[n] \in Nat
    BY <1>2, <1>6, <2>1
  <2> HIDE DEF C
  <2>7. AsMany(C(n + 1), h[n] * Den, g[n] * Side(t, path, n + 1), Rolls(N))
    BY <1>0, <1>1, <2>3, <2>4, <2>5, <2>6, Across
  <2>8. h[n + 1] = h[n] * Den /\ g[n + 1] = g[n] * Side(t, path, n + 1)
    <3>1. h[n + 1] = h[(n + 1) - 1] * D[n + 1] /\ g[n + 1] = g[(n + 1) - 1] * q[n + 1]
      BY <1>5, <2>1
    <3>2. D[n + 1] = Den /\ q[n + 1] = Side(t, path, n + 1)
      BY <1>2, <1>7, <2>1
    <3> QED BY <2>1, <3>1, <3>2
  <2>9. AsMany(C(n + 1), h[n + 1], g[n + 1], Rolls(N))
    BY <2>7, <2>8
  <2> QED BY <2>3, <2>9 DEF C
<1> HIDE DEF Good
<1>11. 0 \in P /\ \A n \in Nat : n \in P => n + 1 \in P
  BY <1>0, <1>9, <1>10
<1> HIDE DEF P
<1>12. Nat \subseteq P
  BY <1>11, Counting
<1>13. Good(L)
  BY <1>0, <1>12 DEF P
<1>14. AsMany(Cardinality(Reach(t, s, ss, path, L)), h[L], g[L], Rolls(N))
  BY <1>13 DEF Good
<1>15. h[L] = Rolls(L) /\ g[L] = Law(t, path)
  BY <1>1, <1>2, <1>3, <1>4
<1>16. Ends(t, s, ss, path) = Reach(t, s, ss, path, L)
  BY <1>0, EndsAre
<1> QED BY <1>14, <1>15, <1>16

-----------------------------------------------------------------------------
(* The masses of a pass count vectors.                                      *)

\* In a turn of one threshold a key, what a log says was asked is that.
AllAsk(t, log) == \A j \in DOMAIN log : log[j].odds = t.odds[log[j].key][1]

LEMMA DrawAsks ==
    ASSUME NEW t \in Turns, OneThreshold(t), NEW s, NEW ss, NEW c, NEW n \in Nat, n < MaxDraws,
           NEW r, RunOK(t, ss, n, r), AllAsk(t, r.log)
    PROVE  AllAsk(t, Draw(t, s, ss, c, r).log)
<1>1. CASE Key(t, r.at) = Over
  BY <1>1, DrawOver
<1>2. CASE Key(t, r.at) # Over /\ Queue(t, ss, r) # {}
  <2>1. Draw(t, s, ss, c, r).log = r.log
    BY <1>2, DrawFiled
  <2> QED BY <2>1
<1>3. CASE Key(t, r.at) # Over /\ Queue(t, ss, r) = {}
  <2> PICK e : e = [key |-> Key(t, r.at), odds |-> Odds(t, r.at), after |-> Len(r.at)]
    OBVIOUS
  <2>1. Draw(t, s, ss, c, r).log = Append(r.log, e)
    BY <1>3, DrawMissed
  <2>2. r.at \in Seq(BOOLEAN) /\ Len(r.at) < MaxDraws
    <3>1. r.at \in Seq(BOOLEAN) /\ Len(r.at) <= n
      BY DEF RunOK
    <3> QED BY <3>1, FrontierAssumption, LenProperties
  <2>3. Odds(t, r.at) = t.odds[Key(t, r.at)][1]
    BY <1>3, <2>2, OneOdds
  <2>4. e.odds = t.odds[e.key][1]
    BY <2>3
  <2>5. r.log \in Seq(Noted)
    BY DEF RunOK
  <2> PICK l, m : l = r.log /\ m = Append(r.log, e)
    OBVIOUS
  <2>6. e \in Noted
    <3>1. Key(t, r.at) \in Keys /\ Odds(t, r.at) \in 0 .. Den /\ Len(r.at) \in Nat
      BY <1>3, <2>2, OddsAre, LenProperties
    <3> QED BY <3>1 DEF Noted
  <2>7. /\ Len(l) \in Nat /\ DOMAIN l = 1 .. Len(l)
        /\ DOMAIN m = 1 .. Len(l) + 1 /\ m[Len(l) + 1] = e
        /\ \A i \in 1 .. Len(l) : m[i] = l[i]
    <3>1. l \in Seq(Noted) /\ m = Append(l, e)
      BY <2>5
    <3>2. Len(l) \in Nat /\ DOMAIN l = 1 .. Len(l)
      BY <3>1, LenProperties
    <3>3. m \in Seq(Noted) /\ Len(m) = Len(l) + 1 /\ m[Len(l) + 1] = e /\ \A i \in 1 .. Len(l) : m[i] = l[i]
      BY <2>6, <3>1, AppendProperties
    <3>4. DOMAIN m = 1 .. Len(m)
      BY <3>3, LenProperties
    <3> QED BY <3>2, <3>3, <3>4
  <2>8. \A i \in 1 .. Len(l) + 1 : i \in 1 .. Len(l) \/ i = Len(l) + 1
    BY <2>7
  <2>9. AllAsk(t, l)
    OBVIOUS
  <2>10. AllAsk(t, m)
    BY <2>4, <2>7, <2>8, <2>9 DEF AllAsk
  <2> QED BY <2>1, <2>10
<1> QED BY <1>1, <1>2, <1>3

LEMMA PlayAsks ==
    ASSUME NEW t \in Turns, OneThreshold(t), NEW s, NEW ss, NEW c
    PROVE  AllAsk(t, Play(t, s, ss, c).log)
<1> DEFINE R(n) == Run(t, s, ss, c)[n]
           P == {n \in Nat : n <= MaxDraws => AllAsk(t, R(n).log)}
<1>0. MaxDraws \in Nat
  BY FrontierAssumption
<1>1. AllAsk(t, R(0).log)
  <2>1. R(0).log = <<>>
    <3>1. R(0) = Begin(ss)
      BY RunSteps
    <3> HIDE DEF R
    <3> QED BY <3>1 DEF Begin
  <2>2. AllAsk(t, <<>>)
    BY DEF AllAsk
  <2> QED BY <2>1, <2>2
<1>2. ASSUME NEW n \in Nat, n < MaxDraws, AllAsk(t, R(n).log) PROVE AllAsk(t, R(n + 1).log)
  <2> PICK r : r = R(n)
    OBVIOUS
  <2>1. R(n + 1) = Draw(t, s, ss, c, r)
    BY <1>2, RunSteps
  <2>2. n \in 0 .. MaxDraws
    BY <1>0, <1>2
  <2>3. RunOK(t, ss, n, r)
    BY <2>2, RunsOK
  <2>4. AllAsk(t, r.log)
    BY <1>2
  <2>5. AllAsk(t, Draw(t, s, ss, c, r).log)
    BY <1>2, <2>3, <2>4, DrawAsks
  <2> HIDE DEF R
  <2> QED BY <2>1, <2>5
<1> HIDE DEF R
<1>3. 0 \in P /\ \A n \in Nat : n \in P => n + 1 \in P
  BY <1>0, <1>1, <1>2
<1> HIDE DEF P
<1>4. Nat \subseteq P
  BY <1>3, Counting
<1>5. AllAsk(t, R(MaxDraws).log)
  BY <1>0, <1>4 DEF P
<1> QED BY <1>5 DEF R, Play

\* The cells whose mass has been merged, and the vectors that fall in them and
\* end on a path.
Counted(c) == Replayed(c) \/ phase = "done"

Tallied(path) == {f \in Ends(turn, stream, sites, path) : Counted(CellOf(sites, f))}

MassIs == phase \in {"pass", "fold", "done"} => \A path : Mass(path) = Cardinality(Tallied(path))

\* An answer without misses is of cells that missed nothing.
DoneClean == phase = "done" /\ logs = <<>> => AllQuiet(turn, stream, sites)

SitesAsk == OneThreshold(turn) => Asks(turn, sites) /\ \A i \in DOMAIN logs : AllAsk(turn, logs[i])

FairInv == DeepInv /\ MassIs /\ DoneClean /\ SitesAsk

LEMMA InitFair == FrontierInit => FairInv
<1> SUFFICES ASSUME FrontierInit PROVE FairInv
  OBVIOUS
<1>1. phase = "record" /\ sites = <<>> /\ logs = <<>>
  BY DEF FrontierInit
<1>2. MassIs /\ DoneClean
  BY <1>1 DEF MassIs, DoneClean
<1>3. SitesAsk
  BY <1>1 DEF SitesAsk, Asks
<1> QED BY <1>2, <1>3, InitDeep DEF FairInv

\* A merge adds the prior of the cell to the mass of one state.
LEMMA MergeIs ==
    ASSUME NEW p, mass' = Merge(p), NEW path
    PROVE  Mass(path)' = IF path = p THEN Mass(p) + Prior(sites, idx) ELSE Mass(path)
<1> PICK x : x = Mass(p) + Prior(sites, idx)
  OBVIOUS
<1> PICK m : m = mass'
  OBVIOUS
<1>1. m = [y \in DOMAIN mass \cup {p} |-> IF y = p THEN x ELSE mass[y]]
  BY DEF Merge
<1>2. Mass(path)' = IF path \in DOMAIN m THEN m[path] ELSE 0
  BY DEF Mass
<1>3. CASE path = p
  BY <1>1, <1>2, <1>3
<1>4. CASE path # p
  <2>1. path \in DOMAIN m <=> path \in DOMAIN mass
    BY <1>1, <1>4
  <2>2. path \in DOMAIN m => m[path] = mass[path]
    BY <1>1, <1>4
  <2> QED BY <1>2, <1>4, <2>1, <2>2 DEF Mass
<1> QED BY <1>3, <1>4

-----------------------------------------------------------------------------
\* A pass that opens has no masses and counts no cell.
LEMMA OpenMass ==
    ASSUME Typed, NEW ss \in Seq(SiteSet), Open(ss)
    PROVE  MassIs' /\ DoneClean'
<1>1. /\ sites' = ss /\ mass' = <<>> /\ idx' = [i \in DOMAIN ss |-> 1]
      /\ phase' = "refused" \/ phase' = "pass"
  BY DEF Open
<1>2. DoneClean'
  BY <1>1 DEF DoneClean
<1>3. SUFFICES ASSUME phase' = "pass", NEW path PROVE Mass(path)' = Cardinality(Tallied(path)')
  BY <1>1, <1>2 DEF MassIs
<1>4. Mass(path)' = 0
  BY <1>1 DEF Mass
<1>5. Tallied(path)' = {}
  <2>1. SUFFICES ASSUME NEW f \in Tallied(path)' PROVE FALSE
    OBVIOUS
  <2>2. f \in Vectors(Len(ss)) /\ Counted(CellOf(sites, f))'
    BY <1>1 DEF Tallied, Ends
  <2>3. CellOf(ss, f) \in Cells(ss)
    BY <2>2, CellOfIs
  <2>4. Before(ss, CellOf(ss, f), [i \in DOMAIN ss |-> 1])
    BY <1>1, <1>3, <2>2 DEF Counted, Replayed
  <2> QED BY <2>3, <2>4, NoneBefore
<1> QED BY <1>4, <1>5, FS_EmptySet

\* The one vector of no site.
LEMMA Alone ==
    ASSUME NEW t, NEW s, NEW path
    PROVE  /\ Ends(t, s, <<>>, path) = IF Play(t, s, <<>>, <<>>).at = path THEN {<<>>} ELSE {}
           /\ Cells(<<>>) = {<<>>}
<1>1. DOMAIN <<>> = {} /\ Len(<<>>) = 0 /\ 1 .. 0 = {}
  OBVIOUS
<1>2. \A f, S : f \in [{} -> S] <=> f = <<>>
  <2>1. SUFFICES ASSUME NEW f, NEW S PROVE f \in [{} -> S] <=> f = <<>>
    OBVIOUS
  <2>2. <<>> = [i \in {} |-> i]
    BY <1>1
  <2> QED BY <2>2
<1>3. Vectors(0) = {<<>>}
  BY <1>1, <1>2 DEF Vectors
<1>4. \A f : CellOf(<<>>, f) = <<>>
  <2>1. SUFFICES ASSUME NEW f PROVE CellOf(<<>>, f) = <<>>
    OBVIOUS
  <2>2. CellOf(<<>>, f) \in [{} -> {CellOf(<<>>, f)[i] : i \in {}}]
    BY <1>1 DEF CellOf
  <2> QED BY <1>2, <2>2
<1>5. Ends(t, s, <<>>, path) = IF Play(t, s, <<>>, <<>>).at = path THEN {<<>>} ELSE {}
  BY <1>1, <1>3, <1>4 DEF Ends
<1>6. Cells(<<>>) = {<<>>}
  BY <1>1, <1>2 DEF Cells
<1> QED BY <1>5, <1>6

LEMMA RecordMass == FairInv /\ Record => MassIs' /\ DoneClean'
<1> SUFFICES ASSUME FairInv, Record PROVE MassIs' /\ DoneClean'
  OBVIOUS
<1> PICK run : run = Play(turn, stream, <<>>, <<>>)
  OBVIOUS
<1>0. /\ phase = "record" /\ UNCHANGED <<turn, stream>>
      /\ \/ /\ run.log = <<>> /\ mass' = [p \in {run.at} |-> 1]
            /\ phase' = "done" /\ UNCHANGED <<sites, logs>>
         \/ Open(Recorded(run.log))
  BY DEF Record, Recorded
<1>1. Typed /\ sites = <<>> /\ turn \in Turns
  BY <1>0 DEF FairInv, DeepInv, Unrecorded, Typed
<1>2. CASE Open(Recorded(run.log))
  <2>1. run.log \in Seq(Noted)
    BY <1>1, PlayIs
  <2>2. Recorded(run.log) \in Seq(SiteSet)
    BY <2>1, RecordedIs
  <2> QED BY <1>1, <1>2, <2>2, OpenMass
<1>3. CASE /\ run.log = <<>> /\ mass' = [p \in {run.at} |-> 1]
           /\ phase' = "done" /\ UNCHANGED <<sites, logs>>
  <2>1. ASSUME NEW path PROVE Mass(path)' = Cardinality(Tallied(path)')
    <3> PICK p : p = run.at
      OBVIOUS
    <3>1. Tallied(path)' = IF p = path THEN {<<>>} ELSE {}
      <4>1. Tallied(path)' = Ends(turn, stream, <<>>, path)
        BY <1>0, <1>1, <1>3 DEF Tallied, Counted
      <4> QED BY <4>1, Alone
    <3>2. Mass(path)' = IF path = p THEN 1 ELSE 0
      BY <1>3 DEF Mass
    <3>3. Cardinality({}) = 0 /\ Cardinality({<<>>}) = 1
      BY FS_EmptySet, FS_Singleton
    <3> QED BY <3>1, <3>2, <3>3
  <2>2. MassIs'
    BY <2>1 DEF MassIs
  <2>3. AllQuiet(turn, stream, <<>>)
    <3>1. Cells(<<>>) = {<<>>}
      BY Alone
    <3>2. Quiet(turn, stream, <<>>, <<>>)
      BY <1>3 DEF Quiet
    <3> QED BY <3>1, <3>2 DEF AllQuiet
  <2>4. DoneClean'
    BY <1>0, <1>1, <1>3, <2>3 DEF DoneClean
  <2> QED BY <2>2, <2>4
<1> QED BY <1>0, <1>2, <1>3

LEMMA ReplayMass == FairInv /\ Replay => MassIs' /\ DoneClean'
<1> SUFFICES ASSUME FairInv, Replay PROVE MassIs' /\ DoneClean'
  OBVIOUS
<1> PICK p : p = Play(turn, stream, sites, idx).at
  OBVIOUS
<1>0. /\ phase = "pass" /\ phase' \in {"pass", "fold"} /\ UNCHANGED <<turn, stream, sites>>
      /\ mass' = Merge(p)
  BY DEF Replay
<1>1. Typed /\ sites \in Seq(SiteSet) /\ idx \in Cells(sites) /\ Len(sites) \in Nat
  BY <1>0, SiteIs DEF FairInv, DeepInv, Typed
<1>2. DoneClean'
  BY <1>0 DEF DoneClean
<1>3. SUFFICES ASSUME NEW path PROVE Mass(path)' = Cardinality(Tallied(path)')
  BY <1>2 DEF MassIs
<1> PICK T, U : T = Tallied(path) /\ U = Tallied(path)'
  OBVIOUS
<1> PICK B : B = {f \in Vectors(Len(sites)) : CellOf(sites, f) = idx}
  OBVIOUS
<1>4. Mass(path) = Cardinality(T)
  BY <1>0 DEF FairInv, MassIs
<1>5. Mass(path)' = IF path = p THEN Cardinality(T) + Prior(sites, idx) ELSE Cardinality(T)
  BY <1>0, <1>4, MergeIs
<1>6. \A f \in Vectors(Len(sites)) : Counted(CellOf(sites, f))' <=> Counted(CellOf(sites, f)) \/ CellOf(sites, f) = idx
  <2>1. SUFFICES ASSUME NEW f \in Vectors(Len(sites))
                 PROVE  Counted(CellOf(sites, f))' <=> Counted(CellOf(sites, f)) \/ CellOf(sites, f) = idx
    OBVIOUS
  <2> PICK c : c = CellOf(sites, f)
    OBVIOUS
  <2>2. c \in Cells(sites)
    BY <1>1, <2>1, CellOfIs
  <2>3. Replayed(c)' <=> Replayed(c) \/ c = idx
    BY <1>1, <2>2, ReplayedNext
  <2>4. Counted(c)' <=> Counted(c) \/ c = idx
    BY <1>0, <2>3 DEF Counted
  <2>5. CellOf(sites, f)' = c
    BY <1>0
  <2> QED BY <1>0, <2>4, <2>5 DEF Counted, Replayed
<1>7. U = {f \in Ends(turn, stream, sites, path) : Counted(CellOf(sites, f)) \/ CellOf(sites, f) = idx}
  BY <1>0, <1>6 DEF Tallied, Ends
<1>8. U = IF path = p THEN T \cup B ELSE T
  BY <1>7 DEF Tallied, Ends
<1>9. T \cap B = {}
  <2>1. ~Counted(idx)
    BY <1>0, <1>1, NotBeforeItself DEF Counted, Replayed
  <2> QED BY <2>1 DEF Tallied
<1>10. /\ IsFiniteSet(T) /\ Cardinality(T) \in Nat /\ IsFiniteSet(B)
       /\ Cardinality(B) = Prior(sites, idx) /\ Cardinality(B) \in Nat
  <2>1. T \in SUBSET Vectors(Len(sites)) /\ B \in SUBSET Vectors(Len(sites))
    BY DEF Tallied, Ends
  <2>2. Cardinality(B) = Prior(sites, idx)
    BY <1>1, PriorCounts
  <2> QED BY <1>1, <2>1, <2>2, CountIs
<1>11. Cardinality(T \cup B) = Cardinality(T) + Prior(sites, idx)
  <2>1. Cardinality(T \cup B) = Cardinality(T) + Cardinality(B) - Cardinality(T \cap B)
    BY <1>10, FS_Union
  <2>2. Cardinality(T \cap B) = 0
    BY <1>9, FS_EmptySet
  <2> QED BY <1>10, <2>1, <2>2
<1> QED BY <1>5, <1>8, <1>11

LEMMA FoldMass == FairInv /\ Fold => MassIs' /\ DoneClean'
<1> SUFFICES ASSUME FairInv, Fold PROVE MassIs' /\ DoneClean'
  OBVIOUS
<1>0. phase = "fold" /\ UNCHANGED <<turn, stream>>
  BY DEF Fold
<1>1. Typed /\ sites \in Seq(SiteSet) /\ logs \in Logs
  BY DEF FairInv, DeepInv, Typed
<1>2. CASE phase' = "done" /\ UNCHANGED <<sites, idx, mass, logs>>
  <2>1. ASSUME NEW path PROVE Mass(path)' = Cardinality(Tallied(path)')
    <3>1. Tallied(path)' = Tallied(path)
      BY <1>0, <1>2 DEF Tallied, Ends, Counted, Replayed
    <3>2. Mass(path) = Cardinality(Tallied(path))
      BY <1>0 DEF FairInv, MassIs
    <3>3. Mass(path)' = Mass(path)
      BY <1>2 DEF Mass
    <3> QED BY <3>1, <3>2, <3>3
  <2>2. ASSUME logs = <<>> PROVE AllQuiet(turn, stream, sites)
    <3>1. SUFFICES ASSUME NEW c \in Cells(sites), ~Quiet(turn, stream, sites, c) PROVE FALSE
      BY DEF AllQuiet
    <3>2. OnRecord(logs, Play(turn, stream, sites, c).log)
      BY <1>0, <3>1 DEF FairInv, DeepInv, MissesNoted, Replayed, Quiet
    <3> QED BY <2>2, <3>2 DEF OnRecord
  <2>3. DoneClean'
    BY <1>0, <1>2, <2>2 DEF DoneClean
  <2> QED BY <2>1, <2>3 DEF MassIs
<1>3. CASE Open(sites \o Discovered(logs))
  <2>1. sites \o Discovered(logs) \in Seq(SiteSet)
    BY <1>1, DiscoveredIs, ConcatProperties
  <2> QED BY <1>1, <1>3, <2>1, OpenMass
<1> QED BY <1>2, <1>3 DEF Fold

-----------------------------------------------------------------------------
\* What the recorded sites, and those discovered, ask.
LEMMA RecordedAsk ==
    ASSUME NEW t, NEW log, AllAsk(t, log)
    PROVE  Asks(t, Recorded(log))
<1>1. SUFFICES ASSUME NEW i \in DOMAIN log PROVE Recorded(log)[i].odds = t.odds[Recorded(log)[i].key][1]
  BY DEF Asks, Recorded
<1>2. Recorded(log)[i].odds = log[i].odds /\ Recorded(log)[i].key = log[i].key
  BY DEF Recorded
<1> QED BY <1>2 DEF AllAsk

LEMMA DiscoveredAsk ==
    ASSUME NEW t, NEW ss \in Seq(SiteSet), Asks(t, ss), NEW ls \in Logs, \A i \in DOMAIN ls : AllAsk(t, ls[i])
    PROVE  Asks(t, ss \o Discovered(ls))
<1> PICK dd : dd = Discovered(ls)
  OBVIOUS
<1>1. dd \in Seq(SiteSet)
  BY DiscoveredIs
<1>2. /\ Len(ss) \in Nat /\ DOMAIN ss = 1 .. Len(ss) /\ DOMAIN dd = 1 .. Len(dd) /\ Len(dd) \in Nat
      /\ DOMAIN (ss \o dd) = DOMAIN ss \cup New(ss, dd)
      /\ \A i \in DOMAIN ss : (ss \o dd)[i] = ss[i]
      /\ \A j \in DOMAIN dd : (ss \o dd)[Len(ss) + j] = dd[j]
  BY <1>1, Behind
<1>3. ASSUME NEW j \in DOMAIN dd PROVE dd[j].odds = t.odds[dd[j].key][1]
  <2>1. PICK i \in DOMAIN ls : \E n \in DOMAIN ls[i] : dd[j] = [key |-> ls[i][n].key, odds |-> ls[i][n].odds]
    BY DiscoveredIs
  <2>2. PICK n \in DOMAIN ls[i] : dd[j] = [key |-> ls[i][n].key, odds |-> ls[i][n].odds]
    BY <2>1
  <2>3. ls[i][n].odds = t.odds[ls[i][n].key][1]
    BY DEF AllAsk
  <2> QED BY <2>2, <2>3
<1> PICK new : new = ss \o dd
  OBVIOUS
<1>4. SUFFICES ASSUME NEW i \in DOMAIN new PROVE new[i].odds = t.odds[new[i].key][1]
  BY DEF Asks
<1>5. CASE i \in DOMAIN ss
  <2>1. new[i] = ss[i]
    BY <1>2, <1>5
  <2> QED BY <1>5, <2>1 DEF Asks
<1>6. CASE i \in New(ss, dd)
  <2>1. PICK j \in DOMAIN dd : i = Len(ss) + j
    <3>1. i - Len(ss) \in DOMAIN dd /\ i = Len(ss) + (i - Len(ss))
      BY <1>2, <1>6 DEF New
    <3> QED BY <3>1
  <2>2. new[i] = dd[j]
    BY <1>2, <2>1
  <2> QED BY <1>3, <2>2
<1> QED BY <1>2, <1>5, <1>6

LEMMA RecordAsks == FairInv /\ Record => SitesAsk'
<1> SUFFICES ASSUME FairInv, Record PROVE SitesAsk'
  OBVIOUS
<1> PICK run : run = Play(turn, stream, <<>>, <<>>)
  OBVIOUS
<1>0. /\ turn' = turn
      /\ \/ UNCHANGED <<sites, logs>>
         \/ sites' = Recorded(run.log) /\ logs' = <<>>
  BY DEF Record, Recorded, Open
<1>1. turn \in Turns
  BY DEF FairInv, DeepInv, Typed
<1>2. SUFFICES ASSUME OneThreshold(turn)
               PROVE  Asks(turn, sites') /\ \A i \in DOMAIN logs' : AllAsk(turn, logs'[i])
  BY <1>0 DEF SitesAsk
<1>3. CASE UNCHANGED <<sites, logs>>
  BY <1>2, <1>3 DEF FairInv, SitesAsk
<1>4. CASE sites' = Recorded(run.log) /\ logs' = <<>>
  <2>1. AllAsk(turn, run.log)
    BY <1>1, <1>2, PlayAsks
  <2> QED BY <1>4, <2>1, RecordedAsk
<1> QED BY <1>0, <1>3, <1>4

LEMMA ReplayAsks == FairInv /\ Replay => SitesAsk'
<1> SUFFICES ASSUME FairInv, Replay PROVE SitesAsk'
  OBVIOUS
<1> PICK log : log = Play(turn, stream, sites, idx).log
  OBVIOUS
<1> PICK ms : ms = logs'
  OBVIOUS
<1>0. UNCHANGED <<turn, sites>> /\ ms = IF log = <<>> THEN logs ELSE Append(logs, log)
  BY DEF Replay
<1>1. turn \in Turns /\ logs \in Logs
  BY DEF FairInv, DeepInv, Typed
<1>2. SUFFICES ASSUME OneThreshold(turn)
               PROVE  Asks(turn, sites) /\ \A i \in DOMAIN ms : AllAsk(turn, ms[i])
  BY <1>0 DEF SitesAsk
<1>3. Asks(turn, sites) /\ \A i \in DOMAIN logs : AllAsk(turn, logs[i])
  BY <1>2 DEF FairInv, SitesAsk
<1>4. log \in Seq(Noted) /\ AllAsk(turn, log)
  BY <1>1, <1>2, PlayIs, PlayAsks
<1>5. GoesOn(logs, log, ms)
  BY <1>0, <1>1, <1>4, LogsGrow
<1>6. \A i \in DOMAIN ms : ms[i] = log \/ (i \in DOMAIN logs /\ ms[i] = logs[i])
  BY <1>5 DEF GoesOn
<1> QED BY <1>3, <1>4, <1>6

LEMMA FoldAsks == FairInv /\ Fold => SitesAsk'
<1> SUFFICES ASSUME FairInv, Fold PROVE SitesAsk'
  OBVIOUS
<1>0. /\ turn' = turn
      /\ \/ UNCHANGED <<sites, logs>>
         \/ sites' = sites \o Discovered(logs) /\ logs' = <<>>
  BY DEF Fold, Open
<1>1. sites \in Seq(SiteSet) /\ logs \in Logs
  BY DEF FairInv, DeepInv, Typed
<1>2. SUFFICES ASSUME OneThreshold(turn)
               PROVE  Asks(turn, sites') /\ \A i \in DOMAIN logs' : AllAsk(turn, logs'[i])
  BY <1>0 DEF SitesAsk
<1>3. Asks(turn, sites) /\ \A i \in DOMAIN logs : AllAsk(turn, logs[i])
  BY <1>2 DEF FairInv, SitesAsk
<1>4. Asks(turn, sites \o Discovered(logs))
  BY <1>1, <1>3, DiscoveredAsk
<1>5. CASE UNCHANGED <<sites, logs>>
  BY <1>3, <1>5
<1>6. CASE sites' = sites \o Discovered(logs) /\ logs' = <<>>
  <2>1. DOMAIN logs' = {}
    BY <1>6
  <2> QED BY <1>4, <1>6, <2>1
<1> QED BY <1>0, <1>5, <1>6

LEMMA StillFair == FairInv /\ (Trip \/ UNCHANGED frontier) => MassIs' /\ DoneClean' /\ SitesAsk'
<1> SUFFICES ASSUME FairInv, Trip \/ UNCHANGED frontier PROVE MassIs' /\ DoneClean' /\ SitesAsk'
  OBVIOUS
<1>0. /\ UNCHANGED <<turn, stream, sites, idx, mass, logs>>
      /\ phase' = phase \/ phase' = "tripped"
  BY DEF Trip, frontier
<1>1. SitesAsk'
  BY <1>0 DEF FairInv, SitesAsk
<1>2. CASE phase' = "tripped"
  BY <1>1, <1>2 DEF MassIs, DoneClean
<1>3. CASE phase' = phase
  <2>1. DoneClean'
    BY <1>0, <1>3 DEF FairInv, DoneClean
  <2>2. ASSUME phase \in {"pass", "fold", "done"}, NEW path PROVE Mass(path)' = Cardinality(Tallied(path)')
    <3>1. Tallied(path)' = Tallied(path)
      BY <1>0, <1>3 DEF Tallied, Ends, Counted, Replayed
    <3>2. Mass(path) = Cardinality(Tallied(path))
      BY <2>2 DEF FairInv, MassIs
    <3>3. Mass(path)' = Mass(path)
      BY <1>0 DEF Mass
    <3> QED BY <3>1, <3>2, <3>3
  <2> QED BY <1>1, <1>3, <2>1, <2>2 DEF MassIs
<1> QED BY <1>0, <1>2, <1>3

LEMMA FrontierInvariant == FrontierSpec => []FairInv
<1>1. FairInv /\ [FrontierNext]_frontier => FairInv'
  <2>1. FairInv /\ [FrontierNext]_frontier => DeepInv'
    BY RecordDeep, ReplayDeep, FoldDeep, TripDeep, StutterDeep DEF FrontierNext, FairInv
  <2>2. FairInv /\ [FrontierNext]_frontier => MassIs' /\ DoneClean'
    BY RecordMass, ReplayMass, FoldMass, StillFair DEF FrontierNext
  <2>3. FairInv /\ [FrontierNext]_frontier => SitesAsk'
    BY RecordAsks, ReplayAsks, FoldAsks, StillFair DEF FrontierNext
  <2> QED BY <2>1, <2>2, <2>3 DEF FairInv
<1> QED BY <1>1, InitFair, PTL DEF FrontierSpec

\* Whatever the turn, the fallback, the scale and the caps: in a turn of one
\* threshold a key, an answer without misses gives each state the chance that
\* the turn's own draws give it (lib.rs:26-29, 412-416).
THEOREM PriorsAreRightHolds == FrontierSpec => []PriorsAreRight
<1>1. FairInv => PriorsAreRight
  <2>1. SUFFICES ASSUME FairInv, phase = "done", logs = <<>>, OneThreshold(turn), NEW path \in Paths(turn)
                 PROVE  Mass(path) * Rolls(Len(path)) = Law(turn, path) * Rolls(Len(sites))
    BY DEF PriorsAreRight
  <2>2. Settles(turn, stream, sites)
    BY <2>1 DEF FairInv, DeepInv, Typed, DoneClean, SitesAsk, Settles
  <2>3. Tallied(path) = Ends(turn, stream, sites, path)
    BY <2>1 DEF Tallied, Counted
  <2>4. Mass(path) = Cardinality(Ends(turn, stream, sites, path))
    BY <2>1, <2>3 DEF FairInv, MassIs
  <2>5. AsMany(Cardinality(Ends(turn, stream, sites, path)), Rolls(Len(path)), Law(turn, path), Rolls(Len(sites)))
    BY <2>1, <2>2, EndsCount
  <2> QED BY <2>4, <2>5 DEF AsMany
<1> QED BY <1>1, FrontierInvariant, PTL

-----------------------------------------------------------------------------
(* What solve_zero_sum promises, for every matrix of integers.  The relations *)
(* between numbers have names here (IsMix, IsShare, IsTimes, AtMost): a name  *)
(* is what the provers find a lemma's premises by.  Sums first.               *)

\* g is the sum of each of the first m numbers of q.
Summing(g, q, m) == g = [i \in 0 .. m |-> IF i = 0 THEN 0 ELSE g[i - 1] + q[i]]

\* The same, number by number.
Sums(q, m, g) == g[0] = 0 /\ \A i \in 1 .. m : g[i] = g[i - 1] + q[i]

LEMMA SummingSteps ==
    ASSUME NEW g, NEW q, NEW m \in Nat, Summing(g, q, m)
    PROVE  Sums(q, m, g)
<1>1. 0 \in 0 .. m /\ \A i \in 1 .. m : i \in 0 .. m /\ i # 0
  OBVIOUS
<1> QED BY <1>1 DEF Summing, Sums

LEMMA SummingExists ==
    ASSUME NEW q, NEW m \in Nat
    PROVE  \E g : Summing(g, q, m)
<1> DEFINE P == {k \in Nat : \E g : Summing(g, q, k)}
<1>1. 0 \in P
  <2> DEFINE g == [i \in 0 .. 0 |-> 0]
  <2>1. Summing(g, q, 0)
    BY DEF Summing
  <2> QED BY <2>1
<1>2. ASSUME NEW j \in Nat, j \in P PROVE j + 1 \in P
  <2>1. PICK h : Summing(h, q, j)
    BY <1>2
  <2>2. h[0] = 0 /\ \A i \in 1 .. j : h[i] = h[i - 1] + q[i]
    BY <2>1, SummingSteps DEF Sums
  <2>3. PICK k \in Nat : k = j + 1
    OBVIOUS
  <2> PICK last : last = h[j] + q[k]
    OBVIOUS
  <2> DEFINE g == [i \in 0 .. k |-> IF i = k THEN last ELSE h[i]]
  <2>4. ASSUME NEW i \in 0 .. k
        PROVE  g[i] = IF i = 0 THEN 0 ELSE g[i - 1] + q[i]
    <3>1. CASE i = 0
      BY <2>2, <2>3, <3>1
    <3>2. CASE i # 0
      <4>1. i - 1 \in 0 .. k /\ i - 1 # k /\ (i # k => i \in 1 .. j) /\ (i = k => i - 1 = j)
        BY <2>3, <3>2
      <4>2. g[i - 1] = h[i - 1]
        BY <4>1
      <4> QED BY <2>2, <3>2, <4>1, <4>2
    <3> QED BY <3>1, <3>2
  <2>5. Summing(g, q, k)
    BY <2>4 DEF Summing
  <2> QED BY <2>3, <2>5
<1> HIDE DEF P
<1>3. m \in P
  BY <1>1, <1>2, Counting
<1> QED BY <1>3 DEF P

\* What Total computes.
LEMMA TotalIs ==
    ASSUME NEW m \in Nat, NEW q \in [1 .. m -> Int]
    PROVE  \E g : Sums(q, m, g) /\ g[m] = Total(q) /\ \A i \in 0 .. m : g[i] \in Int
<1>1. Len(q) = m
  <2>1. q \in Seq(Int)
    BY SeqDef
  <2> QED BY <2>1, LenProperties
<1> PICK g : g = CHOOSE f : Summing(f, q, m)
  OBVIOUS
<1>2. Summing(g, q, m)
  BY SummingExists
<1>3. Total(q) = g[m]
  BY <1>1 DEF Total, Summing
<1>4. Sums(q, m, g)
  BY <1>2, SummingSteps
<1> DEFINE P == {k \in Nat : k <= m => g[k] \in Int}
<1>5. 0 \in P
  BY <1>4 DEF Sums
<1>6. ASSUME NEW k \in Nat, k \in P PROVE k + 1 \in P
  <2>1. SUFFICES ASSUME k + 1 <= m PROVE g[k + 1] \in Int
    OBVIOUS
  <2>2. k + 1 \in 1 .. m /\ (k + 1) - 1 = k /\ k <= m
    BY <2>1
  <2>3. g[k + 1] = g[(k + 1) - 1] + q[k + 1] /\ q[k + 1] \in Int
    BY <1>4, <2>2 DEF Sums
  <2> QED BY <1>6, <2>2, <2>3
<1> HIDE DEF P
<1>7. Nat \subseteq P
  BY <1>5, <1>6, Counting
<1>8. \A i \in 0 .. m : g[i] \in Int
  BY <1>7 DEF P
<1> QED BY <1>3, <1>4, <1>8

LEMMA TotalInt ==
    ASSUME NEW m \in Nat, NEW q \in [1 .. m -> Int]
    PROVE  Total(q) \in Int
<1>1. PICK g : g[m] = Total(q) /\ \A i \in 0 .. m : g[i] \in Int
  BY TotalIs
<1> QED BY <1>1

\* A linear combination, as a relation the arithmetic does not look into.
IsMix(k, a, x, b, y) == k = a * x + b * y

LEMMA MixAdds ==
    ASSUME NEW a \in Int, NEW b \in Int, NEW x \in Int, NEW y \in Int, NEW u \in Int, NEW v \in Int,
           NEW i \in Int, NEW j \in Int, IsMix(i, a, x, b, y), IsMix(j, a, u, b, v),
           NEW k \in Int, NEW z \in Int, NEW w \in Int, z = x + u, w = y + v, k = i + j
    PROVE  IsMix(k, a, z, b, w)
  BY DEF IsMix

LEMMA TotalLinear ==
    ASSUME NEW m \in Nat, NEW q \in [1 .. m -> Int], NEW p \in [1 .. m -> Int], NEW s \in [1 .. m -> Int],
           NEW a \in Int, NEW b \in Int, \A i \in 1 .. m : IsMix(s[i], a, q[i], b, p[i])
    PROVE  IsMix(Total(s), a, Total(q), b, Total(p))
<1>1. PICK f : Sums(q, m, f) /\ f[m] = Total(q) /\ \A i \in 0 .. m : f[i] \in Int
  BY TotalIs
<1>2. PICK g : Sums(p, m, g) /\ g[m] = Total(p) /\ \A i \in 0 .. m : g[i] \in Int
  BY TotalIs
<1>3. PICK h : Sums(s, m, h) /\ h[m] = Total(s) /\ \A i \in 0 .. m : h[i] \in Int
  BY TotalIs
<1> DEFINE P == {k \in Nat : k <= m => IsMix(h[k], a, f[k], b, g[k])}
<1>4. 0 \in P
  BY <1>1, <1>2, <1>3 DEF Sums, IsMix
<1>5. ASSUME NEW k \in Nat, k \in P PROVE k + 1 \in P
  <2>0. PICK n \in Nat : n = k + 1
    OBVIOUS
  <2>1. SUFFICES ASSUME n <= m PROVE IsMix(h[n], a, f[n], b, g[n])
    BY <2>0
  <2>2. n \in 1 .. m /\ n - 1 = k /\ k <= m /\ k \in 0 .. m /\ n \in 0 .. m
    BY <2>0, <2>1
  <2>3. h[n] = h[k] + s[n] /\ f[n] = f[k] + q[n] /\ g[n] = g[k] + p[n]
    BY <1>1, <1>2, <1>3, <2>2 DEF Sums
  <2>4. /\ IsMix(h[k], a, f[k], b, g[k]) /\ IsMix(s[n], a, q[n], b, p[n])
        /\ f[k] \in Int /\ g[k] \in Int /\ q[n] \in Int /\ p[n] \in Int /\ h[k] \in Int /\ s[n] \in Int
        /\ f[n] \in Int /\ g[n] \in Int /\ h[n] \in Int
    BY <1>1, <1>2, <1>3, <1>5, <2>2
  <2> HIDE DEF P
  <2> QED BY <2>3, <2>4, MixAdds
<1> HIDE DEF P
<1>6. Nat \subseteq P
  BY <1>4, <1>5, Counting
<1>7. IsMix(h[m], a, f[m], b, g[m])
  BY <1>6 DEF P
<1> QED BY <1>1, <1>2, <1>3, <1>7

LEMMA TotalMost ==
    ASSUME NEW m \in Nat, NEW q \in [1 .. m -> Int], NEW p \in [1 .. m -> Int],
           \A i \in 1 .. m : q[i] <= p[i]
    PROVE  Total(q) <= Total(p)
<1>1. PICK f : Sums(q, m, f) /\ f[m] = Total(q) /\ \A i \in 0 .. m : f[i] \in Int
  BY TotalIs
<1>2. PICK g : Sums(p, m, g) /\ g[m] = Total(p) /\ \A i \in 0 .. m : g[i] \in Int
  BY TotalIs
<1> DEFINE P == {k \in Nat : k <= m => f[k] <= g[k]}
<1>3. 0 \in P
  BY <1>1, <1>2 DEF Sums
<1>4. ASSUME NEW k \in Nat, k \in P PROVE k + 1 \in P
  <2>1. SUFFICES ASSUME k + 1 <= m PROVE f[k + 1] <= g[k + 1]
    OBVIOUS
  <2>2. k + 1 \in 1 .. m /\ (k + 1) - 1 = k /\ k <= m /\ k \in 0 .. m
    BY <2>1
  <2>3. f[k + 1] = f[k] + q[k + 1] /\ g[k + 1] = g[k] + p[k + 1]
    BY <1>1, <1>2, <2>2 DEF Sums
  <2>4. /\ f[k] <= g[k] /\ q[k + 1] <= p[k + 1]
        /\ f[k] \in Int /\ g[k] \in Int /\ q[k + 1] \in Int /\ p[k + 1] \in Int
    BY <1>1, <1>2, <1>4, <2>2
  <2> QED BY <2>3, <2>4
<1> HIDE DEF P
<1>5. Nat \subseteq P
  BY <1>3, <1>4, Counting
<1> QED BY <1>1, <1>2, <1>5 DEF P

LEMMA TotalOfNone ==
    ASSUME NEW m \in Nat, NEW q \in [1 .. m -> Int], \A i \in 1 .. m : q[i] = 0
    PROVE  Total(q) = 0
<1>1. PICK f : Sums(q, m, f) /\ f[m] = Total(q)
  BY TotalIs
<1> DEFINE P == {k \in Nat : k <= m => f[k] = 0}
<1>2. 0 \in P
  BY <1>1 DEF Sums
<1>3. ASSUME NEW k \in Nat, k \in P PROVE k + 1 \in P
  <2>1. SUFFICES ASSUME k + 1 <= m PROVE f[k + 1] = 0
    OBVIOUS
  <2>2. k + 1 \in 1 .. m /\ (k + 1) - 1 = k /\ k <= m
    BY <2>1
  <2>3. f[k + 1] = f[k] + q[k + 1] /\ q[k + 1] = 0 /\ f[k] = 0
    BY <1>1, <1>3, <2>2 DEF Sums
  <2> QED BY <2>3
<1> HIDE DEF P
<1>4. Nat \subseteq P
  BY <1>2, <1>3, Counting
<1> QED BY <1>1, <1>4 DEF P

\* Numbers that differ in one place.
LEMMA TotalBut ==
    ASSUME NEW m \in Nat, NEW q \in [1 .. m -> Int], NEW p \in [1 .. m -> Int], NEW k \in 1 .. m,
           \A i \in 1 .. m : i # k => q[i] = p[i]
    PROVE  Total(q) = Total(p) + q[k] - p[k]
<1>1. PICK f : Sums(q, m, f) /\ f[m] = Total(q) /\ \A i \in 0 .. m : f[i] \in Int
  BY TotalIs
<1>2. PICK g : Sums(p, m, g) /\ g[m] = Total(p) /\ \A i \in 0 .. m : g[i] \in Int
  BY TotalIs
<1>0. q[k] \in Int /\ p[k] \in Int
  OBVIOUS
<1> PICK d \in Int : d = q[k] - p[k]
  BY <1>0
<1> DEFINE P == {j \in Nat : j <= m => f[j] = IF j < k THEN g[j] ELSE g[j] + d}
<1>3. 0 \in P
  <2>1. 0 < k /\ f[0] = g[0]
    BY <1>1, <1>2 DEF Sums
  <2> QED BY <2>1
<1>4. ASSUME NEW j \in Nat, j \in P PROVE j + 1 \in P
  <2>0. PICK n \in Nat : n = j + 1
    OBVIOUS
  <2>1. SUFFICES ASSUME n <= m PROVE f[n] = IF n < k THEN g[n] ELSE g[n] + d
    BY <2>0
  <2>2. n \in 1 .. m /\ n - 1 = j /\ j <= m /\ j \in 0 .. m
    BY <2>0, <2>1
  <2>3. f[n] = f[j] + q[n] /\ g[n] = g[j] + p[n]
    BY <1>1, <1>2, <2>2 DEF Sums
  <2>4. /\ f[j] = IF j < k THEN g[j] ELSE g[j] + d
        /\ f[j] \in Int /\ g[j] \in Int /\ q[n] \in Int /\ p[n] \in Int
    BY <1>1, <1>2, <1>4, <2>2
  <2>5. CASE n = k
    <3>1. q[n] = p[n] + d /\ j < k /\ ~(n < k)
      BY <1>0, <2>0, <2>4, <2>5
    <3>2. f[j] = g[j]
      BY <2>4, <3>1
    <3> QED BY <2>3, <2>4, <3>1, <3>2
  <2>6. CASE n # k
    <3>1. q[n] = p[n] /\ (j < k <=> n < k)
      BY <2>0, <2>2, <2>6
    <3> QED BY <2>3, <2>4, <3>1
  <2> QED BY <2>5, <2>6
<1> HIDE DEF P
<1>5. Nat \subseteq P
  BY <1>3, <1>4, Counting
<1>6. f[m] = g[m] + d
  <2>1. ~(m < k) /\ m <= m
    OBVIOUS
  <2> QED BY <1>5, <2>1 DEF P
<1> QED BY <1>0, <1>1, <1>2, <1>6

\* Numbers of which only one is not nothing.
LEMMA TotalOfOne ==
    ASSUME NEW m \in Nat, NEW q \in [1 .. m -> Int], NEW k \in 1 .. m, \A i \in 1 .. m : i # k => q[i] = 0
    PROVE  Total(q) = q[k]
<1> DEFINE p == [i \in 1 .. m |-> 0]
<1>1. /\ p \in [1 .. m -> Int] /\ \A i \in 1 .. m : p[i] = 0
      /\ \A i \in 1 .. m : i # k => q[i] = p[i]
  OBVIOUS
<1> HIDE DEF p
<1>2. Total(p) = 0
  BY <1>1, TotalOfNone
<1>3. Total(q) = Total(p) + q[k] - p[k]
  BY <1>1, TotalBut
<1> QED BY <1>1, <1>2, <1>3

\* Numbers none of which is less than nothing come to as much as any of them.
LEMMA TotalAtLeast ==
    ASSUME NEW m \in Nat, NEW q \in [1 .. m -> Int], \A i \in 1 .. m : q[i] >= 0, NEW k \in 1 .. m
    PROVE  Total(q) >= q[k]
<1> DEFINE p == [i \in 1 .. m |-> IF i = k THEN q[k] ELSE 0]
<1>1. /\ p \in [1 .. m -> Int] /\ p[k] = q[k]
      /\ \A i \in 1 .. m : i # k => p[i] = 0
      /\ \A i \in 1 .. m : p[i] <= q[i]
  OBVIOUS
<1> HIDE DEF p
<1>2. Total(p) = p[k]
  BY <1>1, TotalOfOne
<1>3. Total(p) <= Total(q)
  BY <1>1, TotalMost
<1> QED BY <1>1, <1>2, <1>3, TotalInt

-----------------------------------------------------------------------------
(* Rows that a tableau spans.                                               *)

IsTable(m, z, tab) == tab \in [1 .. m + 1 -> [1 .. z -> Int]]

\* How much of each row of the tableau there is in w, at x.
Weighed(m, w, tab, b, x) == [r \in 1 .. m |-> w[b[r]] * tab[r][x]]

\* As much of d as w is k of y, and s.
IsShare(d, w, k, y, s) == d * w = k * y + s

\* The tableau over d, with the basis b: w is so much of each row as w has at
\* its basic variable, and k of the objective.
Spanned(m, z, w, k, tab, d, b) ==
    \A x \in 1 .. z : IsShare(d, w[x], k, tab[m + 1][x], Total(Weighed(m, w, tab, b, x)))

LEMMA WeighedInt ==
    ASSUME NEW m \in Nat, NEW z \in Nat, NEW w \in [1 .. z -> Int], NEW tab, IsTable(m, z, tab),
           NEW b \in [1 .. m -> 1 .. z], NEW x \in 1 .. z
    PROVE  /\ Weighed(m, w, tab, b, x) \in [1 .. m -> Int]
           /\ Total(Weighed(m, w, tab, b, x)) \in Int
           /\ tab[m + 1][x] \in Int /\ w[x] \in Int
           /\ \A r \in 1 .. m : tab[r][x] \in Int
<1>1. \A r \in 1 .. m : r \in 1 .. m + 1
  OBVIOUS
<1>2. \A r \in 1 .. m : tab[r][x] \in Int
  BY <1>1 DEF IsTable
<1>3. \A r \in 1 .. m : w[b[r]] \in Int
  OBVIOUS
<1>4. m + 1 \in 1 .. m + 1
  OBVIOUS
<1>5. Weighed(m, w, tab, b, x) \in [1 .. m -> Int]
  BY <1>2, <1>3 DEF Weighed
<1> QED BY <1>2, <1>4, <1>5, TotalInt DEF IsTable

\* A multiple, as a relation the arithmetic does not look into.
IsTimes(v, f, u) == v = f * u

LEMMA MixTimes ==
    ASSUME NEW a \in Int, NEW c \in Int, NEW u \in Int, NEW v \in Int, NEW w \in Int, IsMix(w, a, u, c, v),
           NEW t \in Int, NEW p \in Int, NEW q \in Int, NEW s \in Int,
           IsTimes(p, u, t), IsTimes(q, v, t), IsTimes(s, w, t)
    PROVE  IsMix(s, a, p, c, q)
  BY DEF IsMix, IsTimes

LEMMA TimesMix ==
    ASSUME NEW v \in Int, NEW f \in Int, NEW u \in Int
    PROVE  IsTimes(v, f, u) <=> IsMix(v, f, u, 0, u)
  BY DEF IsMix, IsTimes

\* The types of a lemma's numbers in one fact, as in AllInt8 to AllInt11 below.
AllInt13(a, c, d, u, v, w, i, j, k, y, p, q, s) ==
    /\ a \in Int /\ c \in Int /\ d \in Int /\ u \in Int /\ v \in Int /\ w \in Int
    /\ i \in Int /\ j \in Int /\ k \in Int /\ y \in Int /\ p \in Int /\ q \in Int /\ s \in Int

LEMMA MixCombines ==
    ASSUME NEW a, NEW c, NEW d, NEW u, NEW v, NEW w, NEW i, NEW j, NEW k, NEW y, NEW p, NEW q, NEW s,
           AllInt13(a, c, d, u, v, w, i, j, k, y, p, q, s),
           IsMix(w, a, u, c, v), IsMix(k, a, i, c, j), IsMix(s, a, p, c, q),
           IsShare(d, u, i, y, p), IsShare(d, v, j, y, q)
    PROVE  IsShare(d, w, k, y, s)
<1>0. /\ a \in Int /\ c \in Int /\ d \in Int /\ u \in Int /\ v \in Int /\ w \in Int
      /\ i \in Int /\ j \in Int /\ k \in Int /\ y \in Int /\ p \in Int /\ q \in Int /\ s \in Int
  BY DEF AllInt13
<1>1. /\ d * u = i * y + p /\ d * v = j * y + q /\ s = a * p + c * q
      /\ w = a * u + c * v /\ k = a * i + c * j
  BY DEF IsMix, IsShare
<1>2. d * w = a * (d * u) + c * (d * v)
  BY <1>0, <1>1
<1>3. d * w = a * (i * y + p) + c * (j * y + q)
  BY <1>1, <1>2
<1>4. a * (i * y + p) + c * (j * y + q) = k * y + s
  BY <1>0, <1>1
<1> QED BY <1>3, <1>4 DEF IsMix, IsShare

LEMMA SpannedCombines ==
    ASSUME NEW m \in Nat, NEW z \in Nat, NEW tab, IsTable(m, z, tab), NEW d \in Int, NEW b \in [1 .. m -> 1 .. z],
           NEW u \in [1 .. z -> Int], NEW i \in Int, Spanned(m, z, u, i, tab, d, b),
           NEW v \in [1 .. z -> Int], NEW j \in Int, Spanned(m, z, v, j, tab, d, b),
           NEW a \in Int, NEW c \in Int,
           NEW w \in [1 .. z -> Int], \A x \in 1 .. z : IsMix(w[x], a, u[x], c, v[x]),
           NEW k \in Int, IsMix(k, a, i, c, j)
    PROVE  Spanned(m, z, w, k, tab, d, b)
<1>1. SUFFICES ASSUME NEW x \in 1 .. z
               PROVE  IsShare(d, w[x], k, tab[m + 1][x], Total(Weighed(m, w, tab, b, x)))
  BY DEF Spanned
<1> DEFINE U == Weighed(m, u, tab, b, x)
           V == Weighed(m, v, tab, b, x)
           W == Weighed(m, w, tab, b, x)
<1>2. /\ U \in [1 .. m -> Int] /\ V \in [1 .. m -> Int] /\ W \in [1 .. m -> Int]
      /\ Total(U) \in Int /\ Total(V) \in Int /\ Total(W) \in Int
      /\ tab[m + 1][x] \in Int /\ u[x] \in Int /\ v[x] \in Int /\ w[x] \in Int
      /\ \A r \in 1 .. m : tab[r][x] \in Int
  BY WeighedInt
<1>3. ASSUME NEW r \in 1 .. m PROVE IsMix(W[r], a, U[r], c, V[r])
  <2>1. IsTimes(U[r], u[b[r]], tab[r][x]) /\ IsTimes(V[r], v[b[r]], tab[r][x]) /\ IsTimes(W[r], w[b[r]], tab[r][x])
    BY DEF Weighed, IsTimes
  <2>2. /\ b[r] \in 1 .. z /\ u[b[r]] \in Int /\ v[b[r]] \in Int /\ w[b[r]] \in Int /\ tab[r][x] \in Int
        /\ U[r] \in Int /\ V[r] \in Int /\ W[r] \in Int
    BY <1>2
  <2>3. IsMix(w[b[r]], a, u[b[r]], c, v[b[r]])
    BY <2>2
  <2> HIDE DEF U, V, W
  <2> QED BY <2>1, <2>2, <2>3, MixTimes
<1> HIDE DEF U, V, W
<1>4. IsMix(Total(W), a, Total(U), c, Total(V))
  BY <1>2, <1>3, TotalLinear
<1>5. IsShare(d, u[x], i, tab[m + 1][x], Total(U)) /\ IsShare(d, v[x], j, tab[m + 1][x], Total(V))
  BY DEF U, V, Spanned
<1>6. IsMix(w[x], a, u[x], c, v[x])
  OBVIOUS
<1>7. AllInt13(a, c, d, u[x], v[x], w[x], i, j, k, tab[m + 1][x], Total(U), Total(V), Total(W))
  BY <1>2 DEF AllInt13
<1>8. IsShare(d, w[x], k, tab[m + 1][x], Total(W))
  BY <1>4, <1>5, <1>6, <1>7, MixCombines
<1> QED BY <1>8 DEF W

LEMMA TimesCancel ==
    ASSUME NEW f \in Nat \ {0}, NEW s \in Int, NEW t \in Int, f * s = f * t
    PROVE  s = t
  OBVIOUS

AllInt9(f, d, u, v, i, j, y, p, q) ==
    /\ f \in Nat \ {0} /\ d \in Int /\ u \in Int /\ v \in Int
    /\ i \in Int /\ j \in Int /\ y \in Int /\ p \in Int /\ q \in Int

LEMMA MixCancels ==
    ASSUME NEW f, NEW d, NEW u, NEW v, NEW i, NEW j, NEW y, NEW p, NEW q,
           AllInt9(f, d, u, v, i, j, y, p, q),
           IsTimes(v, f, u), IsTimes(j, f, i), IsTimes(q, f, p), IsShare(d, v, j, y, q)
    PROVE  IsShare(d, u, i, y, p)
<1>0. /\ f \in Nat \ {0} /\ d \in Int /\ u \in Int /\ v \in Int
      /\ i \in Int /\ j \in Int /\ y \in Int /\ p \in Int /\ q \in Int
  BY DEF AllInt9
<1>1. d * v = j * y + q /\ v = f * u /\ j = f * i /\ q = f * p
  BY DEF IsTimes, IsShare
<1>2. d * v = f * (d * u) /\ j * y = f * (i * y)
  BY <1>0, <1>1
<1>3. f * (d * u) = f * (i * y + p)
  BY <1>0, <1>1, <1>2
<1>5. d * u \in Int /\ i * y + p \in Int
  BY <1>0
<1>6. d * u = i * y + p
  BY <1>0, <1>3, <1>5, TimesCancel
<1> QED BY <1>6 DEF IsShare

LEMMA SpannedDivided ==
    ASSUME NEW m \in Nat, NEW z \in Nat, NEW tab, IsTable(m, z, tab), NEW d \in Int, NEW b \in [1 .. m -> 1 .. z],
           NEW v \in [1 .. z -> Int], NEW j \in Int, Spanned(m, z, v, j, tab, d, b),
           NEW f \in Nat \ {0}, NEW u \in [1 .. z -> Int], \A x \in 1 .. z : IsTimes(v[x], f, u[x]),
           NEW i \in Int, IsTimes(j, f, i)
    PROVE  Spanned(m, z, u, i, tab, d, b)
<1>1. SUFFICES ASSUME NEW x \in 1 .. z
               PROVE  IsShare(d, u[x], i, tab[m + 1][x], Total(Weighed(m, u, tab, b, x)))
  BY DEF Spanned
<1> DEFINE U == Weighed(m, u, tab, b, x)
           V == Weighed(m, v, tab, b, x)
<1>2. /\ U \in [1 .. m -> Int] /\ V \in [1 .. m -> Int]
      /\ Total(U) \in Int /\ Total(V) \in Int
      /\ tab[m + 1][x] \in Int /\ u[x] \in Int /\ v[x] \in Int
      /\ \A r \in 1 .. m : tab[r][x] \in Int
  BY WeighedInt
<1>3. ASSUME NEW r \in 1 .. m PROVE IsMix(V[r], f, U[r], 0, U[r])
  <2>1. IsTimes(U[r], u[b[r]], tab[r][x]) /\ IsTimes(V[r], v[b[r]], tab[r][x])
    BY DEF Weighed, IsTimes
  <2>2. /\ b[r] \in 1 .. z /\ u[b[r]] \in Int /\ v[b[r]] \in Int /\ tab[r][x] \in Int
        /\ U[r] \in Int /\ V[r] \in Int
    BY <1>2
  <2>3. IsMix(v[b[r]], f, u[b[r]], 0, u[b[r]])
    BY <2>2, TimesMix
  <2> HIDE DEF U, V
  <2>4. f \in Int /\ 0 \in Int
    OBVIOUS
  <2> QED BY <2>1, <2>2, <2>3, <2>4, MixTimes
<1> HIDE DEF U, V
<1>4. IsMix(Total(V), f, Total(U), 0, Total(U))
  <2>1. f \in Int /\ 0 \in Int
    OBVIOUS
  <2> QED BY <1>2, <1>3, <2>1, TotalLinear
<1>5. IsTimes(Total(V), f, Total(U))
  BY <1>2, <1>4, TimesMix
<1>6. IsShare(d, v[x], j, tab[m + 1][x], Total(V))
  BY DEF V, Spanned
<1>7. IsTimes(v[x], f, u[x])
  OBVIOUS
<1>8. AllInt9(f, d, u[x], v[x], i, j, tab[m + 1][x], Total(U), Total(V))
  BY <1>2 DEF AllInt9
<1>9. IsShare(d, u[x], i, tab[m + 1][x], Total(U))
  BY <1>5, <1>6, <1>7, <1>8, MixCancels
<1> QED BY <1>9 DEF U

-----------------------------------------------------------------------------
(* What a pivot does to them.                                               *)

\* raw: the pivot's row times d, and its multiple taken off every other.
IsEliminated(m, z, raw, tab, d, r, c) ==
    /\ \A x \in 1 .. z : IsTimes(raw[r][x], d, tab[r][x])
    /\ \A q \in 1 .. m + 1 : q # r =>
          \A x \in 1 .. z : IsMix(raw[q][x], tab[r][c], tab[q][x], -tab[q][c], tab[r][x])

AllInt8(d, e, p, w, k, y, t, s) ==
    /\ d \in Int /\ e \in Int /\ p \in Int /\ w \in Int /\ k \in Int /\ y \in Int /\ t \in Int /\ s \in Int

\* The sum S over the old rows becomes that over the new.
LEMMA ShareMoves ==
    ASSUME NEW d, NEW p, NEW w, NEW k, NEW y, NEW t, NEW s,        \* at x: w, the objective, row r, the sum
           NEW v, NEW h, NEW f,                                    \* at c: w, the objective, the sum
           NEW e, NEW j, NEW i, NEW l,                             \* new: denominator, objective, sum but for row r, sum
           NEW u, NEW o, NEW n, NEW g, o = d * t, n = -h, g = -f,  \* new: the term of row r
           AllInt8(d, e, p, w, k, y, t, s), AllInt8(v, h, f, j, i, l, u, u),
           IsShare(d, w, k, y, s), IsShare(d, v, k, h, f),
           IsTimes(e, d, p), IsMix(j, p, y, n, t), IsMix(i, p, s, g, t),
           l = i + u, IsTimes(u, v, o)
    PROVE  IsShare(e, w, k, j, l)
<1>0. /\ d \in Int /\ e \in Int /\ p \in Int /\ w \in Int /\ k \in Int /\ y \in Int /\ t \in Int /\ s \in Int
      /\ v \in Int /\ h \in Int /\ f \in Int /\ j \in Int /\ i \in Int /\ l \in Int /\ u \in Int
  BY DEF AllInt8
<1>1. /\ d * w = k * y + s /\ d * v = k * h + f
      /\ e = d * p /\ j = p * y + (-h) * t /\ i = p * s + (-f) * t /\ u = v * (d * t)
  BY DEF IsShare, IsTimes, IsMix
<1>2. u = (d * v) * t
  BY <1>0, <1>1
<1>3. u = (k * h + f) * t
  BY <1>1, <1>2
<1>4. e * w = p * (d * w)
  BY <1>0, <1>1
<1>5. e * w = p * (k * y + s)
  BY <1>1, <1>4
<1>6. k * j + l = k * (p * y + (-h) * t) + (p * s + (-f) * t) + (k * h + f) * t
  BY <1>0, <1>1, <1>3
<1>7. p * (k * y + s) = k * (p * y + (-h) * t) + (p * s + (-f) * t) + (k * h + f) * t
  BY <1>0
<1> QED BY <1>5, <1>6, <1>7 DEF IsShare

LEMMA SpannedEliminated ==
    ASSUME NEW m \in Nat, NEW z \in Nat, NEW tab, IsTable(m, z, tab), NEW d \in Int, NEW b \in [1 .. m -> 1 .. z],
           NEW w \in [1 .. z -> Int], NEW k \in Int, Spanned(m, z, w, k, tab, d, b),
           NEW r \in 1 .. m, NEW c \in 1 .. z,
           NEW raw, IsTable(m, z, raw), IsEliminated(m, z, raw, tab, d, r, c),
           NEW e \in Int, IsTimes(e, d, tab[r][c])
    PROVE  Spanned(m, z, w, k, raw, e, [b EXCEPT ![r] = c])
<1> PICK B : B = [b EXCEPT ![r] = c]
  OBVIOUS
<1>0. B \in [1 .. m -> 1 .. z] /\ B[r] = c /\ \A q \in 1 .. m : q # r => B[q] = b[q]
  OBVIOUS
<1>1. SUFFICES ASSUME NEW x \in 1 .. z
               PROVE  IsShare(e, w[x], k, raw[m + 1][x], Total(Weighed(m, w, raw, B, x)))
  BY DEF Spanned
<1> DEFINE S == Weighed(m, w, tab, b, x)
           F == Weighed(m, w, tab, b, c)
           L == Weighed(m, w, raw, B, x)
           I == [q \in 1 .. m |-> tab[r][c] * S[q] + (-tab[r][x]) * F[q]]
<1>2. /\ S \in [1 .. m -> Int] /\ Total(S) \in Int /\ tab[m + 1][x] \in Int /\ w[x] \in Int
      /\ \A q \in 1 .. m : tab[q][x] \in Int
  BY WeighedInt
<1>3. /\ F \in [1 .. m -> Int] /\ Total(F) \in Int /\ tab[m + 1][c] \in Int /\ w[c] \in Int
      /\ \A q \in 1 .. m : tab[q][c] \in Int
  BY WeighedInt
<1>4. /\ L \in [1 .. m -> Int] /\ Total(L) \in Int /\ raw[m + 1][x] \in Int
      /\ \A q \in 1 .. m : raw[q][x] \in Int
  BY <1>0, WeighedInt
<1>5. PICK p \in Int : p = tab[r][c]
  BY <1>3
<1>6. PICK t \in Int : t = tab[r][x]
  BY <1>2
<1>7. I \in [1 .. m -> Int] /\ \A q \in 1 .. m : IsMix(I[q], p, S[q], -t, F[q])
  <2>1. ASSUME NEW q \in 1 .. m PROVE I[q] \in Int /\ IsMix(I[q], p, S[q], -t, F[q])
    <3>1. I[q] = p * S[q] + (-t) * F[q] /\ S[q] \in Int /\ F[q] \in Int
      BY <1>2, <1>3, <1>5, <1>6
    <3> HIDE DEF I, S, F
    <3>2. PICK s \in Int : s = S[q]
      BY <3>1
    <3>3. PICK f \in Int : f = F[q]
      BY <3>1
    <3>4. I[q] = p * s + (-t) * f
      BY <3>1, <3>2, <3>3
    <3>5. p * s + (-t) * f \in Int
      OBVIOUS
    <3>6. I[q] \in Int
      BY <3>4, <3>5
    <3>7. IsMix(I[q], p, s, -t, f)
      BY <3>4 DEF IsMix
    <3> QED BY <3>2, <3>3, <3>6, <3>7
  <2>2. I = [q \in 1 .. m |-> I[q]]
    OBVIOUS
  <2> HIDE DEF I
  <2> QED BY <2>1, <2>2
<1> HIDE DEF I
<1>8. IsMix(Total(I), p, Total(S), -t, Total(F)) /\ Total(I) \in Int
  <2>1. PICK n \in Int : n = -t
    OBVIOUS
  <2>2. \A q \in 1 .. m : IsMix(I[q], p, S[q], n, F[q])
    BY <1>7, <2>1
  <2> HIDE DEF S, F
  <2>3. IsMix(Total(I), p, Total(S), n, Total(F))
    BY <1>2, <1>3, <1>7, <2>2, TotalLinear
  <2> QED BY <1>7, <2>1, <2>3, TotalInt
<1>9. I[r] = 0
  <2>1. S[r] = w[b[r]] * t /\ F[r] = w[b[r]] * p /\ w[b[r]] \in Int
    BY <1>5, <1>6 DEF Weighed
  <2>2. I[r] = p * (w[b[r]] * t) + (-t) * (w[b[r]] * p)
    BY <1>7, <2>1 DEF IsMix
  <2>3. \A h \in Int : p * (h * t) + (-t) * (h * p) = 0
    OBVIOUS
  <2> QED BY <2>1, <2>2, <2>3
<1>10. ASSUME NEW q \in 1 .. m, q # r PROVE I[q] = L[q]
  <2>1. PICK h \in Int : h = w[b[q]]
    OBVIOUS
  <2>2. PICK f \in Int : f = tab[q][x]
    BY <1>2
  <2>3. PICK g \in Int : g = tab[q][c]
    BY <1>3
  <2>4. IsMix(raw[q][x], p, f, -g, t)
    BY <1>5, <1>6, <1>10, <2>2, <2>3 DEF IsEliminated
  <2>5. L[q] = h * raw[q][x] /\ S[q] = h * f /\ F[q] = h * g
    BY <1>0, <1>10, <2>1, <2>2, <2>3 DEF Weighed
  <2>6. I[q] = p * (h * f) + (-t) * (h * g)
    BY <1>7, <2>5 DEF IsMix
  <2>7. L[q] = h * (p * f + (-g) * t)
    BY <2>4, <2>5 DEF IsMix
  <2>8. p * (h * f) + (-t) * (h * g) = h * (p * f + (-g) * t)
    OBVIOUS
  <2> QED BY <2>6, <2>7, <2>8
<1>11. L[r] \in Int /\ IsTimes(L[r], w[c], d * t)
  <2>1. raw[r][x] = d * t
    BY <1>6 DEF IsEliminated, IsTimes
  <2> QED BY <1>0, <1>4, <2>1 DEF Weighed, IsTimes
<1>12. IsShare(d, w[x], k, tab[m + 1][x], Total(S)) /\ IsShare(d, w[c], k, tab[m + 1][c], Total(F))
  BY DEF Spanned
<1> HIDE DEF S, F, L
<1>13. Total(L) = Total(I) + L[r]
  <2>1. Total(L) = Total(I) + L[r] - I[r]
    BY <1>4, <1>7, <1>10, TotalBut
  <2> QED BY <1>8, <1>9, <1>11, <2>1
<1>14. IsMix(raw[m + 1][x], p, tab[m + 1][x], -tab[m + 1][c], t)
  <2>1. m + 1 \in 1 .. m + 1 /\ m + 1 # r
    OBVIOUS
  <2> QED BY <1>5, <1>6, <2>1 DEF IsEliminated
<1>15. IsMix(Total(I), p, Total(S), -Total(F), t)
  BY <1>2, <1>3, <1>8 DEF IsMix
<1>16. PICK o \in Int : o = d * t
  OBVIOUS
<1>17. PICK W \in Int : W = w[x]
  BY <1>2
<1>18. PICK y \in Int : y = tab[m + 1][x]
  BY <1>2
<1>19. PICK s \in Int : s = Total(S)
  BY <1>2
<1>20. PICK v \in Int : v = w[c]
  BY <1>3
<1>21. PICK h \in Int : h = tab[m + 1][c]
  BY <1>3
<1>22. PICK f \in Int : f = Total(F)
  BY <1>3
<1>23. PICK n \in Int : n = -h
  BY <1>21
<1>24. PICK g \in Int : g = -f
  BY <1>22
<1>25. PICK j \in Int : j = raw[m + 1][x]
  BY <1>4
<1>26. PICK i \in Int : i = Total(I)
  BY <1>8
<1>27. PICK l \in Int : l = Total(L)
  BY <1>4
<1>28. PICK u \in Int : u = L[r]
  BY <1>11
<1>29. AllInt8(d, e, p, W, k, y, t, s) /\ AllInt8(v, h, f, j, i, l, u, u)
  BY DEF AllInt8
<1>30. IsShare(d, W, k, y, s) /\ IsShare(d, v, k, h, f)
  BY <1>12, <1>17, <1>18, <1>19, <1>20, <1>21, <1>22
<1>31. IsTimes(e, d, p) /\ IsMix(j, p, y, n, t) /\ IsMix(i, p, s, g, t)
  BY <1>5, <1>14, <1>15, <1>18, <1>19, <1>21, <1>22, <1>23, <1>24, <1>25, <1>26
<1>32. l = i + u /\ IsTimes(u, v, o)
  BY <1>11, <1>13, <1>16, <1>20, <1>26, <1>27, <1>28
<1>33. IsShare(e, W, k, j, l)
  BY <1>16, <1>23, <1>24, <1>29, <1>30, <1>31, <1>32, ShareMoves
<1>34. IsShare(e, w[x], k, raw[m + 1][x], Total(L))
  BY <1>17, <1>25, <1>27, <1>33
<1> QED BY <1>34 DEF L

-----------------------------------------------------------------------------
\* tab over d is raw over e, divided by f.
IsLowered(m, z, tab, d, raw, e, f) ==
    /\ f \in Nat \ {0} /\ d \in Nat \ {0} /\ IsTimes(e, f, d)
    /\ \A q \in 1 .. m + 1 : \A x \in 1 .. z : IsTimes(raw[q][x], f, tab[q][x])

AllInt10(e, f, d, w, k, y, p, q, s, t) ==
    /\ e \in Int /\ f \in Nat \ {0} /\ d \in Int /\ w \in Int /\ k \in Int /\ y \in Int
    /\ p \in Int /\ q \in Int /\ s \in Int /\ t \in Int

LEMMA ShareLowers ==
    ASSUME NEW e, NEW f, NEW d, NEW w, NEW k, NEW y, NEW p, NEW q, NEW s,
           AllInt10(e, f, d, w, k, y, p, q, s, s), IsTimes(e, f, d), IsTimes(y, f, p), IsTimes(q, f, s),
           IsShare(e, w, k, y, q)
    PROVE  IsShare(d, w, k, p, s)
<1>0. /\ e \in Int /\ f \in Nat \ {0} /\ d \in Int /\ w \in Int /\ k \in Int /\ y \in Int
      /\ p \in Int /\ q \in Int /\ s \in Int
  BY DEF AllInt10
<1>1. e * w = k * y + q /\ e = f * d /\ y = f * p /\ q = f * s
  BY DEF IsTimes, IsShare
<1>2. e * w = f * (d * w) /\ k * y = f * (k * p)
  BY <1>0, <1>1
<1>3. f * (d * w) = f * (k * p + s)
  BY <1>0, <1>1, <1>2
<1>4. d * w \in Int /\ k * p + s \in Int
  BY <1>0
<1>5. d * w = k * p + s
  BY <1>0, <1>3, <1>4, TimesCancel
<1> QED BY <1>5 DEF IsShare

LEMMA SpannedLowered ==
    ASSUME NEW m \in Nat, NEW z \in Nat, NEW raw, IsTable(m, z, raw), NEW e \in Int, NEW b \in [1 .. m -> 1 .. z],
           NEW w \in [1 .. z -> Int], NEW k \in Int, Spanned(m, z, w, k, raw, e, b),
           NEW tab, IsTable(m, z, tab), NEW d, NEW f, IsLowered(m, z, tab, d, raw, e, f)
    PROVE  Spanned(m, z, w, k, tab, d, b)
<1>1. SUFFICES ASSUME NEW x \in 1 .. z
               PROVE  IsShare(d, w[x], k, tab[m + 1][x], Total(Weighed(m, w, tab, b, x)))
  BY DEF Spanned
<1> DEFINE R == Weighed(m, w, raw, b, x)
           N == Weighed(m, w, tab, b, x)
<1>2. /\ R \in [1 .. m -> Int] /\ Total(R) \in Int /\ raw[m + 1][x] \in Int /\ w[x] \in Int
      /\ \A q \in 1 .. m : raw[q][x] \in Int
  BY WeighedInt
<1>3. /\ N \in [1 .. m -> Int] /\ Total(N) \in Int /\ tab[m + 1][x] \in Int
      /\ \A q \in 1 .. m : tab[q][x] \in Int
  BY WeighedInt
<1>4. f \in Nat \ {0} /\ d \in Nat \ {0} /\ IsTimes(e, f, d) /\ f \in Int /\ d \in Int /\ 0 \in Int
  BY DEF IsLowered
<1>5. ASSUME NEW q \in 1 .. m PROVE IsMix(R[q], f, N[q], 0, N[q])
  <2>1. IsTimes(R[q], raw[q][x], w[b[q]]) /\ IsTimes(N[q], tab[q][x], w[b[q]])
    <3>1. R[q] = w[b[q]] * raw[q][x] /\ N[q] = w[b[q]] * tab[q][x] /\ w[b[q]] \in Int
      BY DEF Weighed
    <3> HIDE DEF R, N
    <3>2. raw[q][x] \in Int /\ tab[q][x] \in Int
      BY <1>2, <1>3
    <3>3. \A s, t \in Int : s * t = t * s
      OBVIOUS
    <3> QED BY <3>1, <3>2, <3>3 DEF IsTimes
  <2>2. q \in 1 .. m + 1
    OBVIOUS
  <2>3. /\ raw[q][x] \in Int /\ tab[q][x] \in Int /\ w[b[q]] \in Int /\ R[q] \in Int /\ N[q] \in Int
        /\ IsTimes(raw[q][x], f, tab[q][x])
    BY <1>2, <1>3, <2>2 DEF IsLowered
  <2> HIDE DEF R, N
  <2>4. IsMix(raw[q][x], f, tab[q][x], 0, tab[q][x])
    BY <1>4, <2>3, TimesMix
  <2> QED BY <1>4, <2>1, <2>3, <2>4, MixTimes
<1>6. IsShare(e, w[x], k, raw[m + 1][x], Total(R))
  BY DEF Spanned
<1> HIDE DEF R, N
<1>7. IsMix(Total(R), f, Total(N), 0, Total(N))
  BY <1>2, <1>3, <1>4, <1>5, TotalLinear
<1>8. IsTimes(Total(R), f, Total(N))
  BY <1>2, <1>3, <1>4, <1>7, TimesMix
<1>9. IsTimes(raw[m + 1][x], f, tab[m + 1][x])
  <2>1. m + 1 \in 1 .. m + 1
    OBVIOUS
  <2> QED BY <2>1 DEF IsLowered
<1>10. AllInt10(e, f, d, w[x], k, raw[m + 1][x], tab[m + 1][x], Total(R), Total(N), Total(N))
  BY <1>2, <1>3, <1>4 DEF AllInt10
<1>11. IsShare(d, w[x], k, tab[m + 1][x], Total(N))
  BY <1>4, <1>6, <1>8, <1>9, <1>10, ShareLowers
<1> QED BY <1>11 DEF N

\* A tableau over d is one of its basis: there each of its rows is d at its
\* own variable and nothing at the others.
Canonical(m, z, tab, d, b) ==
    /\ IsTable(m, z, tab) /\ d \in Nat \ {0} /\ b \in [1 .. m -> 1 .. z]
    /\ \A q \in 1 .. m + 1 : \A r \in 1 .. m : tab[q][b[r]] = IF q = r THEN d ELSE 0

\* Every row of the table t over e is spanned.
Spans(m, z, tab, d, b, t, e) ==
    \A q \in 1 .. m + 1 : Spanned(m, z, t[q], IF q = m + 1 THEN e ELSE 0, tab, d, b)

LEMMA SpansItself ==
    ASSUME NEW m \in Nat, NEW z \in Nat, NEW tab, NEW d, NEW b, Canonical(m, z, tab, d, b)
    PROVE  Spans(m, z, tab, d, b, tab, d)
<1>0. IsTable(m, z, tab) /\ d \in Nat \ {0} /\ d \in Int /\ b \in [1 .. m -> 1 .. z]
  BY DEF Canonical
<1>1. SUFFICES ASSUME NEW q \in 1 .. m + 1, NEW x \in 1 .. z
               PROVE  IsShare(d, tab[q][x], IF q = m + 1 THEN d ELSE 0, tab[m + 1][x],
                              Total(Weighed(m, tab[q], tab, b, x)))
  BY DEF Spans, Spanned
<1> DEFINE W == Weighed(m, tab[q], tab, b, x)
<1>2. tab[q] \in [1 .. z -> Int]
  BY <1>0 DEF IsTable
<1>3. /\ W \in [1 .. m -> Int] /\ Total(W) \in Int /\ tab[m + 1][x] \in Int /\ tab[q][x] \in Int
      /\ \A r \in 1 .. m : tab[r][x] \in Int
  BY <1>0, <1>2, WeighedInt
<1>4. ASSUME NEW r \in 1 .. m PROVE W[r] = IF q = r THEN d * tab[q][x] ELSE 0
  <2>1. W[r] = (IF q = r THEN d ELSE 0) * tab[r][x]
    BY DEF Weighed, Canonical
  <2>2. tab[r][x] \in Int
    BY <1>3
  <2> HIDE DEF W
  <2>3. \A i \in Int : 0 * i = 0
    OBVIOUS
  <2>4. CASE q = r
    BY <2>1, <2>4
  <2>5. CASE q # r
    BY <2>1, <2>2, <2>3, <2>5
  <2> QED BY <2>4, <2>5
<1> HIDE DEF W
<1>5. CASE q = m + 1
  <2>1. \A r \in 1 .. m : W[r] = 0
    BY <1>4, <1>5
  <2>2. Total(W) = 0
    BY <1>3, <2>1, TotalOfNone
  <2>3. d * tab[m + 1][x] = d * tab[m + 1][x] + 0
    <3>1. \A i, j \in Int : i * j = i * j + 0
      OBVIOUS
    <3> QED BY <1>0, <1>3, <3>1
  <2>4. IsShare(d, tab[q][x], d, tab[m + 1][x], Total(W))
    BY <1>5, <2>2, <2>3 DEF IsShare
  <2> QED BY <1>5, <2>4 DEF W
<1>6. CASE q # m + 1
  <2>0. q \in 1 .. m
    BY <1>6
  <2>1. W[q] = d * tab[q][x] /\ \A r \in 1 .. m : r # q => W[r] = 0
    BY <1>4, <2>0
  <2>2. Total(W) = d * tab[q][x]
    BY <1>3, <2>0, <2>1, TotalOfOne
  <2>3. d * tab[q][x] = 0 * tab[m + 1][x] + d * tab[q][x]
    <3>1. \A i, j, k \in Int : i * j = 0 * k + i * j
      OBVIOUS
    <3> QED BY <1>0, <1>3, <3>1
  <2>4. IsShare(d, tab[q][x], 0, tab[m + 1][x], Total(W))
    BY <2>2, <2>3 DEF IsShare
  <2> QED BY <1>6, <2>4 DEF W
<1> QED BY <1>5, <1>6

\* A pivot, from one tableau to the next, at row r and column c.
Moves(m, z, tab, d, b, r, c, raw, e, f, tab2, d2, b2) ==
    /\ r \in 1 .. m /\ c \in 1 .. z /\ tab[r][c] > 0
    /\ IsTable(m, z, raw) /\ IsEliminated(m, z, raw, tab, d, r, c)
    /\ e \in Int /\ IsTimes(e, d, tab[r][c])
    /\ IsTable(m, z, tab2) /\ IsLowered(m, z, tab2, d2, raw, e, f)
    /\ b2 = [b EXCEPT ![r] = c]

LEMMA SpansOn ==
    ASSUME NEW m \in Nat, NEW z \in Nat, NEW tab, NEW d, NEW b, Canonical(m, z, tab, d, b),
           NEW t, IsTable(m, z, t), NEW e \in Int, Spans(m, z, tab, d, b, t, e),
           NEW r, NEW c, NEW raw, NEW h, NEW f, NEW tab2, NEW d2, NEW b2,
           Moves(m, z, tab, d, b, r, c, raw, h, f, tab2, d2, b2)
    PROVE  Spans(m, z, tab2, d2, b2, t, e)
<1>0. IsTable(m, z, tab) /\ d \in Nat \ {0} /\ d \in Int /\ b \in [1 .. m -> 1 .. z]
  BY DEF Canonical
<1>1. /\ r \in 1 .. m /\ c \in 1 .. z
      /\ IsTable(m, z, raw) /\ IsEliminated(m, z, raw, tab, d, r, c)
      /\ h \in Int /\ IsTimes(h, d, tab[r][c])
      /\ IsTable(m, z, tab2) /\ IsLowered(m, z, tab2, d2, raw, h, f)
      /\ b2 = [b EXCEPT ![r] = c]
  BY DEF Moves
<1>2. b2 \in [1 .. m -> 1 .. z]
  BY <1>0, <1>1
<1>3. SUFFICES ASSUME NEW q \in 1 .. m + 1
               PROVE  Spanned(m, z, t[q], IF q = m + 1 THEN e ELSE 0, tab2, d2, b2)
  BY DEF Spans
<1>4. t[q] \in [1 .. z -> Int]
  BY DEF IsTable
<1>5. PICK k \in Int : k = IF q = m + 1 THEN e ELSE 0
  OBVIOUS
<1>6. Spanned(m, z, t[q], k, tab, d, b)
  BY <1>5 DEF Spans
<1>7. Spanned(m, z, t[q], k, raw, h, b2)
  BY <1>0, <1>1, <1>4, <1>6, SpannedEliminated
<1>8. Spanned(m, z, t[q], k, tab2, d2, b2)
  BY <1>1, <1>2, <1>4, <1>7, SpannedLowered
<1> QED BY <1>5, <1>8

-----------------------------------------------------------------------------
LEMMA SpansMoved ==
    ASSUME NEW m \in Nat, NEW z \in Nat, NEW tab, IsTable(m, z, tab), NEW d \in Int, NEW b \in [1 .. m -> 1 .. z],
           NEW t, NEW g, NEW o, Canonical(m, z, t, g, o), Spans(m, z, tab, d, b, t, g),
           NEW r, NEW c, NEW raw, NEW e, NEW f, NEW t2, NEW g2, NEW o2,
           Moves(m, z, t, g, o, r, c, raw, e, f, t2, g2, o2)
    PROVE  Spans(m, z, tab, d, b, t2, g2)
<1>0. IsTable(m, z, t) /\ g \in Nat \ {0} /\ g \in Int /\ o \in [1 .. m -> 1 .. z] /\ 0 \in Int
  BY DEF Canonical
<1>1. /\ r \in 1 .. m /\ c \in 1 .. z
      /\ IsTable(m, z, raw) /\ IsEliminated(m, z, raw, t, g, r, c)
      /\ e \in Int /\ IsTimes(e, g, t[r][c])
      /\ IsTable(m, z, t2) /\ IsLowered(m, z, t2, g2, raw, e, f)
  BY DEF Moves
<1>2. f \in Nat \ {0} /\ f \in Int /\ g2 \in Nat \ {0} /\ g2 \in Int /\ IsTimes(e, f, g2)
  BY <1>1 DEF IsLowered
<1>3. ASSUME NEW q \in 1 .. m + 1 PROVE t[q] \in [1 .. z -> Int] /\ raw[q] \in [1 .. z -> Int] /\ t2[q] \in [1 .. z -> Int]
  BY <1>0, <1>1 DEF IsTable
<1>4. r \in 1 .. m + 1 /\ r # m + 1
  BY <1>1
<1>5. Spanned(m, z, t[r], 0, tab, d, b) /\ t[r] \in [1 .. z -> Int]
  BY <1>3, <1>4 DEF Spans
<1>6. SUFFICES ASSUME NEW q \in 1 .. m + 1
               PROVE  Spanned(m, z, t2[q], IF q = m + 1 THEN g2 ELSE 0, tab, d, b)
  BY DEF Spans
<1>7. t[q] \in [1 .. z -> Int] /\ raw[q] \in [1 .. z -> Int] /\ t2[q] \in [1 .. z -> Int]
  BY <1>3
<1>8. PICK k \in Int : k = IF q = m + 1 THEN e ELSE 0
  BY <1>1
<1>9. PICK i \in Int : i = IF q = m + 1 THEN g2 ELSE 0
  BY <1>2
<1>10. IsTimes(k, f, i)
  <2>1. CASE q = m + 1
    BY <1>2, <1>8, <1>9, <2>1
  <2>2. CASE q # m + 1
    <3>1. f * 0 = 0
      BY <1>2
    <3> QED BY <1>8, <1>9, <2>2, <3>1 DEF IsTimes
  <2> QED BY <2>1, <2>2
<1>11. \A x \in 1 .. z : IsTimes(raw[q][x], f, t2[q][x])
  BY <1>1 DEF IsLowered
<1>12. Spanned(m, z, raw[q], k, tab, d, b)
  <2>1. CASE q = r
    <3>1. \A x \in 1 .. z : IsMix(raw[q][x], g, t[r][x], 0, t[r][x])
      <4>1. SUFFICES ASSUME NEW x \in 1 .. z PROVE IsMix(raw[q][x], g, t[r][x], 0, t[r][x])
        OBVIOUS
      <4>2. IsTimes(raw[q][x], g, t[r][x]) /\ raw[q][x] \in Int /\ t[r][x] \in Int
        BY <1>1, <1>5, <1>7, <2>1 DEF IsEliminated
      <4> QED BY <1>0, <4>2, TimesMix
    <3>2. IsMix(k, g, 0, 0, 0)
      <4>1. k = 0 /\ g * 0 + 0 * 0 = 0
        BY <1>0, <1>4, <1>8, <2>1
      <4> QED BY <4>1 DEF IsMix
    <3> QED BY <1>0, <1>5, <1>7, <3>1, <3>2, SpannedCombines
  <2>2. CASE q # r
    <3>1. PICK p \in Int : p = t[r][c]
      BY <1>1, <1>5
    <3>0. t[q][c] \in Int
      BY <1>1, <1>7
    <3>2. PICK n \in Int : n = -t[q][c]
      BY <3>0
    <3>3. \A x \in 1 .. z : IsMix(raw[q][x], p, t[q][x], n, t[r][x])
      BY <1>1, <2>2, <3>1, <3>2 DEF IsEliminated
    <3>4. PICK j \in Int : j = IF q = m + 1 THEN g ELSE 0
      BY <1>0
    <3>5. Spanned(m, z, t[q], j, tab, d, b)
      BY <3>4 DEF Spans
    <3>6. IsMix(k, p, j, n, 0)
      <4>1. CASE q = m + 1
        <5>1. k = g * p /\ j = g
          BY <1>1, <1>8, <3>1, <3>4, <4>1 DEF IsTimes
        <5>2. \A s \in Int : s * p = p * s + n * 0
          OBVIOUS
        <5> QED BY <1>0, <5>1, <5>2 DEF IsMix
      <4>2. CASE q # m + 1
        <5>1. p * 0 + n * 0 = 0
          OBVIOUS
        <5> QED BY <1>8, <3>4, <4>2, <5>1 DEF IsMix
      <4> QED BY <4>1, <4>2
    <3> QED BY <1>0, <1>5, <1>7, <3>3, <3>5, <3>6, SpannedCombines
  <2> QED BY <2>1, <2>2
<1>13. Spanned(m, z, t2[q], i, tab, d, b)
  BY <1>2, <1>7, <1>10, <1>11, <1>12, SpannedDivided
<1> QED BY <1>9, <1>13

LEMMA CanonicalOn ==
    ASSUME NEW m \in Nat, NEW z \in Nat, NEW tab, NEW d, NEW b, Canonical(m, z, tab, d, b),
           NEW r, NEW c, NEW raw, NEW e, NEW f, NEW tab2, NEW d2, NEW b2,
           Moves(m, z, tab, d, b, r, c, raw, e, f, tab2, d2, b2)
    PROVE  Canonical(m, z, tab2, d2, b2)
<1>0. /\ IsTable(m, z, tab) /\ d \in Nat \ {0} /\ d \in Int /\ b \in [1 .. m -> 1 .. z]
      /\ \A q \in 1 .. m + 1 : \A i \in 1 .. m : tab[q][b[i]] = IF q = i THEN d ELSE 0
  BY DEF Canonical
<1>1. /\ r \in 1 .. m /\ c \in 1 .. z
      /\ IsTable(m, z, raw) /\ IsEliminated(m, z, raw, tab, d, r, c)
      /\ e \in Int /\ IsTimes(e, d, tab[r][c])
      /\ IsTable(m, z, tab2) /\ IsLowered(m, z, tab2, d2, raw, e, f)
      /\ b2 = [b EXCEPT ![r] = c]
  BY DEF Moves
<1>2. /\ f \in Nat \ {0} /\ d2 \in Nat \ {0} /\ IsTimes(e, f, d2) /\ f \in Int /\ d2 \in Int
      /\ \A q \in 1 .. m + 1 : \A x \in 1 .. z : IsTimes(raw[q][x], f, tab2[q][x])
  BY <1>1 DEF IsLowered
<1>3. /\ b2 \in [1 .. m -> 1 .. z] /\ b2[r] = c /\ \A i \in 1 .. m : i # r => b2[i] = b[i]
  BY <1>0, <1>1
<1>4. r \in 1 .. m + 1
  BY <1>1
<1>5. ASSUME NEW q \in 1 .. m + 1, NEW i \in 1 .. m
      PROVE  raw[q][b2[i]] = IF q = i THEN e ELSE 0
  <2>0. PICK y \in 1 .. z : y = b2[i]
    BY <1>3
  <2>1. tab[r][y] \in Int /\ tab[q][y] \in Int /\ tab[r][c] \in Int /\ tab[q][c] \in Int
    <3>1. tab[r] \in [1 .. z -> Int] /\ tab[q] \in [1 .. z -> Int]
      BY <1>0, <1>4 DEF IsTable
    <3> QED BY <1>1, <3>1
  <2>2. CASE q = r
    <3>1. raw[q][y] = d * tab[r][y]
      BY <1>1, <2>2 DEF IsEliminated, IsTimes
    <3>2. CASE i = r
      BY <1>1, <1>3, <2>0, <2>2, <3>1, <3>2 DEF IsTimes
    <3>3. CASE i # r
      <4>1. tab[r][y] = 0
        BY <1>0, <1>3, <1>4, <2>0, <3>3
      <4>2. d * 0 = 0
        BY <1>0
      <4> QED BY <2>0, <2>2, <3>1, <3>3, <4>1, <4>2
    <3> QED BY <3>2, <3>3
  <2>3. CASE q # r
    <3>1. raw[q][y] = tab[r][c] * tab[q][y] + (-tab[q][c]) * tab[r][y]
      BY <1>1, <2>3 DEF IsEliminated, IsMix
    <3>2. CASE i = r
      <4>1. y = c /\ q # i
        BY <1>3, <2>0, <2>3, <3>2
      <4>2. \A s, t \in Int : s * t + (-t) * s = 0
        OBVIOUS
      <4> QED BY <2>0, <2>1, <3>1, <4>1, <4>2
    <3>3. CASE i # r
      <4>1. y = b[i] /\ tab[r][y] = 0
        BY <1>0, <1>3, <1>4, <2>0, <3>3
      <4>2. \A s, t, u \in Int : s * t + u * 0 = t * s
        OBVIOUS
      <4>3. -tab[q][c] \in Int
        BY <2>1
      <4>4. raw[q][y] = tab[q][y] * tab[r][c]
        BY <2>1, <3>1, <4>1, <4>2, <4>3
      <4>5. tab[q][y] = IF q = i THEN d ELSE 0
        BY <1>0, <4>1
      <4>6. 0 * tab[r][c] = 0
        BY <2>1
      <4>7. e = d * tab[r][c]
        BY <1>1 DEF IsTimes
      <4> QED BY <2>0, <4>4, <4>5, <4>6, <4>7
    <3> QED BY <3>2, <3>3
  <2> QED BY <2>2, <2>3
<1>6. ASSUME NEW q \in 1 .. m + 1, NEW i \in 1 .. m
      PROVE  tab2[q][b2[i]] = IF q = i THEN d2 ELSE 0
  <2>0. PICK y \in 1 .. z : y = b2[i]
    BY <1>3
  <2>1. raw[q][y] = f * tab2[q][y] /\ e = f * d2
    BY <1>2 DEF IsTimes
  <2>2. tab2[q][y] \in Int
    BY <1>1 DEF IsTable
  <2>3. CASE q = i
    <3>1. f * tab2[q][y] = f * d2
      BY <1>5, <2>0, <2>1, <2>3
    <3>2. tab2[q][y] = d2
      BY <1>2, <2>2, <3>1, TimesCancel
    <3> QED BY <2>0, <2>3, <3>2
  <2>4. CASE q # i
    <3>1. f * tab2[q][y] = 0 /\ f * 0 = 0
      BY <1>2, <1>5, <2>0, <2>1, <2>4
    <3>2. f * tab2[q][y] = f * 0 /\ 0 \in Int
      BY <3>1
    <3>3. tab2[q][y] = 0
      BY <1>2, <2>2, <3>2, TimesCancel
    <3> QED BY <2>0, <2>4, <3>3
  <2> QED BY <2>3, <2>4
<1> QED BY <1>1, <1>2, <1>3, <1>6 DEF Canonical

\* The row that leaves: the entry is positive, and its ratio no greater than
\* that of any other positive entry.
Lets(m, z, tab, r, c) ==
    \A q \in 1 .. m : tab[q][c] > 0 => tab[r][z] * tab[q][c] <= tab[q][z] * tab[r][c]

LEMMA RatioKeeps ==
    ASSUME NEW p \in Int, NEW u \in Int, NEW v \in Int, NEW t \in Int, p > 0, u >= 0, t >= 0,
           v > 0 => t * v <= u * p
    PROVE  p * u + (-v) * t >= 0
<1>1. CASE v > 0
  <2>1. p * u + (-v) * t = u * p - t * v
    OBVIOUS
  <2>2. u * p \in Int /\ t * v \in Int
    OBVIOUS
  <2> QED BY <1>1, <2>1, <2>2
<1>2. CASE v <= 0
  <2>1. p * u >= 0 /\ (-v) * t >= 0
    BY <1>2
  <2>2. p * u \in Int /\ (-v) * t \in Int
    OBVIOUS
  <2> QED BY <2>1, <2>2
<1> QED BY <1>1, <1>2

LEMMA RhsOn ==
    ASSUME NEW m \in Nat, NEW z \in Nat \ {0}, NEW tab, NEW d, NEW b, Canonical(m, z, tab, d, b),
           \A q \in 1 .. m : tab[q][z] >= 0,
           NEW r, NEW c, NEW raw, NEW e, NEW f, NEW tab2, NEW d2, NEW b2,
           Moves(m, z, tab, d, b, r, c, raw, e, f, tab2, d2, b2), Lets(m, z, tab, r, c)
    PROVE  \A q \in 1 .. m : tab2[q][z] >= 0
<1>0. IsTable(m, z, tab) /\ d \in Nat \ {0} /\ z \in 1 .. z /\ \A q \in 1 .. m : q \in 1 .. m + 1
  BY DEF Canonical
<1>1. /\ r \in 1 .. m /\ c \in 1 .. z /\ tab[r][c] > 0
      /\ IsTable(m, z, raw) /\ IsEliminated(m, z, raw, tab, d, r, c)
      /\ IsTable(m, z, tab2) /\ IsLowered(m, z, tab2, d2, raw, e, f)
  BY DEF Moves
<1>2. /\ f \in Nat \ {0}
      /\ \A q \in 1 .. m + 1 : \A x \in 1 .. z : IsTimes(raw[q][x], f, tab2[q][x])
  BY <1>1 DEF IsLowered
<1>3. SUFFICES ASSUME NEW q \in 1 .. m PROVE tab2[q][z] >= 0
  OBVIOUS
<1>4. /\ tab[q][z] \in Int /\ tab[q][c] \in Int /\ tab[r][z] \in Int /\ tab[r][c] \in Int /\ tab2[q][z] \in Int
      /\ tab[q][z] >= 0 /\ tab[r][z] >= 0
  BY <1>0, <1>1 DEF IsTable
<1>5. raw[q][z] >= 0
  <2>1. CASE q = r
    <3>1. raw[q][z] = d * tab[r][z]
      BY <1>0, <1>1, <2>1 DEF IsEliminated, IsTimes
    <3>2. \A s \in Int : s >= 0 => d * s >= 0
      BY <1>0
    <3> QED BY <1>4, <3>1, <3>2
  <2>2. CASE q # r
    <3>1. raw[q][z] = tab[r][c] * tab[q][z] + (-tab[q][c]) * tab[r][z]
      BY <1>0, <1>1, <2>2 DEF IsEliminated, IsMix
    <3>2. tab[q][c] > 0 => tab[r][z] * tab[q][c] <= tab[q][z] * tab[r][c]
      BY DEF Lets
    <3>3. tab[r][c] * tab[q][z] + (-tab[q][c]) * tab[r][z] >= 0
      BY <1>1, <1>4, <3>2, RatioKeeps
    <3> QED BY <3>1, <3>3
  <2> QED BY <2>1, <2>2
<1>6. raw[q][z] = f * tab2[q][z]
  BY <1>0, <1>2 DEF IsTimes
<1>7. \A s \in Int : f * s >= 0 => s >= 0
  BY <1>2
<1> QED BY <1>4, <1>5, <1>6, <1>7

-----------------------------------------------------------------------------
(* The first of finitely many.                                              *)

\* R puts the members of O in an order.
Orders(R, O) ==
    /\ \A a, b \in O : a = b \/ <<a, b>> \in R \/ <<b, a>> \in R
    /\ \A a, b, c \in O : <<a, b>> \in R /\ <<b, c>> \in R => a = c \/ <<a, c>> \in R

IsFirst(R, O, r) == r \in O /\ \A q \in O : q = r \/ <<r, q>> \in R

LEMMA FirstAmong ==
    ASSUME NEW m \in Nat, NEW O \in SUBSET (1 .. m), O # {}, NEW R, Orders(R, O)
    PROVE  \E r : IsFirst(R, O, r)
<1>0. /\ \A a, b \in O : a = b \/ <<a, b>> \in R \/ <<b, a>> \in R
      /\ \A a, b, c \in O : <<a, b>> \in R /\ <<b, c>> \in R => a = c \/ <<a, c>> \in R
  BY DEF Orders
<1> DEFINE First(k) == \E r \in O : r <= k /\ \A q \in O : q <= k => q = r \/ <<r, q>> \in R
           P == {k \in Nat : (\A r \in O : ~(r <= k)) \/ First(k)}
<1>1. 0 \in P
  OBVIOUS
<1>2. ASSUME NEW k \in Nat, k \in P PROVE k + 1 \in P
  <2>0. PICK n \in Nat : n = k + 1
    OBVIOUS
  <2>1. \A q \in O : q \in Nat /\ (q <= n <=> q <= k \/ q = n)
    BY <2>0
  <2>2. CASE n \notin O
    <3>1. \A q \in O : q <= n <=> q <= k
      BY <2>1, <2>2
    <3> QED BY <1>2, <2>0, <3>1
  <2>3. CASE n \in O
    <3>1. CASE \A r \in O : ~(r <= k)
      <4>1. \A q \in O : q <= n => q = n
        BY <2>1, <3>1
      <4> QED BY <2>0, <2>3, <4>1
    <3>2. CASE First(k)
      <4>1. PICK r \in O : r <= k /\ \A q \in O : q <= k => q = r \/ <<r, q>> \in R
        BY <3>2
      <4>2. CASE <<r, n>> \in R
        <5>1. r <= n /\ \A q \in O : q <= n => q = r \/ <<r, q>> \in R
          BY <2>1, <4>1, <4>2
        <5> QED BY <2>0, <5>1
      <4>3. CASE <<r, n>> \notin R
        <5>1. r # n
          BY <2>0, <2>1, <4>1
        <5>2. <<n, r>> \in R
          BY <1>0, <2>3, <4>3, <5>1
        <5>3. n <= n /\ \A q \in O : q <= n => q = n \/ <<n, q>> \in R
          BY <1>0, <2>1, <2>3, <4>1, <5>2
        <5> QED BY <2>0, <2>3, <5>3
      <4> QED BY <4>2, <4>3
    <3> QED BY <1>2, <3>1, <3>2
  <2> QED BY <2>2, <2>3
<1> HIDE DEF P
<1>3. m \in P
  BY <1>1, <1>2, Counting
<1>4. \A r \in O : r <= m
  OBVIOUS
<1>5. \E r \in O : \A q \in O : q = r \/ <<r, q>> \in R
  BY <1>3, <1>4 DEF P
<1> QED BY <1>5 DEF IsFirst

LEMMA LeastOf ==
    ASSUME NEW m \in Nat \ {0}, NEW f \in [1 .. m -> Int]
    PROVE  \E r \in 1 .. m : \A q \in 1 .. m : f[r] <= f[q]
<1> DEFINE R == {p \in (1 .. m) \X (1 .. m) : f[p[1]] <= f[p[2]]}
<1>1. \A a, b \in 1 .. m : <<a, b>> \in R <=> f[a] <= f[b]
  OBVIOUS
<1> HIDE DEF R
<1>2. \A a \in 1 .. m : f[a] \in Int
  OBVIOUS
<1>4. 1 .. m \in SUBSET (1 .. m) /\ 1 .. m # {} /\ m \in Nat
  OBVIOUS
<1>5. ASSUME NEW a \in 1 .. m, NEW b \in 1 .. m
      PROVE  <<a, b>> \in R \/ <<b, a>> \in R
  <2>1. f[a] \in Int /\ f[b] \in Int
    BY <1>2
  <2> QED BY <1>1, <2>1
<1>6. ASSUME NEW a \in 1 .. m, NEW b \in 1 .. m, NEW c \in 1 .. m, <<a, b>> \in R, <<b, c>> \in R
      PROVE  <<a, c>> \in R
  <2>1. f[a] \in Int /\ f[b] \in Int /\ f[c] \in Int
    BY <1>2
  <2>2. f[a] <= f[b] /\ f[b] <= f[c]
    BY <1>1, <1>6
  <2>3. f[a] <= f[c]
    BY <2>1, <2>2
  <2> QED BY <1>1, <2>3
<1>7. Orders(R, 1 .. m)
  BY <1>5, <1>6 DEF Orders
<1>8. PICK r : IsFirst(R, 1 .. m, r)
  BY <1>4, <1>7, FirstAmong
<1>9. r \in 1 .. m /\ \A q \in 1 .. m : q = r \/ <<r, q>> \in R
  BY <1>8 DEF IsFirst
<1>10. ASSUME NEW q \in 1 .. m PROVE f[r] <= f[q]
  <2>1. f[r] \in Int /\ f[q] \in Int
    BY <1>2, <1>9
  <2>2. CASE q = r
    BY <2>1, <2>2
  <2>3. CASE q # r
    BY <1>1, <1>9, <2>3
  <2> QED BY <2>2, <2>3
<1> QED BY <1>9, <1>10

LEMMA MaxIs ==
    ASSUME NEW m \in Nat, NEW O \in SUBSET (1 .. m), O # {}
    PROVE  Max(O) \in O /\ \A q \in O : Max(O) >= q
<1> DEFINE R == {p \in (1 .. m) \X (1 .. m) : p[1] >= p[2]}
<1>1. \A a, b \in 1 .. m : <<a, b>> \in R <=> a >= b
  OBVIOUS
<1> HIDE DEF R
<1>2. ASSUME NEW a \in O, NEW b \in O
      PROVE  a = b \/ <<a, b>> \in R \/ <<b, a>> \in R
  <2>1. a \in 1 .. m /\ b \in 1 .. m
    OBVIOUS
  <2> QED BY <1>1, <2>1
<1>3. ASSUME NEW a \in O, NEW b \in O, NEW c \in O, <<a, b>> \in R, <<b, c>> \in R
      PROVE  a = c \/ <<a, c>> \in R
  <2>1. a \in 1 .. m /\ b \in 1 .. m /\ c \in 1 .. m
    OBVIOUS
  <2>2. a >= b /\ b >= c
    BY <1>1, <1>3, <2>1
  <2>3. a >= c
    BY <2>1, <2>2
  <2> QED BY <1>1, <2>1, <2>3
<1>4. Orders(R, O)
  BY <1>2, <1>3 DEF Orders
<1>5. PICK r : IsFirst(R, O, r)
  BY <1>4, FirstAmong
<1>6. r \in O /\ \A q \in O : q = r \/ <<r, q>> \in R
  BY <1>5 DEF IsFirst
<1>7. ASSUME NEW q \in O PROVE r >= q
  <2>1. q \in 1 .. m /\ r \in 1 .. m
    BY <1>6
  <2>2. CASE q = r
    BY <2>1, <2>2
  <2>3. CASE q # r
    BY <1>1, <1>6, <2>1, <2>3
  <2> QED BY <2>2, <2>3
<1> QED BY <1>6, <1>7 DEF Max

-----------------------------------------------------------------------------
(* The matrix and its first tableau.                                        *)

IsMatrix(h, w, g) == h \in Nat \ {0} /\ w \in Nat \ {0} /\ g \in [1 .. h -> [1 .. w -> Int]]

LEMMA Shape ==
    ASSUME NEW h, NEW w, NEW g, IsMatrix(h, w, g)
    PROVE  /\ h \in Nat \ {0} /\ w \in Nat \ {0} /\ w + h + 1 \in Nat \ {0}
           /\ Height(g) = h /\ Width(g) = w /\ Objective(g) = h + 1 /\ Rhs(g) = w + h + 1
           /\ Vars(g) = 1 .. w + h
           /\ \A i \in 1 .. h : \A j \in 1 .. w : g[i][j] \in Int
<1>1. h \in Nat \ {0} /\ w \in Nat \ {0} /\ g \in [1 .. h -> [1 .. w -> Int]]
  BY DEF IsMatrix
<1>2. g \in Seq([1 .. w -> Int]) /\ Len(g) = h
  BY <1>1, SeqDef, LenProperties
<1>3. 1 \in 1 .. h /\ g[1] \in [1 .. w -> Int]
  BY <1>1
<1>4. g[1] \in Seq(Int) /\ Len(g[1]) = w
  BY <1>1, <1>3, SeqDef, LenProperties
<1>5. Height(g) = h /\ Width(g) = w
  BY <1>2, <1>4 DEF Height, Width
<1> QED BY <1>1, <1>5 DEF Objective, Rhs, Vars

LEMMA ShiftRaises ==
    ASSUME NEW h, NEW w, NEW g, IsMatrix(h, w, g)
    PROVE  Shift(g) \in Int /\ \A i \in 1 .. h : \A j \in 1 .. w : g[i][j] + Shift(g) >= 1
<1>1. /\ h \in Nat \ {0} /\ w \in Nat \ {0} /\ Height(g) = h /\ Width(g) = w
      /\ \A i \in 1 .. h : \A j \in 1 .. w : g[i][j] \in Int
  BY Shape
<1>2. \A i \in 1 .. h : g[i] \in [1 .. w -> Int]
  BY DEF IsMatrix
<1>3. \A i \in 1 .. h : \E j \in 1 .. w : \A q \in 1 .. w : g[i][j] <= g[i][q]
  BY <1>1, <1>2, LeastOf
<1> DEFINE col == [i \in 1 .. h |-> CHOOSE j \in 1 .. w : \A q \in 1 .. w : g[i][j] <= g[i][q]]
           low == [i \in 1 .. h |-> g[i][col[i]]]
<1>4. \A i \in 1 .. h : col[i] \in 1 .. w /\ \A q \in 1 .. w : low[i] <= g[i][q]
  BY <1>3
<1>5. low \in [1 .. h -> Int] /\ \A i \in 1 .. h : low[i] = g[i][col[i]]
  BY <1>1, <1>4
<1> HIDE DEF low, col
<1>6. PICK r \in 1 .. h : \A q \in 1 .. h : low[r] <= low[q]
  BY <1>1, <1>5, LeastOf
<1> DEFINE S == {g[i][j] : i \in 1 .. Height(g), j \in 1 .. Width(g)}
<1>7. \A i \in 1 .. h : \A j \in 1 .. w : low[r] <= g[i][j]
  BY <1>1, <1>4, <1>5, <1>6
<1>8. low[r] \in S /\ \A y \in S : low[r] <= y
  <2>1. r \in 1 .. Height(g) /\ col[r] \in 1 .. Width(g) /\ low[r] = g[r][col[r]]
    BY <1>1, <1>4, <1>5
  <2>2. low[r] \in S
    BY <2>1
  <2>3. \A y \in S : low[r] <= y
    BY <1>1, <1>7
  <2> QED BY <2>2, <2>3
<1>9. Min(S) \in S /\ \A y \in S : Min(S) <= y
  <2> HIDE DEF S
  <2> QED BY <1>8 DEF Min
<1>11. Shift(g) = IF Min(S) < 1 THEN 1 - Min(S) ELSE 0
  BY DEF Shift
<1>10. Min(S) \in Int /\ \A i \in 1 .. h : \A j \in 1 .. w : Min(S) <= g[i][j]
  BY <1>1, <1>9
<1> HIDE DEF S
<1>12. PICK n \in Int : n = Min(S)
  BY <1>10
<1>13. Shift(g) \in Int /\ n + Shift(g) >= 1
  BY <1>11, <1>12
<1>14. ASSUME NEW i \in 1 .. h, NEW j \in 1 .. w PROVE g[i][j] + Shift(g) >= 1
  <2>1. g[i][j] \in Int /\ n <= g[i][j]
    BY <1>1, <1>10, <1>12
  <2> QED BY <1>13, <2>1
<1> QED BY <1>13, <1>14

FirstBasis(h, w) == [r \in 1 .. h |-> w + r]

LEMMA FirstTableau ==
    ASSUME NEW h, NEW w, NEW g, IsMatrix(h, w, g), NEW z, z = w + h + 1, NEW T, T = Tableau(g)
    PROVE  /\ IsTable(h, z, T)
           /\ \A r \in 1 .. h : /\ \A j \in 1 .. w : T[r][j] = g[r][j] + Shift(g)
                                /\ \A i \in 1 .. h : T[r][w + i] = IF i = r THEN 1 ELSE 0
                                /\ T[r][z] = 1
           /\ \A j \in 1 .. w : T[h + 1][j] = -1
           /\ \A i \in 1 .. h : T[h + 1][w + i] = 0
           /\ T[h + 1][z] = 0
<1>1. /\ h \in Nat \ {0} /\ w \in Nat \ {0} /\ z \in Nat \ {0}
      /\ Height(g) = h /\ Width(g) = w /\ Objective(g) = h + 1 /\ Rhs(g) = z
      /\ \A i \in 1 .. h : \A j \in 1 .. w : g[i][j] \in Int
  BY Shape
<1>2. Shift(g) \in Int
  BY ShiftRaises
<1>3. PICK s \in Int : s = Shift(g)
  BY <1>2
<1>4. PICK o \in Nat : o = h + 1
  BY <1>1
<1>5. T = [r \in 1 .. o |-> [c \in 1 .. z |->
             IF r = o THEN IF c <= w THEN -1 ELSE 0
             ELSE IF c <= w THEN g[r][c] + s ELSE IF c = w + r \/ c = z THEN 1 ELSE 0]]
  BY <1>1, <1>3, <1>4 DEF Tableau
<1>6. ASSUME NEW r \in 1 .. o, NEW c \in 1 .. z
      PROVE  /\ T[r][c] = IF r = o THEN IF c <= w THEN -1 ELSE 0
                          ELSE IF c <= w THEN g[r][c] + s ELSE IF c = w + r \/ c = z THEN 1 ELSE 0
             /\ T[r][c] \in Int
  <2>1. T[r][c] = IF r = o THEN IF c <= w THEN -1 ELSE 0
                  ELSE IF c <= w THEN g[r][c] + s ELSE IF c = w + r \/ c = z THEN 1 ELSE 0
    BY <1>5
  <2>2. r # o /\ c <= w => g[r][c] + s \in Int
    <3>1. r # o /\ c <= w => r \in 1 .. h /\ c \in 1 .. w
      BY <1>1, <1>4
    <3> QED BY <1>1, <3>1
  <2> QED BY <2>1, <2>2
<1>7. IsTable(h, z, T)
  <2>1. \A r \in 1 .. o : T[r] \in [1 .. z -> Int]
    <3>1. \A r \in 1 .. o : T[r] = [c \in 1 .. z |-> T[r][c]]
      BY <1>5
    <3> QED BY <1>6, <3>1
  <2>2. T = [r \in 1 .. o |-> T[r]]
    BY <1>5
  <2>3. T \in [1 .. o -> [1 .. z -> Int]]
    BY <2>1, <2>2
  <2> QED BY <1>4, <2>3 DEF IsTable
<1>8. /\ \A j \in 1 .. w : j \in 1 .. z /\ j <= w
      /\ \A i \in 1 .. h : w + i \in 1 .. z /\ ~(w + i <= w) /\ w + i # z /\ i \in 1 .. o /\ i # o
      /\ \A i, r \in 1 .. h : w + i = w + r <=> i = r
      /\ z \in 1 .. z /\ ~(z <= w) /\ o \in 1 .. o
  BY <1>1, <1>4
<1>9. ASSUME NEW r \in 1 .. h
      PROVE  /\ \A j \in 1 .. w : T[r][j] = g[r][j] + s
             /\ \A i \in 1 .. h : T[r][w + i] = IF i = r THEN 1 ELSE 0
             /\ T[r][z] = 1
  <2>1. \A j \in 1 .. w : T[r][j] = g[r][j] + s
    BY <1>6, <1>8
  <2>2. \A i \in 1 .. h : T[r][w + i] = IF i = r THEN 1 ELSE 0
    BY <1>6, <1>8
  <2>3. T[r][z] = 1
    BY <1>6, <1>8
  <2> QED BY <2>1, <2>2, <2>3
<1>10. /\ \A j \in 1 .. w : T[o][j] = -1
       /\ \A i \in 1 .. h : T[o][w + i] = 0
       /\ T[o][z] = 0
  BY <1>6, <1>8
<1> QED BY <1>3, <1>4, <1>7, <1>9, <1>10

LEMMA FirstCanonical ==
    ASSUME NEW h, NEW w, NEW g, IsMatrix(h, w, g), NEW z, z = w + h + 1
    PROVE  Canonical(h, z, Tableau(g), 1, FirstBasis(h, w))
<1>1. h \in Nat \ {0} /\ w \in Nat \ {0} /\ z \in Nat \ {0}
  BY Shape
<1>2. PICK T : T = Tableau(g)
  OBVIOUS
<1>3. /\ IsTable(h, z, T)
      /\ \A r \in 1 .. h : \A i \in 1 .. h : T[r][w + i] = IF i = r THEN 1 ELSE 0
      /\ \A i \in 1 .. h : T[h + 1][w + i] = 0
  BY <1>2, FirstTableau
<1>4. FirstBasis(h, w) \in [1 .. h -> 1 .. z] /\ \A i \in 1 .. h : FirstBasis(h, w)[i] = w + i
  BY <1>1 DEF FirstBasis
<1>5. ASSUME NEW q \in 1 .. h + 1, NEW i \in 1 .. h
      PROVE  T[q][FirstBasis(h, w)[i]] = IF q = i THEN 1 ELSE 0
  <2>1. CASE q = h + 1
    <3>1. q # i
      BY <1>1, <2>1
    <3> QED BY <1>3, <1>4, <2>1, <3>1
  <2>2. CASE q # h + 1
    <3>1. q \in 1 .. h
      BY <1>1, <2>2
    <3> QED BY <1>3, <1>4, <3>1
  <2> QED BY <2>1, <2>2
<1> QED BY <1>2, <1>3, <1>4, <1>5 DEF Canonical

-----------------------------------------------------------------------------
(* Which row leaves.                                                        *)

\* The ratio u / p is at most v / q.
AtMost(u, p, v, q) == u * q <= v * p

LEMMA AtMostOn ==
    ASSUME NEW u \in Int, NEW p \in Int, NEW v \in Int, NEW q \in Int, NEW t \in Int, NEW s \in Int,
           p > 0, q > 0, s > 0, AtMost(u, p, v, q), AtMost(v, q, t, s)
    PROVE  AtMost(u, p, t, s)
<1>1. u * q <= v * p /\ v * s <= t * q
  BY DEF AtMost
<1>2. (u * q) * s <= (v * p) * s
  <2>1. \A i, j \in Int : i <= j => i * s <= j * s
    OBVIOUS
  <2> QED BY <1>1, <2>1
<1>3. (v * s) * p <= (t * q) * p
  <2>1. \A i, j \in Int : i <= j => i * p <= j * p
    OBVIOUS
  <2> QED BY <1>1, <2>1
<1>4. (v * p) * s = (v * s) * p /\ (u * q) * s = (u * s) * q /\ (t * q) * p = (t * p) * q
  OBVIOUS
<1>5. /\ u * s \in Int /\ t * p \in Int /\ (u * s) * q \in Int /\ (t * p) * q \in Int
      /\ (v * p) * s \in Int
  OBVIOUS
<1>6. (u * s) * q <= (t * p) * q
  BY <1>2, <1>3, <1>4, <1>5
<1>7. \A i, j \in Int : i * q <= j * q => i <= j
  OBVIOUS
<1>8. u * s <= t * p
  BY <1>5, <1>6, <1>7
<1> QED BY <1>8 DEF AtMost

LEMMA AtMostEither ==
    ASSUME NEW u \in Int, NEW p \in Int, NEW v \in Int, NEW q \in Int
    PROVE  AtMost(u, p, v, q) \/ AtMost(v, q, u, p)
  BY DEF AtMost

\* A tableau of the matrix, at a basis whose rhs is not negative.
Feasible(h, w, z, tab, d, b) ==
    /\ Canonical(h, z, tab, d, b) /\ b \in [1 .. h -> 1 .. w + h]
    /\ \A r \in 1 .. h : tab[r][z] >= 0

LEMMA BasisDiffers ==
    ASSUME NEW m \in Nat, NEW z \in Nat, NEW tab, NEW d, NEW b, Canonical(m, z, tab, d, b),
           NEW r \in 1 .. m, NEW q \in 1 .. m, b[r] = b[q]
    PROVE  r = q
<1>1. r \in 1 .. m + 1 /\ d # 0
  BY DEF Canonical
<1>2. tab[r][b[r]] = d /\ tab[r][b[q]] = IF r = q THEN d ELSE 0
  BY <1>1 DEF Canonical
<1> QED BY <1>1, <1>2

LEMMA PrefersIs ==
    ASSUME NEW h, NEW w, NEW g, IsMatrix(h, w, g), NEW z, z = w + h + 1,
           NEW tab, NEW d, NEW b, Feasible(h, w, z, tab, d, b),
           NEW c \in 1 .. z, NEW r \in 1 .. h, NEW q \in 1 .. h
    PROVE  /\ Prefers(g, tab, b, c, r, q) <=>
                 /\ AtMost(tab[r][z], tab[r][c], tab[q][z], tab[q][c])
                 /\ AtMost(tab[q][z], tab[q][c], tab[r][z], tab[r][c]) => b[r] < b[q]
           /\ tab[r][z] \in Int /\ tab[r][c] \in Int /\ tab[q][z] \in Int /\ tab[q][c] \in Int
           /\ b[r] \in Nat /\ b[q] \in Nat
<1>1. Rhs(g) = z /\ z \in Nat \ {0} /\ z \in 1 .. z /\ h \in Nat
  BY Shape
<1>2. IsTable(h, z, tab) /\ b \in [1 .. h -> 1 .. w + h]
  BY DEF Feasible, Canonical
<1>3. r \in 1 .. h + 1 /\ q \in 1 .. h + 1
  BY <1>1
<1>4. tab[r] \in [1 .. z -> Int] /\ tab[q] \in [1 .. z -> Int]
  BY <1>2, <1>3 DEF IsTable
<1>5. tab[r][z] \in Int /\ tab[r][c] \in Int /\ tab[q][z] \in Int /\ tab[q][c] \in Int
  BY <1>1, <1>4
<1>6. b[r] \in Nat /\ b[q] \in Nat
  BY <1>2
<1>7. PICK x \in Int : x = tab[r][z] * tab[q][c]
  BY <1>5
<1>8. PICK y \in Int : y = tab[q][z] * tab[r][c]
  BY <1>5
<1>9. Prefers(g, tab, b, c, r, q) <=> x < y \/ (y = x /\ b[r] < b[q])
  BY <1>1, <1>7, <1>8 DEF Prefers
<1>10. /\ AtMost(tab[r][z], tab[r][c], tab[q][z], tab[q][c]) <=> x <= y
       /\ AtMost(tab[q][z], tab[q][c], tab[r][z], tab[r][c]) <=> y <= x
  BY <1>7, <1>8 DEF AtMost
<1>11. x < y \/ (y = x /\ b[r] < b[q]) <=> x <= y /\ (y <= x => b[r] < b[q])
  OBVIOUS
<1> QED BY <1>5, <1>6, <1>9, <1>10, <1>11

LEMMA SomeLeaves ==
    ASSUME NEW h, NEW w, NEW g, IsMatrix(h, w, g), NEW z, z = w + h + 1,
           NEW tab, NEW d, NEW b, Feasible(h, w, z, tab, d, b),
           NEW c \in 1 .. z, \E r \in 1 .. h : tab[r][c] > 0
    PROVE  Leaving(g, tab, b, c) # {}
<1>1. Height(g) = h /\ h \in Nat /\ z \in Nat
  BY Shape
<1>2. Canonical(h, z, tab, d, b)
  BY DEF Feasible
<1> DEFINE O == {r \in 1 .. h : tab[r][c] > 0}
           R == {p \in (1 .. h) \X (1 .. h) : Prefers(g, tab, b, c, p[1], p[2])}
<1>3. \A r, q \in 1 .. h : <<r, q>> \in R <=> Prefers(g, tab, b, c, r, q)
  OBVIOUS
<1> HIDE DEF R
<1>4. ASSUME NEW r \in O, NEW q \in O PROVE r = q \/ <<r, q>> \in R \/ <<q, r>> \in R
  <2>1. SUFFICES ASSUME r # q PROVE <<r, q>> \in R \/ <<q, r>> \in R
    OBVIOUS
  <2>2. r \in 1 .. h /\ q \in 1 .. h /\ b[r] # b[q]
    BY <1>1, <1>2, <2>1, BasisDiffers
  <2>3. /\ Prefers(g, tab, b, c, r, q) <=>
              /\ AtMost(tab[r][z], tab[r][c], tab[q][z], tab[q][c])
              /\ AtMost(tab[q][z], tab[q][c], tab[r][z], tab[r][c]) => b[r] < b[q]
        /\ tab[r][z] \in Int /\ tab[r][c] \in Int /\ tab[q][z] \in Int /\ tab[q][c] \in Int
        /\ b[r] \in Nat /\ b[q] \in Nat
    BY <2>2, PrefersIs
  <2>4. /\ Prefers(g, tab, b, c, q, r) <=>
              /\ AtMost(tab[q][z], tab[q][c], tab[r][z], tab[r][c])
              /\ AtMost(tab[r][z], tab[r][c], tab[q][z], tab[q][c]) => b[q] < b[r]
    BY <2>2, PrefersIs
  <2>5. \/ AtMost(tab[r][z], tab[r][c], tab[q][z], tab[q][c])
        \/ AtMost(tab[q][z], tab[q][c], tab[r][z], tab[r][c])
    BY <2>3, AtMostEither
  <2>6. b[r] < b[q] \/ b[q] < b[r]
    BY <2>2, <2>3
  <2> QED BY <1>3, <2>2, <2>3, <2>4, <2>5, <2>6
<1>5. ASSUME NEW r \in O, NEW q \in O, NEW s \in O, <<r, q>> \in R, <<q, s>> \in R
      PROVE  r = s \/ <<r, s>> \in R
  <2>1. /\ r \in 1 .. h /\ q \in 1 .. h /\ s \in 1 .. h
        /\ tab[r][c] > 0 /\ tab[q][c] > 0 /\ tab[s][c] > 0
    OBVIOUS
  <2>2. Prefers(g, tab, b, c, r, q) /\ Prefers(g, tab, b, c, q, s)
    BY <1>3, <1>5, <2>1
  <2>3. /\ AtMost(tab[r][z], tab[r][c], tab[q][z], tab[q][c])
        /\ AtMost(tab[q][z], tab[q][c], tab[r][z], tab[r][c]) => b[r] < b[q]
        /\ tab[r][z] \in Int /\ tab[r][c] \in Int /\ tab[q][z] \in Int /\ tab[q][c] \in Int
        /\ b[r] \in Nat /\ b[q] \in Nat
    BY <2>1, <2>2, PrefersIs
  <2>4. /\ AtMost(tab[q][z], tab[q][c], tab[s][z], tab[s][c])
        /\ AtMost(tab[s][z], tab[s][c], tab[q][z], tab[q][c]) => b[q] < b[s]
        /\ tab[s][z] \in Int /\ tab[s][c] \in Int /\ b[s] \in Nat
    BY <2>1, <2>2, PrefersIs
  <2>5. AtMost(tab[r][z], tab[r][c], tab[s][z], tab[s][c])
    BY <2>1, <2>3, <2>4, AtMostOn
  <2>6. ASSUME AtMost(tab[s][z], tab[s][c], tab[r][z], tab[r][c]) PROVE b[r] < b[s]
    <3>1. AtMost(tab[q][z], tab[q][c], tab[r][z], tab[r][c])
      BY <2>1, <2>3, <2>4, <2>6, AtMostOn
    <3>2. AtMost(tab[s][z], tab[s][c], tab[q][z], tab[q][c])
      BY <2>1, <2>3, <2>4, <2>6, AtMostOn
    <3> QED BY <2>3, <2>4, <3>1, <3>2
  <2>7. Prefers(g, tab, b, c, r, s)
    BY <2>1, <2>5, <2>6, PrefersIs
  <2> QED BY <1>3, <2>1, <2>7
<1>6. Orders(R, O)
  <2> HIDE DEF O
  <2> QED BY <1>4, <1>5 DEF Orders
<1>7. O \in SUBSET (1 .. h) /\ O # {}
  OBVIOUS
<1> HIDE DEF O
<1>8. PICK r : IsFirst(R, O, r)
  BY <1>1, <1>6, <1>7, FirstAmong
<1>9. r \in O /\ \A q \in O \ {r} : Prefers(g, tab, b, c, r, q)
  BY <1>3, <1>7, <1>8 DEF IsFirst
<1>10. Leaving(g, tab, b, c) = {i \in O : \A q \in O \ {i} : Prefers(g, tab, b, c, i, q)}
  BY <1>1 DEF Leaving, O
<1> QED BY <1>9, <1>10

LEMMA LeavingLets ==
    ASSUME NEW h, NEW w, NEW g, IsMatrix(h, w, g), NEW z, z = w + h + 1,
           NEW tab, NEW d, NEW b, Feasible(h, w, z, tab, d, b),
           NEW c \in 1 .. z, NEW r \in Leaving(g, tab, b, c)
    PROVE  /\ r \in 1 .. h /\ tab[r][c] > 0 /\ Lets(h, z, tab, r, c)
           /\ \A q \in 1 .. h : tab[q][c] > 0 /\ q # r => Prefers(g, tab, b, c, r, q)
<1>1. Height(g) = h /\ h \in Nat /\ z \in Nat
  BY Shape
<1>2. /\ r \in 1 .. h /\ tab[r][c] > 0
      /\ \A q \in 1 .. h : tab[q][c] > 0 /\ q # r => Prefers(g, tab, b, c, r, q)
  BY <1>1 DEF Leaving
<1>3. ASSUME NEW q \in 1 .. h, tab[q][c] > 0
      PROVE  tab[r][z] * tab[q][c] <= tab[q][z] * tab[r][c]
  <2>1. CASE q = r
    <3>1. tab[r][z] \in Int /\ tab[r][c] \in Int
      BY <1>2, PrefersIs
    <3>2. tab[r][z] * tab[r][c] \in Int
      BY <3>1
    <3> QED BY <2>1, <3>2
  <2>2. CASE q # r
    <3>1. AtMost(tab[r][z], tab[r][c], tab[q][z], tab[q][c])
      BY <1>2, <1>3, <2>2, PrefersIs
    <3> QED BY <3>1 DEF AtMost
  <2> QED BY <2>1, <2>2
<1> QED BY <1>2, <1>3 DEF Lets

-----------------------------------------------------------------------------
(* A pivot of the model.                                                    *)

LEMMA Eliminates ==
    ASSUME NEW m \in Nat, NEW z \in Nat, NEW tab, IsTable(m, z, tab), NEW d \in Int, NEW r \in 1 .. m, NEW c \in 1 .. z,
           NEW raw, raw = Eliminated(tab, d, r, c)
    PROVE  IsTable(m, z, raw) /\ IsEliminated(m, z, raw, tab, d, r, c)
<1>0. PICK o \in Nat : o = m + 1
  OBVIOUS
<1>1. tab \in [1 .. o -> [1 .. z -> Int]] /\ r \in 1 .. o /\ DOMAIN tab = 1 .. o /\ \A q \in 1 .. o : DOMAIN tab[q] = 1 .. z
  BY <1>0 DEF IsTable
<1>2. raw = [q \in 1 .. o |-> [x \in 1 .. z |->
               IF q = r THEN d * tab[r][x] ELSE tab[q][x] * tab[r][c] - tab[q][c] * tab[r][x]]]
  BY <1>1 DEF Eliminated
<1>3. ASSUME NEW q \in 1 .. o, NEW x \in 1 .. z
      PROVE  /\ raw[q][x] \in Int
             /\ q = r => IsTimes(raw[q][x], d, tab[q][x])
             /\ q # r => IsMix(raw[q][x], tab[r][c], tab[q][x], -tab[q][c], tab[r][x])
  <2>1. tab[q] \in [1 .. z -> Int] /\ tab[r] \in [1 .. z -> Int]
    BY <1>1
  <2>2. PICK s \in Int : s = tab[q][x]
    BY <2>1
  <2>3. PICK p \in Int : p = tab[r][c]
    BY <2>1
  <2>4. PICK u \in Int : u = tab[q][c]
    BY <2>1
  <2>5. PICK t \in Int : t = tab[r][x]
    BY <2>1
  <2>6. raw[q][x] = IF q = r THEN d * t ELSE s * p - u * t
    BY <1>2, <2>2, <2>3, <2>4, <2>5
  <2>7. CASE q = r
    <3>1. raw[q][x] = d * t /\ s = t
      BY <2>2, <2>5, <2>6, <2>7
    <3>2. d * t \in Int
      OBVIOUS
    <3> QED BY <2>2, <2>7, <3>1, <3>2 DEF IsTimes
  <2>8. CASE q # r
    <3>1. raw[q][x] = s * p - u * t
      BY <2>6, <2>8
    <3>2. s * p - u * t \in Int /\ s * p - u * t = p * s + (-u) * t
      OBVIOUS
    <3>3. IsMix(raw[q][x], p, s, -u, t)
      BY <3>1, <3>2 DEF IsMix
    <3> QED BY <2>2, <2>3, <2>4, <2>5, <2>8, <3>1, <3>2, <3>3
  <2> QED BY <2>7, <2>8
<1>4. raw \in [1 .. o -> [1 .. z -> Int]]
  <2>1. \A q \in 1 .. o : raw[q] = [x \in 1 .. z |-> raw[q][x]]
    BY <1>2
  <2>2. \A q \in 1 .. o : raw[q] \in [1 .. z -> Int]
    BY <1>3, <2>1
  <2>3. raw = [q \in 1 .. o |-> raw[q]]
    BY <1>2
  <2> QED BY <2>2, <2>3
<1>5. \A x \in 1 .. z : IsTimes(raw[r][x], d, tab[r][x])
  BY <1>1, <1>3
<1> QED BY <1>0, <1>3, <1>4, <1>5 DEF IsTable, IsEliminated

LEMMA Divides ==
    ASSUME NEW k \in Nat \ {0}, NEW x \in Int, x % k = 0
    PROVE  x \div k \in Int /\ IsTimes(x, k, x \div k)
<1>1. x \div k \in Int /\ x = k * (x \div k)
  OBVIOUS
<1> QED BY <1>1 DEF IsTimes

LEMMA Lowers ==
    ASSUME NEW m \in Nat, NEW z \in Nat, NEW raw, IsTable(m, z, raw), NEW e \in Nat \ {0}, NEW k, k = Common(raw, e)
    PROVE  IsTable(m, z, Lowest(raw, k)) /\ IsLowered(m, z, Lowest(raw, k), e \div k, raw, e, k)
<1>0. PICK o \in Nat : o = m + 1
  OBVIOUS
<1>1. raw \in [1 .. o -> [1 .. z -> Int]] /\ DOMAIN raw = 1 .. o /\ \A q \in 1 .. o : DOMAIN raw[q] = 1 .. z
  BY <1>0 DEF IsTable
<1>2. \A q \in 1 .. o : \A x \in 1 .. z : raw[q][x] \in Int
  BY <1>1
<1> DEFINE S == {i \in 1 .. e : e % i = 0 /\ \A q \in DOMAIN raw : \A x \in DOMAIN raw[q] : raw[q][x] % i = 0}
<1>3. 1 \in S
  <2>1. \A x \in Int : x % 1 = 0
    OBVIOUS
  <2>2. 1 \in 1 .. e /\ e \in Int
    OBVIOUS
  <2> QED BY <1>1, <1>2, <2>1, <2>2
<1>4. S \in SUBSET (1 .. e) /\ S # {} /\ k = Max(S)
  BY <1>3 DEF Common
<1>5. k \in S
  <2> HIDE DEF S
  <2> QED BY <1>4, MaxIs
<1>6. k \in 1 .. e /\ e % k = 0 /\ \A q \in 1 .. o : \A x \in 1 .. z : raw[q][x] % k = 0
  BY <1>1, <1>5
<1> HIDE DEF S
<1>7. k \in Nat \ {0} /\ e \in Int
  BY <1>6
<1>8. e \div k \in Int /\ IsTimes(e, k, e \div k)
  BY <1>6, <1>7, Divides
<1>9. e \div k \in Nat \ {0}
  <2>1. PICK d \in Int : d = e \div k
    BY <1>8
  <2>2. e = k * d
    BY <1>8, <2>1 DEF IsTimes
  <2>3. d > 0
    BY <1>7, <2>2
  <2> QED BY <2>1, <2>3
<1>10. Lowest(raw, k) = [q \in 1 .. o |-> [x \in 1 .. z |-> raw[q][x] \div k]]
  BY <1>1 DEF Lowest
<1>11. ASSUME NEW q \in 1 .. o, NEW x \in 1 .. z
       PROVE  raw[q][x] \div k \in Int /\ IsTimes(raw[q][x], k, raw[q][x] \div k)
  <2>1. raw[q][x] \in Int /\ raw[q][x] % k = 0
    BY <1>2, <1>6
  <2> QED BY <1>7, <2>1, Divides
<1>12. Lowest(raw, k) \in [1 .. o -> [1 .. z -> Int]]
  BY <1>10, <1>11
<1>13. \A q \in 1 .. o : \A x \in 1 .. z : IsTimes(raw[q][x], k, Lowest(raw, k)[q][x])
  BY <1>10, <1>11
<1> QED BY <1>0, <1>7, <1>8, <1>9, <1>12, <1>13 DEF IsTable, IsLowered

\* A step from one tableau to the next, at row r and column c.
IsPivot(m, z, tab, d, b, r, c, tab2, d2, b2) ==
    \E raw, e, f : Moves(m, z, tab, d, b, r, c, raw, e, f, tab2, d2, b2)

LEMMA PivotMoves ==
    ASSUME NEW m \in Nat, NEW z \in Nat, Canonical(m, z, tableau, den, basis),
           NEW r \in 1 .. m, NEW c \in 1 .. z, tableau[r][c] > 0, Pivot(r, c)
    PROVE  IsPivot(m, z, tableau, den, basis, r, c, tableau', den', basis')
<1>0. IsTable(m, z, tableau) /\ den \in Nat \ {0} /\ den \in Int
  BY DEF Canonical
<1>1. r \in 1 .. m + 1
  OBVIOUS
<1>2. tableau[r][c] \in Int
  BY <1>0, <1>1 DEF IsTable
<1>3. PICK e \in Nat \ {0} : e = den * tableau[r][c]
  <2>1. PICK p \in Nat \ {0} : p = tableau[r][c]
    BY <1>2
  <2>2. den * p \in Nat \ {0}
    BY <1>0
  <2> QED BY <2>1, <2>2
<1>4. PICK raw : raw = Eliminated(tableau, den, r, c)
  OBVIOUS
<1>5. PICK k : k = Common(raw, e)
  OBVIOUS
<1>6. tableau' = Lowest(raw, k) /\ den' = e \div k /\ basis' = [basis EXCEPT ![r] = c]
  BY <1>3, <1>4, <1>5 DEF Pivot
<1>7. IsTable(m, z, raw) /\ IsEliminated(m, z, raw, tableau, den, r, c)
  BY <1>0, <1>4, Eliminates
<1>8. IsTable(m, z, tableau') /\ IsLowered(m, z, tableau', den', raw, e, k)
  BY <1>5, <1>6, <1>7, Lowers
<1>9. IsTimes(e, den, tableau[r][c]) /\ e \in Int
  BY <1>3 DEF IsTimes
<1>10. Moves(m, z, tableau, den, basis, r, c, raw, e, k, tableau', den', basis')
  BY <1>6, <1>7, <1>8, <1>9 DEF Moves
<1> QED BY <1>10 DEF IsPivot

-----------------------------------------------------------------------------
(* What is true of every tableau there is.                                  *)

\* Feasible, and the same rows as at first, mixed.
Reached(h, w, g, tab, d, b) ==
    /\ Feasible(h, w, w + h + 1, tab, d, b)
    /\ Spans(h, w + h + 1, tab, d, b, Tableau(g), 1)
    /\ Spans(h, w + h + 1, Tableau(g), 1, FirstBasis(h, w), tab, d)

LEMMA FirstReached ==
    ASSUME NEW h, NEW w, NEW g, IsMatrix(h, w, g)
    PROVE  Reached(h, w, g, Tableau(g), 1, FirstBasis(h, w))
<1>0. PICK z \in Nat : z = w + h + 1
  BY Shape
<1>1. h \in Nat /\ w \in Nat /\ z \in Nat
  BY Shape
<1>2. Canonical(h, z, Tableau(g), 1, FirstBasis(h, w))
  BY <1>0, FirstCanonical
<1>3. Spans(h, z, Tableau(g), 1, FirstBasis(h, w), Tableau(g), 1)
  BY <1>1, <1>2, SpansItself
<1>4. \A r \in 1 .. h : Tableau(g)[r][z] >= 0
  <2>1. PICK T : T = Tableau(g)
    OBVIOUS
  <2>2. \A r \in 1 .. h : T[r][z] = 1
    BY <1>0, <2>1, FirstTableau
  <2> QED BY <2>1, <2>2
<1>5. FirstBasis(h, w) \in [1 .. h -> 1 .. w + h]
  BY <1>1 DEF FirstBasis
<1> QED BY <1>0, <1>2, <1>3, <1>4, <1>5 DEF Reached, Feasible

LEMMA ReachedOn ==
    ASSUME NEW h, NEW w, NEW g, IsMatrix(h, w, g), NEW z, z = w + h + 1,
           NEW tab, NEW d, NEW b, Reached(h, w, g, tab, d, b),
           NEW r, NEW c \in 1 .. w + h, Lets(h, z, tab, r, c),
           NEW tab2, NEW d2, NEW b2, IsPivot(h, z, tab, d, b, r, c, tab2, d2, b2)
    PROVE  Reached(h, w, g, tab2, d2, b2)
<1>0. PICK T : T = Tableau(g)
  OBVIOUS
<1>1. h \in Nat /\ w \in Nat /\ z \in Nat \ {0} /\ z \in Nat /\ 1 \in Int
  BY Shape
<1>2. /\ Feasible(h, w, z, tab, d, b) /\ Spans(h, z, tab, d, b, T, 1)
      /\ Spans(h, z, T, 1, FirstBasis(h, w), tab, d)
  BY <1>0 DEF Reached
<1>3. Canonical(h, z, tab, d, b) /\ b \in [1 .. h -> 1 .. w + h] /\ \A q \in 1 .. h : tab[q][z] >= 0
  BY <1>2 DEF Feasible
<1>4. Canonical(h, z, T, 1, FirstBasis(h, w))
  BY <1>0, FirstCanonical
<1>5. IsTable(h, z, T) /\ FirstBasis(h, w) \in [1 .. h -> 1 .. z]
  BY <1>4 DEF Canonical
<1>6. PICK raw, e, f : Moves(h, z, tab, d, b, r, c, raw, e, f, tab2, d2, b2)
  BY DEF IsPivot
<1>7. Canonical(h, z, tab2, d2, b2)
  BY <1>1, <1>3, <1>6, CanonicalOn
<1>8. Spans(h, z, tab2, d2, b2, T, 1)
  BY <1>1, <1>2, <1>3, <1>5, <1>6, SpansOn
<1>9. Spans(h, z, T, 1, FirstBasis(h, w), tab2, d2)
  BY <1>1, <1>2, <1>3, <1>5, <1>6, SpansMoved
<1>10. \A q \in 1 .. h : tab2[q][z] >= 0
  BY <1>1, <1>3, <1>6, RhsOn
<1>11. b2 \in [1 .. h -> 1 .. w + h]
  BY <1>3, <1>6 DEF Moves
<1> QED BY <1>0, <1>7, <1>8, <1>9, <1>10, <1>11 DEF Reached, Feasible

-----------------------------------------------------------------------------
(* A column that improves lets a row leave.                                 *)

LEMMA FirstEntries ==
    ASSUME NEW h, NEW w, NEW g, IsMatrix(h, w, g), NEW T, T = Tableau(g), NEW r \in 1 .. h, NEW x \in 1 .. w + h
    PROVE  T[r][x] \in Int /\ T[r][x] >= 0
<1>1. h \in Nat \ {0} /\ w \in Nat \ {0} /\ \A i \in 1 .. h : \A j \in 1 .. w : g[i][j] \in Int
  BY Shape
<1>2. Shift(g) \in Int /\ \A i \in 1 .. h : \A j \in 1 .. w : g[i][j] + Shift(g) >= 1
  BY ShiftRaises
<1>3. /\ \A j \in 1 .. w : T[r][j] = g[r][j] + Shift(g)
      /\ \A i \in 1 .. h : T[r][w + i] = IF i = r THEN 1 ELSE 0
  BY FirstTableau
<1>4. CASE x \in 1 .. w
  <2>1. T[r][x] = g[r][x] + Shift(g) /\ g[r][x] + Shift(g) >= 1 /\ g[r][x] \in Int
    BY <1>1, <1>2, <1>3, <1>4
  <2> QED BY <1>2, <2>1
<1>5. CASE x \notin 1 .. w
  <2>1. PICK i \in 1 .. h : x = w + i
    <3>1. x - w \in 1 .. h /\ x = w + (x - w)
      BY <1>1, <1>5
    <3> QED BY <3>1
  <2> QED BY <1>3, <2>1
<1> QED BY <1>4, <1>5

LEMMA ColumnOpen ==
    ASSUME NEW h, NEW w, NEW g, IsMatrix(h, w, g), NEW T, T = Tableau(g), NEW x \in 1 .. w + h
    PROVE  \E r \in 1 .. h : T[r][x] > 0
<1>1. h \in Nat \ {0} /\ w \in Nat \ {0} /\ \A i \in 1 .. h : \A j \in 1 .. w : g[i][j] \in Int
  BY Shape
<1>2. Shift(g) \in Int /\ \A i \in 1 .. h : \A j \in 1 .. w : g[i][j] + Shift(g) >= 1
  BY ShiftRaises
<1>3. \A r \in 1 .. h : /\ \A j \in 1 .. w : T[r][j] = g[r][j] + Shift(g)
                        /\ \A i \in 1 .. h : T[r][w + i] = IF i = r THEN 1 ELSE 0
  BY FirstTableau
<1>4. CASE x \in 1 .. w
  <2>0. 1 \in 1 .. h
    BY <1>1
  <2>1. T[1][x] = g[1][x] + Shift(g) /\ g[1][x] + Shift(g) >= 1 /\ g[1][x] \in Int
    BY <1>1, <1>2, <1>3, <1>4, <2>0
  <2> QED BY <1>2, <2>0, <2>1
<1>5. CASE x \notin 1 .. w
  <2>1. PICK i \in 1 .. h : x = w + i
    <3>1. x - w \in 1 .. h /\ x = w + (x - w)
      BY <1>1, <1>5
    <3> QED BY <3>1
  <2>2. T[i][x] = 1
    BY <1>3, <2>1
  <2> QED BY <2>2
<1> QED BY <1>4, <1>5

LEMMA RowOpen ==
    ASSUME NEW h, NEW w, NEW g, IsMatrix(h, w, g), NEW z, z = w + h + 1,
           NEW tab, NEW d, NEW b, Reached(h, w, g, tab, d, b), NEW c \in 1 .. w + h
    PROVE  \E r \in 1 .. h : tab[r][c] > 0
<1>0. PICK T : T = Tableau(g)
  OBVIOUS
<1>1. h \in Nat /\ w \in Nat /\ z \in Nat /\ c \in 1 .. z
  BY Shape
<1>2. Feasible(h, w, z, tab, d, b) /\ Spans(h, z, tab, d, b, T, 1)
  BY <1>0 DEF Reached
<1>3. Canonical(h, z, tab, d, b) /\ b \in [1 .. h -> 1 .. w + h]
  BY <1>2 DEF Feasible
<1>4. IsTable(h, z, tab) /\ d \in Nat \ {0} /\ b \in [1 .. h -> 1 .. z]
  BY <1>3 DEF Canonical
<1>5. IsTable(h, z, T)
  BY <1>0, FirstTableau
<1>6. PICK i \in 1 .. h : T[i][c] > 0
  BY <1>0, ColumnOpen
<1>7. i \in 1 .. h + 1 /\ i # h + 1
  BY <1>1
<1>8. Spanned(h, z, T[i], 0, tab, d, b) /\ T[i] \in [1 .. z -> Int]
  BY <1>2, <1>5, <1>7 DEF Spans, IsTable
<1> DEFINE S == Weighed(h, T[i], tab, b, c)
<1>9. /\ S \in [1 .. h -> Int] /\ Total(S) \in Int /\ tab[h + 1][c] \in Int /\ T[i][c] \in Int
      /\ \A r \in 1 .. h : tab[r][c] \in Int
  BY <1>1, <1>4, <1>8, WeighedInt
<1>10. IsShare(d, T[i][c], 0, tab[h + 1][c], Total(S))
  BY <1>1, <1>8 DEF Spanned
<1>11. Total(S) > 0
  <2>1. d * T[i][c] = 0 * tab[h + 1][c] + Total(S)
    BY <1>10 DEF IsShare
  <2>2. \A j \in Int : 0 * j = 0
    OBVIOUS
  <2>3. \A j \in Int : j > 0 => d * j > 0
    BY <1>4
  <2> HIDE DEF S
  <2>4. d * T[i][c] > 0
    BY <1>6, <1>9, <2>3
  <2>5. 0 * tab[h + 1][c] = 0
    BY <1>9, <2>2
  <2> QED BY <1>9, <2>1, <2>4, <2>5
<1>12. SUFFICES ASSUME \A r \in 1 .. h : tab[r][c] <= 0 PROVE FALSE
  BY <1>9
<1> DEFINE N == [r \in 1 .. h |-> 0]
<1>13. ASSUME NEW r \in 1 .. h PROVE S[r] <= N[r]
  <2>1. S[r] = T[i][b[r]] * tab[r][c]
    BY DEF Weighed
  <2>2. b[r] \in 1 .. w + h
    BY <1>3
  <2>3. T[i][b[r]] \in Int /\ T[i][b[r]] >= 0
    BY <1>0, <2>2, FirstEntries
  <2>4. tab[r][c] \in Int /\ tab[r][c] <= 0
    BY <1>9, <1>12
  <2>5. \A u, v \in Int : u >= 0 /\ v <= 0 => u * v <= 0
    OBVIOUS
  <2> QED BY <2>1, <2>3, <2>4, <2>5
<1>14. N \in [1 .. h -> Int] /\ \A r \in 1 .. h : N[r] = 0
  OBVIOUS
<1> HIDE DEF N, S
<1>15. Total(S) <= Total(N)
  BY <1>1, <1>9, <1>13, <1>14, TotalMost
<1>16. Total(N) = 0
  BY <1>1, <1>14, TotalOfNone
<1> QED BY <1>9, <1>11, <1>15, <1>16

-----------------------------------------------------------------------------
(* A sum over the basis is one over the columns.                            *)

DifferAt(m, q, p, k) ==
    q \in [1 .. m -> Int] /\ p \in [1 .. m -> Int] /\ \A i \in 1 .. m : i # k => q[i] = p[i]

LEMMA TotalDiffers ==
    ASSUME NEW m \in Nat, NEW q, NEW p, NEW k \in 1 .. m, DifferAt(m, q, p, k)
    PROVE  Total(q) = Total(p) + q[k] - p[k]
  BY TotalBut DEF DifferAt

\* p has at a column in the basis what q has at its row, and nothing at the
\* others; q has nothing at the rows of the slacks.
InColumns(m, w, b, q, p) ==
    /\ b \in [1 .. m -> Nat \ {0}]
    /\ \A r, i \in 1 .. m : b[r] = b[i] => r = i
    /\ \A r \in 1 .. m : b[r] > w => q[r] = 0
    /\ \A j \in 1 .. w : \/ \E r \in 1 .. m : b[r] = j /\ p[j] = q[r]
                         \/ p[j] = 0 /\ \A r \in 1 .. m : b[r] # j

LEMMA OverColumns ==
    ASSUME NEW m \in Nat, NEW w \in Nat, NEW q \in [1 .. m -> Int], NEW p \in [1 .. w -> Int], NEW b,
           InColumns(m, w, b, q, p)
    PROVE  Total(q) = Total(p)
<1>0. /\ b \in [1 .. m -> Nat \ {0}]
      /\ \A r, i \in 1 .. m : b[r] = b[i] => r = i
      /\ \A r \in 1 .. m : b[r] > w => q[r] = 0
      /\ \A j \in 1 .. w : \/ \E r \in 1 .. m : b[r] = j /\ p[j] = q[r]
                           \/ p[j] = 0 /\ \A r \in 1 .. m : b[r] # j
  BY DEF InColumns
<1>1. PICK G : Sums(p, w, G) /\ G[w] = Total(p) /\ \A j \in 0 .. w : G[j] \in Int
  BY TotalIs
<1> DEFINE U(k) == [r \in 1 .. m |-> IF b[r] <= k THEN q[r] ELSE 0]
           P == {k \in Nat : k <= w => Total(U(k)) = G[k]}
<1>2. \A k \in Nat : /\ U(k) \in [1 .. m -> Int]
                     /\ \A r \in 1 .. m : U(k)[r] = IF b[r] <= k THEN q[r] ELSE 0
  OBVIOUS
<1>3. 0 \in P
  <2>1. \A r \in 1 .. m : U(0)[r] = 0
    BY <1>0, <1>2
  <2>2. U(0) \in [1 .. m -> Int]
    BY <1>2
  <2> HIDE DEF U
  <2>3. Total(U(0)) = 0
    BY <2>1, <2>2, TotalOfNone
  <2> QED BY <1>1, <2>3 DEF Sums
<1>4. ASSUME NEW k \in Nat, k \in P PROVE k + 1 \in P
  <2>0. PICK n \in Nat : n = k + 1
    OBVIOUS
  <2>1. SUFFICES ASSUME n <= w PROVE Total(U(n)) = G[n]
    BY <2>0
  <2>2. n \in 1 .. w /\ n - 1 = k /\ k <= w /\ k \in 0 .. w
    BY <2>0, <2>1
  <2>3. G[n] = G[k] + p[n] /\ G[k] \in Int /\ p[n] \in Int
    BY <1>1, <2>2 DEF Sums
  <2>4. Total(U(k)) = G[k]
    BY <1>4, <2>2
  <2>5. \A r \in 1 .. m : b[r] \in Nat /\ (b[r] <= n <=> b[r] <= k \/ b[r] = n) /\ ~(n <= k)
    BY <1>0, <2>0
  <2>6. U(n) \in [1 .. m -> Int] /\ U(k) \in [1 .. m -> Int]
    BY <1>2
  <2>7. /\ \A r \in 1 .. m : U(n)[r] = IF b[r] <= n THEN q[r] ELSE 0
        /\ \A r \in 1 .. m : U(k)[r] = IF b[r] <= k THEN q[r] ELSE 0
    BY <1>2, <2>0
  <2>8. CASE \E r \in 1 .. m : b[r] = n /\ p[n] = q[r]
    <3>1. PICK r \in 1 .. m : b[r] = n /\ p[n] = q[r]
      BY <2>8
    <3> HIDE DEF U
    <3>2. \A i \in 1 .. m : i # r => U(n)[i] = U(k)[i]
      BY <1>0, <2>5, <2>7, <3>1
    <3>3. U(n)[r] = p[n] /\ U(k)[r] = 0
      BY <1>0, <2>5, <2>7, <3>1
    <3>4. Total(U(n)) = Total(U(k)) + U(n)[r] - U(k)[r]
      <4>1. PICK new : new = U(n)
        OBVIOUS
      <4>2. PICK old : old = U(k)
        OBVIOUS
      <4>3. new \in [1 .. m -> Int] /\ old \in [1 .. m -> Int] /\ \A i \in 1 .. m : i # r => new[i] = old[i]
        BY <2>6, <3>2, <4>1, <4>2
      <4>4. Total(new) = Total(old) + new[r] - old[r]
        <5>1. r \in 1 .. m /\ m \in Nat
          OBVIOUS
        <5>2. DifferAt(m, new, old, r)
          BY <4>3 DEF DifferAt
        <5> QED BY <5>1, <5>2, TotalDiffers
      <4> QED BY <4>1, <4>2, <4>4
    <3> QED BY <2>3, <2>4, <3>3, <3>4
  <2>9. CASE p[n] = 0 /\ \A r \in 1 .. m : b[r] # n
    <3>1. \A i \in 1 .. m : U(n)[i] = U(k)[i]
      BY <2>5, <2>7, <2>9
    <3> HIDE DEF U
    <3>2. U(n) = U(k)
      BY <2>6, <3>1
    <3> QED BY <2>3, <2>4, <2>9, <3>2
  <2> QED BY <1>0, <2>2, <2>8, <2>9
<1>5. U(w) = q
  <2>1. U(w) \in [1 .. m -> Int]
    BY <1>2
  <2>2. \A r \in 1 .. m : U(w)[r] = q[r]
    BY <1>0, <1>2
  <2> HIDE DEF U
  <2> QED BY <2>1, <2>2
<1> HIDE DEF P
<1>6. w \in P
  BY <1>3, <1>4, Counting
<1>7. Total(U(w)) = G[w]
  BY <1>6 DEF P
<1> QED BY <1>1, <1>5, <1>7

-----------------------------------------------------------------------------
(* Nothing improves: both strategies are optimal.                           *)

LEMMA RowWeightsAre ==
    ASSUME NEW h, NEW w, NEW g, IsMatrix(h, w, g), NEW z, z = w + h + 1,
           NEW tab, NEW d, NEW b, Reached(h, w, g, tab, d, b), NEW X, X = RowWeights(g, tab)
    PROVE  /\ X \in [1 .. h -> Int] /\ \A i \in 1 .. h : X[i] = tab[h + 1][w + i]
           /\ Total(X) = tab[h + 1][z] /\ Total(X) \in Int
<1>0. PICK T : T = Tableau(g)
  OBVIOUS
<1>1. /\ h \in Nat /\ w \in Nat /\ z \in Nat \ {0} /\ z \in Nat /\ z \in 1 .. z
      /\ Height(g) = h /\ Width(g) = w /\ Objective(g) = h + 1
  BY Shape
<1>2. Feasible(h, w, z, tab, d, b) /\ Spans(h, z, T, 1, FirstBasis(h, w), tab, d)
  BY <1>0 DEF Reached
<1>3. Canonical(h, z, tab, d, b) /\ Canonical(h, z, T, 1, FirstBasis(h, w))
  BY <1>0, <1>2, FirstCanonical DEF Feasible
<1>4. IsTable(h, z, tab) /\ d \in Nat \ {0} /\ IsTable(h, z, T) /\ FirstBasis(h, w) \in [1 .. h -> 1 .. z]
  BY <1>3 DEF Canonical
<1>5. h + 1 \in 1 .. h + 1 /\ tab[h + 1] \in [1 .. z -> Int]
  BY <1>1, <1>4 DEF IsTable
<1>6. Spanned(h, z, tab[h + 1], d, T, 1, FirstBasis(h, w))
  BY <1>2, <1>5 DEF Spans
<1> DEFINE S == Weighed(h, tab[h + 1], T, FirstBasis(h, w), z)
<1>7. S \in [1 .. h -> Int] /\ Total(S) \in Int /\ tab[h + 1][z] \in Int /\ T[h + 1][z] \in Int
  <2>1. PICK u : u = tab[h + 1]
    OBVIOUS
  <2>2. PICK o : o = FirstBasis(h, w)
    OBVIOUS
  <2>3. u \in [1 .. z -> Int] /\ o \in [1 .. h -> 1 .. z]
    BY <1>4, <1>5, <2>1, <2>2
  <2>4. PICK x \in 1 .. z : x = z
    BY <1>1
  <2>6. h \in Nat /\ z \in Nat
    BY <1>1
  <2>5. /\ Weighed(h, u, T, o, x) \in [1 .. h -> Int] /\ Total(Weighed(h, u, T, o, x)) \in Int
        /\ T[h + 1][x] \in Int /\ u[x] \in Int
    BY <1>4, <2>3, <2>6, WeighedInt
  <2> QED BY <2>1, <2>2, <2>4, <2>5
<1>8. X = [i \in 1 .. h |-> tab[h + 1][w + i]]
  BY <1>1 DEF RowWeights
<1>9. \A i \in 1 .. h : w + i \in 1 .. z
  BY <1>1
<1>10. X \in [1 .. h -> Int] /\ \A i \in 1 .. h : X[i] = tab[h + 1][w + i]
  BY <1>5, <1>8, <1>9
<1>11. S = X
  <2>1. ASSUME NEW i \in 1 .. h PROVE S[i] = X[i]
    <3>1. S[i] = tab[h + 1][w + i] * T[i][z]
      BY DEF Weighed, FirstBasis
    <3>2. T[i][z] = 1
      BY <1>0, FirstTableau
    <3>3. X[i] = tab[h + 1][w + i] /\ X[i] \in Int
      BY <1>10
    <3> HIDE DEF S
    <3>4. S[i] = X[i] * 1
      BY <3>1, <3>2, <3>3
    <3> QED BY <3>3, <3>4
  <2> HIDE DEF S
  <2>2. S = [i \in 1 .. h |-> S[i]] /\ X = [i \in 1 .. h |-> X[i]]
    BY <1>7, <1>10
  <2>3. [i \in 1 .. h |-> S[i]] = [i \in 1 .. h |-> X[i]]
    BY <2>1
  <2> QED BY <2>2, <2>3
<1>12. IsShare(1, tab[h + 1][z], d, T[h + 1][z], Total(S))
  BY <1>1, <1>6 DEF Spanned
<1> HIDE DEF S
<1>13. T[h + 1][z] = 0
  BY <1>0, FirstTableau
<1>14. 1 * tab[h + 1][z] = d * 0 + Total(S)
  BY <1>12, <1>13 DEF IsShare
<1>15. d * 0 = 0
  BY <1>4
<1> QED BY <1>7, <1>10, <1>11, <1>14, <1>15

\* The column weights are the rhs of the columns in the basis.
LEMMA ColWeightsAre ==
    ASSUME NEW h, NEW w, NEW g, IsMatrix(h, w, g), NEW z, z = w + h + 1,
           NEW tab, NEW d, NEW b, Feasible(h, w, z, tab, d, b), NEW W, W = ColWeights(g, tab, b)
    PROVE  /\ W \in [1 .. w -> Int]
           /\ \A j \in 1 .. w : /\ W[j] >= 0
                                /\ \/ \E r \in 1 .. h : b[r] = j /\ W[j] = tab[r][z]
                                   \/ W[j] = 0 /\ \A r \in 1 .. h : b[r] # j
<1>1. h \in Nat /\ w \in Nat /\ z \in Nat /\ z \in 1 .. z /\ Width(g) = w /\ Rhs(g) = z
  BY Shape
<1>2. Canonical(h, z, tab, d, b) /\ b \in [1 .. h -> 1 .. w + h] /\ \A r \in 1 .. h : tab[r][z] >= 0
  BY DEF Feasible
<1>3. \A r \in 1 .. h : tab[r][z] \in Int
  <2>1. \A r \in 1 .. h : r \in 1 .. h + 1
    BY <1>1
  <2> QED BY <1>1, <1>2, <2>1 DEF Canonical, IsTable
<1>4. DOMAIN b = 1 .. h
  BY <1>2
<1>5. W = [j \in 1 .. w |-> IF \E r \in 1 .. h : b[r] = j
                            THEN tab[CHOOSE r \in 1 .. h : b[r] = j][z] ELSE 0]
  BY <1>1, <1>4 DEF ColWeights
<1>6. ASSUME NEW j \in 1 .. w
      PROVE  /\ W[j] \in Int /\ W[j] >= 0
             /\ \/ \E r \in 1 .. h : b[r] = j /\ W[j] = tab[r][z]
                \/ W[j] = 0 /\ \A r \in 1 .. h : b[r] # j
  <2>1. CASE \E r \in 1 .. h : b[r] = j
    <3>1. PICK r \in 1 .. h : b[r] = j /\ W[j] = tab[r][z]
      <4>1. PICK i : i = CHOOSE r \in 1 .. h : b[r] = j
        OBVIOUS
      <4>2. i \in 1 .. h /\ b[i] = j
        BY <2>1, <4>1
      <4>3. W[j] = tab[i][z]
        BY <1>5, <2>1, <4>1
      <4> QED BY <4>2, <4>3
    <3> QED BY <1>2, <1>3, <3>1
  <2>2. CASE ~(\E r \in 1 .. h : b[r] = j)
    <3>1. W[j] = 0
      BY <1>5, <2>2
    <3> QED BY <2>2, <3>1
  <2> QED BY <2>1, <2>2
<1>7. W = [j \in 1 .. w |-> W[j]]
  BY <1>5
<1> QED BY <1>6, <1>7

\* The rhs at the rows of columns, and at the columns, times u.
RhsOver(h, w, z, u, tab, b) == [r \in 1 .. h |-> IF b[r] <= w THEN u[b[r]] * tab[r][z] ELSE 0]
Products(w, u, W)           == [j \in 1 .. w |-> u[j] * W[j]]

\* A row of the tableau's rhs, weighed: what it comes to over the columns.
LEMMA WeighedOverColumns ==
    ASSUME NEW h, NEW w, NEW g, IsMatrix(h, w, g), NEW z, z = w + h + 1,
           NEW tab, NEW d, NEW b, Feasible(h, w, z, tab, d, b), NEW W, W = ColWeights(g, tab, b),
           NEW u \in [1 .. z -> Int], NEW q, q = RhsOver(h, w, z, u, tab, b), NEW p, p = Products(w, u, W)
    PROVE  q \in [1 .. h -> Int] /\ p \in [1 .. w -> Int] /\ Total(q) = Total(p)
<1>1. h \in Nat /\ w \in Nat /\ z \in Nat /\ z \in 1 .. z
  BY Shape
<1>2. Canonical(h, z, tab, d, b) /\ b \in [1 .. h -> 1 .. w + h] /\ \A r \in 1 .. h : tab[r][z] >= 0
  BY DEF Feasible
<1>3. \A r \in 1 .. h : tab[r][z] \in Int
  <2>1. \A r \in 1 .. h : r \in 1 .. h + 1
    BY <1>1
  <2> QED BY <1>1, <1>2, <2>1 DEF Canonical, IsTable
<1>4. /\ W \in [1 .. w -> Int]
      /\ \A j \in 1 .. w : \/ \E r \in 1 .. h : b[r] = j /\ W[j] = tab[r][z]
                           \/ W[j] = 0 /\ \A r \in 1 .. h : b[r] # j
  BY ColWeightsAre
<1>5. /\ \A r \in 1 .. h : b[r] \in 1 .. w + h /\ b[r] \in 1 .. z /\ u[b[r]] \in Int
      /\ \A j \in 1 .. w : j \in 1 .. z /\ u[j] \in Int
  BY <1>1, <1>2
<1>6. \A i, j \in Int : i * j \in Int /\ i * 0 = 0
  OBVIOUS
<1>0. /\ q = [r \in 1 .. h |-> IF b[r] <= w THEN u[b[r]] * tab[r][z] ELSE 0]
      /\ p = [j \in 1 .. w |-> u[j] * W[j]]
  BY DEF RhsOver, Products
<1>7. q \in [1 .. h -> Int]
  <2>1. \A r \in 1 .. h : u[b[r]] * tab[r][z] \in Int
    BY <1>3, <1>5, <1>6
  <2> QED BY <1>0, <2>1
<1>8. p \in [1 .. w -> Int]
  <2>1. \A j \in 1 .. w : u[j] * W[j] \in Int
    BY <1>4, <1>5, <1>6
  <2> QED BY <1>0, <2>1
<1>9. b \in [1 .. h -> Nat \ {0}] /\ \A r, i \in 1 .. h : b[r] = b[i] => r = i
  <2>1. b \in [1 .. h -> Nat \ {0}]
    BY <1>1, <1>2
  <2>2. ASSUME NEW r \in 1 .. h, NEW i \in 1 .. h, r # i PROVE b[r] # b[i]
    <3>1. h \in Nat /\ z \in Nat
      BY <1>1
    <3> QED BY <1>2, <2>2, <3>1, BasisDiffers
  <2> QED BY <2>1, <2>2
<1>10. \A r \in 1 .. h : b[r] > w => q[r] = 0
  BY <1>0, <1>1, <1>5
<1>11. ASSUME NEW j \in 1 .. w
       PROVE  \/ \E r \in 1 .. h : b[r] = j /\ p[j] = q[r]
              \/ p[j] = 0 /\ \A r \in 1 .. h : b[r] # j
  <2>1. p[j] = u[j] * W[j]
    BY <1>0
  <2>2. CASE \E r \in 1 .. h : b[r] = j /\ W[j] = tab[r][z]
    <3>1. PICK r \in 1 .. h : b[r] = j /\ W[j] = tab[r][z]
      BY <2>2
    <3>2. b[r] <= w
      BY <3>1
    <3>3. q[r] = u[b[r]] * tab[r][z]
      BY <1>0, <3>2
    <3>4. p[j] = q[r]
      BY <2>1, <3>1, <3>3
    <3> QED BY <3>1, <3>4
  <2>3. CASE W[j] = 0 /\ \A r \in 1 .. h : b[r] # j
    <3>1. p[j] = 0
      BY <1>5, <1>6, <2>1, <2>3
    <3> QED BY <2>3, <3>1
  <2> QED BY <1>4, <2>2, <2>3
<1>12. Total(q) = Total(p)
  <2>1. InColumns(h, w, b, q, p)
    BY <1>9, <1>10, <1>11 DEF InColumns
  <2> QED BY <1>1, <1>7, <1>8, <2>1, OverColumns
<1> QED BY <1>7, <1>8, <1>12

-----------------------------------------------------------------------------
\* Both strategies weigh the same: what the objective has at the rhs.
LEMMA ColumnsWeighSame ==
    ASSUME NEW h, NEW w, NEW g, IsMatrix(h, w, g), NEW z, z = w + h + 1,
           NEW tab, NEW d, NEW b, Reached(h, w, g, tab, d, b), NEW W, W = ColWeights(g, tab, b)
    PROVE  Total(W) = tab[h + 1][z]
<1>0. PICK T : T = Tableau(g)
  OBVIOUS
<1>1. h \in Nat /\ w \in Nat /\ z \in Nat /\ 1 \in Int
  BY Shape
<1>2. PICK x \in 1 .. z : x = z
  BY Shape
<1>3. Feasible(h, w, z, tab, d, b) /\ Spans(h, z, tab, d, b, T, 1)
  BY <1>0 DEF Reached
<1>4. Canonical(h, z, tab, d, b) /\ b \in [1 .. h -> 1 .. w + h]
  BY <1>3 DEF Feasible
<1>5. IsTable(h, z, tab) /\ d \in Nat \ {0} /\ b \in [1 .. h -> 1 .. z]
  BY <1>4 DEF Canonical
<1>6. /\ IsTable(h, z, T) /\ T[h + 1][z] = 0
      /\ \A j \in 1 .. w : T[h + 1][j] = -1
      /\ \A i \in 1 .. h : T[h + 1][w + i] = 0
  BY <1>0, FirstTableau
<1>7. PICK u : u = T[h + 1]
  OBVIOUS
<1>8. u \in [1 .. z -> Int] /\ Spanned(h, z, u, 1, tab, d, b)
  <2>1. h + 1 \in 1 .. h + 1
    BY <1>1
  <2> QED BY <1>3, <1>6, <1>7, <2>1 DEF IsTable, Spans
<1> DEFINE S == Weighed(h, u, tab, b, x)
<1> PICK q : q = RhsOver(h, w, z, u, tab, b)
  OBVIOUS
<1> PICK p : p = Products(w, u, W)
  OBVIOUS
<1>9. /\ S \in [1 .. h -> Int] /\ Total(S) \in Int /\ tab[h + 1][x] \in Int
      /\ \A r \in 1 .. h : tab[r][x] \in Int
  BY <1>1, <1>5, <1>8, WeighedInt
<1>10. IsShare(d, u[x], 1, tab[h + 1][x], Total(S))
  BY <1>8 DEF Spanned
<1>11. q \in [1 .. h -> Int] /\ p \in [1 .. w -> Int] /\ Total(q) = Total(p)
  BY <1>3, <1>8, WeighedOverColumns
<1>12. S = q
  <2>1. ASSUME NEW r \in 1 .. h PROVE S[r] = q[r]
    <3>1. S[r] = u[b[r]] * tab[r][x]
      BY DEF Weighed
    <3>2. q[r] = IF b[r] <= w THEN u[b[r]] * tab[r][x] ELSE 0
      BY <1>2 DEF RhsOver
    <3>3. CASE b[r] <= w
      <4> HIDE DEF S
      <4> QED BY <3>1, <3>2, <3>3
    <3>4. CASE ~(b[r] <= w)
      <4>1. PICK i \in 1 .. h : b[r] = w + i
        <5>1. b[r] \in 1 .. w + h
          BY <1>4
        <5>2. b[r] - w \in 1 .. h /\ b[r] = w + (b[r] - w)
          BY <1>1, <3>4, <5>1
        <5> QED BY <5>2
      <4>2. u[b[r]] = 0 /\ tab[r][x] \in Int
        BY <1>6, <1>7, <1>9, <4>1
      <4>3. \A j \in Int : 0 * j = 0
        OBVIOUS
      <4> HIDE DEF S
      <4> QED BY <3>1, <3>2, <3>4, <4>2, <4>3
    <3> QED BY <3>3, <3>4
  <2> HIDE DEF S
  <2>2. S = [i \in 1 .. h |-> S[i]] /\ q = [i \in 1 .. h |-> q[i]]
    BY <1>9, <1>11
  <2>3. [i \in 1 .. h |-> S[i]] = [i \in 1 .. h |-> q[i]]
    BY <2>1
  <2> QED BY <2>2, <2>3
<1>13. W \in [1 .. w -> Int]
  BY <1>3, ColWeightsAre
<1>14. \A j \in 1 .. w : IsMix(p[j], -1, W[j], 0, W[j])
  <2>1. \A j \in 1 .. w : u[j] = -1 /\ W[j] \in Int
    BY <1>6, <1>7, <1>13
  <2>2. \A i \in Int : (-1) * i = (-1) * i + 0 * i
    OBVIOUS
  <2>3. \A j \in 1 .. w : p[j] = (-1) * W[j]
    BY <2>1 DEF Products
  <2> QED BY <2>1, <2>2, <2>3 DEF IsMix
<1> HIDE DEF S
<1>15. IsMix(Total(p), -1, Total(W), 0, Total(W)) /\ Total(W) \in Int
  <2>1. PICK n \in Int : n = -1
    OBVIOUS
  <2>2. \A j \in 1 .. w : IsMix(p[j], n, W[j], 0, W[j])
    BY <1>14, <2>1
  <2>3. 0 \in Int
    OBVIOUS
  <2>4. IsMix(Total(p), n, Total(W), 0, Total(W))
    BY <1>1, <1>11, <1>13, <2>2, <2>3, TotalLinear
  <2> QED BY <1>1, <1>13, <2>1, <2>4, TotalInt
<1>16. Total(p) = -Total(W)
  BY <1>15 DEF IsMix
<1>17. d * 0 = 1 * tab[h + 1][x] + Total(S)
  BY <1>2, <1>6, <1>7, <1>10 DEF IsShare
<1>18. d * 0 = 0
  BY <1>5
<1> QED BY <1>2, <1>9, <1>11, <1>12, <1>15, <1>16, <1>17, <1>18

\* What the weights of the rows make of column j, and those of the columns of
\* row i.
DownColumn(h, X, g, j) == [i \in 1 .. h |-> X[i] * g[i][j]]
AlongRow(w, W, g, i)   == [j \in 1 .. w |-> W[j] * g[i][j]]

\* What the rows' strategy wins at a column, when nothing improves.
LEMMA RowsWin ==
    ASSUME NEW h, NEW w, NEW g, IsMatrix(h, w, g), NEW z, z = w + h + 1,
           NEW tab, NEW d, NEW b, Reached(h, w, g, tab, d, b), NEW X, X = RowWeights(g, tab),
           NEW j \in 1 .. w, tab[h + 1][j] >= 0,
           NEW q, q = DownColumn(h, X, g, j), NEW p, p = DownColumn(h, X, Tableau(g), j)
    PROVE  /\ q \in [1 .. h -> Int] /\ p \in [1 .. h -> Int] /\ Total(q) \in Int /\ Total(p) \in Int
           /\ IsMix(Total(p), 1, Total(q), Shift(g), Total(X)) /\ Total(p) >= d
<1>0. PICK T : T = Tableau(g)
  OBVIOUS
<1>1. h \in Nat /\ w \in Nat /\ z \in Nat /\ j \in 1 .. z /\ 1 \in Int
  BY Shape
<1>2. Feasible(h, w, z, tab, d, b) /\ Spans(h, z, T, 1, FirstBasis(h, w), tab, d)
  BY <1>0 DEF Reached
<1>3. Canonical(h, z, tab, d, b) /\ Canonical(h, z, T, 1, FirstBasis(h, w))
  BY <1>0, <1>2, FirstCanonical DEF Feasible
<1>4. PICK o : o = FirstBasis(h, w)
  OBVIOUS
<1>5. IsTable(h, z, tab) /\ d \in Nat \ {0} /\ IsTable(h, z, T) /\ o \in [1 .. h -> 1 .. z]
  BY <1>3, <1>4 DEF Canonical
<1>6. PICK u : u = tab[h + 1]
  OBVIOUS
<1>7. u \in [1 .. z -> Int] /\ Spanned(h, z, u, d, T, 1, o)
  <2>1. h + 1 \in 1 .. h + 1
    BY <1>1
  <2> QED BY <1>2, <1>4, <1>5, <1>6, <2>1 DEF Spans, IsTable
<1> DEFINE S == Weighed(h, u, T, o, j)
<1>8. /\ S \in [1 .. h -> Int] /\ Total(S) \in Int /\ u[j] \in Int /\ T[h + 1][j] \in Int
      /\ \A r \in 1 .. h : T[r][j] \in Int
  BY <1>1, <1>5, <1>7, WeighedInt
<1>9. X \in [1 .. h -> Int] /\ (\A i \in 1 .. h : X[i] = u[w + i]) /\ Total(X) \in Int
  BY <1>6, RowWeightsAre
<1>10. S = p
  <2>1. S = [i \in 1 .. h |-> u[w + i] * T[i][j]]
    <3>1. \A i \in 1 .. h : o[i] = w + i
      BY <1>4 DEF FirstBasis
    <3> QED BY <3>1 DEF Weighed
  <2> QED BY <1>0, <1>9, <2>1 DEF DownColumn
<1>11. /\ T[h + 1][j] = -1 /\ \A i \in 1 .. h : T[i][j] = g[i][j] + Shift(g)
  BY <1>0, FirstTableau
<1>12. Shift(g) \in Int
  BY ShiftRaises
<1>13. \A i \in 1 .. h : g[i][j] \in Int
  BY Shape
<1>14. q \in [1 .. h -> Int]
  <2>1. \A i, k \in Int : i * k \in Int
    OBVIOUS
  <2>2. \A i \in 1 .. h : X[i] * g[i][j] \in Int
    BY <1>9, <1>13, <2>1
  <2> QED BY <2>2 DEF DownColumn
<1>15. ASSUME NEW i \in 1 .. h PROVE IsMix(p[i], 1, q[i], Shift(g), X[i])
  <2>1. X[i] \in Int /\ g[i][j] \in Int
    BY <1>9, <1>13
  <2>2. p[i] = X[i] * (g[i][j] + Shift(g)) /\ q[i] = X[i] * g[i][j]
    BY <1>0, <1>11 DEF DownColumn
  <2>3. \A x, y, s \in Int : x * (y + s) = 1 * (x * y) + s * x
    OBVIOUS
  <2>4. p[i] = 1 * q[i] + Shift(g) * X[i]
    BY <1>12, <2>1, <2>2, <2>3
  <2> QED BY <2>4 DEF IsMix
<1>16. p \in [1 .. h -> Int]
  BY <1>8, <1>10
<1> HIDE DEF S
<1>17. IsMix(Total(p), 1, Total(q), Shift(g), Total(X))
  <2>1. PICK s \in Int : s = Shift(g)
    BY <1>12
  <2>2. \A i \in 1 .. h : IsMix(p[i], 1, q[i], s, X[i])
    BY <1>15, <2>1
  <2>3. IsMix(Total(p), 1, Total(q), s, Total(X))
    BY <1>1, <1>9, <1>14, <1>16, <2>2, TotalLinear
  <2> QED BY <2>1, <2>3
<1>18. IsShare(1, u[j], d, T[h + 1][j], Total(S))
  <2>1. PICK x \in 1 .. z : x = j
    BY <1>1
  <2>2. IsShare(1, u[x], d, T[h + 1][x], Total(Weighed(h, u, T, o, x)))
    BY <1>7 DEF Spanned
  <2> QED BY <2>1, <2>2 DEF S
<1>19. 1 * u[j] = d * (-1) + Total(S)
  BY <1>11, <1>18 DEF IsShare
<1>20. d * (-1) = -d /\ d \in Int
  BY <1>5
<1>21. Total(p) >= d
  BY <1>6, <1>8, <1>10, <1>19, <1>20
<1> QED BY <1>1, <1>14, <1>16, <1>17, <1>21, TotalInt

\* What the columns' strategy loses at a row.
LEMMA ColumnsLose ==
    ASSUME NEW h, NEW w, NEW g, IsMatrix(h, w, g), NEW z, z = w + h + 1,
           NEW tab, NEW d, NEW b, Reached(h, w, g, tab, d, b), NEW W, W = ColWeights(g, tab, b),
           NEW i \in 1 .. h, NEW t, t = AlongRow(w, W, g, i)
    PROVE  /\ t \in [1 .. w -> Int] /\ Total(t) \in Int
           /\ \E s \in Int : IsMix(s, 1, Total(t), Shift(g), Total(W)) /\ s <= d
<1>0. PICK T : T = Tableau(g)
  OBVIOUS
<1>1. h \in Nat /\ w \in Nat /\ z \in Nat /\ 0 \in Int /\ 1 \in Int
  BY Shape
<1>2. PICK x \in 1 .. z : x = z
  BY Shape
<1>3. Feasible(h, w, z, tab, d, b) /\ Spans(h, z, tab, d, b, T, 1)
  BY <1>0 DEF Reached
<1>4. Canonical(h, z, tab, d, b) /\ b \in [1 .. h -> 1 .. w + h] /\ \A r \in 1 .. h : tab[r][z] >= 0
  BY <1>3 DEF Feasible
<1>5. IsTable(h, z, tab) /\ d \in Nat \ {0} /\ b \in [1 .. h -> 1 .. z]
  BY <1>4 DEF Canonical
<1>6. /\ IsTable(h, z, T) /\ T[i][z] = 1 /\ \A j \in 1 .. w : T[i][j] = g[i][j] + Shift(g)
  BY <1>0, FirstTableau
<1>7. PICK u : u = T[i]
  OBVIOUS
<1>8. u \in [1 .. z -> Int] /\ Spanned(h, z, u, 0, tab, d, b)
  <2>1. i \in 1 .. h + 1 /\ i # h + 1
    BY <1>1
  <2> QED BY <1>3, <1>6, <1>7, <2>1 DEF IsTable, Spans
<1> DEFINE S == Weighed(h, u, tab, b, x)
<1> PICK q : q = RhsOver(h, w, z, u, tab, b)
  OBVIOUS
<1> PICK p : p = Products(w, u, W)
  OBVIOUS
<1>9. /\ S \in [1 .. h -> Int] /\ Total(S) \in Int /\ tab[h + 1][x] \in Int
      /\ \A r \in 1 .. h : tab[r][x] \in Int
  BY <1>1, <1>5, <1>8, WeighedInt
<1>10. IsShare(d, u[x], 0, tab[h + 1][x], Total(S))
  BY <1>8 DEF Spanned
<1>11. q \in [1 .. h -> Int] /\ p \in [1 .. w -> Int] /\ Total(q) = Total(p)
  BY <1>3, <1>8, WeighedOverColumns
<1>12. ASSUME NEW r \in 1 .. h PROVE q[r] <= S[r]
  <2>1. S[r] = u[b[r]] * tab[r][x]
    BY DEF Weighed
  <2>2. q[r] = IF b[r] <= w THEN u[b[r]] * tab[r][x] ELSE 0
    BY <1>2 DEF RhsOver
  <2>3. b[r] \in 1 .. w + h
    BY <1>4
  <2>4. u[b[r]] \in Int /\ u[b[r]] >= 0
    BY <1>0, <1>7, <2>3, FirstEntries
  <2>5. tab[r][x] \in Int /\ tab[r][x] >= 0
    BY <1>2, <1>4, <1>9
  <2>6. \A j, k \in Int : j >= 0 /\ k >= 0 => j * k \in Int /\ j * k >= 0
    OBVIOUS
  <2> HIDE DEF S
  <2>7. S[r] \in Int /\ S[r] >= 0
    BY <2>1, <2>4, <2>5, <2>6
  <2>8. CASE b[r] <= w
    <3>1. q[r] = S[r]
      BY <2>1, <2>2, <2>8
    <3> QED BY <2>7, <3>1
  <2>9. CASE ~(b[r] <= w)
    <3>1. q[r] = 0
      BY <2>2, <2>9
    <3> QED BY <2>7, <3>1
  <2> QED BY <2>8, <2>9
<1>13. W \in [1 .. w -> Int]
  BY <1>3, ColWeightsAre
<1>14. Shift(g) \in Int /\ \A j \in 1 .. w : g[i][j] \in Int
  BY Shape, ShiftRaises
<1>15. t \in [1 .. w -> Int]
  <2>1. \A j, k \in Int : j * k \in Int
    OBVIOUS
  <2>2. \A j \in 1 .. w : W[j] * g[i][j] \in Int
    BY <1>13, <1>14, <2>1
  <2> QED BY <2>2 DEF AlongRow
<1>16. ASSUME NEW j \in 1 .. w PROVE IsMix(p[j], 1, t[j], Shift(g), W[j])
  <2>1. W[j] \in Int /\ g[i][j] \in Int
    BY <1>13, <1>14
  <2>2. p[j] = (g[i][j] + Shift(g)) * W[j] /\ t[j] = W[j] * g[i][j]
    BY <1>6, <1>7 DEF AlongRow, Products
  <2>3. \A k, y, s \in Int : (y + s) * k = 1 * (k * y) + s * k
    OBVIOUS
  <2>4. p[j] = 1 * t[j] + Shift(g) * W[j]
    BY <1>14, <2>1, <2>2, <2>3
  <2> QED BY <2>4 DEF IsMix
<1> HIDE DEF S
<1>17. IsMix(Total(p), 1, Total(t), Shift(g), Total(W)) /\ Total(p) \in Int
  <2>1. PICK s \in Int : s = Shift(g)
    BY <1>14
  <2>2. \A j \in 1 .. w : IsMix(p[j], 1, t[j], s, W[j])
    BY <1>16, <2>1
  <2>3. IsMix(Total(p), 1, Total(t), s, Total(W))
    BY <1>1, <1>11, <1>13, <1>15, <2>2, TotalLinear
  <2> QED BY <1>1, <1>11, <2>1, <2>3, TotalInt
<1>18. Total(q) <= Total(S)
  BY <1>1, <1>9, <1>11, <1>12, TotalMost
<1>19. d * 1 = 0 * tab[h + 1][x] + Total(S)
  BY <1>2, <1>6, <1>7, <1>10 DEF IsShare
<1>20. 0 * tab[h + 1][x] = 0 /\ d * 1 = d /\ d \in Int
  BY <1>5, <1>9
<1>21. Total(p) <= d
  BY <1>9, <1>11, <1>17, <1>18, <1>19, <1>20
<1> QED BY <1>1, <1>15, <1>17, <1>21, TotalInt

-----------------------------------------------------------------------------
(* What a pivot does to the objective and to a rhs that is nothing.         *)

\* Types and signs: the objective is below 0 in the column, the rhs is not.
AllInt11(f, d, e, s, p, v, y, u, t, n, g) ==
    /\ f \in Nat \ {0} /\ d \in Nat \ {0} /\ e \in Int /\ s \in Nat \ {0} /\ p \in Int /\ p > 0
    /\ v \in Int /\ y \in Int /\ u \in Int /\ t \in Int /\ u < 0 /\ t >= 0 /\ n \in Int /\ n = -u
    /\ g \in Int

LEMMA ValueRises ==
    ASSUME NEW f, NEW d, NEW e, NEW s, NEW p, NEW v, NEW y, NEW u, NEW t, NEW n, NEW g,
           AllInt11(f, d, e, s, p, v, y, u, t, n, g),
           IsTimes(e, d, p), IsTimes(e, f, s), IsTimes(g, f, y), IsMix(g, p, v, n, t)
    PROVE  /\ AtMost(v, d, y, s)
           /\ AtMost(y, s, v, d) => t = 0
<1>0. /\ f \in Nat \ {0} /\ d \in Nat \ {0} /\ e \in Int /\ s \in Nat \ {0} /\ p \in Int /\ p > 0
      /\ v \in Int /\ y \in Int /\ u \in Int /\ t \in Int /\ u < 0 /\ t >= 0 /\ n \in Int /\ n = -u
      /\ g \in Int
  BY DEF AllInt11
<1>1. e = d * p /\ e = f * s /\ f * y = p * v + (-u) * t
  BY <1>0 DEF IsTimes, IsMix
<1>2. f * (v * s) = (d * p) * v
  <2>1. f * (v * s) = (f * s) * v
    BY <1>0
  <2> QED BY <1>0, <1>1, <2>1
<1>3. f * (y * d) = (p * v + (-u) * t) * d
  <2>1. f * (y * d) = (f * y) * d
    BY <1>0
  <2> QED BY <1>0, <1>1, <2>1
<1>4. (p * v + (-u) * t) * d = (d * p) * v + d * ((-u) * t)
  BY <1>0
<1>5. PICK k \in Int : k = (-u) * t
  BY <1>0
<1>6. k >= 0 /\ (t > 0 => k > 0)
  BY <1>0, <1>5
<1>7. PICK j \in Int : j = d * k
  BY <1>0
<1>8. j >= 0 /\ (k > 0 => j > 0)
  BY <1>0, <1>6, <1>7
<1>9. PICK a \in Int : a = v * s
  BY <1>0
<1>10. PICK b \in Int : b = y * d
  BY <1>0
<1>11. f * b = f * a + j
  BY <1>0, <1>2, <1>3, <1>4, <1>5, <1>7, <1>9, <1>10
<1>12. a <= b
  BY <1>0, <1>8, <1>11
<1>13. b <= a => j = 0
  BY <1>0, <1>8, <1>11, <1>12
<1>14. AtMost(v, d, y, s) <=> a <= b
  BY <1>9, <1>10 DEF AtMost
<1>15. AtMost(y, s, v, d) <=> b <= a
  BY <1>9, <1>10 DEF AtMost
<1> QED BY <1>0, <1>6, <1>8, <1>12, <1>13, <1>14, <1>15

LEMMA PivotRaises ==
    ASSUME NEW m \in Nat, NEW z \in Nat \ {0}, NEW tab, NEW d, NEW b, Canonical(m, z, tab, d, b),
           NEW r, NEW c, NEW tab2, NEW d2, NEW b2, IsPivot(m, z, tab, d, b, r, c, tab2, d2, b2),
           tab[m + 1][c] < 0, tab[r][z] >= 0
    PROVE  /\ AtMost(tab[m + 1][z], d, tab2[m + 1][z], d2)
           /\ AtMost(tab2[m + 1][z], d2, tab[m + 1][z], d) => tab[r][z] = 0
<1>1. PICK raw, e, f : Moves(m, z, tab, d, b, r, c, raw, e, f, tab2, d2, b2)
  BY DEF IsPivot
<1>2. /\ r \in 1 .. m /\ c \in 1 .. z /\ tab[r][c] > 0
      /\ IsTable(m, z, raw) /\ IsEliminated(m, z, raw, tab, d, r, c)
      /\ e \in Int /\ IsTimes(e, d, tab[r][c])
      /\ IsTable(m, z, tab2) /\ IsLowered(m, z, tab2, d2, raw, e, f)
  BY <1>1 DEF Moves
<1>3. IsTable(m, z, tab) /\ d \in Nat \ {0}
  BY DEF Canonical
<1>4. /\ f \in Nat \ {0} /\ d2 \in Nat \ {0} /\ IsTimes(e, f, d2)
      /\ \A q \in 1 .. m + 1 : \A x \in 1 .. z : IsTimes(raw[q][x], f, tab2[q][x])
  BY <1>2 DEF IsLowered
<1>5. PICK o \in 1 .. m + 1 : o = m + 1
  OBVIOUS
<1>6. PICK x \in 1 .. z : x = z
  OBVIOUS
<1>7. r \in 1 .. m + 1 /\ o # r
  BY <1>2, <1>5
<1>8. /\ tab[o] \in [1 .. z -> Int] /\ tab[r] \in [1 .. z -> Int] /\ tab2[o] \in [1 .. z -> Int]
  BY <1>2, <1>3, <1>7 DEF IsTable
<1>9. /\ tab[o][x] \in Int /\ tab[o][c] \in Int /\ tab[r][x] \in Int /\ tab[r][c] \in Int /\ tab2[o][x] \in Int
  BY <1>2, <1>8
<1>10. IsMix(raw[o][x], tab[r][c], tab[o][x], -tab[o][c], tab[r][x])
  BY <1>2, <1>7 DEF IsEliminated
<1>11. IsTimes(raw[o][x], f, tab2[o][x]) /\ raw[o][x] \in Int
  BY <1>2, <1>4 DEF IsTable
<1>12. PICK n \in Int : n = -tab[o][c]
  BY <1>9
<1>13. IsMix(raw[o][x], tab[r][c], tab[o][x], n, tab[r][x])
  BY <1>10, <1>12
<1>15. tab[o][c] < 0 /\ tab[r][x] >= 0
  BY <1>5, <1>6
<1>16. /\ AtMost(tab[o][x], d, tab2[o][x], d2)
       /\ AtMost(tab2[o][x], d2, tab[o][x], d) => tab[r][x] = 0
  <2>1. AllInt11(f, d, e, d2, tab[r][c], tab[o][x], tab2[o][x], tab[o][c], tab[r][x], n, raw[o][x])
    BY <1>2, <1>3, <1>4, <1>9, <1>11, <1>12, <1>15 DEF AllInt11
  <2>2. IsTimes(e, d, tab[r][c]) /\ IsTimes(e, f, d2)
    BY <1>2, <1>4
  <2> QED BY <1>11, <1>13, <2>1, <2>2, ValueRises
<1> QED BY <1>5, <1>6, <1>16

LEMMA NothingStays ==
    ASSUME NEW m \in Nat, NEW z \in Nat \ {0}, NEW tab, NEW d, NEW b, Canonical(m, z, tab, d, b),
           NEW r, NEW c, NEW tab2, NEW d2, NEW b2, IsPivot(m, z, tab, d, b, r, c, tab2, d2, b2),
           tab[r][z] = 0, NEW s \in 1 .. m
    PROVE  tab2[s][z] = 0 <=> tab[s][z] = 0
<1>1. PICK raw, e, f : Moves(m, z, tab, d, b, r, c, raw, e, f, tab2, d2, b2)
  BY DEF IsPivot
<1>2. /\ r \in 1 .. m /\ c \in 1 .. z /\ tab[r][c] > 0
      /\ IsTable(m, z, raw) /\ IsEliminated(m, z, raw, tab, d, r, c)
      /\ IsTable(m, z, tab2) /\ IsLowered(m, z, tab2, d2, raw, e, f)
  BY <1>1 DEF Moves
<1>3. IsTable(m, z, tab) /\ d \in Nat \ {0}
  BY DEF Canonical
<1>4. /\ f \in Nat \ {0}
      /\ \A q \in 1 .. m + 1 : \A x \in 1 .. z : IsTimes(raw[q][x], f, tab2[q][x])
  BY <1>2 DEF IsLowered
<1>5. r \in 1 .. m + 1 /\ s \in 1 .. m + 1
  BY <1>2
<1>6. PICK x \in 1 .. z : x = z
  OBVIOUS
<1>7. /\ tab[s] \in [1 .. z -> Int] /\ tab[r] \in [1 .. z -> Int] /\ tab2[s] \in [1 .. z -> Int]
  BY <1>2, <1>3, <1>5 DEF IsTable
<1>8. tab[s][x] \in Int /\ tab[s][c] \in Int /\ tab[r][c] \in Int /\ tab2[s][x] \in Int
  BY <1>2, <1>7
<1>9. raw[s][x] = f * tab2[s][x]
  BY <1>4, <1>5 DEF IsTimes
<1>10. CASE s = r
  <2>1. raw[s][x] = d * tab[r][x] /\ tab[r][x] = 0
    BY <1>2, <1>6, <1>10 DEF IsEliminated, IsTimes
  <2>2. d * 0 = 0
    BY <1>3
  <2>3. f * tab2[s][x] = 0
    BY <1>9, <2>1, <2>2
  <2>4. \A i \in Int : f * i = 0 => i = 0
    BY <1>4
  <2> QED BY <1>6, <1>8, <1>10, <2>1, <2>3, <2>4
<1>11. CASE s # r
  <2>1. raw[s][x] = tab[r][c] * tab[s][x] + (-tab[s][c]) * tab[r][x] /\ tab[r][x] = 0
    BY <1>2, <1>5, <1>6, <1>11 DEF IsEliminated, IsMix
  <2>2. PICK p \in Int : p = tab[r][c]
    BY <1>8
  <2>3. PICK u \in Int : u = tab[s][x]
    BY <1>8
  <2>4. PICK y \in Int : y = tab2[s][x]
    BY <1>8
  <2>5. PICK n \in Int : n = -tab[s][c]
    BY <1>8
  <2>6. f * y = p * u + n * 0
    BY <1>9, <2>1, <2>2, <2>3, <2>4, <2>5
  <2>7. n * 0 = 0 /\ p > 0
    BY <1>2, <2>2
  <2>8. f * y = p * u
    BY <2>6, <2>7
  <2>9. y = 0 <=> u = 0
    BY <1>4, <2>7, <2>8
  <2> QED BY <1>6, <2>3, <2>4, <2>9
<1> QED BY <1>10, <1>11

\* The basis after a pivot has what entered for what left.
LEMMA PivotBasis ==
    ASSUME NEW m \in Nat, NEW z \in Nat, NEW tab, NEW d, NEW b, Canonical(m, z, tab, d, b),
           NEW r, NEW c, NEW tab2, NEW d2, NEW b2, IsPivot(m, z, tab, d, b, r, c, tab2, d2, b2)
    PROVE  /\ r \in 1 .. m /\ b2[r] = c /\ \A s \in 1 .. m : s # r => b2[s] = b[s]
           /\ b2 \in [1 .. m -> 1 .. z]
<1>1. r \in 1 .. m /\ c \in 1 .. z /\ b2 = [b EXCEPT ![r] = c]
  BY DEF IsPivot, Moves
<1>2. b \in [1 .. m -> 1 .. z]
  BY DEF Canonical
<1> QED BY <1>1, <1>2

-----------------------------------------------------------------------------
\* The rows' strategy is not nothing.
LEMMA RowsWeigh ==
    ASSUME NEW h, NEW w, NEW g, IsMatrix(h, w, g), NEW z, z = w + h + 1,
           NEW tab, NEW d, NEW b, Reached(h, w, g, tab, d, b), NEW X, X = RowWeights(g, tab),
           \A c \in 1 .. w + h : tab[h + 1][c] >= 0
    PROVE  Total(X) > 0 /\ \A i \in 1 .. h : X[i] >= 0
<1>1. h \in Nat /\ w \in Nat \ {0} /\ 1 \in 1 .. w /\ 1 \in 1 .. w + h
  BY Shape
<1>2. X \in [1 .. h -> Int] /\ (\A i \in 1 .. h : X[i] = tab[h + 1][w + i]) /\ Total(X) \in Int
  BY RowWeightsAre
<1>3. \A i \in 1 .. h : w + i \in 1 .. w + h
  BY <1>1
<1>4. \A i \in 1 .. h : X[i] >= 0
  BY <1>2, <1>3
<1>5. SUFFICES ASSUME Total(X) <= 0 PROVE FALSE
  BY <1>2, <1>4
<1>6. \A i \in 1 .. h : X[i] = 0
  <2>1. SUFFICES ASSUME NEW i \in 1 .. h PROVE X[i] = 0
    OBVIOUS
  <2>2. Total(X) >= X[i]
    BY <1>1, <1>2, <1>4, TotalAtLeast
  <2>3. X[i] \in Int /\ X[i] >= 0
    BY <1>2, <1>4
  <2> QED BY <1>2, <1>5, <2>2, <2>3
<1>11. PICK j \in 1 .. w : j = 1
  BY <1>1
<1> PICK p : p = DownColumn(h, X, Tableau(g), j)
  OBVIOUS
<1>7. p \in [1 .. h -> Int] /\ Total(p) >= d
  <2>1. tab[h + 1][j] >= 0
    BY <1>1, <1>11
  <2>2. PICK q : q = DownColumn(h, X, g, j)
    OBVIOUS
  <2> QED BY <2>1, <2>2, RowsWin
<1>8. \A i \in 1 .. h : p[i] = 0
  <2>1. SUFFICES ASSUME NEW i \in 1 .. h PROVE p[i] = 0
    OBVIOUS
  <2>2. Tableau(g)[i][j] \in Int
    BY <1>1, <1>11, FirstEntries
  <2>3. \A k \in Int : 0 * k = 0
    OBVIOUS
  <2> QED BY <1>6, <2>2, <2>3 DEF DownColumn
<1>9. Total(p) = 0
  BY <1>1, <1>7, <1>8, TotalOfNone
<1>10. d \in Nat \ {0}
  BY DEF Reached, Feasible, Canonical
<1> QED BY <1>7, <1>9, <1>10

\* What SaddlePoint says of a matrix, a tableau and a basis.
Saddle(g, tab, d, b) ==
    LET W == ColWeights(g, tab, b)
        X == RowWeights(g, tab)
        worth == d - Shift(g) * Total(W)
    IN  /\ Total(W) = Total(X)
        /\ \A j \in 1 .. Width(g) :
              W[j] >= 0 /\ Total([i \in 1 .. Height(g) |-> X[i] * g[i][j]]) >= worth
        /\ \A i \in 1 .. Height(g) :
              X[i] >= 0 /\ Total([j \in 1 .. Width(g) |-> W[j] * g[i][j]]) <= worth

LEMMA OptimalIsSaddle ==
    ASSUME NEW h, NEW w, NEW g, IsMatrix(h, w, g),
           NEW tab, NEW d, NEW b, Reached(h, w, g, tab, d, b), Improving(g, tab) = {}
    PROVE  /\ Saddle(g, tab, d, b)
           /\ Total(ColWeights(g, tab, b)) > 0 /\ Total(RowWeights(g, tab)) > 0
<1>0. PICK z : z = w + h + 1
  OBVIOUS
<1>1. /\ h \in Nat /\ w \in Nat /\ Height(g) = h /\ Width(g) = w /\ Objective(g) = h + 1
      /\ Vars(g) = 1 .. w + h
  BY Shape
<1>2. Feasible(h, w, z, tab, d, b)
  BY <1>0 DEF Reached
<1>3. IsTable(h, z, tab) /\ d \in Nat \ {0}
  BY <1>2 DEF Feasible, Canonical
<1>4. \A c \in 1 .. w + h : tab[h + 1][c] >= 0
  <2>1. SUFFICES ASSUME NEW c \in 1 .. w + h PROVE tab[h + 1][c] >= 0
    OBVIOUS
  <2>2. ~(tab[h + 1][c] < 0)
    BY <1>1 DEF Improving
  <2>3. c \in 1 .. z /\ h + 1 \in 1 .. h + 1
    BY <1>0, <1>1
  <2>4. tab[h + 1][c] \in Int
    BY <1>3, <2>3 DEF IsTable
  <2> QED BY <2>2, <2>4
<1>5. PICK W : W = ColWeights(g, tab, b)
  OBVIOUS
<1>6. PICK X : X = RowWeights(g, tab)
  OBVIOUS
<1>7. W \in [1 .. w -> Int] /\ \A j \in 1 .. w : W[j] >= 0
  BY <1>0, <1>2, <1>5, ColWeightsAre
<1>8. X \in [1 .. h -> Int] /\ Total(X) = tab[h + 1][z] /\ Total(X) \in Int
  BY <1>0, <1>6, RowWeightsAre
<1>9. Total(W) = tab[h + 1][z]
  BY <1>0, <1>5, ColumnsWeighSame
<1>10. Total(X) > 0 /\ \A i \in 1 .. h : X[i] >= 0
  BY <1>0, <1>4, <1>6, RowsWeigh
<1>11. Shift(g) \in Int
  BY ShiftRaises
<1>12. PICK n \in Int : n = Shift(g) * Total(W)
  BY <1>8, <1>9, <1>11
<1>13. ASSUME NEW j \in 1 .. w PROVE Total([i \in 1 .. h |-> X[i] * g[i][j]]) >= d - n
  <2>0. PICK q : q = DownColumn(h, X, g, j)
    OBVIOUS
  <2> PICK p : p = DownColumn(h, X, Tableau(g), j)
    OBVIOUS
  <2>1. tab[h + 1][j] >= 0
    BY <1>1, <1>4
  <2>2. /\ Total(q) \in Int /\ Total(p) \in Int
        /\ IsMix(Total(p), 1, Total(q), Shift(g), Total(X)) /\ Total(p) >= d
    BY <1>0, <1>6, <2>0, <2>1, RowsWin
  <2>3. Total(p) = 1 * Total(q) + n
    BY <1>8, <1>9, <1>12, <2>2 DEF IsMix
  <2>4. Total(q) >= d - n
    BY <1>3, <2>2, <2>3
  <2> QED BY <2>0, <2>4 DEF DownColumn
<1>14. ASSUME NEW i \in 1 .. h PROVE Total([j \in 1 .. w |-> W[j] * g[i][j]]) <= d - n
  <2>0. PICK t : t = AlongRow(w, W, g, i)
    OBVIOUS
  <2>1. Total(t) \in Int /\ \E s \in Int : IsMix(s, 1, Total(t), Shift(g), Total(W)) /\ s <= d
    BY <1>0, <1>5, <2>0, ColumnsLose
  <2>2. PICK s \in Int : IsMix(s, 1, Total(t), Shift(g), Total(W)) /\ s <= d
    BY <2>1
  <2>3. s = 1 * Total(t) + n
    BY <1>12, <2>2 DEF IsMix
  <2>4. Total(t) <= d - n
    BY <1>3, <2>1, <2>2, <2>3
  <2> QED BY <2>0, <2>4 DEF AlongRow
<1>15. Saddle(g, tab, d, b)
  BY <1>1, <1>5, <1>6, <1>7, <1>8, <1>9, <1>10, <1>12, <1>13, <1>14 DEF Saddle
<1> QED BY <1>5, <1>6, <1>8, <1>9, <1>10, <1>15

-----------------------------------------------------------------------------
(* Every answer is an equilibrium.                                          *)

\* After k pivots the objective is worth something, but before the first.
Pays(h, w, g, tab, k) == (k = 0 /\ tab = Tableau(g)) \/ tab[h + 1][w + h + 1] > 0

LEMMA Positive ==
    ASSUME NEW u \in Int, NEW d \in Nat \ {0}, NEW v \in Int, NEW e \in Nat \ {0}
    PROVE  /\ AtMost(u, d, v, e) /\ u > 0 => v > 0
           /\ u = 0 /\ ~AtMost(v, e, u, d) => v > 0
<1>1. AtMost(u, d, v, e) <=> u * e <= v * d
  BY DEF AtMost
<1>2. AtMost(v, e, u, d) <=> v * d <= u * e
  BY DEF AtMost
<1>3. \A i \in Int : i * d > 0 => i > 0
  OBVIOUS
<1>4. u > 0 => u * e > 0
  OBVIOUS
<1>5. u = 0 => u * e = 0
  OBVIOUS
<1>6. PICK a \in Int : a = u * e
  OBVIOUS
<1>7. PICK b \in Int : b = v * d
  OBVIOUS
<1>8. b > 0 => v > 0
  BY <1>3, <1>7
<1>9. AtMost(u, d, v, e) /\ u > 0 => b > 0
  BY <1>1, <1>4, <1>6, <1>7
<1>10. u = 0 /\ ~AtMost(v, e, u, d) => b > 0
  BY <1>2, <1>5, <1>6, <1>7
<1> QED BY <1>8, <1>9, <1>10

LEMMA PivotPays ==
    ASSUME NEW h, NEW w, NEW g, IsMatrix(h, w, g), NEW z, z = w + h + 1,
           NEW tab, NEW d, NEW b, Reached(h, w, g, tab, d, b), NEW k, Pays(h, w, g, tab, k),
           NEW r, NEW c, NEW tab2, NEW d2, NEW b2, IsPivot(h, z, tab, d, b, r, c, tab2, d2, b2),
           tab[h + 1][c] < 0, Reached(h, w, g, tab2, d2, b2)
    PROVE  tab2[h + 1][z] > 0
<1>1. h \in Nat /\ w \in Nat /\ z \in Nat /\ z \in Nat \ {0} /\ Objective(g) = h + 1 /\ Rhs(g) = z /\ Width(g) = w
  BY Shape
<1>2. Canonical(h, z, tab, d, b) /\ IsTable(h, z, tab) /\ d \in Nat \ {0} /\ \A q \in 1 .. h : tab[q][z] >= 0
  BY DEF Reached, Feasible, Canonical
<1>3. IsTable(h, z, tab2) /\ d2 \in Nat \ {0}
  BY DEF Reached, Feasible, Canonical
<1>4. r \in 1 .. h
  BY DEF IsPivot, Moves
<1>5. tab[r][z] >= 0
  BY <1>2, <1>4
<1>6. /\ AtMost(tab[h + 1][z], d, tab2[h + 1][z], d2)
      /\ AtMost(tab2[h + 1][z], d2, tab[h + 1][z], d) => tab[r][z] = 0
  BY <1>1, <1>2, <1>5, PivotRaises
<1>7. PICK o \in 1 .. h + 1 : o = h + 1
  BY <1>1
<1>8. PICK x \in 1 .. z : x = z
  BY <1>1
<1>9. tab[o][x] \in Int /\ tab2[o][x] \in Int
  BY <1>2, <1>3 DEF IsTable
<1>10. PICK u \in Int : u = tab[h + 1][z]
  BY <1>7, <1>8, <1>9
<1>11. PICK v \in Int : v = tab2[h + 1][z]
  BY <1>7, <1>8, <1>9
<1>12. CASE tab = Tableau(g)
  <2>1. r \in 1 .. h + 1 /\ r # h + 1 /\ ~(z <= w)
    BY <1>1, <1>4
  <2>2. /\ Tableau(g)[r][x] = IF r = h + 1 THEN IF x <= w THEN -1 ELSE 0
                              ELSE IF x <= w THEN g[r][x] + Shift(g)
                              ELSE IF x = w + r \/ x = z THEN 1 ELSE 0
        /\ Tableau(g)[o][x] = IF o = h + 1 THEN IF x <= w THEN -1 ELSE 0
                              ELSE IF x <= w THEN g[o][x] + Shift(g)
                              ELSE IF x = w + o \/ x = z THEN 1 ELSE 0
    BY <1>1, <2>1 DEF Tableau
  <2>3. tab[r][z] = 1 /\ tab[h + 1][z] = 0
    BY <1>7, <1>8, <1>12, <2>1, <2>2
  <2>4. ~AtMost(v, d2, u, d) /\ u = 0
    BY <1>6, <1>10, <1>11, <2>3
  <2> QED BY <1>2, <1>3, <1>11, <2>4, Positive
<1>13. CASE tab[h + 1][z] > 0
  <2>1. AtMost(u, d, v, d2) /\ u > 0
    BY <1>6, <1>10, <1>11, <1>13
  <2> QED BY <1>2, <1>3, <1>11, <2>1, Positive
<1> QED BY <1>12, <1>13 DEF Pays

SimplexInv ==
    /\ \E h, w : /\ IsMatrix(h, w, matrix) /\ Reached(h, w, matrix, tableau, den, basis)
                 /\ Pays(h, w, matrix, tableau, pivots)
    /\ answer \in {"pivot", "some"} /\ pivots \in Nat /\ pivots <= MaxIterations
    /\ answer = "some" => pivots = MaxIterations \/ Improving(matrix, tableau) = {}

LEMMA SimplexInitInv == SimplexInit => SimplexInv
<1> SUFFICES ASSUME SimplexInit PROVE SimplexInv
  OBVIOUS
<1>1. PICK h \in 1 .. MaxRows, w \in 1 .. MaxCols : matrix \in [1 .. h -> [1 .. w -> Payoffs]]
  BY DEF SimplexInit
<1>2. IsMatrix(h, w, matrix)
  <2>1. MaxRows \in Nat \ {0} /\ MaxCols \in Nat \ {0} /\ Payoffs \subseteq Int
    BY ZeroSumAssumption
  <2>2. h \in Nat \ {0} /\ w \in Nat \ {0}
    BY <2>1
  <2>3. matrix \in [1 .. h -> [1 .. w -> Int]]
    BY <1>1, <2>1
  <2> QED BY <2>2, <2>3 DEF IsMatrix
<1>3. Height(matrix) = h /\ Width(matrix) = w
  BY <1>2, Shape
<1>4. answer = "pivot" /\ tableau = Tableau(matrix) /\ den = 1 /\ basis = FirstBasis(h, w)
  BY <1>3 DEF SimplexInit, FirstBasis
<1>5. Reached(h, w, matrix, tableau, den, basis)
  BY <1>2, <1>4, FirstReached
<1>6. pivots = 0 /\ Pays(h, w, matrix, tableau, pivots)
  BY <1>4 DEF SimplexInit, Pays
<1>7. 0 <= MaxIterations
  BY ZeroSumAssumption
<1> QED BY <1>2, <1>4, <1>5, <1>6, <1>7 DEF SimplexInv

\* What a step of the simplex does.
LEMMA StepIs ==
    ASSUME NEW h, NEW w, IsMatrix(h, w, matrix), Reached(h, w, matrix, tableau, den, basis),
           Step, NEW z, z = w + h + 1
    PROVE  /\ answer' = "pivot" /\ matrix' = matrix
           /\ \E c \in Improving(matrix, tableau) :
                 /\ c = Min(Improving(matrix, tableau)) /\ c \in 1 .. w + h
                 /\ \E r \in Leaving(matrix, tableau, basis, c) :
                       /\ Pivot(r, c)
                       /\ IsPivot(h, z, tableau, den, basis, r, c, tableau', den', basis')
<1>1. /\ h \in Nat /\ w \in Nat /\ Vars(matrix) = 1 .. w + h /\ z \in Nat
  BY Shape
<1>2. Improving(matrix, tableau) \subseteq 1 .. w + h /\ Improving(matrix, tableau) # {}
  BY <1>1 DEF Improving, Step
<1>3. Improving(matrix, tableau) \subseteq Nat
  BY <1>2
<1>4. PICK c : c = Min(Improving(matrix, tableau))
  OBVIOUS
<1>5. c \in Improving(matrix, tableau)
  BY <1>2, <1>3, <1>4, MinIs
<1>6. c \in 1 .. w + h
  BY <1>2, <1>5
<1>7. c \in 1 .. z
  BY <1>1, <1>6
<1>8. Feasible(h, w, z, tableau, den, basis)
  BY DEF Reached
<1>9. \E r \in 1 .. h : tableau[r][c] > 0
  BY <1>6, RowOpen
<1>10. Leaving(matrix, tableau, basis, c) # {}
  BY <1>7, <1>8, <1>9, SomeLeaves
<1>11. PICK r \in Leaving(matrix, tableau, basis, c) : Pivot(r, c)
  BY <1>4, <1>10 DEF Step
<1>12. answer' = "pivot" /\ matrix' = matrix
  BY <1>4, <1>10 DEF Step
<1>13. r \in 1 .. h /\ tableau[r][c] > 0
  BY <1>7, <1>8, LeavingLets
<1>14. Canonical(h, z, tableau, den, basis)
  BY <1>8 DEF Feasible
<1>15. IsPivot(h, z, tableau, den, basis, r, c, tableau', den', basis')
  BY <1>1, <1>7, <1>11, <1>13, <1>14, PivotMoves
<1> QED BY <1>4, <1>5, <1>6, <1>11, <1>12, <1>15

LEMMA SimplexInvariant == SimplexInv /\ [SimplexNext]_zerosum => SimplexInv'
<1> SUFFICES ASSUME SimplexInv, [SimplexNext]_zerosum PROVE SimplexInv'
  OBVIOUS
<1>1. PICK h, w : /\ IsMatrix(h, w, matrix) /\ Reached(h, w, matrix, tableau, den, basis)
                  /\ Pays(h, w, matrix, tableau, pivots)
  BY DEF SimplexInv
<1>2. CASE Step
  <2>0. PICK z : z = w + h + 1
    OBVIOUS
  <2>1. answer' = "pivot" /\ matrix' = matrix
    BY <1>1, <1>2, <2>0, StepIs
  <2>2. PICK c \in 1 .. w + h :
           \E r \in Leaving(matrix, tableau, basis, c) :
              /\ c \in Improving(matrix, tableau) /\ Pivot(r, c)
              /\ IsPivot(h, z, tableau, den, basis, r, c, tableau', den', basis')
    BY <1>1, <1>2, <2>0, StepIs
  <2>3. PICK r \in Leaving(matrix, tableau, basis, c) :
           /\ c \in Improving(matrix, tableau) /\ Pivot(r, c)
           /\ IsPivot(h, z, tableau, den, basis, r, c, tableau', den', basis')
    BY <2>2
  <2>4. Feasible(h, w, z, tableau, den, basis)
    BY <1>1, <2>0 DEF Reached
  <2>5. c \in 1 .. z
    BY <1>1, <2>0, Shape
  <2>6. Lets(h, z, tableau, r, c)
    BY <1>1, <2>0, <2>4, <2>5, LeavingLets
  <2>7. Reached(h, w, matrix, tableau', den', basis')
    BY <1>1, <2>0, <2>3, <2>6, ReachedOn
  <2>8. tableau[h + 1][c] < 0
    BY <1>1, <2>3, Shape DEF Improving
  <2>9. tableau'[h + 1][z] > 0
    BY <1>1, <2>0, <2>3, <2>7, <2>8, PivotPays
  <2>10. Pays(h, w, matrix, tableau', pivots')
    BY <2>0, <2>9 DEF Pays
  <2>11. pivots' \in Nat /\ pivots' <= MaxIterations
    <3>1. pivots \in Nat /\ pivots < MaxIterations /\ MaxIterations \in Nat
      BY <1>2, ZeroSumAssumption DEF SimplexInv, Step
    <3>2. pivots' = pivots + 1
      BY <2>3 DEF Pivot
    <3> QED BY <3>1, <3>2
  <2> QED BY <1>1, <2>1, <2>7, <2>10, <2>11 DEF SimplexInv
<1>3. CASE Finish
  <2>1. /\ pivots = MaxIterations \/ Improving(matrix, tableau) = {}
        /\ UNCHANGED <<matrix, tableau, den, basis, pivots>>
        /\ answer' = IF \/ Total(ColWeights(matrix, tableau, basis)) <= 0
                        \/ Total(RowWeights(matrix, tableau)) <= 0
                     THEN "none" ELSE "some"
    BY <1>3 DEF Finish
  <2>2. PICK z : z = w + h + 1
    OBVIOUS
  <2>3. PICK v : v = tableau[h + 1][z]
    OBVIOUS
  <2>4. Total(ColWeights(matrix, tableau, basis)) = v
    BY <1>1, <2>2, <2>3, ColumnsWeighSame
  <2>5. Total(RowWeights(matrix, tableau)) = v /\ v \in Int
    BY <1>1, <2>2, <2>3, RowWeightsAre
  <2>6. v > 0
    <3>1. CASE Improving(matrix, tableau) = {}
      BY <1>1, <2>4, <3>1, OptimalIsSaddle
    <3>2. CASE pivots = MaxIterations
      <4>1. pivots # 0
        BY <3>2, ZeroSumAssumption
      <4> QED BY <1>1, <2>2, <2>3, <4>1 DEF Pays
    <3> QED BY <2>1, <3>1, <3>2
  <2>7. answer' = "some"
    BY <2>1, <2>4, <2>5, <2>6
  <2> QED BY <1>1, <2>1, <2>7 DEF SimplexInv
<1>4. CASE UNCHANGED zerosum
  BY <1>4 DEF SimplexInv, zerosum
<1> QED BY <1>2, <1>3, <1>4 DEF SimplexNext

\* For every matrix and every cap, what solve_zero_sum returns under its cap is
\* an equilibrium, and it returns something even at the cap.
THEOREM SaddlePointHolds == SimplexSpec => []SaddlePoint
<1>1. SimplexInv => SaddlePoint
  <2> SUFFICES ASSUME SimplexInv PROVE SaddlePoint
    OBVIOUS
  <2>1. answer # "none"
    BY DEF SimplexInv
  <2>2. SUFFICES ASSUME answer = "some", pivots < MaxIterations \/ Improving(matrix, tableau) = {}
                 PROVE  Saddle(matrix, tableau, den, basis)
    BY <2>1 DEF SaddlePoint, Saddle
  <2>3. Improving(matrix, tableau) = {}
    <3>1. pivots \in Nat /\ MaxIterations \in Nat
      BY ZeroSumAssumption DEF SimplexInv
    <3>2. pivots = MaxIterations \/ Improving(matrix, tableau) = {}
      BY <2>2 DEF SimplexInv
    <3> QED BY <2>2, <3>1, <3>2
  <2> QED BY <2>3, OptimalIsSaddle DEF SimplexInv
<1> QED BY <1>1, SimplexInitInv, SimplexInvariant, PTL DEF SimplexSpec

-----------------------------------------------------------------------------
(* A trail of pivots.                                                       *)

\* s: a tableau, its denominator and basis, and the row and column it pivots at.
IsAt(h, w, g, s) == Reached(h, w, g, s.tab, s.d, s.b)

\* From s to t with Bland's rule: the first column that improves, and the row
\* that comes before the others.
IsStep(h, w, g, s, t) ==
    /\ s.c \in 1 .. w + h /\ s.tab[h + 1][s.c] < 0
    /\ \A x \in 1 .. w + h : s.tab[h + 1][x] < 0 => s.c <= x
    /\ s.r \in Leaving(g, s.tab, s.b, s.c)
    /\ IsPivot(h, w + h + 1, s.tab, s.d, s.b, s.r, s.c, t.tab, t.d, t.b)

RowsOf(h, z, s, t)   == Spans(h, z, s.tab, s.d, s.b, t.tab, t.d)
NoLower(h, z, s, t)  == AtMost(s.tab[h + 1][z], s.d, t.tab[h + 1][z], t.d)
Has(h, s, x)         == \E r \in 1 .. h : s.b[r] = x

LEMMA AtFacts ==
    ASSUME NEW h, NEW w, NEW g, IsMatrix(h, w, g), NEW z, z = w + h + 1, NEW s, IsAt(h, w, g, s)
    PROVE  /\ h \in Nat /\ w \in Nat /\ z \in Nat /\ z \in Nat \ {0}
           /\ Feasible(h, w, z, s.tab, s.d, s.b) /\ Canonical(h, z, s.tab, s.d, s.b)
           /\ IsTable(h, z, s.tab) /\ s.d \in Nat \ {0}
           /\ s.b \in [1 .. h -> 1 .. w + h] /\ s.b \in [1 .. h -> 1 .. z]
           /\ s.tab[h + 1][z] \in Int /\ RowsOf(h, z, s, s) /\ NoLower(h, z, s, s)
           /\ \A r \in 1 .. h : s.tab[h + 1][s.b[r]] = 0
           /\ \A r \in 1 .. h : s.tab[r][z] \in Int /\ s.tab[r][z] >= 0
<1>1. h \in Nat /\ w \in Nat /\ z \in Nat /\ z \in Nat \ {0}
  BY Shape
<1>2. Feasible(h, w, z, s.tab, s.d, s.b)
  BY DEF IsAt, Reached
<1>3. Canonical(h, z, s.tab, s.d, s.b) /\ s.b \in [1 .. h -> 1 .. w + h] /\ \A r \in 1 .. h : s.tab[r][z] >= 0
  BY <1>2 DEF Feasible
<1>4. IsTable(h, z, s.tab) /\ s.d \in Nat \ {0} /\ s.b \in [1 .. h -> 1 .. z]
  BY <1>3 DEF Canonical
<1>5. RowsOf(h, z, s, s)
  BY <1>1, <1>3, SpansItself DEF RowsOf
<1>6. PICK o \in 1 .. h + 1 : o = h + 1
  BY <1>1
<1>7. PICK x \in 1 .. z : x = z
  BY <1>1
<1>8. \A r \in 1 .. h + 1 : s.tab[r][x] \in Int
  BY <1>4 DEF IsTable
<1>9. s.tab[h + 1][z] \in Int
  BY <1>6, <1>7, <1>8
<1>10. NoLower(h, z, s, s)
  <2>1. s.tab[h + 1][z] * s.d \in Int
    BY <1>4, <1>9
  <2> QED BY <2>1 DEF NoLower, AtMost
<1>11. \A r \in 1 .. h : s.tab[h + 1][s.b[r]] = 0
  <2>1. SUFFICES ASSUME NEW r \in 1 .. h PROVE s.tab[h + 1][s.b[r]] = 0
    OBVIOUS
  <2>2. s.tab[o][s.b[r]] = IF o = r THEN s.d ELSE 0
    BY <1>3, <1>6 DEF Canonical
  <2>3. o # r
    BY <1>1, <1>6
  <2> QED BY <1>6, <2>2, <2>3
<1>12. \A r \in 1 .. h : s.tab[r][z] \in Int
  <2>1. \A r \in 1 .. h : r \in 1 .. h + 1
    BY <1>1
  <2> QED BY <1>7, <1>8, <2>1
<1> QED BY <1>1, <1>2, <1>3, <1>4, <1>5, <1>9, <1>10, <1>11, <1>12

LEMMA StepFacts ==
    ASSUME NEW h, NEW w, NEW g, IsMatrix(h, w, g), NEW z, z = w + h + 1,
           NEW s, IsAt(h, w, g, s), NEW t, IsAt(h, w, g, t), IsStep(h, w, g, s, t)
    PROVE  /\ s.r \in 1 .. h /\ s.c \in 1 .. w + h /\ s.tab[s.r][s.c] > 0
           /\ t.b[s.r] = s.c /\ \A i \in 1 .. h : i # s.r => t.b[i] = s.b[i]
           /\ ~Has(h, s, s.c)
           /\ NoLower(h, z, s, t)
           /\ NoLower(h, z, t, s) => s.tab[s.r][z] = 0
           /\ s.tab[s.r][z] = 0 => \A i \in 1 .. h : t.tab[i][z] = 0 <=> s.tab[i][z] = 0
<1>1. /\ h \in Nat /\ w \in Nat /\ z \in Nat /\ z \in Nat \ {0}
      /\ Feasible(h, w, z, s.tab, s.d, s.b) /\ Canonical(h, z, s.tab, s.d, s.b)
      /\ \A r \in 1 .. h : s.tab[h + 1][s.b[r]] = 0
      /\ \A r \in 1 .. h : s.tab[r][z] \in Int /\ s.tab[r][z] >= 0
  BY AtFacts
<1>2. /\ s.c \in 1 .. w + h /\ s.tab[h + 1][s.c] < 0 /\ s.r \in Leaving(g, s.tab, s.b, s.c)
      /\ IsPivot(h, z, s.tab, s.d, s.b, s.r, s.c, t.tab, t.d, t.b)
  BY DEF IsStep
<1>3. s.c \in 1 .. z
  BY <1>1, <1>2
<1>4. s.r \in 1 .. h /\ s.tab[s.r][s.c] > 0
  BY <1>1, <1>2, <1>3, LeavingLets
<1>5. t.b[s.r] = s.c /\ \A i \in 1 .. h : i # s.r => t.b[i] = s.b[i]
  <2>1. h \in Nat /\ z \in Nat /\ Canonical(h, z, s.tab, s.d, s.b)
    BY <1>1
  <2>2. IsPivot(h, z, s.tab, s.d, s.b, s.r, s.c, t.tab, t.d, t.b)
    BY <1>2
  <2> QED BY <2>1, <2>2, PivotBasis
<1>6. ~Has(h, s, s.c)
  BY <1>1, <1>2 DEF Has
<1>7. s.tab[s.r][z] >= 0
  BY <1>1, <1>4
<1>8. NoLower(h, z, s, t) /\ (NoLower(h, z, t, s) => s.tab[s.r][z] = 0)
  BY <1>1, <1>2, <1>7, PivotRaises DEF NoLower
<1>9. s.tab[s.r][z] = 0 => \A i \in 1 .. h : t.tab[i][z] = 0 <=> s.tab[i][z] = 0
  BY <1>1, <1>2, NothingStays
<1> QED BY <1>2, <1>4, <1>5, <1>6, <1>8, <1>9

LEMMA NoLowerOn ==
    ASSUME NEW h, NEW w, NEW g, IsMatrix(h, w, g), NEW z, z = w + h + 1,
           NEW s, IsAt(h, w, g, s), NEW t, IsAt(h, w, g, t), NEW u, IsAt(h, w, g, u),
           NoLower(h, z, s, t), NoLower(h, z, t, u)
    PROVE  NoLower(h, z, s, u)
<1>1. s.d \in Nat \ {0} /\ s.tab[h + 1][z] \in Int
  BY AtFacts
<1>2. t.d \in Nat \ {0} /\ t.tab[h + 1][z] \in Int
  BY AtFacts
<1>3. u.d \in Nat \ {0} /\ u.tab[h + 1][z] \in Int
  BY AtFacts
<1>4. s.d \in Int /\ t.d \in Int /\ u.d \in Int /\ s.d > 0 /\ t.d > 0 /\ u.d > 0
  BY <1>1, <1>2, <1>3
<1> QED BY <1>1, <1>2, <1>3, <1>4, AtMostOn DEF NoLower

LEMMA StepSpans ==
    ASSUME NEW h, NEW w, NEW g, IsMatrix(h, w, g), NEW z, z = w + h + 1,
           NEW s, IsAt(h, w, g, s), NEW t, IsAt(h, w, g, t), IsStep(h, w, g, s, t),
           NEW u, IsAt(h, w, g, u), RowsOf(h, z, u, s), RowsOf(h, z, s, u)
    PROVE  RowsOf(h, z, u, t) /\ RowsOf(h, z, t, u)
<1>1. h \in Nat /\ z \in Nat /\ Canonical(h, z, s.tab, s.d, s.b)
  BY AtFacts
<1>2. IsTable(h, z, u.tab) /\ u.d \in Nat \ {0} /\ u.b \in [1 .. h -> 1 .. z]
  BY AtFacts
<1>3. u.d \in Int
  BY <1>2
<1>4. PICK raw, e, f : Moves(h, z, s.tab, s.d, s.b, s.r, s.c, raw, e, f, t.tab, t.d, t.b)
  BY DEF IsStep, IsPivot
<1>5. Spans(h, z, u.tab, u.d, u.b, s.tab, s.d) /\ Spans(h, z, s.tab, s.d, s.b, u.tab, u.d)
  BY DEF RowsOf
<1>6. Spans(h, z, u.tab, u.d, u.b, t.tab, t.d)
  BY <1>1, <1>2, <1>3, <1>4, <1>5, SpansMoved
<1>7. Spans(h, z, t.tab, t.d, t.b, u.tab, u.d)
  BY <1>1, <1>2, <1>3, <1>4, <1>5, SpansOn
<1> QED BY <1>6, <1>7 DEF RowsOf

Same(h, s, t) == \A x : Has(h, s, x) <=> Has(h, t, x)

\* Where the same variables are basic, the value is the same.
LEMMA SameValue ==
    ASSUME NEW h, NEW w, NEW g, IsMatrix(h, w, g), NEW z, z = w + h + 1,
           NEW s, IsAt(h, w, g, s), NEW t, IsAt(h, w, g, t), RowsOf(h, z, s, t), Same(h, s, t)
    PROVE  NoLower(h, z, t, s)
<1>1. /\ h \in Nat /\ z \in Nat /\ IsTable(h, z, s.tab) /\ s.d \in Nat \ {0} /\ s.b \in [1 .. h -> 1 .. z]
      /\ s.tab[h + 1][z] \in Int
  BY AtFacts
<1>2. /\ IsTable(h, z, t.tab) /\ t.d \in Nat \ {0} /\ t.tab[h + 1][z] \in Int
      /\ \A r \in 1 .. h : t.tab[h + 1][t.b[r]] = 0
  BY AtFacts
<1>3. PICK u : u = t.tab[h + 1]
  OBVIOUS
<1>4. u \in [1 .. z -> Int] /\ Spanned(h, z, u, t.d, s.tab, s.d, s.b)
  <2>1. h + 1 \in 1 .. h + 1
    BY <1>1
  <2> QED BY <1>2, <1>3, <2>1 DEF RowsOf, Spans, IsTable
<1>5. PICK x \in 1 .. z : x = z
  BY Shape
<1> DEFINE S == Weighed(h, u, s.tab, s.b, x)
<1>6. /\ S \in [1 .. h -> Int] /\ Total(S) \in Int
      /\ \A r \in 1 .. h : s.tab[r][x] \in Int
  BY <1>1, <1>4, WeighedInt
<1>7. \A r \in 1 .. h : S[r] = 0
  <2>1. SUFFICES ASSUME NEW r \in 1 .. h PROVE S[r] = 0
    OBVIOUS
  <2>2. S[r] = u[s.b[r]] * s.tab[r][x]
    BY DEF Weighed
  <2>3. Has(h, t, s.b[r])
    <3>1. Has(h, s, s.b[r])
      BY DEF Has
    <3> QED BY <3>1 DEF Same
  <2>5. u[s.b[r]] = 0
    BY <1>2, <1>3, <2>3 DEF Has
  <2>6. s.tab[r][x] \in Int
    BY <1>6
  <2>4. \A i \in Int : 0 * i = 0
    OBVIOUS
  <2> HIDE DEF S
  <2> QED BY <2>2, <2>4, <2>5, <2>6
<1>8. IsShare(s.d, u[x], t.d, s.tab[h + 1][x], Total(S))
  BY <1>4 DEF Spanned
<1> HIDE DEF S
<1>9. Total(S) = 0
  BY <1>1, <1>6, <1>7, TotalOfNone
<1>10. s.d * t.tab[h + 1][z] = t.d * s.tab[h + 1][z] + 0
  BY <1>3, <1>5, <1>8, <1>9 DEF IsShare
<1>11. \A i, j, k, l \in Int : i * j = k * l + 0 => j * i <= l * k
  OBVIOUS
<1>12. t.tab[h + 1][z] * s.d <= s.tab[h + 1][z] * t.d
  BY <1>1, <1>2, <1>10, <1>11
<1> QED BY <1>12 DEF NoLower, AtMost

LEMMA NotBelow == ASSUME NEW i \in Int, NEW j \in Int, i > 0, j >= 0 PROVE i * j >= 0
  OBVIOUS

LEMMA Below == ASSUME NEW i \in Int, NEW j \in Int, i > 0, j < 0 PROVE i * j < 0
  OBVIOUS

\* A row in which something that improves meets something that does not.
LEMMA SomeRow ==
    ASSUME NEW m \in Nat, NEW z \in Nat, NEW tab, NEW d, NEW b, Canonical(m, z, tab, d, b),
           NEW u \in [1 .. z -> Int], NEW k \in Nat \ {0}, Spanned(m, z, u, k, tab, d, b),
           NEW x \in 1 .. z, u[x] >= 0, tab[m + 1][x] < 0
    PROVE  \E r \in 1 .. m : u[b[r]] * tab[r][x] > 0
<1>1. IsTable(m, z, tab) /\ d \in Nat \ {0} /\ b \in [1 .. m -> 1 .. z]
  BY DEF Canonical
<1> DEFINE S == Weighed(m, u, tab, b, x)
<1>2. /\ S \in [1 .. m -> Int] /\ Total(S) \in Int /\ tab[m + 1][x] \in Int /\ u[x] \in Int
      /\ \A r \in 1 .. m : tab[r][x] \in Int
  BY <1>1, WeighedInt
<1>3. \A r \in 1 .. m : S[r] = u[b[r]] * tab[r][x]
  BY DEF Weighed
<1>4. d * u[x] = k * tab[m + 1][x] + Total(S)
  BY DEF Spanned, IsShare
<1> HIDE DEF S
<1>5. PICK i \in Int : i = u[x]
  BY <1>2
<1>11. PICK j \in Int : j = tab[m + 1][x]
  BY <1>2
<1>12. PICK t \in Int : t = Total(S)
  BY <1>2
<1>13. d * i = k * j + t /\ i >= 0 /\ j < 0
  BY <1>4, <1>5, <1>11, <1>12
<1>18. d \in Int /\ d > 0 /\ k \in Int /\ k > 0
  BY <1>1
<1>19. i >= 0 /\ j < 0
  BY <1>13
<1>14. d * i >= 0 /\ k * j < 0
  BY <1>5, <1>11, <1>18, <1>19, NotBelow, Below
<1>15. PICK a \in Int : a = d * i
  BY <1>1, <1>5
<1>16. PICK c \in Int : c = k * j
  BY <1>11
<1>17. t > 0
  BY <1>12, <1>13, <1>14, <1>15, <1>16
<1>6. Total(S) > 0
  BY <1>12, <1>17
<1>7. SUFFICES ASSUME \A r \in 1 .. m : ~(u[b[r]] * tab[r][x] > 0) PROVE FALSE
  OBVIOUS
<1> DEFINE N == [r \in 1 .. m |-> 0]
<1>8. N \in [1 .. m -> Int] /\ \A r \in 1 .. m : N[r] = 0
  OBVIOUS
<1> HIDE DEF N
<1>9. \A r \in 1 .. m : S[r] <= N[r]
  <2>1. SUFFICES ASSUME NEW r \in 1 .. m PROVE S[r] <= N[r]
    OBVIOUS
  <2>2. S[r] \in Int /\ ~(S[r] > 0) /\ N[r] = 0
    BY <1>2, <1>3, <1>7, <1>8
  <2> QED BY <2>2
<1>10. Total(S) <= Total(N) /\ Total(N) = 0
  BY <1>2, <1>8, <1>9, TotalMost, TotalOfNone
<1> QED BY <1>2, <1>6, <1>10

-----------------------------------------------------------------------------
Trail(h, w, g, n, H) ==
    /\ n \in Nat
    /\ \A q \in 0 .. n : IsAt(h, w, g, H[q])
    /\ \A q \in 0 .. n : q # n => IsStep(h, w, g, H[q], H[q + 1])

LEMMA Turning ==
    ASSUME NEW p \in Nat, NEW q \in Nat, p <= q, NEW A, p \in A, q \notin A
    PROVE  \E t \in p .. q : t # q /\ t \in A /\ t + 1 \notin A
<1>1. SUFFICES ASSUME \A t \in p .. q : t # q /\ t \in A => t + 1 \in A PROVE FALSE
  OBVIOUS
<1> DEFINE P == {k \in Nat : p + k <= q => p + k \in A}
<1>2. 0 \in P
  OBVIOUS
<1>3. ASSUME NEW k \in Nat, k \in P PROVE k + 1 \in P
  <2>1. SUFFICES ASSUME p + (k + 1) <= q PROVE p + (k + 1) \in A
    OBVIOUS
  <2>2. PICK t \in Nat : t = p + k
    OBVIOUS
  <2>3. t \in A /\ t \in p .. q /\ t # q
    BY <1>3, <2>1, <2>2
  <2>4. t + 1 = p + (k + 1)
    BY <2>2
  <2> QED BY <1>1, <2>3, <2>4
<1> HIDE DEF P
<1>4. Nat \subseteq P
  BY <1>2, <1>3, Counting
<1>5. PICK k \in Nat : q = p + k
  <2>1. q - p \in Nat /\ q = p + (q - p)
    OBVIOUS
  <2> QED BY <2>1
<1>6. k \in P
  BY <1>4
<1> QED BY <1>5, <1>6 DEF P

LEMMA TrailAt ==
    ASSUME NEW h, NEW w, NEW g, NEW n, NEW H, Trail(h, w, g, n, H), NEW p \in 0 .. n, NEW q \in p .. n,
           NEW t \in p .. q, t # q
    PROVE  /\ n \in Nat /\ p \in Nat /\ q \in Nat /\ p <= q /\ t \in Nat /\ t + 1 \in p .. q
           /\ t \in 0 .. n /\ t + 1 \in 0 .. n
           /\ IsAt(h, w, g, H[t]) /\ IsAt(h, w, g, H[t + 1]) /\ IsStep(h, w, g, H[t], H[t + 1])
<1>1. n \in Nat
  BY DEF Trail
<1>2. /\ p \in Nat /\ q \in Nat /\ p <= q /\ t \in Nat /\ t + 1 \in p .. q
      /\ t \in 0 .. n /\ t + 1 \in 0 .. n /\ t # n
  BY <1>1
<1> QED BY <1>1, <1>2 DEF Trail

LEMMA TrailRows ==
    ASSUME NEW h, NEW w, NEW g, IsMatrix(h, w, g), NEW z, z = w + h + 1,
           NEW n, NEW H, Trail(h, w, g, n, H), NEW p \in 0 .. n, NEW q \in p .. n
    PROVE  RowsOf(h, z, H[p], H[q]) /\ RowsOf(h, z, H[q], H[p])
<1>0. n \in Nat /\ p \in Nat /\ q \in Nat /\ p <= q /\ IsAt(h, w, g, H[p])
  BY DEF Trail
<1> DEFINE A == {t \in p .. q : RowsOf(h, z, H[p], H[t]) /\ RowsOf(h, z, H[t], H[p])}
<1>1. p \in A
  BY <1>0, AtFacts
<1>2. SUFFICES ASSUME q \notin A PROVE FALSE
  BY <1>0
<1>3. PICK t \in p .. q : t # q /\ t \in A /\ t + 1 \notin A
  <2> HIDE DEF A
  <2> QED BY <1>0, <1>1, <1>2, Turning
<1>4. /\ t + 1 \in p .. q
      /\ IsAt(h, w, g, H[t]) /\ IsAt(h, w, g, H[t + 1]) /\ IsStep(h, w, g, H[t], H[t + 1])
  BY <1>3, TrailAt
<1>5. RowsOf(h, z, H[p], H[t]) /\ RowsOf(h, z, H[t], H[p])
  BY <1>3
<1>6. RowsOf(h, z, H[p], H[t + 1]) /\ RowsOf(h, z, H[t + 1], H[p])
  <2> HIDE DEF A
  <2> QED BY <1>0, <1>4, <1>5, StepSpans
<1> QED BY <1>3, <1>4, <1>6

LEMMA TrailRises ==
    ASSUME NEW h, NEW w, NEW g, IsMatrix(h, w, g), NEW z, z = w + h + 1,
           NEW n, NEW H, Trail(h, w, g, n, H), NEW p \in 0 .. n, NEW q \in p .. n
    PROVE  NoLower(h, z, H[p], H[q])
<1>0. n \in Nat /\ p \in Nat /\ q \in Nat /\ p <= q /\ IsAt(h, w, g, H[p])
  BY DEF Trail
<1> DEFINE A == {t \in p .. q : NoLower(h, z, H[p], H[t])}
<1>1. p \in A
  BY <1>0, AtFacts
<1>2. SUFFICES ASSUME q \notin A PROVE FALSE
  BY <1>0
<1>3. PICK t \in p .. q : t # q /\ t \in A /\ t + 1 \notin A
  <2> HIDE DEF A
  <2> QED BY <1>0, <1>1, <1>2, Turning
<1>4. /\ t + 1 \in p .. q
      /\ IsAt(h, w, g, H[t]) /\ IsAt(h, w, g, H[t + 1]) /\ IsStep(h, w, g, H[t], H[t + 1])
  BY <1>3, TrailAt
<1>5. NoLower(h, z, H[p], H[t])
  BY <1>3
<1>6. NoLower(h, z, H[t], H[t + 1])
  BY <1>4, StepFacts
<1>7. NoLower(h, z, H[p], H[t + 1])
  <2> HIDE DEF A
  <2> QED BY <1>0, <1>4, <1>5, <1>6, NoLowerOn
<1> QED BY <1>3, <1>4, <1>7

\* What comes into the basis entered, what is gone from it left, and a row
\* whose basic variable is another was pivoted at.
LEMMA Entered ==
    ASSUME NEW h, NEW w, NEW g, IsMatrix(h, w, g),
           NEW n, NEW H, Trail(h, w, g, n, H), NEW p \in 0 .. n, NEW q \in p .. n,
           NEW x, ~Has(h, H[p], x), Has(h, H[q], x)
    PROVE  \E t \in p .. q : t # q /\ H[t].c = x
<1>0. n \in Nat /\ p \in Nat /\ q \in Nat /\ p <= q
  BY DEF Trail
<1> DEFINE A == {t \in p .. q : ~Has(h, H[t], x)}
<1>1. p \in A /\ q \notin A
  BY <1>0
<1>3. PICK t \in p .. q : t # q /\ t \in A /\ t + 1 \notin A
  <2> HIDE DEF A
  <2> QED BY <1>0, <1>1, Turning
<1>4. /\ t + 1 \in p .. q
      /\ IsAt(h, w, g, H[t]) /\ IsAt(h, w, g, H[t + 1]) /\ IsStep(h, w, g, H[t], H[t + 1])
  BY <1>3, TrailAt
<1>5. ~Has(h, H[t], x) /\ Has(h, H[t + 1], x)
  BY <1>3, <1>4
<1>6. PICK z : z = w + h + 1
  OBVIOUS
<1>7. /\ H[t + 1].b[H[t].r] = H[t].c
      /\ \A i \in 1 .. h : i # H[t].r => H[t + 1].b[i] = H[t].b[i]
  BY <1>4, <1>6, StepFacts
<1>8. H[t].c = x
  BY <1>5, <1>7 DEF Has
<1> QED BY <1>3, <1>8

LEMMA Left ==
    ASSUME NEW h, NEW w, NEW g, IsMatrix(h, w, g),
           NEW n, NEW H, Trail(h, w, g, n, H), NEW p \in 0 .. n, NEW q \in p .. n,
           NEW x, Has(h, H[p], x), ~Has(h, H[q], x)
    PROVE  \E t \in p .. q : t # q /\ H[t].b[H[t].r] = x
<1>0. n \in Nat /\ p \in Nat /\ q \in Nat /\ p <= q
  BY DEF Trail
<1> DEFINE A == {t \in p .. q : Has(h, H[t], x)}
<1>1. p \in A /\ q \notin A
  BY <1>0
<1>3. PICK t \in p .. q : t # q /\ t \in A /\ t + 1 \notin A
  <2> HIDE DEF A
  <2> QED BY <1>0, <1>1, Turning
<1>4. /\ t + 1 \in p .. q
      /\ IsAt(h, w, g, H[t]) /\ IsAt(h, w, g, H[t + 1]) /\ IsStep(h, w, g, H[t], H[t + 1])
  BY <1>3, TrailAt
<1>5. Has(h, H[t], x) /\ ~Has(h, H[t + 1], x)
  BY <1>3, <1>4
<1>6. PICK z : z = w + h + 1
  OBVIOUS
<1>7. \A i \in 1 .. h : i # H[t].r => H[t + 1].b[i] = H[t].b[i]
  BY <1>4, <1>6, StepFacts
<1>8. H[t].b[H[t].r] = x
  BY <1>5, <1>7 DEF Has
<1> QED BY <1>3, <1>8

LEMMA PivotedAt ==
    ASSUME NEW h, NEW w, NEW g, IsMatrix(h, w, g),
           NEW n, NEW H, Trail(h, w, g, n, H), NEW p \in 0 .. n, NEW q \in p .. n,
           NEW r \in 1 .. h, H[p].b[r] # H[q].b[r]
    PROVE  \E t \in p .. q : t # q /\ H[t].r = r
<1>0. n \in Nat /\ p \in Nat /\ q \in Nat /\ p <= q
  BY DEF Trail
<1> DEFINE A == {t \in p .. q : H[t].b[r] = H[p].b[r]}
<1>1. p \in A /\ q \notin A
  BY <1>0
<1>3. PICK t \in p .. q : t # q /\ t \in A /\ t + 1 \notin A
  <2> HIDE DEF A
  <2> QED BY <1>0, <1>1, Turning
<1>4. /\ t + 1 \in p .. q
      /\ IsAt(h, w, g, H[t]) /\ IsAt(h, w, g, H[t + 1]) /\ IsStep(h, w, g, H[t], H[t + 1])
  BY <1>3, TrailAt
<1>5. H[t].b[r] # H[t + 1].b[r]
  BY <1>3, <1>4
<1>6. PICK z : z = w + h + 1
  OBVIOUS
<1>7. \A i \in 1 .. h : i # H[t].r => H[t + 1].b[i] = H[t].b[i]
  BY <1>4, <1>6, StepFacts
<1>8. H[t].r = r
  BY <1>5, <1>7
<1> QED BY <1>3, <1>8

-----------------------------------------------------------------------------
(* A trail whose basic variables come back, from i to j.                    *)

Cycle(h, w, g, n, H, i, j) ==
    Trail(h, w, g, n, H) /\ i \in 0 .. n /\ j \in i .. n /\ i # j /\ Same(h, H[i], H[j])

LEMMA CycleAt ==
    ASSUME NEW h, NEW w, NEW g, NEW n, NEW H, NEW i, NEW j, Cycle(h, w, g, n, H, i, j), NEW t \in i .. j
    PROVE  /\ n \in Nat /\ i \in 0 .. n /\ i \in i .. n /\ j \in 0 .. n /\ j \in i .. n /\ j \in j .. n
           /\ i \in i .. j /\ j \in i .. j /\ i <= j /\ i # j
           /\ t \in 0 .. n /\ t \in i .. n /\ j \in t .. n /\ t \in Nat
           /\ IsAt(h, w, g, H[t])
           /\ t # j => /\ t + 1 \in i .. j /\ IsAt(h, w, g, H[t + 1]) /\ IsStep(h, w, g, H[t], H[t + 1])
<1>1. Trail(h, w, g, n, H) /\ n \in Nat /\ i \in 0 .. n /\ j \in i .. n /\ i # j
  BY DEF Cycle, Trail
<1>2. /\ i \in i .. n /\ j \in 0 .. n /\ j \in j .. n
      /\ i \in i .. j /\ j \in i .. j /\ i <= j
      /\ t \in 0 .. n /\ t \in i .. n /\ j \in t .. n /\ t \in Nat
      /\ t # j => t + 1 \in i .. j /\ t # n /\ t + 1 \in 0 .. n
  BY <1>1
<1> QED BY <1>1, <1>2 DEF Trail

LEMMA CycleStays ==
    ASSUME NEW h, NEW w, NEW g, IsMatrix(h, w, g), NEW z, z = w + h + 1,
           NEW n, NEW H, NEW i, NEW j, Cycle(h, w, g, n, H, i, j), NEW t \in i .. j, t # j
    PROVE  H[t].tab[H[t].r][z] = 0
<1>1. /\ n \in Nat /\ i \in 0 .. n /\ j \in 0 .. n /\ j \in i .. n /\ t \in 0 .. n /\ t \in i .. n
      /\ i \in i .. j /\ j \in i .. j
      /\ t + 1 \in i .. j /\ IsAt(h, w, g, H[t]) /\ IsAt(h, w, g, H[t + 1])
      /\ IsStep(h, w, g, H[t], H[t + 1])
  BY CycleAt
<1>2. t + 1 \in 0 .. n /\ j \in t + 1 .. n
  BY <1>1, CycleAt
<1>3. IsAt(h, w, g, H[i]) /\ IsAt(h, w, g, H[j])
  BY <1>1, CycleAt
<1>4. Trail(h, w, g, n, H) /\ Same(h, H[i], H[j])
  BY DEF Cycle
<1>5. RowsOf(h, z, H[i], H[j])
  BY <1>1, <1>4, TrailRows
<1>6. NoLower(h, z, H[j], H[i])
  BY <1>3, <1>4, <1>5, SameValue
<1>7. NoLower(h, z, H[i], H[t])
  BY <1>1, <1>4, TrailRises
<1>8. NoLower(h, z, H[t + 1], H[j])
  BY <1>2, <1>4, TrailRises
<1>9. NoLower(h, z, H[t + 1], H[i])
  BY <1>1, <1>3, <1>6, <1>8, NoLowerOn
<1>10. NoLower(h, z, H[t + 1], H[t])
  BY <1>1, <1>3, <1>7, <1>9, NoLowerOn
<1> QED BY <1>1, <1>10, StepFacts

\* A rhs that is nothing is so all along the cycle, and the other way round.
LEMMA CycleRhs ==
    ASSUME NEW h, NEW w, NEW g, IsMatrix(h, w, g), NEW z, z = w + h + 1,
           NEW n, NEW H, NEW i, NEW j, Cycle(h, w, g, n, H, i, j), NEW q \in i .. j, NEW r \in 1 .. h
    PROVE  H[q].tab[r][z] = 0 <=> H[i].tab[r][z] = 0
<1> DEFINE A == {t \in i .. q : H[t].tab[r][z] = 0 <=> H[i].tab[r][z] = 0}
<1>1. i \in Nat /\ q \in Nat /\ i <= q /\ j \in Nat
  BY CycleAt
<1>2. i \in A
  BY <1>1
<1>3. SUFFICES ASSUME q \notin A PROVE FALSE
  BY <1>1
<1>4. PICK t \in i .. q : t # q /\ t \in A /\ t + 1 \notin A
  <2> HIDE DEF A
  <2> QED BY <1>1, <1>2, <1>3, Turning
<1>5. t \in i .. j /\ t # j /\ t + 1 \in i .. q
  BY <1>1, <1>4
<1>6. IsAt(h, w, g, H[t]) /\ IsAt(h, w, g, H[t + 1]) /\ IsStep(h, w, g, H[t], H[t + 1])
  BY <1>5, CycleAt
<1>7. H[t].tab[H[t].r][z] = 0
  BY <1>5, CycleStays
<1>8. H[t + 1].tab[r][z] = 0 <=> H[t].tab[r][z] = 0
  BY <1>6, <1>7, StepFacts
<1> QED BY <1>4, <1>5, <1>8

LEMMA CycleNothing ==
    ASSUME NEW h, NEW w, NEW g, IsMatrix(h, w, g), NEW z, z = w + h + 1,
           NEW n, NEW H, NEW i, NEW j, Cycle(h, w, g, n, H, i, j), NEW t \in i .. j, t # j, NEW q \in i .. j
    PROVE  H[q].tab[H[t].r][z] = 0
<1>1. IsAt(h, w, g, H[t]) /\ IsAt(h, w, g, H[t + 1]) /\ IsStep(h, w, g, H[t], H[t + 1])
  BY CycleAt
<1>2. H[t].r \in 1 .. h
  BY <1>1, StepFacts
<1>3. H[t].tab[H[t].r][z] = 0
  BY CycleStays
<1>4. H[t].tab[H[t].r][z] = 0 <=> H[i].tab[H[t].r][z] = 0
  BY <1>2, CycleRhs
<1>5. H[q].tab[H[t].r][z] = 0 <=> H[i].tab[H[t].r][z] = 0
  BY <1>2, CycleRhs
<1> QED BY <1>3, <1>4, <1>5

\* The highest variable that enters.
LEMMA CycleHighest ==
    ASSUME NEW h, NEW w, NEW g, IsMatrix(h, w, g),
           NEW n, NEW H, NEW i, NEW j, Cycle(h, w, g, n, H, i, j)
    PROVE  \E b \in i .. j : b # j /\ \A t \in i .. j : t # j => H[t].c <= H[b].c
<1> DEFINE C == {H[t].c : t \in {k \in i .. j : k # j}}
<1>0. PICK z : z = w + h + 1
  OBVIOUS
<1>1. PICK m \in Nat : m = w + h
  BY Shape
<1>2. \A t \in i .. j : t # j => H[t].c \in 1 .. m
  <2>1. SUFFICES ASSUME NEW t \in i .. j, t # j PROVE H[t].c \in 1 .. m
    OBVIOUS
  <2>2. IsAt(h, w, g, H[t]) /\ IsAt(h, w, g, H[t + 1]) /\ IsStep(h, w, g, H[t], H[t + 1])
    BY <2>1, CycleAt
  <2> QED BY <1>0, <1>1, <2>2, StepFacts
<1>3. C \in SUBSET (1 .. m)
  BY <1>2
<1>4. i \in i .. j /\ i # j
  <2>1. i \in Nat /\ j \in i .. n /\ i # j /\ n \in Nat
    BY DEF Cycle, Trail
  <2> QED BY <2>1
<1>5. C # {}
  BY <1>4
<1>6. Max(C) \in C /\ \A q \in C : Max(C) >= q
  <2> HIDE DEF C
  <2> QED BY <1>3, <1>5, MaxIs
<1>7. PICK b \in {k \in i .. j : k # j} : H[b].c = Max(C)
  BY <1>6
<1>8. \A t \in i .. j : t # j => H[t].c \in C
  OBVIOUS
<1>9. ASSUME NEW t \in i .. j, t # j PROVE H[t].c <= H[b].c
  <2>1. H[t].c \in 1 .. m /\ H[b].c \in 1 .. m
    BY <1>2, <1>7, <1>9
  <2>2. H[b].c >= H[t].c
    <3>1. H[t].c \in C
      BY <1>8, <1>9
    <3> HIDE DEF C
    <3> QED BY <1>6, <1>7, <3>1
  <2> QED BY <2>1, <2>2
<1> QED BY <1>7, <1>9

LEMMA CycleLeaves ==
    ASSUME NEW h, NEW w, NEW g, IsMatrix(h, w, g),
           NEW n, NEW H, NEW i, NEW j, Cycle(h, w, g, n, H, i, j), NEW b \in i .. j, b # j
    PROVE  \E a \in i .. j : a # j /\ H[a].b[H[a].r] = H[b].c
<1>0. PICK z : z = w + h + 1
  OBVIOUS
<1>1. /\ n \in Nat /\ i \in 0 .. n /\ j \in 0 .. n /\ b \in 0 .. n /\ b \in i .. n
      /\ b + 1 \in i .. j /\ IsAt(h, w, g, H[b]) /\ IsAt(h, w, g, H[b + 1]) /\ IsStep(h, w, g, H[b], H[b + 1])
  BY CycleAt
<1>2. b + 1 \in 0 .. n /\ j \in b + 1 .. n
  BY <1>1, CycleAt
<1>3. Trail(h, w, g, n, H) /\ Same(h, H[i], H[j])
  BY DEF Cycle
<1>4. H[b].r \in 1 .. h /\ H[b + 1].b[H[b].r] = H[b].c /\ ~Has(h, H[b], H[b].c)
  BY <1>0, <1>1, StepFacts
<1>5. PICK e : e = H[b].c
  OBVIOUS
<1>6. Has(h, H[b + 1], e) /\ ~Has(h, H[b], e)
  BY <1>4, <1>5 DEF Has
<1>7. Has(h, H[i], e) <=> Has(h, H[j], e)
  BY <1>3 DEF Same
<1>8. CASE Has(h, H[i], e)
  <2>1. PICK t \in i .. b : t # b /\ H[t].b[H[t].r] = e
    BY <1>1, <1>3, <1>6, <1>8, Left
  <2>2. t \in i .. j /\ t # j
    BY <1>1, <2>1
  <2> QED BY <1>5, <2>1, <2>2
<1>9. CASE ~Has(h, H[i], e)
  <2>1. ~Has(h, H[j], e)
    BY <1>7, <1>9
  <2>2. PICK t \in b + 1 .. j : t # j /\ H[t].b[H[t].r] = e
    BY <1>2, <1>3, <1>6, <2>1, Left
  <2>3. t \in i .. j
    BY <1>1, <2>2
  <2> QED BY <1>5, <2>2, <2>3
<1> QED BY <1>8, <1>9

LEMMA CycleEnters ==
    ASSUME NEW h, NEW w, NEW g, IsMatrix(h, w, g),
           NEW n, NEW H, NEW i, NEW j, Cycle(h, w, g, n, H, i, j), NEW a \in i .. j, NEW b \in i .. j,
           NEW x, Has(h, H[a], x), ~Has(h, H[b], x)
    PROVE  \E t \in i .. j : t # j /\ H[t].c = x
<1>1. Trail(h, w, g, n, H) /\ Same(h, H[i], H[j])
  BY DEF Cycle
<1>2. n \in Nat /\ i \in 0 .. n /\ j \in 0 .. n /\ a \in 0 .. n /\ a \in i .. n /\ j \in a .. n
  BY CycleAt
<1>3. b \in 0 .. n /\ b \in i .. n /\ j \in b .. n
  BY CycleAt
<1>4. CASE Has(h, H[i], x)
  <2>1. Has(h, H[j], x)
    BY <1>1, <1>4 DEF Same
  <2>2. PICK t \in b .. j : t # j /\ H[t].c = x
    BY <1>1, <1>3, <2>1, Entered
  <2>3. t \in i .. j
    BY <1>2, <1>3, <2>2
  <2> QED BY <2>2, <2>3
<1>5. CASE ~Has(h, H[i], x)
  <2>2. PICK t \in i .. a : t # a /\ H[t].c = x
    BY <1>1, <1>2, <1>5, Entered
  <2>3. t \in i .. j /\ t # j
    BY <1>2, <2>2
  <2> QED BY <2>2, <2>3
<1> QED BY <1>4, <1>5

LEMMA CyclePivots ==
    ASSUME NEW h, NEW w, NEW g, IsMatrix(h, w, g),
           NEW n, NEW H, NEW i, NEW j, Cycle(h, w, g, n, H, i, j), NEW a \in i .. j, NEW b \in i .. j,
           NEW r \in 1 .. h, H[a].b[r] # H[b].b[r]
    PROVE  \E t \in i .. j : t # j /\ H[t].r = r
<1>1. Trail(h, w, g, n, H)
  BY DEF Cycle
<1>2. n \in Nat /\ i \in 0 .. n /\ j \in 0 .. n /\ a \in 0 .. n /\ a \in i .. n /\ j \in a .. n
  BY CycleAt
<1>3. b \in 0 .. n /\ b \in i .. n /\ j \in b .. n
  BY CycleAt
<1>4. CASE a <= b
  <2>1. b \in a .. n
    BY <1>2, <1>3, <1>4
  <2>2. PICK t \in a .. b : t # b /\ H[t].r = r
    BY <1>1, <1>2, <2>1, PivotedAt
  <2>3. t \in i .. j /\ t # j
    BY <1>2, <1>3, <2>2
  <2> QED BY <2>2, <2>3
<1>5. CASE b <= a
  <2>1. a \in b .. n
    BY <1>2, <1>3, <1>5
  <2>2. PICK t \in b .. a : t # a /\ H[t].r = r
    BY <1>1, <1>3, <2>1, PivotedAt
  <2>3. t \in i .. j /\ t # j
    BY <1>2, <1>3, <2>2
  <2> QED BY <2>2, <2>3
<1>6. a <= b \/ b <= a
  BY <1>2, <1>3
<1> QED BY <1>4, <1>5, <1>6

-----------------------------------------------------------------------------
\* No trail comes back to a basis.  The highest variable e that enters in a
\* cycle also leaves in it, at a step a where some s < e enters; against the
\* objective of the step b where e enters, some row that a lower variable x
\* leaves during the cycle ties with the row of e, and comes before it.
LEMMA NoCycle ==
    ASSUME NEW h, NEW w, NEW g, IsMatrix(h, w, g),
           NEW n, NEW H, NEW i, NEW j, Cycle(h, w, g, n, H, i, j)
    PROVE  FALSE
<1>0. PICK z : z = w + h + 1
  OBVIOUS
<1>1. /\ h \in Nat /\ w \in Nat /\ z \in Nat
  BY <1>0, Shape
<1>2. PICK b \in i .. j : b # j /\ \A t \in i .. j : t # j => H[t].c <= H[b].c
  BY CycleHighest
<1>3. PICK a \in i .. j : a # j /\ H[a].b[H[a].r] = H[b].c
  BY <1>2, CycleLeaves
<1>4. IsAt(h, w, g, H[a]) /\ IsAt(h, w, g, H[a + 1]) /\ IsStep(h, w, g, H[a], H[a + 1])
  BY <1>3, CycleAt
<1>5. IsAt(h, w, g, H[b]) /\ IsAt(h, w, g, H[b + 1]) /\ IsStep(h, w, g, H[b], H[b + 1])
  BY <1>2, CycleAt
<1>6. PICK S : S = H[a]
  OBVIOUS
<1>7. PICK Z : Z = H[b]
  OBVIOUS
<1>8. PICK e : e = Z.c
  OBVIOUS
<1>9. PICK s : s = S.c
  OBVIOUS
<1>10. PICK p : p = S.r
  OBVIOUS
<1>11. /\ p \in 1 .. h /\ s \in 1 .. w + h /\ S.tab[p][s] > 0 /\ ~Has(h, S, s) /\ S.b[p] = e
  BY <1>0, <1>3, <1>4, <1>6, <1>7, <1>8, <1>9, <1>10, StepFacts
<1>12. e \in 1 .. w + h
  BY <1>0, <1>5, <1>7, <1>8, StepFacts
<1>13. s \in Nat /\ e \in Nat /\ s \in 1 .. z
  BY <1>0, <1>1, <1>11, <1>12
<1>14. s # e
  BY <1>11 DEF Has
<1>15. s <= e
  BY <1>2, <1>3, <1>6, <1>7, <1>8, <1>9
<1>16. s < e
  BY <1>13, <1>14, <1>15
<1>17. /\ Feasible(h, w, z, S.tab, S.d, S.b) /\ Canonical(h, z, S.tab, S.d, S.b)
       /\ S.b \in [1 .. h -> 1 .. w + h]
  BY <1>0, <1>4, <1>6, AtFacts
<1>18. /\ IsTable(h, z, Z.tab) /\ Z.d \in Nat \ {0}
       /\ \A r \in 1 .. h : Z.tab[h + 1][Z.b[r]] = 0
  <2>1. IsAt(h, w, g, Z)
    BY <1>5, <1>7
  <2>2. IsTable(h, z, Z.tab) /\ Z.d \in Nat \ {0}
    BY <1>0, <2>1, AtFacts
  <2>3. \A r \in 1 .. h : Z.tab[h + 1][Z.b[r]] = 0
    BY <1>0, <2>1, AtFacts
  <2> QED BY <2>2, <2>3
<1>19. PICK y : y = Z.tab[h + 1]
  OBVIOUS
<1>20. y \in [1 .. z -> Int]
  <2>1. h + 1 \in 1 .. h + 1
    BY <1>1
  <2> QED BY <1>18, <1>19, <2>1 DEF IsTable
<1>21. y[e] < 0 /\ \A x \in 1 .. w + h : y[x] < 0 => e <= x
  BY <1>5, <1>7, <1>8, <1>19 DEF IsStep
<1>22. RowsOf(h, z, S, Z)
  <2>1. Trail(h, w, g, n, H)
    BY DEF Cycle
  <2>2. a \in 0 .. n /\ a \in i .. n /\ a \in Nat /\ n \in Nat
    BY CycleAt
  <2>3. b \in 0 .. n /\ b \in i .. n /\ b \in Nat
    BY CycleAt
  <2>4. CASE a <= b
    <3>1. b \in a .. n
      BY <2>2, <2>3, <2>4
    <3> QED BY <1>0, <1>6, <1>7, <2>1, <2>2, <3>1, TrailRows
  <2>5. CASE b <= a
    <3>1. a \in b .. n
      BY <2>2, <2>3, <2>5
    <3> QED BY <1>0, <1>6, <1>7, <2>1, <2>3, <3>1, TrailRows
  <2> QED BY <2>2, <2>3, <2>4, <2>5
<1>23. Spanned(h, z, y, Z.d, S.tab, S.d, S.b)
  <2>1. h + 1 \in 1 .. h + 1
    BY <1>1
  <2> QED BY <1>19, <1>22, <2>1 DEF RowsOf, Spans
<1>24. y[s] >= 0
  <2>1. y[s] \in Int
    BY <1>13, <1>20
  <2> QED BY <1>11, <1>13, <1>16, <1>21, <2>1
<1>25. S.tab[h + 1][s] < 0
  BY <1>4, <1>6, <1>9 DEF IsStep
<1>26. PICK r \in 1 .. h : y[S.b[r]] * S.tab[r][s] > 0
  BY <1>1, <1>13, <1>17, <1>18, <1>20, <1>23, <1>24, <1>25, SomeRow
<1>27. PICK x : x = S.b[r]
  OBVIOUS
<1>28. x \in 1 .. w + h /\ x \in 1 .. z /\ x \in Nat
  <2>1. x \in 1 .. w + h
    BY <1>17, <1>27
  <2> QED BY <1>0, <1>1, <2>1
<1>29. PICK v \in Int : v = y[x]
  BY <1>20, <1>28
<1>30. PICK t \in Int : t = S.tab[r][s]
  <2>1. r \in 1 .. h + 1
    BY <1>1
  <2> QED BY <1>13, <1>17, <2>1 DEF Canonical, IsTable
<1>31. v * t > 0
  BY <1>26, <1>27, <1>29, <1>30
<1>32. v # 0 /\ (v < 0 => t < 0) /\ (v > 0 => t > 0)
  <2>1. \A q \in Int : 0 * q = 0
    OBVIOUS
  <2>2. v # 0
    BY <1>31, <2>1
  <2>3. v < 0 => t < 0
    BY <1>31
  <2>4. v > 0 => t > 0
    BY <1>31
  <2> QED BY <2>2, <2>3, <2>4
<1>33. Has(h, S, x) /\ ~Has(h, Z, x)
  <2>1. Has(h, S, x)
    BY <1>27 DEF Has
  <2>2. ~Has(h, Z, x)
    BY <1>18, <1>19, <1>29, <1>32 DEF Has
  <2> QED BY <2>1, <2>2
<1>34. PICK k \in i .. j : k # j /\ H[k].c = x
  BY <1>6, <1>7, <1>33, CycleEnters
<1>35. x <= e
  BY <1>2, <1>7, <1>8, <1>34
<1>36. x # e
  <2>1. SUFFICES ASSUME x = e PROVE FALSE
    OBVIOUS
  <2>2. S.b[r] = S.b[p]
    BY <1>11, <1>27, <2>1
  <2>3. r = p
    BY <1>1, <1>11, <1>17, <2>2, BasisDiffers
  <2>4. v < 0 /\ t > 0
    BY <1>11, <1>21, <1>29, <1>30, <2>1, <2>3
  <2> QED BY <1>32, <2>4
<1>37. x < e
  BY <1>13, <1>28, <1>35, <1>36
<1>38. v > 0 /\ t > 0
  <2>1. ~(v < 0)
    BY <1>13, <1>21, <1>28, <1>29, <1>37
  <2> QED BY <1>32, <2>1
<1>39. r # p
  BY <1>11, <1>27, <1>36
<1>40. H[a].b[r] # H[b].b[r]
  BY <1>6, <1>7, <1>27, <1>33 DEF Has
<1>41. PICK l \in i .. j : l # j /\ H[l].r = r
  BY <1>40, CyclePivots
<1>42. S.tab[r][z] = 0
  BY <1>0, <1>6, <1>41, CycleNothing
<1>43. S.tab[p][z] = 0
  BY <1>0, <1>3, <1>6, <1>10, CycleNothing
<1>44. p \in Leaving(g, S.tab, S.b, s)
  BY <1>4, <1>6, <1>9, <1>10 DEF IsStep
<1>45. S.tab[r][s] > 0
  BY <1>30, <1>38
<1>46. Prefers(g, S.tab, S.b, s, p, r)
  BY <1>0, <1>13, <1>17, <1>39, <1>44, <1>45, LeavingLets
<1>47. AtMost(S.tab[r][z], S.tab[r][s], S.tab[p][z], S.tab[p][s]) => S.b[p] < S.b[r]
  <2>1. p \in 1 .. h
    BY <1>11
  <2>2. s \in 1 .. z
    BY <1>13
  <2>3. Feasible(h, w, z, S.tab, S.d, S.b)
    BY <1>17
  <2>4. Prefers(g, S.tab, S.b, s, p, r) <=>
           /\ AtMost(S.tab[p][z], S.tab[p][s], S.tab[r][z], S.tab[r][s])
           /\ AtMost(S.tab[r][z], S.tab[r][s], S.tab[p][z], S.tab[p][s]) => S.b[p] < S.b[r]
    BY <1>0, <2>1, <2>2, <2>3, PrefersIs
  <2> QED BY <1>46, <2>4
<1>48. AtMost(S.tab[r][z], S.tab[r][s], S.tab[p][z], S.tab[p][s])
  <2>1. PICK f \in Int : f = S.tab[p][s]
    <3>1. p \in 1 .. h + 1
      BY <1>1, <1>11
    <3> QED BY <1>13, <1>17, <3>1 DEF Canonical, IsTable
  <2>2. 0 * f <= 0 * t
    OBVIOUS
  <2> QED BY <1>30, <1>42, <1>43, <2>1, <2>2 DEF AtMost
<1>49. e < x
  BY <1>11, <1>27, <1>47, <1>48
<1> QED BY <1>13, <1>28, <1>37, <1>49

-----------------------------------------------------------------------------
(* The trail of the run.                                                    *)

AsIn(s, t) == s.tab = t.tab /\ s.d = t.d /\ s.b = t.b

LEMMA TrailOn ==
    ASSUME NEW h, NEW w, NEW g, NEW n, NEW H, Trail(h, w, g, n, H),
           NEW s, AsIn(s, H[n]), NEW t, IsStep(h, w, g, s, t), IsAt(h, w, g, t)
    PROVE  \E G : /\ Trail(h, w, g, n + 1, G) /\ G[n + 1] = t
                  /\ \A q \in 0 .. n : G[q].b = H[q].b
<1>0. n \in Nat /\ n + 1 \in Nat /\ n # n + 1 /\ n + 1 \in 0 .. n + 1 /\ n \in 0 .. n + 1 /\ n \in 0 .. n
  BY DEF Trail
<1> DEFINE G == [q \in 0 .. n + 1 |-> IF q = n + 1 THEN t ELSE IF q = n THEN s ELSE H[q]]
<1>1. G[n + 1] = t /\ G[n] = s /\ \A q \in 0 .. n : q # n => G[q] = H[q]
  BY <1>0
<1> HIDE DEF G
<1>2. \A q \in 0 .. n : AsIn(G[q], H[q])
  BY <1>1 DEF AsIn
<1>3. ASSUME NEW q \in 0 .. n + 1 PROVE IsAt(h, w, g, G[q])
  <2>1. CASE q = n + 1
    BY <1>1, <2>1
  <2>2. CASE q # n + 1
    <3>1. q \in 0 .. n
      BY <1>0, <2>2
    <3>2. IsAt(h, w, g, H[q])
      BY <3>1 DEF Trail
    <3>3. AsIn(G[q], H[q])
      BY <1>2, <3>1
    <3> QED BY <3>2, <3>3 DEF AsIn, IsAt
  <2> QED BY <2>1, <2>2
<1>4. ASSUME NEW q \in 0 .. n + 1, q # n + 1 PROVE IsStep(h, w, g, G[q], G[q + 1])
  <2>0. q \in 0 .. n
    BY <1>0, <1>4
  <2>1. CASE q = n
    BY <1>1, <2>1
  <2>2. CASE q # n
    <3>1. IsStep(h, w, g, H[q], H[q + 1])
      BY <2>0, <2>2 DEF Trail
    <3>2. q + 1 \in 0 .. n
      BY <1>0, <2>0, <2>2
    <3>3. AsIn(G[q + 1], H[q + 1]) /\ G[q] = H[q]
      BY <1>1, <1>2, <2>0, <2>2, <3>2
    <3> QED BY <3>1, <3>3 DEF AsIn, IsStep
  <2> QED BY <2>1, <2>2
<1>5. Trail(h, w, g, n + 1, G)
  BY <1>0, <1>3, <1>4 DEF Trail
<1>6. \A q \in 0 .. n : G[q].b = H[q].b
  BY <1>2 DEF AsIn
<1> QED BY <1>1, <1>5, <1>6

Entry(tab, d, b, r, c) == [tab |-> tab, d |-> d, b |-> b, r |-> r, c |-> c]

\* There is a trail of the bases there have been, to the tableau there is.
TrailInv ==
    \E h, w, n, H :
       /\ IsMatrix(h, w, matrix) /\ Trail(h, w, matrix, n, H)
       /\ H[n].tab = tableau /\ H[n].d = den /\ H[n].b = basis
       /\ visited = {H[q].b : q \in 0 .. n} /\ pivots = n

LEMMA TrailInit == SimplexInit => TrailInv
<1> SUFFICES ASSUME SimplexInit PROVE TrailInv
  OBVIOUS
<1>1. SimplexInv
  BY SimplexInitInv
<1>2. PICK h, w : IsMatrix(h, w, matrix) /\ Reached(h, w, matrix, tableau, den, basis)
  BY <1>1 DEF SimplexInv
<1>3. visited = {basis} /\ pivots = 0
  BY DEF SimplexInit
<1> DEFINE s == Entry(tableau, den, basis, 0, 0)
<1>4. s.tab = tableau /\ s.d = den /\ s.b = basis
  BY DEF Entry
<1> HIDE DEF s
<1> DEFINE H == [q \in 0 .. 0 |-> s]
<1>5. H[0] = s /\ \A q \in 0 .. 0 : q = 0
  OBVIOUS
<1> HIDE DEF H
<1>6. IsAt(h, w, matrix, H[0])
  BY <1>2, <1>4, <1>5 DEF IsAt
<1>7. Trail(h, w, matrix, 0, H)
  BY <1>5, <1>6 DEF Trail
<1>8. visited = {H[q].b : q \in 0 .. 0}
  BY <1>3, <1>4, <1>5
<1> QED BY <1>2, <1>3, <1>4, <1>5, <1>7, <1>8 DEF TrailInv

\* The next tableau goes on the trail, with a basis that is new.
LEMMA TrailStep ==
    ASSUME TrailInv, Step
    PROVE  TrailInv' /\ basis' \notin visited
<1>1. PICK h, w, n, H :
         /\ IsMatrix(h, w, matrix) /\ Trail(h, w, matrix, n, H)
         /\ H[n].tab = tableau /\ H[n].d = den /\ H[n].b = basis
         /\ visited = {H[q].b : q \in 0 .. n} /\ pivots = n
  BY DEF TrailInv
<1>2. PICK z : z = w + h + 1
  OBVIOUS
<1>3. n \in Nat /\ n \in 0 .. n
  BY <1>1 DEF Trail
<1>4. Reached(h, w, matrix, tableau, den, basis)
  BY <1>1, <1>3 DEF Trail, IsAt
<1>5. answer' = "pivot" /\ matrix' = matrix
  BY <1>1, <1>2, <1>4, StepIs
<1>6. PICK c \in Improving(matrix, tableau) :
         /\ c = Min(Improving(matrix, tableau)) /\ c \in 1 .. w + h
         /\ \E r \in Leaving(matrix, tableau, basis, c) :
               /\ Pivot(r, c)
               /\ IsPivot(h, z, tableau, den, basis, r, c, tableau', den', basis')
  BY <1>1, <1>2, <1>4, StepIs
<1>7. PICK r \in Leaving(matrix, tableau, basis, c) :
         /\ Pivot(r, c)
         /\ IsPivot(h, z, tableau, den, basis, r, c, tableau', den', basis')
  BY <1>6
<1>8. visited' = visited \cup {basis'} /\ pivots' = n + 1
  BY <1>1, <1>7 DEF Pivot
<1>9. h \in Nat /\ w \in Nat /\ Objective(matrix) = h + 1 /\ Vars(matrix) = 1 .. w + h
  BY <1>1, Shape
<1>10. tableau[h + 1][c] < 0 /\ \A x \in 1 .. w + h : tableau[h + 1][x] < 0 => c <= x
  <2>1. Improving(matrix, tableau) \subseteq Nat /\ Improving(matrix, tableau) # {}
    <3>1. Improving(matrix, tableau) \subseteq Vars(matrix)
      BY DEF Improving
    <3>2. 1 .. w + h \subseteq Nat
      OBVIOUS
    <3> QED BY <1>6, <1>9, <3>1, <3>2
  <2>2. \A x \in Improving(matrix, tableau) : c <= x
    BY <1>6, <2>1, MinIs
  <2> QED BY <1>6, <1>9, <2>2 DEF Improving
<1>11. Reached(h, w, matrix, tableau', den', basis')
  <2>1. Feasible(h, w, z, tableau, den, basis)
    BY <1>2, <1>4 DEF Reached
  <2>2. c \in 1 .. z
    BY <1>2, <1>6, <1>9
  <2>3. Lets(h, z, tableau, r, c)
    BY <1>1, <1>2, <2>1, <2>2, LeavingLets
  <2> QED BY <1>1, <1>2, <1>4, <1>6, <1>7, <2>3, ReachedOn
<1>12. PICK s : s = Entry(tableau, den, basis, r, c)
  OBVIOUS
<1>13. s.tab = tableau /\ s.d = den /\ s.b = basis /\ s.r = r /\ s.c = c
  BY <1>12 DEF Entry
<1>14. PICK t : t = Entry(tableau', den', basis', 0, 0)
  OBVIOUS
<1>15. t.tab = tableau' /\ t.d = den' /\ t.b = basis'
  BY <1>14 DEF Entry
<1>16. AsIn(s, H[n])
  BY <1>1, <1>13 DEF AsIn
<1>17. IsAt(h, w, matrix, t)
  BY <1>11, <1>15 DEF IsAt
<1>18. IsStep(h, w, matrix, s, t)
  BY <1>2, <1>6, <1>7, <1>10, <1>13, <1>15 DEF IsStep
<1>19. PICK G : /\ Trail(h, w, matrix, n + 1, G) /\ G[n + 1] = t
                /\ \A q \in 0 .. n : G[q].b = H[q].b
  BY <1>1, <1>16, <1>17, <1>18, TrailOn
<1>20. visited' = {G[q].b : q \in 0 .. n + 1}
  <2>1. \A q \in 0 .. n + 1 : q \in 0 .. n \/ q = n + 1
    BY <1>3
  <2>2. \A q \in 0 .. n : q \in 0 .. n + 1
    BY <1>3
  <2>3. n + 1 \in 0 .. n + 1
    BY <1>3
  <2> QED BY <1>1, <1>8, <1>15, <1>19, <2>1, <2>2, <2>3
<1>21. TrailInv'
  BY <1>1, <1>5, <1>8, <1>15, <1>19, <1>20 DEF TrailInv
<1>22. basis' \notin visited
  <2>1. SUFFICES ASSUME basis' \in visited PROVE FALSE
    OBVIOUS
  <2>2. PICK q \in 0 .. n : H[q].b = basis'
    BY <1>1, <2>1
  <2>3. PICK k \in Nat : k = n + 1
    BY <1>3
  <2>4. G[q].b = G[k].b
    BY <1>15, <1>19, <2>2, <2>3
  <2>5. q \in 0 .. k /\ k \in q .. k /\ q # k
    BY <1>3, <2>3
  <2>6. Same(h, G[q], G[k])
    BY <2>4 DEF Same, Has
  <2>7. Cycle(h, w, matrix, k, G, q, k)
    BY <1>19, <2>3, <2>5, <2>6 DEF Cycle
  <2> QED BY <1>1, <2>7, NoCycle
<1> QED BY <1>21, <1>22

LEMMA TrailKept ==
    TrailInv /\ [SimplexNext]_zerosum
       => TrailInv' /\ [answer' = answer => basis' \notin visited]_zerosum
<1> SUFFICES ASSUME TrailInv, [SimplexNext]_zerosum
             PROVE  TrailInv' /\ [answer' = answer => basis' \notin visited]_zerosum
  OBVIOUS
<1>1. CASE Step
  BY <1>1, TrailStep
<1>2. CASE Finish
  <2>1. answer' # answer /\ UNCHANGED <<matrix, tableau, den, basis, pivots, visited>>
    BY <1>2 DEF Finish
  <2> QED BY <2>1 DEF TrailInv
<1>3. CASE UNCHANGED zerosum
  BY <1>3 DEF TrailInv, zerosum
<1> QED BY <1>1, <1>2, <1>3 DEF SimplexNext

\* For every matrix, however large, Bland's rule never comes back to a basis
\* (nash.rs:144).
THEOREM NeverBackHolds == SimplexSpec => NeverBack
<1> QED BY TrailInit, TrailKept, PTL DEF SimplexSpec, NeverBack

-----------------------------------------------------------------------------
(* How many pivots there may be.                                            *)

\* The sets of variables a basis may consist of.
Bases(g) == {S \in SUBSET Vars(g) : Cardinality(S) = Height(g)}

BasicIn(h, s) == {s.b[r] : r \in 1 .. h}

LEMMA BasicIsBase ==
    ASSUME NEW h, NEW w, NEW g, IsMatrix(h, w, g), NEW s, IsAt(h, w, g, s)
    PROVE  BasicIn(h, s) \in Bases(g)
<1>0. PICK z : z = w + h + 1
  OBVIOUS
<1>1. h \in Nat /\ z \in Nat /\ Canonical(h, z, s.tab, s.d, s.b) /\ s.b \in [1 .. h -> 1 .. w + h]
  BY <1>0, AtFacts
<1>2. Vars(g) = 1 .. w + h /\ Height(g) = h
  BY Shape
<1>3. PICK T : T = BasicIn(h, s)
  OBVIOUS
<1>4. PICK b : b = s.b
  OBVIOUS
<1>5. T = {b[r] : r \in 1 .. h}
  BY <1>3, <1>4 DEF BasicIn
<1>6. b \in [1 .. h -> T] /\ \A t \in T : \E r \in 1 .. h : b[r] = t
  <2>1. b \in [1 .. h -> 1 .. w + h]
    BY <1>1, <1>4
  <2> QED BY <1>5, <2>1
<1>7. \A r, q \in 1 .. h : b[r] = b[q] => r = q
  <2>1. h \in Nat /\ z \in Nat
    BY <1>1
  <2>2. Canonical(h, z, s.tab, s.d, b)
    BY <1>1, <1>4
  <2> QED BY <2>1, <2>2, BasisDiffers
<1>8. b \in Surjection(1 .. h, T) /\ b \in Injection(1 .. h, T)
  BY <1>6, <1>7 DEF Surjection, Injection, IsInjective
<1>9. IsFiniteSet(1 .. h) /\ Cardinality(1 .. h) = h
  BY <1>1, FS_Interval
<1>10. Cardinality(T) = h
  BY <1>8, <1>9, FS_Surjection
<1>11. T \in SUBSET (1 .. w + h)
  BY <1>1, <1>4, <1>5
<1> QED BY <1>2, <1>3, <1>10, <1>11 DEF Bases

LEMMA TrailIsShort ==
    ASSUME NEW h, NEW w, NEW g, IsMatrix(h, w, g), NEW n, NEW H, Trail(h, w, g, n, H)
    PROVE  n < Cardinality(Bases(g))
<1>1. n \in Nat /\ \A q \in 0 .. n : IsAt(h, w, g, H[q])
  BY DEF Trail
<1>2. h \in Nat /\ w \in Nat /\ Vars(g) = 1 .. w + h
  BY Shape
<1>3. IsFiniteSet(Bases(g))
  <2>1. w + h \in Int
    BY <1>2
  <2>4. IsFiniteSet(1 .. w + h)
    BY <2>1, FS_Interval
  <2>2. IsFiniteSet(SUBSET (1 .. w + h))
    BY <2>4, FS_SUBSET
  <2>3. Bases(g) \in SUBSET (SUBSET (1 .. w + h))
    BY <1>2 DEF Bases
  <2> QED BY <2>2, <2>3, FS_Subset
<1> DEFINE f == [q \in 0 .. n |-> BasicIn(h, H[q])]
<1>4. f \in [0 .. n -> Bases(g)]
  BY <1>1, BasicIsBase
<1>5. ASSUME NEW p \in 0 .. n, NEW q \in 0 .. n, f[p] = f[q], p < q
      PROVE  FALSE
  <2>1. BasicIn(h, H[p]) = BasicIn(h, H[q])
    BY <1>5
  <2>2. \A x : Has(h, H[p], x) <=> x \in BasicIn(h, H[p])
    BY DEF Has, BasicIn
  <2>3. \A x : Has(h, H[q], x) <=> x \in BasicIn(h, H[q])
    BY DEF Has, BasicIn
  <2>4. Same(h, H[p], H[q])
    BY <2>1, <2>2, <2>3 DEF Same
  <2>5. q \in p .. n /\ p # q
    BY <1>1, <1>5
  <2>6. Cycle(h, w, g, n, H, p, q)
    BY <2>4, <2>5 DEF Cycle
  <2> QED BY <2>6, NoCycle
<1> HIDE DEF f
<1>6. \A p, q \in 0 .. n : f[p] = f[q] => p = q
  <2>1. SUFFICES ASSUME NEW p \in 0 .. n, NEW q \in 0 .. n, f[p] = f[q], p # q PROVE FALSE
    OBVIOUS
  <2>2. p < q \/ q < p
    BY <1>1, <2>1
  <2> QED BY <1>5, <2>1, <2>2
<1>7. f \in Injection(0 .. n, Bases(g))
  BY <1>4, <1>6 DEF Injection, IsInjective
<1>8. Cardinality(0 .. n) <= Cardinality(Bases(g))
  BY <1>3, <1>7, FS_Injection
<1>9. Cardinality(0 .. n) = n + 1
  BY <1>1, FS_Interval
<1>10. Cardinality(Bases(g)) \in Nat
  BY <1>3, FS_CardinalityType
<1> QED BY <1>1, <1>8, <1>9, <1>10

\* There are fewer pivots than ways to choose a basis: at seven by seven they
\* are 3432, so MAX_ITERATIONS (nash.rs:146) binds on no matrix up to that.
PivotsAreFew == pivots < Cardinality(Bases(matrix))

\* For every matrix there are fewer pivots than ways to choose a basis, as
\* Bland's rule never comes back to one, in whatever order its rows have it.
THEOREM PivotsAreFewHolds == SimplexSpec => []PivotsAreFew
<1>1. TrailInv => PivotsAreFew
  BY TrailIsShort DEF TrailInv, PivotsAreFew
<1> QED BY <1>1, TrailInit, TrailKept, PTL DEF SimplexSpec

-----------------------------------------------------------------------------
(* What double_oracle promises, for every game, support and precision of the *)
(* mixes.  The invariant behind it counts: an iteration that did not converge *)
(* put a new action into a support, so there have never been more of them    *)
(* than actions beyond the two the supports began with.                      *)

\* What the loop knows on entry to an iteration.
InLoop ==
    /\ rows \subseteq Rows /\ rows # {}
    /\ cols \subseteq Cols /\ cols # {}
    /\ iterations + 2 <= Cardinality(rows) + Cardinality(cols)

\* What it returns.
Answered ==
    /\ pc = "some"
    /\ \A i \in Rows : RowPay(game, lp.col, i) <= lp.value
    /\ \A j \in Cols : lp.value <= ColPay(game, lp.row, j)
    /\ DOMAIN lp.col = cols /\ DOMAIN lp.row = rows
    /\ Asked \subseteq cache

IInv ==
    /\ TypeOK
    /\ pc = "called" => iterations = 0 /\ IsFiniteSet(rows) /\ IsFiniteSet(cols)
    /\ pc = "loop" => InLoop
    /\ pc = "some" => converged
    /\ converged => Answered

USE DoubleOracleAssumption

\* Supports are finite and have no more actions than there are.
LEMMA Supports ==
    ASSUME NEW n \in Nat, NEW S \in SUBSET (1 .. n)
    PROVE  IsFiniteSet(S) /\ Cardinality(S) \in Nat /\ Cardinality(S) <= n
<1>1. IsFiniteSet(1 .. n) /\ Cardinality(1 .. n) = n
  BY FS_Interval
<1>2. QED
  BY <1>1, FS_Subset, FS_CardinalityType

\* A support that is not empty counts for one at least.
LEMMA NotEmpty ==
    ASSUME NEW n \in Nat, NEW S \in SUBSET (1 .. n), S # {}
    PROVE  Cardinality(S) >= 1
<1>1. IsFiniteSet(S) /\ Cardinality(S) \in Nat
  BY Supports
<1>2. Cardinality(S) # 0
  BY <1>1, FS_EmptySet
<1>3. QED
  BY <1>1, <1>2

\* An action from outside a support makes it larger by one.
LEMMA Grows ==
    ASSUME NEW n \in Nat, NEW S \in SUBSET (1 .. n), NEW i \in (1 .. n) \ S
    PROVE  /\ Grown(S, {i}) \in SUBSET (1 .. n) /\ Grown(S, {i}) # {}
           /\ Cardinality(Grown(S, {i})) = Cardinality(S) + 1
  BY Supports, FS_AddElement DEF Grown

\* What an iteration may add to the supports.
LEMMA RowsGrow ==
    ASSUME InLoop, NEW s, NEW add \in RowAdds(s)
    PROVE  /\ Grown(rows, add) \subseteq Rows /\ Grown(rows, add) # {}
           /\ Cardinality(Grown(rows, add)) = Cardinality(rows) + (IF BetterRows(s) = {} THEN 0 ELSE 1)
<1>1. CASE BetterRows(s) = {}
  <2>1. add = {}
    BY <1>1 DEF RowAdds
  <2>2. Grown(rows, add) = rows
    BY <2>1 DEF Grown
  <2>3. Cardinality(rows) \in Nat
    BY Supports DEF InLoop, Rows
  <2>4. QED
    BY <1>1, <2>2, <2>3 DEF InLoop
<1>2. CASE BetterRows(s) # {}
  <2>1. PICK i \in BetterRows(s) : add = {i}
    BY <1>2 DEF RowAdds, FirstBest
  <2>2. i \in Rows \ rows
    BY <2>1 DEF BetterRows
  <2>3. QED
    BY <1>2, <2>1, <2>2, Grows DEF InLoop, Rows
<1>3. QED
  BY <1>1, <1>2

LEMMA ColsGrow ==
    ASSUME InLoop, NEW s, NEW add \in ColAdds(s)
    PROVE  /\ Grown(cols, add) \subseteq Cols /\ Grown(cols, add) # {}
           /\ Cardinality(Grown(cols, add)) = Cardinality(cols) + (IF BetterCols(s) = {} THEN 0 ELSE 1)
<1>1. CASE BetterCols(s) = {}
  <2>1. add = {}
    BY <1>1 DEF ColAdds
  <2>2. Grown(cols, add) = cols
    BY <2>1 DEF Grown
  <2>3. Cardinality(cols) \in Nat
    BY Supports DEF InLoop, Cols
  <2>4. QED
    BY <1>1, <2>2, <2>3 DEF InLoop
<1>2. CASE BetterCols(s) # {}
  <2>1. PICK j \in BetterCols(s) : add = {j}
    BY <1>2 DEF ColAdds, FirstBest
  <2>2. j \in Cols \ cols
    BY <2>1 DEF BetterCols
  <2>3. QED
    BY <1>2, <2>1, <2>2, Grows DEF InLoop, Cols
<1>3. QED
  BY <1>1, <1>2

\* A solution of the supports on which nobody improves is one of the game.
LEMMA SettledIsNash ==
    ASSUME NEW s \in Solutions, Settled(s)
    PROVE  /\ \A i \in Rows : RowPay(game, s.col, i) <= s.value
           /\ \A j \in Cols : s.value <= ColPay(game, s.row, j)
           /\ DOMAIN s.col = cols /\ DOMAIN s.row = rows
<1>v. PICK v \in Values : \E x \in RowMixes(v), y \in ColMixes(v) : s = [row |-> x, col |-> y, value |-> v]
  BY DEF Solutions
<1>1. PICK x \in RowMixes(v), y \in ColMixes(v) : s = [row |-> x, col |-> y, value |-> v]
  BY <1>v
<1>2. /\ DOMAIN x = rows /\ \A j \in cols : v <= ColPay(game, x, j)
      /\ DOMAIN y = cols /\ \A i \in rows : RowPay(game, y, i) <= v
  BY DEF RowMixes, ColMixes, Mixes
<1>3. s.row = x /\ s.col = y /\ s.value = v
  BY <1>1
<1>4. /\ \A i \in Rows \ rows : RowPay(game, y, i) <= v
      /\ \A j \in Cols \ cols : v <= ColPay(game, x, j)
  BY <1>3 DEF Settled, BetterRows, BetterCols
<1>5. QED
  BY <1>2, <1>3, <1>4

LEMMA InitIInv == Init => IInv
<1> SUFFICES ASSUME Init PROVE IInv
  OBVIOUS
<1>1. IsFiniteSet(rows) /\ IsFiniteSet(cols)
  BY DEF Init
<1>2. pc = "called" /\ game \in Games /\ iterations = 0 /\ converged = FALSE
  BY DEF Init
<1>3. TypeOK
  BY <1>2 DEF TypeOK
<1>4. QED
  BY <1>1, <1>2, <1>3 DEF IInv

\* Every step keeps the invariant.
LEMMA NextIInv == IInv /\ [Next]_oracle => IInv'
<1> SUFFICES ASSUME IInv, [Next]_oracle PROVE IInv'
  OBVIOUS
<1> USE DEF IInv, TypeOK
<1>1. CASE Validate
  <2>1. pc' # "loop" => pc' = "none"
    BY <1>1 DEF Validate
  <2>2. ~converged
    BY <1>1 DEF Validate, Answered
  <2>3. CASE pc' = "loop"
    <3>1. rows \in SUBSET (1 .. RowCount) /\ rows # {} /\ cols \in SUBSET (1 .. ColCount) /\ cols # {}
      BY <1>1, <2>3 DEF Validate, Rows, Cols
    <3>2. Cardinality(rows) \in Nat /\ Cardinality(rows) >= 1 /\ Cardinality(cols) \in Nat /\ Cardinality(cols) >= 1
      BY <3>1, Supports, NotEmpty
    <3>3. iterations = 0
      BY <1>1 DEF Validate
    <3>4. InLoop'
      BY <1>1, <3>1, <3>2, <3>3 DEF Validate, InLoop, Rows, Cols
    <3>5. QED
      BY <1>1, <2>2, <2>3, <3>1, <3>4 DEF Validate, Rows, Cols
  <2>4. QED
    BY <1>1, <2>1, <2>2, <2>3 DEF Validate
<1>2. CASE Abort
  BY <1>2 DEF Abort, Answered
<1>3. CASE LpFails
  BY <1>3 DEF LpFails, Answered
<1>4. CASE Converge
  <2>1. PICK s \in Solutions : Settled(s) /\ lp' = s
    BY <1>4 DEF Converge
  <2>2. /\ game' = game /\ rows' = rows /\ cols' = cols /\ Asked \subseteq cache'
        /\ pc' = "some" /\ converged' = TRUE /\ iterations' = iterations
    BY <1>4 DEF Converge
  <2>3. Asked' = Asked
    BY <2>2 DEF Asked
  <2>4. Answered'
    BY <2>1, <2>2, <2>3, SettledIsNash DEF Answered
  <2>5. rows \subseteq Rows /\ cols \subseteq Cols
    BY <1>4 DEF Converge, InLoop
  <2>6. QED
    BY <2>2, <2>4, <2>5
<1>5. CASE Expand
  <2>s. PICK s \in Solutions :
           /\ ~Settled(s) /\ lp' = s
           /\ \E add \in RowAdds(s) : rows' = Grown(rows, add)
           /\ \E add \in ColAdds(s) : cols' = Grown(cols, add)
    BY <1>5 DEF Expand
  <2>1. PICK a \in RowAdds(s), b \in ColAdds(s) : rows' = Grown(rows, a) /\ cols' = Grown(cols, b)
    BY <2>s
  <2>2. InLoop /\ ~converged /\ iterations \in Nat
    BY <1>5 DEF Expand, Answered
  <2>3. /\ rows' \subseteq Rows /\ rows' # {} /\ cols' \subseteq Cols /\ cols' # {}
        /\ Cardinality(rows') = Cardinality(rows) + (IF BetterRows(s) = {} THEN 0 ELSE 1)
        /\ Cardinality(cols') = Cardinality(cols) + (IF BetterCols(s) = {} THEN 0 ELSE 1)
    BY <2>1, <2>2, RowsGrow, ColsGrow
  <2>4. /\ Cardinality(rows) \in Nat /\ Cardinality(cols) \in Nat
        /\ Cardinality(rows') <= RowCount /\ Cardinality(cols') <= ColCount
    BY <2>2, <2>3, Supports DEF InLoop, Rows, Cols
  <2>5. BetterRows(s) # {} \/ BetterCols(s) # {}
    BY <2>s DEF Settled
  <2>6. iterations' = iterations + 1
    BY <1>5 DEF Expand
  <2>7. iterations' + 2 <= Cardinality(rows') + Cardinality(cols')
    BY <2>2, <2>3, <2>4, <2>5, <2>6 DEF InLoop
  <2>8. iterations' < Cap
    <3>1. Cardinality(rows') \in Nat /\ Cardinality(cols') \in Nat
      BY <2>3, <2>4
    <3>2. QED
      BY <2>2, <2>4, <2>6, <2>7, <3>1 DEF Cap
  <2>9. pc' = "loop"
    <3>1. Cap \in Nat
      BY DEF Cap
    <3>2. QED
      BY <1>5, <2>2, <2>6, <2>8, <3>1 DEF Expand
  <2>10. InLoop'
    BY <2>3, <2>7 DEF InLoop, Rows, Cols
  <2>11. game' = game /\ converged' = converged
    BY <1>5 DEF Expand
  <2>12. QED
    BY <2>2, <2>3, <2>6, <2>9, <2>10, <2>11
<1>6. CASE UNCHANGED oracle
  BY <1>6 DEF oracle, InLoop, Answered, Asked
<1>7. QED
  BY <1>1, <1>2, <1>3, <1>4, <1>5, <1>6 DEF Next

\* The invariant holds of every behaviour.
LEMMA Invariant == Spec => []IInv
  BY InitIInv, NextIInv, PTL DEF Spec

\* Supports stay inside the game (double_oracle.rs, the loop).
THEOREM TypeCorrect == Spec => []TypeOK
<1>1. IInv => TypeOK
  BY DEF IInv
<1>2. QED
  BY <1>1, Invariant, PTL

\* A converged answer is an equilibrium of the whole game, whatever the game,
\* the seeds and the program's choice among its solutions.
THEOREM GlobalEquilibrium == Spec => []ConvergedIsNash
<1>1. IInv => ConvergedIsNash
  BY DEF IInv, Answered, ConvergedIsNash
<1>2. QED
  BY <1>1, Invariant, PTL

\* The iteration cap is never the reason the loop ends.
THEOREM CapIsSpare == Spec => []CapNeverBinds
<1>1. IInv => CapNeverBinds
  BY DEF IInv, CapNeverBinds
<1>2. QED
  BY <1>1, Invariant, PTL

\* What row_values and col_values read has been paid.
THEOREM ValuesAreFree == Spec => []AlreadyPaid
<1>1. IInv => AlreadyPaid
  BY DEF IInv, Answered, AlreadyPaid, Asked
<1>2. QED
  BY <1>1, Invariant, PTL
=============================================================================
