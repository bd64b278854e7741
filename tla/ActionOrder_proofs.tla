------------------------- MODULE ActionOrder_proofs -------------------------
(***************************************************************************)
(* Theorems about ActionOrder: whatever the Speeds and priorities and      *)
(* however many moves rearrange the queue, who acts next is who the rules  *)
(* name, nobody acts twice and nobody is lost, and ties are broken fairly. *)
(* The first part is about keys, the two sorts and their draws, the second *)
(* about the queue.                                                        *)
(***************************************************************************)
EXTENDS ActionOrder, FunctionTheorems, SequenceTheorems, FiniteSetTheorems, WellFoundedInduction, TLAPS

Less == {mn \in Nat \X Nat : mn[1] < mn[2]}

\* The least-number principle.
LEMMA Least ==
    ASSUME NEW B, B \subseteq Nat, B # {}
    PROVE  \E n \in B : \A m \in B : n <= m
<1>1. IsWellFoundedOn(Less, Nat)
  BY NatLessThanWellFounded DEF OpToRel, Less
<1>2. \E n \in B : \A m \in B : ~(<<m, n>> \in Less)
  BY <1>1, WFMin
<1>3. \A m, n \in Nat : <<m, n>> \notin Less => n <= m
  BY DEF Less
<1> QED BY <1>2, <1>3

-----------------------------------------------------------------------------
(* Keys.                                                                    *)

Keys == Int \X Int \X Int \X Int

LEMMA Lexicographic ==
    ASSUME NEW a \in Keys, NEW b \in Keys
    PROVE  Before(a, b) <=> \/ a[1] < b[1]
                            \/ a[1] = b[1] /\ a[2] < b[2]
                            \/ a[1] = b[1] /\ a[2] = b[2] /\ a[3] < b[3]
                            \/ a[1] = b[1] /\ a[2] = b[2] /\ a[3] = b[3] /\ a[4] < b[4]
<1>1. DOMAIN a = {1, 2, 3, 4}
  BY DEF Keys
<1>2. /\ 1 .. 1 - 1 = {} /\ 1 .. 2 - 1 = {1} /\ 1 .. 3 - 1 = {1, 2} /\ 1 .. 4 - 1 = {1, 2, 3}
  OBVIOUS
<1> QED BY <1>1, <1>2 DEF Before

\* Keys are in a weak order: of two that tie, either both are before a third
\* or neither is.
LEMMA KeysOrder ==
    ASSUME NEW a \in Keys, NEW b \in Keys
    PROVE  /\ ~Before(a, a)
           /\ Before(a, b) => ~Before(b, a)
           /\ \A c \in Keys : ~Before(b, a) /\ ~Before(c, b) => ~Before(c, a)
<1>1. \A x \in Keys : x[1] \in Int /\ x[2] \in Int /\ x[3] \in Int /\ x[4] \in Int
  BY DEF Keys
<1>2. ~Before(a, a)
  BY <1>1, Lexicographic
<1>3. Before(a, b) => ~Before(b, a)
  BY <1>1, Lexicographic
<1>4. ASSUME NEW c \in Keys, ~Before(b, a), ~Before(c, b)  PROVE ~Before(c, a)
  BY <1>1, <1>4, Lexicographic
<1> QED BY <1>2, <1>3, <1>4

-----------------------------------------------------------------------------
(* Rearrangements.  A tail is a function on 1 .. n; t[i].k is the key of    *)
(* its entry i.                                                             *)

Perm(h, n) ==
    /\ h \in [1 .. n -> 1 .. n]
    /\ \A i, j \in 1 .. n : h[i] = h[j] => i = j
    /\ \A j \in 1 .. n : \E i \in 1 .. n : h[i] = j

\* u is t with the entries of the places A rearranged among themselves.
Moves(u, t, n, A) ==
    \E h : /\ Perm(h, n) /\ u = [i \in 1 .. n |-> t[h[i]]]
           /\ \A i \in 1 .. n : (i \in A => h[i] \in A) /\ (i \notin A => h[i] = i)

LEMMA NothingMoves ==
    ASSUME NEW n \in Nat, NEW X, NEW t \in [1 .. n -> X], NEW A
    PROVE  Moves(t, t, n, A)
<1> DEFINE h == [i \in 1 .. n |-> i]
<1>1. Perm(h, n)
  BY DEF Perm
<1>2. t = [i \in 1 .. n |-> t[h[i]]]
  OBVIOUS
<1> QED BY <1>1, <1>2 DEF Moves

LEMMA SwapMoves ==
    ASSUME NEW n \in Nat, NEW u, NEW t, NEW A, Moves(u, t, n, A),
           NEW i \in A \cap 1 .. n, NEW j \in A \cap 1 .. n
    PROVE  Moves(Swap(u, i, j), t, n, A)
<1>1. PICK h : /\ Perm(h, n) /\ u = [k \in 1 .. n |-> t[h[k]]]
               /\ \A k \in 1 .. n : (k \in A => h[k] \in A) /\ (k \notin A => h[k] = k)
  BY DEF Moves
<1> DEFINE g == [k \in 1 .. n |-> IF k = i THEN h[j] ELSE IF k = j THEN h[i] ELSE h[k]]
<1>2. Perm(g, n)
  <2>1. g \in [1 .. n -> 1 .. n]
    BY <1>1 DEF Perm
  <2>2. \A k, m \in 1 .. n : g[k] = g[m] => k = m
    BY <1>1 DEF Perm
  <2>3. ASSUME NEW m \in 1 .. n  PROVE \E k \in 1 .. n : g[k] = m
    <3>1. PICK k \in 1 .. n : h[k] = m
      BY <1>1 DEF Perm
    <3>2. CASE k = i
      BY <3>1, <3>2
    <3>3. CASE k = j
      BY <3>1, <3>3
    <3>4. CASE k # i /\ k # j
      BY <3>1, <3>4
    <3> QED BY <3>2, <3>3, <3>4
  <2> QED BY <2>1, <2>2, <2>3 DEF Perm
<1>3. Swap(u, i, j) = [k \in 1 .. n |-> t[g[k]]]
  BY <1>1 DEF Swap
<1>4. \A k \in 1 .. n : (k \in A => g[k] \in A) /\ (k \notin A => g[k] = k)
  BY <1>1
<1> HIDE DEF g
<1> QED BY <1>2, <1>3, <1>4 DEF Moves

LEMMA MovesMore ==
    ASSUME NEW n \in Nat, NEW u, NEW t, NEW A, NEW B, A \subseteq B, Moves(u, t, n, A)
    PROVE  Moves(u, t, n, B)
BY DEF Moves

LEMMA MovesOn ==
    ASSUME NEW n \in Nat, NEW t, NEW u, NEW v, NEW A, Moves(u, t, n, A), Moves(v, u, n, A)
    PROVE  Moves(v, t, n, A)
<1>1. PICK h : /\ Perm(h, n) /\ u = [k \in 1 .. n |-> t[h[k]]]
               /\ \A k \in 1 .. n : (k \in A => h[k] \in A) /\ (k \notin A => h[k] = k)
  BY DEF Moves
<1>2. PICK g : /\ Perm(g, n) /\ v = [k \in 1 .. n |-> u[g[k]]]
               /\ \A k \in 1 .. n : (k \in A => g[k] \in A) /\ (k \notin A => g[k] = k)
  BY DEF Moves
<1> DEFINE f == [k \in 1 .. n |-> h[g[k]]]
<1>3. Perm(f, n)
  <2>1. f \in [1 .. n -> 1 .. n] /\ \A k, m \in 1 .. n : f[k] = f[m] => k = m
    BY <1>1, <1>2 DEF Perm
  <2>2. ASSUME NEW m \in 1 .. n  PROVE \E k \in 1 .. n : f[k] = m
    <3>1. PICK k \in 1 .. n : h[k] = m
      BY <1>1 DEF Perm
    <3>2. PICK l \in 1 .. n : g[l] = k
      BY <1>2 DEF Perm
    <3> QED BY <3>1, <3>2
  <2> QED BY <2>1, <2>2 DEF Perm
<1>4. v = [k \in 1 .. n |-> t[f[k]]]
  BY <1>1, <1>2 DEF Perm
<1>5. \A k \in 1 .. n : (k \in A => f[k] \in A) /\ (k \notin A => f[k] = k)
  BY <1>1, <1>2 DEF Perm
<1> HIDE DEF f
<1> QED BY <1>3, <1>4, <1>5 DEF Moves

LEMMA MovesType ==
    ASSUME NEW n \in Nat, NEW X, NEW t \in [1 .. n -> X], NEW u, NEW A, Moves(u, t, n, A)
    PROVE  u \in [1 .. n -> X]
<1>1. PICK h : Perm(h, n) /\ u = [i \in 1 .. n |-> t[h[i]]]
  BY DEF Moves
<1>2. h \in [1 .. n -> 1 .. n]
  BY <1>1 DEF Perm
<1> QED BY <1>1, <1>2

LEMMA MovesWithin ==
    ASSUME NEW n, NEW t, NEW u, NEW A, Moves(u, t, n, A), NEW i \in 1 .. n
    PROVE  /\ i \notin A => u[i] = t[i]
           /\ i \in A => \E j \in A : j \in 1 .. n /\ u[i] = t[j]
<1>1. PICK h : /\ Perm(h, n) /\ u = [k \in 1 .. n |-> t[h[k]]]
               /\ \A k \in 1 .. n : (k \in A => h[k] \in A) /\ (k \notin A => h[k] = k)
  BY DEF Moves
<1>2. h[i] \in 1 .. n /\ u[i] = t[h[i]]
  BY <1>1 DEF Perm
<1> QED BY <1>1, <1>2

\* No two entries are the same.
Distinct(t, n) == \A i, j \in 1 .. n : t[i] = t[j] => i = j

LEMMA MovesDistinct ==
    ASSUME NEW n \in Nat, NEW t, NEW u, NEW A, Moves(u, t, n, A), Distinct(t, n)
    PROVE  Distinct(u, n)
<1>1. PICK h : Perm(h, n) /\ u = [k \in 1 .. n |-> t[h[k]]]
  BY DEF Moves
<1> SUFFICES ASSUME NEW i \in 1 .. n, NEW j \in 1 .. n, u[i] = u[j]  PROVE i = j
  BY DEF Distinct
<1>2. h[i] \in 1 .. n /\ h[j] \in 1 .. n
  BY <1>1 DEF Perm
<1>3. t[h[i]] = t[h[j]]
  BY <1>1
<1>4. h[i] = h[j]
  BY <1>2, <1>3 DEF Distinct
<1> QED BY <1>1, <1>4 DEF Perm

LEMMA TailLen ==
    ASSUME NEW n \in Nat, NEW X, NEW t \in [1 .. n -> X]
    PROVE  Len(t) = n /\ DOMAIN t = 1 .. n /\ t \in Seq(X)
<1>1. t \in Seq(X)
  BY SeqDef
<1>2. DOMAIN t = 1 .. n /\ DOMAIN t = 1 .. Len(t) /\ Len(t) \in Nat
  BY <1>1, LenProperties
<1>3. Len(t) = n
  BY <1>2
<1> QED BY <1>1, <1>2, <1>3

-----------------------------------------------------------------------------
(* A sequence of swaps.                                                     *)

\* g holds what t is after each of the first m swaps.
Swapping(g, t, pairs, m) ==
    g = [n \in 0 .. m |-> IF n = 0 THEN t ELSE Swap(g[n - 1], pairs[n][1], pairs[n][2])]

LEMMA SwappingSteps ==
    ASSUME NEW g, NEW t, NEW pairs, NEW m \in Nat, Swapping(g, t, pairs, m)
    PROVE  /\ g[0] = t
           /\ \A n \in 1 .. m : g[n] = Swap(g[n - 1], pairs[n][1], pairs[n][2])
<1>1. 0 \in 0 .. m /\ \A n \in 1 .. m : n \in 0 .. m /\ n # 0
  OBVIOUS
<1> QED BY <1>1 DEF Swapping

LEMMA SwappingExists ==
    ASSUME NEW t, NEW pairs, NEW m \in Nat
    PROVE  \E g : Swapping(g, t, pairs, m)
<1> DEFINE B == {k \in Nat : ~\E g : Swapping(g, t, pairs, k)}
<1> SUFFICES ASSUME B # {} PROVE FALSE
  OBVIOUS
<1>1. PICK k \in B : \A j \in B : k <= j
  <2>1. B \subseteq Nat
    OBVIOUS
  <2> HIDE DEF B
  <2> QED BY <2>1, Least
<1>2. CASE k = 0
  <2> DEFINE g == [n \in 0 .. 0 |-> t]
  <2>1. Swapping(g, t, pairs, 0)
    BY DEF Swapping
  <2> QED BY <1>1, <1>2, <2>1
<1>3. CASE k # 0
  <2>1. k \in Nat /\ k - 1 \in Nat /\ k - 1 \notin B
    BY <1>1, <1>3
  <2>2. PICK h : Swapping(h, t, pairs, k - 1)
    BY <2>1
  <2>3. h[0] = t /\ \A n \in 1 .. k - 1 : h[n] = Swap(h[n - 1], pairs[n][1], pairs[n][2])
    BY <2>1, <2>2, SwappingSteps
  <2> DEFINE g == [n \in 0 .. k |-> IF n = k THEN Swap(h[k - 1], pairs[k][1], pairs[k][2]) ELSE h[n]]
  <2>4. ASSUME NEW n \in 0 .. k
        PROVE  g[n] = IF n = 0 THEN t ELSE Swap(g[n - 1], pairs[n][1], pairs[n][2])
    <3>1. CASE n = 0
      BY <1>3, <2>3, <3>1
    <3>2. CASE n # 0
      <4>1. n - 1 \in 0 .. k /\ n - 1 # k /\ (n # k => n \in 1 .. k - 1)
        BY <2>1, <3>2
      <4>2. g[n - 1] = h[n - 1]
        BY <4>1
      <4> QED BY <2>3, <3>2, <4>1, <4>2
    <3> QED BY <3>1, <3>2
  <2>5. Swapping(g, t, pairs, k)
    BY <2>4 DEF Swapping
  <2> QED BY <1>1, <2>5
<1> QED BY <1>2, <1>3

\* What Swaps computes: the last of the stages g.
LEMMA SwapsStages ==
    ASSUME NEW t, NEW pairs, Len(pairs) \in Nat
    PROVE  \E g : Swapping(g, t, pairs, Len(pairs)) /\ Swaps(t, pairs) = g[Len(pairs)]
<1> DEFINE G == CHOOSE g : Swapping(g, t, pairs, Len(pairs))
<1>1. Swapping(G, t, pairs, Len(pairs))
  BY SwappingExists
<1>2. Swaps(t, pairs) = G[Len(pairs)]
  BY DEF Swaps, Swapping
<1> QED BY <1>1, <1>2

\* Swaps of places in A move what is there among them.
LEMMA SwapsMove ==
    ASSUME NEW n \in Nat, NEW X, NEW t \in [1 .. n -> X], NEW A,
           NEW pairs, Len(pairs) \in Nat,
           \A k \in 1 .. Len(pairs) : pairs[k][1] \in A \cap 1 .. n /\ pairs[k][2] \in A \cap 1 .. n
    PROVE  Moves(Swaps(t, pairs), t, n, A)
<1>1. PICK g : Swapping(g, t, pairs, Len(pairs)) /\ Swaps(t, pairs) = g[Len(pairs)]
  BY SwapsStages
<1>2. g[0] = t /\ \A k \in 1 .. Len(pairs) : g[k] = Swap(g[k - 1], pairs[k][1], pairs[k][2])
  BY <1>1, SwappingSteps
<1> DEFINE B == {k \in 0 .. Len(pairs) : ~Moves(g[k], t, n, A)}
<1> SUFFICES ASSUME B # {} PROVE FALSE
  BY <1>1
<1>3. PICK k \in B : \A j \in B : k <= j
  <2>1. B \subseteq Nat
    OBVIOUS
  <2> HIDE DEF B
  <2> QED BY <2>1, Least
<1>4. CASE k = 0
  BY <1>2, <1>3, <1>4, NothingMoves
<1>5. CASE k # 0
  <2>1. k \in 1 .. Len(pairs) /\ k - 1 \in 0 .. Len(pairs) /\ ~(k <= k - 1)
    BY <1>3, <1>5
  <2>2. Moves(g[k - 1], t, n, A)
    BY <1>3, <2>1
  <2>3. Moves(g[k], t, n, A)
    BY <1>2, <2>1, <2>2, SwapMoves
  <2> QED BY <1>3, <2>3
<1> QED BY <1>4, <1>5

-----------------------------------------------------------------------------
(* A shuffle, draw by draw.                                                 *)

\* The swaps of a shuffle.
Deal(from, to, d) == [k \in 1 .. to - from |-> <<from + k - 1, d[from + k - 1]>>]

\* g holds the stages of the shuffle of v with the draws d.
Dealing(g, v, n, from, to, d) ==
    /\ g[0] = v /\ g[to - from] = Shuffle(v, from, to, d)
    /\ \A k \in 1 .. to - from : g[k] = Swap(g[k - 1], from + k - 1, d[from + k - 1])
    /\ \A k \in 0 .. to - from : Moves(g[k], v, n, from .. to)

\* What is dealt to a place is not touched again.
Rests(g, n, from, to) ==
    \A k \in 0 .. to - from : \A j \in k .. to - from : \A q \in 1 .. n :
        q < from + k => g[j][q] = g[k][q]

LEMMA DealingIs ==
    ASSUME NEW n \in Nat, NEW from \in 1 .. n, NEW to \in from .. n, NEW X, NEW v \in [1 .. n -> X],
           NEW d \in Draws(from, to)
    PROVE  \E g : Dealing(g, v, n, from, to, d)
<1>N. PICK N \in Nat : N = to - from
  OBVIOUS
<1>P. PICK P : P = Deal(from, to, d)
  OBVIOUS
<1>A. PICK A : A = from .. to
  OBVIOUS
<1>1. Len(P) = N
  <2>1. P \in [1 .. N -> {P[k] : k \in 1 .. N}]
    BY <1>N, <1>P DEF Deal
  <2> QED BY <2>1, TailLen
<1>2. Shuffle(v, from, to, d) = Swaps(v, P)
  BY <1>P DEF Shuffle, Deal
<1>3. PICK g : Swapping(g, v, P, N) /\ Swaps(v, P) = g[N]
  BY <1>1, SwapsStages
<1>4. g[0] = v /\ \A k \in 1 .. N : g[k] = Swap(g[k - 1], P[k][1], P[k][2])
  BY <1>3, SwappingSteps
<1>5. ASSUME NEW k \in 1 .. N
      PROVE  /\ P[k][1] = from + k - 1 /\ P[k][2] = d[from + k - 1]
             /\ P[k][1] \in A \cap 1 .. n /\ P[k][2] \in A \cap 1 .. n
  <2>1. P[k][1] = from + k - 1 /\ P[k][2] = d[from + k - 1]
    BY <1>N, <1>P DEF Deal
  <2>2. from + k - 1 \in from .. to - 1 /\ from + k - 1 \in 1 .. n /\ from + k - 1 \in from .. to
    BY <1>N
  <2>3. d[from + k - 1] \in from .. to
    BY <2>2 DEF Draws
  <2>4. d[from + k - 1] \in 1 .. n
    BY <2>3
  <2> QED BY <1>A, <2>1, <2>2, <2>3, <2>4
<1> DEFINE B == {k \in 0 .. N : ~Moves(g[k], v, n, A)}
<1>6. B = {}
  <2> SUFFICES ASSUME B # {} PROVE FALSE
    OBVIOUS
  <2>1. PICK k \in B : \A j \in B : k <= j
    <3>1. B \subseteq Nat
      OBVIOUS
    <3> HIDE DEF B
    <3> QED BY <3>1, Least
  <2>2. CASE k = 0
    BY <1>4, <2>1, <2>2, NothingMoves
  <2>3. CASE k # 0
    <3>1. k \in 1 .. N /\ k - 1 \in 0 .. N /\ ~(k <= k - 1)
      BY <2>1, <2>3
    <3>2. Moves(g[k - 1], v, n, A)
      BY <2>1, <3>1
    <3>3. Moves(g[k], v, n, A)
      BY <1>4, <1>5, <3>1, <3>2, SwapMoves
    <3> QED BY <2>1, <3>3
  <2> QED BY <2>2, <2>3
<1>7. \A k \in 0 .. N : Moves(g[k], v, n, A)
  BY <1>6
<1>8. \A k \in 1 .. N : g[k] = Swap(g[k - 1], from + k - 1, d[from + k - 1])
  BY <1>4, <1>5
<1>9. Dealing(g, v, n, from, to, d)
  BY <1>2, <1>3, <1>4, <1>7, <1>8, <1>A, <1>N DEF Dealing
<1> QED BY <1>9

LEMMA ShuffleMoves ==
    ASSUME NEW n \in Nat, NEW from \in 1 .. n, NEW to \in from .. n, NEW X, NEW v \in [1 .. n -> X],
           NEW d \in Draws(from, to)
    PROVE  Moves(Shuffle(v, from, to, d), v, n, from .. to)
<1>1. PICK g : Dealing(g, v, n, from, to, d)
  BY DealingIs
<1>2. PICK k \in 0 .. to - from : k = to - from
  OBVIOUS
<1>A. PICK A : A = from .. to
  OBVIOUS
<1>3. Moves(g[k], v, n, A) /\ g[to - from] = Shuffle(v, from, to, d)
  BY <1>1, <1>A DEF Dealing
<1> QED BY <1>2, <1>3, <1>A

-----------------------------------------------------------------------------
(* ps_speed_sort.                                                           *)

\* Tails of entries of X, whose keys are keys.
Keyed(X) == \A x \in X : x.k \in Keys

\* Nobody from `from` on is before x.
First(t, n, from, x) == \A j \in from .. n : ~Before(t[j].k, x.k)

\* The places up to m are sorted, and no later one belongs there.
Led(t, n, m) == \A i, j \in 1 .. n : i < j /\ i <= m => ~Before(t[j].k, t[i].k)

\* Somebody is first of every tail that is not empty.
LEMMA SomebodyFirst ==
    ASSUME NEW n \in Nat, NEW X, Keyed(X), NEW t \in [1 .. n -> X], NEW from \in 1 .. n
    PROVE  \E i \in from .. n : First(t, n, from, t[i])
<1>0. \A i \in 1 .. n : t[i].k \in Keys
  BY DEF Keyed
<1> DEFINE B == {m \in from .. n : ~\E i \in from .. m : First(t, m, from, t[i])}
<1>n. n \in from .. n
  OBVIOUS
<1> SUFFICES ASSUME B # {} PROVE FALSE
  BY <1>n
<1>1. PICK m \in B : \A j \in B : m <= j
  <2>1. B \subseteq Nat
    OBVIOUS
  <2> HIDE DEF B
  <2> QED BY <2>1, Least
<1>2. CASE m = from
  <2>1. First(t, m, from, t[m])
    BY <1>0, <1>1, <1>2, KeysOrder DEF First
  <2> QED BY <1>1, <1>2, <2>1
<1>3. CASE m # from
  <2>1. m - 1 \in from .. n /\ m - 1 \notin B
    BY <1>1, <1>3
  <2>2. PICK i \in from .. m - 1 : First(t, m - 1, from, t[i])
    BY <2>1
  <2>3. i \in from .. m /\ i \in 1 .. n /\ m \in 1 .. n /\ from .. m = from .. m - 1 \cup {m} /\ m \in from .. m
    BY <1>1, <2>2
  <2>4. CASE Before(t[m].k, t[i].k)
    <3>1. ASSUME NEW j \in from .. m  PROVE ~Before(t[j].k, t[m].k)
      <4>1. j \in 1 .. n
        BY <1>1, <3>1
      <4>2. CASE j = m
        BY <1>0, <4>1, <4>2, KeysOrder
      <4>3. CASE j # m
        <5>1. ~Before(t[j].k, t[i].k)
          BY <2>2, <2>3, <4>3 DEF First
        <5>2. ~Before(t[i].k, t[m].k)
          BY <1>0, <2>3, <2>4, KeysOrder
        <5> QED BY <1>0, <2>3, <4>1, <5>1, <5>2, KeysOrder
      <4> QED BY <4>2, <4>3
    <3> QED BY <1>1, <2>3, <3>1 DEF First
  <2>5. CASE ~Before(t[m].k, t[i].k)
    <3>1. First(t, m, from, t[i])
      BY <2>2, <2>3, <2>5 DEF First
    <3> QED BY <1>1, <2>3, <3>1
  <2> QED BY <2>4, <2>5
<1> QED BY <1>2, <1>3

\* Those of `run` up to place i.
UpTo(run, i) == Cardinality({j \in run : j <= i})

\* A run is behind place m.
Behind(run, m, n) == m \in Nat /\ n \in Nat /\ run \in SUBSET (m + 1 .. n)

LEMMA Counting ==
    ASSUME NEW n, NEW m, NEW run, Behind(run, m, n), NEW i \in m .. n
    PROVE  /\ UpTo(run, i) \in 0 .. i - m
           /\ i = m => UpTo(run, i) = 0
           /\ i > m /\ i \in run => UpTo(run, i) = UpTo(run, i - 1) + 1
           /\ i > m /\ i \notin run => UpTo(run, i) = UpTo(run, i - 1)
           /\ UpTo(run, n) = Cardinality(run)
<1> DEFINE S(k) == {j \in run : j <= k}
<1>0. /\ \A j \in run : j \in Int /\ m + 1 <= j /\ j <= n
      /\ i \in Int /\ n \in Nat /\ m \in Nat /\ m <= i /\ i <= n
  BY DEF Behind
<1>1. IsFiniteSet(m + 1 .. i) /\ Cardinality(m + 1 .. i) = i - m
  <2>1. IsFiniteSet(m + 1 .. i) /\ Cardinality(m + 1 .. i) = (IF m + 1 > i THEN 0 ELSE i - (m + 1) + 1)
    BY <1>0, FS_Interval
  <2> QED BY <1>0, <2>1
<1>2. S(i) \subseteq m + 1 .. i
  <2> SUFFICES ASSUME NEW j \in run, j <= i  PROVE j \in m + 1 .. i
    OBVIOUS
  <2> QED BY <1>0
<1>3. IsFiniteSet(S(i)) /\ Cardinality(S(i)) <= Cardinality(m + 1 .. i) /\ Cardinality(S(i)) \in Nat
  BY <1>1, <1>2, FS_Subset, FS_CardinalityType
<1>4. UpTo(run, i) \in 0 .. i - m
  BY <1>0, <1>1, <1>3 DEF UpTo
<1>5. i = m => UpTo(run, i) = 0
  BY <1>0, <1>4
<1>6. ASSUME i > m, i \in run  PROVE UpTo(run, i) = UpTo(run, i - 1) + 1
  <2>0. \A j \in run : (j <= i <=> j <= i - 1 \/ j = i) /\ ~(i <= i - 1)
    BY <1>0
  <2>1. S(i) = S(i - 1) \cup {i} /\ i \notin S(i - 1) /\ S(i - 1) \subseteq S(i)
    BY <1>6, <2>0
  <2>2. IsFiniteSet(S(i - 1))
    BY <1>3, <2>1, FS_Subset
  <2>3. Cardinality(S(i)) = Cardinality(S(i - 1)) + 1
    BY <2>1, <2>2, FS_AddElement
  <2> QED BY <2>3 DEF UpTo
<1>7. ASSUME i > m, i \notin run  PROVE UpTo(run, i) = UpTo(run, i - 1)
  <2>0. \A j \in run : j <= i <=> j <= i - 1
    BY <1>0, <1>7
  <2>1. S(i) = S(i - 1)
    BY <2>0
  <2> QED BY <2>1 DEF UpTo
<1>8. {j \in run : j <= n} = run
  BY <1>0
<1>9. UpTo(run, n) = Cardinality(run)
  BY <1>8 DEF UpTo
<1> QED BY <1>4, <1>5, <1>6, <1>7, <1>9

\* Where the entry of place i goes in the first half of a round.
Ahead(run, m, i) == IF i \in run THEN m + UpTo(run, i) ELSE i


\* From one place to the next.
LEMMA CountingOn ==
    ASSUME NEW n, NEW m, NEW run, Behind(run, m, n), NEW p \in m + 1 .. n
    PROVE  \E c \in 0 .. p - 1 - m :
              /\ UpTo(run, p - 1) = c
              /\ UpTo(run, p) = IF p \in run THEN c + 1 ELSE c
              /\ Ahead(run, m, p) = (IF p \in run THEN m + c + 1 ELSE p)
<1>0. m \in Nat /\ n \in Nat /\ p \in m .. n /\ p > m
  BY DEF Behind
<1>1. PICK o : o \in m .. n /\ o = p - 1
  BY <1>0
<1>2. UpTo(run, o) \in 0 .. o - m
  BY <1>1, Counting
<1>3. /\ p \in run => UpTo(run, p) = UpTo(run, p - 1) + 1
      /\ p \notin run => UpTo(run, p) = UpTo(run, p - 1)
  BY <1>0, Counting
<1>4. UpTo(run, p - 1) = UpTo(run, o) /\ o - m = p - 1 - m
  BY <1>1
<1>5. PICK c : c = UpTo(run, p - 1)
  OBVIOUS
<1>6. c \in 0 .. p - 1 - m
  BY <1>2, <1>4, <1>5
<1>7. UpTo(run, p) = IF p \in run THEN c + 1 ELSE c
  BY <1>3, <1>5
<1>8. p \in run => m + (c + 1) = m + c + 1
  BY <1>0, <1>6
<1>9. Ahead(run, m, p) = (IF p \in run THEN m + c + 1 ELSE p)
  BY <1>7, <1>8 DEF Ahead
<1> QED BY <1>5, <1>6, <1>7, <1>9

\* Entries of the run stand at the first c places behind m.
InFront(u, t, run, m, c) == \A j \in m + 1 .. m + c : \E i \in run : u[j] = t[i]

\* Once the swaps up to place p are made: the entries behind are where they
\* were, and those of the run up to it stand in front.
Fronted(u, t, run, m, n, p) ==
    /\ \A j \in p + 1 .. n : u[j] = t[j]
    /\ InFront(u, t, run, m, UpTo(run, p))

LEMMA FrontStep ==
    ASSUME NEW n, NEW m, NEW run, Behind(run, m, n), NEW p \in m + 1 .. n,
           NEW t, NEW u, Fronted(u, t, run, m, n, p - 1), DOMAIN u = 1 .. n,
           NEW v, v = Swap(u, Ahead(run, m, p), p)
    PROVE  Fronted(v, t, run, m, n, p) /\ DOMAIN v = 1 .. n
<1>0. m \in Nat /\ n \in Nat /\ p \in 1 .. n /\ m < p
  BY DEF Behind
<1>1. PICK c : /\ c \in 0 .. p - 1 - m
               /\ UpTo(run, p - 1) = c
               /\ UpTo(run, p) = IF p \in run THEN c + 1 ELSE c
               /\ Ahead(run, m, p) = (IF p \in run THEN m + c + 1 ELSE p)
  BY CountingOn
<1>2. PICK q : q = Ahead(run, m, p)
  OBVIOUS
<1>3. q \in m + 1 .. p
  BY <1>0, <1>1, <1>2
<1>4. DOMAIN v = 1 .. n /\ \A j \in 1 .. n : v[j] = IF j = q THEN u[p] ELSE IF j = p THEN u[q] ELSE u[j]
  BY <1>2 DEF Swap
<1>5. \A j \in p .. n : u[j] = t[j]
  <2>1. \A j \in p - 1 + 1 .. n : u[j] = t[j]
    BY DEF Fronted, InFront
  <2>2. p - 1 + 1 = p
    BY <1>0
  <2> QED BY <2>1, <2>2
<1>6. \A j \in m + 1 .. m + c : \E i \in run : u[j] = t[i]
  BY <1>1 DEF Fronted, InFront
<1>7. \A j \in p + 1 .. n : v[j] = t[j]
  <2> SUFFICES ASSUME NEW j \in p + 1 .. n  PROVE v[j] = t[j]
    OBVIOUS
  <2>1. j \in 1 .. n /\ j \in p .. n /\ j # p /\ j # q
    BY <1>0, <1>3
  <2> QED BY <1>4, <1>5, <2>1
<1>8. ASSUME NEW j \in m + 1 .. m + c, p \in run => q = m + c + 1, p \notin run => q = p
      PROVE  \E i \in run : v[j] = t[i]
  <2>1. j \in 1 .. n /\ j # p /\ j # q
    BY <1>0, <1>1, <1>8
  <2> QED BY <1>4, <1>6, <2>1
<1>9. CASE p \in run
  <2>1. q = m + c + 1 /\ UpTo(run, p) = c + 1
    BY <1>1, <1>2, <1>9
  <2>2. v[q] = t[p]
    <3>1. q \in 1 .. n /\ p \in p .. n
      BY <1>0, <1>3
    <3> QED BY <1>4, <1>5, <3>1
  <2>3. \A j \in m + 1 .. m + (c + 1) : j \in m + 1 .. m + c \/ j = m + c + 1
    BY <1>0, <1>1
  <2>4. \A j \in m + 1 .. m + c : \E i \in run : v[j] = t[i]
    BY <1>8, <1>9, <2>1
  <2>5. \A j \in m + 1 .. m + (c + 1) : \E i \in run : v[j] = t[i]
    BY <1>9, <2>1, <2>2, <2>3, <2>4
  <2> QED BY <1>4, <1>7, <2>1, <2>5 DEF Fronted, InFront
<1>10. CASE p \notin run
  <2>1. q = p /\ UpTo(run, p) = c
    BY <1>1, <1>2, <1>10
  <2>2. \A j \in m + 1 .. m + c : \E i \in run : v[j] = t[i]
    BY <1>8, <1>10, <2>1
  <2> QED BY <1>4, <1>7, <2>1, <2>2 DEF Fronted, InFront
<1> QED BY <1>9, <1>10

Pairs(run, m, n) == [k \in 1 .. n - m |-> <<Ahead(run, m, m + k), m + k>>]

LEMMA FrontMoves ==
    ASSUME NEW n, NEW m, NEW run, Behind(run, m, n), m < n, NEW X, NEW t \in [1 .. n -> X],
           NEW moved, moved = Swaps(t, Pairs(run, m, n))
    PROVE  /\ Moves(moved, t, n, m + 1 .. n)
           /\ InFront(moved, t, run, m, Cardinality(run))
<1>0. m \in Nat /\ n \in Nat
  BY DEF Behind
<1>P. PICK P : P = Pairs(run, m, n)
  OBVIOUS
<1>N. PICK N \in Nat : N = n - m
  BY <1>0
<1>1. Len(P) = N
  <2>1. P \in [1 .. N -> {P[k] : k \in 1 .. N}]
    BY <1>P, <1>N DEF Pairs
  <2> QED BY <2>1, TailLen
<1>2. ASSUME NEW k \in 1 .. N
      PROVE  /\ P[k][1] = Ahead(run, m, m + k) /\ P[k][2] = m + k
             /\ P[k][1] \in (m + 1 .. n) \cap 1 .. n /\ P[k][2] \in (m + 1 .. n) \cap 1 .. n
  <2>1. P[k][1] = Ahead(run, m, m + k) /\ P[k][2] = m + k
    BY <1>P, <1>N DEF Pairs
  <2>2. PICK p \in m + 1 .. n : p = m + k
    BY <1>0, <1>N
  <2>3. PICK c : /\ c \in 0 .. p - 1 - m
                 /\ Ahead(run, m, p) = (IF p \in run THEN m + c + 1 ELSE p)
    BY CountingOn
  <2>4. Ahead(run, m, p) \in m + 1 .. n /\ Ahead(run, m, p) \in 1 .. n /\ p \in 1 .. n
    BY <1>0, <2>3
  <2> QED BY <2>1, <2>2, <2>4
<1>3. Moves(moved, t, n, m + 1 .. n)
  <2>1. PICK A : A = m + 1 .. n
    OBVIOUS
  <2>2. \A k \in 1 .. Len(P) : P[k][1] \in A \cap 1 .. n /\ P[k][2] \in A \cap 1 .. n
    BY <1>1, <1>2, <2>1
  <2>3. Len(P) \in Nat /\ moved = Swaps(t, P)
    BY <1>1, <1>P
  <2>4. Moves(moved, t, n, A)
    BY <1>0, <2>2, <2>3, SwapsMove
  <2> QED BY <2>1, <2>4
<1>4. PICK g : Swapping(g, t, P, N) /\ moved = g[N]
  BY <1>P, <1>1, SwapsStages
<1>5. g[0] = t /\ \A k \in 1 .. N : g[k] = Swap(g[k - 1], Ahead(run, m, m + k), m + k)
  BY <1>1, <1>2, <1>4, SwappingSteps
<1> DEFINE B == {k \in 0 .. N : ~(DOMAIN g[k] = 1 .. n /\ Fronted(g[k], t, run, m, n, m + k))}
<1>6. B = {}
  <2> SUFFICES ASSUME B # {} PROVE FALSE
    OBVIOUS
  <2>1. PICK k \in B : \A j \in B : k <= j
    <3>1. B \subseteq Nat
      OBVIOUS
    <3> HIDE DEF B
    <3> QED BY <3>1, Least
  <2>2. CASE k = 0
    <3>1. PICK i \in m .. n : i = m
      BY <1>0
    <3>2. UpTo(run, i) = 0
      BY <3>1, Counting
    <3>3. m + 0 = i /\ m + 1 .. m + 0 = {}
      BY <1>0, <3>1
    <3>4. Fronted(t, t, run, m, n, i)
      BY <3>1, <3>2, <3>3 DEF Fronted, InFront
    <3>5. DOMAIN t = 1 .. n
      OBVIOUS
    <3> QED BY <1>5, <2>1, <2>2, <3>3, <3>4, <3>5
  <2>3. CASE k # 0
    <3>1. k \in 1 .. N /\ k - 1 \in 0 .. N /\ ~(k <= k - 1)
      BY <2>1, <2>3
    <3>2. DOMAIN g[k - 1] = 1 .. n /\ Fronted(g[k - 1], t, run, m, n, m + (k - 1))
      BY <2>1, <3>1
    <3>3. PICK p \in m + 1 .. n : p = m + k
      BY <1>0, <1>N, <3>1
    <3>4. m + (k - 1) = p - 1
      BY <1>0, <3>1, <3>3
    <3>5. PICK u : u = g[k - 1]
      OBVIOUS
    <3>6. PICK v : v = g[k]
      OBVIOUS
    <3>7. v = Swap(u, Ahead(run, m, p), p)
      BY <1>5, <3>1, <3>3, <3>5, <3>6
    <3>8. Fronted(u, t, run, m, n, p - 1) /\ DOMAIN u = 1 .. n
      BY <3>2, <3>4, <3>5
    <3>9. Fronted(v, t, run, m, n, p) /\ DOMAIN v = 1 .. n
      BY <3>7, <3>8, FrontStep
    <3> QED BY <2>1, <3>3, <3>6, <3>9
  <2> QED BY <2>2, <2>3
<1>7. Fronted(moved, t, run, m, n, m + N)
  <2>1. N \in 0 .. N
    OBVIOUS
  <2> QED BY <1>4, <1>6, <2>1
<1>8. PICK i \in m .. n : i = n /\ m + N = i
  BY <1>0, <1>N
<1>9. UpTo(run, i) = Cardinality(run)
  BY <1>8, Counting
<1> QED BY <1>3, <1>7, <1>8, <1>9 DEF Fronted

\* The first half of a round brings those that are first of what is left to
\* its front, ..
FirstHalf(n, m, t, run, to, moved) ==
    /\ run = {i \in m + 1 .. n : First(t, n, m + 1, t[i])}
    /\ to = m + Cardinality(run)
    /\ moved = Swaps(t, Pairs(run, m, n))

LEMMA Halfway ==
    ASSUME NEW n \in Nat, NEW m \in Nat, m < n, NEW X, Keyed(X), NEW t \in [1 .. n -> X],
           NEW run, NEW to, NEW moved, FirstHalf(n, m, t, run, to, moved)
    PROVE  /\ to \in m + 1 .. n
           /\ Moves(moved, t, n, m + 1 .. n)
           /\ \A j \in m + 1 .. to : \E i \in run : moved[j] = t[i]
           /\ \A i \in run : First(t, n, m + 1, t[i])
<1>1. Behind(run, m, n)
  BY DEF Behind, FirstHalf
<1>2. to \in m + 1 .. n
  <2>1. PICK i \in m + 1 .. n : First(t, n, m + 1, t[i])
    <3>1. PICK from \in 1 .. n : from = m + 1
      OBVIOUS
    <3> QED BY <3>1, SomebodyFirst
  <2>2. i \in run
    BY <2>1 DEF FirstHalf
  <2>3. IsFiniteSet(m + 1 .. n) /\ Cardinality(m + 1 .. n) = n - m
    <3>1. Cardinality(m + 1 .. n) = (IF m + 1 > n THEN 0 ELSE n - (m + 1) + 1)
      BY FS_Interval
    <3> QED BY <3>1, FS_Interval
  <2>4. run \subseteq m + 1 .. n
    BY DEF FirstHalf
  <2>5. IsFiniteSet(run) /\ Cardinality(run) <= n - m
    BY <2>3, <2>4, FS_Subset
  <2>6. Cardinality(run) \in Nat /\ Cardinality(run) # 0
    BY <2>2, <2>5, FS_CardinalityType, FS_EmptySet
  <2> QED BY <2>5, <2>6 DEF FirstHalf
<1>3. moved = Swaps(t, Pairs(run, m, n)) /\ to = m + Cardinality(run)
  BY DEF FirstHalf
<1>4. Moves(moved, t, n, m + 1 .. n)
  <2>1. Moves(Swaps(t, Pairs(run, m, n)), t, n, m + 1 .. n)
    BY <1>1, FrontMoves
  <2> QED BY <1>3, <2>1
<1>5. InFront(moved, t, run, m, Cardinality(run))
  BY <1>1, <1>3, FrontMoves
<1> QED BY <1>2, <1>3, <1>4, <1>5 DEF FirstHalf, InFront

\* .. the second deals them out again.
LEMMA Rounded ==
    ASSUME NEW n \in Nat, NEW m \in Nat, m < n, NEW X, Keyed(X), NEW t \in [1 .. n -> X],
           Led(t, n, m), NEW run, NEW to, NEW moved, FirstHalf(n, m, t, run, to, moved),
           NEW u, Moves(u, moved, n, m + 1 .. to)
    PROVE  Moves(u, t, n, m + 1 .. n) /\ Led(u, n, to)
<1>2. to \in m + 1 .. n
  BY Halfway
<1>3. /\ Moves(moved, t, n, m + 1 .. n)
      /\ \A j \in m + 1 .. to : \E i \in run : moved[j] = t[i]
      /\ \A i \in run : First(t, n, m + 1, t[i])
  BY Halfway
<1>A. PICK A : A = m + 1 .. n
  OBVIOUS
<1>C. PICK C : C = m + 1 .. to
  OBVIOUS
<1>M. Moves(moved, t, n, A) /\ Moves(u, moved, n, C)
  BY <1>3, <1>A, <1>C
<1>4. Moves(u, t, n, A)
  <2>1. C \subseteq A
    BY <1>2, <1>A, <1>C
  <2>2. Moves(u, moved, n, A)
    BY <1>M, <2>1, MovesMore
  <2> QED BY <1>M, <2>2, MovesOn
<1>5. moved \in [1 .. n -> X]
  BY <1>M, MovesType
<1>6. \A i \in m + 1 .. to : \E p \in run : u[i] = t[p]
  <2>1. \A i \in C : i \in 1 .. n
    BY <1>2, <1>C
  <2>2. \A i \in 1 .. n : i \in C => \E j \in C : u[i] = moved[j]
    BY <1>M, MovesWithin
  <2>3. \A j \in C : \E i \in run : moved[j] = t[i]
    BY <1>3, <1>C
  <2> QED BY <1>C, <2>1, <2>2, <2>3
<1>7. /\ \A i \in 1 .. n : i \notin m + 1 .. n => u[i] = t[i]
      /\ \A i \in 1 .. n : i \in m + 1 .. n => \E j \in m + 1 .. n : j \in 1 .. n /\ u[i] = t[j]
  <2>1. \A i \in 1 .. n : i \notin A => u[i] = t[i]
    BY <1>4, MovesWithin
  <2>2. \A i \in 1 .. n : i \in A => \E j \in A : j \in 1 .. n /\ u[i] = t[j]
    BY <1>4, MovesWithin
  <2> QED BY <1>A, <2>1, <2>2
<1>8. ASSUME NEW i \in 1 .. n, NEW j \in 1 .. n, i < j, i <= to  PROVE ~Before(u[j].k, u[i].k)
  <2>1. CASE i <= m
    <3>1. u[i] = t[i]
      BY <1>7, <2>1
    <3>2. PICK p \in 1 .. n : u[j] = t[p] /\ i < p
      <4>1. CASE j \in m + 1 .. n
        BY <1>7, <2>1, <4>1
      <4>2. CASE j \notin m + 1 .. n
        BY <1>7, <1>8, <4>2
      <4> QED BY <4>1, <4>2
    <3> QED BY <2>1, <3>1, <3>2 DEF Led
  <2>2. CASE i > m
    <3>1. i \in m + 1 .. to /\ j \in m + 1 .. n
      BY <1>2, <1>8, <2>2
    <3>2. PICK p \in run : u[i] = t[p]
      BY <1>6, <3>1
    <3>3. PICK q \in m + 1 .. n : u[j] = t[q]
      BY <1>7, <3>1
    <3>4. First(t, n, m + 1, t[p])
      BY <1>3, <3>2
    <3> QED BY <3>2, <3>3, <3>4 DEF First
  <2> QED BY <2>1, <2>2
<1> QED BY <1>4, <1>8, <1>A DEF Led

\* What a round of the sort may leave.
RoundIs(s, to, moved) ==
    SortRound(s) = {[t |-> Shuffle(moved, s.done + 1, to, d), done |-> to, drawn |-> Append(s.drawn, d)] :
                       d \in Draws(s.done + 1, to)}

LEMMA RoundIsSo ==
    ASSUME NEW n \in Nat, NEW X, NEW s, s.t \in [1 .. n -> X], s.done \in Nat
    PROVE  \E run, to, moved : FirstHalf(n, s.done, s.t, run, to, moved) /\ RoundIs(s, to, moved)
<1>t. PICK t : t = s.t
  OBVIOUS
<1>m. PICK m \in Nat : m = s.done
  OBVIOUS
<1>n. t \in [1 .. n -> X] /\ Len(t) = n
  BY <1>t, TailLen
<1>R. PICK run : run = Earliest(t, m + 1)
  OBVIOUS
<1>T. PICK to : to = m + Cardinality(run)
  OBVIOUS
<1>V. PICK moved : moved = Swaps(t, Pairs(run, m, n))
  OBVIOUS
<1>1. FirstHalf(n, m, t, run, to, moved)
  BY <1>n, <1>R, <1>T, <1>V DEF Earliest, First, FirstHalf
<1>2. moved = Swaps(t, [k \in 1 .. Len(t) - m |->
                 <<IF m + k \in run THEN m + Cardinality({j \in run : j <= m + k}) ELSE m + k, m + k>>])
  BY <1>n, <1>V DEF Pairs, Ahead, UpTo
<1>3. RoundIs(s, to, moved)
  BY <1>2, <1>t, <1>m, <1>R, <1>T DEF SortRound, RoundIs
<1> QED BY <1>1, <1>3, <1>t, <1>m

\* A round of the sort.
LEMMA RoundSorts ==
    ASSUME NEW n \in Nat, NEW X, Keyed(X), NEW s, s.t \in [1 .. n -> X], s.done \in Nat,
           s.done < n, Led(s.t, n, s.done), NEW r \in SortRound(s)
    PROVE  /\ r.done \in s.done + 1 .. n
           /\ Moves(r.t, s.t, n, 1 .. n) /\ Led(r.t, n, r.done)
<1>t. PICK t : t = s.t
  OBVIOUS
<1>m. PICK m \in Nat : m = s.done
  OBVIOUS
<1>n. t \in [1 .. n -> X] /\ m < n /\ Led(t, n, m)
  BY <1>t, <1>m
<1>f. PICK from : from = m + 1
  OBVIOUS
<1>1. PICK run, to, moved : FirstHalf(n, m, t, run, to, moved) /\ RoundIs(s, to, moved)
  BY <1>m, <1>t, RoundIsSo
<1>3. PICK d \in Draws(from, to) : r = [t |-> Shuffle(moved, from, to, d), done |-> to, drawn |-> Append(s.drawn, d)]
  BY <1>1, <1>m, <1>f DEF RoundIs
<1>4. to \in m + 1 .. n /\ Moves(moved, t, n, m + 1 .. n)
  BY <1>1, <1>n, Halfway
<1>5. moved \in [1 .. n -> X] /\ to \in from .. n /\ from \in 1 .. n
  <2>1. PICK A : A = m + 1 .. n
    OBVIOUS
  <2>2. moved \in [1 .. n -> X]
    BY <1>4, <1>n, <2>1, MovesType
  <2> QED BY <1>4, <1>n, <1>f, <2>2
<1>6. Moves(r.t, moved, n, m + 1 .. to)
  <2>1. Moves(Shuffle(moved, from, to, d), moved, n, from .. to)
    BY <1>5, ShuffleMoves
  <2> QED BY <1>3, <1>f, <2>1
<1>7. Moves(r.t, t, n, m + 1 .. n) /\ Led(r.t, n, to)
  BY <1>1, <1>6, <1>n, Rounded
<1>8. Moves(r.t, t, n, 1 .. n)
  <2>1. m + 1 .. n \subseteq 1 .. n
    OBVIOUS
  <2> QED BY <1>7, <2>1, MovesMore
<1> QED BY <1>3, <1>4, <1>7, <1>8, <1>t, <1>m

\* g holds what the sort may have made of t after each of its first m rounds.
Sorting(g, t, m) ==
    g = [n \in 0 .. m |->
            IF n = 0 THEN {[t |-> t, done |-> 0, drawn |-> <<>>]}
            ELSE UNION {IF s.done + 1 >= Len(t) THEN {s} ELSE SortRound(s) : s \in g[n - 1]}]

Start(t) == {[t |-> t, done |-> 0, drawn |-> <<>>]}
Rounds(t, S) == UNION {IF s.done + 1 >= Len(t) THEN {s} ELSE SortRound(s) : s \in S}

LEMMA SortingSteps ==
    ASSUME NEW g, NEW t, NEW m \in Nat, Sorting(g, t, m)
    PROVE  g[0] = Start(t) /\ \A n \in 1 .. m : g[n] = Rounds(t, g[n - 1])
<1>1. g = [n \in 0 .. m |-> IF n = 0 THEN Start(t) ELSE Rounds(t, g[n - 1])]
  BY DEF Sorting, Start, Rounds
<1>2. 0 \in 0 .. m /\ \A n \in 1 .. m : n \in 0 .. m /\ n # 0
  OBVIOUS
<1> QED BY <1>1, <1>2

LEMMA SortingExists ==
    ASSUME NEW t, NEW m \in Nat
    PROVE  \E g : Sorting(g, t, m)
<1> DEFINE B == {k \in Nat : ~\E g : Sorting(g, t, k)}
<1> SUFFICES ASSUME B # {} PROVE FALSE
  OBVIOUS
<1>0. \A g, k : Sorting(g, t, k) <=> g = [n \in 0 .. k |-> IF n = 0 THEN Start(t) ELSE Rounds(t, g[n - 1])]
  BY DEF Sorting, Start, Rounds
<1>1. PICK k \in B : \A j \in B : k <= j
  <2>1. B \subseteq Nat
    OBVIOUS
  <2> HIDE DEF B
  <2> QED BY <2>1, Least
<1>2. CASE k = 0
  <2> DEFINE g == [n \in 0 .. 0 |-> Start(t)]
  <2>1. g = [n \in 0 .. 0 |-> IF n = 0 THEN Start(t) ELSE Rounds(t, g[n - 1])]
    OBVIOUS
  <2> HIDE DEF g
  <2>2. Sorting(g, t, 0)
    BY <1>0, <2>1
  <2> QED BY <1>1, <1>2, <2>2
<1>3. CASE k # 0
  <2>1. k \in Nat /\ k - 1 \in Nat /\ k - 1 \notin B
    BY <1>1, <1>3
  <2>2. PICK h : Sorting(h, t, k - 1)
    BY <2>1
  <2>3. h[0] = Start(t) /\ \A n \in 1 .. k - 1 : h[n] = Rounds(t, h[n - 1])
    BY <2>1, <2>2, SortingSteps
  <2> DEFINE g == [n \in 0 .. k |-> IF n = k THEN Rounds(t, h[k - 1]) ELSE h[n]]
  <2>4. ASSUME NEW n \in 0 .. k
        PROVE  g[n] = IF n = 0 THEN Start(t) ELSE Rounds(t, g[n - 1])
    <3>1. CASE n = 0
      BY <1>3, <2>3, <3>1
    <3>2. CASE n # 0
      <4>1. n - 1 \in 0 .. k /\ n - 1 # k /\ (n # k => n \in 1 .. k - 1)
        BY <2>1, <3>2
      <4>2. g[n - 1] = h[n - 1]
        BY <4>1
      <4> QED BY <2>3, <3>2, <4>1, <4>2
    <3> QED BY <3>1, <3>2
  <2>5. g = [n \in 0 .. k |-> IF n = 0 THEN Start(t) ELSE Rounds(t, g[n - 1])]
    BY <2>4
  <2> HIDE DEF g
  <2>6. Sorting(g, t, k)
    BY <1>0, <2>5
  <2> QED BY <1>1, <2>6
<1> QED BY <1>2, <1>3

\* What SpeedSorts computes: the last of the stages g.
LEMMA SpeedSortsStages ==
    ASSUME NEW t, Len(t) \in Nat
    PROVE  \E g : Sorting(g, t, Len(t)) /\ SpeedSorts(t) = g[Len(t)]
<1> DEFINE G == CHOOSE g : Sorting(g, t, Len(t))
<1>1. Sorting(G, t, Len(t))
  BY SortingExists
<1>2. SpeedSorts(t) = G[Len(t)]
  BY DEF SpeedSorts, Sorting
<1> QED BY <1>1, <1>2

\* t has been sorted up to place s.done, and k rounds did no less.
Sorts(s, t, n, k) ==
    /\ s.done \in 0 .. n /\ (s.done >= k \/ s.done + 1 >= n)
    /\ Moves(s.t, t, n, 1 .. n) /\ Led(s.t, n, s.done)

LEMMA SortsOn ==
    ASSUME NEW n \in Nat, NEW X, Keyed(X), NEW t \in [1 .. n -> X], NEW k \in Nat,
           NEW s, Sorts(s, t, n, k), NEW r \in IF s.done + 1 >= n THEN {s} ELSE SortRound(s)
    PROVE  Sorts(r, t, n, k + 1)
<1>1. CASE s.done + 1 >= n
  BY <1>1 DEF Sorts
<1>2. CASE ~(s.done + 1 >= n)
  <2>0. s.done \in Nat /\ s.done < n /\ s.done >= k /\ r \in SortRound(s)
    BY <1>2 DEF Sorts
  <2>A. PICK A : A = 1 .. n
    OBVIOUS
  <2>1. Moves(s.t, t, n, A) /\ Led(s.t, n, s.done)
    BY <2>A DEF Sorts
  <2>2. s.t \in [1 .. n -> X]
    BY <2>1, MovesType
  <2>3. r.done \in s.done + 1 .. n
    BY <2>0, <2>1, <2>2, RoundSorts
  <2>4. Moves(r.t, s.t, n, A)
    BY <2>0, <2>1, <2>2, <2>A, RoundSorts
  <2>5. Led(r.t, n, r.done)
    BY <2>0, <2>1, <2>2, RoundSorts
  <2>6. Moves(r.t, t, n, A)
    BY <2>1, <2>4, MovesOn
  <2>7. r.done \in 0 .. n /\ r.done >= k + 1
    BY <2>0, <2>3
  <2> QED BY <2>5, <2>6, <2>7, <2>A DEF Sorts
<1> QED BY <1>1, <1>2

\* u is a sorted rearrangement of t.
Sorted(u, t, n) == Moves(u, t, n, 1 .. n) /\ Led(u, n, n)

LEMMA SpeedSorted ==
    ASSUME NEW n \in Nat, NEW X, Keyed(X), NEW t \in [1 .. n -> X], NEW s \in SpeedSorts(t)
    PROVE  Sorted(s.t, t, n)
<1>0. Len(t) = n
  BY TailLen
<1>1. PICK g : Sorting(g, t, n) /\ SpeedSorts(t) = g[n]
  BY <1>0, SpeedSortsStages
<1>2. g[0] = Start(t) /\ \A k \in 1 .. n : g[k] = Rounds(t, g[k - 1])
  BY <1>1, SortingSteps
<1> DEFINE B == {k \in 0 .. n : ~\A x \in g[k] : Sorts(x, t, n, k)}
<1>3. B = {}
  <2> SUFFICES ASSUME B # {} PROVE FALSE
    OBVIOUS
  <2>1. PICK k \in B : \A j \in B : k <= j
    <3>1. B \subseteq Nat
      OBVIOUS
    <3> HIDE DEF B
    <3> QED BY <3>1, Least
  <2>2. CASE k = 0
    <3> SUFFICES ASSUME NEW x \in g[0]  PROVE Sorts(x, t, n, 0)
      BY <2>1, <2>2
    <3>1. x.t = t /\ x.done = 0
      BY <1>2 DEF Start
    <3>2. Moves(t, t, n, 1 .. n)
      BY NothingMoves
    <3>3. Led(t, n, 0)
      BY DEF Led
    <3> QED BY <3>1, <3>2, <3>3 DEF Sorts
  <2>3. CASE k # 0
    <3>1. k \in 1 .. n /\ k - 1 \in 0 .. n /\ ~(k <= k - 1) /\ k - 1 \in Nat
      BY <2>1, <2>3
    <3>2. \A x \in g[k - 1] : Sorts(x, t, n, k - 1)
      BY <2>1, <3>1
    <3>3. ASSUME NEW x \in g[k]  PROVE Sorts(x, t, n, k)
      <4>1. PICK y \in g[k - 1] : x \in IF y.done + 1 >= n THEN {y} ELSE SortRound(y)
        BY <1>0, <1>2, <3>1 DEF Rounds
      <4>2. Sorts(y, t, n, k - 1)
        BY <3>2
      <4>3. Sorts(x, t, n, k - 1 + 1)
        BY <3>1, <4>1, <4>2, SortsOn
      <4> QED BY <3>1, <4>3
    <3> QED BY <2>1, <3>3
  <2> QED BY <2>2, <2>3
<1>4. Sorts(s, t, n, n)
  <2>1. n \in 0 .. n
    OBVIOUS
  <2> QED BY <1>1, <1>3, <2>1
<1>5. Led(s.t, n, n)
  <2>1. \A i, j \in 1 .. n : i < j => i <= s.done
    BY <1>4 DEF Sorts
  <2> QED BY <1>4, <2>1 DEF Sorts, Led
<1> QED BY <1>4, <1>5 DEF Sorts, Sorted

-----------------------------------------------------------------------------
(* The draws: each sorted order comes of exactly one sequence of them.      *)

LEMMA DealingType ==
    ASSUME NEW n \in Nat, NEW from \in 1 .. n, NEW to \in from .. n, NEW X, NEW v \in [1 .. n -> X],
           NEW d, NEW g, Dealing(g, v, n, from, to, d), NEW k \in 0 .. to - from
    PROVE  g[k] \in [1 .. n -> X]
<1>A. PICK A : A = from .. to
  OBVIOUS
<1>1. Moves(g[k], v, n, A)
  BY <1>A DEF Dealing
<1> QED BY <1>1, MovesType

LEMMA DealingRests ==
    ASSUME NEW n \in Nat, NEW from \in 1 .. n, NEW to \in from .. n, NEW X, NEW v \in [1 .. n -> X],
           NEW d \in Draws(from, to), NEW g, Dealing(g, v, n, from, to, d)
    PROVE  Rests(g, n, from, to)
<1>N. PICK N \in Nat : N = to - from
  OBVIOUS
<1> SUFFICES ASSUME NEW k \in 0 .. N, NEW q \in 1 .. n, q < from + k
             PROVE  \A j \in k .. N : g[j][q] = g[k][q]
  BY <1>N DEF Rests
<1> DEFINE B == {j \in k .. N : g[j][q] # g[k][q]}
<1> SUFFICES ASSUME B # {} PROVE FALSE
  OBVIOUS
<1>1. PICK j \in B : \A i \in B : j <= i
  <2>1. B \subseteq Nat
    OBVIOUS
  <2> HIDE DEF B
  <2> QED BY <2>1, Least
<1>2. j # k /\ j \in 1 .. N /\ j - 1 \in 0 .. N /\ j - 1 \in k .. N /\ j - 1 \notin B
  BY <1>1
<1>3. g[j - 1][q] = g[k][q]
  BY <1>2
<1>4. g[j] = Swap(g[j - 1], from + j - 1, d[from + j - 1]) /\ g[j - 1] \in [1 .. n -> X]
  <2>1. g[j] = Swap(g[j - 1], from + j - 1, d[from + j - 1])
    BY <1>2, <1>N DEF Dealing
  <2>2. PICK i \in 0 .. to - from : i = j - 1
    BY <1>2, <1>N
  <2>3. g[i] \in [1 .. n -> X]
    BY DealingType
  <2> QED BY <2>1, <2>2, <2>3
<1>5. from + j - 1 \in from .. to - 1
  BY <1>2, <1>N
<1>6. d[from + j - 1] \in Nat /\ d[from + j - 1] >= from + j - 1
  BY <1>5 DEF Draws
<1>7. q # from + j - 1 /\ q # d[from + j - 1]
  BY <1>1, <1>2, <1>6
<1>8. g[j][q] = g[j - 1][q]
  BY <1>4, <1>7 DEF Swap
<1> QED BY <1>1, <1>3, <1>8

\* d and e deal the first k places alike.
SameDeal(d, e, from, k) == \A i \in 1 .. k : d[from + i - 1] = e[from + i - 1]

\* As long as the draws agree so do the stages.
LEMMA DealingAgrees ==
    ASSUME NEW from \in Nat, NEW to \in Nat, NEW n, NEW v, NEW d, NEW e, NEW g, NEW h,
           Dealing(g, v, n, from, to, d), Dealing(h, v, n, from, to, e),
           NEW k \in 0 .. to - from, SameDeal(d, e, from, k)
    PROVE  g[k] = h[k]
<1>N. PICK N \in Int : N = to - from
  OBVIOUS
<1> DEFINE B == {j \in 0 .. k : g[j] # h[j]}
<1> SUFFICES ASSUME B # {} PROVE FALSE
  OBVIOUS
<1>1. PICK j \in B : \A i \in B : j <= i
  <2>1. B \subseteq Nat
    OBVIOUS
  <2> HIDE DEF B
  <2> QED BY <2>1, Least
<1>2. CASE j = 0
  BY <1>1, <1>2 DEF Dealing
<1>3. CASE j # 0
  <2>1. j \in 1 .. N /\ j \in 1 .. k /\ j - 1 \in 0 .. k /\ j - 1 \notin B
    BY <1>1, <1>3, <1>N
  <2>2. g[j - 1] = h[j - 1]
    BY <2>1
  <2>3. g[j] = Swap(g[j - 1], from + j - 1, d[from + j - 1])
    BY <2>1, <1>N DEF Dealing
  <2>4. h[j] = Swap(h[j - 1], from + j - 1, e[from + j - 1])
    BY <2>1, <1>N DEF Dealing
  <2>5. d[from + j - 1] = e[from + j - 1]
    BY <2>1 DEF SameDeal
  <2> QED BY <1>1, <2>2, <2>3, <2>4, <2>5
<1> QED BY <1>2, <1>3

\* The draws d put at the places from .. to what u has there.
Deals(v, from, to, d, u) == \A p \in from .. to : Shuffle(v, from, to, d)[p] = u[p]

\* Two shuffles that come out alike were drawn alike.
LEMMA DrawnAlike ==
    ASSUME NEW n \in Nat, NEW from \in 1 .. n, NEW to \in from .. n, NEW X, NEW v \in [1 .. n -> X],
           Distinct(v, n), NEW d \in Draws(from, to), NEW e \in Draws(from, to),
           NEW u, Deals(v, from, to, d, u), Deals(v, from, to, e, u)
    PROVE  d = e
<1>N. PICK N \in Nat : N = to - from
  OBVIOUS
<1>d. PICK g : Dealing(g, v, n, from, to, d) /\ Shuffle(v, from, to, d) = g[N]
  <2>1. PICK g : Dealing(g, v, n, from, to, d)
    BY DealingIs
  <2>2. g[to - from] = Shuffle(v, from, to, d)
    BY <2>1 DEF Dealing
  <2> QED BY <2>1, <2>2, <1>N
<1>e. PICK h : Dealing(h, v, n, from, to, e) /\ Shuffle(v, from, to, e) = h[N]
  <2>1. PICK h : Dealing(h, v, n, from, to, e)
    BY DealingIs
  <2>2. h[to - from] = Shuffle(v, from, to, e)
    BY <2>1 DEF Dealing
  <2> QED BY <2>1, <2>2, <1>N
<1>0. (\A p \in from .. to - 1 : d[p] = e[p]) => d = e
  BY DEF Draws
<1> DEFINE B == {p \in from .. to - 1 : d[p] # e[p]}
<1> SUFFICES ASSUME B # {} PROVE FALSE
  BY <1>0
<1>1. PICK p \in B : \A j \in B : p <= j
  <2>1. B \subseteq Nat
    OBVIOUS
  <2> HIDE DEF B
  <2> QED BY <2>1, Least
<1>2. PICK k \in 1 .. N : k = p - from + 1
  BY <1>1, <1>N
<1>3. k - 1 \in 0 .. N /\ from + k - 1 = p /\ p < from + k /\ p \in 1 .. n /\ p \in from .. to
      /\ p \in from .. to - 1
  BY <1>1, <1>2, <1>N
<1>4. \A i \in 1 .. k - 1 : d[from + i - 1] = e[from + i - 1]
  <2> SUFFICES ASSUME NEW i \in 1 .. k - 1  PROVE d[from + i - 1] = e[from + i - 1]
    OBVIOUS
  <2>1. from + i - 1 \in from .. to - 1 /\ ~(p <= from + i - 1)
    BY <1>2, <1>3, <1>N
  <2> QED BY <1>1, <2>1
<1>5. g[k - 1] = h[k - 1]
  <2>1. PICK i \in 0 .. to - from : i = k - 1
    BY <1>3, <1>N
  <2>2. SameDeal(d, e, from, i)
    BY <1>4, <2>1 DEF SameDeal
  <2>3. g[i] = h[i]
    BY <1>d, <1>e, <2>2, DealingAgrees
  <2> QED BY <2>1, <2>3
<1>w. PICK w : w = g[k - 1]
  OBVIOUS
<1>6. w \in [1 .. n -> X] /\ Distinct(w, n)
  <2>1. PICK i \in 0 .. to - from : i = k - 1
    BY <1>3, <1>N
  <2>A. PICK A : A = from .. to
    OBVIOUS
  <2>2. Moves(g[i], v, n, A)
    BY <1>d, <2>A DEF Dealing
  <2>3. g[i] \in [1 .. n -> X]
    BY <2>2, MovesType
  <2>4. Distinct(g[i], n)
    BY <2>2, MovesDistinct
  <2> QED BY <1>w, <2>1, <2>3, <2>4
<1>7. g[k] = Swap(w, p, d[p]) /\ h[k] = Swap(w, p, e[p])
  <2>1. g[k] = Swap(g[k - 1], from + k - 1, d[from + k - 1])
    BY <1>d, <1>N, <1>2 DEF Dealing
  <2>2. h[k] = Swap(h[k - 1], from + k - 1, e[from + k - 1])
    BY <1>e, <1>N, <1>2 DEF Dealing
  <2> QED BY <1>3, <1>5, <1>w, <2>1, <2>2
<1>8. d[p] \in from .. to /\ e[p] \in from .. to
  BY <1>3 DEF Draws
<1>9. d[p] \in 1 .. n /\ e[p] \in 1 .. n
  BY <1>8
<1>10. g[k][p] = w[d[p]] /\ h[k][p] = w[e[p]]
  BY <1>3, <1>6, <1>7, <1>9 DEF Swap
<1>11. g[N][p] = g[k][p] /\ h[N][p] = h[k][p]
  <2>1. Rests(g, n, from, to) /\ Rests(h, n, from, to)
    BY <1>d, <1>e, DealingRests
  <2>2. k \in 0 .. to - from /\ N \in k .. to - from
    BY <1>2, <1>N
  <2> QED BY <1>3, <2>1, <2>2 DEF Rests
<1>12. g[N][p] = h[N][p]
  BY <1>d, <1>e, <1>3 DEF Deals
<1>13. d[p] = e[p]
  <2>1. w[d[p]] = w[e[p]]
    BY <1>10, <1>11, <1>12
  <2> QED BY <1>6, <1>9, <2>1 DEF Distinct
<1> QED BY <1>1, <1>13

\* What u has at the places from .. to is there in v.
Covers(v, u, from, to) == \A p \in from .. to : \E j \in from .. to : v[j] = u[p]

\* k places have been dealt as u has them.
Dealt(w, u, from, to, k) ==
    Covers(w, u, from, to) /\ \A p \in from .. to : p < from + k => w[p] = u[p]

\* One place more.
LEMMA DealtOn ==
    ASSUME NEW n \in Nat, NEW from \in 1 .. n, NEW to \in from .. n, NEW X, NEW w \in [1 .. n -> X],
           NEW u, Distinct(u, n), NEW k \in 0 .. to - from, Dealt(w, u, from, to, k)
    PROVE  \E j \in from + k .. to :
              /\ w[j] = u[from + k]
              /\ Dealt(Swap(w, from + k, j), u, from, to, k + 1)
<1>p. PICK p \in from .. to : p = from + k
  OBVIOUS
<1>1. PICK j \in from .. to : w[j] = u[p]
  BY DEF Dealt, Covers
<1>2. j >= p
  <2> SUFFICES ASSUME j < p  PROVE FALSE
    OBVIOUS
  <2>1. w[j] = u[j]
    BY <1>1, <1>p DEF Dealt
  <2>2. j \in 1 .. n /\ p \in 1 .. n /\ j # p
    OBVIOUS
  <2> QED BY <1>1, <2>1, <2>2 DEF Distinct
<1>3. PICK x : x = Swap(w, p, j)
  OBVIOUS
<1>4. \A q \in 1 .. n : x[q] = IF q = p THEN w[j] ELSE IF q = j THEN w[p] ELSE w[q]
  BY <1>3 DEF Swap
<1>5. Covers(x, u, from, to)
  <2> SUFFICES ASSUME NEW q \in from .. to  PROVE \E i \in from .. to : x[i] = u[q]
    BY DEF Covers
  <2>1. PICK i \in from .. to : w[i] = u[q]
    BY DEF Dealt, Covers
  <2>2. i \in 1 .. n /\ j \in 1 .. n /\ p \in 1 .. n
    OBVIOUS
  <2>3. CASE i = p
    BY <1>4, <2>1, <2>2, <2>3
  <2>4. CASE i = j
    BY <1>4, <2>1, <2>2, <2>4
  <2>5. CASE i # p /\ i # j
    BY <1>4, <2>1, <2>2, <2>5
  <2> QED BY <2>3, <2>4, <2>5
<1>6. ASSUME NEW q \in from .. to, q < from + (k + 1)  PROVE x[q] = u[q]
  <2>1. q \in 1 .. n
    OBVIOUS
  <2>2. CASE q = p
    BY <1>1, <1>4, <2>1, <2>2
  <2>3. CASE q # p
    <3>1. q < from + k /\ q # j
      BY <1>2, <1>6, <1>p, <2>3
    <3>2. w[q] = u[q]
      BY <3>1 DEF Dealt
    <3> QED BY <1>4, <2>1, <2>3, <3>1, <3>2
  <2> QED BY <2>2, <2>3
<1>7. Dealt(x, u, from, to, k + 1)
  BY <1>5, <1>6 DEF Dealt
<1> QED BY <1>1, <1>2, <1>3, <1>7, <1>p

\* Some draws deal u.
LEMMA SomeDraws ==
    ASSUME NEW n \in Nat, NEW from \in 1 .. n, NEW to \in from .. n, NEW X, NEW v \in [1 .. n -> X],
           NEW u, Distinct(u, n), Covers(v, u, from, to)
    PROVE  \E d \in Draws(from, to) : Deals(v, from, to, d, u)
<1>N. PICK N \in Nat : N = to - from
  OBVIOUS
<1> DEFINE Good(k) == \E d \in Draws(from, to) : \E g : Dealing(g, v, n, from, to, d) /\ Dealt(g[k], u, from, to, k)
           B == {k \in 0 .. N : ~Good(k)}
<1>1. B = {}
  <2> SUFFICES ASSUME B # {} PROVE FALSE
    OBVIOUS
  <2>1. PICK k \in B : \A j \in B : k <= j
    <3>1. B \subseteq Nat
      OBVIOUS
    <3> HIDE DEF B
    <3> QED BY <3>1, Least
  <2>2. CASE k = 0
    <3> DEFINE d == [i \in from .. to - 1 |-> i]
    <3>1. d \in Draws(from, to)
      BY DEF Draws
    <3> HIDE DEF d
    <3>2. PICK g : Dealing(g, v, n, from, to, d)
      BY <3>1, DealingIs
    <3>3. g[0] = v
      BY <3>2 DEF Dealing
    <3>4. \A p \in from .. to : ~(p < from + 0)
      OBVIOUS
    <3>5. Dealt(g[0], u, from, to, 0)
      BY <3>3, <3>4 DEF Dealt
    <3>6. Good(0)
      BY <3>1, <3>2, <3>5
    <3> HIDE DEF Good
    <3> QED BY <2>1, <2>2, <3>6
  <2>3. CASE k # 0
    <3>1. k \in 1 .. N /\ k - 1 \in 0 .. N /\ k - 1 \notin B
      BY <2>1, <2>3
    <3>d. PICK d \in Draws(from, to) :
              \E g : Dealing(g, v, n, from, to, d) /\ Dealt(g[k - 1], u, from, to, k - 1)
      BY <3>1
    <3>2. PICK g : Dealing(g, v, n, from, to, d) /\ Dealt(g[k - 1], u, from, to, k - 1)
      BY <3>d
    <3>3. PICK m \in 0 .. to - from : m = k - 1
      BY <3>1, <1>N
    <3>p. PICK p \in from .. to - 1 : p = from + m
      BY <3>1, <3>3, <1>N
    <3>w. PICK w : w = g[m]
      OBVIOUS
    <3>4. w \in [1 .. n -> X]
      BY <3>2, <3>w, DealingType
    <3>5. Dealt(w, u, from, to, m)
      BY <3>2, <3>3, <3>w
    <3>6. PICK j \in from + m .. to : Dealt(Swap(w, from + m, j), u, from, to, m + 1)
      BY <3>4, <3>5, DealtOn
    <3> DEFINE e == [d EXCEPT ![p] = j]
    <3>7. e \in Draws(from, to) /\ e[p] = j /\ \A i \in from .. to - 1 : i # p => e[i] = d[i]
      <4>1. d \in [from .. to - 1 -> from .. to] /\ \A i \in from .. to - 1 : d[i] >= i
        BY DEF Draws
      <4>2. j \in from .. to /\ j >= p
        BY <3>p
      <4>3. e \in [from .. to - 1 -> from .. to] /\ e[p] = j /\ \A i \in from .. to - 1 : i # p => e[i] = d[i]
        BY <3>p, <4>1, <4>2
      <4>4. \A i \in from .. to - 1 : e[i] >= i
        BY <4>1, <4>2, <4>3
      <4> HIDE DEF e
      <4> QED BY <4>3, <4>4 DEF Draws
    <3> HIDE DEF e
    <3>8. PICK h : Dealing(h, v, n, from, to, e)
      BY <3>7, DealingIs
    <3>9. h[m] = w
      <4>1. \A i \in 1 .. m : d[from + i - 1] = e[from + i - 1]
        <5> SUFFICES ASSUME NEW i \in 1 .. m  PROVE d[from + i - 1] = e[from + i - 1]
          OBVIOUS
        <5>1. from + i - 1 \in from .. to - 1 /\ from + i - 1 # p
          BY <3>p, <3>3, <3>1, <1>N
        <5> QED BY <3>7, <5>1
      <4>2. SameDeal(d, e, from, m)
        BY <4>1 DEF SameDeal
      <4>3. g[m] = h[m]
        BY <3>2, <3>8, <4>2, DealingAgrees
      <4> QED BY <3>w, <4>3
    <3>10. h[k] = Swap(w, from + m, j)
      <4>1. h[k] = Swap(h[k - 1], from + k - 1, e[from + k - 1])
        BY <3>1, <3>8, <1>N DEF Dealing
      <4>2. from + k - 1 = p /\ from + m = p /\ k - 1 = m
        BY <3>1, <3>3, <3>p
      <4> QED BY <3>7, <3>9, <4>1, <4>2
    <3>11. Dealt(h[k], u, from, to, k)
      <4>1. m + 1 = k
        BY <3>1, <3>3
      <4> QED BY <3>6, <3>10, <4>1
    <3>12. Good(k)
      BY <3>7, <3>8, <3>11
    <3> HIDE DEF Good
    <3> QED BY <2>1, <3>12
  <2> QED BY <2>2, <2>3
<1>d. PICK d \in Draws(from, to) : \E g : Dealing(g, v, n, from, to, d) /\ Dealt(g[N], u, from, to, N)
  <2>0. N \in 0 .. N
    OBVIOUS
  <2>1. Good(N)
    BY <1>1, <2>0
  <2> QED BY <2>1
<1>2. PICK g : Dealing(g, v, n, from, to, d) /\ Dealt(g[N], u, from, to, N)
  BY <1>d
<1>3. PICK h : Dealing(h, v, n, from, to, d) /\ Shuffle(v, from, to, d) = h[N]
  <2>1. PICK h : Dealing(h, v, n, from, to, d)
    BY DealingIs
  <2>2. h[to - from] = Shuffle(v, from, to, d)
    BY <2>1 DEF Dealing
  <2> QED BY <2>1, <2>2, <1>N
<1>4. g[N] = h[N]
  <2>1. PICK k \in 0 .. to - from : k = N
    BY <1>N
  <2>2. SameDeal(d, d, from, k)
    BY DEF SameDeal
  <2>3. g[k] = h[k]
    BY <1>2, <1>3, <2>2, DealingAgrees
  <2> QED BY <2>1, <2>3
<1>w. PICK w : w = g[N]
  OBVIOUS
<1>5. ASSUME NEW p \in from .. to  PROVE w[p] = u[p]
  <2>0. Dealt(w, u, from, to, N) /\ from + N = to
    BY <1>2, <1>w, <1>N
  <2>1. CASE p < to
    BY <2>0, <2>1 DEF Dealt
  <2>2. CASE p = to
    <3>0. to \in from .. to /\ Covers(w, u, from, to)
      BY <2>0 DEF Dealt
    <3>1. PICK j \in from .. to : w[j] = u[to]
      BY <3>0 DEF Covers
    <3>2. CASE j < to
      <4>1. w[j] = u[j] /\ j \in 1 .. n /\ to \in 1 .. n
        <5>1. \A i \in from .. to : i < from + N => w[i] = u[i]
          BY <2>0 DEF Dealt
        <5> QED BY <2>0, <3>2, <5>1
      <4>2. u[j] = u[to] /\ j # to
        BY <3>1, <3>2, <4>1
      <4> QED BY <4>1, <4>2 DEF Distinct
    <3>3. CASE j = to
      BY <2>2, <3>1, <3>3
    <3> QED BY <3>2, <3>3
  <2> QED BY <2>1, <2>2
<1> QED BY <1>3, <1>4, <1>5, <1>w DEF Deals

\* Whatever a has on S, b has on T.
Into(a, S, b, T) == \A x \in S : \E y \in T : a[x] = b[y]
Differ(a, S) == \A x, y \in S : a[x] = a[y] => x = y

LEMMA Pigeonhole ==
    ASSUME NEW S, NEW T, IsFiniteSet(T), NEW a, NEW b, Into(a, S, b, T), Differ(a, S)
    PROVE  /\ IsFiniteSet(S) /\ Cardinality(S) <= Cardinality(T)
           /\ Cardinality(S) = Cardinality(T) => Into(b, T, a, S)
<1> DEFINE f == [x \in S |-> CHOOSE y \in T : a[x] = b[y]]
<1>1. \A x \in S : f[x] \in T /\ a[x] = b[f[x]]
  BY DEF Into
<1>2. f \in [S -> T] /\ \A x, y \in S : f[x] = f[y] => x = y
  BY <1>1 DEF Differ
<1> HIDE DEF f
<1>3. f \in Injection(S, T)
  BY <1>2 DEF Injection, IsInjective
<1>4. IsFiniteSet(S) /\ Cardinality(S) <= Cardinality(T) /\ (Cardinality(S) = Cardinality(T) => f \in Surjection(S, T))
  BY <1>3, FS_Injection
<1>5. ASSUME f \in Surjection(S, T)  PROVE Into(b, T, a, S)
  <2>1. \A y \in T : \E x \in S : f[x] = y
    BY <1>5 DEF Surjection
  <2> QED BY <1>1, <2>1 DEF Into
<1> QED BY <1>4, <1>5

Agree(t, u, m) == \A p \in 1 .. m : t[p] = u[p]

\* u is sorted, of what t is of, and t has come to agree with it up to m.
Towards(t, u, n, m) ==
    /\ Distinct(t, n) /\ Distinct(u, n) /\ Led(u, n, n) /\ Agree(t, u, m)
    /\ Into(t, 1 .. n, u, 1 .. n) /\ Into(u, 1 .. n, t, 1 .. n)

LEMMA RunIs ==
    ASSUME NEW n \in Nat, NEW m \in Nat, m < n, NEW X, Keyed(X), NEW t \in [1 .. n -> X],
           NEW run, NEW to, NEW moved, FirstHalf(n, m, t, run, to, moved)
    PROVE  /\ run \subseteq m + 1 .. n /\ IsFiniteSet(run)
           /\ to \in m + 1 .. n /\ Cardinality(run) = to - m
<1>1. run \subseteq m + 1 .. n /\ to = m + Cardinality(run)
  BY DEF FirstHalf
<1>2. to \in m + 1 .. n
  BY Halfway
<1>3. IsFiniteSet(m + 1 .. n)
  BY FS_Interval
<1>4. IsFiniteSet(run)
  BY <1>1, <1>3, FS_Subset
<1>5. Cardinality(run) \in Nat
  BY <1>4, FS_CardinalityType
<1> QED BY <1>1, <1>2, <1>4, <1>5

\* One that is not among the first of what is left is behind all who are.
LEMMA BehindFirst ==
    ASSUME NEW n \in Nat, NEW m \in Nat, NEW X, Keyed(X), NEW t \in [1 .. n -> X],
           NEW i \in m + 1 .. n, ~First(t, n, m + 1, t[i]),
           NEW x \in m + 1 .. n, First(t, n, m + 1, t[x])
    PROVE  Before(t[x].k, t[i].k)
<1>1. PICK q \in m + 1 .. n : Before(t[q].k, t[i].k)
  BY DEF First
<1>2. ~Before(t[q].k, t[x].k)
  BY DEF First
<1>3. t[q].k \in Keys /\ t[i].k \in Keys /\ t[x].k \in Keys
  BY DEF Keyed
<1> QED BY <1>1, <1>2, <1>3, KeysOrder

\* What a sorted u has next are the first of what is left.
LEMMA NextAreFirst ==
    ASSUME NEW n \in Nat, NEW m \in Nat, m < n, NEW X, Keyed(X), NEW t \in [1 .. n -> X],
           NEW u, Towards(t, u, n, m),
           NEW run, NEW to, NEW moved, FirstHalf(n, m, t, run, to, moved), NEW p \in m + 1 .. to
    PROVE  \E i \in run : u[p] = t[i]
<1> SUFFICES ASSUME \A i \in run : u[p] # t[i]  PROVE FALSE
  OBVIOUS
<1>1. /\ run \subseteq m + 1 .. n /\ IsFiniteSet(run)
      /\ to \in m + 1 .. n /\ Cardinality(run) = to - m
  BY RunIs
<1>2. \A i \in 1 .. n : i \in run <=> i \in m + 1 .. n /\ First(t, n, m + 1, t[i])
  BY DEF FirstHalf
<1>3. p \in 1 .. n
  BY <1>1
<1>4. PICK i \in 1 .. n : u[p] = t[i]
  BY <1>3 DEF Towards, Into
<1>5. i \in m + 1 .. n /\ ~First(t, n, m + 1, t[i])
  <2>1. CASE i <= m
    <3>1. t[i] = u[i]
      BY <2>1 DEF Towards, Agree
    <3>2. i = p
      BY <1>3, <1>4, <3>1 DEF Towards, Distinct
    <3> QED BY <2>1, <3>2
  <2>2. CASE i > m
    BY <1>2, <1>4, <2>2
  <2> QED BY <2>1, <2>2
<1>6. ASSUME NEW x \in run  PROVE \E q \in m + 1 .. p - 1 : t[x] = u[q]
  <2>1. x \in 1 .. n /\ x \in m + 1 .. n /\ First(t, n, m + 1, t[x])
    BY <1>1, <1>2
  <2>2. PICK q \in 1 .. n : t[x] = u[q]
    BY <2>1 DEF Towards, Into
  <2>3. Before(t[x].k, t[i].k)
    BY <1>5, <2>1, BehindFirst
  <2>4. ~(p < q)
    <3>1. p < q => ~Before(u[q].k, u[p].k)
      BY <1>3 DEF Towards, Led
    <3> QED BY <1>4, <2>2, <2>3, <3>1
  <2>5. q # p
    BY <2>2
  <2>6. ~(q <= m)
    <3> SUFFICES ASSUME q <= m  PROVE FALSE
      OBVIOUS
    <3>1. t[q] = u[q]
      BY DEF Towards, Agree
    <3>2. x = q
      BY <2>1, <2>2, <3>1 DEF Towards, Distinct
    <3> QED BY <2>1, <3>2
  <2>7. q \in m + 1 .. p - 1
    BY <2>4, <2>5, <2>6
  <2> QED BY <2>2, <2>7
<1>T. PICK T : T = m + 1 .. p - 1
  OBVIOUS
<1>7. IsFiniteSet(T) /\ Cardinality(T) = p - 1 - m
  <2>1. PICK a \in Int : a = m + 1
    OBVIOUS
  <2>2. PICK b \in Int : b = p - 1
    OBVIOUS
  <2>3. IsFiniteSet(a .. b) /\ Cardinality(a .. b) = IF a > b THEN 0 ELSE b - a + 1
    BY FS_Interval
  <2> QED BY <1>T, <2>1, <2>2, <2>3
<1>8. Into(t, run, u, T)
  BY <1>6, <1>T DEF Into
<1>9. Differ(t, run)
  <2>1. \A x \in run : x \in 1 .. n
    BY <1>1
  <2> QED BY <2>1 DEF Towards, Distinct, Differ
<1>10. Cardinality(run) <= Cardinality(T)
  BY <1>7, <1>8, <1>9, Pigeonhole
<1> QED BY <1>1, <1>7, <1>10

\* So the half done holds them where the shuffle deals.
LEMMA HalfwayCovers ==
    ASSUME NEW n \in Nat, NEW m \in Nat, m < n, NEW X, Keyed(X), NEW t \in [1 .. n -> X],
           NEW u, Towards(t, u, n, m),
           NEW run, NEW to, NEW moved, FirstHalf(n, m, t, run, to, moved)
    PROVE  Covers(moved, u, m + 1, to) /\ Distinct(moved, n)
<1>1. /\ run \subseteq m + 1 .. n /\ IsFiniteSet(run)
      /\ to \in m + 1 .. n /\ Cardinality(run) = to - m
  BY RunIs
<1>2. \A j \in m + 1 .. to : \E i \in run : moved[j] = t[i]
  BY Halfway
<1>3. Distinct(moved, n)
  <2>1. Moves(moved, t, n, m + 1 .. n)
    BY Halfway
  <2>2. PICK A : A = m + 1 .. n
    OBVIOUS
  <2>3. Distinct(t, n)
    BY DEF Towards
  <2> QED BY <2>1, <2>2, <2>3, MovesDistinct
<1>S. PICK S : S = m + 1 .. to
  OBVIOUS
<1>4. Cardinality(S) = to - m
  <2>1. PICK a \in Int : a = m + 1
    OBVIOUS
  <2>2. Cardinality(a .. to) = IF a > to THEN 0 ELSE to - a + 1
    BY <1>1, FS_Interval
  <2> QED BY <1>1, <1>S, <2>1, <2>2
<1>5. Into(moved, S, t, run)
  BY <1>2, <1>S DEF Into
<1>6. Differ(moved, S)
  <2>1. \A x \in S : x \in 1 .. n
    BY <1>1, <1>S
  <2> QED BY <1>3, <2>1 DEF Distinct, Differ
<1>7. Into(t, run, moved, S)
  BY <1>1, <1>4, <1>5, <1>6, Pigeonhole
<1>8. ASSUME NEW p \in m + 1 .. to  PROVE \E j \in m + 1 .. to : moved[j] = u[p]
  <2>1. PICK i \in run : u[p] = t[i]
    BY NextAreFirst
  <2>2. PICK j \in S : t[i] = moved[j]
    BY <1>7 DEF Into
  <2> QED BY <1>S, <2>1, <2>2
<1> QED BY <1>3, <1>8 DEF Covers

\* A round leaves what is sorted already.
LEMMA RoundLeaves ==
    ASSUME NEW n \in Nat, NEW m \in Nat, m < n, NEW X, Keyed(X), NEW t \in [1 .. n -> X],
           NEW run, NEW to, NEW moved, FirstHalf(n, m, t, run, to, moved),
           NEW from, from = m + 1, NEW d \in Draws(from, to)
    PROVE  /\ to \in from .. n /\ from \in 1 .. n /\ moved \in [1 .. n -> X]
           /\ Agree(Shuffle(moved, from, to, d), t, m)
<1>1. to \in from .. n /\ from \in 1 .. n
  BY Halfway
<1>A. PICK A : A = m + 1 .. n
  OBVIOUS
<1>2. Moves(moved, t, n, A)
  BY <1>A, Halfway
<1>3. moved \in [1 .. n -> X]
  BY <1>2, MovesType
<1>C. PICK C : C = from .. to
  OBVIOUS
<1>u. PICK u : u = Shuffle(moved, from, to, d)
  OBVIOUS
<1>4. Moves(u, moved, n, C)
  BY <1>1, <1>3, <1>C, <1>u, ShuffleMoves
<1>5. ASSUME NEW p \in 1 .. m  PROVE u[p] = t[p]
  <2>1. p \in 1 .. n /\ p \notin A /\ p \notin C
    BY <1>A, <1>C, <1>1
  <2>2. u[p] = moved[p]
    BY <1>4, <2>1, MovesWithin
  <2>3. moved[p] = t[p]
    BY <1>2, <2>1, MovesWithin
  <2> QED BY <2>2, <2>3
<1>6. Agree(u, t, m)
  BY <1>5 DEF Agree
<1> QED BY <1>1, <1>3, <1>6, <1>u

\* Of the outcomes S exactly one agrees with u as far as it is sorted.
One(S, u) ==
    \E s \in S : Agree(s.t, u, s.done) /\ \A r \in S : Agree(r.t, u, r.done) => r = s

LEMMA RoundOne ==
    ASSUME NEW n \in Nat, NEW X, Keyed(X), NEW s, s.t \in [1 .. n -> X], s.done \in Nat,
           s.done < n, NEW u, Towards(s.t, u, n, s.done)
    PROVE  One(SortRound(s), u)
<1>m. PICK m \in Nat : m = s.done
  OBVIOUS
<1>t. PICK t \in [1 .. n -> X] : t = s.t
  OBVIOUS
<1>f. PICK from : from = m + 1
  OBVIOUS
<1>1. PICK run, to, moved : FirstHalf(n, m, t, run, to, moved) /\ RoundIs(s, to, moved)
  BY <1>m, <1>t, RoundIsSo
<1>b. m < n /\ Towards(t, u, n, m)
  BY <1>m, <1>t
<1>2. Covers(moved, u, from, to) /\ Distinct(moved, n)
  BY <1>1, <1>b, <1>f, HalfwayCovers
<1>3. to \in from .. n /\ from \in 1 .. n
  <2>1. to \in m + 1 .. n
    BY <1>1, <1>b, Halfway
  <2> QED BY <1>b, <1>f, <2>1
<1>v. moved \in [1 .. n -> X]
  <2>A. PICK A : A = m + 1 .. n
    OBVIOUS
  <2>1. Moves(moved, t, n, A)
    BY <1>1, <1>b, <2>A, Halfway
  <2> QED BY <2>1, MovesType
<1>l. ASSUME NEW d \in Draws(from, to)  PROVE Agree(Shuffle(moved, from, to, d), t, m)
  BY <1>1, <1>b, <1>f, RoundLeaves
<1>4. Agree(t, u, m) /\ Distinct(u, n)
  BY <1>b DEF Towards
<1>5. ASSUME NEW d \in Draws(from, to)
      PROVE  Agree(Shuffle(moved, from, to, d), u, to)
                <=> Deals(moved, from, to, d, u)
  <2>1. PICK v : v = Shuffle(moved, from, to, d)
    OBVIOUS
  <2>2. \A p \in 1 .. m : v[p] = u[p]
    BY <1>l, <1>4, <2>1 DEF Agree
  <2>3. \A p : p \in 1 .. to <=> p \in 1 .. m \/ p \in from .. to
    BY <1>3, <1>f
  <2>4. Agree(v, u, to) <=> \A p \in from .. to : v[p] = u[p]
    BY <2>2, <2>3 DEF Agree
  <2> QED BY <2>1, <2>4 DEF Deals
<1>6. PICK d \in Draws(from, to) : Deals(moved, from, to, d, u)
  <2>1. Covers(moved, u, from, to) /\ Distinct(u, n)
    BY <1>2, <1>4
  <2> QED BY <1>3, <1>v, <2>1, SomeDraws
<1> DEFINE out(e) == [t |-> Shuffle(moved, from, to, e), done |-> to, drawn |-> Append(s.drawn, e)]
<1>7. SortRound(s) = {out(e) : e \in Draws(from, to)}
  BY <1>1, <1>m, <1>f DEF RoundIs
<1>8. \A e : out(e).t = Shuffle(moved, from, to, e) /\ out(e).done = to
  OBVIOUS
<1>9. Agree(out(d).t, u, out(d).done) /\ out(d) \in SortRound(s)
  BY <1>5, <1>6, <1>7, <1>8
<1>10. ASSUME NEW r \in SortRound(s), Agree(r.t, u, r.done)  PROVE r = out(d)
  <2>1. PICK e \in Draws(from, to) : r = out(e)
    BY <1>7
  <2>2. Deals(moved, from, to, e, u)
    BY <1>5, <1>8, <1>10, <2>1
  <2>4. d = e
    BY <1>2, <1>3, <1>v, <1>6, <2>2, DrawnAlike
  <2> QED BY <2>1, <2>4
<1> HIDE DEF out
<1> QED BY <1>9, <1>10 DEF One

\* One who agrees after a round agreed before it.
LEMMA AgreedBefore ==
    ASSUME NEW n \in Nat, NEW X, Keyed(X), NEW s, s.t \in [1 .. n -> X], s.done \in Nat,
           s.done < n, NEW u, NEW r \in SortRound(s), Agree(r.t, u, r.done)
    PROVE  Agree(s.t, u, s.done)
<1>m. PICK m \in Nat : m = s.done
  OBVIOUS
<1>t. PICK t \in [1 .. n -> X] : t = s.t
  OBVIOUS
<1>f. PICK from : from = m + 1
  OBVIOUS
<1>1. PICK run, to, moved : FirstHalf(n, m, t, run, to, moved) /\ RoundIs(s, to, moved)
  BY <1>m, <1>t, RoundIsSo
<1>2. PICK d \in Draws(from, to) : r = [t |-> Shuffle(moved, from, to, d), done |-> to, drawn |-> Append(s.drawn, d)]
  BY <1>1, <1>m, <1>f DEF RoundIs
<1>3. r.t = Shuffle(moved, from, to, d) /\ r.done = to
  BY <1>2
<1>b. m < n
  BY <1>m
<1>4. to \in from .. n /\ Agree(Shuffle(moved, from, to, d), t, m)
  BY <1>1, <1>b, <1>f, RoundLeaves
<1>5. \A p \in 1 .. m : p \in 1 .. to
  BY <1>4, <1>f
<1>6. \A p \in 1 .. m : r.t[p] = u[p]
  BY <1>3, <1>5 DEF Agree
<1> QED BY <1>3, <1>4, <1>6, <1>m, <1>t DEF Agree

\* Two rearrangements of one tail are of the same entries.
LEMMA SameEntries ==
    ASSUME NEW n \in Nat, NEW t, NEW u, NEW v, NEW A, Moves(u, t, n, A), Moves(v, t, n, A)
    PROVE  Into(u, 1 .. n, v, 1 .. n)
<1>1. PICK h : Perm(h, n) /\ u = [k \in 1 .. n |-> t[h[k]]]
  BY DEF Moves
<1>2. PICK g : Perm(g, n) /\ v = [k \in 1 .. n |-> t[g[k]]]
  BY DEF Moves
<1> SUFFICES ASSUME NEW i \in 1 .. n  PROVE \E j \in 1 .. n : u[i] = v[j]
  BY DEF Into
<1>3. h[i] \in 1 .. n /\ u[i] = t[h[i]]
  BY <1>1 DEF Perm
<1>4. PICK j \in 1 .. n : g[j] = h[i]
  BY <1>2, <1>3 DEF Perm
<1> QED BY <1>2, <1>3, <1>4

LEMMA SortsTowards ==
    ASSUME NEW n \in Nat, NEW t, Distinct(t, n), NEW u, Sorted(u, t, n),
           NEW k, NEW s, Sorts(s, t, n, k), Agree(s.t, u, s.done)
    PROVE  Towards(s.t, u, n, s.done)
<1>A. PICK A : A = 1 .. n
  OBVIOUS
<1>1. Moves(u, t, n, A) /\ Led(u, n, n) /\ Moves(s.t, t, n, A)
  BY <1>A DEF Sorted, Sorts
<1>2. Distinct(u, n) /\ Distinct(s.t, n)
  BY <1>1, MovesDistinct
<1>3. Into(s.t, 1 .. n, u, 1 .. n) /\ Into(u, 1 .. n, s.t, 1 .. n)
  BY <1>1, SameEntries
<1> QED BY <1>1, <1>2, <1>3 DEF Towards

\* The sort reaches a sorted u in exactly one way.
LEMMA OneWay ==
    ASSUME NEW n \in Nat, NEW X, Keyed(X), NEW t \in [1 .. n -> X], Distinct(t, n),
           NEW u, Sorted(u, t, n)
    PROVE  One(SpeedSorts(t), u) /\ \A s \in SpeedSorts(t) : Sorts(s, t, n, n)
<1>0. Len(t) = n
  BY TailLen
<1>1. PICK g : Sorting(g, t, n) /\ SpeedSorts(t) = g[n]
  BY <1>0, SpeedSortsStages
<1>2. g[0] = Start(t) /\ \A k \in 1 .. n : g[k] = Rounds(t, g[k - 1])
  BY <1>1, SortingSteps
<1> DEFINE Good(k) == One(g[k], u) /\ \A s \in g[k] : Sorts(s, t, n, k)
           B == {k \in 0 .. n : ~Good(k)}
<1>3. B = {}
  <2> SUFFICES ASSUME B # {} PROVE FALSE
    OBVIOUS
  <2>1. PICK k \in B : \A j \in B : k <= j
    <3>1. B \subseteq Nat
      OBVIOUS
    <3> HIDE DEF B
    <3> QED BY <3>1, Least
  <2>2. CASE k = 0
    <3>1. \A x \in g[0] : x.t = t /\ x.done = 0
      BY <1>2 DEF Start
    <3>2. Moves(t, t, n, 1 .. n) /\ Led(t, n, 0)
      <4>1. Moves(t, t, n, 1 .. n)
        BY NothingMoves
      <4>2. Led(t, n, 0)
        BY DEF Led
      <4> QED BY <4>1, <4>2
    <3>3. \A x \in g[0] : Sorts(x, t, n, 0)
      BY <3>1, <3>2 DEF Sorts
    <3>4. One(g[0], u)
      <4>1. PICK s : s = [t |-> t, done |-> 0, drawn |-> <<>>]
        OBVIOUS
      <4>2. g[0] = {s}
        BY <1>2, <4>1 DEF Start
      <4>3. Agree(s.t, u, s.done)
        BY <4>1 DEF Agree
      <4> QED BY <4>2, <4>3 DEF One
    <3>5. Good(0)
      BY <3>3, <3>4
    <3> HIDE DEF Good
    <3> QED BY <2>1, <2>2, <3>5
  <2>3. CASE k # 0
    <3>1. k \in 1 .. n /\ k - 1 \in 0 .. n /\ k - 1 \notin B /\ k - 1 \in Nat
      BY <2>1, <2>3
    <3>2. One(g[k - 1], u) /\ \A s \in g[k - 1] : Sorts(s, t, n, k - 1)
      BY <3>1
    <3> DEFINE next(s) == IF s.done + 1 >= n THEN {s} ELSE SortRound(s)
    <3>3. g[k] = UNION {next(s) : s \in g[k - 1]}
      BY <1>0, <1>2, <3>1 DEF Rounds
    <3>4. ASSUME NEW s \in g[k - 1]  PROVE \A r \in next(s) : Sorts(r, t, n, k)
      <4>1. Sorts(s, t, n, k - 1)
        BY <3>2
      <4>2. \A r \in next(s) : Sorts(r, t, n, k - 1 + 1)
        BY <3>1, <4>1, SortsOn
      <4> QED BY <3>1, <4>2
    <3>5. ASSUME NEW s \in g[k - 1], s.done + 1 < n
          PROVE  s.t \in [1 .. n -> X] /\ s.done \in Nat /\ s.done < n
      <4>1. Moves(s.t, t, n, 1 .. n) /\ s.done \in 0 .. n
        BY <3>2 DEF Sorts
      <4>A. PICK A : A = 1 .. n
        OBVIOUS
      <4>2. s.t \in [1 .. n -> X]
        BY <4>1, <4>A, MovesType
      <4> QED BY <3>5, <4>1, <4>2
    <3>6. ASSUME NEW s \in g[k - 1], NEW r \in next(s), Agree(r.t, u, r.done)
          PROVE  Agree(s.t, u, s.done)
      <4>1. CASE s.done + 1 >= n
        BY <3>6, <4>1
      <4>2. CASE ~(s.done + 1 >= n)
        <5>1. s.done \in 0 .. n
          BY <3>2 DEF Sorts
        <5>2. s.done + 1 < n
          BY <4>2, <5>1
        <5> QED BY <3>5, <3>6, <4>2, <5>2, AgreedBefore
      <4> QED BY <4>1, <4>2
    <3>7. ASSUME NEW s \in g[k - 1], Agree(s.t, u, s.done)  PROVE One(next(s), u)
      <4>1. CASE s.done + 1 >= n
        BY <3>7, <4>1 DEF One
      <4>2. CASE ~(s.done + 1 >= n)
        <5>1. s.done \in 0 .. n /\ Sorts(s, t, n, k - 1)
          BY <3>2 DEF Sorts
        <5>2. s.done + 1 < n
          BY <4>2, <5>1
        <5>3. Towards(s.t, u, n, s.done)
          BY <3>7, <5>1, SortsTowards
        <5>4. One(SortRound(s), u)
          BY <3>5, <5>2, <5>3, RoundOne
        <5> QED BY <4>2, <5>4
      <4> QED BY <4>1, <4>2
    <3> HIDE DEF next
    <3>8. One(g[k], u)
      <4>1. PICK s \in g[k - 1] : Agree(s.t, u, s.done) /\ \A x \in g[k - 1] : Agree(x.t, u, x.done) => x = s
        BY <3>2 DEF One
      <4>2. PICK r \in next(s) : Agree(r.t, u, r.done) /\ \A x \in next(s) : Agree(x.t, u, x.done) => x = r
        BY <3>7, <4>1 DEF One
      <4>3. ASSUME NEW x \in g[k], Agree(x.t, u, x.done)  PROVE x = r
        <5>1. PICK y \in g[k - 1] : x \in next(y)
          BY <3>3
        <5>2. y = s
          BY <3>6, <4>1, <4>3, <5>1
        <5> QED BY <4>2, <4>3, <5>1, <5>2
      <4>4. r \in g[k]
        BY <3>3
      <4> QED BY <4>2, <4>3, <4>4 DEF One
    <3>9. Good(k)
      BY <3>3, <3>4, <3>8
    <3> HIDE DEF Good
    <3> QED BY <2>1, <3>9
  <2> QED BY <2>2, <2>3
<1>4. Good(n)
  <2>1. n \in 0 .. n
    OBVIOUS
  <2> QED BY <1>3, <2>1
<1> QED BY <1>1, <1>4

LEMMA ReachedOnce ==
    ASSUME NEW n \in Nat, NEW X, Keyed(X), NEW t \in [1 .. n -> X], Distinct(t, n),
           NEW u, Sorted(u, t, n)
    PROVE  \E s \in SpeedSorts(t) : s.t = u /\ \A r \in SpeedSorts(t) : r.t = u => r = s
<1>1. One(SpeedSorts(t), u) /\ \A s \in SpeedSorts(t) : Sorts(s, t, n, n)
  BY OneWay
<1>2. PICK s \in SpeedSorts(t) : /\ Agree(s.t, u, s.done)
                                 /\ \A r \in SpeedSorts(t) : Agree(r.t, u, r.done) => r = s
  BY <1>1 DEF One
<1>3. \A r : r.t = u => Agree(r.t, u, r.done)
  BY DEF Agree
<1>4. Sorts(s, t, n, n)
  BY <1>1
<1>v. PICK v : v = s.t
  OBVIOUS
<1>m. PICK m \in 0 .. n : m = s.done /\ m + 1 >= n
  BY <1>4 DEF Sorts
<1>5. Towards(v, u, n, m)
  BY <1>2, <1>4, <1>v, <1>m, SortsTowards
<1>6. u \in [1 .. n -> X] /\ v \in [1 .. n -> X]
  <2>A. PICK A : A = 1 .. n
    OBVIOUS
  <2>1. Moves(u, t, n, A) /\ Moves(v, t, n, A)
    BY <1>4, <1>v, <2>A DEF Sorted, Sorts
  <2> QED BY <2>1, MovesType
<1>7. ASSUME NEW p \in 1 .. n  PROVE v[p] = u[p]
  <2>1. \A i \in 1 .. n : i <= m => v[i] = u[i]
    BY <1>5 DEF Towards, Agree
  <2>2. CASE p <= m
    BY <2>1, <2>2
  <2>3. CASE p > m
    <3>1. PICK j \in 1 .. n : u[p] = v[j]
      BY <1>5 DEF Towards, Into
    <3>2. CASE j = p
      BY <3>1, <3>2
    <3>3. CASE j # p
      <4>1. j <= m
        BY <1>m, <2>3, <3>3
      <4>2. u[p] = u[j]
        BY <2>1, <3>1, <4>1
      <4>3. p = j
        BY <1>5, <4>2 DEF Towards, Distinct
      <4> QED BY <3>3, <4>3
    <3> QED BY <3>2, <3>3
  <2> QED BY <2>2, <2>3
<1>8. v = u
  BY <1>6, <1>7
<1> QED BY <1>2, <1>3, <1>8, <1>v

\* The sorted orders of t, as what stands where.
Sortings(t, n) ==
    {h \in [1 .. n -> 1 .. n] : /\ \A i, j \in 1 .. n : h[i] = h[j] => i = j
                                /\ \A i, j \in 1 .. n : i < j => ~Before(t[h[j]].k, t[h[i]].k)}
InOrder(t, n, h) == [i \in 1 .. n |-> t[h[i]]]

LEMMA SortingsSort ==
    ASSUME NEW n \in Nat, NEW t, NEW u
    PROVE  Sorted(u, t, n) <=> \E h \in Sortings(t, n) : u = InOrder(t, n, h)
<1>1. ASSUME Sorted(u, t, n)  PROVE \E h \in Sortings(t, n) : u = InOrder(t, n, h)
  <2>1. PICK h : Perm(h, n) /\ u = [i \in 1 .. n |-> t[h[i]]]
    BY <1>1 DEF Sorted, Moves
  <2>2. ASSUME NEW i \in 1 .. n, NEW j \in 1 .. n, i < j  PROVE ~Before(t[h[j]].k, t[h[i]].k)
    <3>1. ~Before(u[j].k, u[i].k)
      BY <1>1, <2>2 DEF Sorted, Led
    <3> QED BY <2>1, <3>1
  <2>3. h \in Sortings(t, n)
    BY <2>1, <2>2 DEF Sortings, Perm
  <2> QED BY <2>1, <2>3 DEF InOrder
<1>2. ASSUME NEW h \in Sortings(t, n), u = InOrder(t, n, h)  PROVE Sorted(u, t, n)
  <2>1. /\ h \in [1 .. n -> 1 .. n] /\ \A i, j \in 1 .. n : h[i] = h[j] => i = j
        /\ \A i, j \in 1 .. n : i < j => ~Before(t[h[j]].k, t[h[i]].k)
    BY DEF Sortings
  <2>2. h \in Injection(1 .. n, 1 .. n)
    BY <2>1 DEF Injection, IsInjective
  <2>3. IsFiniteSet(1 .. n)
    BY FS_Interval
  <2>4. h \in Surjection(1 .. n, 1 .. n)
    BY <2>2, <2>3, FS_Injection
  <2>5. Perm(h, n)
    BY <2>1, <2>4 DEF Perm, Surjection
  <2>6. u = [i \in 1 .. n |-> t[h[i]]]
    BY <1>2 DEF InOrder
  <2>7. Moves(u, t, n, 1 .. n)
    BY <2>1, <2>5, <2>6 DEF Moves
  <2>8. Led(u, n, n)
    BY <2>1, <2>6 DEF Led
  <2> QED BY <2>7, <2>8 DEF Sorted
<1> QED BY <1>1, <1>2

LEMMA InOrderOnce ==
    ASSUME NEW n \in Nat, NEW t, Distinct(t, n), NEW h \in Sortings(t, n), NEW g \in Sortings(t, n),
           InOrder(t, n, h) = InOrder(t, n, g)
    PROVE  h = g
<1>1. h \in [1 .. n -> 1 .. n] /\ g \in [1 .. n -> 1 .. n]
  BY DEF Sortings
<1>2. ASSUME NEW i \in 1 .. n  PROVE h[i] = g[i]
  <2>1. h[i] \in 1 .. n /\ g[i] \in 1 .. n
    BY <1>1
  <2>2. InOrder(t, n, h)[i] = t[h[i]] /\ InOrder(t, n, g)[i] = t[g[i]]
    BY DEF InOrder
  <2> QED BY <2>1, <2>2 DEF Distinct
<1> QED BY <1>1, <1>2

LEMMA SortingsFinite ==
    ASSUME NEW n \in Nat, NEW t
    PROVE  IsFiniteSet(Sortings(t, n))
<1>S. PICK S : S = Sortings(t, n)
  OBVIOUS
<1>D. PICK D : D = 1 .. n
  OBVIOUS
<1>1. \A h \in S : h \in [D -> D]
  BY <1>S, <1>D DEF Sortings
<1>T. PICK T : T = SUBSET (D \X D)
  OBVIOUS
<1>2. IsFiniteSet(T)
  <2>1. IsFiniteSet(D)
    BY <1>D, FS_Interval
  <2>2. IsFiniteSet(D \X D)
    BY <2>1, FS_Product
  <2> QED BY <1>T, <2>2, FS_SUBSET
<1> DEFINE f == [h \in S |-> {<<i, h[i]>> : i \in D}]
<1>3. f \in [S -> T]
  BY <1>1, <1>T
<1>4. ASSUME NEW h \in S, NEW g \in S, f[h] = f[g]  PROVE h = g
  <2>1. {<<i, h[i]>> : i \in D} = {<<i, g[i]>> : i \in D}
    BY <1>4
  <2>2. ASSUME NEW i \in D  PROVE h[i] = g[i]
    <3>1. <<i, h[i]>> \in {<<j, g[j]>> : j \in D}
      BY <2>1
    <3>2. PICK j \in D : <<i, h[i]>> = <<j, g[j]>>
      BY <3>1
    <3> QED BY <3>2
  <2> QED BY <1>1, <2>2
<1>5. f \in Injection(S, T)
  BY <1>3, <1>4 DEF Injection, IsInjective
<1> QED BY <1>2, <1>5, <1>S, FS_Injection

\* Every sorted order is reached, by one sequence of draws.
LEMMA SortsAreFair ==
    ASSUME NEW n \in Nat, NEW X, Keyed(X), NEW t \in [1 .. n -> X], Distinct(t, n)
    PROVE  /\ {s.t : s \in SpeedSorts(t)} = {InOrder(t, n, h) : h \in Sortings(t, n)}
           /\ Cardinality(SpeedSorts(t)) = Cardinality(Sortings(t, n))
<1>S. PICK S : S = Sortings(t, n)
  OBVIOUS
<1>T. PICK T : T = SpeedSorts(t)
  OBVIOUS
<1>1. \A s \in T : Sorted(s.t, t, n)
  BY <1>T, SpeedSorted
<1>2. \A s \in T : \E h \in S : s.t = InOrder(t, n, h)
  BY <1>1, <1>S, SortingsSort
<1>3. \A h \in S : \E s \in T : s.t = InOrder(t, n, h) /\ \A r \in T : r.t = InOrder(t, n, h) => r = s
  <2> SUFFICES ASSUME NEW h \in S
               PROVE  \E s \in T : s.t = InOrder(t, n, h) /\ \A r \in T : r.t = InOrder(t, n, h) => r = s
    OBVIOUS
  <2>1. PICK u : u = InOrder(t, n, h)
    OBVIOUS
  <2>2. Sorted(u, t, n)
    BY <1>S, <2>1, SortingsSort
  <2> QED BY <1>T, <2>1, <2>2, ReachedOnce
<1>4. \A h, g \in S : InOrder(t, n, h) = InOrder(t, n, g) => h = g
  BY <1>S, InOrderOnce
<1>5. {s.t : s \in T} = {InOrder(t, n, h) : h \in S}
  BY <1>2, <1>3
<1> DEFINE f == [h \in S |-> CHOOSE s \in T : s.t = InOrder(t, n, h)]
<1>6. \A h \in S : f[h] \in T /\ f[h].t = InOrder(t, n, h)
  <2> SUFFICES ASSUME NEW h \in S  PROVE f[h] \in T /\ f[h].t = InOrder(t, n, h)
    OBVIOUS
  <2>1. \E s \in T : s.t = InOrder(t, n, h)
    BY <1>3
  <2> QED BY <2>1
<1>7. f \in [S -> T]
  BY <1>6
<1> HIDE DEF f
<1>8. \A h, g \in S : f[h] = f[g] => h = g
  BY <1>4, <1>6
<1>9. \A s \in T : \E h \in S : f[h] = s
  <2> SUFFICES ASSUME NEW s \in T  PROVE \E h \in S : f[h] = s
    OBVIOUS
  <2>1. PICK h \in S : s.t = InOrder(t, n, h)
    BY <1>2
  <2>2. f[h] = s
    BY <1>3, <1>6, <2>1
  <2> QED BY <2>2
<1>10. f \in Bijection(S, T)
  BY <1>7, <1>8, <1>9 DEF Bijection, Injection, Surjection, IsInjective
<1>11. ExistsBijection(S, T)
  BY <1>10 DEF ExistsBijection
<1>12. Cardinality(T) = Cardinality(S)
  BY <1>11, <1>S, SortingsFinite, FS_Bijection
<1> QED BY <1>5, <1>12, <1>S, <1>T

-----------------------------------------------------------------------------
(* The stable sort.                                                         *)

\* The places of the entries that go before that of place j.
AheadOf(t, n, j) == {i \in 1 .. n : Before(t[i].k, t[j].k) \/ (i < j /\ ~Before(t[j].k, t[i].k))}

\* Everybody has a rank of his own, and it agrees with the keys.
LEMMA Ranks ==
    ASSUME NEW n \in Nat, NEW X, Keyed(X), NEW t \in [1 .. n -> X],
           NEW i \in 1 .. n, NEW j \in 1 .. n, i \in AheadOf(t, n, j)
    PROVE  Cardinality(AheadOf(t, n, i)) < Cardinality(AheadOf(t, n, j))
<1>0. \A l \in 1 .. n : t[l].k \in Keys
  BY DEF Keyed
<1>1. \A l \in 1 .. n : AheadOf(t, n, l) \in SUBSET (1 .. n) /\ IsFiniteSet(AheadOf(t, n, l))
  <2>1. IsFiniteSet(1 .. n)
    BY FS_Interval
  <2>2. \A l \in 1 .. n : AheadOf(t, n, l) \in SUBSET (1 .. n)
    BY DEF AheadOf
  <2> QED BY <2>1, <2>2, FS_Subset
<1>2. i \notin AheadOf(t, n, i)
  BY <1>0, KeysOrder DEF AheadOf
<1>3. ASSUME NEW l \in AheadOf(t, n, i)  PROVE l \in AheadOf(t, n, j)
  <2>1. l \in 1 .. n
    BY DEF AheadOf
  <2> PICK a \in Keys : a = t[l].k
    BY <1>0, <2>1
  <2> PICK b \in Keys : b = t[i].k
    BY <1>0
  <2> PICK c \in Keys : c = t[j].k
    BY <1>0
  <2>2. Before(a, b) \/ (l < i /\ ~Before(b, a))
    BY <1>3 DEF AheadOf
  <2>3. Before(b, c) \/ (i < j /\ ~Before(c, b))
    BY DEF AheadOf
  <2>4. Before(a, c) \/ (l < j /\ ~Before(c, a))
    <3>1. l < i /\ i < j => l < j
      BY <2>1
    <3>2. ~Before(c, b) /\ ~Before(b, a)
      BY <2>2, <2>3, KeysOrder
    <3>3. ~Before(c, a)
      BY <3>2, KeysOrder
    <3>4. Before(a, b) => Before(a, c)
      BY <3>2, KeysOrder
    <3>5. Before(b, c) => Before(a, c)
      BY <3>2, KeysOrder
    <3> QED BY <2>2, <2>3, <3>1, <3>3, <3>4, <3>5
  <2> QED BY <2>1, <2>4 DEF AheadOf
<1> PICK S : S = AheadOf(t, n, i)
  OBVIOUS
<1> PICK T : T = AheadOf(t, n, j)
  OBVIOUS
<1>4. IsFiniteSet(T) /\ S \in SUBSET T /\ S # T
  BY <1>1, <1>2, <1>3
<1>5. Cardinality(S) <= Cardinality(T) /\ Cardinality(S) # Cardinality(T)
  BY <1>4, FS_Subset
<1>6. Cardinality(S) \in Nat /\ Cardinality(T) \in Nat
  BY <1>1, FS_CardinalityType
<1> QED BY <1>5, <1>6

LEMMA RankIs ==
    ASSUME NEW n \in Nat, NEW X, Keyed(X), NEW t \in [1 .. n -> X], NEW i \in 1 .. n
    PROVE  Cardinality(AheadOf(t, n, i)) \in 0 .. n - 1
<1>0. \A l \in 1 .. n : t[l].k \in Keys
  BY DEF Keyed
<1>1. i \notin AheadOf(t, n, i)
  BY <1>0, KeysOrder DEF AheadOf
<1>2. AheadOf(t, n, i) \in SUBSET (1 .. n)
  BY DEF AheadOf
<1> PICK S : S = AheadOf(t, n, i)
  OBVIOUS
<1>3. IsFiniteSet(1 .. n) /\ Cardinality(1 .. n) = n
  BY FS_Interval
<1>4. IsFiniteSet(S) /\ Cardinality(S) <= n /\ (Cardinality(S) = n => S = 1 .. n)
  BY <1>2, <1>3, FS_Subset
<1>5. Cardinality(S) \in Nat
  BY <1>4, FS_CardinalityType
<1> QED BY <1>1, <1>4, <1>5

LEMMA RanksDiffer ==
    ASSUME NEW n \in Nat, NEW X, Keyed(X), NEW t \in [1 .. n -> X],
           NEW i \in 1 .. n, NEW j \in 1 .. n, i # j
    PROVE  /\ Cardinality(AheadOf(t, n, i)) # Cardinality(AheadOf(t, n, j))
           /\ Cardinality(AheadOf(t, n, i)) < Cardinality(AheadOf(t, n, j)) => ~Before(t[j].k, t[i].k)
<1>0. \A l \in 1 .. n : t[l].k \in Keys
  BY DEF Keyed
<1>1. i \in AheadOf(t, n, j) \/ j \in AheadOf(t, n, i)
  <2>1. i < j \/ j < i
    OBVIOUS
  <2> QED BY <2>1 DEF AheadOf
<1>2. PICK a \in Int : a = Cardinality(AheadOf(t, n, i))
  BY RankIs
<1>3. PICK b \in Int : b = Cardinality(AheadOf(t, n, j))
  BY RankIs
<1>4. CASE i \in AheadOf(t, n, j)
  <2>1. a < b
    BY <1>2, <1>3, <1>4, Ranks
  <2>2. ~Before(t[j].k, t[i].k)
    BY <1>0, <1>4, KeysOrder DEF AheadOf
  <2> QED BY <1>2, <1>3, <2>1, <2>2
<1>5. CASE j \in AheadOf(t, n, i)
  <2>1. b < a
    BY <1>2, <1>3, <1>5, Ranks
  <2> QED BY <1>2, <1>3, <2>1
<1> QED BY <1>1, <1>4, <1>5

LEMMA StableSorted ==
    ASSUME NEW n \in Nat, NEW X, Keyed(X), NEW t \in [1 .. n -> X]
    PROVE  Sorted(StableSort(t), t, n)
<1>0. DOMAIN t = 1 .. n
  OBVIOUS
<1>r. PICK r : r = [j \in 1 .. n |-> Cardinality(AheadOf(t, n, j)) + 1]
  OBVIOUS
<1>1. r \in [1 .. n -> 1 .. n]
  <2>1. \A j \in 1 .. n : Cardinality(AheadOf(t, n, j)) \in 0 .. n - 1
    BY RankIs
  <2>2. \A j \in 1 .. n : Cardinality(AheadOf(t, n, j)) + 1 \in 1 .. n
    BY <2>1
  <2> QED BY <1>r, <2>2
<1>2. \A i, j \in 1 .. n : i # j => r[i] # r[j] /\ (r[i] < r[j] => ~Before(t[j].k, t[i].k))
  <2> SUFFICES ASSUME NEW i \in 1 .. n, NEW j \in 1 .. n, i # j
               PROVE  r[i] # r[j] /\ (r[i] < r[j] => ~Before(t[j].k, t[i].k))
    OBVIOUS
  <2>1. PICK a \in Int : a = Cardinality(AheadOf(t, n, i))
    BY RankIs
  <2>2. PICK b \in Int : b = Cardinality(AheadOf(t, n, j))
    BY RankIs
  <2>3. a # b /\ (a < b => ~Before(t[j].k, t[i].k))
    BY <2>1, <2>2, RanksDiffer
  <2>4. r[i] = a + 1 /\ r[j] = b + 1
    BY <1>r, <2>1, <2>2
  <2> QED BY <2>3, <2>4
<1>3. \A k \in 1 .. n : \E j \in 1 .. n : r[j] = k
  <2>1. r \in Injection(1 .. n, 1 .. n)
    BY <1>1, <1>2 DEF Injection, IsInjective
  <2>2. IsFiniteSet(1 .. n)
    BY FS_Interval
  <2>3. r \in Surjection(1 .. n, 1 .. n)
    BY <2>1, <2>2, FS_Injection
  <2> QED BY <2>3 DEF Surjection
<1>h. PICK h : h = [k \in 1 .. n |-> CHOOSE j \in 1 .. n : Cardinality(AheadOf(t, n, j)) = k - 1]
  OBVIOUS
<1>4. \A k \in 1 .. n : h[k] \in 1 .. n /\ r[h[k]] = k
  <2> SUFFICES ASSUME NEW k \in 1 .. n  PROVE h[k] \in 1 .. n /\ r[h[k]] = k
    OBVIOUS
  <2>1. \A j \in 1 .. n : r[j] = k <=> Cardinality(AheadOf(t, n, j)) = k - 1
    <3>1. \A j \in 1 .. n : Cardinality(AheadOf(t, n, j)) \in 0 .. n - 1
      BY RankIs
    <3>2. \A c \in 0 .. n - 1 : c + 1 = k <=> c = k - 1
      OBVIOUS
    <3> QED BY <1>r, <3>1, <3>2
  <2>2. \E j \in 1 .. n : Cardinality(AheadOf(t, n, j)) = k - 1
    BY <1>3, <2>1
  <2>3. h[k] = CHOOSE j \in 1 .. n : Cardinality(AheadOf(t, n, j)) = k - 1
    BY <1>h
  <2>4. h[k] \in 1 .. n /\ Cardinality(AheadOf(t, n, h[k])) = k - 1
    BY <2>2, <2>3
  <2> QED BY <2>1, <2>4
<1>5. Perm(h, n)
  <2>1. h \in [1 .. n -> 1 .. n]
    BY <1>h, <1>4
  <2>2. \A i, j \in 1 .. n : h[i] = h[j] => i = j
    BY <1>4
  <2>3. \A j \in 1 .. n : \E k \in 1 .. n : h[k] = j
    <3> SUFFICES ASSUME NEW j \in 1 .. n  PROVE \E k \in 1 .. n : h[k] = j
      OBVIOUS
    <3>1. r[j] \in 1 .. n
      BY <1>1
    <3>2. h[r[j]] \in 1 .. n /\ r[h[r[j]]] = r[j]
      BY <1>4, <3>1
    <3>3. h[r[j]] = j
      BY <1>2, <3>2
    <3> QED BY <3>1, <3>3
  <2> QED BY <2>1, <2>2, <2>3 DEF Perm
<1>6. StableSort(t) = [k \in 1 .. n |-> t[h[k]]]
  BY <1>0, <1>h DEF StableSort, AheadOf
<1>7. Moves(StableSort(t), t, n, 1 .. n)
  BY <1>4, <1>5, <1>6 DEF Moves
<1>8. Led(StableSort(t), n, n)
  <2> SUFFICES ASSUME NEW i \in 1 .. n, NEW j \in 1 .. n, i < j
               PROVE  ~Before(t[h[j]].k, t[h[i]].k)
    BY <1>6 DEF Led
  <2>1. h[i] \in 1 .. n /\ h[j] \in 1 .. n /\ r[h[i]] = i /\ r[h[j]] = j
    BY <1>4
  <2>2. h[i] # h[j] /\ r[h[i]] < r[h[j]]
    BY <2>1
  <2> QED BY <1>2, <2>1, <2>2
<1> QED BY <1>7, <1>8 DEF Sorted

-----------------------------------------------------------------------------
(* The re-sort.                                                             *)

Biases == {-1, 0, 1}
Entries == [at : Places, mon : Starters]
Granted == [bias : Biases, frac : {-1, 0, 1}]
Fields == [seat : [Places -> Mons], speed : [Mons -> Int], priority : [Mons -> Int],
           rounds : SUBSET Starters, room : BOOLEAN, down : SUBSET Mons,
           replaced : [Places -> BOOLEAN], pending : [Places -> BOOLEAN],
           keys : [Places -> Granted]]

NoDup(q) == \A i, j \in DOMAIN q : q[i] = q[j] => i = j

KeyOf(f, x) == Key(f, f.seat[x.at], f.keys[x.at])

\* Of two actions whose mons are there to run them, the one in front does not
\* belong behind.
Ordered(f, q) ==
    \A i, j \in DOMAIN q :
        i < j /\ ~f.replaced[q[i].at] /\ ~f.replaced[q[j].at] => ~Before(KeyOf(f, q[j]), KeyOf(f, q[i]))

\* v is a queue of the same actions as q.
Reordered(v, q) == v \in Seq(Entries) /\ NoDup(v) /\ Range(v) = Range(q)

Tags == [e : Entries, k : Keys]

LEMMA KeysAre ==
    ASSUME NEW f \in Fields, NEW x \in Entries, NEW i \in Nat
    PROVE  /\ KeyOf(f, x) \in Keys
           /\ KeyAt(f, i, x) \in Keys
           /\ ~f.replaced[x.at] => KeyAt(f, i, x) = KeyOf(f, x)
<1>1. x.at \in Places
  BY DEF Entries
<1>2. f.seat[x.at] \in Mons /\ f.keys[x.at] \in Granted
  BY <1>1 DEF Fields
<1>3. /\ f.priority[f.seat[x.at]] \in Int /\ f.speed[f.seat[x.at]] \in Int
      /\ f.keys[x.at].bias \in Int /\ f.keys[x.at].frac \in Int
  BY <1>2 DEF Fields, Granted, Biases
<1>4. KeyOf(f, x) \in Keys
  BY <1>3 DEF KeyOf, Key, Keys
<1>5. KeyAt(f, i, x) = IF f.replaced[x.at] THEN <<127, i, 0, 0>> ELSE KeyOf(f, x)
  BY DEF KeyAt, KeyOf
<1>6. <<127, i, 0, 0>> \in Keys
  BY DEF Keys
<1> QED BY <1>4, <1>5, <1>6

LEMMA TaggedTail ==
    ASSUME NEW f \in Fields, NEW q \in Seq(Entries)
    PROVE  /\ Tagged(f, q) \in [1 .. Len(q) -> Tags]
           /\ \A i \in 1 .. Len(q) : Tagged(f, q)[i].e = q[i] /\ Tagged(f, q)[i].k = KeyAt(f, i, q[i])
           /\ Keyed(Tags)
<1>1. DOMAIN q = 1 .. Len(q) /\ \A i \in 1 .. Len(q) : q[i] \in Entries
  OBVIOUS
<1>2. \A i \in 1 .. Len(q) : KeyAt(f, i, q[i]) \in Keys
  <2>1. \A i \in 1 .. Len(q) : i \in Nat
    OBVIOUS
  <2> QED BY <1>1, <2>1, KeysAre
<1>3. \A i \in 1 .. Len(q) : Tagged(f, q)[i].e = q[i] /\ Tagged(f, q)[i].k = KeyAt(f, i, q[i])
  BY <1>1 DEF Tagged
<1>4. Tagged(f, q) \in [1 .. Len(q) -> Tags]
  BY <1>1, <1>2 DEF Tagged, Tags
<1>5. Keyed(Tags)
  BY DEF Keyed, Tags
<1> QED BY <1>3, <1>4, <1>5

\* What a sort of the tagged tail is without the tags.
LEMMA UntaggedTail ==
    ASSUME NEW f \in Fields, NEW q \in Seq(Entries), NoDup(q),
           NEW u, Sorted(u, Tagged(f, q), Len(q))
    PROVE  Reordered(Untagged(u), q) /\ Ordered(f, Untagged(u))
<1>n. PICK n \in Nat : n = Len(q)
  BY LenProperties
<1>1. DOMAIN q = 1 .. n /\ \A i \in 1 .. n : q[i] \in Entries
  BY <1>n
<1>t. PICK t : t = Tagged(f, q)
  OBVIOUS
<1>2. PICK h : Perm(h, n) /\ u = [i \in 1 .. n |-> t[h[i]]]
  BY <1>n, <1>t DEF Sorted, Moves
<1>3. \A i \in 1 .. n : h[i] \in 1 .. n /\ u[i].e = q[h[i]] /\ u[i].k = KeyAt(f, h[i], q[h[i]])
  <2>1. \A i \in 1 .. n : h[i] \in 1 .. n
    BY <1>2 DEF Perm
  <2>3. \A i \in 1 .. n : t[i].e = q[i] /\ t[i].k = KeyAt(f, i, q[i])
    BY <1>n, <1>t, TaggedTail
  <2>4. \A i \in 1 .. n : u[i] = t[h[i]]
    BY <1>2
  <2> QED BY <2>1, <2>3, <2>4
<1>v. PICK v : v = Untagged(u)
  OBVIOUS
<1>4. v = [i \in 1 .. n |-> q[h[i]]]
  <2>1. DOMAIN u = 1 .. n
    BY <1>2
  <2> QED BY <1>3, <1>v, <2>1 DEF Untagged
<1>5. v \in Seq(Entries) /\ DOMAIN v = 1 .. n
  <2>1. v \in [1 .. n -> Entries]
    BY <1>1, <1>3, <1>4
  <2> QED BY <2>1, TailLen
<1>6. NoDup(v)
  <2>1. \A i, j \in 1 .. n : q[i] = q[j] => i = j
    BY <1>1 DEF NoDup
  <2>2. \A i, j \in 1 .. n : h[i] = h[j] => i = j
    BY <1>2 DEF Perm
  <2> QED BY <1>3, <1>4, <1>5, <2>1, <2>2 DEF NoDup
<1>7. Range(v) = Range(q)
  <2>1. \A i \in 1 .. n : \E j \in 1 .. n : v[i] = q[j]
    BY <1>3, <1>4
  <2>2. \A j \in 1 .. n : \E i \in 1 .. n : v[i] = q[j]
    <3>1. \A j \in 1 .. n : \E i \in 1 .. n : h[i] = j
      BY <1>2 DEF Perm
    <3> QED BY <1>4, <3>1
  <2>3. Range(v) = {v[i] : i \in 1 .. n} /\ Range(q) = {q[i] : i \in 1 .. n}
    BY <1>1, <1>5 DEF Range
  <2> QED BY <2>1, <2>2, <2>3
<1>8. Ordered(f, v)
  <2> SUFFICES ASSUME NEW i \in 1 .. n, NEW j \in 1 .. n, i < j, ~f.replaced[v[i].at], ~f.replaced[v[j].at]
               PROVE  ~Before(KeyOf(f, v[j]), KeyOf(f, v[i]))
    BY <1>5 DEF Ordered
  <2>1. ~Before(u[j].k, u[i].k)
    BY <1>n DEF Sorted, Led
  <2>2. v[i] = q[h[i]] /\ v[j] = q[h[j]] /\ q[h[i]] \in Entries /\ q[h[j]] \in Entries
    BY <1>1, <1>3, <1>4
  <2>3. u[i].k = KeyAt(f, h[i], v[i]) /\ u[j].k = KeyAt(f, h[j], v[j]) /\ h[i] \in Nat /\ h[j] \in Nat
    BY <1>3, <2>2
  <2>4. u[i].k = KeyOf(f, v[i])
    BY <2>2, <2>3, KeysAre
  <2>5. u[j].k = KeyOf(f, v[j])
    BY <2>2, <2>3, KeysAre
  <2> QED BY <2>1, <2>4, <2>5
<1> QED BY <1>v, <1>5, <1>6, <1>7, <1>8 DEF Reordered

\* The re-sort keeps the actions and puts them in order.
LEMMA Resorted ==
    ASSUME NEW f \in Fields, NEW q \in Seq(Entries), NoDup(q), NEW v \in Resorts(f, q)
    PROVE  Reordered(v, q) /\ Ordered(f, v)
<1>n. PICK n \in Nat : n = Len(q)
  BY LenProperties
<1>t. PICK t : t = Tagged(f, q)
  OBVIOUS
<1>1. t \in [1 .. n -> Tags] /\ Keyed(Tags)
  BY <1>n, <1>t, TaggedTail
<1>2. PICK u : v = Untagged(u) /\ Sorted(u, t, n)
  <2>1. CASE keyed
    <3>1. PICK s \in SpeedSorts(t) : v = Untagged(s.t)
      BY <2>1, <1>t DEF Resorts
    <3>2. Sorted(s.t, t, n)
      BY <1>1, SpeedSorted
    <3> QED BY <3>1, <3>2
  <2>2. CASE ~keyed
    <3>1. v = Untagged(StableSort(t))
      BY <2>2, <1>t DEF Resorts
    <3>2. Sorted(StableSort(t), t, n)
      BY <1>1, StableSorted
    <3> QED BY <3>1, <3>2
  <2> QED BY <2>1, <2>2
<1> QED BY <1>2, <1>n, <1>t, UntaggedTail

\* So does the sort that builds the queue.
LEMMA Built ==
    ASSUME NEW f \in Fields, NEW q \in Seq(Entries), NoDup(q), NEW s \in SpeedSorts(StableSort(Tagged(f, q)))
    PROVE  Reordered(Untagged(s.t), q) /\ Ordered(f, Untagged(s.t))
<1>n. PICK n \in Nat : n = Len(q)
  BY LenProperties
<1>t. PICK t : t = Tagged(f, q)
  OBVIOUS
<1>A. PICK A : A = 1 .. n
  OBVIOUS
<1>1. t \in [1 .. n -> Tags] /\ Keyed(Tags)
  BY <1>n, <1>t, TaggedTail
<1>2. PICK u : u = StableSort(t)
  OBVIOUS
<1>3. Moves(u, t, n, A)
  BY <1>1, <1>2, <1>A, StableSorted DEF Sorted
<1>4. u \in [1 .. n -> Tags]
  BY <1>1, <1>3, MovesType
<1>5. Sorted(s.t, u, n)
  BY <1>1, <1>2, <1>4, <1>t, SpeedSorted
<1>6. Moves(s.t, u, n, A) /\ Led(s.t, n, n)
  BY <1>5, <1>A DEF Sorted
<1>7. Moves(s.t, t, n, A)
  BY <1>3, <1>6, MovesOn
<1>8. Sorted(s.t, t, n)
  BY <1>6, <1>7, <1>A DEF Sorted
<1> QED BY <1>8, <1>n, <1>t, UntaggedTail

-----------------------------------------------------------------------------
(* What happens to the queue before a re-sort.                              *)

LEMMA Tailed ==
    ASSUME NEW q \in Seq(Entries), NoDup(q), q # <<>>
    PROVE  /\ Tail(q) \in Seq(Entries) /\ NoDup(Tail(q))
           /\ Range(Tail(q)) = Range(q) \ {Head(q)}
           /\ Head(q) \in Range(q) /\ Head(q) \in Entries
<1>n. PICK n \in Nat : n = Len(q) /\ n >= 1
  OBVIOUS
<1>1. DOMAIN q = 1 .. n /\ Head(q) = q[1] /\ 1 \in 1 .. n
  BY <1>n
<1>v. PICK v : v = Tail(q)
  OBVIOUS
<1>2. v \in Seq(Entries) /\ DOMAIN v = 1 .. n - 1 /\ \A i \in 1 .. n - 1 : v[i] = q[i + 1]
  BY <1>n, <1>v
<1>3. \A i \in 1 .. n - 1 : i + 1 \in 1 .. n /\ i + 1 # 1
  BY <1>n
<1>4. \A i, j \in 1 .. n : q[i] = q[j] => i = j
  BY <1>1 DEF NoDup
<1>5. NoDup(v)
  <2> SUFFICES ASSUME NEW i \in 1 .. n - 1, NEW j \in 1 .. n - 1, v[i] = v[j]  PROVE i = j
    BY <1>2 DEF NoDup
  <2>1. i + 1 = j + 1
    BY <1>2, <1>3, <1>4
  <2> QED BY <2>1
<1>6. ASSUME NEW i \in 1 .. n  PROVE i = 1 \/ \E j \in 1 .. n - 1 : q[i] = v[j]
  <2>1. CASE i # 1
    <3>1. PICK j \in 1 .. n - 1 : j + 1 = i
      BY <2>1
    <3> QED BY <1>2, <3>1
  <2> QED BY <2>1
<1>7. \A j \in 1 .. n - 1 : \E i \in 1 .. n : v[j] = q[i] /\ q[i] # q[1]
  BY <1>1, <1>2, <1>3, <1>4
<1>8. Range(v) = {v[j] : j \in 1 .. n - 1} /\ Range(q) = {q[i] : i \in 1 .. n}
  BY <1>1, <1>2 DEF Range
<1>9. Range(v) = Range(q) \ {q[1]}
  BY <1>6, <1>7, <1>8
<1> QED BY <1>1, <1>2, <1>5, <1>8, <1>9, <1>v

Long(q, n) == q \in Seq(Entries) /\ n \in Nat /\ Len(q) = n

\* A rearrangement in the sense above.
LEMMA ReorderedBy ==
    ASSUME NEW q, NEW n, Long(q, n), NoDup(q), NEW h, Perm(h, n),
           NEW v, Long(v, n), \A j \in 1 .. n : v[j] = q[h[j]]
    PROVE  Reordered(v, q)
<1>1. DOMAIN q = 1 .. n /\ DOMAIN v = 1 .. n /\ v \in Seq(Entries)
  BY DEF Long
<1>2. \A j \in 1 .. n : h[j] \in 1 .. n
  BY DEF Perm
<1>3. NoDup(v)
  <2>1. \A i, j \in 1 .. n : q[i] = q[j] => i = j
    BY <1>1 DEF NoDup
  <2>2. \A i, j \in 1 .. n : h[i] = h[j] => i = j
    BY DEF Perm
  <2> QED BY <1>1, <1>2, <2>1, <2>2 DEF NoDup
<1>4. \A j \in 1 .. n : \E i \in 1 .. n : v[j] = q[i]
  BY <1>2
<1>5. ASSUME NEW i \in 1 .. n  PROVE \E j \in 1 .. n : v[j] = q[i]
  <2>1. PICK j \in 1 .. n : h[j] = i
    BY DEF Perm
  <2> QED BY <2>1
<1>6. Range(v) = {v[j] : j \in 1 .. n} /\ Range(q) = {q[i] : i \in 1 .. n}
  BY <1>1 DEF Range
<1>7. Range(v) = Range(q)
  <2>1. ASSUME NEW x \in Range(v)  PROVE x \in Range(q)
    BY <1>4, <1>6
  <2>2. ASSUME NEW x \in Range(q)  PROVE x \in Range(v)
    BY <1>5, <1>6
  <2> QED BY <2>1, <2>2
<1> QED BY <1>1, <1>3, <1>7 DEF Reordered

LEMMA Removed ==
    ASSUME NEW q, NEW n, Long(q, n), NEW i \in 1 .. n
    PROVE  /\ Long(RemoveAt(q, i), n - 1)
           /\ \A j \in 1 .. n - 1 : RemoveAt(q, i)[j] = IF j < i THEN q[j] ELSE q[j + 1]
<1>0. q \in Seq(Entries) /\ n \in Nat /\ Len(q) = n /\ \A j \in 1 .. n : q[j] \in Entries
  BY DEF Long
<1>l. PICK l \in Int : l = i - 1
  OBVIOUS
<1>k. PICK k \in Int : k = i + 1
  OBVIOUS
<1>1. PICK a : a = SubSeq(q, 1, l)
  OBVIOUS
<1>2. PICK b : b = SubSeq(q, k, n)
  OBVIOUS
<1>a. a \in Seq(Entries) /\ Len(a) = l /\ \A j \in 1 .. l : a[j] = q[j]
  <2>1. \A j \in 1 .. l : q[j] \in Entries
    BY <1>0, <1>l
  <2>2. a \in Seq(Entries)
    BY <1>1, <2>1, SubSeqProperties
  <2>3. Len(a) = IF 1 <= l THEN l - 1 + 1 ELSE 0
    BY <1>1, <2>1, SubSeqProperties
  <2>4. \A j \in 1 .. l - 1 + 1 : a[j] = q[1 + j - 1]
    BY <1>1, <2>1, SubSeqProperties
  <2>5. \A j \in 1 .. l : 1 + j - 1 = j /\ j \in 1 .. l - 1 + 1
    OBVIOUS
  <2> QED BY <1>0, <1>l, <2>2, <2>3, <2>4, <2>5
<1>b. b \in Seq(Entries) /\ Len(b) = n - i /\ \A j \in 1 .. n - i : b[j] = q[i + j]
  <2>1. \A j \in k .. n : q[j] \in Entries
    BY <1>0, <1>k
  <2>2. b \in Seq(Entries)
    BY <1>0, <1>2, <2>1, SubSeqProperties
  <2>3. Len(b) = IF k <= n THEN n - k + 1 ELSE 0
    BY <1>0, <1>2, <2>1, SubSeqProperties
  <2>4. \A j \in 1 .. n - k + 1 : b[j] = q[k + j - 1]
    BY <1>0, <1>2, <2>1, SubSeqProperties
  <2>5. \A j \in 1 .. n - i : k + j - 1 = i + j /\ j \in 1 .. n - k + 1
    BY <1>0, <1>k
  <2> QED BY <1>0, <1>k, <2>2, <2>3, <2>4, <2>5
<1>3. PICK r : r = a \o b /\ r = RemoveAt(q, i)
  BY <1>0, <1>1, <1>2, <1>l, <1>k DEF RemoveAt
<1>c. /\ r \in Seq(Entries) /\ Len(r) = l + (n - i)
      /\ \A j \in 1 .. l + (n - i) : r[j] = IF j <= l THEN a[j] ELSE b[j - l]
  <2>1. r \in Seq(Entries) /\ Len(r) = Len(a) + Len(b)
    BY <1>a, <1>b, <1>3, ConcatProperties
  <2>2. a \in Seq(Entries) /\ b \in Seq(Entries)
    BY <1>a, <1>b
  <2>3. \A j \in 1 .. Len(a) + Len(b) : (a \o b)[j] = IF j <= Len(a) THEN a[j] ELSE b[j - Len(a)]
    BY <2>2, ConcatProperties
  <2>4. \A j \in 1 .. Len(a) + Len(b) : r[j] = IF j <= Len(a) THEN a[j] ELSE b[j - Len(a)]
    BY <1>3, <2>3
  <2> QED BY <1>a, <1>b, <2>1, <2>4
<1>4. l + (n - i) = n - 1 /\ n - 1 \in Nat
  BY <1>0, <1>l
<1>5. \A j \in 1 .. n - 1 : r[j] = IF j < i THEN q[j] ELSE q[j + 1]
  <2> SUFFICES ASSUME NEW j \in 1 .. n - 1  PROVE r[j] = IF j < i THEN q[j] ELSE q[j + 1]
    OBVIOUS
  <2>0. r[j] = IF j <= l THEN a[j] ELSE b[j - l]
    BY <1>c, <1>4
  <2>1. CASE j < i
    <3>1. j \in 1 .. l
      BY <1>l, <2>1
    <3> QED BY <1>a, <2>0, <2>1, <3>1
  <2>2. CASE ~(j < i)
    <3>1. j - l \in 1 .. n - i /\ i + (j - l) = j + 1 /\ ~(j <= l)
      BY <1>0, <1>l, <2>2
    <3> QED BY <1>b, <2>0, <2>2, <3>1
  <2> QED BY <2>1, <2>2
<1> QED BY <1>3, <1>4, <1>5, <1>c DEF Long

\* Something removed and put back elsewhere.
LEMMA PutBack ==
    ASSUME NEW q \in Seq(Entries), NoDup(q), NEW i \in DOMAIN q
    PROVE  Reordered(<<q[i]>> \o RemoveAt(q, i), q) /\ Reordered(Append(RemoveAt(q, i), q[i]), q)
<1>n. PICK n : n = Len(q)
  OBVIOUS
<1>L. Long(q, n) /\ n \in Nat
  BY <1>n DEF Long
<1>0. n \in Nat /\ i \in 1 .. n /\ q[i] \in Entries
  BY <1>n, <1>L
<1>r. PICK r : r = RemoveAt(q, i)
  OBVIOUS
<1>1. /\ r \in Seq(Entries) /\ Len(r) = n - 1
      /\ \A j \in 1 .. n - 1 : r[j] = IF j < i THEN q[j] ELSE q[j + 1]
  BY <1>L, <1>0, <1>r, Removed DEF Long
<1>x. PICK x \in Entries : x = q[i]
  BY <1>0
<1>2. Reordered(<<x>> \o r, q)
  <2>h. PICK h : h = [j \in 1 .. n |-> IF j = 1 THEN i ELSE IF j <= i THEN j - 1 ELSE j]
    OBVIOUS
  <2>1. Perm(h, n)
    <3>1. h \in [1 .. n -> 1 .. n]
      BY <1>0, <2>h
    <3>2. \A j, k \in 1 .. n : h[j] = h[k] => j = k
      BY <1>0, <2>h
    <3>3. ASSUME NEW k \in 1 .. n  PROVE \E j \in 1 .. n : h[j] = k
      <4>1. CASE k = i
        BY <1>0, <2>h, <4>1
      <4>2. CASE k < i
        <5>1. k + 1 \in 1 .. n /\ h[k + 1] = k
          BY <1>0, <2>h, <4>2
        <5> QED BY <5>1
      <4>3. CASE k > i
        BY <1>0, <2>h, <4>3
      <4> QED BY <1>0, <4>1, <4>2, <4>3
    <3> QED BY <3>1, <3>2, <3>3 DEF Perm
  <2>v. PICK v : v = <<x>> \o r
    OBVIOUS
  <2>2. Long(v, n)
    BY <1>1, <1>L, <2>v DEF Long
  <2>3. \A j \in 1 .. n : v[j] = q[h[j]]
    <3> SUFFICES ASSUME NEW j \in 1 .. n  PROVE v[j] = q[h[j]]
      OBVIOUS
    <3>1. CASE j = 1
      <4>1. v[1] = x
        BY <1>1, <2>v
      <4> QED BY <1>x, <2>h, <3>1, <4>1
    <3>2. CASE j # 1
      <4>1. v[j] = r[j - 1]
        BY <1>0, <1>1, <2>v, <3>2
      <4>2. j - 1 \in 1 .. n - 1 /\ j - 1 + 1 = j /\ (j - 1 < i <=> j <= i)
        BY <1>0, <3>2
      <4>3. r[j - 1] = IF j - 1 < i THEN q[j - 1] ELSE q[j - 1 + 1]
        BY <1>1, <4>2
      <4> QED BY <2>h, <3>2, <4>1, <4>2, <4>3
    <3> QED BY <3>1, <3>2
  <2>4. Reordered(v, q)
    BY <1>L, <2>1, <2>2, <2>3, ReorderedBy
  <2> QED BY <2>4, <2>v
<1>3. Reordered(Append(r, x), q)
  <2>h. PICK h : h = [j \in 1 .. n |-> IF j = n THEN i ELSE IF j < i THEN j ELSE j + 1]
    OBVIOUS
  <2>1. Perm(h, n)
    <3>1. h \in [1 .. n -> 1 .. n]
      BY <1>0, <2>h
    <3>2. \A j, k \in 1 .. n : h[j] = h[k] => j = k
      BY <1>0, <2>h
    <3>3. ASSUME NEW k \in 1 .. n  PROVE \E j \in 1 .. n : h[j] = k
      <4>1. CASE k = i
        <5>1. n \in 1 .. n /\ h[n] = k
          BY <1>0, <2>h, <4>1
        <5> QED BY <5>1
      <4>2. CASE k < i
        BY <1>0, <2>h, <4>2
      <4>3. CASE k > i
        <5>1. k - 1 \in 1 .. n /\ h[k - 1] = k
          BY <1>0, <2>h, <4>3
        <5> QED BY <5>1
      <4> QED BY <1>0, <4>1, <4>2, <4>3
    <3> QED BY <3>1, <3>2, <3>3 DEF Perm
  <2>v. PICK v : v = Append(r, x)
    OBVIOUS
  <2>2. Long(v, n)
    BY <1>1, <1>L, <2>v DEF Long
  <2>3. \A j \in 1 .. n : v[j] = q[h[j]]
    <3> SUFFICES ASSUME NEW j \in 1 .. n  PROVE v[j] = q[h[j]]
      OBVIOUS
    <3>1. CASE j = n
      <4>1. v[n] = x
        BY <1>0, <1>1, <2>v
      <4> QED BY <1>x, <2>h, <3>1, <4>1
    <3>2. CASE j # n
      <4>1. j \in 1 .. n - 1
        BY <1>0, <3>2
      <4>2. v[j] = r[j]
        BY <1>0, <1>1, <2>v, <4>1
      <4>3. r[j] = IF j < i THEN q[j] ELSE q[j + 1]
        BY <1>1, <4>1
      <4> QED BY <2>h, <3>2, <4>2, <4>3
    <3> QED BY <3>1, <3>2
  <2>4. Reordered(v, q)
    BY <1>L, <2>1, <2>2, <2>3, ReorderedBy
  <2> QED BY <2>4, <2>v
<1> QED BY <1>2, <1>3, <1>x, <1>r

LEMMA ReorderKeeps ==
    ASSUME NEW q \in Seq(Entries), NoDup(q), NEW at, NEW first
    PROVE  Reordered(Reorder(q, at, first), q)
<1> DEFINE here == {i \in DOMAIN q : q[i].at = at}
           i == CHOOSE x \in here : \A y \in here : x <= y
<1>1. CASE here = {}
  <2>1. Reorder(q, at, first) = q
    BY <1>1 DEF Reorder
  <2> QED BY <2>1 DEF Reordered
<1>2. CASE here # {}
  <2>1. i \in DOMAIN q
    <3>1. here \subseteq Nat
      OBVIOUS
    <3>2. \E x \in here : \A y \in here : x <= y
      <4> HIDE DEF here
      <4> QED BY <1>2, <3>1, Least
    <3>3. i \in here
      BY <3>2
    <3> QED BY <3>3
  <2>2. Reorder(q, at, first) = IF first THEN <<q[i]>> \o RemoveAt(q, i) ELSE Append(RemoveAt(q, i), q[i])
    BY <1>2 DEF Reorder
  <2> HIDE DEF i, here
  <2>3. Reordered(<<q[i]>> \o RemoveAt(q, i), q)
    BY <2>1, PutBack
  <2>4. Reordered(Append(RemoveAt(q, i), q[i]), q)
    BY <2>1, PutBack
  <2> QED BY <2>2, <2>3, <2>4
<1> QED BY <1>1, <1>2

\* An action of side s follows its mon to the other place.
Follow(x, s) == IF x.at[1] = s THEN [x EXCEPT !.at = Ally(x.at)] ELSE x

LEMMA Allies ==
    ASSUME NEW at \in Places
    PROVE  /\ Ally(at) \in Places /\ Ally(Ally(at)) = at /\ Ally(at)[1] = at[1] /\ Ally(at) # at
           /\ \A b \in Places : b[1] = at[1] => b = at \/ b = Ally(at)
BY DEF Ally, Places, Sides

LEMMA Follows ==
    ASSUME NEW x \in Entries, NEW s
    PROVE  /\ Follow(x, s) \in Entries /\ Follow(x, s).mon = x.mon
           /\ Follow(x, s).at = (IF x.at[1] = s THEN Ally(x.at) ELSE x.at)
           /\ Follow(x, s).at[1] = x.at[1]
           /\ \A y \in Entries : Follow(x, s) = Follow(y, s) => x = y
<1>1. \A z \in Entries : z.at \in Places /\ z.mon \in Starters /\ z = [at |-> z.at, mon |-> z.mon]
  BY DEF Entries
<1>2. \A z \in Entries : Follow(z, s) = [at |-> IF z.at[1] = s THEN Ally(z.at) ELSE z.at, mon |-> z.mon]
  BY <1>1 DEF Follow
<1>3. /\ Follow(x, s) \in Entries /\ Follow(x, s).mon = x.mon
      /\ Follow(x, s).at = (IF x.at[1] = s THEN Ally(x.at) ELSE x.at)
  BY <1>1, <1>2, Allies DEF Entries
<1>4. Follow(x, s).at[1] = x.at[1]
  BY <1>1, <1>3, Allies
<1>5. ASSUME NEW y \in Entries, Follow(x, s) = Follow(y, s)  PROVE x = y
  <2>1. x.mon = y.mon
    BY <1>2, <1>5
  <2>2. (IF x.at[1] = s THEN Ally(x.at) ELSE x.at) = (IF y.at[1] = s THEN Ally(y.at) ELSE y.at)
    BY <1>2, <1>5
  <2>3. x.at = y.at
    BY <1>1, <2>2, Allies
  <2> QED BY <1>1, <2>1, <2>3
<1> QED BY <1>3, <1>4, <1>5

LEMMA FollowedKeeps ==
    ASSUME NEW q \in Seq(Entries), NoDup(q), NEW s
    PROVE  /\ Followed(q, s) \in Seq(Entries) /\ NoDup(Followed(q, s))
           /\ Range(Followed(q, s)) = {Follow(x, s) : x \in Range(q)}
<1>n. PICK n : n = Len(q)
  OBVIOUS
<1>0. n \in Nat /\ DOMAIN q = 1 .. n /\ \A i \in 1 .. n : q[i] \in Entries
  BY <1>n
<1>v. PICK v : v = Followed(q, s)
  OBVIOUS
<1>1. v = [i \in 1 .. n |-> Follow(q[i], s)]
  <2>1. v = [i \in DOMAIN q |-> IF q[i].at[1] = s THEN [q[i] EXCEPT !.at = Ally(@)] ELSE q[i]]
    BY <1>v DEF Followed
  <2>2. \A i \in DOMAIN q : Follow(q[i], s) = IF q[i].at[1] = s THEN [q[i] EXCEPT !.at = Ally(@)] ELSE q[i]
    BY DEF Follow
  <2> QED BY <1>0, <2>1, <2>2
<1>2. \A i \in 1 .. n : v[i] = Follow(q[i], s) /\ v[i] \in Entries
  BY <1>0, <1>1, Follows
<1>3. v \in Seq(Entries) /\ DOMAIN v = 1 .. n
  <2>1. v \in [1 .. n -> Entries]
    BY <1>1, <1>2
  <2> QED BY <1>0, <2>1, TailLen
<1>4. NoDup(v)
  <2> SUFFICES ASSUME NEW i \in 1 .. n, NEW j \in 1 .. n, v[i] = v[j]  PROVE i = j
    BY <1>3 DEF NoDup
  <2>1. Follow(q[i], s) = Follow(q[j], s)
    BY <1>2
  <2>2. q[i] = q[j]
    BY <1>0, <2>1, Follows
  <2> QED BY <1>0, <2>2 DEF NoDup
<1>5. Range(v) = {v[i] : i \in 1 .. n} /\ Range(q) = {q[i] : i \in 1 .. n}
  BY <1>0, <1>3 DEF Range
<1>6. Range(v) = {Follow(x, s) : x \in Range(q)}
  BY <1>2, <1>5
<1> QED BY <1>3, <1>4, <1>6, <1>v

-----------------------------------------------------------------------------
(* The field, the actions X still queued and those D who have acted.        *)

\* A place holds a mon of its side, and no two the same.
SeatsInv(f) == \A at \in Places : f.seat[at][1] = at[1] /\ f.seat[at] # f.seat[Ally(at)]

\* One action for a place and for a mon; the mon stands in the place, unless
\* the one behind was brought there.
BoundInv(f, X) ==
    /\ \A x, y \in X : x # y => x.at # y.at /\ x.mon # y.mon
    /\ \A x \in X : x.at[1] = x.mon[1]
    /\ \A x \in X : (f.seat[x.at] = x.mon /\ ~f.replaced[x.at]) \/ f.seat[x.at] = <<x.at[1], 2>>

\* A mon brought in that a later action left without the latch of its place
\* (Ally Switch) has the last action of its side.
StuckInv(f, X) ==
    \A at \in Places : f.seat[at] = <<at[1], 2>> /\ ~f.replaced[at] =>
        \A x \in X : x.at[1] = at[1] => x.at = at

\* Whoever was there at the start and still is has acted or has an action.
DueInv(f, X, D) ==
    \A at \in Places : f.seat[at] \in Starters =>
        f.seat[at] \in f.down \cup D \/ \E x \in X : x.at = at /\ x.mon = f.seat[at]

\* Nobody with an action left, his own or one he inherits, has acted.
DoneInv(f, X, D) ==
    /\ \A x \in X : x.mon \notin D /\ f.seat[x.at] \notin D
    /\ \A s \in Sides : (\A at \in Places : f.seat[at] # <<s, 2>>) => <<s, 2>> \notin D

\* An action that is to go first.
Hot(f, x) == ~f.replaced[x.at] /\ f.keys[x.at].bias = -1

OneHot(f, X) == \A x, y \in X : Hot(f, x) /\ Hot(f, y) => x = y
NoneHot(f, X) == \A x \in X : ~Hot(f, x)

Core(f, X, D) ==
    /\ X \subseteq Entries
    /\ SeatsInv(f) /\ BoundInv(f, X) /\ StuckInv(f, X) /\ DueInv(f, X, D) /\ DoneInv(f, X, D)

LEMMA CoreKept ==
    ASSUME NEW f, NEW h, NEW X, NEW D, Core(f, X, D),
           h.seat = f.seat, h.replaced = f.replaced, f.down \subseteq h.down
    PROVE  Core(h, X, D)
<1>1. SeatsInv(h) /\ BoundInv(h, X)
  BY DEF Core, SeatsInv, BoundInv
<1>2. StuckInv(h, X)
  BY DEF Core, StuckInv
<1>3. DueInv(h, X, D) /\ DoneInv(h, X, D)
  BY DEF Core, DueInv, DoneInv
<1> QED BY <1>1, <1>2, <1>3 DEF Core

\* The head of the queue is passed over ..
LEMMA CoreSkipped ==
    ASSUME NEW f, NEW X, NEW D, Core(f, X, D), NEW x \in X,
           f.seat[x.at] \in f.down \/ f.replaced[x.at]
    PROVE  Core(f, X \ {x}, D)
<1>1. BoundInv(f, X \ {x}) /\ StuckInv(f, X \ {x}) /\ DoneInv(f, X \ {x}, D)
  BY DEF Core, BoundInv, StuckInv, DoneInv
<1>2. DueInv(f, X \ {x}, D)
  <2> SUFFICES ASSUME NEW at \in Places, f.seat[at] \in Starters, f.seat[at] \notin f.down \cup D
               PROVE  \E y \in X \ {x} : y.at = at /\ y.mon = f.seat[at]
    BY DEF DueInv
  <2>1. PICK y \in X : y.at = at /\ y.mon = f.seat[at]
    BY DEF Core, DueInv
  <2>2. f.seat[at] # <<at[1], 2>>
    BY DEF Starters, Places
  <2>3. y # x
    BY <2>1, <2>2 DEF Core, BoundInv
  <2> QED BY <2>1, <2>3
<1> QED BY <1>1, <1>2 DEF Core

\* .. or acts.
LEMMA CoreActed ==
    ASSUME NEW f, NEW X, NEW D, Core(f, X, D), NEW x \in X
    PROVE  Core(f, X \ {x}, D \cup {f.seat[x.at]})
<1>0. \A y \in X : y.at \in Places /\ y.mon \in Starters
  BY DEF Core, Entries
<1>s. \A m \in Starters : \A s : m # <<s, 2>>
  BY DEF Starters, Places
<1>1. BoundInv(f, X \ {x}) /\ StuckInv(f, X \ {x})
  BY DEF Core, BoundInv, StuckInv
<1>2. DueInv(f, X \ {x}, D \cup {f.seat[x.at]})
  <2> SUFFICES ASSUME NEW at \in Places, f.seat[at] \in Starters, f.seat[at] \notin f.down \cup D,
                      f.seat[at] # f.seat[x.at]
               PROVE  \E y \in X \ {x} : y.at = at /\ y.mon = f.seat[at]
    BY DEF DueInv
  <2>1. PICK y \in X : y.at = at /\ y.mon = f.seat[at]
    BY DEF Core, DueInv
  <2> QED BY <2>1
<1>3. ASSUME NEW y \in X \ {x}  PROVE y.mon # f.seat[x.at] /\ f.seat[y.at] # f.seat[x.at]
  <2>1. y.at # x.at /\ y.mon # x.mon /\ y.at \in Places /\ x.at \in Places
    BY <1>0 DEF Core, BoundInv
  <2>2. f.seat[x.at] = x.mon \/ f.seat[x.at] = <<x.at[1], 2>>
    BY DEF Core, BoundInv
  <2>3. y.mon # f.seat[x.at]
    BY <1>0, <1>s, <2>1, <2>2
  <2>4. f.seat[y.at][1] = y.at[1] /\ f.seat[x.at][1] = x.at[1] /\ f.seat[x.at] # f.seat[Ally(x.at)]
    BY <2>1 DEF Core, SeatsInv
  <2>5. y.at[1] = x.at[1] => y.at = Ally(x.at)
    BY <2>1, Allies
  <2> QED BY <2>3, <2>4, <2>5
<1>4. DoneInv(f, X \ {x}, D \cup {f.seat[x.at]})
  <2>1. \A y \in X \ {x} : y.mon \notin D \cup {f.seat[x.at]} /\ f.seat[y.at] \notin D \cup {f.seat[x.at]}
    BY <1>3 DEF Core, DoneInv
  <2>2. ASSUME NEW s \in Sides, \A at \in Places : f.seat[at] # <<s, 2>>
        PROVE  <<s, 2>> \notin D \cup {f.seat[x.at]}
    BY <1>0, <2>2 DEF Core, DoneInv
  <2> QED BY <2>1, <2>2 DEF DoneInv
<1> QED BY <1>1, <1>2, <1>4 DEF Core

\* The one behind is brought to a place.
LEMMA CoreReplaced ==
    ASSUME NEW f, NEW h, NEW X, NEW D, Core(f, X, D), f.seat \in [Places -> Mons], f.replaced \in [Places -> BOOLEAN],
           NEW at \in Places, <<at[1], 2>> \notin {f.seat[at], f.seat[Ally(at)]},
           h.seat = [f.seat EXCEPT ![at] = <<at[1], 2>>], h.replaced = [f.replaced EXCEPT ![at] = TRUE],
           f.down \subseteq h.down
    PROVE  Core(h, X, D)
<1>0. \A y \in X : y.at \in Places /\ y.mon \in Starters
  BY DEF Core, Entries
<1>s. \A m \in Starters : \A s : m # <<s, 2>>
  BY DEF Starters, Places
<1>1. /\ h.seat[at] = <<at[1], 2>> /\ h.replaced[at]
      /\ \A b \in Places : b # at => h.seat[b] = f.seat[b] /\ h.replaced[b] = f.replaced[b]
  OBVIOUS
<1>2. ASSUME NEW b \in Places  PROVE f.seat[b] # <<at[1], 2>>
  <2>1. b[1] = at[1] => b = at \/ b = Ally(at)
    BY Allies
  <2>2. f.seat[b][1] = b[1]
    BY DEF Core, SeatsInv
  <2> QED BY <2>1, <2>2
<1>3. SeatsInv(h)
  <2> SUFFICES ASSUME NEW b \in Places  PROVE h.seat[b][1] = b[1] /\ h.seat[b] # h.seat[Ally(b)]
    BY DEF SeatsInv
  <2>1. Ally(b) \in Places /\ Ally(b) # b
    BY Allies
  <2>2. f.seat[b][1] = b[1] /\ f.seat[b] # f.seat[Ally(b)]
    BY DEF Core, SeatsInv
  <2> QED BY <1>1, <1>2, <2>1, <2>2
<1>4. BoundInv(h, X)
  BY <1>0, <1>1 DEF Core, BoundInv
<1>5. StuckInv(h, X)
  BY <1>1 DEF Core, StuckInv
<1>6. DueInv(h, X, D)
  BY <1>1, <1>s DEF Core, DueInv
<1>7. DoneInv(h, X, D)
  <2>0. at[1] \in Sides
    BY DEF Places
  <2>1. <<at[1], 2>> \notin D
    BY <1>2, <2>0 DEF Core, DoneInv
  <2>2. \A x \in X : x.mon \notin D /\ h.seat[x.at] \notin D
    BY <1>0, <1>1, <2>1 DEF Core, DoneInv
  <2>3. ASSUME NEW s \in Sides, \A b \in Places : h.seat[b] # <<s, 2>>  PROVE <<s, 2>> \notin D
    <3>1. s # at[1]
      BY <1>1, <2>3
    <3>2. f.seat[at] # <<s, 2>>
      BY <3>1 DEF Core, SeatsInv
    <3> QED BY <1>1, <2>3, <3>2 DEF Core, DoneInv
  <2> QED BY <2>2, <2>3 DEF DoneInv
<1> QED BY <1>3, <1>4, <1>5, <1>6, <1>7 DEF Core

\* Where the mon of a place was before the mons of side s changed places.
Other(at, s) == IF at[1] = s THEN Ally(at) ELSE at

LEMMA Others ==
    ASSUME NEW at \in Places, NEW s
    PROVE  /\ Other(at, s) \in Places /\ Other(at, s)[1] = at[1] /\ Other(Other(at, s), s) = at
           /\ Other(Ally(at), s) = Ally(Other(at, s))
BY Allies DEF Other

LEMMA CoreExchanged ==
    ASSUME NEW f, NEW h, NEW X, NEW D, Core(f, X, D), NEW p \in Places, ~f.replaced[p],
           \A x \in X : x.at # p, f.seat[p] \in D,
           h.seat = [at \in Places |-> f.seat[Other(at, p[1])]], h.replaced = f.replaced, h.down = f.down
    PROVE  Core(h, {Follow(x, p[1]) : x \in X}, D)
<1>s. PICK s \in Sides : s = p[1]
  BY DEF Places
<1>Y. PICK Y : Y = {Follow(x, s) : x \in X}
  OBVIOUS
<1>e. \A x \in X : x \in Entries /\ x.at \in Places /\ x.mon \in Starters
  BY DEF Core, Entries
<1>0. ASSUME NEW y \in Y
      PROVE  /\ y \in Entries /\ y.at \in Places
             /\ \E x \in X : y = Follow(x, s) /\ y.mon = x.mon /\ y.at = Other(x.at, s) /\ y.at[1] = x.at[1]
                             /\ Other(y.at, s) = x.at
  <2>1. PICK x \in X : y = Follow(x, s)
    BY <1>Y
  <2>2. /\ y \in Entries /\ y.mon = x.mon /\ y.at[1] = x.at[1] /\ y.at = Other(x.at, s)
    BY <1>e, <2>1, Follows DEF Other
  <2>3. Other(y.at, s) = x.at /\ y.at \in Places
    BY <1>e, <2>2, Others
  <2> QED BY <2>1, <2>2, <2>3
<1>1. \A at \in Places : h.seat[at] = f.seat[Other(at, s)]
  BY <1>s
<1>2. SeatsInv(h)
  <2> SUFFICES ASSUME NEW at \in Places  PROVE h.seat[at][1] = at[1] /\ h.seat[at] # h.seat[Ally(at)]
    BY DEF SeatsInv
  <2>1. Ally(at) \in Places /\ Other(at, s) \in Places /\ Other(at, s)[1] = at[1] /\ Other(Ally(at), s) = Ally(Other(at, s))
    BY Allies, Others
  <2> QED BY <1>1, <2>1 DEF Core, SeatsInv
\* The actions of the side are at the other place.
<1>3. ASSUME NEW x \in X, x.at[1] = s  PROVE x.at = Ally(p) /\ Other(x.at, s) = p
  BY <1>e, <1>s, <1>3, Allies DEF Other
<1>4. BoundInv(h, Y)
  <2>1. ASSUME NEW y \in Y, NEW z \in Y, y # z  PROVE y.at # z.at /\ y.mon # z.mon
    <3>1. PICK x \in X : y = Follow(x, s) /\ y.mon = x.mon /\ y.at = Other(x.at, s)
      BY <1>0
    <3>2. PICK w \in X : z = Follow(w, s) /\ z.mon = w.mon /\ z.at = Other(w.at, s)
      BY <1>0
    <3>3. x # w
      BY <2>1, <3>1, <3>2
    <3>4. x.at # w.at /\ x.mon # w.mon
      BY <3>3 DEF Core, BoundInv
    <3> QED BY <1>e, <3>1, <3>2, <3>4, Others
  <2>2. ASSUME NEW y \in Y
        PROVE  /\ y.at[1] = y.mon[1]
               /\ (h.seat[y.at] = y.mon /\ ~h.replaced[y.at]) \/ h.seat[y.at] = <<y.at[1], 2>>
    <3>1. PICK x \in X : y.mon = x.mon /\ y.at = Other(x.at, s) /\ y.at[1] = x.at[1] /\ Other(y.at, s) = x.at
      BY <1>0
    <3>2. y.at \in Places /\ h.seat[y.at] = f.seat[x.at]
      BY <1>0, <1>1, <3>1
    <3>3. x.at[1] = x.mon[1] /\ ((f.seat[x.at] = x.mon /\ ~f.replaced[x.at]) \/ f.seat[x.at] = <<x.at[1], 2>>)
      BY DEF Core, BoundInv
    <3>4. ~f.replaced[x.at] => ~h.replaced[y.at]
      <4>1. CASE x.at[1] = s
        BY <1>3, <1>s, <3>1, <4>1
      <4>2. CASE x.at[1] # s
        BY <3>1, <4>2 DEF Other
      <4> QED BY <4>1, <4>2
    <3> QED BY <3>1, <3>2, <3>3, <3>4
  <2> QED BY <2>1, <2>2 DEF BoundInv
<1>5. StuckInv(h, Y)
  <2> SUFFICES ASSUME NEW at \in Places, h.seat[at] = <<at[1], 2>>, ~h.replaced[at],
                      NEW y \in Y, y.at[1] = at[1]
               PROVE  y.at = at
    BY DEF StuckInv
  <2>1. PICK x \in X : y.at = Other(x.at, s) /\ y.at[1] = x.at[1]
    BY <1>0
  <2>2. CASE at[1] = s
    <3>1. y.at = p /\ x.at = Ally(p)
      BY <1>3, <2>1, <2>2
    <3>2. CASE at = p
      BY <3>1, <3>2
    <3>3. CASE at = Ally(p)
      <4>1. f.seat[p] = <<p[1], 2>>
        BY <1>1, <1>s, <3>3, Allies DEF Other
      <4>2. x.at = p
        BY <1>s, <2>1, <2>2, <4>1 DEF Core, StuckInv
      <4> QED BY <4>2
    <3> QED BY <1>s, <2>2, <3>2, <3>3, Allies
  <2>3. CASE at[1] # s
    <3>1. f.seat[at] = <<at[1], 2>> /\ ~f.replaced[at]
      BY <1>1, <2>3 DEF Other
    <3>2. x.at = at
      BY <2>1, <3>1 DEF Core, StuckInv
    <3> QED BY <2>1, <2>3, <3>2 DEF Other
  <2> QED BY <2>2, <2>3
<1>6. DueInv(h, Y, D)
  <2> SUFFICES ASSUME NEW at \in Places, h.seat[at] \in Starters, h.seat[at] \notin h.down \cup D
               PROVE  \E y \in Y : y.at = at /\ y.mon = h.seat[at]
    BY DEF DueInv
  <2>1. PICK b \in Places : b = Other(at, s) /\ Other(b, s) = at /\ h.seat[at] = f.seat[b]
    BY <1>1, Others
  <2>2. PICK x \in X : x.at = b /\ x.mon = f.seat[b]
    BY <2>1 DEF Core, DueInv
  <2>3. Follow(x, s) \in Y /\ Follow(x, s).mon = x.mon /\ Follow(x, s).at = Other(x.at, s)
    BY <1>e, <1>Y, Follows DEF Other
  <2> QED BY <2>1, <2>2, <2>3
<1>7. DoneInv(h, Y, D)
  <2>1. ASSUME NEW y \in Y  PROVE y.mon \notin D /\ h.seat[y.at] \notin D
    <3>1. PICK x \in X : y.mon = x.mon /\ Other(y.at, s) = x.at
      BY <1>0
    <3>2. h.seat[y.at] = f.seat[x.at]
      BY <1>0, <1>1, <3>1
    <3> QED BY <3>1, <3>2 DEF Core, DoneInv
  <2>2. ASSUME NEW r \in Sides, \A at \in Places : h.seat[at] # <<r, 2>>  PROVE <<r, 2>> \notin D
    <3>1. ASSUME NEW at \in Places  PROVE f.seat[at] # <<r, 2>>
      BY <1>1, <2>2, Others
    <3> QED BY <3>1 DEF Core, DoneInv
  <2> QED BY <2>1, <2>2 DEF DoneInv
<1>8. Y \subseteq Entries
  BY <1>0
<1> QED BY <1>2, <1>4, <1>5, <1>6, <1>7, <1>8, <1>s, <1>Y DEF Core

-----------------------------------------------------------------------------
(* Who goes first.                                                          *)

\* When an action has run, none is left that After You or Round put first.
LEMMA NoneLeft ==
    ASSUME NEW f \in Fields, NEW q \in Seq(Entries), NoDup(q), q # <<>>, Ordered(f, q),
           OneHot(f, Range(q)), ~f.replaced[Head(q).at]
    PROVE  NoneHot(f, Range(q) \ {Head(q)})
<1>n. PICK n \in Nat : n = Len(q) /\ n >= 1
  OBVIOUS
<1>1. DOMAIN q = 1 .. n /\ Head(q) = q[1] /\ 1 \in 1 .. n /\ \A i \in 1 .. n : q[i] \in Entries
  BY <1>n
<1> SUFFICES ASSUME NEW x \in Range(q), x # q[1], Hot(f, x)  PROVE FALSE
  BY <1>1 DEF NoneHot
<1>2. PICK j \in 1 .. n : x = q[j] /\ 1 < j
  BY <1>1 DEF Range
<1>3. ~Before(KeyOf(f, x), KeyOf(f, q[1]))
  BY <1>1, <1>2 DEF Ordered, Hot
<1>4. /\ KeyOf(f, x) \in Keys /\ KeyOf(f, q[1]) \in Keys
  BY <1>1, <1>2, KeysAre
<1>5. KeyOf(f, x)[1] = -1 /\ KeyOf(f, q[1])[1] = f.keys[q[1].at].bias
  BY DEF Hot, KeyOf, Key
<1>6. f.keys[q[1].at].bias \in Biases
  BY <1>1 DEF Fields, Granted, Entries
<1>7. f.keys[q[1].at].bias = -1
  <2>1. ~(KeyOf(f, x)[1] < KeyOf(f, q[1])[1])
    BY <1>3, <1>4, Lexicographic
  <2>2. \A b \in Biases : ~(-1 < b) => b = -1
    BY DEF Biases
  <2> QED BY <1>5, <1>6, <2>1, <2>2
<1>8. Hot(f, q[1]) /\ q[1] \in Range(q)
  BY <1>1, <1>7 DEF Hot, Range
<1> QED BY <1>8 DEF OneHot

-----------------------------------------------------------------------------
(* What an action makes of the field.                                       *)

\* What a mon was granted is kept with its place.
GivenInv(f, g) == \A at \in Places : f.seat[at] \in Starters => g[f.seat[at]] = f.keys[at]

CallsInv(g, c) == \A m \in c : g[m].bias = -1

\* h is a field with the same mons under the same keys.
Alike(f, h) ==
    /\ h \in Fields /\ h.seat = f.seat /\ h.replaced = f.replaced /\ h.keys = f.keys
    /\ f.down \subseteq h.down

LEMMA UsedAlike ==
    ASSUME NEW e \in Entries, field \in Fields
    PROVE  Alike(field, Used(e))
<1>1. e.at \in Places
  BY DEF Entries
<1> QED BY <1>1 DEF Used, Alike, Fields

LEMMA ChangedAlike ==
    ASSUME NEW f \in Fields, NEW kind \in Changes, kind # "replace", NEW h \in Changed(f, kind)
    PROVE  Alike(f, h)
<1>0. kind \in {"speed", "room", "priority", "faint"} /\ Speeds \subseteq Int /\ Priorities \subseteq Int
  BY OrderAssumption
<1>m. \A at \in Places : f.seat[at] \in Mons
  BY DEF Fields
<1>1. CASE kind = "speed"
  <2>1. PICK at \in Places, x \in Speeds : h = [f EXCEPT !.speed[f.seat[at]] = x]
    BY <1>1 DEF Changed
  <2> QED BY <1>0, <1>m, <2>1 DEF Alike, Fields
<1>2. CASE kind = "room"
  <2>1. h = [f EXCEPT !.room = ~f.room]
    BY <1>2 DEF Changed
  <2> QED BY <2>1 DEF Alike, Fields
<1>3. CASE kind = "priority"
  <2>1. PICK at \in Places, x \in Priorities : h = [f EXCEPT !.priority[f.seat[at]] = x]
    BY <1>3 DEF Changed
  <2> QED BY <1>0, <1>m, <2>1 DEF Alike, Fields
<1>4. CASE kind = "faint"
  <2>1. PICK at \in Places, x \in Speeds : h = KnockedOut(f, at, x)
    BY <1>4 DEF Changed
  <2> QED BY <1>0, <1>m, <2>1 DEF Alike, Fields, KnockedOut
<1> QED BY <1>0, <1>1, <1>2, <1>3, <1>4

LEMMA ChangedReplaces ==
    ASSUME NEW f \in Fields, NEW h \in Changed(f, "replace")
    PROVE  /\ h \in Fields /\ h.keys = f.keys /\ h.down = f.down
           /\ \E at \in Places :
                 /\ <<at[1], 2>> \notin {f.seat[at], f.seat[Ally(at)]}
                 /\ h.seat = [f.seat EXCEPT ![at] = <<at[1], 2>>]
                 /\ h.replaced = [f.replaced EXCEPT ![at] = TRUE]
<1>1. PICK at \in Places :
         /\ <<at[1], 2>> \notin {f.seat[at], f.seat[Ally(at)]}
         /\ h = Replaced(f, at)
  BY DEF Changed
<1>2. <<at[1], 2>> \in Mons
  BY DEF Places, Mons
<1>3. h \in Fields
  BY <1>1, <1>2 DEF Fields, Replaced
<1>4. /\ h.keys = f.keys /\ h.down = f.down
      /\ h.seat = [f.seat EXCEPT ![at] = <<at[1], 2>>]
      /\ h.replaced = [f.replaced EXCEPT ![at] = TRUE]
  BY <1>1 DEF Fields, Replaced
<1> QED BY <1>1, <1>3, <1>4

LEMMA BiasIs ==
    ASSUME NEW f \in Fields, NEW at \in Places, NEW b \in Biases
    PROVE  /\ Bias(f, at, b) \in Fields /\ Bias(f, at, b).seat = f.seat
           /\ Bias(f, at, b).replaced = f.replaced /\ Bias(f, at, b).down = f.down
           /\ Bias(f, at, b).keys = [f.keys EXCEPT ![at].bias = b]
<1>1. [f.keys EXCEPT ![at].bias = b] \in [Places -> Granted]
  BY DEF Fields, Granted
<1> QED BY <1>1 DEF Bias, Fields

LEMMA ExchangedIs ==
    ASSUME NEW f \in Fields, NEW s
    PROVE  /\ Exchanged(f, s) \in Fields
           /\ Exchanged(f, s).seat = [at \in Places |-> f.seat[Other(at, s)]]
           /\ Exchanged(f, s).keys = [at \in Places |-> f.keys[Other(at, s)]]
           /\ Exchanged(f, s).replaced = f.replaced /\ Exchanged(f, s).down = f.down
<1>1. \A at \in Places : Other(at, s) \in Places
  BY Others
<1>2. Exchanged(f, s) =
         [f EXCEPT !.seat = [at \in Places |-> f.seat[Other(at, s)]],
                   !.pending = [at \in Places |-> f.pending[Other(at, s)]],
                   !.keys = [at \in Places |-> f.keys[Other(at, s)]]]
  BY DEF Exchanged, Other
<1>3. /\ Exchanged(f, s).seat = [at \in Places |-> f.seat[Other(at, s)]]
      /\ Exchanged(f, s).pending = [at \in Places |-> f.pending[Other(at, s)]]
      /\ Exchanged(f, s).keys = [at \in Places |-> f.keys[Other(at, s)]]
  BY <1>2 DEF Fields
<1>4. /\ [at \in Places |-> f.seat[Other(at, s)]] \in [Places -> Mons]
      /\ [at \in Places |-> f.pending[Other(at, s)]] \in [Places -> BOOLEAN]
      /\ [at \in Places |-> f.keys[Other(at, s)]] \in [Places -> Granted]
  BY <1>1 DEF Fields
<1>5. Exchanged(f, s) \in Fields
  BY <1>2, <1>4 DEF Fields
<1>6. Exchanged(f, s).replaced = f.replaced /\ Exchanged(f, s).down = f.down
  BY <1>2 DEF Fields
<1> QED BY <1>3, <1>5, <1>6

-----------------------------------------------------------------------------
(* The invariant.                                                           *)

TypeInv ==
    /\ pc \in {"build", "loop"} /\ keyed \in BOOLEAN /\ queue \in Seq(Entries)
    /\ field \in Fields /\ events \in Nat /\ granted \in [Mons -> Granted]
    /\ called \subseteq Mons /\ acted \in Seq(Mons)

BuildInv ==
    /\ queue = <<>> /\ acted = <<>> /\ called = {}
    /\ \A at \in Places : /\ field.seat[at] = at /\ ~field.replaced[at]
                          /\ field.keys[at].bias = 0 /\ granted[at] = field.keys[at]

LoopInv ==
    /\ NoDup(queue) /\ NoDup(acted) /\ Core(field, Range(queue), Range(acted))
    /\ OneHot(field, Range(queue)) /\ Ordered(field, queue)
    /\ GivenInv(field, granted) /\ CallsInv(granted, called)

QueueInv == (pc = "build" => BuildInv) /\ (pc = "loop" => LoopInv)

\* What an action by mon m is to leave to the re-sort.
Ready(f, q, g, c, m) ==
    /\ f \in Fields /\ q \in Seq(Entries) /\ NoDup(q)
    /\ Core(f, Range(q), Range(acted) \cup {m}) /\ OneHot(f, Range(q))
    /\ GivenInv(f, g) /\ CallsInv(g, c) /\ g \in [Mons -> Granted] /\ c \subseteq Mons

LEMMA Extended ==
    ASSUME NEW a \in Seq(Mons), NoDup(a), NEW m \in Mons, m \notin Range(a)
    PROVE  /\ Append(a, m) \in Seq(Mons) /\ NoDup(Append(a, m))
           /\ Range(Append(a, m)) = Range(a) \cup {m}
<1>n. PICK n \in Nat : n = Len(a)
  BY LenProperties
<1>v. PICK v : v = Append(a, m)
  OBVIOUS
<1>1. /\ v \in Seq(Mons) /\ DOMAIN v = 1 .. n + 1 /\ DOMAIN a = 1 .. n /\ v[n + 1] = m
      /\ \A i \in 1 .. n : v[i] = a[i]
  BY <1>n, <1>v
<1>2. Range(v) = {v[i] : i \in 1 .. n + 1} /\ Range(a) = {a[i] : i \in 1 .. n}
  BY <1>1 DEF Range
<1>3. \A i \in 1 .. n + 1 : i \in 1 .. n \/ i = n + 1
  OBVIOUS
<1>i. n + 1 \in 1 .. n + 1 /\ \A i \in 1 .. n : i \in 1 .. n + 1
  OBVIOUS
<1>4. Range(v) = Range(a) \cup {m}
  BY <1>1, <1>2, <1>3, <1>i
<1>5. \A i \in 1 .. n : a[i] # m
  BY <1>2
<1>6. NoDup(v)
  BY <1>1, <1>3, <1>5 DEF NoDup
<1> QED BY <1>1, <1>4, <1>6, <1>v

LEMMA Finished ==
    ASSUME TypeInv, LoopInv, NEW e \in Range(queue), NEW f, NEW q, Finish(e, f, q), events' \in Nat,
           Ready(f, q, granted', called', field.seat[e.at])
    PROVE  TypeInv' /\ QueueInv'
<1>1. Reordered(queue', q) /\ Ordered(f, queue')
  BY Resorted DEF Finish, Ready
<1>2. e.at \in Places /\ field.seat[e.at] \in Mons /\ field.seat[e.at] \notin Range(acted)
  BY DEF LoopInv, Core, DoneInv, Entries, TypeInv, Fields
<1>3. /\ acted' \in Seq(Mons) /\ NoDup(acted')
      /\ Range(acted') = Range(acted) \cup {field.seat[e.at]}
  <2>1. acted \in Seq(Mons) /\ NoDup(acted)
    BY DEF TypeInv, LoopInv
  <2> QED BY <1>2, <2>1, Extended DEF Finish
<1>4. field' = f /\ pc' = "loop" /\ keyed' = keyed
  BY DEF Finish
<1>5. TypeInv'
  BY <1>1, <1>3, <1>4 DEF TypeInv, Ready, Reordered
<1>6. LoopInv'
  BY <1>1, <1>3, <1>4 DEF LoopInv, Ready, Reordered
<1> QED BY <1>4, <1>5, <1>6 DEF QueueInv

\* The head of the queue is about to act.
Acting(e, r, X, D) ==
    /\ e \in Entries /\ e \in Range(queue) /\ e.at \in Places
    /\ field.seat[e.at] \in Mons /\ ~field.replaced[e.at]
    /\ r \in Seq(Entries) /\ NoDup(r) /\ X = Range(r)
    /\ D = Range(acted) \cup {field.seat[e.at]}
    /\ X \subseteq Entries /\ \A x \in X : x.at \in Places /\ x.at # e.at
    /\ Core(field, X, D) /\ NoneHot(field, X)

LEMMA Began ==
    ASSUME TypeInv, LoopInv, queue # <<>>, Ran(Head(queue))
    PROVE  Acting(Head(queue), Tail(queue), Range(Tail(queue)), Range(acted) \cup {field.seat[Head(queue).at]})
<1>e. PICK e : e = Head(queue)
  OBVIOUS
<1>X. PICK X : X = Range(queue)
  OBVIOUS
<1>0. queue \in Seq(Entries) /\ NoDup(queue) /\ field \in Fields /\ Core(field, X, Range(acted))
  BY <1>X DEF TypeInv, LoopInv
<1>1. /\ Tail(queue) \in Seq(Entries) /\ NoDup(Tail(queue))
      /\ Range(Tail(queue)) = X \ {e} /\ e \in X /\ e \in Entries
  BY <1>0, <1>e, <1>X, Tailed
<1>2. ~field.replaced[e.at]
  BY <1>e DEF Ran
<1>3. NoneHot(field, X \ {e})
  BY <1>0, <1>2, <1>e, <1>X, NoneLeft DEF LoopInv
<1>4. Core(field, X \ {e}, Range(acted) \cup {field.seat[e.at]})
  BY <1>0, <1>1, CoreActed
<1>5. e.at \in Places /\ field.seat[e.at] \in Mons
  BY <1>0, <1>1 DEF Entries, Fields
<1>6. \A x \in X \ {e} : x \in Entries /\ x.at \in Places /\ x.at # e.at
  BY <1>0, <1>1 DEF Core, BoundInv, Entries
<1> QED BY <1>1, <1>2, <1>3, <1>4, <1>5, <1>6, <1>e, <1>X DEF Acting

\* Nothing is put first, and the keys of those who stay stay.
LEMMA StillNoneHot ==
    ASSUME NEW f, NEW h, NEW X, NoneHot(f, X),
           \A x \in X : h.keys[x.at] = f.keys[x.at] /\ (f.replaced[x.at] => h.replaced[x.at])
    PROVE  OneHot(h, X)
BY DEF NoneHot, OneHot, Hot

LEMMA AlikeReady ==
    ASSUME TypeInv, LoopInv, NEW e, NEW r, NEW X, NEW D, Acting(e, r, X, D), NEW h, Alike(field, h)
    PROVE  Ready(h, r, granted, called, field.seat[e.at])
<1>1. Core(h, X, D)
  BY CoreKept DEF Acting, Alike
<1>2. OneHot(h, X)
  BY StillNoneHot DEF Acting, Alike
<1>3. GivenInv(h, granted)
  BY DEF LoopInv, GivenInv, Alike
<1> QED BY <1>1, <1>2, <1>3 DEF Ready, Acting, Alike, LoopInv, TypeInv

LEMMA AlikeOn ==
    ASSUME NEW f, NEW g, NEW h, Alike(f, g), Alike(g, h)
    PROVE  Alike(f, h)
BY DEF Alike

LEMMA PlainReady ==
    ASSUME TypeInv, LoopInv, NEW e, NEW r, NEW X, NEW D, Acting(e, r, X, D),
           NEW kind \in Changes, NEW h \in Changed(Used(e), kind)
    PROVE  Ready(h, r, granted, called, field.seat[e.at])
<1>u. PICK u : u = Used(e)
  OBVIOUS
<1>1. Alike(field, u) /\ u \in Fields
  BY <1>u, UsedAlike DEF TypeInv, Acting, Alike
<1>2. CASE kind # "replace"
  BY <1>1, <1>2, <1>u, ChangedAlike, AlikeOn, AlikeReady
<1>3. CASE kind = "replace"
  <2>1. /\ h \in Fields /\ h.keys = u.keys /\ h.down = u.down
        /\ \E at \in Places :
              /\ <<at[1], 2>> \notin {u.seat[at], u.seat[Ally(at)]}
              /\ h.seat = [u.seat EXCEPT ![at] = <<at[1], 2>>]
              /\ h.replaced = [u.replaced EXCEPT ![at] = TRUE]
    BY <1>1, <1>3, <1>u, ChangedReplaces
  <2>2. /\ u.seat = field.seat /\ u.replaced = field.replaced /\ u.keys = field.keys
        /\ field.down \subseteq u.down
    BY <1>1 DEF Alike
  <2>3. PICK at \in Places :
           /\ <<at[1], 2>> \notin {field.seat[at], field.seat[Ally(at)]}
           /\ h.seat = [field.seat EXCEPT ![at] = <<at[1], 2>>]
           /\ h.replaced = [field.replaced EXCEPT ![at] = TRUE]
    BY <2>1, <2>2
  <2>4. h \in Fields /\ h.keys = field.keys /\ field.down \subseteq h.down
    BY <2>1, <2>2
  <2>5. field.seat \in [Places -> Mons] /\ field.replaced \in [Places -> BOOLEAN]
    BY DEF TypeInv, Fields
  <2>6. Core(h, X, D)
    BY <2>3, <2>4, <2>5, CoreReplaced DEF Acting
  <2>7. OneHot(h, X)
    <3>1. \A x \in X : h.keys[x.at] = field.keys[x.at] /\ (field.replaced[x.at] => h.replaced[x.at])
      BY <2>3, <2>4, <2>5 DEF Acting
    <3> QED BY <3>1, StillNoneHot DEF Acting
  <2>8. GivenInv(h, granted)
    <3>1. <<at[1], 2>> \notin Starters
      BY DEF Starters, Places
    <3> QED BY <2>3, <2>4, <2>5, <3>1 DEF LoopInv, GivenInv
  <2> QED BY <2>4, <2>6, <2>7, <2>8 DEF Ready, Acting, LoopInv, TypeInv
<1> QED BY <1>2, <1>3

\* After You, Quash and Round.
LEMMA BiasReady ==
    ASSUME TypeInv, LoopInv, NEW e, NEW r, NEW X, NEW D, Acting(e, r, X, D),
           NEW at \in Places, NEW b \in {-1, 1}, NEW v, Reordered(v, r), Grants(field, at, b)
    PROVE  Ready(Bias(Used(e), at, b), v, granted', called', field.seat[e.at])
<1>u. PICK u : u = Used(e)
  OBVIOUS
<1>h. PICK h : h = Bias(u, at, b)
  OBVIOUS
<1>b. b \in Biases
  BY DEF Biases
<1>0. field \in Fields /\ granted \in [Mons -> Granted] /\ called \subseteq Mons
  BY DEF TypeInv
<1>1. Alike(field, u) /\ u \in Fields
  BY <1>u, UsedAlike DEF TypeInv, Acting, Alike
<1>2. /\ h \in Fields /\ h.seat = field.seat /\ h.replaced = field.replaced
      /\ field.down \subseteq h.down /\ h.keys = [field.keys EXCEPT ![at].bias = b]
  BY <1>1, <1>b, <1>h, BiasIs DEF Alike
<1>3. Core(h, X, D)
  BY <1>2, CoreKept DEF Acting
<1>4. OneHot(h, X)
  <2>1. ASSUME NEW x \in X, Hot(h, x)  PROVE x.at = at
    <3>1. x.at \in Places /\ ~Hot(field, x)
      BY DEF Acting, NoneHot
    <3> QED BY <1>0, <1>2, <2>1, <3>1 DEF Hot, Fields
  <2>2. \A x, y \in X : x # y => x.at # y.at
    BY DEF Acting, Core, BoundInv
  <2> QED BY <2>1, <2>2 DEF OneHot
<1>5. field.seat[at] \in Mons /\ field.keys[at] \in Granted
  BY <1>0 DEF Fields
<1>6. /\ granted' = [granted EXCEPT ![field.seat[at]].bias = b]
      /\ called' = IF b = -1 THEN {field.seat[at]} ELSE called \ {field.seat[at]}
  BY DEF Grants
<1>7. granted' \in [Mons -> Granted] /\ called' \subseteq Mons
  BY <1>0, <1>5, <1>6, <1>b DEF Granted
<1>8. CallsInv(granted', called')
  <2>1. \A m \in called : m \in Mons /\ granted[m].bias = -1
    BY <1>0 DEF LoopInv, CallsInv
  <2>2. granted[field.seat[at]] \in Granted
    BY <1>0, <1>5
  <2> QED BY <1>0, <1>5, <1>6, <2>1, <2>2 DEF CallsInv, Granted
<1>9. GivenInv(h, granted')
  <2> SUFFICES ASSUME NEW p \in Places, field.seat[p] \in Starters
               PROVE  granted'[field.seat[p]] = h.keys[p]
    BY <1>2 DEF GivenInv
  <2>1. granted[field.seat[p]] = field.keys[p] /\ field.seat[p] \in Mons
    BY <1>0 DEF LoopInv, GivenInv, Fields
  <2>2. CASE p = at
    BY <1>0, <1>2, <1>5, <1>6, <2>1, <2>2 DEF Fields, Granted
  <2>3. CASE p # at
    <3>1. field.seat[p] # field.seat[at]
      <4>1. field.seat[p][1] = p[1] /\ field.seat[at][1] = at[1] /\ field.seat[at] # field.seat[Ally(at)]
        BY DEF LoopInv, Core, SeatsInv
      <4>2. p[1] = at[1] => p = Ally(at)
        BY <2>3, Allies
      <4> QED BY <4>1, <4>2
    <3> QED BY <1>0, <1>2, <1>6, <2>1, <2>3, <3>1 DEF Fields
  <2> QED BY <2>2, <2>3
<1>10. v \in Seq(Entries) /\ NoDup(v) /\ Range(v) = X
  BY DEF Reordered, Acting
<1> QED BY <1>2, <1>3, <1>4, <1>7, <1>8, <1>9, <1>10, <1>u, <1>h DEF Ready, Acting

\* Ally Switch.
LEMMA ExchangeReady ==
    ASSUME TypeInv, LoopInv, NEW e, NEW r, NEW X, NEW D, Acting(e, r, X, D)
    PROVE  Ready(Exchanged(Used(e), e.at[1]), Followed(r, e.at[1]), granted, called, field.seat[e.at])
<1>u. PICK u : u = Used(e)
  OBVIOUS
<1>p. PICK p \in Places : p = e.at
  BY DEF Acting
<1>s. PICK s : s = p[1]
  OBVIOUS
<1>h. PICK h : h = Exchanged(u, s)
  OBVIOUS
<1>Y. PICK Y : Y = {Follow(x, s) : x \in X}
  OBVIOUS
<1>1. Alike(field, u) /\ u \in Fields
  BY <1>u, UsedAlike DEF TypeInv, Acting, Alike
<1>2. /\ h \in Fields
      /\ h.seat = [at \in Places |-> u.seat[Other(at, s)]]
      /\ h.keys = [at \in Places |-> u.keys[Other(at, s)]]
      /\ h.replaced = u.replaced /\ h.down = u.down
  BY <1>1, <1>h, ExchangedIs
<1>3. Core(u, X, D) /\ ~u.replaced[p] /\ u.seat[p] \in D /\ \A x \in X : x.at # p
  BY <1>1, <1>p, CoreKept DEF Acting, Alike
<1>4. Core(h, Y, D)
  BY <1>2, <1>3, <1>s, <1>Y, CoreExchanged
<1>5. OneHot(h, Y)
  <2>1. ASSUME NEW x \in X, Hot(h, Follow(x, s))  PROVE x.at = Ally(p)
    <3>0. x \in Entries /\ x.at \in Places /\ ~Hot(field, x)
      BY DEF Acting, NoneHot
    <3>1. Follow(x, s).at = Other(x.at, s)
      BY <3>0, Follows DEF Other
    <3>2. Other(x.at, s) \in Places /\ Other(Other(x.at, s), s) = x.at
      BY <3>0, Others
    <3>3. h.keys[Other(x.at, s)] = field.keys[x.at]
      BY <1>1, <1>2, <3>2 DEF Alike
    <3>4. CASE x.at[1] # s
      <4>1. Other(x.at, s) = x.at /\ h.replaced[x.at] = field.replaced[x.at]
        BY <1>1, <1>2, <3>4 DEF Other, Alike
      <4> QED BY <2>1, <3>0, <3>1, <3>3, <4>1 DEF Hot
    <3>5. CASE x.at[1] = s
      BY <1>3, <1>s, <3>0, <3>5, Allies
    <3> QED BY <3>4, <3>5
  <2>2. \A x, y \in X : x # y => x.at # y.at
    BY DEF Acting, Core, BoundInv
  <2>3. ASSUME NEW x \in X, NEW y \in X, Hot(h, Follow(x, s)), Hot(h, Follow(y, s))
        PROVE  Follow(x, s) = Follow(y, s)
    <3>1. x.at = Ally(p) /\ y.at = Ally(p)
      BY <2>1, <2>3
    <3> QED BY <2>2, <3>1
  <2> QED BY <1>Y, <2>3 DEF OneHot
<1>6. GivenInv(h, granted)
  <2> SUFFICES ASSUME NEW at \in Places, h.seat[at] \in Starters  PROVE granted[h.seat[at]] = h.keys[at]
    BY DEF GivenInv
  <2>1. h.seat[at] = field.seat[Other(at, s)] /\ h.keys[at] = field.keys[Other(at, s)]
    BY <1>1, <1>2 DEF Alike
  <2>2. Other(at, s) \in Places
    BY Others
  <2> QED BY <2>1, <2>2 DEF LoopInv, GivenInv
<1>7. /\ Followed(r, s) \in Seq(Entries) /\ NoDup(Followed(r, s))
      /\ Range(Followed(r, s)) = Y
  <2>1. r \in Seq(Entries) /\ NoDup(r) /\ X = Range(r)
    BY DEF Acting
  <2> QED BY <1>Y, <2>1, FollowedKeeps
<1> QED BY <1>2, <1>4, <1>5, <1>6, <1>7, <1>u, <1>p, <1>s, <1>h DEF Ready, Acting, LoopInv, TypeInv

-----------------------------------------------------------------------------
(* The steps.                                                               *)

LEMMA SkipStep ==
    ASSUME TypeInv, QueueInv, Skip
    PROVE  TypeInv' /\ QueueInv'
<1>0. pc = "loop" /\ LoopInv /\ queue # <<>> /\ ~Ran(Head(queue)) /\ queue' = Tail(queue)
  BY DEF Skip, QueueInv
<1>u. UNCHANGED <<pc, keyed, field, events, granted, called, acted>>
  BY DEF Skip
<1>e. PICK e : e = Head(queue)
  OBVIOUS
<1>X. PICK X : X = Range(queue)
  OBVIOUS
<1>1. queue \in Seq(Entries) /\ NoDup(queue) /\ Core(field, X, Range(acted))
  BY <1>0, <1>X DEF TypeInv, LoopInv
<1>2. /\ queue' \in Seq(Entries) /\ NoDup(queue') /\ Range(queue') = X \ {e} /\ e \in X
  BY <1>0, <1>1, <1>e, <1>X, Tailed
<1>3. Core(field, X \ {e}, Range(acted))
  <2>1. field.seat[e.at] \in field.down \/ field.replaced[e.at]
    BY <1>0, <1>e DEF Ran, Alive
  <2> QED BY <1>1, <1>2, <2>1, CoreSkipped
<1>4. Ordered(field, queue')
  <2>n. PICK n \in Nat : n = Len(queue) /\ n >= 1
    BY <1>0, <1>1
  <2>1. DOMAIN queue = 1 .. n /\ DOMAIN queue' = 1 .. n - 1 /\ \A i \in 1 .. n - 1 : queue'[i] = queue[i + 1]
    BY <1>0, <1>1, <2>n
  <2> SUFFICES ASSUME NEW i \in 1 .. n - 1, NEW j \in 1 .. n - 1, i < j,
                      ~field.replaced[queue'[i].at], ~field.replaced[queue'[j].at]
               PROVE  ~Before(KeyOf(field, queue'[j]), KeyOf(field, queue'[i]))
    BY <2>1 DEF Ordered
  <2>2. i + 1 \in 1 .. n /\ j + 1 \in 1 .. n /\ i + 1 < j + 1
    BY <2>n
  <2> QED BY <1>0, <2>1, <2>2 DEF LoopInv, Ordered
<1>5. OneHot(field, X \ {e})
  BY <1>0, <1>X DEF LoopInv, OneHot
<1> QED BY <1>0, <1>u, <1>2, <1>3, <1>4, <1>5 DEF TypeInv, QueueInv, LoopInv

LEMMA ActStep ==
    ASSUME TypeInv, QueueInv, Act
    PROVE  TypeInv' /\ QueueInv'
<1>e. PICK e : e = Head(queue)
  OBVIOUS
<1>r. PICK r : r = Tail(queue)
  OBVIOUS
<1>X. PICK X : X = Range(r)
  OBVIOUS
<1>D. PICK D : D = Range(acted) \cup {field.seat[e.at]}
  OBVIOUS
<1>0. queue # <<>> /\ Ran(e)
  BY <1>e DEF Act
<1>1. CASE PlainMove(e)
  <2>1. pc = "loop" /\ LoopInv
    BY <1>1 DEF PlainMove, Finish, QueueInv
  <2>2. Acting(e, r, X, D)
    BY <2>1, <1>0, <1>e, <1>r, <1>X, <1>D, Began
  <2>3. granted' = granted /\ called' = called /\ e \in Range(queue) /\ events \in Nat
    BY <1>1, <2>2 DEF PlainMove, Acting, TypeInv
  <2>4. CASE Finish(e, Used(e), r) /\ events' = events
    <3>1. Alike(field, Used(e))
      BY <2>2, UsedAlike DEF Acting, TypeInv
    <3>2. Ready(Used(e), r, granted', called', field.seat[e.at])
      BY <2>1, <2>2, <2>3, <3>1, AlikeReady
    <3> QED BY <2>1, <2>3, <2>4, <3>2, Finished
  <2>5. ASSUME NEW kind \in Changes, NEW h \in Changed(Used(e), kind), Finish(e, h, r), Busy
        PROVE  TypeInv' /\ QueueInv'
    <3>1. Ready(h, r, granted', called', field.seat[e.at])
      BY <2>1, <2>2, <2>3, PlainReady
    <3>2. events' \in Nat
      BY <2>3, <2>5 DEF Busy
    <3> QED BY <2>1, <2>3, <2>5, <3>1, <3>2, Finished
  <2> QED BY <1>1, <1>r, <2>4, <2>5 DEF PlainMove
<1>2. ASSUME pc = "loop", NEW at \in Places, NEW b \in {-1, 1}, NEW first,
             Finish(e, Bias(Used(e), at, b), Reorder(r, at, first)), Grants(field, at, b), events' \in Nat
      PROVE  TypeInv' /\ QueueInv'
  <2>1. LoopInv
    BY <1>2 DEF QueueInv
  <2>2. Acting(e, r, X, D)
    BY <2>1, <1>0, <1>e, <1>r, <1>X, <1>D, Began
  <2>3. Reordered(Reorder(r, at, first), r)
    BY <2>2, ReorderKeeps DEF Acting
  <2>4. Ready(Bias(Used(e), at, b), Reorder(r, at, first), granted', called', field.seat[e.at])
    BY <1>2, <2>1, <2>2, <2>3, BiasReady
  <2>5. e \in Range(queue)
    BY <2>2 DEF Acting
  <2> QED BY <1>2, <2>1, <2>4, <2>5, Finished
<1>3. CASE Round(e)
  <2> DEFINE left == {i \in 2 .. Len(queue) : /\ ~field.replaced[queue[i].at]
                                              /\ field.seat[queue[i].at] \in field.rounds}
             i == CHOOSE x \in left : \A y \in left : x <= y
             at == queue[i].at
  <2>0. events' \in Nat
    BY <1>3 DEF Round, TypeInv
  <2>1. CASE left = {}
    <3>0. Finish(e, Used(e), r) /\ granted' = granted /\ called' = called
      BY <1>3, <2>1, <1>r DEF Round
    <3>1. pc = "loop" /\ LoopInv
      BY <3>0 DEF Finish, QueueInv
    <3>2. Acting(e, r, X, D)
      BY <3>1, <1>0, <1>e, <1>r, <1>X, <1>D, Began
    <3>3. Alike(field, Used(e)) /\ e \in Range(queue)
      BY <3>2, UsedAlike DEF Acting, TypeInv
    <3>4. Ready(Used(e), r, granted', called', field.seat[e.at])
      BY <3>0, <3>1, <3>2, <3>3, AlikeReady
    <3> QED BY <2>0, <3>0, <3>1, <3>3, <3>4, Finished
  <2>2. CASE left # {}
    <3>1. Finish(e, Bias(Used(e), at, -1), Reorder(r, at, TRUE)) /\ Grants(field, at, -1)
      BY <1>3, <2>2, <1>r DEF Round
    <3>2. at \in Places
      <4>1. left \subseteq Nat
        OBVIOUS
      <4>2. \E x \in left : \A y \in left : x <= y
        <5> HIDE DEF left
        <5> QED BY <2>2, <4>1, Least
      <4>3. i \in left
        BY <4>2
      <4>4. i \in 2 .. Len(queue)
        BY <4>3
      <4> HIDE DEF i
      <4>5. queue[i] \in Entries
        BY <4>4 DEF TypeInv
      <4> QED BY <4>5 DEF Entries
    <3> HIDE DEF at, i, left
    <3>3. pc = "loop"
      BY <3>1 DEF Finish
    <3> QED BY <1>2, <2>0, <3>1, <3>2, <3>3
  <2> QED BY <2>1, <2>2
<1>4. CASE AfterYou(e)
  <2>1. events' \in Nat
    BY <1>4 DEF AfterYou, Busy, TypeInv
  <2>2. PICK at \in Places : Finish(e, Bias(Used(e), at, -1), Reorder(r, at, TRUE)) /\ Grants(field, at, -1)
    BY <1>4, <1>r DEF AfterYou
  <2>3. pc = "loop"
    BY <2>2 DEF Finish
  <2> QED BY <1>2, <2>1, <2>2, <2>3
<1>5. CASE Quash(e)
  <2>1. events' \in Nat
    BY <1>5 DEF Quash, Busy, TypeInv
  <2>2. PICK at \in Places : Finish(e, Bias(Used(e), at, 1), Reorder(r, at, FALSE)) /\ Grants(field, at, 1)
    BY <1>5, <1>r DEF Quash
  <2>3. pc = "loop"
    BY <2>2 DEF Finish
  <2> QED BY <1>2, <2>1, <2>2, <2>3
<1>6. CASE AllySwitch(e)
  <2>1. events' \in Nat /\ granted' = granted /\ called' = called
    BY <1>6 DEF AllySwitch, Busy, TypeInv
  <2>2. Finish(e, Exchanged(Used(e), e.at[1]), Followed(r, e.at[1]))
    BY <1>6, <1>r DEF AllySwitch
  <2>3. pc = "loop" /\ LoopInv
    BY <2>2 DEF Finish, QueueInv
  <2>4. Acting(e, r, X, D) /\ e \in Range(queue)
    BY <2>3, <1>0, <1>e, <1>r, <1>X, <1>D, Began DEF Acting
  <2>5. Ready(Exchanged(Used(e), e.at[1]), Followed(r, e.at[1]), granted', called', field.seat[e.at])
    BY <2>1, <2>3, <2>4, ExchangeReady
  <2> QED BY <2>1, <2>2, <2>3, <2>4, <2>5, Finished
<1> QED BY <1>1, <1>3, <1>4, <1>5, <1>6, <1>e DEF Act

LEMMA Starts ==
    ASSUME Init
    PROVE  TypeInv /\ QueueInv
<1>1. PICK speed \in [Starters -> Speeds], room \in BOOLEAN, rounds \in Rounders,
           frac \in {g \in [Starters -> {-1, 0, 1}] : \A m \in Starters : g[m] \in Fractions[m]} :
         /\ field = [seat |-> [at \in Places |-> at],
                     speed |-> [m \in Mons |-> IF m \in Starters THEN speed[m]
                                               ELSE CHOOSE x \in Speeds : \A y \in Speeds : x <= y],
                     priority |-> [m \in Mons |-> CHOOSE x \in Priorities : \A y \in Priorities : x <= y],
                     rounds |-> rounds, room |-> room, down |-> {},
                     replaced |-> [at \in Places |-> FALSE], pending |-> [at \in Places |-> TRUE],
                     keys |-> [at \in Places |-> Fresh(frac[at])]]
         /\ granted = [m \in Mons |-> Fresh(IF m \in Starters THEN frac[m] ELSE 0)]
  BY DEF Init
<1>2. /\ (CHOOSE x \in Speeds : \A y \in Speeds : x <= y) \in Int
      /\ (CHOOSE x \in Priorities : \A y \in Priorities : x <= y) \in Int
      /\ Speeds \subseteq Int /\ Rounders \subseteq SUBSET Starters
  <2>1. /\ Speeds \subseteq Int /\ \E x \in Speeds : \A y \in Speeds : x <= y
        /\ Priorities \subseteq Int /\ \E x \in Priorities : \A y \in Priorities : x <= y
        /\ Rounders \subseteq SUBSET Starters
    BY OrderAssumption
  <2> QED BY <2>1
<1>3. Places = Starters /\ Places \subseteq Mons
  BY DEF Places, Starters, Mons
<1>4. \A x \in {-1, 0, 1} : Fresh(x) \in Granted /\ Fresh(x).bias = 0
  BY DEF Fresh, Granted, Biases
<1>5. /\ field.seat = [at \in Places |-> at] /\ field.replaced = [at \in Places |-> FALSE]
      /\ field.keys = [at \in Places |-> Fresh(frac[at])]
      /\ field.rounds = rounds /\ field.room = room /\ field.down = {}
      /\ field.pending = [at \in Places |-> TRUE]
  BY <1>1
<1>6. field.speed \in [Mons -> Int] /\ field.priority \in [Mons -> Int]
  BY <1>1, <1>2
<1>7. /\ field.keys \in [Places -> Granted] /\ field.seat \in [Places -> Mons]
      /\ field.replaced \in [Places -> BOOLEAN] /\ field.pending \in [Places -> BOOLEAN]
  BY <1>3, <1>4, <1>5
<1>8. field \in Fields
  <2>1. field = [seat |-> field.seat, speed |-> field.speed, priority |-> field.priority,
                 rounds |-> field.rounds, room |-> field.room, down |-> field.down,
                 replaced |-> field.replaced, pending |-> field.pending, keys |-> field.keys]
    BY <1>1
  <2>2. field.rounds \in SUBSET Starters /\ field.room \in BOOLEAN /\ field.down \in SUBSET Mons
    BY <1>2, <1>5
  <2> QED BY <1>6, <1>7, <2>1, <2>2 DEF Fields
<1>9. granted \in [Mons -> Granted]
  BY <1>1, <1>4
<1>10. TypeInv
  BY <1>8, <1>9 DEF Init, TypeInv
<1>11. \A at \in Places : /\ field.seat[at] = at /\ ~field.replaced[at]
                          /\ field.keys[at].bias = 0 /\ granted[at] = field.keys[at]
  BY <1>1, <1>3, <1>4, <1>5
<1> QED BY <1>10, <1>11 DEF Init, QueueInv, BuildInv

LEMMA BuildStep ==
    ASSUME TypeInv, QueueInv, Build
    PROVE  TypeInv' /\ QueueInv'
<1>0. BuildInv /\ pc' = "loop" /\ field \in Fields
  BY DEF Build, QueueInv, TypeInv
<1>u. UNCHANGED <<keyed, field, events, granted, called, acted>>
  BY DEF Build
<1>q. PICK q : q = [i \in DOMAIN InChoiceOrder |-> [at |-> InChoiceOrder[i], mon |-> InChoiceOrder[i]]]
  OBVIOUS
<1>1. PICK s \in SpeedSorts(StableSort(Tagged(field, q))) : queue' = Untagged(s.t)
  BY <1>q DEF Build
<1>2. /\ q \in Seq(Entries) /\ NoDup(q)
      /\ Range(q) = {[at |-> p, mon |-> p] : p \in Places}
  <2>1. DOMAIN InChoiceOrder = 1 .. 4
    BY DEF InChoiceOrder
  <2>2. /\ InChoiceOrder[1] = <<"p1", 0>> /\ InChoiceOrder[2] = <<"p1", 1>>
        /\ InChoiceOrder[3] = <<"p2", 0>> /\ InChoiceOrder[4] = <<"p2", 1>>
    BY DEF InChoiceOrder
  <2>3. \A i \in 1 .. 4 : i = 1 \/ i = 2 \/ i = 3 \/ i = 4
    OBVIOUS
  <2>4. \A i \in 1 .. 4 : InChoiceOrder[i] \in Places
    BY <2>2, <2>3 DEF Places, Sides
  <2>5. \A i, j \in 1 .. 4 : InChoiceOrder[i] = InChoiceOrder[j] => i = j
    BY <2>2, <2>3
  <2>6. \A p \in Places : \E i \in 1 .. 4 : InChoiceOrder[i] = p
    BY <2>2 DEF Places, Sides
  <2>7. /\ q = [i \in 1 .. 4 |-> [at |-> InChoiceOrder[i], mon |-> InChoiceOrder[i]]]
        /\ \A i \in 1 .. 4 : q[i] = [at |-> InChoiceOrder[i], mon |-> InChoiceOrder[i]]
    BY <1>q, <2>1
  <2>8. q \in Seq(Entries) /\ DOMAIN q = 1 .. 4
    <3>1. Places = Starters
      BY DEF Places, Starters
    <3>2. q \in [1 .. 4 -> Entries]
      BY <2>4, <2>7, <3>1 DEF Entries
    <3>3. 4 \in Nat
      OBVIOUS
    <3> QED BY <3>2, <3>3, TailLen
  <2>9. NoDup(q)
    BY <2>5, <2>7, <2>8 DEF NoDup
  <2>10. Range(q) = {q[i] : i \in 1 .. 4}
    BY <2>8 DEF Range
  <2>11. Range(q) = {[at |-> p, mon |-> p] : p \in Places}
    BY <2>4, <2>6, <2>7, <2>10
  <2> QED BY <2>8, <2>9, <2>11
<1>3. Reordered(queue', q) /\ Ordered(field, queue')
  BY <1>0, <1>1, <1>2, Built
<1>X. PICK X : X = Range(queue')
  OBVIOUS
<1>4. X = {[at |-> p, mon |-> p] : p \in Places} /\ queue' \in Seq(Entries) /\ NoDup(queue')
  BY <1>2, <1>3, <1>X DEF Reordered
<1>5. \A x \in X : x.at \in Places /\ x.mon = x.at /\ x \in Entries /\ x = [at |-> x.at, mon |-> x.mon]
  <2>1. Places = Starters
    BY DEF Places, Starters
  <2> QED BY <1>4, <2>1 DEF Entries
<1>6. \A at \in Places : field.seat[at] = at /\ ~field.replaced[at] /\ field.keys[at].bias = 0 /\ granted[at] = field.keys[at]
  BY <1>0 DEF BuildInv
<1>s. \A at \in Places : \A k : at # <<k, 2>>
  BY DEF Places
<1>7. Core(field, X, {})
  <2>1. SeatsInv(field)
    BY <1>6, Allies DEF SeatsInv
  <2>2. BoundInv(field, X)
    <3>1. \A x, y \in X : x # y => x.at # y.at /\ x.mon # y.mon
      BY <1>5
    <3> QED BY <1>5, <1>6, <3>1 DEF BoundInv
  <2>3. StuckInv(field, X)
    BY <1>6, <1>s DEF StuckInv
  <2>4. DueInv(field, X, {})
    <3> SUFFICES ASSUME NEW at \in Places  PROVE \E x \in X : x.at = at /\ x.mon = field.seat[at]
      BY DEF DueInv
    <3>1. [at |-> at, mon |-> at] \in X
      BY <1>4
    <3>2. [at |-> at, mon |-> at].at = at /\ [at |-> at, mon |-> at].mon = at
      OBVIOUS
    <3> QED BY <1>6, <3>1, <3>2
  <2>5. DoneInv(field, X, {})
    BY DEF DoneInv
  <2> QED BY <1>5, <2>1, <2>2, <2>3, <2>4, <2>5 DEF Core
<1>8. OneHot(field, X)
  BY <1>5, <1>6 DEF OneHot, Hot
<1>9. GivenInv(field, granted)
  BY <1>6 DEF GivenInv
<1>10. acted = <<>> /\ called = {} /\ Range(acted) = {} /\ NoDup(acted)
  BY <1>0 DEF BuildInv, Range, NoDup
<1>11. LoopInv'
  BY <1>3, <1>4, <1>7, <1>8, <1>9, <1>10, <1>u, <1>X DEF LoopInv, CallsInv
<1>12. TypeInv'
  BY <1>0, <1>4, <1>u DEF TypeInv
<1> QED BY <1>0, <1>11, <1>12 DEF QueueInv

\* Every state reached is typed, and the queue and the field agree (QueueInv),
\* for any Speeds, priorities, Quick Claws and number of events: the re-sort of
\* order.rs:659 and the edits of finalize_move_resolution (battle.rs:16808)
\* keep it.
THEOREM QueueInvariant == Spec => [](TypeInv /\ QueueInv)
<1>1. Init => TypeInv /\ QueueInv
  BY Starts
<1>2. TypeInv /\ QueueInv /\ [Next]_order => (TypeInv /\ QueueInv)'
  <2> SUFFICES ASSUME TypeInv, QueueInv, [Next]_order  PROVE TypeInv' /\ QueueInv'
    OBVIOUS
  <2>1. CASE UNCHANGED order
    BY <2>1 DEF order, TypeInv, QueueInv, BuildInv, LoopInv
  <2> QED BY <2>1, BuildStep, SkipStep, ActStep DEF Next
<1> QED BY <1>1, <1>2, PTL DEF Spec

\* Nobody acts twice in a turn, and a mon that was there at the start and still
\* is at the end has acted, whatever the sorts and the moves did to the queue
\* (battle.rs:3113 step_one, :5023 after_move_action).
THEOREM EachOnceHolds == Spec => []EachOnce
<1>1. TypeInv /\ QueueInv => EachOnce
  <2> SUFFICES ASSUME TypeInv, QueueInv  PROVE EachOnce
    OBVIOUS
  <2>1. CASE pc = "build"
    BY <2>1 DEF QueueInv, BuildInv, EachOnce
  <2>2. CASE pc = "loop"
    <3>1. \A i, j \in DOMAIN acted : i # j => acted[i] # acted[j]
      BY <2>2 DEF QueueInv, LoopInv, NoDup
    <3>2. \A i \in DOMAIN queue : queue[i].mon \notin Range(acted)
      <4>1. \A i \in DOMAIN queue : queue[i] \in Range(queue)
        BY DEF Range
      <4> QED BY <2>2, <4>1 DEF QueueInv, LoopInv, Core, DoneInv
    <3>3. ASSUME queue = <<>>, NEW at \in Places, field.seat[at] \in Starters, Alive(field, at)
          PROVE  field.seat[at] \in Range(acted)
      <4>1. Range(queue) = {}
        BY <3>3 DEF Range
      <4> QED BY <2>2, <3>3, <4>1 DEF QueueInv, LoopInv, Core, DueInv, Alive
    <3> QED BY <3>1, <3>2, <3>3 DEF EachOnce
  <2> QED BY <2>1, <2>2 DEF TypeInv
<1> QED BY <1>1, QueueInvariant, PTL

\* The first of the able, and the keys the rules give them.
LEMMA AbleInOrder ==
    ASSUME TypeInv, LoopInv, NEW i \in Able, NEW j \in Able, i < j
    PROVE  /\ ~Earlier(queue[j].mon, queue[i].mon)
           /\ queue[j].mon \notin called
<1>n. PICK n \in Nat : n = Len(queue) /\ DOMAIN queue = 1 .. n /\ \A k \in 1 .. n : queue[k] \in Entries
  BY DEF TypeInv
<1>0. i \in 1 .. n /\ j \in 1 .. n /\ queue[i] \in Entries /\ queue[j] \in Entries /\ field \in Fields
  BY <1>n DEF Able, TypeInv
<1>1. ASSUME NEW k \in Able
      PROVE  /\ field.seat[queue[k].at] = queue[k].mon /\ ~field.replaced[queue[k].at]
             /\ granted[queue[k].mon] = field.keys[queue[k].at]
             /\ KeyOf(field, queue[k]) = Key(field, queue[k].mon, granted[queue[k].mon])
  <2>1. field.seat[queue[k].at] = queue[k].mon /\ ~field.replaced[queue[k].at]
    BY DEF Able, Ran
  <2>2. queue[k].at \in Places /\ queue[k].mon \in Starters
    BY <1>n DEF Able, Entries
  <2>3. granted[queue[k].mon] = field.keys[queue[k].at]
    BY <2>1, <2>2 DEF LoopInv, GivenInv
  <2> QED BY <2>1, <2>3 DEF KeyOf
<1>2. ~Before(KeyOf(field, queue[j]), KeyOf(field, queue[i]))
  BY <1>0, <1>1, <1>n DEF LoopInv, Ordered
<1>3. ~Earlier(queue[j].mon, queue[i].mon)
  BY <1>1, <1>2 DEF Earlier
<1>4. ASSUME queue[j].mon \in called  PROVE FALSE
  <2>1. granted[queue[j].mon].bias = -1
    BY <1>4 DEF LoopInv, CallsInv
  <2>2. field.keys[queue[j].at].bias = -1 /\ Hot(field, queue[j])
    BY <1>1, <2>1 DEF Hot
  <2>3. KeyOf(field, queue[j])[1] = -1 /\ KeyOf(field, queue[i])[1] = field.keys[queue[i].at].bias
    BY <2>2 DEF KeyOf, Key
  <2>4. ~(KeyOf(field, queue[j])[1] < KeyOf(field, queue[i])[1])
    <3>1. KeyOf(field, queue[j]) \in Keys /\ KeyOf(field, queue[i]) \in Keys
      BY <1>0, KeysAre
    <3> QED BY <1>2, <3>1, Lexicographic
  <2>5. field.keys[queue[i].at].bias \in Biases
    BY <1>0 DEF Fields, Granted, Entries
  <2>6. field.keys[queue[i].at].bias = -1
    <3>1. \A b \in Biases : ~(-1 < b) => b = -1
      BY DEF Biases
    <3> QED BY <2>3, <2>4, <2>5, <3>1
  <2>7. Hot(field, queue[i])
    BY <1>1, <2>6 DEF Hot
  <2>8. queue[i] \in Range(queue) /\ queue[j] \in Range(queue)
    BY <1>0, <1>n DEF Range
  <2>9. queue[i] = queue[j]
    BY <2>2, <2>7, <2>8 DEF LoopInv, OneHot
  <2>10. i = j
    BY <1>0, <1>n, <2>9 DEF LoopInv, NoDup
  <2> QED BY <1>0, <2>10
<1> QED BY <1>3, <1>4

\* Whoever acts next is ahead of all who wait by the keys of this moment, and
\* one whom After You or Round called is the next of those who can act: no
\* Speed, priority or room changed in the middle of the turn leaves the queue
\* behind (order.rs:659 resort_remaining, battle.rs:16808-16834).
THEOREM NextIsDueHolds == Spec => []NextIsDue
<1>1. TypeInv /\ QueueInv => NextIsDue
  <2> SUFFICES ASSUME TypeInv, QueueInv  PROVE NextIsDue
    OBVIOUS
  <2>0. Able \subseteq Nat
    BY DEF TypeInv, Able
  <2>1. CASE Able = {}
    BY <2>1 DEF NextIsDue, ActsInTurn, NamedIsNext
  <2>2. CASE Able # {}
    <3>1. LoopInv
      BY <2>2 DEF QueueInv, BuildInv, TypeInv, Able
    <3> DEFINE f == CHOOSE i \in Able : \A j \in Able : i <= j
    <3>2. f \in Able /\ \A j \in Able : f <= j
      <4>1. \E i \in Able : \A j \in Able : i <= j
        BY <2>0, <2>2, Least
      <4> QED BY <4>1
    <3>3. FirstAble = queue[f].mon
      BY DEF FirstAble
    <3> HIDE DEF f
    <3>4. ASSUME NEW i \in Able
          PROVE  /\ ~Earlier(queue[i].mon, queue[f].mon)
                 /\ queue[i].mon \in called => queue[i].mon = queue[f].mon
      <4>1. CASE i = f
        <5>1. PICK m \in Mons : m = queue[f].mon
          <6>1. f \in DOMAIN queue /\ queue \in Seq(Entries)
            BY <3>2 DEF Able, TypeInv
          <6>2. queue[f] \in Entries
            BY <6>1
          <6>3. Starters \subseteq Mons
            BY DEF Starters, Places, Mons
          <6> QED BY <6>2, <6>3 DEF Entries
        <5>2. Key(field, m, granted[m]) \in Keys
          <6>1. granted[m] \in Granted /\ field.priority[m] \in Int /\ field.speed[m] \in Int
            BY DEF TypeInv, Fields
          <6>2. granted[m].bias \in Int /\ granted[m].frac \in Int
            BY <6>1 DEF Granted, Biases
          <6> QED BY <6>1, <6>2 DEF Key, Keys
        <5> QED BY <4>1, <5>1, <5>2, KeysOrder DEF Earlier
      <4>2. CASE i # f
        <5>1. f < i
          BY <2>0, <3>2, <4>2
        <5> QED BY <3>1, <3>2, <5>1, AbleInOrder
      <4> QED BY <4>1, <4>2
    <3> QED BY <3>3, <3>4 DEF NextIsDue, ActsInTurn, NamedIsNext
  <2> QED BY <2>1, <2>2
<1> QED BY <1>1, QueueInvariant, PTL

\* TiesAreFair of the tail t, on its places D.
FairSort(t, D) ==
    LET orders == {h \in [D -> D] : \A i, j \in D : h[i] = h[j] => i = j}
        sorted == {h \in orders : \A i, j \in D : i < j => ~Before(t[h[j]].k, t[h[i]].k)}
    IN  /\ {s.t : s \in SpeedSorts(t)} = {[i \in D |-> t[h[i]]] : h \in sorted}
        /\ Cardinality(SpeedSorts(t)) = Cardinality(sorted)

LEMMA TailsAreFair ==
    ASSUME NEW f \in Fields, NEW q \in Seq(Entries), NoDup(q)
    PROVE  FairSort(Tagged(f, q), DOMAIN Tagged(f, q))
<1>t. PICK t : t = Tagged(f, q)
  OBVIOUS
<1>n. PICK n \in Nat : n = Len(q)
  OBVIOUS
<1>1. t \in [1 .. n -> Tags] /\ Keyed(Tags) /\ \A i \in 1 .. n : t[i].e = q[i]
  BY <1>t, <1>n, TaggedTail
<1>2. Distinct(t, n)
  <2>1. \A i, j \in 1 .. n : q[i] = q[j] => i = j
    BY <1>n DEF NoDup
  <2> QED BY <1>1, <2>1 DEF Distinct
<1>3. /\ {s.t : s \in SpeedSorts(t)} = {InOrder(t, n, h) : h \in Sortings(t, n)}
      /\ Cardinality(SpeedSorts(t)) = Cardinality(Sortings(t, n))
  BY <1>1, <1>2, SortsAreFair
<1>4. DOMAIN t = 1 .. n
  BY <1>1
<1> DEFINE orders == {h \in [1 .. n -> 1 .. n] : \A i, j \in 1 .. n : h[i] = h[j] => i = j}
           sorted == {h \in orders : \A i, j \in 1 .. n : i < j => ~Before(t[h[j]].k, t[h[i]].k)}
<1>5. sorted = Sortings(t, n)
  BY DEF Sortings
<1>6. {[i \in 1 .. n |-> t[h[i]]] : h \in sorted} = {InOrder(t, n, h) : h \in Sortings(t, n)}
  BY <1>5 DEF InOrder
<1>7. FairSort(t, 1 .. n)
  BY <1>3, <1>5, <1>6 DEF FairSort
<1> QED BY <1>4, <1>7, <1>t

\* Whatever order the tail is in, the swaps and shuffles of order.rs
\* ps_speed_sort reach each order the rules allow by exactly one sequence of
\* draws, so that none is likelier than another: for every number of actions
\* that tie and any keys.
THEOREM TiesAreFairHolds == Spec => []TiesAreFair
<1>1. TypeInv /\ QueueInv => TiesAreFair
  <2> SUFFICES ASSUME TypeInv, QueueInv  PROVE TiesAreFair
    OBVIOUS
  <2>1. queue \in Seq(Entries) /\ field \in Fields
    BY DEF TypeInv
  <2>2. NoDup(queue)
    <3>1. CASE pc = "build"
      BY <3>1 DEF QueueInv, BuildInv, NoDup
    <3>2. CASE pc = "loop"
      BY <3>2 DEF QueueInv, LoopInv
    <3> QED BY <3>1, <3>2 DEF TypeInv
  <2>n. PICK n \in Nat : n = Len(queue)
    BY <2>1
  <2>3. Reverse(queue) \in Seq(Entries) /\ NoDup(Reverse(queue))
    <3>1. Reverse(queue) = [i \in 1 .. n |-> queue[(n - i) + 1]]
      BY <2>n DEF Reverse
    <3>2. \A i \in 1 .. n : (n - i) + 1 \in 1 .. n /\ queue[(n - i) + 1] \in Entries
      BY <2>1, <2>n
    <3>3. Reverse(queue) \in [1 .. n -> Entries]
      BY <3>1, <3>2
    <3>4. \A i, j \in 1 .. n : Reverse(queue)[i] = Reverse(queue)[j] => i = j
      <4> SUFFICES ASSUME NEW i \in 1 .. n, NEW j \in 1 .. n, queue[(n - i) + 1] = queue[(n - j) + 1]
                   PROVE  i = j
        BY <3>1
      <4>1. PICK a \in 1 .. n : a = (n - i) + 1
        BY <3>2
      <4>2. PICK b \in 1 .. n : b = (n - j) + 1
        BY <3>2
      <4>3. DOMAIN queue = 1 .. n
        BY <2>1, <2>n
      <4>4. a = b
        BY <2>2, <4>1, <4>2, <4>3 DEF NoDup
      <4> QED BY <4>1, <4>2, <4>4
    <3> QED BY <3>3, <3>4, TailLen DEF NoDup
  <2>4. \A q \in {queue, Reverse(queue)} : FairSort(Tagged(field, q), DOMAIN Tagged(field, q))
    BY <2>1, <2>2, <2>3, TailsAreFair
  <2> QED BY <2>4 DEF TiesAreFair, FairSort
<1> QED BY <1>1, QueueInvariant, PTL
=============================================================================
