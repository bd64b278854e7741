------------------------ MODULE EndgameSolver_proofs ------------------------
(***************************************************************************)
(* The safety of the recursive solver, for every game tree, depth, budget  *)
(* and table an earlier request left.  The invariant carries, beside what  *)
(* the properties say of the table and of the answers, the same facts of   *)
(* every open node: what its worth rests on so far is accounted for by the *)
(* counters, and no part of it is shallower than its depth allows.         *)
(***************************************************************************)
EXTENDS EndgameSolver, SequenceTheorems, TLAPS

USE SolverAssumption

LeafKinds == {"Terminal", "DepthLimit"} \cup Cuts
Worth == [plies : 0..Forever, leaves : SUBSET LeafKinds]
Node == [worth : Worth, depth : 0..MaxDepth,
         prov : {"Terminal", "Exact", "DepthLimit", "NodeLimit", "Aborted"}]
Frame == [pos : Position \ Terminal, depth : 1..MaxDepth,
          cells : SUBSET (SUBSET Position \ {{}}), kids : SUBSET Position,
          worth : Worth, est : BOOLEAN]
Cause == {"None", "Deadline", "ReplayBudget"}
Stats == [stop : Cause, visited : Nat, limitHits : Nat, cutoffs : Nat]

\* Only a depth-limited leaf bounds the plies searched.
WorthOK(w) == w \in Worth /\ ("DepthLimit" \notin w.leaves => w.plies = Forever)

Deep(w, d) == w.leaves \cap Cuts = {} => w.plies >= d

NodeOK(n) ==
    /\ n \in Node /\ WorthOK(n.worth) /\ n.worth.leaves # {}
    /\ Solved(n) => n.worth.leaves = {"Terminal"}
    /\ Deep(n.worth, n.depth)

\* Every cut a worth rests on left a trace in the counters, if the table did
\* not bring it in.
Covers(w, late, cl, s) ==
    /\ "Aborted" \in w.leaves => late
    /\ cl /\ "ChanceLimit" \in w.leaves => s.cutoffs > 0
    /\ cl /\ "NodeLimit" \in w.leaves => s.limitHits > 0

FrameOK(f, late, cl, s) ==
    /\ WorthOK(f.worth) /\ Deep(f.worth, f.depth)
    /\ ~f.est => f.worth.leaves \subseteq {"Terminal", "Aborted"}
    /\ Covers(f.worth, late, cl, s)
    /\ f.cells \subseteq Moves[f.pos]

\* A node may come back to an open node of depth d + 1, or to the caller of
\* an iteration of depth d.
Returns(n, d, late, cl, s) ==
    NodeOK(n) /\ Deep(n.worth, d) /\ Covers(n.worth, late, cl, s)

StackOK(fs, it, late, cl, s) ==
    /\ fs \in Seq(Frame)
    /\ \A i \in 1..Len(fs) : fs[i].depth = it - i + 1 /\ FrameOK(fs[i], late, cl, s)

CallOK(fs, c, it, cl, s) ==
    \/ c = Idle /\ fs = <<>>
    \/ c = AtStart /\ fs = <<>>
    \/ /\ c = AtOracle /\ fs # <<>>
       /\ LET top == fs[Len(fs)] IN
            top.kids = {} /\ top.cells # Moves[top.pos] => top.worth.leaves # {}
    \/ \E n \in Node : c = AtRoot(n) /\ fs = <<>> /\ Returns(n, it, s.stop # "None", cl, s)

TableOK(t, running, late, cl, s) ==
    \A p \in DOMAIN t :
        /\ NodeOK(t[p]) /\ "Aborted" \notin t[p].worth.leaves
        /\ running => Covers(t[p].worth, late, cl, s)

BestOK ==
    /\ NodeOK(best.node) /\ best.depth \in 0..MaxDepth /\ Deep(best.node.worth, best.depth)
    /\ best.depth > 0 => "Aborted" \notin best.node.worth.leaves

AnswerOK ==
    /\ NodeOK(answer.node) /\ answer.depth \in 0..MaxDepth
    /\ Deep(answer.node.worth, answer.depth)
    /\ solves > 0 /\ call = Idle => "Aborted" \notin answer.node.worth.leaves
    /\ TruncationTold

Typed ==
    /\ request \in Limit /\ iteration \in 0..MaxDepth /\ solves \in Nat /\ nodes \in Nat
    /\ stats \in Stats /\ tripped \in Cause /\ clean \in BOOLEAN
    /\ call # Idle /\ ~request.anytime => iteration = request.depth

SolverInv ==
    /\ Typed
    /\ StackOK(frames, iteration, Late, clean, stats)
    /\ CallOK(frames, call, iteration, clean, stats)
    /\ TableOK(tt, call # Idle, Late, clean, stats)
    /\ BestOK /\ AnswerOK

-----------------------------------------------------------------------------
(* Worths. *)

\* The worth over one more outcome.
LEMMA OverOK ==
    ASSUME NEW v, WorthOK(v), NEW w, WorthOK(w)
    PROVE  /\ WorthOK(Over(v, w))
           /\ Over(v, w).leaves = v.leaves \cup w.leaves
           /\ \A d \in 1..MaxDepth :
                Deep(v, d) /\ Deep(w, d - 1) => Deep(Over(v, w), d)
<1> DEFINE plies == IF w.plies < MaxDepth THEN w.plies + 1 ELSE w.plies
           o == Over(v, w)
<1>1. v.plies \in 0..Forever /\ w.plies \in 0..Forever
      /\ v.leaves \subseteq LeafKinds /\ w.leaves \subseteq LeafKinds
  BY DEF WorthOK, Worth
<1>2. o = [plies |-> IF plies < v.plies THEN plies ELSE v.plies,
           leaves |-> v.leaves \cup w.leaves]
  BY DEF Over
<1>3. plies \in 0..Forever /\ (w.plies = Forever => plies = Forever)
  BY <1>1 DEF Forever
<1>4. o \in Worth /\ o.leaves = v.leaves \cup w.leaves
  BY <1>1, <1>2, <1>3 DEF Worth
<1>5. "DepthLimit" \notin o.leaves => o.plies = Forever
  <2>1. o.plies = IF plies < v.plies THEN plies ELSE v.plies
    BY <1>2
  <2>2. SUFFICES ASSUME "DepthLimit" \notin o.leaves PROVE o.plies = Forever
    OBVIOUS
  <2>3. v.plies = Forever /\ w.plies = Forever
    BY <1>4, <2>2 DEF WorthOK
  <2> QED
    BY <1>3, <2>1, <2>3
<1>6. ASSUME NEW d \in 1..MaxDepth, Deep(v, d), Deep(w, d - 1), o.leaves \cap Cuts = {}
      PROVE  o.plies >= d
  <2>1. v.plies >= d /\ w.plies >= d - 1
    BY <1>4, <1>6 DEF Deep
  <2>2. plies >= d
    BY <1>1, <2>1
  <2> QED
    BY <1>2, <2>1, <2>2
<1> QED
  BY <1>4, <1>5, <1>6 DEF Deep, WorthOK

\* The leaves the solver makes of its own.
LEMMA LeafOK ==
    ASSUME NEW k \in LeafKinds
    PROVE  /\ WorthOK(Leaf(k)) /\ Leaf(k).leaves = {k}
           /\ k # "DepthLimit" => \A d \in 0..MaxDepth : Deep(Leaf(k), d)
  BY DEF Leaf, WorthOK, Worth, Forever, Deep

LEMMA LeafNodeOK ==
    ASSUME NEW k \in LeafKinds, NEW d \in 0..MaxDepth, NEW prov,
           \/ prov \in {"DepthLimit", "NodeLimit", "Aborted"}
           \/ prov = "Terminal" /\ k = "Terminal",
           k = "DepthLimit" => d = 0
    PROVE  /\ NodeOK(LeafNode(k, prov, d)) /\ LeafNode(k, prov, d).worth = Leaf(k)
           /\ Deep(LeafNode(k, prov, d).worth, d)
<1> DEFINE n == LeafNode(k, prov, d)
<1>1. n = [worth |-> Leaf(k), prov |-> prov, depth |-> d]
  BY DEF LeafNode
<1>2. WorthOK(n.worth) /\ n.worth = Leaf(k) /\ n.worth.leaves = {k}
  BY <1>1, LeafOK
<1>3. n \in Node
  BY <1>1, <1>2 DEF Node, WorthOK
<1>4. Solved(n) => n.worth.leaves = {"Terminal"}
  BY <1>1, <1>2 DEF Solved
<1>5. Deep(n.worth, d)
  <2>1. CASE k = "DepthLimit"
    BY <2>1, <1>2 DEF Deep, WorthOK, Worth
  <2>2. CASE k # "DepthLimit"
    BY <2>2, <1>2, LeafOK
  <2> QED
    BY <2>1, <2>2
<1> QED
  BY <1>1, <1>2, <1>3, <1>4, <1>5 DEF NodeOK

-----------------------------------------------------------------------------
(* Time only adds: cuts stay accounted for. *)

Later(late1, s1, late2, s2) ==
    /\ late1 => late2
    /\ s1.cutoffs > 0 => s2.cutoffs > 0
    /\ s1.limitHits > 0 => s2.limitHits > 0

LEMMA CoversLater ==
    ASSUME NEW l1, NEW s1, NEW l2, NEW s2, Later(l1, s1, l2, s2), NEW cl, NEW w,
           Covers(w, l1, cl, s1)
    PROVE  Covers(w, l2, cl, s2)
  BY DEF Later, Covers

LEMMA StackLater ==
    ASSUME NEW l1, NEW s1, NEW l2, NEW s2, Later(l1, s1, l2, s2), NEW cl, NEW fs, NEW it,
           StackOK(fs, it, l1, cl, s1)
    PROVE  StackOK(fs, it, l2, cl, s2)
  BY CoversLater DEF StackOK, FrameOK

LEMMA TableLater ==
    ASSUME NEW l1, NEW s1, NEW l2, NEW s2, Later(l1, s1, l2, s2), NEW cl, NEW t,
           TableOK(t, TRUE, l1, cl, s1)
    PROVE  TableOK(t, TRUE, l2, cl, s2)
  BY CoversLater DEF TableOK

-----------------------------------------------------------------------------
(* The open nodes. *)

\* A function on 1 .. n is a sequence of length n.
LEMMA FramesOfFcn ==
    ASSUME NEW n \in Nat, NEW f \in [1..n -> Frame]
    PROVE  f \in Seq(Frame) /\ Len(f) = n
<1>1. f \in Seq(Frame)
  BY SeqDef
<1>2. DOMAIN f = 1..Len(f) /\ Len(f) \in Nat
  BY <1>1, LenProperties
<1> QED
  BY <1>1, <1>2

\* An open node takes in the worth of one more outcome, or of a cell cut short.
Taken(f, w, est) == [f EXCEPT !.worth = Over(@, w), !.est = @ \/ est]

LEMMA TakenOK ==
    ASSUME NEW late, NEW cl, NEW s, NEW f \in Frame, FrameOK(f, late, cl, s),
           NEW w, WorthOK(w), Deep(w, f.depth - 1), Covers(w, late, cl, s),
           NEW est \in BOOLEAN, ~est => w.leaves \subseteq {"Terminal", "Aborted"}
    PROVE  LET t == Taken(f, w, est) IN
           /\ t \in Frame /\ FrameOK(t, late, cl, s)
           /\ t.pos = f.pos /\ t.depth = f.depth /\ t.cells = f.cells /\ t.kids = f.kids
           /\ t.worth.leaves = f.worth.leaves \cup w.leaves
<1> DEFINE t == Taken(f, w, est)
           o == Over(f.worth, w)
<1>1. /\ WorthOK(o) /\ o.leaves = f.worth.leaves \cup w.leaves
      /\ Deep(o, f.depth)
  <2>1. f.depth \in 1..MaxDepth /\ WorthOK(f.worth) /\ Deep(f.worth, f.depth)
    BY DEF Frame, FrameOK
  <2> QED
    BY <2>1, OverOK
<1>2. o \in Worth /\ (f.est \/ est) \in BOOLEAN
  BY <1>1 DEF WorthOK, Frame
<1> HIDE DEF o
<1>3. t = [f EXCEPT !.worth = o, !.est = f.est \/ est]
  BY DEF Taken, Frame, o
<1>4. /\ t \in Frame /\ t.worth = o /\ t.est = (f.est \/ est)
      /\ t.pos = f.pos /\ t.depth = f.depth /\ t.cells = f.cells /\ t.kids = f.kids
  BY <1>2, <1>3 DEF Frame
<1> HIDE DEF t
<1>5. FrameOK(t, late, cl, s)
  <2>1. Covers(o, late, cl, s)
    BY <1>1 DEF FrameOK, Covers
  <2>2. ~t.est => o.leaves \subseteq {"Terminal", "Aborted"}
    BY <1>1, <1>4 DEF FrameOK
  <2> QED
    BY <1>1, <1>4, <2>1, <2>2 DEF FrameOK
<1> QED
  BY <1>1, <1>4, <1>5 DEF t

LEMMA SettledOK ==
    ASSUME NEW fs \in Seq(Frame), fs # <<>>, NEW top \in Frame
    PROVE  /\ Settled(fs, top) \in Seq(Frame) /\ Settled(fs, top) # <<>>
           /\ Len(fs) \in Nat \ {0} /\ Len(Settled(fs, top)) = Len(fs)
           /\ \A i \in 1..Len(fs) :
                Settled(fs, top)[i] = IF i = Len(fs) THEN top ELSE fs[i]
<1>1. Len(fs) \in Nat \ {0} /\ DOMAIN fs = 1..Len(fs) /\ fs \in [1..Len(fs) -> Frame]
  BY EmptySeq, LenProperties
<1>2. Settled(fs, top) \in [1..Len(fs) -> Frame]
      /\ \A i \in 1..Len(fs) : Settled(fs, top)[i] = IF i = Len(fs) THEN top ELSE fs[i]
  BY <1>1 DEF Settled
<1>3. Settled(fs, top) \in Seq(Frame) /\ Len(Settled(fs, top)) = Len(fs)
  BY <1>1, <1>2, FramesOfFcn
<1>5. Settled(fs, top) # <<>>
  BY <1>1, <1>3, EmptySeq
<1> QED
  BY <1>1, <1>2, <1>3, <1>5

\* The last open node may change, its depth may not.
LEMMA SettledStack ==
    ASSUME NEW late, NEW cl, NEW s, NEW it, NEW fs, StackOK(fs, it, late, cl, s), fs # <<>>,
           NEW top \in Frame, FrameOK(top, late, cl, s), top.depth = fs[Len(fs)].depth
    PROVE  StackOK(Settled(fs, top), it, late, cl, s)
<1>1. /\ Settled(fs, top) \in Seq(Frame) /\ Len(Settled(fs, top)) = Len(fs)
      /\ \A i \in 1..Len(fs) : Settled(fs, top)[i] = IF i = Len(fs) THEN top ELSE fs[i]
  BY SettledOK DEF StackOK
<1> QED
  BY <1>1 DEF StackOK

\* The last open node of a search.
LEMMA TopOK ==
    ASSUME NEW late, NEW cl, NEW s, NEW it \in 0..MaxDepth, NEW fs,
           StackOK(fs, it, late, cl, s), fs # <<>>
    PROVE  /\ fs[Len(fs)] \in Frame /\ FrameOK(fs[Len(fs)], late, cl, s)
           /\ Len(fs) \in 1..it /\ fs[Len(fs)].depth = it - Len(fs) + 1
<1>1. Len(fs) \in Nat \ {0}
  BY EmptySeq, LenProperties DEF StackOK
<1>2. fs[Len(fs)] \in Frame /\ Len(fs) \in 1..Len(fs)
  BY <1>1, ElementOfSeq DEF StackOK
<1>3. fs[Len(fs)].depth = it - Len(fs) + 1 /\ FrameOK(fs[Len(fs)], late, cl, s)
  BY <1>2 DEF StackOK
<1>4. fs[Len(fs)].depth \in 1..MaxDepth
  BY <1>2 DEF Frame
<1> QED
  BY <1>1, <1>2, <1>3, <1>4

LEMMA OuterOK ==
    ASSUME NEW late, NEW cl, NEW s, NEW it \in 0..MaxDepth,
           StackOK(frames, it, late, cl, s), frames # <<>>
    PROVE  StackOK(Outer, it, late, cl, s) /\ Len(Outer) = Len(frames) - 1
<1>1. Len(frames) \in Nat \ {0} /\ frames \in Seq(Frame)
  BY EmptySeq, LenProperties DEF StackOK
<1> DEFINE n == Len(frames) - 1
<1>2. n \in Nat /\ \A i \in 1..n : frames[i] \in Frame
  BY <1>1, ElementOfSeq
<1>3. Outer = SubSeq(frames, 1, n)
  BY DEF Outer
<1> HIDE DEF n
<1>4. /\ Outer \in Seq(Frame)
      /\ Len(Outer) = IF 1 <= n THEN n - 1 + 1 ELSE 0
      /\ \A i \in 1..n - 1 + 1 : Outer[i] = frames[1 + i - 1]
  BY <1>2, <1>3, SubSeqProperties
<1>5. n - 1 + 1 = n /\ (1 <= n \/ n = 0) /\ \A i \in 1..n : 1 + i - 1 = i
  BY <1>2
<1>6. Outer \in Seq(Frame) /\ Len(Outer) = n /\ \A i \in 1..n : Outer[i] = frames[i]
  BY <1>4, <1>5
<1>7. n = Len(frames) - 1 /\ \A i \in 1..n : i \in 1..Len(frames)
  BY <1>1 DEF n
<1> QED
  BY <1>6, <1>7 DEF StackOK

\* A node goes to the open node above, or to the caller.
LEMMA GiveKeeps ==
    ASSUME NEW late, NEW cl, NEW s, NEW it \in 0..MaxDepth, NEW fs, NEW node,
           StackOK(fs, it, late, cl, s), Returns(node, it - Len(fs), late, cl, s),
           "Aborted" \in node.worth.leaves => s.stop # "None",
           Give(node, fs)
    PROVE  /\ StackOK(frames', it, late, cl, s) /\ CallOK(frames', call', it, cl, s)
           /\ Len(frames') = Len(fs) /\ call' # Idle
<1>1. CASE fs = <<>>
  <2>1. frames' = <<>> /\ call' = AtRoot(node) /\ Len(fs) = 0
    BY <1>1, EmptySeq DEF Give
  <2>2. Returns(node, it, s.stop # "None", cl, s) /\ node \in Node
    BY <2>1 DEF Returns, Covers, NodeOK
  <2>3. call' # Idle
    BY <2>1 DEF AtRoot, Idle
  <2> QED
    BY <1>1, <2>1, <2>2, <2>3 DEF CallOK
<1>2. CASE fs # <<>>
  <2> DEFINE top == fs[Len(fs)]
             est == ~Solved(node)
             t == Taken(top, node.worth, est)
  <2>1. /\ top \in Frame /\ FrameOK(top, late, cl, s)
        /\ Len(fs) \in 1..it /\ top.depth = it - Len(fs) + 1
    BY <1>2, TopOK
  <2>2. /\ WorthOK(node.worth) /\ Deep(node.worth, top.depth - 1)
        /\ Covers(node.worth, late, cl, s) /\ node.worth.leaves # {}
        /\ Solved(node) => node.worth.leaves = {"Terminal"}
    <3>1. top.depth - 1 = it - Len(fs)
      BY <2>1
    <3> QED
      BY <3>1 DEF Returns, NodeOK
  <2>3. est \in BOOLEAN /\ (~est => node.worth.leaves \subseteq {"Terminal", "Aborted"})
    BY <2>2 DEF Solved
  <2>4. /\ t \in Frame /\ FrameOK(t, late, cl, s) /\ t.depth = top.depth
        /\ t.worth.leaves = top.worth.leaves \cup node.worth.leaves
    <3> HIDE DEF est, top
    <3> QED
      BY <2>1, <2>2, <2>3, TakenOK
  <2>5. frames' = Settled(fs, t) /\ call' = AtOracle
    BY <1>2 DEF Give, Taken
  <2> HIDE DEF t, top, est
  <2>6. StackOK(frames', it, late, cl, s)
    BY <1>2, <2>4, <2>5, SettledStack DEF top
  <2>7. /\ frames' # <<>> /\ Len(frames') = Len(fs) /\ frames'[Len(frames')] = t
    <3>1. fs \in Seq(Frame) /\ Len(fs) \in 1..Len(fs)
      BY <2>1 DEF StackOK
    <3>2. /\ Settled(fs, t) # <<>> /\ Len(Settled(fs, t)) = Len(fs)
          /\ Settled(fs, t)[Len(fs)] = t
      BY <1>2, <2>4, <3>1, SettledOK
    <3> QED
      BY <2>5, <3>2
  <2>8. t.worth.leaves # {}
    BY <2>2, <2>4
  <2>9. call' # Idle
    BY <2>5 DEF AtOracle, Idle
  <2> QED
    BY <2>5, <2>6, <2>7, <2>8, <2>9 DEF CallOK
<1> QED
  BY <1>1, <1>2

-----------------------------------------------------------------------------
(* Steps. *)

\* What call says of the open nodes.
LEMMA CallCases ==
    ASSUME NEW fs, NEW c, NEW it, NEW cl, NEW s, CallOK(fs, c, it, cl, s)
    PROVE  /\ c = Idle => fs = <<>>
           /\ c = AtStart => fs = <<>>
           /\ c = AtOracle =>
                /\ fs # <<>>
                /\ LET top == fs[Len(fs)] IN
                    top.kids = {} /\ top.cells # Moves[top.pos] => top.worth.leaves # {}
           /\ c.at = "root" =>
                \E n \in Node : c = AtRoot(n) /\ fs = <<>> /\ Returns(n, it, s.stop # "None", cl, s)
  BY DEF CallOK, Idle, AtStart, AtOracle, AtRoot

\* A check of the budgets.
LEMMA CheckedOK ==
    ASSUME NEW s \in Stats, tripped \in Cause
    PROVE  /\ Checked(s) \in Stats
           /\ Checked(s).cutoffs = s.cutoffs /\ Checked(s).limitHits = s.limitHits
           /\ Checked(s).stop # "None" <=> s.stop # "None" \/ tripped # "None"
  BY DEF Checked, Stats

\* An answer is judged when it is given, and stays what it was.
LEMMA AnswerKept ==
    ASSUME AnswerOK, BestOK, UNCHANGED <<answer, best>>, call' # Idle
    PROVE  AnswerOK' /\ BestOK'
  BY DEF AnswerOK, BestOK, TruncationTold

\* What a solve may hand back besides a node it searched.
LEMMA LeavesReturn ==
    ASSUME NEW late, NEW cl, NEW s \in Stats, NEW d \in 0..MaxDepth
    PROVE  /\ late => Returns(LeafNode("Aborted", "Aborted", d), d, late, cl, s)
           /\ Returns(LeafNode("Terminal", "Terminal", d), d, late, cl, s)
           /\ d = 0 => Returns(LeafNode("DepthLimit", "DepthLimit", d), d, late, cl, s)
           /\ s.limitHits > 0 => Returns(LeafNode("NodeLimit", "NodeLimit", d), d, late, cl, s)
           /\ Returns(LeafNode("Failed", "NodeLimit", d), d, late, cl, s)
           /\ \A k \in LeafKinds : \A prov : LeafNode(k, prov, d).worth.leaves = {k}
<1>1. \A k \in LeafKinds : \A prov : LeafNode(k, prov, d).worth.leaves = {k}
  BY DEF LeafNode, Leaf
<1>2. {"Terminal", "DepthLimit", "NodeLimit", "Failed", "Aborted"} \subseteq LeafKinds
  BY DEF LeafKinds, Cuts
<1>3. /\ NodeOK(LeafNode("Aborted", "Aborted", d))
      /\ Deep(LeafNode("Aborted", "Aborted", d).worth, d)
      /\ NodeOK(LeafNode("Terminal", "Terminal", d))
      /\ Deep(LeafNode("Terminal", "Terminal", d).worth, d)
      /\ NodeOK(LeafNode("NodeLimit", "NodeLimit", d))
      /\ Deep(LeafNode("NodeLimit", "NodeLimit", d).worth, d)
      /\ NodeOK(LeafNode("Failed", "NodeLimit", d))
      /\ Deep(LeafNode("Failed", "NodeLimit", d).worth, d)
      /\ d = 0 => /\ NodeOK(LeafNode("DepthLimit", "DepthLimit", d))
                  /\ Deep(LeafNode("DepthLimit", "DepthLimit", d).worth, d)
  BY <1>2, LeafNodeOK
<1> QED
  BY <1>1, <1>2, <1>3 DEF Returns, Covers

\* solve, from any open node or from its caller.
LEMMA SolveKeeps ==
    ASSUME Typed, TableOK(tt, TRUE, Late, clean, stats),
           NEW fs, StackOK(fs, iteration, Late, clean, stats),
           NEW p \in Position, NEW d \in 0..MaxDepth, d = iteration - Len(fs),
           Solve(p, d, fs), UNCHANGED <<tt, tripped, request, iteration, clean>>
    PROVE  /\ StackOK(frames', iteration, Late', clean, stats')
           /\ CallOK(frames', call', iteration, clean, stats')
           /\ TableOK(tt, TRUE, Late', clean, stats')
           /\ nodes' \in Nat /\ stats' \in Stats /\ call' # Idle
           /\ Late => Len(frames') = Len(fs)
<1> DEFINE why == Verdict(p, d)
           counted == [stats EXCEPT !.visited = @ + 1,
                           !.limitHits = @ + IF why = "budget" THEN 1 ELSE 0]
<1>1. nodes' \in Nat /\ stats' = Checked(counted)
  BY DEF Solve, Typed
<1>2. /\ counted \in Stats /\ counted.cutoffs = stats.cutoffs /\ counted.stop = stats.stop
      /\ counted.limitHits >= stats.limitHits
      /\ why = "budget" => counted.limitHits > 0
  <2> DEFINE more == IF why = "budget" THEN 1 ELSE 0
  <2>1. more \in Nat /\ (why = "budget" => more > 0)
    OBVIOUS
  <2>2. counted = [stats EXCEPT !.visited = stats.visited + 1,
                                !.limitHits = stats.limitHits + more]
    BY DEF Typed, Stats
  <2> HIDE DEF more, why, counted
  <2>3. stats \in Stats /\ stats.visited + 1 \in Nat /\ stats.limitHits + more \in Nat
    BY <2>1 DEF Typed, Stats
  <2>4. /\ counted \in Stats /\ counted.cutoffs = stats.cutoffs /\ counted.stop = stats.stop
        /\ counted.limitHits = stats.limitHits + more
    BY <2>2, <2>3 DEF Stats
  <2>5. stats.limitHits \in Nat
    BY <2>3 DEF Stats
  <2> QED
    BY <2>1, <2>4, <2>5
<1> HIDE DEF counted
<1>3. /\ stats' \in Stats /\ (Late' <=> Late) /\ (Late <=> stats'.stop # "None")
      /\ stats'.cutoffs = stats.cutoffs /\ stats'.limitHits >= stats.limitHits
      /\ why = "budget" => stats'.limitHits > 0
  BY <1>1, <1>2, CheckedOK DEF Typed, Late
<1>4. Later(Late, stats, Late', stats')
  BY <1>3 DEF Later, Typed, Stats
<1>5. StackOK(fs, iteration, Late', clean, stats') /\ TableOK(tt, TRUE, Late', clean, stats')
  BY <1>4, StackLater, TableLater
<1>6. ASSUME NEW node, Give(node, fs), Returns(node, d, Late', clean, stats'),
             "Aborted" \in node.worth.leaves => stats'.stop # "None"
      PROVE  /\ StackOK(frames', iteration, Late', clean, stats')
             /\ CallOK(frames', call', iteration, clean, stats')
             /\ call' # Idle /\ Len(frames') = Len(fs)
  <2> DEFINE late == Late'
  <2>1. iteration \in 0..MaxDepth /\ Returns(node, iteration - Len(fs), late, clean, stats')
    BY <1>6 DEF Typed
  <2>2. StackOK(fs, iteration, late, clean, stats')
    BY <1>5
  <2> HIDE DEF late
  <2>3. /\ StackOK(frames', iteration, late, clean, stats')
        /\ CallOK(frames', call', iteration, clean, stats')
        /\ call' # Idle /\ Len(frames') = Len(fs)
    BY <1>6, <2>1, <2>2, GiveKeeps
  <2> QED
    BY <2>3 DEF late
<1>7. CASE why = "late" /\ Give(LeafNode("Aborted", "Aborted", d), fs)
  <2>1. Late
    BY <1>7 DEF Verdict
  <2> QED
    BY <2>1, <1>1, <1>3, <1>5, <1>6, <1>7, LeavesReturn
<1>8. CASE why = "terminal" /\ Give(LeafNode("Terminal", "Terminal", d), fs)
  <2>1. "Aborted" \notin LeafNode("Terminal", "Terminal", d).worth.leaves
    BY DEF LeafNode, Leaf
  <2> QED
    BY <2>1, <1>1, <1>3, <1>5, <1>6, <1>8, LeavesReturn
<1>9. CASE why = "depth" /\ Give(LeafNode("DepthLimit", "DepthLimit", d), fs)
  <2>1. "Aborted" \notin LeafNode("DepthLimit", "DepthLimit", d).worth.leaves
    BY DEF LeafNode, Leaf
  <2>2. d = 0
    BY <1>9 DEF Verdict
  <2> QED
    BY <2>1, <2>2, <1>1, <1>3, <1>5, <1>6, <1>9, LeavesReturn
<1>10. CASE why = "budget" /\ Give(LeafNode("NodeLimit", "NodeLimit", d), fs)
  <2>1. "Aborted" \notin LeafNode("NodeLimit", "NodeLimit", d).worth.leaves
    BY DEF LeafNode, Leaf
  <2> QED
    BY <2>1, <1>1, <1>3, <1>5, <1>6, <1>10, LeavesReturn
<1>11. CASE why = "hit" /\ Give(tt[p], fs)
  <2>1. p \in DOMAIN tt /\ (tt[p].depth >= d \/ tt[p].prov = "Exact")
    BY <1>11 DEF Verdict, Hit, Usable
  <2>2. /\ NodeOK(tt[p]) /\ "Aborted" \notin tt[p].worth.leaves
        /\ Covers(tt[p].worth, Late', clean, stats')
    BY <1>5, <2>1 DEF TableOK
  <2>3. Deep(tt[p].worth, d)
    <3>1. CASE tt[p].depth >= d
      BY <2>2, <3>1 DEF NodeOK, Deep, Node, Worth, Forever
    <3>2. CASE tt[p].prov = "Exact"
      <4>1. tt[p].worth.leaves = {"Terminal"}
        BY <2>2, <3>2 DEF NodeOK, Solved
      <4> QED
        BY <2>2, <4>1 DEF NodeOK, WorthOK, Deep, Forever
    <3> QED
      BY <2>1, <3>1, <3>2
  <2> QED
    BY <2>2, <2>3, <1>1, <1>3, <1>5, <1>6, <1>11 DEF Returns
<1>12. CASE why = "open" /\ call' = AtOracle
            /\ frames' = Append(fs, [pos |-> p, depth |-> d, cells |-> Moves[p],
                                     kids |-> {}, worth |-> Nothing, est |-> FALSE])
  <2> DEFINE new == [pos |-> p, depth |-> d, cells |-> Moves[p],
                     kids |-> {}, worth |-> Nothing, est |-> FALSE]
  <2>1. p \in Position \ Terminal /\ d \in 1..MaxDepth /\ ~Late
    BY <1>12 DEF Verdict
  <2>2. Moves[p] \in SUBSET (SUBSET Position \ {{}})
    BY <2>1
  <2>3. WorthOK(Nothing) /\ Nothing.leaves = {} /\ Nothing.plies = Forever
    BY DEF Nothing, WorthOK, Worth, Forever
  <2>4. new \in Frame
    BY <2>1, <2>2, <2>3 DEF Frame, WorthOK
  <2>5. FrameOK(new, Late', clean, stats')
    BY <2>1, <2>3 DEF FrameOK, Deep, Covers, Forever
  <2> HIDE DEF new
  <2>6. fs \in Seq(Frame) /\ Len(fs) \in Nat
    BY LenProperties DEF StackOK
  <2>7. /\ frames' \in Seq(Frame) /\ Len(frames') = Len(fs) + 1
        /\ \A i \in 1..Len(fs) : frames'[i] = fs[i]
        /\ frames'[Len(fs) + 1] = new
    BY <1>12, <2>4, <2>6, AppendProperties DEF new
  <2>8. new.depth = d /\ new.cells = Moves[new.pos]
    BY DEF new
  <2>9. iteration \in Nat
    BY DEF Typed
  <2>10. ASSUME NEW i \in 1..Len(frames')
         PROVE  frames'[i].depth = iteration - i + 1 /\ FrameOK(frames'[i], Late', clean, stats')
    <3>1. CASE i \in 1..Len(fs)
      BY <1>5, <2>7, <3>1 DEF StackOK
    <3>2. CASE i = Len(fs) + 1
      BY <2>5, <2>6, <2>7, <2>8, <2>9, <3>2
    <3> QED
      BY <2>6, <2>7, <3>1, <3>2
  <2>11. frames' # <<>>
    BY <2>6, <2>7, EmptySeq
  <2>12. CallOK(frames', call', iteration, clean, stats')
    BY <1>12, <2>7, <2>8, <2>11 DEF CallOK
  <2>13. call' # Idle
    BY <1>12 DEF AtOracle, Idle
  <2> QED
    BY <1>1, <1>3, <1>5, <2>1, <2>7, <2>10, <2>12, <2>13 DEF StackOK
<1> QED
  BY <1>7, <1>8, <1>9, <1>10, <1>11, <1>12 DEF Solve

-----------------------------------------------------------------------------
(* The invariant, one action after the other. *)

LEMMA SolveRootKeeps ==
    ASSUME SolverInv, SolveRoot
    PROVE  /\ SolverInv' /\ tt' = tt
           /\ Late => Len(frames') = Len(frames)
<1>1. /\ frames = <<>> /\ call # Idle
      /\ request.root \in Position /\ iteration \in 0..MaxDepth
  BY CallCases DEF SolverInv, SolveRoot, AtStart, Idle, Typed, Limit
<1>2. iteration = iteration - Len(frames)
  BY <1>1, EmptySeq
<1>3. /\ Typed /\ TableOK(tt, TRUE, Late, clean, stats)
      /\ StackOK(frames, iteration, Late, clean, stats)
  BY <1>1 DEF SolverInv
<1>4. /\ StackOK(frames', iteration, Late', clean, stats')
      /\ CallOK(frames', call', iteration, clean, stats')
      /\ TableOK(tt, TRUE, Late', clean, stats')
      /\ nodes' \in Nat /\ stats' \in Stats /\ call' # Idle
      /\ Late => Len(frames') = Len(frames)
  BY <1>1, <1>2, <1>3, SolveKeeps DEF SolveRoot
<1>5. UNCHANGED <<tt, tripped, request, iteration, best, answer, clean, solves>>
  BY DEF SolveRoot
<1>6. Typed'
  BY <1>1, <1>3, <1>4, <1>5 DEF Typed
<1>7. AnswerOK' /\ BestOK'
  BY <1>4, <1>5, AnswerKept DEF SolverInv
<1>8. TableOK(tt, call' # Idle, Late', clean, stats')
  BY <1>4 DEF TableOK
<1> QED
  BY <1>4, <1>5, <1>6, <1>7, <1>8 DEF SolverInv

\* A cell is asked: the last open node changes, and only it.
LEMMA CellKeeps ==
    ASSUME SolverInv, call = AtOracle, NEW t \in Frame, FrameOK(t, Late', clean, stats'),
           t.depth = Top.depth, t.kids = {} => t.worth.leaves # {},
           frames' = Settled(frames, t), stats' \in Stats, tripped' \in Cause,
           Later(Late, stats, Late', stats'),
           UNCHANGED <<tt, call, nodes, request, iteration, best, answer, clean, solves>>
    PROVE  SolverInv' /\ Len(frames') = Len(frames)
<1>1. frames # <<>> /\ call' # Idle /\ call # Idle /\ frames \in Seq(Frame)
  BY CallCases DEF SolverInv, AtOracle, Idle, StackOK
<1>2. StackOK(frames, iteration, Late', clean, stats') /\ TableOK(tt, TRUE, Late', clean, stats')
  BY <1>1, StackLater, TableLater DEF SolverInv
<1>3. StackOK(frames', iteration, Late', clean, stats')
  BY <1>1, <1>2, SettledStack DEF Top
<1>4. /\ frames' # <<>> /\ Len(frames') = Len(frames)
      /\ frames'[Len(frames')] = t
  <2>1. /\ Settled(frames, t) # <<>> /\ Len(Settled(frames, t)) = Len(frames)
        /\ Len(frames) \in Nat \ {0}
        /\ \A i \in 1..Len(frames) :
                Settled(frames, t)[i] = IF i = Len(frames) THEN t ELSE frames[i]
    BY <1>1, SettledOK
  <2> QED
    BY <2>1
<1>5. CallOK(frames', call', iteration, clean, stats')
  BY <1>4 DEF CallOK
<1>6. Typed'
  BY <1>1 DEF SolverInv, Typed
<1>7. AnswerOK' /\ BestOK'
  BY <1>1, AnswerKept DEF SolverInv
<1>8. TableOK(tt, call' # Idle, Late', clean, stats')
  BY <1>2 DEF TableOK
<1> QED
  BY <1>3, <1>4, <1>5, <1>6, <1>7, <1>8 DEF SolverInv

LEMMA PayoffKeeps ==
    ASSUME SolverInv, Payoff
    PROVE  SolverInv' /\ tt' = tt /\ Len(frames') = Len(frames)
<1>1. PICK cell \in Top.cells :
        LET top == [Top EXCEPT !.cells = @ \ {cell}] IN
        \/ CellLate(top) /\ stats' = Checked(stats)
        \/ CellRefused(top) /\ stats' = [Checked(stats) EXCEPT !.cutoffs = @ + 1]
        \/ CellOpens(top, cell) /\ stats' = Checked(stats)
  BY DEF Payoff
<1> DEFINE top == [Top EXCEPT !.cells = @ \ {cell}]
<1>2. call = AtOracle /\ frames # <<>> /\ call # Idle
  BY CallCases DEF SolverInv, Payoff, Oracle, AtOracle, Idle
<1>3. Top \in Frame /\ FrameOK(Top, Late, clean, stats) /\ Top.kids = {}
  BY <1>2, TopOK DEF Top, SolverInv, Typed, Payoff, Oracle
<1>4. /\ top \in Frame /\ FrameOK(top, Late, clean, stats)
      /\ top.depth = Top.depth /\ top.kids = {} /\ cell # {} /\ cell \in SUBSET Position
  BY <1>3 DEF Frame, FrameOK
<1> HIDE DEF top
<1>5. UNCHANGED <<tt, call, nodes, request, iteration, best, answer, clean, solves>>
  BY DEF Payoff
<1>6. stats \in Stats /\ tripped \in Cause
  BY DEF SolverInv, Typed
<1>7. /\ Checked(stats) \in Stats
      /\ Checked(stats).cutoffs = stats.cutoffs /\ Checked(stats).limitHits = stats.limitHits
      /\ Checked(stats).stop # "None" <=> Late
  BY <1>6, CheckedOK DEF Late
<1>8. top.depth - 1 \in 0..MaxDepth
  BY <1>4 DEF Frame
<1>9. \A k \in {"Aborted", "ChanceLimit"} :
        /\ WorthOK(Leaf(k)) /\ Leaf(k).leaves = {k} /\ Deep(Leaf(k), top.depth - 1)
  BY <1>8, LeafOK DEF LeafKinds, Cuts
<1>10. CASE CellLate(top) /\ stats' = Checked(stats)
  <2> DEFINE est == FALSE
             t == Taken(top, Leaf("Aborted"), est)
  <2>1. Late /\ tripped' = tripped /\ Late'
    BY <1>7, <1>10 DEF CellLate, Late
  <2>2. Later(Late, stats, Late', stats')
    BY <1>7, <1>10, <2>1 DEF Later
  <2>3. FrameOK(top, Late', clean, stats')
    BY <1>4, <2>2, CoversLater DEF FrameOK
  <2>4. Covers(Leaf("Aborted"), Late', clean, stats')
    BY <1>9, <2>1 DEF Covers
  <2>5. /\ t \in Frame /\ FrameOK(t, Late', clean, stats') /\ t.depth = top.depth
        /\ t.worth.leaves # {}
    <3>1. Leaf("Aborted").leaves \subseteq {"Terminal", "Aborted"} /\ est \in BOOLEAN
      BY <1>9
    <3> HIDE DEF est
    <3> QED
      BY <1>4, <1>9, <2>3, <2>4, <3>1, TakenOK
  <2>6. frames' = Settled(frames, t)
    <3>1. t = [top EXCEPT !.worth = Over(@, Leaf("Aborted"))]
      BY <1>4 DEF Taken, Frame
    <3> QED
      BY <1>10, <3>1 DEF CellLate
  <2> HIDE DEF t
  <2> QED
    BY <1>2, <1>4, <1>5, <1>6, <1>7, <1>10, <2>1, <2>2, <2>5, <2>6, CellKeeps
<1>11. CASE CellRefused(top) /\ stats' = [Checked(stats) EXCEPT !.cutoffs = @ + 1]
  <2> DEFINE est == TRUE
             t == Taken(top, Leaf("ChanceLimit"), est)
  <2>1. tripped' = tripped
    BY <1>11 DEF CellRefused
  <2>2. /\ stats' \in Stats /\ stats'.cutoffs = stats.cutoffs + 1
        /\ stats'.limitHits = stats.limitHits /\ stats'.stop = Checked(stats).stop
        /\ stats.cutoffs \in Nat
    BY <1>6, <1>7, <1>11 DEF Stats
  <2>3. Later(Late, stats, Late', stats') /\ stats'.cutoffs > 0
    BY <1>7, <2>1, <2>2 DEF Later, Late
  <2>4. FrameOK(top, Late', clean, stats')
    BY <1>4, <2>3, CoversLater DEF FrameOK
  <2>5. Covers(Leaf("ChanceLimit"), Late', clean, stats')
    BY <1>9, <2>3 DEF Covers
  <2>6. /\ t \in Frame /\ FrameOK(t, Late', clean, stats') /\ t.depth = top.depth
        /\ t.worth.leaves # {}
    <3>1. est \in BOOLEAN
          /\ (~est => Leaf("ChanceLimit").leaves \subseteq {"Terminal", "Aborted"})
      OBVIOUS
    <3> HIDE DEF est
    <3> QED
      BY <1>4, <1>9, <2>4, <2>5, <3>1, TakenOK
  <2>7. frames' = Settled(frames, t)
    <3>1. t = [top EXCEPT !.worth = Over(@, Leaf("ChanceLimit")), !.est = TRUE]
      BY <1>4 DEF Taken, Frame
    <3> QED
      BY <1>11, <3>1 DEF CellRefused
  <2> HIDE DEF t
  <2> QED
    BY <1>2, <1>4, <1>5, <1>6, <2>1, <2>2, <2>3, <2>6, <2>7, CellKeeps
<1>12. CASE CellOpens(top, cell) /\ stats' = Checked(stats)
  <2>1. PICK kids \in SUBSET cell, runOut \in BOOLEAN :
        /\ ~runOut => kids = cell
        /\ tripped' = IF runOut THEN "ReplayBudget" ELSE tripped
        /\ frames' = Settled(frames, [top EXCEPT !.kids = kids, !.worth =
                IF runOut THEN Over(@, Leaf("Aborted")) ELSE @])
    BY <1>12 DEF CellOpens
  <2>2. kids \in SUBSET Position /\ tripped' \in Cause
    BY <1>4, <1>6, <2>1 DEF Cause
  <2>3. Later(Late, stats, Late', stats') /\ (runOut => Late')
    BY <1>7, <1>12, <2>1 DEF Later, Late
  <2>4. FrameOK(top, Late', clean, stats')
    BY <1>4, <2>3, CoversLater DEF FrameOK
  <2>5. CASE runOut
    <3> DEFINE est == FALSE
               u == Taken(top, Leaf("Aborted"), est)
               t == [u EXCEPT !.kids = kids]
    <3>1. Covers(Leaf("Aborted"), Late', clean, stats')
          /\ Leaf("Aborted").leaves \subseteq {"Terminal", "Aborted"} /\ est \in BOOLEAN
      BY <1>9, <2>3, <2>5 DEF Covers
    <3>2. /\ u \in Frame /\ FrameOK(u, Late', clean, stats') /\ u.depth = top.depth
          /\ u.worth.leaves # {}
      <4> HIDE DEF est
      <4> QED
        BY <1>4, <1>9, <2>4, <3>1, TakenOK
    <3>3. frames' = Settled(frames, t)
      <4>1. t = [top EXCEPT !.kids = kids, !.worth = Over(@, Leaf("Aborted"))]
        BY <1>4 DEF Taken, Frame
      <4> QED
        BY <2>1, <2>5, <4>1
    <3> HIDE DEF u
    <3>4. /\ t \in Frame /\ FrameOK(t, Late', clean, stats') /\ t.depth = top.depth
          /\ t.worth.leaves # {}
      BY <2>2, <3>2 DEF Frame, FrameOK
    <3> HIDE DEF t
    <3> QED
      BY <1>2, <1>4, <1>5, <1>7, <1>12, <2>2, <2>3, <3>3, <3>4, CellKeeps
  <2>6. CASE ~runOut
    <3> DEFINE t == [top EXCEPT !.kids = kids]
    <3>1. frames' = Settled(frames, t)
      <4>1. t = [top EXCEPT !.kids = kids, !.worth = @]
        BY <1>4 DEF Frame
      <4> QED
        BY <2>1, <2>6, <4>1
    <3>2. /\ t \in Frame /\ FrameOK(t, Late', clean, stats') /\ t.depth = top.depth
          /\ t.kids # {}
      BY <1>4, <2>1, <2>2, <2>4, <2>6 DEF Frame, FrameOK
    <3> HIDE DEF t
    <3> QED
      BY <1>2, <1>4, <1>5, <1>7, <1>12, <2>2, <2>3, <3>1, <3>2, CellKeeps
  <2> QED
    BY <2>5, <2>6
<1> QED
  BY <1>1, <1>5, <1>10, <1>11, <1>12 DEF top

LEMMA OutcomeKeeps ==
    ASSUME SolverInv, Outcome
    PROVE  /\ SolverInv' /\ tt' = tt
           /\ Late => Len(frames') = Len(frames)
<1>1. PICK kid \in Top.kids :
        Solve(kid, Top.depth - 1, Settled(frames, [Top EXCEPT !.kids = @ \ {kid}]))
  BY DEF Outcome
<1> DEFINE top == [Top EXCEPT !.kids = @ \ {kid}]
           fs == Settled(frames, top)
<1>2. call = AtOracle /\ frames # <<>> /\ call # Idle /\ frames \in Seq(Frame)
  BY CallCases DEF SolverInv, Outcome, AtOracle, Idle, StackOK
<1>3. /\ Top \in Frame /\ FrameOK(Top, Late, clean, stats)
      /\ Len(frames) \in 1..iteration /\ Top.depth = iteration - Len(frames) + 1
      /\ iteration \in 0..MaxDepth
  BY <1>2, TopOK DEF Top, SolverInv, Typed
<1>4. top \in Frame /\ FrameOK(top, Late, clean, stats) /\ top.depth = Top.depth
      /\ kid \in Position
  BY <1>3 DEF Frame, FrameOK
<1> HIDE DEF top
<1>5. StackOK(fs, iteration, Late, clean, stats) /\ Len(fs) = Len(frames)
  BY <1>2, <1>4, SettledStack, SettledOK DEF SolverInv, Top
<1>6. Top.depth - 1 \in 0..MaxDepth /\ Top.depth - 1 = iteration - Len(fs)
  BY <1>3, <1>5 DEF Frame
<1>7. Typed /\ TableOK(tt, TRUE, Late, clean, stats)
  BY <1>2 DEF SolverInv
<1>8. UNCHANGED <<tt, tripped, request, iteration, best, answer, clean, solves>>
  BY DEF Outcome
<1>9. Solve(kid, Top.depth - 1, fs)
  BY <1>1 DEF top
<1> HIDE DEF fs
<1>10. /\ StackOK(frames', iteration, Late', clean, stats')
       /\ CallOK(frames', call', iteration, clean, stats')
       /\ TableOK(tt, TRUE, Late', clean, stats')
       /\ nodes' \in Nat /\ stats' \in Stats /\ call' # Idle
       /\ Late => Len(frames') = Len(fs)
  BY <1>4, <1>5, <1>6, <1>7, <1>8, <1>9, SolveKeeps
<1>11. Typed'
  BY <1>2, <1>7, <1>8, <1>10 DEF Typed
<1>12. AnswerOK' /\ BestOK'
  BY <1>8, <1>10, AnswerKept DEF SolverInv
<1>13. TableOK(tt, call' # Idle, Late', clean, stats')
  BY <1>10 DEF TableOK
<1> QED
  BY <1>5, <1>8, <1>10, <1>11, <1>12, <1>13 DEF SolverInv

LEMMA FinishKeeps ==
    ASSUME SolverInv, Finish
    PROVE  /\ SolverInv' /\ (Late => tt' = tt)
           /\ Len(frames') <= Len(frames)
<1> DEFINE late == Late'
<1>1. call = AtOracle /\ frames # <<>> /\ call # Idle
  BY CallCases DEF SolverInv, Finish, Oracle, AtOracle, Idle
<1>2. /\ Top \in Frame /\ FrameOK(Top, Late, clean, stats) /\ iteration \in 0..MaxDepth
      /\ Len(frames) \in 1..iteration /\ Top.depth = iteration - Len(frames) + 1
  BY <1>1, TopOK DEF Top, SolverInv, Typed
<1>3. UNCHANGED <<nodes, tripped, request, iteration, best, answer, clean, solves>>
      /\ stats' = Checked(stats)
  BY DEF Finish
<1>4. /\ stats' \in Stats /\ Later(Late, stats, late, stats')
      /\ (late <=> Late) /\ (late <=> stats'.stop # "None")
      /\ stats'.cutoffs = stats.cutoffs /\ stats'.limitHits = stats.limitHits
  BY <1>3, CheckedOK DEF SolverInv, Typed, Later, Late
<1>5. /\ TableOK(tt, TRUE, late, clean, stats')
      /\ StackOK(frames, iteration, late, clean, stats')
  <2>1. TableOK(tt, TRUE, Late, clean, stats) /\ StackOK(frames, iteration, Late, clean, stats)
    BY <1>1 DEF SolverInv
  <2> HIDE DEF late
  <2> QED
    BY <1>4, <2>1, StackLater, TableLater
<1>6. /\ StackOK(Outer, iteration, late, clean, stats') /\ Len(Outer) = Len(frames) - 1
      /\ Top.depth = iteration - Len(Outer) /\ Top.depth \in 0..MaxDepth
  <2> HIDE DEF late
  <2>1. StackOK(Outer, iteration, late, clean, stats') /\ Len(Outer) = Len(frames) - 1
    BY <1>1, <1>2, <1>5, OuterOK
  <2>2. Top.depth \in 0..MaxDepth
    BY <1>2 DEF Frame
  <2> QED
    BY <1>2, <2>1, <2>2
<1>7. ASSUME NEW node, Give(node, Outer), Returns(node, Top.depth, late, clean, stats'),
             "Aborted" \in node.worth.leaves => stats'.stop # "None",
             TableOK(tt', TRUE, late, clean, stats')
      PROVE  SolverInv' /\ Len(frames') <= Len(frames)
  <2>1. /\ StackOK(frames', iteration, late, clean, stats')
        /\ CallOK(frames', call', iteration, clean, stats')
        /\ call' # Idle /\ Len(frames') = Len(Outer)
    <3>1. Returns(node, iteration - Len(Outer), late, clean, stats')
      BY <1>6, <1>7
    <3> HIDE DEF late
    <3> QED
      BY <1>2, <1>6, <1>7, <3>1, GiveKeeps
  <2>2. Typed'
    BY <1>1, <1>3, <1>4 DEF SolverInv, Typed
  <2>3. AnswerOK' /\ BestOK'
    BY <1>3, <2>1, AnswerKept DEF SolverInv
  <2>4. TableOK(tt', call' # Idle, late, clean, stats')
    BY <1>7 DEF TableOK
  <2>5. Len(frames') <= Len(frames)
    BY <1>2, <1>6, <2>1
  <2> QED
    BY <1>3, <2>1, <2>2, <2>3, <2>4, <2>5 DEF SolverInv
<1>8. CASE Abort
  <2>1. Late /\ tt' = tt /\ Give(LeafNode("Aborted", "Aborted", Top.depth), Outer)
    BY <1>8 DEF Abort
  <2> HIDE DEF late
  <2>2. Returns(LeafNode("Aborted", "Aborted", Top.depth), Top.depth, late, clean, stats')
    BY <1>4, <1>6, <2>1, LeavesReturn
  <2> QED
    BY <1>4, <1>5, <1>7, <2>1, <2>2
<1>9. CASE Converge
  <2> DEFINE node == Finished(Top)
  <2>1. ~Late /\ Top.cells # Moves[Top.pos] /\ Insert(Top.pos, node) /\ Give(node, Outer)
    BY <1>9 DEF Converge
  <2>2. Top.worth.leaves # {}
    BY <1>1, <2>1, CallCases DEF SolverInv, Finish, Oracle, Top
  <2>3. /\ WorthOK(Top.worth) /\ Deep(Top.worth, Top.depth)
        /\ ~Top.est => Top.worth.leaves \subseteq {"Terminal", "Aborted"}
        /\ Covers(Top.worth, late, clean, stats')
    BY <1>2, <1>4, CoversLater DEF FrameOK
  <2>4. "Aborted" \notin Top.worth.leaves
    BY <1>4, <2>1, <2>3 DEF Covers
  <2>5. /\ node.worth = Top.worth /\ node.depth = Top.depth
        /\ node.prov = IF Top.est THEN "DepthLimit" ELSE "Exact"
    BY DEF Finished
  <2>6. node \in Node
    BY <1>6, <2>3, <2>5 DEF Finished, Node, WorthOK
  <2>7. Solved(node) => node.worth.leaves = {"Terminal"}
    <3>1. ASSUME Solved(node) PROVE ~Top.est
      BY <2>5, <3>1 DEF Solved
    <3> QED
      BY <2>2, <2>3, <2>4, <2>5, <3>1
  <2>8. NodeOK(node)
    BY <2>2, <2>3, <2>5, <2>6, <2>7 DEF NodeOK
  <2> HIDE DEF node
  <2>9. Returns(node, Top.depth, late, clean, stats') /\ "Aborted" \notin node.worth.leaves
    BY <2>3, <2>4, <2>5, <2>8 DEF Returns
  <2>10. TableOK(tt', TRUE, late, clean, stats')
    <3>1. ASSUME NEW q \in DOMAIN Inserted(Top.pos, node)
          PROVE  LET e == Inserted(Top.pos, node)[q] IN
                 NodeOK(e) /\ "Aborted" \notin e.worth.leaves
                 /\ Covers(e.worth, late, clean, stats')
      <4>1. CASE q = Top.pos
        BY <2>9, <4>1 DEF Inserted, Returns
      <4>2. CASE q # Top.pos
        BY <1>5, <4>2 DEF Inserted, TableOK
      <4> QED
        BY <4>1, <4>2
    <3>2. TableOK(Inserted(Top.pos, node), TRUE, late, clean, stats')
      BY <3>1 DEF TableOK
    <3>3. tt' = tt \/ tt' = Inserted(Top.pos, node)
      BY <2>1 DEF Insert
    <3> HIDE DEF late
    <3> QED
      BY <1>5, <3>2, <3>3
  <2> HIDE DEF late
  <2> QED
    BY <1>7, <2>1, <2>9, <2>10
<1>10. CASE Fail
  <2>1. ~Late /\ tt' = tt /\ Give(LeafNode("Failed", "NodeLimit", Top.depth), Outer)
    BY <1>10 DEF Fail
  <2> HIDE DEF late
  <2>2. Returns(LeafNode("Failed", "NodeLimit", Top.depth), Top.depth, late, clean, stats')
    BY <1>4, <1>6, LeavesReturn
  <2>3. "Aborted" \notin LeafNode("Failed", "NodeLimit", Top.depth).worth.leaves
    BY DEF LeafNode, Leaf
  <2> QED
    BY <1>4, <1>5, <1>7, <2>1, <2>2, <2>3
<1> QED
  BY <1>8, <1>9, <1>10 DEF Finish

LEMMA DeadlineKeeps ==
    ASSUME SolverInv, DeadlinePasses
    PROVE  SolverInv'
<1>1. /\ UNCHANGED <<tt, frames, call, nodes, stats, request, iteration, best, answer,
                     clean, solves>>
      /\ tripped' = "Deadline" /\ call # Idle
  BY DEF DeadlinePasses
<1> DEFINE late == Late'
<1>2. Later(Late, stats, late, stats)
  BY <1>1 DEF Later, Late
<1>3. StackOK(frames, iteration, late, clean, stats) /\ TableOK(tt, TRUE, late, clean, stats)
  <2>1. TableOK(tt, TRUE, Late, clean, stats) /\ StackOK(frames, iteration, Late, clean, stats)
    BY <1>1 DEF SolverInv
  <2> HIDE DEF late
  <2> QED
    BY <1>2, <2>1, StackLater, TableLater
<1>4. Typed'
  BY <1>1 DEF SolverInv, Typed, Cause
<1>5. AnswerOK' /\ BestOK'
  BY <1>1, AnswerKept DEF SolverInv
<1>6. TableOK(tt, call # Idle, late, clean, stats)
  BY <1>3 DEF TableOK
<1> QED
  BY <1>1, <1>3, <1>4, <1>5, <1>6 DEF SolverInv

\* The root's node, on its way to an answer.
LEMMA RootOK ==
    ASSUME SolverInv, call.at = "root"
    PROVE  /\ frames = <<>> /\ call # Idle /\ call.node \in Node
           /\ Returns(call.node, iteration, stats.stop # "None", clean, stats)
<1>1. PICK n \in Node : /\ call = AtRoot(n) /\ frames = <<>>
                        /\ Returns(n, iteration, stats.stop # "None", clean, stats)
  BY CallCases DEF SolverInv
<1>2. call.node = n /\ call # Idle
  BY <1>1 DEF AtRoot, Idle
<1> QED
  BY <1>1, <1>2

LEMMA EmptyStack ==
    ASSUME NEW it, NEW late, NEW cl, NEW s
    PROVE  StackOK(<<>>, it, late, cl, s)
  BY EmptySeq DEF StackOK

LEMMA DeepenKeeps ==
    ASSUME SolverInv, Deepen
    PROVE  SolverInv' /\ tt' = tt /\ frames' = frames /\ stats.stop = "None"
<1>1. /\ frames = <<>> /\ call # Idle /\ call.node \in Node
      /\ Returns(call.node, iteration, stats.stop # "None", clean, stats)
  BY RootOK DEF Deepen
<1>2. /\ request.anytime /\ stats.stop = "None" /\ iteration < request.depth
      /\ best' = [node |-> call.node, depth |-> iteration]
      /\ iteration' = iteration + 1 /\ nodes' = 0 /\ call' = AtStart
      /\ UNCHANGED <<tt, frames, stats, tripped, request, answer, clean, solves>>
  <2>1. request.depth \in 0..MaxDepth /\ iteration \in 0..MaxDepth
    BY DEF SolverInv, Typed, Limit
  <2> QED
    BY <2>1 DEF Deepen, Stops
<1>3. Late' <=> Late
  BY <1>2 DEF Late
<1>4. Typed'
  <2>1. request.depth \in 0..MaxDepth /\ iteration \in 0..MaxDepth
    BY DEF SolverInv, Typed, Limit
  <2>2. iteration' \in 0..MaxDepth
    BY <1>2, <2>1
  <2> QED
    BY <1>2, <2>2 DEF SolverInv, Typed
<1>5. BestOK'
  <2>1. iteration \in 0..MaxDepth
    BY DEF SolverInv, Typed
  <2>2. best'.node = call.node /\ best'.depth = iteration
    BY <1>2
  <2>3. NodeOK(call.node) /\ Deep(call.node.worth, iteration)
        /\ "Aborted" \notin call.node.worth.leaves
    BY <1>1, <1>2 DEF Returns, Covers
  <2> QED
    BY <2>1, <2>2, <2>3 DEF BestOK
<1>6. call' # Idle
  BY <1>2 DEF AtStart, Idle
<1>7. AnswerOK'
  BY <1>2, <1>6 DEF SolverInv, AnswerOK, TruncationTold
<1>8. CallOK(frames', call', iteration', clean', stats') /\ StackOK(frames', iteration', Late', clean', stats')
  BY <1>1, <1>2, EmptyStack DEF CallOK
<1>9. TableOK(tt', call' # Idle, Late', clean', stats')
  BY <1>1, <1>2, <1>3 DEF SolverInv, TableOK, Covers
<1> QED
  BY <1>2, <1>4, <1>5, <1>7, <1>8, <1>9 DEF SolverInv

LEMMA AnswerKeeps ==
    ASSUME SolverInv, Answer
    PROVE  SolverInv' /\ tt' = tt /\ frames' = frames
<1>1. /\ frames = <<>> /\ call # Idle /\ call.node \in Node
      /\ Returns(call.node, iteration, stats.stop # "None", clean, stats)
  BY RootOK DEF Answer
<1>2. /\ request.anytime /\ stats.stop = "None" => Stops(call.node)
      /\ answer' = [node |-> Kept.node, depth |-> Kept.depth, truncated |-> Truncated(Kept)]
      /\ call' = Idle /\ tripped' = "None" /\ best' = NoAnswer
      /\ stats' = NoStats /\ nodes' = 0 /\ iteration' = 0
      /\ UNCHANGED <<tt, frames, request, clean, solves>>
  BY DEF Answer
<1>3. Typed
  BY DEF SolverInv
<1>4. /\ NodeOK(Kept.node) /\ Kept.depth \in 0..MaxDepth /\ Deep(Kept.node.worth, Kept.depth)
      /\ "Aborted" \notin Kept.node.worth.leaves
  <2>1. CASE stats.stop = "None"
    <3>1. Kept.node = call.node /\ Kept.depth = iteration
      BY <2>1 DEF Kept
    <3>2. iteration \in 0..MaxDepth
      BY <1>3 DEF Typed
    <3> QED
      BY <1>1, <2>1, <3>1, <3>2 DEF Returns, Covers
  <2>2. CASE stats.stop # "None" /\ best.depth > 0
    BY <2>2 DEF Kept, SolverInv, BestOK
  <2>3. CASE stats.stop # "None" /\ ~(best.depth > 0)
    <3>1. Kept = Fallback
      BY <2>3 DEF Kept
    <3>2. /\ NodeOK(LeafNode("Terminal", "Terminal", 0))
          /\ NodeOK(LeafNode("DepthLimit", "Aborted", 0))
          /\ Deep(LeafNode("Terminal", "Terminal", 0).worth, 0)
          /\ Deep(LeafNode("DepthLimit", "Aborted", 0).worth, 0)
      BY LeafNodeOK DEF LeafKinds
    <3>3. "Aborted" \notin LeafNode("Terminal", "Terminal", 0).worth.leaves
          /\ "Aborted" \notin LeafNode("DepthLimit", "Aborted", 0).worth.leaves
      BY DEF LeafNode, Leaf
    <3> QED
      BY <3>1, <3>2, <3>3 DEF Fallback
  <2> QED
    BY <2>1, <2>2, <2>3
<1>5. /\ answer'.node = Kept.node /\ answer'.depth = Kept.depth
      /\ answer'.truncated = Truncated(Kept)
  BY <1>2
<1>6. ASSUME clean, Truncated(Kept) = "None"
      PROVE  /\ Kept.node.worth.leaves \subseteq {"Terminal", "DepthLimit", "Failed"}
             /\ "Failed" \in Kept.node.worth.leaves \/ Kept.node.worth.plies >= request.depth
  <2>1. stats.stop = "None" /\ ~(stats.cutoffs > 0) /\ ~(stats.limitHits > 0)
        /\ (request.anytime => Solved(Kept.node) \/ ~(Kept.depth < request.depth))
    BY <1>6 DEF Truncated
  <2>2. Kept.node = call.node /\ Kept.depth = iteration
    BY <2>1 DEF Kept
  <2>3. Kept.node.worth.leaves \subseteq {"Terminal", "DepthLimit", "Failed"}
    <3>1. Kept.node.worth.leaves \subseteq LeafKinds
      BY <1>1, <2>2 DEF Node, Worth
    <3>2. \A k \in {"Aborted", "ChanceLimit", "NodeLimit"} : k \notin Kept.node.worth.leaves
      BY <1>1, <1>6, <2>1, <2>2 DEF Returns, Covers
    <3> QED
      BY <3>1, <3>2 DEF LeafKinds, Cuts
  <2>4. ASSUME "Failed" \notin Kept.node.worth.leaves PROVE Kept.node.worth.plies >= request.depth
    <3>1. Kept.node.worth.leaves \cap Cuts = {}
      BY <2>3, <2>4 DEF Cuts
    <3>2. /\ Kept.node.worth.plies >= iteration /\ Kept.node.worth.plies \in 0..Forever
          /\ "DepthLimit" \notin Kept.node.worth.leaves => Kept.node.worth.plies = Forever
          /\ Solved(Kept.node) => Kept.node.worth.leaves = {"Terminal"}
      BY <1>1, <2>2, <3>1 DEF Returns, Deep, NodeOK, WorthOK, Worth
    <3>3. request.depth \in 0..MaxDepth /\ iteration \in 0..MaxDepth
          /\ (~request.anytime => iteration = request.depth)
      BY <1>1, <1>3 DEF Typed, Limit
    <3>4. CASE Solved(Kept.node)
      <4>1. Kept.node.worth.plies = Forever
        BY <3>2, <3>4
      <4> QED
        BY <3>3, <4>1 DEF Forever
    <3>5. CASE ~Solved(Kept.node)
      BY <2>1, <2>2, <3>2, <3>3, <3>5 DEF Forever
    <3> QED
      BY <3>4, <3>5
  <2> QED
    BY <2>3, <2>4
<1>7. AnswerOK'
  <2>1. TruncationTold'
    BY <1>2, <1>5, <1>6 DEF TruncationTold, FullSolve
  <2> QED
    BY <1>4, <1>5, <2>1 DEF AnswerOK
<1>8. BestOK'
  <2>1. NodeOK(LeafNode("Aborted", "Aborted", 0)) /\ Deep(LeafNode("Aborted", "Aborted", 0).worth, 0)
    BY LeafNodeOK DEF LeafKinds, Cuts
  <2> QED
    BY <1>2, <2>1 DEF BestOK, NoAnswer
<1>9. Typed'
  <2>1. NoStats \in Stats
    BY DEF NoStats, Stats, Cause
  <2> QED
    BY <1>2, <1>3, <2>1 DEF Typed, Cause
<1>10. CallOK(frames', call', iteration', clean', stats') /\ StackOK(frames', iteration', Late', clean', stats')
  BY <1>1, <1>2, EmptyStack DEF CallOK
<1>11. TableOK(tt', call' # Idle, Late', clean', stats')
  BY <1>2 DEF SolverInv, TableOK
<1> QED
  BY <1>2, <1>7, <1>8, <1>9, <1>10, <1>11 DEF SolverInv

LEMMA AskKeeps ==
    ASSUME SolverInv, NEW r \in Requests, Ask(r)
    PROVE  SolverInv'
<1>1. /\ call = Idle /\ solves' = solves + 1 /\ (tt' = tt \/ tt' = <<>>)
      /\ clean' = \A p \in DOMAIN tt' : tt'[p].worth.leaves \cap Cuts = {}
      /\ request' = r /\ stats' = NoStats /\ nodes' = 0
      /\ iteration' = FirstDepth(r) /\ call' = AtStart /\ best' = NoAnswer
      /\ UNCHANGED <<frames, tripped, answer>>
  BY DEF Ask
<1>2. frames = <<>> /\ call' # Idle
  BY <1>1, CallCases DEF SolverInv, AtStart, Idle
<1>3. Typed'
  <2>1. NoStats \in Stats /\ r \in Limit /\ clean' \in BOOLEAN
    BY <1>1 DEF NoStats, Stats, Cause
  <2>2. FirstDepth(r) \in 0..MaxDepth /\ (~r.anytime => FirstDepth(r) = r.depth)
    BY <2>1 DEF FirstDepth, Limit
  <2> QED
    BY <1>1, <2>1, <2>2 DEF SolverInv, Typed
<1>4. BestOK'
  <2>1. NodeOK(LeafNode("Aborted", "Aborted", 0)) /\ Deep(LeafNode("Aborted", "Aborted", 0).worth, 0)
    BY LeafNodeOK DEF LeafKinds, Cuts
  <2> QED
    BY <1>1, <2>1 DEF BestOK, NoAnswer
<1>5. AnswerOK'
  BY <1>1, <1>2 DEF SolverInv, AnswerOK, TruncationTold
<1>6. CallOK(frames', call', iteration', clean', stats') /\ StackOK(frames', iteration', Late', clean', stats')
  BY <1>1, <1>2, EmptyStack DEF CallOK
<1>7. TableOK(tt', call' # Idle, Late', clean', stats')
  <2>1. ASSUME NEW p \in DOMAIN tt'
        PROVE  NodeOK(tt'[p]) /\ "Aborted" \notin tt'[p].worth.leaves
    BY <1>1 DEF SolverInv, TableOK
  <2>2. ASSUME NEW p \in DOMAIN tt'
        PROVE  Covers(tt'[p].worth, Late', clean', stats')
    BY <1>1, <2>1 DEF Covers, Cuts
  <2> QED
    BY <2>1, <2>2 DEF TableOK
<1> QED
  BY <1>3, <1>4, <1>5, <1>6, <1>7 DEF SolverInv

LEMMA SolverStarts == SolverInit => SolverInv
<1> SUFFICES ASSUME SolverInit PROVE SolverInv
  OBVIOUS
<1>1. Typed
  BY DEF SolverInit, Typed, Idle, NoStats, Stats, Cause
<1>2. NodeOK(LeafNode("Aborted", "Aborted", 0)) /\ Deep(LeafNode("Aborted", "Aborted", 0).worth, 0)
  BY LeafNodeOK DEF LeafKinds, Cuts
<1>3. BestOK /\ AnswerOK
  BY <1>2 DEF SolverInit, BestOK, AnswerOK, NoAnswer, TruncationTold
<1>4. TableOK(tt, call # Idle, Late, clean, stats)
  BY DEF SolverInit, TableOK
<1>5. CallOK(frames, call, iteration, clean, stats) /\ StackOK(frames, iteration, Late, clean, stats)
  BY EmptyStack DEF SolverInit, CallOK
<1> QED
  BY <1>1, <1>3, <1>4, <1>5 DEF SolverInv

LEMMA SolverStep == SolverInv /\ [SolverNext]_solver => SolverInv'
<1> SUFFICES ASSUME SolverInv, [SolverNext]_solver PROVE SolverInv'
  OBVIOUS
<1>1. CASE Search
  BY <1>1, SolveRootKeeps, PayoffKeeps, OutcomeKeeps, FinishKeeps, DeepenKeeps, AnswerKeeps
  DEF Search
<1>2. CASE DeadlinePasses
  BY <1>2, DeadlineKeeps
<1>3. CASE \E r \in Requests : Ask(r)
  BY <1>3, AskKeeps
<1>4. CASE UNCHANGED solver
  BY <1>4 DEF solver, SolverInv, Typed, Late, BestOK, AnswerOK, TruncationTold, FullSolve
<1> QED
  BY <1>1, <1>2, <1>3, <1>4 DEF SolverNext

LEMMA SolverInvariant == SolverSpec => []SolverInv
<1> QED
  BY SolverStarts, SolverStep, PTL DEF SolverSpec

-----------------------------------------------------------------------------
(* The theorems. *)

\* Nothing of an aborted search is kept (recursive.rs:539, :799), a node
\* labelled Exact or Terminal rests on finished battles only (:63), and
\* truncated = None promises the whole depth (:769).
THEOREM LabelsAreTrue == SolverSpec => []LabelsHold
<1>1. SolverInv => ExactIsSolved /\ TruncationTold
  BY DEF SolverInv, TableOK, AnswerOK, ExactIsSolved, NodeOK
<1>2. SolverInv => NothingAborted
  BY DEF SolverInv, TableOK, BestOK, AnswerOK, NothingAborted
<1>3. SolverInv => LabelsHold
  BY <1>1, <1>2 DEF LabelsHold
<1> QED
  BY <1>3, SolverInvariant, PTL

\* An entry searched the plies it claims, whatever older entries its search
\* was answered from (recursive.rs:82-85).
THEOREM EntriesAreDeep == SolverSpec => []DeepAsClaimed
<1>1. SolverInv => DeepAsClaimed
  BY DEF SolverInv, TableOK, BestOK, AnswerOK, DeepAsClaimed, Uncut, Deep, NodeOK
<1> QED
  BY <1>1, SolverInvariant, PTL

\* A search that noticed its abort only unwinds (recursive.rs:539-541).
THEOREM AbortsUnwind == SolverSpec => AbortUnwinds
<1>1. ASSUME SolverInv, [SolverNext]_solver, stats.stop # "None", call # Idle
      PROVE  Len(frames') <= Len(frames) /\ tt' = tt
  <2>1. Late /\ Len(frames) \in Nat
    BY <1>1, LenProperties DEF Late, SolverInv, StackOK
  <2>2. CASE Search
    BY <1>1, <2>1, <2>2, SolveRootKeeps, PayoffKeeps, OutcomeKeeps, FinishKeeps, DeepenKeeps,
       AnswerKeeps DEF Search
  <2>3. CASE DeadlinePasses
    BY <2>1, <2>3 DEF DeadlinePasses
  <2>4. CASE \E r \in Requests : Ask(r)
    BY <1>1, <2>4 DEF Ask
  <2>5. CASE UNCHANGED solver
    BY <2>1, <2>5 DEF solver
  <2> QED
    BY <1>1, <2>2, <2>3, <2>4, <2>5 DEF SolverNext
<1> DEFINE A == stats.stop # "None" /\ call # Idle =>
                    Len(frames') <= Len(frames) /\ tt' = tt
<1>2. SolverInv /\ [SolverNext]_solver => [A]_solver
  BY <1>1
<1>3. SolverSpec => [][A]_solver
  BY <1>2, SolverInvariant, PTL DEF SolverSpec
<1> QED
  BY <1>3 DEF AbortUnwinds

=============================================================================
