--------------------------- MODULE EndgameSolver ---------------------------
(***************************************************************************)
(* crates/vgc-solver/src/recursive.rs and budget.rs: the depth-limited     *)
(* search with its transposition table, its budgets and its iterative      *)
(* deepening.  A value is abstracted to where it comes from: the kinds of  *)
(* leaf under it and the plies searched before the nearest depth-limited   *)
(* one.  The oracle may stop after any cells, in any order.                *)
(***************************************************************************)
EXTENDS Naturals, Sequences, FiniteSets

CONSTANTS
    Position,     \* the canonical hashes
    Terminal,     \* those where the battle is over
    Moves,        \* position -> its matrix cells, each a set of outcomes
    MaxDepth,     \* the deepest request
    Requests,     \* the SolverConfigs to try, with the root
    MaxSolves     \* bound: requests answered

Limit == [depth : 0..MaxDepth, budget : Nat \ {0}, root : Position, anytime : BOOLEAN,
          deadline : BOOLEAN, replays : BOOLEAN, chance : BOOLEAN,
          fails : BOOLEAN, exactHp : BOOLEAN]

ASSUME SolverAssumption ==
    /\ Terminal \subseteq Position /\ MaxDepth \in Nat \ {0} /\ MaxSolves \in Nat
    /\ Moves \in [Position \ Terminal -> SUBSET (SUBSET Position \ {{}}) \ {{}}]
    /\ Requests \subseteq Limit

VARIABLES
    tt,           \* the transposition table
    frames,       \* the open nodes, the root first
    call,         \* nothing, the root to enter, the last frame's oracle, or the root's node
    nodes,        \* SolverState.nodes
    stats,        \* SolverStats: stop_reason, nodes_visited, node_limit_hits, chance_cutoffs
    tripped,      \* budget.rs TRIPPED
    request,      \* the SolverConfig
    iteration,    \* the depth of the running iteration
    best,         \* the deepest completed iteration: its node and depth
    answer,       \* the last BoundedSolve
    clean,        \* history: no budget had cut an entry of tt before this request
    solves

solver == <<tt, frames, call, nodes, stats, tripped, request, iteration, best, answer,
            clean, solves>>

(* The kinds of leaf a value can rest on; the last four are what a budget, *)
(* a failed oracle or an abort put in place of a search.                  *)
Cuts == {"NodeLimit", "ChanceLimit", "Failed", "Aborted"}
Solved(node) == node.prov \in {"Terminal", "Exact"}
Forever == MaxDepth + 1

(* A SolvedNode: its worth (the leaves it rests on, the plies above the      *)
(* nearest depth-limited one), its provenance, the depth it was solved at.   *)

Nothing == [plies |-> Forever, leaves |-> {}]
Leaf(kind) == [plies |-> IF kind = "DepthLimit" THEN 0 ELSE Forever, leaves |-> {kind}]
LeafNode(kind, prov, depth) == [worth |-> Leaf(kind), prov |-> prov, depth |-> depth]

(* The worth of a position over the worths of its outcomes: one ply more,  *)
(* counted no further than MaxDepth.                                       *)
Over(v, child) ==
    LET plies == IF child.plies < MaxDepth THEN child.plies + 1 ELSE child.plies
    IN  [plies |-> IF plies < v.plies THEN plies ELSE v.plies,
         leaves |-> v.leaves \cup child.leaves]

NoAnswer == [node |-> LeafNode("Aborted", "Aborted", 0), depth |-> 0]
NoStats == [stop |-> "None", visited |-> 0, limitHits |-> 0, cutoffs |-> 0]
Idle == [at |-> "idle"]
AtStart == [at |-> "start"]
AtOracle == [at |-> "oracle"]
AtRoot(node) == [at |-> "root", node |-> node]

Late == stats.stop # "None" \/ tripped # "None"
Checked(s) == [s EXCEPT !.stop = IF @ = "None" THEN tripped ELSE @]

Top == frames[Len(frames)]
Settled(fs, top) == [fs EXCEPT ![Len(fs)] = top]

(* A solve returns: to the cell of the frame above, or to its caller.      *)
Give(node, fs) ==
    IF fs = <<>> THEN frames' = fs /\ call' = AtRoot(node)
    ELSE LET top == fs[Len(fs)] IN
         /\ frames' = Settled(fs, [top EXCEPT
                !.worth = Over(@, node.worth), !.est = @ \/ ~Solved(node)])
         /\ call' = AtOracle

-----------------------------------------------------------------------------
(* endgame_solve_bounded with fresh stats, over the caller's table or a new *)
(* one.                                                                    *)
FirstDepth(r) == IF r.anytime THEN 1 ELSE r.depth

Ask(r) ==
    /\ call = Idle /\ solves < MaxSolves /\ solves' = solves + 1
    /\ \E kept \in BOOLEAN : tt' = IF kept THEN tt ELSE <<>>
    /\ clean' = \A p \in DOMAIN tt' : tt'[p].worth.leaves \cap Cuts = {}
    /\ request' = r /\ stats' = NoStats /\ nodes' = 0
    /\ iteration' = FirstDepth(r) /\ call' = AtStart
    /\ best' = NoAnswer
    /\ UNCHANGED <<frames, tripped, answer>>

(* Mutated form: any entry is a hit. *)
Usable_Any(p, d) == p \in DOMAIN tt

Usable(p, d) == p \in DOMAIN tt /\ (tt[p].depth >= d \/ tt[p].prov = "Exact")
Hit(p, d) == ~request.exactHp /\ Usable(p, d)

(* Mutated form: the abort is left to the cells. *)
Verdict_IgnoresAbort(p, d) ==
    IF p \in Terminal THEN "terminal" ELSE IF d = 0 THEN "depth"
    ELSE IF nodes + 1 >= request.budget THEN "budget"
    ELSE IF Hit(p, d) THEN "hit" ELSE "open"

(* The early returns of solve, in their order; "open" when none applies.    *)
Verdict(p, d) ==
    IF Late THEN "late"
    ELSE IF p \in Terminal THEN "terminal"
    ELSE IF d = 0 THEN "depth"
    ELSE IF nodes + 1 >= request.budget THEN "budget"
    ELSE IF Hit(p, d) THEN "hit" ELSE "open"

Solve(p, d, fs) ==
    LET why == Verdict(p, d) IN
    /\ nodes' = nodes + 1
    /\ stats' = Checked([stats EXCEPT !.visited = @ + 1,
                             !.limitHits = @ + IF why = "budget" THEN 1 ELSE 0])
    /\ \/ why = "late" /\ Give(LeafNode("Aborted", "Aborted", d), fs)
       \/ why = "terminal" /\ Give(LeafNode("Terminal", "Terminal", d), fs)
       \/ why = "depth" /\ Give(LeafNode("DepthLimit", "DepthLimit", d), fs)
       \/ why = "budget" /\ Give(LeafNode("NodeLimit", "NodeLimit", d), fs)
       \/ why = "hit" /\ Give(tt[p], fs)
       \/ /\ why = "open" /\ call' = AtOracle
          /\ frames' = Append(fs, [pos |-> p, depth |-> d, cells |-> Moves[p],
                                   kids |-> {}, worth |-> Nothing, est |-> FALSE])

SolveRoot ==
    /\ call = AtStart /\ Solve(request.root, iteration, frames)
    /\ UNCHANGED <<tt, tripped, request, iteration, best, answer, clean, solves>>

-----------------------------------------------------------------------------
(* RecursiveGame::payoff of one cell: nothing once late, a leaf when the    *)
(* chance limit refuses it, else its outcomes to solve one after the other. *)
(* The replay budget may run out inside: the frontier is then partial.      *)
Oracle == call = AtOracle /\ Top.kids = {}

CellLate(top) == Late /\ UNCHANGED tripped
    /\ frames' = Settled(frames, [top EXCEPT !.worth = Over(@, Leaf("Aborted"))])

(* Mutated form: the refused cell does not make the node an estimate. *)
CellRefused_Silent(top) == ~Late /\ request.chance /\ UNCHANGED tripped
    /\ frames' = Settled(frames, [top EXCEPT !.worth = Over(@, Leaf("ChanceLimit"))])

CellRefused(top) == ~Late /\ request.chance /\ UNCHANGED tripped
    /\ frames' = Settled(frames, [top EXCEPT !.worth = Over(@, Leaf("ChanceLimit")), !.est = TRUE])

CellOpens(top, cell) == ~Late
    /\ \E kids \in SUBSET cell, runOut \in BOOLEAN :
        /\ runOut => request.replays
        /\ ~runOut => kids = cell
        /\ tripped' = IF runOut THEN "ReplayBudget" ELSE tripped
        /\ frames' = Settled(frames, [top EXCEPT !.kids = kids, !.worth =
                IF runOut THEN Over(@, Leaf("Aborted")) ELSE @])

Payoff ==
    /\ Oracle
    /\ \E cell \in Top.cells :
        LET top == [Top EXCEPT !.cells = @ \ {cell}] IN
        \/ CellLate(top) /\ stats' = Checked(stats)
        \/ CellRefused(top) /\ stats' = [Checked(stats) EXCEPT !.cutoffs = @ + 1]
        \/ CellOpens(top, cell) /\ stats' = Checked(stats)
    /\ UNCHANGED <<tt, call, nodes, request, iteration, best, answer, clean, solves>>

Outcome ==
    /\ call = AtOracle
    /\ \E kid \in Top.kids :
        Solve(kid, Top.depth - 1, Settled(frames, [Top EXCEPT !.kids = @ \ {kid}]))
    /\ UNCHANGED <<tt, tripped, request, iteration, best, answer, clean, solves>>

(* The end of solve: the oracle stopped, converged or failed.               *)
Outer == SubSeq(frames, 1, Len(frames) - 1)
Finished(top) == [worth |-> top.worth, depth |-> top.depth,
                  prov |-> IF top.est THEN "DepthLimit" ELSE "Exact"]

Inserted(p, node) == [q \in DOMAIN tt \cup {p} |-> IF q = p THEN node ELSE tt[q]]
Insert(p, node) == tt' = IF request.exactHp THEN tt ELSE Inserted(p, node)

Abort == Late /\ UNCHANGED tt /\ Give(LeafNode("Aborted", "Aborted", Top.depth), Outer)

Converge == ~Late /\ Top.cells # Moves[Top.pos]
    /\ Insert(Top.pos, Finished(Top)) /\ Give(Finished(Top), Outer)

Fail == ~Late /\ request.fails /\ Top.cells # Moves[Top.pos]
    /\ UNCHANGED tt /\ Give(LeafNode("Failed", "NodeLimit", Top.depth), Outer)

Finish ==
    /\ Oracle
    /\ Abort \/ Converge \/ Fail
    /\ stats' = Checked(stats)
    /\ UNCHANGED <<nodes, tripped, request, iteration, best, answer, clean, solves>>

-----------------------------------------------------------------------------
(* The clock, read at every check.                                          *)
DeadlinePasses ==
    /\ call # Idle /\ request.deadline /\ tripped = "None"
    /\ tripped' = "Deadline"
    /\ UNCHANGED <<tt, frames, call, nodes, stats, request, iteration, best, answer,
                   clean, solves>>

(* endgame_solve_anytime between two iterations.                            *)
Stops(node) ==
    \/ Solved(node) \/ stats.visited >= request.budget
    \/ iteration >= request.depth

Deepen ==
    /\ call.at = "root" /\ request.anytime /\ stats.stop = "None" /\ ~Stops(call.node)
    /\ best' = [node |-> call.node, depth |-> iteration]
    /\ iteration' = iteration + 1 /\ nodes' = 0
    /\ call' = AtStart
    /\ UNCHANGED <<tt, frames, stats, tripped, request, answer, clean, solves>>

(* endgame_solve_bounded: the node, and why it is not a full solve.         *)
Fallback ==
    [node |-> IF request.root \in Terminal THEN LeafNode("Terminal", "Terminal", 0)
              ELSE LeafNode("DepthLimit", "Aborted", 0),
     depth |-> 0]

Kept ==
    IF stats.stop = "None" THEN [node |-> call.node, depth |-> iteration]
    ELSE IF best.depth > 0 THEN best ELSE Fallback

Truncated(kept) ==
    IF stats.stop # "None" THEN stats.stop
    ELSE IF stats.cutoffs > 0 THEN "ChanceLimit"
    ELSE IF stats.limitHits > 0 THEN "NodeBudget"
    ELSE IF request.anytime /\ ~Solved(kept.node) /\ kept.depth < request.depth
         THEN "NodeBudget" ELSE "None"

Answer ==
    /\ call.at = "root"
    /\ request.anytime /\ stats.stop = "None" => Stops(call.node)
    /\ answer' = [node |-> Kept.node, depth |-> Kept.depth, truncated |-> Truncated(Kept)]
    /\ call' = Idle /\ tripped' = "None" /\ best' = NoAnswer
    /\ stats' = NoStats /\ nodes' = 0 /\ iteration' = 0
    /\ UNCHANGED <<tt, frames, request, clean, solves>>

SolverInit ==
    /\ tt = <<>> /\ frames = <<>> /\ call = Idle /\ nodes = 0 /\ stats = NoStats
    /\ tripped = "None" /\ request \in Requests /\ iteration = 0 /\ best = NoAnswer
    /\ answer = [node |-> NoAnswer.node, depth |-> 0, truncated |-> "Deadline"]
    /\ clean = TRUE /\ solves = 0

Search == SolveRoot \/ Payoff \/ Outcome \/ Finish \/ Deepen \/ Answer

SolverNext == Search \/ DeadlinePasses \/ \E r \in Requests : Ask(r)

SolverSpec == SolverInit /\ [][SolverNext]_solver

-----------------------------------------------------------------------------
(* However late a check fires, no part of an aborted search is kept: not in *)
(* the table other solves read, not as the best so far, not as the answer   *)
(* (recursive.rs:539 "nothing aborted reaches the TT", :799 "never returns  *)
(* an aborted partial value").                                              *)
NothingAborted ==
    /\ \A p \in DOMAIN tt : "Aborted" \notin tt[p].worth.leaves
    /\ best.depth > 0 => "Aborted" \notin best.node.worth.leaves
    /\ solves > 0 /\ call = Idle => "Aborted" \notin answer.node.worth.leaves

(* A node labelled Exact or Terminal rests on finished battles only, through *)
(* any number of table hits (recursive.rs:63): training takes its label.     *)
ExactIsSolved ==
    /\ \A p \in DOMAIN tt : Solved(tt[p]) => tt[p].worth.leaves = {"Terminal"}
    /\ Solved(answer.node) => answer.node.worth.leaves = {"Terminal"}

(* truncated = None promises the requested depth with no budget cut          *)
(* (recursive.rs:769), over a table no budget had cut before; an oracle that *)
(* fails is not counted by the code.                                         *)
FullSolve ==
    /\ answer.node.worth.leaves \subseteq {"Terminal", "DepthLimit", "Failed"}
    /\ "Failed" \in answer.node.worth.leaves \/ answer.node.worth.plies >= request.depth

TruncationTold ==
    solves > 0 /\ call = Idle /\ clean /\ answer.truncated = "None" => FullSolve

(* What a node and an answer say about themselves is so, and nothing that is *)
(* kept says "aborted".                                                      *)
LabelsHold == NothingAborted /\ ExactIsSolved /\ TruncationTold

Uncut(node) == node.worth.leaves \cap Cuts = {}

(* An entry no budget cut searched at least the plies it claims, though its  *)
(* children may come from older solves, shallower ones among them            *)
(* (recursive.rs:82-85: a shallower entry would shortchange the request);    *)
(* so did the iteration anytime falls back on, and the answer.               *)
DeepAsClaimed ==
    /\ \A p \in DOMAIN tt : Uncut(tt[p]) => tt[p].worth.plies >= tt[p].depth
    /\ \A kept \in {best, answer} : Uncut(kept.node) => kept.node.worth.plies >= kept.depth

(* Once an abort is noticed the search only unwinds: no node is opened and   *)
(* nothing enters the table, whatever frontier was left half done.           *)
AbortUnwinds ==
    [][stats.stop # "None" /\ call # Idle =>
            Len(frames') <= Len(frames) /\ tt' = tt]_solver

=============================================================================
