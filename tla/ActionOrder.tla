---------------------------- MODULE ActionOrder ----------------------------
(***************************************************************************)
(* Who acts next: the move queue of one doubles turn, crates/              *)
(* vgc-engine-core/src/order.rs with its callers in battle.rs.  The queue  *)
(* is sorted when the turn is built and again after every move that ran,   *)
(* because the move may have changed speeds, priorities or Trick Room;     *)
(* After You, Quash, Round and Ally Switch rearrange it in between.  What  *)
(* else a move does is abstracted to those changes.  Switches and Pursuit  *)
(* ran before the first move (TurnLoop) and are not in the queue here.     *)
(***************************************************************************)
EXTENDS Integers, Sequences, FiniteSets, SequencesExt

CONSTANTS
    Speeds,       \* effective_speed, as a small range
    Priorities,   \* state_priority, as a small range
    Fractions,    \* mon -> its possible fractional_key when the queue is built
    Rounders,     \* the sets of mons whose queued move may be Round
    Kinds,        \* kinds of move the others may turn out to use
    Changes,      \* what a move may change of the field
    MaxEvents     \* bound: moves of a turn that do any such thing

Sides    == {"p1", "p2"}
Places   == Sides \X {0, 1}
Starters == Places                 \* the mons a move was chosen for, by where they began
Mons     == Sides \X (0 .. 2)      \* ... and one behind them on each side
Ally(at) == <<at[1], 1 - at[2]>>

ASSUME OrderAssumption ==
    /\ MaxEvents \in Nat
    /\ \A S \in {Speeds, Priorities} : S \subseteq Int /\ \E x \in S : \A y \in S : x <= y
    /\ Fractions \in [Starters -> SUBSET {-1, 0, 1}]
    /\ Rounders \subseteq SUBSET Starters
    /\ Kinds \subseteq {"afteryou", "quash", "allyswitch"}
    /\ Changes \subseteq {"speed", "room", "priority", "faint", "replace"}

VARIABLES
    pc,           \* "build", then "loop": step_one is about to run the head of queue
    keyed,        \* is_oracle_keyed or is_ps: the re-sort draws ties again
    queue,        \* order[idx ..]: [at, mon], where an action is bound and whose it was
    field,        \* what the keys are read from: seat, who stands where; speed and
                  \* priority of each mon; rounds, whose queued move is Round; room,
                  \* Trick Room; down, the fainted; replaced and pending, the latches
                  \* of a place; keys, its TurnKeys
    events,
    granted,      \* history: mon -> [bias, frac] it was given in this turn
    called,       \* history: the mon After You or Round named last
    acted         \* history: the mons that acted, in order

order == <<pc, keyed, queue, field, events, granted, called, acted>>

-----------------------------------------------------------------------------
(* Keys and sorting.                                                        *)

\* Tuples compare lexicographically; the smaller key acts earlier.
Before(a, b) ==
    \E i \in DOMAIN a : a[i] < b[i] /\ \A j \in 1 .. i - 1 : a[j] = b[j]

Key(f, m, k) ==
    <<k.bias, -f.priority[m], k.frac, IF f.room THEN f.speed[m] ELSE -f.speed[m]>>

\* The key of the action at position i of the tail.  That of a mon forced out
\* is last and, holding the position, ties with nothing.
KeyAt(f, i, e) ==
    IF f.replaced[e.at] THEN <<127, i, 0, 0>> ELSE Key(f, f.seat[e.at], f.keys[e.at])

Tagged(f, q) == [i \in DOMAIN q |-> [e |-> q[i], k |-> KeyAt(f, i, q[i])]]
Untagged(t) == [i \in DOMAIN t |-> t[i].e]

Swap(t, i, j) == [n \in DOMAIN t |-> IF n = i THEN t[j] ELSE IF n = j THEN t[i] ELSE t[n]]

\* A whole sequence of swaps, in order.
Swaps(t, pairs) ==
    LET after[n \in 0 .. Len(pairs)] ==
            IF n = 0 THEN t ELSE Swap(after[n - 1], pairs[n][1], pairs[n][2])
    IN  after[Len(pairs)]

\* The results of random(i, to) for each place i of a run of ties but the last.
Draws(from, to) == {d \in [from .. to - 1 -> from .. to] : \A i \in from .. to - 1 : d[i] >= i}

\* Mutated form: every draw swaps with the first of the run.
Shuffle_Naive(t, from, to, d) == Swaps(t, [n \in 1 .. to - from |-> <<from, d[from + n - 1]>>])
\* Fisher-Yates on the run from .. to.
Shuffle(t, from, to, d) == Swaps(t, [n \in 1 .. to - from |-> <<from + n - 1, d[from + n - 1]>>])

\* The places from `from` on of the earliest entry of t there and all that tie.
Earliest(t, from) ==
    {i \in from .. Len(t) : \A j \in from .. Len(t) : ~Before(t[j].k, t[i].k)}

\* One round of ps_speed_sort: the earliest of what is left are swapped to its
\* front (a place outside the run with itself), then shuffled.  `drawn` is
\* history: the draws it took.
SortRound(s) ==
    LET from     == s.done + 1
        run      == Earliest(s.t, from)
        to       == s.done + Cardinality(run)
        front(i) == IF i \in run THEN s.done + Cardinality({j \in run : j <= i}) ELSE i
        moved    == Swaps(s.t, [n \in 1 .. Len(s.t) - s.done |-> <<front(s.done + n), s.done + n>>])
    IN  {[t |-> Shuffle(moved, from, to, d), done |-> to, drawn |-> Append(s.drawn, d)] : d \in Draws(from, to)}

SpeedSorts(t) ==
    LET over(s) == s.done + 1 >= Len(t)
        after[n \in 0 .. Len(t)] ==
            IF n = 0 THEN {[t |-> t, done |-> 0, drawn |-> <<>>]}
            ELSE UNION {IF over(s) THEN {s} ELSE SortRound(s) : s \in after[n - 1]}
    IN  after[Len(t)]

\* The stable insertion sort of the other rngs: an action goes behind all
\* that are earlier and, of those that tie with it, behind those it was behind.
StableSort(t) ==
    LET ahead(j) == {i \in DOMAIN t : Before(t[i].k, t[j].k) \/ (i < j /\ ~Before(t[j].k, t[i].k))}
    IN  [n \in DOMAIN t |-> t[CHOOSE j \in DOMAIN t : Cardinality(ahead(j)) = n - 1]]

\* resort_remaining: the orders the tail may come out in.
Resorts(f, q) ==
    LET t == Tagged(f, q)
    IN  IF keyed THEN {Untagged(s.t) : s \in SpeedSorts(t)} ELSE {Untagged(StableSort(t))}

-----------------------------------------------------------------------------
(* The turn's queue.                                                        *)

Fresh(frac) == [bias |-> 0, frac |-> frac]
InChoiceOrder == <<<<"p1", 0>>, <<"p1", 1>>, <<"p2", 0>>, <<"p2", 1>>>>

\* bounds: a mon behind is as slow as any, and priorities begin the same
Init ==
    /\ pc = "build" /\ keyed \in BOOLEAN /\ queue = <<>> /\ events = 0
    /\ \E speed \in [Starters -> Speeds], room \in BOOLEAN, rounds \in Rounders,
          frac \in {g \in [Starters -> {-1, 0, 1}] : \A m \in Starters : g[m] \in Fractions[m]} :
          /\ field = [seat |-> [at \in Places |-> at],
                      speed |-> [m \in Mons |-> IF m \in Starters THEN speed[m]
                                                ELSE CHOOSE x \in Speeds : \A y \in Speeds : x <= y],
                      priority |-> [m \in Mons |-> CHOOSE x \in Priorities : \A y \in Priorities : x <= y],
                      rounds |-> rounds, room |-> room, down |-> {},
                      replaced |-> [at \in Places |-> FALSE], pending |-> [at \in Places |-> TRUE],
                      keys |-> [at \in Places |-> Fresh(frac[at])]]
          /\ granted = [m \in Mons |-> Fresh(IF m \in Starters THEN frac[m] ELSE 0)]
    /\ called = {} /\ acted = <<>>

\* action_order_keyed sorts, then shuffles each run of ties: what SpeedSorts
\* does to a sorted tail.  Under the keyed rngs turn_prologue shuffles in a
\* sort of its own instead, to the same orders.
Build ==
    /\ pc = "build" /\ pc' = "loop"
    /\ LET q == [i \in DOMAIN InChoiceOrder |-> [at |-> InChoiceOrder[i], mon |-> InChoiceOrder[i]]]
       IN  \E s \in SpeedSorts(StableSort(Tagged(field, q))) : queue' = Untagged(s.t)
    /\ UNCHANGED <<keyed, field, events, granted, called, acted>>

-----------------------------------------------------------------------------
(* One action: process_one_action, finalize_move_resolution, the re-sort.   *)

Alive(f, at) == f.seat[at] \notin f.down
Ran(e) == Alive(field, e.at) /\ ~field.replaced[e.at]

Skip ==
    /\ pc = "loop" /\ queue # <<>> /\ ~Ran(Head(queue))
    /\ queue' = Tail(queue)
    /\ UNCHANGED <<pc, keyed, field, events, granted, called, acted>>

\* reorder_remaining: the action bound to `at`, if it is still there, goes
\* first or last.
Reorder(q, at, first) ==
    LET here == {i \in DOMAIN q : q[i].at = at}
        i    == CHOOSE x \in here : \A y \in here : x <= y
    IN  IF here = {} THEN q
        ELSE IF first THEN <<q[i]>> \o RemoveAt(q, i)
        ELSE Append(RemoveAt(q, i), q[i])

Used(e) == [field EXCEPT !.pending[e.at] = FALSE]

\* The end of every action that ran.
Finish(e, f, q) ==
    /\ pc = "loop"
    /\ field' = f
    /\ queue' \in Resorts(f, q)
    /\ acted' = Append(acted, field.seat[e.at])
    /\ UNCHANGED <<pc, keyed>>

Busy == events < MaxEvents /\ events' = events + 1

\* A mon is knocked out (its Speed is then the bare stat), or dragged or ejected.
KnockedOut(f, at, speed) == [f EXCEPT !.down = @ \cup {f.seat[at]}, !.speed[f.seat[at]] = speed]
Replaced(f, at) == [f EXCEPT !.seat[at] = <<at[1], 2>>, !.replaced[at] = TRUE]

\* What a damaging or status move changes: these, a Speed, Trick Room, the
\* priority of a queued move (Encore, a terrain, an ability).
Changed(f, kind) ==
    CASE kind = "speed" -> {[f EXCEPT !.speed[f.seat[at]] = x] : at \in Places, x \in Speeds}
      [] kind = "room" -> {[f EXCEPT !.room = ~@]}
      [] kind = "priority" -> {[f EXCEPT !.priority[f.seat[at]] = x] :
                                  at \in {x \in Places : f.pending[x]}, x \in Priorities}
      [] kind = "faint" -> {KnockedOut(f, at, x) : at \in Places, x \in Speeds}
      [] kind = "replace" -> {Replaced(f, at) :
                                 at \in {x \in Places : <<x[1], 2>> \notin {f.seat[x], f.seat[Ally(x)]}}}

PlainMove(e) ==
    /\ field.seat[e.at] \notin field.rounds
    /\ \/ Finish(e, Used(e), Tail(queue)) /\ events' = events
       \/ \E kind \in Changes : \E f \in Changed(Used(e), kind) : Finish(e, f, Tail(queue)) /\ Busy
    /\ UNCHANGED <<granted, called>>

\* Puts the move of `at` first (-1) or last (1), for the rest of the turn.
Bias(f, at, bias) == [f EXCEPT !.keys[at].bias = bias]

Grants(f, at, bias) ==
    /\ granted' = [granted EXCEPT ![f.seat[at]].bias = bias]
    /\ called' = IF bias = -1 THEN {f.seat[at]} ELSE called \ {f.seat[at]}

AfterYou(e) ==
    /\ "afteryou" \in Kinds /\ Busy
    /\ \E at \in Places \ {e.at} :
          /\ field.pending[at] /\ Alive(field, at)
          /\ Finish(e, Bias(Used(e), at, -1), Reorder(Tail(queue), at, TRUE))
          /\ Grants(field, at, -1)

Quash(e) ==
    /\ "quash" \in Kinds /\ Busy
    /\ \E at \in Places :
          /\ at[1] # e.at[1]
          /\ field.pending[at] /\ ~field.replaced[at] /\ Alive(field, at)
          /\ Finish(e, Bias(Used(e), at, 1), Reorder(Tail(queue), at, FALSE))
          /\ Grants(field, at, 1)

\* The first Round still queued moves up, a fainted user's included.
Round(e) ==
    /\ field.seat[e.at] \in field.rounds
    /\ LET left == {i \in 2 .. Len(queue) : /\ ~field.replaced[queue[i].at]
                                            /\ field.seat[queue[i].at] \in field.rounds}
           at   == queue[CHOOSE i \in left : \A j \in left : i <= j].at
       IN  IF left = {}
           THEN Finish(e, Used(e), Tail(queue)) /\ UNCHANGED <<granted, called>>
           ELSE /\ Finish(e, Bias(Used(e), at, -1), Reorder(Tail(queue), at, TRUE))
                /\ Grants(field, at, -1)
    /\ UNCHANGED events

\* Mutated form: the keys stay with the places.
Exchanged_KeysStay(f, s) ==
    LET to(at) == IF at[1] = s THEN Ally(at) ELSE at
    IN  [f EXCEPT !.seat = [at \in Places |-> f.seat[to(at)]],
                  !.pending = [at \in Places |-> f.pending[to(at)]]]

\* Ally Switch: all that is kept by slot moves along, but replaced_mid_turn.
Exchanged(f, s) ==
    LET to(at) == IF at[1] = s THEN Ally(at) ELSE at
    IN  [f EXCEPT !.seat = [at \in Places |-> f.seat[to(at)]],
                  !.pending = [at \in Places |-> f.pending[to(at)]],
                  !.keys = [at \in Places |-> f.keys[to(at)]]]

\* Mutated form: the queue does not follow.
Followed_NotAtAll(q, s) == q

\* The queued actions of the side follow its mons.
Followed(q, s) == [i \in DOMAIN q |-> IF q[i].at[1] = s THEN [q[i] EXCEPT !.at = Ally(@)] ELSE q[i]]

AllySwitch(e) ==
    /\ "allyswitch" \in Kinds /\ Busy
    /\ Alive(field, Ally(e.at))
    /\ Finish(e, Exchanged(Used(e), e.at[1]), Followed(Tail(queue), e.at[1]))
    /\ UNCHANGED <<granted, called>>

Act ==
    /\ queue # <<>> /\ Ran(Head(queue))
    /\ LET e == Head(queue)
       IN  \/ PlainMove(e)
           \/ Round(e)
           \/ /\ field.seat[e.at] \notin field.rounds
              /\ AfterYou(e) \/ Quash(e) \/ AllySwitch(e)

Next == Build \/ Skip \/ Act

Spec == Init /\ [][Next]_order
-----------------------------------------------------------------------------
(* Properties.                                                              *)

\* The actions whose own mon is there to run them, and the first of them.
Able == {i \in DOMAIN queue : Ran(queue[i]) /\ field.seat[queue[i].at] = queue[i].mon}
FirstAble == queue[CHOOSE i \in Able : \A j \in Able : i <= j].mon

\* The order the rules give, from what each mon was granted, wherever it now
\* stands.
Earlier(m, n) == Before(Key(field, m, granted[m]), Key(field, n, granted[n]))

\* No mon acts while one is waiting that by now is ahead of it: the queue is
\* in order for the speeds, priorities and Trick Room of this moment
\* (order.rs resort_remaining, after every move that ran).
ActsInTurn ==
    Able # {} => \A i \in Able : ~Earlier(queue[i].mon, FirstAble)

\* After You and Round hold: the mon they named is the next to act if it still
\* can, whatever the sort that follows makes of its Speed (battle.rs
\* finalize_move_resolution).
NamedIsNext ==
    \A i \in Able : queue[i].mon \in called => queue[i].mon = FirstAble

\* Who acts next is who the rules of this moment name.
NextIsDue == ActsInTurn /\ NamedIsNext

\* Nobody acts twice, and when the queue is empty everybody has acted who is
\* up and was not taken off the field, however the queue was rearranged.
EachOnce ==
    /\ \A i, j \in DOMAIN acted : i # j => acted[i] # acted[j]
    /\ \A i \in DOMAIN queue : queue[i].mon \notin Range(acted)
    /\ (pc = "loop" /\ queue = <<>>) =>
          \A at \in Places : (field.seat[at] \in Starters /\ ~field.replaced[at] /\ Alive(field, at))
                                => field.seat[at] \in Range(acted)

\* Every order the rules allow, and each as likely as the next: the swaps and
\* shuffles of order.rs ps_speed_sort, from whatever order the tail is in,
\* reach each sorted order by exactly one sequence of draws.
TiesAreFair ==
    \A q \in {queue, Reverse(queue)} :
        LET t      == Tagged(field, q)
            orders == {h \in [DOMAIN t -> DOMAIN t] : \A i, j \in DOMAIN t : h[i] = h[j] => i = j}
            sorted == {h \in orders : \A i, j \in DOMAIN t : i < j => ~Before(t[h[j]].k, t[h[i]].k)}
        IN  /\ {s.t : s \in SpeedSorts(t)} = {[i \in DOMAIN t |-> t[h[i]]] : h \in sorted}
            /\ Cardinality(SpeedSorts(t)) = Cardinality(sorted)
=============================================================================
