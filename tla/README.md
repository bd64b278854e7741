# Verification of vgc-engine

vgc-engine is a battle engine for Pokemon VGC written in Rust: it plays singles
and doubles battles turn by turn, speaks Pokemon Showdown's (PS) text protocol,
and carries a solver that searches the game tree.  This directory holds TLA+
models of its control: who is asked what and when, in which order answers take
effect, what is rerun, cached, cut off and reported.  The rules of the game
(damage, abilities, items, moves) are data to these models.

Sources are named relative to `src/crates/`; `core` is `vgc-engine-core/src`
and `solver` is `vgc-solver/src`.

## 1. Inventory

| Component | Source | State it keeps | Operations | Model |
|---|---|---|---|---|
| Choice and request session | `core/ps_session.rs` | turn-start battle, current stop and its requests, answers on file, picks of the running turn, log exposed so far, input log | `choose`, `undo`, `force_win`/`force_tie`, `tiebreak`, `reseed`, `take_new_requests`, `take_input_log` | `PsSession` |
| Choice parser | `core/ps_session.rs` (`Parser`) | one call's partial answer per slot | `choose_detailed`'s reading of `move`, `switch`, `team`, `pass`, `default` | `ChoiceParser` |
| Requests | `core/ps_request.rs` | none (built from a battle) | per-side request at each stop | `ChoiceParser`: what a request shows and hides |
| Battle stream | `core/ps_stream.rs` | PS log, send position, input log, end flag, output queue | `>` commands, `write`, `send_updates`, `read` | `PsStream` |
| Protocol log | `core/protocol.rs`, `core/battle_protocol.rs` | lines, chunks per view, stops | append, `add_sync`, `protocol_truncate`, stream of a view | in `PsSession`, as segments |
| Turn engine | `core/battle.rs`, `core/step_machine.rs` | two sides, field, running queue, phase | `step`, prologue, action loop, epilogue, replacements, mid-turn picks | `TurnLoop`; assumptions of `BattleScript` |
| Action order | `core/order.rs` | none (keys from a battle) | order keys, resort of the actions left, speed ties | `ActionOrder` |
| Move locks and the menu | `core/pokemon.rs`, `core/battle.rs`, `core/ps_request.rs`, `core/item.rs` | volatiles that shut moves, a cached summary of them | set, tick, cure, pass on, enforce; the menu, for agents and for requests | `MoveLocks` |
| Field timers | `core/weather.rs`, `core/terrain.rs`, `core/side.rs` | counters | set, tick, expire | not modelled: independent countdowns, each reset at one place |
| Damage, abilities, items, moves | `core/damage.rs`, `core/calc.rs`, `core/ability.rs`, `core/item.rs`, ... | tables | effects | not modelled: independent rules, compared with PS by the repository's own tools |
| Generators | `core/rng.rs`, `core/ps_rng.rs` | generator state | draws, recording, keyed oracle | keyed oracle and recording in `ChanceFrontier`; elsewhere a set of states |
| Chance enumeration | `core/chance.rs`, `solver/lib.rs`, `solver/factoring.rs`, `solver/compress.rs` | recorded draws | record, enumerate, replay, fixpoint | `ChanceFrontier` |
| Recursive solver | `solver/recursive.rs`, `solver/budget.rs` | transposition table, statistics, budgets, deadline | exact and bounded solve, iterative deepening | `EndgameSolver` |
| Matrix games | `solver/double_oracle.rs`, `solver/nash.rs` | row and column support | best responses until neither side gains; simplex | `DoubleOracle`, `ZeroSum` (exact arithmetic) |
| Positions, hashes, teams, formats, observation, bindings, tools | see `PROJECT.json` | none of their own | conversions | not modelled: pure conversions or test harnesses |

How they interact.  A stream owns a session; it feeds it choices and forced
ends, and copies newly exposed log lines and committed choices out of it.  A
session owns the turn-start battle; it builds it with a closure (`BattleBuilder`)
at team preview and calls `Battle::step` for whole turns.  The battle writes the
protocol log and, in it, the stops (`SyncPoint`) the session stands at.  The
solver owns battles of its own, clones them, and shares one transposition table
between solves.  Nothing in the core runs concurrently: interleaving comes from
the two players, who answer in any order and may take answers back; from the
caller, who may force an end or reseed at any point; and from deadlines and
budgets that cut a solve off anywhere.

What is hard.  The engine cannot stop inside a turn, so the session reruns the
turn every time a mid-turn switch is chosen, and what it already showed must not
change (replay).  A choice can fail after part of it was stored (partial
failure).  Flags and answers of one stop must not leak into the next (stale
state).  The turn must go on exactly when the last answer comes, whoever gave it
(ordering, deadlock).  Mid-turn picks are matched to switches by position
(ordering, capacity).  A value computed under a budget must not pass for an exact
one (stale state, timeouts).  A queue is sorted again while the mons it names move
(ordering), and a summary kept beside the data it sums up must follow every
setter (stale state).  `PROJECT.json` lists each hazard at its line.

What makes each component correct.

* Session: it plays the battle PS would play.  Shown lines never change; every
  decision has one answer of everybody asked and of nobody else; no flag locks a
  player out; if players keep answering the battle moves on; the input log is
  what was played.
* Parser: an accepted choice answers every slot asked and switches no mon in
  twice; a refused one says why and leaves nothing behind.
* Stream: every line is sent once and in order, requests after the log that
  led to them, one end record and nothing behind it.
* Turn engine: a pick answers the switch it was asked for; nobody acts from the
  bench or twice; a fainted slot is refilled or declared empty.
* Order: after every move the next to act is the one the Speeds and priorities of
  that moment name; ties are drawn evenly.
* Locks: the summary says what the volatiles say; both menus shut the same moves;
  no locked move goes off.
* Chance: a turn's outcomes have the turn's own probabilities.
* Solver: a value stored as exact is exact whatever the budget and whoever
  stored it; iterative deepening returns the last finished depth; double oracle
  stops only at an equilibrium.

## 2. Modules and plan

| Module | Models | Checked by the runs | Proofs in |
|---|---|---|---|
| `BattleScript`, `PsSession`, `IncrementalBattle`, `SessionFeed` | the session, what it promises, and what its stream sees of it (section 3) | `session`, `session_progress` | `PsSession_proofs` |
| `PsStream` (over `SessionFeed`) | the stream (4) | `stream` | `PsStream_proofs` |
| `ChoiceParser` | requests and the reading of an answer (5) | `choices` | `ChoiceParser_proofs` |
| `TurnLoop` | a turn (6) | `turn_items`, `turn_moves` | `TurnLoop_proofs` |
| `ActionOrder` | the queue of a turn (7) | `action_order` | `ActionOrder_proofs` |
| `MoveLocks` | locks on moves and the two menus (8) | `move_locks` | `MoveLocks_proofs` |
| `EndgameSolver` | the recursive search (9) | `solver` | `EndgameSolver_proofs` |
| `DoubleOracle`, `ZeroSum` | matrix games (10) | `double_oracle`, `zero_sum` | `Solver_proofs` |
| `ChanceFrontier` | the outcomes of a turn (11) | `chance_frontier` | `Solver_proofs` |

They fit together.  `PsStream` is checked over `SessionFeed`, which `PsSession`
is proved to implement.  `PsSession` takes the engine as a constant that
satisfies `BattleScript`'s assumptions and a parser with three outcomes;
`TurnLoop` shows where a turn stops, `ChoiceParser` where those outcomes come
from.  `TurnLoop` takes the actions left in any order, `ActionOrder` says in
which.  `EndgameSolver` lets the oracle look at any cells in any order,
`DoubleOracle` says which; `DoubleOracle` takes any solution of a sub-game,
`ZeroSum` finds one.  `ChanceFrontier` gives the children that the solver's
cells average over.

What is left, in the order of its worth: locked-in, charging and recharging moves in `MoveLocks`; damage-roll segments
and the compressed frontiers of `solver/compress.rs` and `solver/factoring.rs`;
the field's countdowns.

## 3. Session

### Modules

* `BattleScript` - the engine as a session sees it.  A battle is a script of
  *segments*, each a log line token and the stop after it (`SyncPoint`: kind,
  sides asked, requests that hide a trap or a lock).  `Turn(g, main, mid)` is
  `Battle::step` on the choices `run` hands over: the main answers and, per side,
  only the switches among the mid-turn answers (`Picks`; `Pass` is dropped).
  Its content is the constants `Opening` and `Play`.
* `PsSession` - the session itself, one action per public operation.
* `IncrementalBattle` - what the session promises: a battle that stops where it
  needs a decision and goes on from that very point.
* `MCPsSession` - a small engine for TLC.
* `PsSession_proofs` - theorems.

### State

| TLA+ | Rust (`PsSession` field) |
|---|---|
| `base` | `base`: battle at the start of the decision; its log, the lines really simulated (`played`, history), its stops, generator, result |
| `shown` | `shown`: at a mid-turn stop the replay whose log was shown; `NoBattle` is `None` |
| `stop`, `open`, `maybe` | `stop`, and of `reqs`: `state != Wait`, and a `maybeTrapped`/`maybeLocked`/`maybeDisabled` flag |
| `main`, `mid` | `main`; `mid` with `mid_answered`, as one joint answer per stop |
| `answered`, `choiceText`, `cantUndo` | the same |
| `raw` | `raw` and `raw_pos` |
| `newRequests`, `inputLog`, `ended` | the same |
| `rejected`, `commits`, `drained` | history only: never read by a guard except the bound `MaxCommits` |

### Actions

| Action | Code |
|---|---|
| `Accept(s, a, hides)` | `choose_detailed`, `Ok`: file the answer, then `advance` if it was the last |
| `Refuse(s)` | `choose_detailed`, `Err`: the old answer is gone, `[Unavailable choice]` may reveal what the request hid |
| `RefuseFilled(s, a, hides)` | `choose_detailed`, `Err` after the parts read already fill the side: they stay on file, the battle does not move on |
| `Rebuff(s)` | the early returns of `choose_detailed` and `undo` |
| `Undo(s)` | `undo` |
| `Advance` | `advance`, `run`, `settle`, `expose` in one step: commit, replay, find the first stop without an answer, show up to it |
| `End(v)` | `force_win`, `force_tie`, `tiebreak` through `end_with`, `protocol_truncate` |
| `Reseed`, `TakeNewRequests`, `TakeInputLog` | the same |

`Init` covers formats with and without team preview.  The parser is its three
outcomes; which error text a player reads is not modelled.  `observe` and
`set_reveals` only read, `reload_battle` is a test hook.

### Properties

* `ShownIsPlayed` (`ExposedIsLog`, `ShownIsReplay`) - rerunning turns never shows
  a line twice, skips one or changes one, although `expose` compares only counts;
  half a turn on show is the turn that would be played again.
* `EveryoneAskedAnswered`, `NobodyStuck` (`NobodyLockedOut`,
  `StallsOnlyAfterRefusal`) - the battle moves on with exactly the answers asked
  for; a final choice never outlives its stop; the only way to stand still with
  every answer in is an answer left by a refused choice (completeness is looked
  at only on success).
* `InputLogIsHistory` - the lines handed out and still kept are the answers the
  battle was played with.
* `ImplementsIncremental` - the session is a refinement of `IncrementalBattle`.
  Mapping: transcript = lines shown, point = the stop, sealed = answers on file,
  turn = generator, main and mid answers of the running turn.
* `FeedsTheStream` - the session is a refinement of `SessionFeed`, the view that
  `PsStream` has of it.
* `Progress` - with one slot a side and no Cancel Mod, `WF(AcceptSome(s))` for
  each side brings every decision about.  The fairness says that a player who can
  answer eventually sends an acceptable answer; nothing in the session itself is
  scheduled, so no other fairness is assumed.  Without Cancel Mod a player can
  not withdraw an answer; with it two players can take back answers for ever, and
  with two slots a refused choice can stall the battle (`StallsOnlyAfterRefusal`),
  so neither is claimed.

### Runs

| Run | Shows | Bounds |
|---|---|---|
| `session` | all safety properties and the refinement, doubles, Cancel Mod, reseeds between turns | 2 sides, 2 main answers, 2 picks, 2 generator states, up to 2 mid-turn stops a turn, 3 joint answers |
| `session_progress` | `Progress` | singles, no Cancel Mod, 3 joint answers |

Why the bounds are enough.  Three joint answers are a preview, a turn and a
mid-turn stop, or a preview-less turn with both its mid-turn stops: every path
through `advance` follows every other.  The TLC engine stops a turn twice in a
row, or once for both sides, or not at all; turns end in a move request, a
replacement, or the end; each line names the generator, the answers and the picks
it depends on, so a wrong replay writes a different line.

`session` allows reseeds between turns only; a reseed inside one does change what
was shown (section 13).

## 4. Stream

`PsStream` is the protocol around one session: one action per `>` command, each
line run at once, and the end of the chunk that sends what the battle wrote, the
requests and the end record.  It sees its session through `SessionFeed`: a log
and a list of committed choices that only grow, and a flag raised by every stop
until its requests are taken.

| TLA+ | Rust (`BattleStream`) |
|---|---|
| `log`, `sentPos`, `sessionSeen`, `taken` | `log`, `sent_log_pos`, `session_seen`, the choices drained from the session |
| `out`, `closed`, `sentEnd` | the output queue, the closed flag, the sent-end flag |
| `Start`, `Join`, `Choose`, `Heard`, `Talk`, `ForceEnd`, `RequestData`, `Throw`, `Ignored` | `>start`, `>player`, `>p1`/`>p2`, refused or revealing answers, chat, the forced ends, `>requestlog` and its like, a line that raises, lines without effect |
| `Pull`, `SendUpdates`, `EndChunk` | `pull_session`, `send_updates`, the end of `write` |

Properties: `ReadersGetItOnce` (each line once and in order, however the input is
cut into chunks and however many chunks were given up; one end record and nothing
behind it), `LogCarriesBattle` (the stream's log holds the battle's lines, and its
input log every committed choice once; lines of the kinds that the stream writes
too, `|t:|` above all, are not compared, so one of those lost or doubled inside the
battle would not show), `RequestsArrive` (`RequestsFollowLog`: a
request comes behind the log of its stop and before what follows; `NobodyWaits`:
the early return on an unchanged log leaves no request or end unsent).

Run `stream`: a battle of six lines that opens with the lines a stream writes by
itself, three combinations of keep-alive, replay and rated, `MaxInput` 5,
`MaxOut` 8, `MaxTalk` 1 (1.5 million states).  Two joining players, the start and
two stops use up five input lines; eight messages hold two updates, two pairs of
requests, an end and a message behind it.  No fairness: the stream does nothing
by itself.

Left out: JSON, team packing, the split of a log into views, the byte framing of
`run_simulate_battle`; players named inside `>start` are entered as `>player`.

## 5. Choice parser

`ChoiceParser` is one side answering one request: `ps_request.rs` builds the
request from the battle and hides some of it; the `Parser` of `ps_session.rs`
reads the answer part by part.

| TLA+ | Code |
|---|---|
| `battle`, `shown` | what is so, and what the request of each slot says of it |
| `p`, `left` | `Parser` in the middle of a string; the parts to come |
| `file`, `cantUndo` | the answer kept, `cant_undo` |
| `insists` | a client that has fallen back on `default` |
| `Send`, `ReadPart`, `Close` | `choose_detailed`: the parts, and what is kept of them on success and on failure |
| `ReadDefault`, `AutoSlot`, `AutoDone` | `auto_choose`, slot by slot |
| `Undo` | `undo`: the request now tells what the answer found out |
| `FallBack` | `docs/protocol.md:817`: a client whose choices are refused sends `default` |

Properties: `OnFileIsLegal` (what is kept of a string, accepted or refused, can be
played, at a move or replacement request: judged by the battle, not by the request;
team preview is left out, section 13), `FinalMeansAnswered` (a side
that may not answer again has an answer), `NoFreeProbe` (taking back an answer
that found out a hidden trap or lock leaves the request telling it),
`DefaultIsAnswered` (a client that goes on sending `default` is answered).

Run `choices`: doubles, four mons, two moves, three-mon previews, every mix of
fainted, commanding, locked, trapped and Imprisoned mons, up to three parts with
numbers off the ends of every range, Cancel Mod.  Fairness: `WF(Parse)`, a call
that runs, and `WF` of an insisting client's `Send`.  A mon whose every move is
hidden by an Imprison is left out of the inputs (section 13).  Left out: names
and the JSON; triples, whose `shift` is only refused.

## 6. Turn

`TurnLoop` is one turn of `Battle::step_one` in doubles with `decision_phases`,
the mode sessions use.

What is kept: who stands where (`active`, `ps_order`), who has fainted, the
pending-switch flag of each mon, the latches `replaced_mid_turn` and
`pursuit_consumed`, the picks used, the queue with its slots, the drag flags, the
win.  What is abstracted: damage is who faints (at most `MaxKO` by an action);
speed, priority and every reordering are *any* order of what is still queued;
the five kinds of move are a hit, a pivot, a phazing move, Ally Switch and
Revival Blessing, and any mon may use any kind allowed in the run.

| TLA+ | Code (`battle.rs`) |
|---|---|
| `Begin`, `Fresh` | `StepPhase::Start`, `turn_prologue` |
| `PreTurnSwitch` | `apply_pre_turn_switches`, `try_pursuit_interception` |
| `RunAction` with `Skip`, `Attack`, `Phaze`, `AllySwitch`, `Revive` | `StepPhase::ActionLoop`, `process_one_action`, the reactive items, `finalize_move_resolution` |
| `Drag` | `run_pending_drags`, `force_switch_random` |
| `EmergencyExits`, `Sync` | `trigger_emergency_exits`, `p_mid_turn_sync` |
| `Answer` | the session's answer to a mid-turn stop |
| `Sweep`, `SweepSlot` | `apply_self_switches` |
| `EndOfActions`, `Residual` | `turn_epilogue` |
| `Replace` | `apply_replacement_switches` and the winner |

The engine gets the picks of a stop by being run again with them; here they are
made at the stop, and that the rerun reaches the same stop is `TurnIsStable`, the
assumption `PsSession_proofs` makes of the engine.  `acted` and `crossed` are
history: who acted on whose action, who left or entered this turn.

Properties: `ActionsFollowMons` (nobody acts twice, or on an action chosen for
another mon, and nobody's action is lost), `Positions` (the two slots hold two
mons, and `ps_order` has them first, as long as one mon a side at most is made to
leave by its item or ability; in both runs, whose ways into a slot differ), `PicksUsed` and `SweepTakesPicks` (a pick is
used in the sweep after its stop, by the slot that was asked), `StopsAskSomeone`,
`OverWhenOut`, `TurnEnds`.

| Run | Shows | Teams |
|---|---|---|
| `turn_items` | Red Card, Eject Button, Emergency Exit, Pursuit and Roar, with drags, picked and automatic switches, and what a turn leaves to the next | 3 against 2, two turns |
| `turn_moves` | pivots, Ally Switch, Revival Blessing and Pursuit; `SweepTakesPicks`, `TurnEnds` | 3 against 3, one turn |

The runs keep apart Ally Switch with forced switches or drags, and two
forced switches over one reserve: there the code fails (section 13).  They also
keep to two picks a side in a turn, the places of `deferred`
(`battle.rs:7341`): a third pick would be dropped.  Bounds: two slots
need one reserve for a switch; one knock-out an action lets a pivot take the last
foe; a second turn is where a stale latch bites.  Each side
uses Revival Blessing once.  Deadlock is not checked: a battle is over, or has had
its turns.

Fairness: `WF(Step)`.  `step_one` is called until it is done, and a player asked
at a stop answers; `Begin` and `Replace`, which wait for the main choices, have
none.

Left out: the chance yields, Commander, Encore and Instruct, Eject Pack and
switch-in abilities, entry hazards other than under a replacement, Baton Pass and
Shed Tail (a pivot to this model), singles.

## 7. Action order

`ActionOrder` is the queue of one doubles turn: its keys and sorts of
`core/order.rs` with their callers in `battle.rs`.

| TLA+ | Code |
|---|---|
| `queue` | the `order` of the turn from the running index on: where an action is bound, and whose it was |
| `field` | what keys are read from: who stands where, Speed, priority, Trick Room, `TurnKeys`, the latches of each place |
| `Build` | `action_order_keyed`: keys, the sort, Quick Claw and its like |
| `Skip` | the head has no mon to run it: fainted, replaced, already run |
| `Act` | `process_one_action` and `finalize_move_resolution`: the move, After You, Quash, Round, Ally Switch, then the re-sort of `after_move_action` |
| `granted`, `called`, `acted` | history |

Properties: `NextIsDue` (`ActsInTurn`: no mon acts while one is waiting that by now
is ahead of it; `NamedIsNext`: After You and Round survive the sort that follows),
`EachOnce` (nobody acts twice, and who is still there at the end has acted),
`TiesAreFair` (the selection sort with its shuffles reaches each order the rules
allow by exactly one sequence of draws).

Run `action_order`: four mons, two Speeds, two priorities, a Quick Claw, two
events a turn (689 298 states): two let one undo or cross the other.
No fairness.  How a Speed, a priority or a fractional key comes about is data;
an Encore that requeues a move is a change of priority.

## 8. Move locks

`MoveLocks` is one place on the field, whoever stands in it, while foes and
partners do anything that touches a lock.

| TLA+ | Code |
|---|---|
| `mon` | the volatiles of `pokemon.rs`, and `locks`, the summary `move_locks` kept beside them |
| `queued`, `used` | the move of its action; the one that went off |
| `room`, `sealed`, `champions` | Magic Room, a foe that used Imprison, the format's Encore rule |
| `Choose` | the menu (`legal_choices_into`) and the `choicelock` of the prologue |
| `Act`, `Wait` | `resolve_move_with_pending`: Encore's override, the checks before a move, PP and the Choice lock; its early returns |
| `SwitchOut`, `Drag` | `do_switch`, with Baton Pass and a fresh mon |
| `Others` | Encore, Disable, Taunt, Throat Chop, Heal Block, Torment, Spite, cures, items that change hands, Magic Room, Imprison |
| `EndTurn` | the epilogue's `Update` and countdowns |
| `held`, `spent`, `due` | history: moves used since the Choice item has been at work; actions a lock has fallen on, and was meant to |

Properties: `LocksCached` (the summary is what the volatiles say), `MenusAgree`
(an agent's menu, from the summary, and a request, from the volatiles, shut the
same moves, but for the one used last), `OneMoveEach` (a Choice holder uses one
move, through Magic Room and back), `EncoreBinds` (no other move goes off under an
Encore, whenever it landed), `LocksCostTheSame` (a timed lock falls on as many
actions whether it lands before or after its target acts).

Run `move_locks`: two slots, one a status and healing move with Baton Pass, one
sound move that cannot be used twice; 2 PP; three interferences (318 723 states):
enough for a lock, its cure or Magic Room, and a second lock.  Two moves tell the
locked one from the others; 2 PP let a move run out under a lock.  No fairness.
Left out: locked-in, charging and recharging moves, Gravity, Assault Vest, Aroma
Veil, called moves, Pressure, moves that Encore can not hold, the Champions gate of
Fake Out.

## 9. Endgame solver

`EndgameSolver` is the depth-limited search of `solver/recursive.rs` over one
transposition table.  A value is abstracted to where it comes from: the kinds of
leaf it rests on (finished battles, the depth limit, a budget, a refused cell, a
failed oracle, an abort) and the plies searched before the
nearest depth-limited one.  The oracle may look at any cells, in any order, and
stop after any of them: whatever double oracle does is among those runs.

| TLA+ | Code |
|---|---|
| `Ask`, `Answer` | `endgame_solve_bounded`, one-shot or anytime |
| `SolveRoot`, `Solve`, `Verdict` | `solve` up to the oracle: abort, terminal, table, depth, node budget |
| `Payoff`, `Outcome` | `RecursiveGame::payoff`: late, refused, opened; one child after the other |
| `Finish` (`Abort`, `Converge`, `Fail`), `Insert` | `solve` from the oracle on |
| `DeadlinePasses` | `budget.rs`: the deadline may pass at any check |
| `Deepen` | `endgame_solve_anytime` |

Properties: `LabelsHold` (`NothingAborted`: nothing kept rests on an abort;
`ExactIsSolved`: a node labelled exact rests on finished battles only;
`TruncationTold`: an answer that reports no cut searched the whole depth, over a
table nothing had cut), `DeepAsClaimed`, `AbortUnwinds`.

Run `solver`: two open positions that lead to each other, `MaxDepth` 3, two
requests (eight configurations), tables kept or fresh.

Two positions that return to each other, searched three deep, meet every position
inside its own search, at a smaller depth: this is what the table must survive.
No fairness, and no property of termination: the recursion is bounded by its depth.

Left out: compressed frontiers, action lists and their pruning, the root's action
values, the arithmetic of payoffs, the seeding policies of a table, the exact-HP refinement
of the hash, callers that reuse their statistics (none in the repository).

## 10. Matrix games

`DoubleOracle` is the whole loop of `solver/double_oracle.rs`: `Validate`, `Abort`,
`LpFails`, `Converge` and `Expand` (on any solution of the sub-game's program), with
its cache and cap.  `ConvergedIsNash`: what is returned as converged is an equilibrium of the
whole game.  `CapNeverBinds`: the cap on iterations is never why the loop ends.
Run `double_oracle`: all 3 by 3 games of wins and losses and rock, paper, scissors
(whose equilibrium needs every action), initial supports of one action, of two,
empty and out of range; probabilities over `Weight` 6, which holds the halves and
thirds such games need.

`ZeroSum` is `solver/nash.rs`: the tableau simplex with Bland's rule, a pivot a
step (`Step`), until nothing improves or the cap is reached (`Finish`).
`NeverBack`: no basis comes back (nash.rs:144 promises it).  `SaddlePoint`: there
is an answer, and under the cap its two strategies hold each other to the value.
Run `zero_sum`: every matrix up to 3 by 3 over -1, 0 and 2, degenerate ones
included, with a cap of 4 that a few of them reach.  The arithmetic is exact: the
entries of a tableau stand over one denominator, in lowest terms (`Lowest`), which
changes none of them.  The code's f64 and its `EPS` are not modelled, so this shows
the algorithm right, not its rounding.

Both end, so deadlock is not checked; neither needs fairness.

## 11. Chance

`ChanceFrontier` is `enumerate_outcomes_bounded` (`solver/lib.rs`): `Record` plays
a turn once and records its draws; `Replay` plays each cell of their cross product
through the keyed oracle of `core/rng.rs`; `Fold` adds the draws the replays
missed and starts over, up to a bound of rounds; `Trip` is the deadline or budget.

`PriorsAreRight`: a frontier with nothing unmatched gives every outcome the
probability the turn's own thresholds give it, whichever path was recorded, where
each key asks with one threshold.  `EachPassDeeper`: a pass sees one draw further
on every path at once, so the rounds end by themselves.

Run `chance_frontier`: every tree of up to three draws under two keys, three pairs
of thresholds and one that differs between the draws of a key, every
fallback stream, caps of 1 and 2, products up to 16 cells.  Three draws let one
path miss two of a key.  No fairness.  Left out: damage-roll segments, speed ties,
the battle kept for merged outcomes, compression and factoring.

## 12. Proofs

### The session

`PsSession_proofs` proves, for any set of sides, answers, generators, any
engine that satisfies the assumptions and any bound:

* `TypeCorrect`: `Spec => []TypeOK`.
* `DecisionsSound`: `Spec => [](EveryoneAskedAnswered /\ NobodyLockedOut /\
  StallsOnlyAfterRefusal /\ InputLogIsHistory)`; `NobodyIsStuck` and
  `InputLogFaithful` restate its parts as the runs name them.
* `ReplayFaithful`: if nobody reseeds inside a turn, `Spec => []ShownIsPlayed`.
* `SessionRefines`: if nobody reseeds inside a turn,
  `Spec => ImplementsIncremental`.
* `SessionFeeds`: under the same hypothesis `Spec => FeedsTheStream`, so what
  `PsStream` takes for granted of its session is what the session does.

Assumptions.  `SidesAssumption` and `SessionAssumption` type the constants.
`TurnShape` and `OpeningShape` say what a turn is: some mid-turn stops, then a
stop or the end.  `TurnIsStable` is what the engine owes the session: a pick that
answers a stop cannot change what was played before that stop.  TLC evaluates all
of them for the small engine.

Inductive invariants.

* `TypeInv` adds to `TypeOK` that answers on file answer the current stop and
  that a turn waiting for a pick has room for it; without it `Advance` could
  queue a main answer as a pick.
* `Decided` adds `AnswerInv`: only sides asked have answers, the text that will
  be logged is the answer that will be played, and nobody is open once the battle
  ended.  `NobodyLockedOut` alone is not inductive: `Undo` clears an answer
  without clearing `cantUndo`, and only the guard `s \notin cantUndo` saves it.
* `ReplayInv` says where the shown lines come from: inside a turn the battle
  shown is the rerun of (base, main, mid) and stops at its first unanswered stop
  (`InsideTurn`); between turns it is `base` (`BetweenTurns`).  A rerun with one
  pick more agrees with it up to that stop (`PicksReplay`, from `TurnIsStable`),
  so exposing by count is right (`ExposeMore`), and it plays exactly one segment
  more (`RunPlaysOne`), which is one step of `IncrementalBattle`
  (`AdvanceResolves`).

The hypothesis `"MidTurn" \notin ReseedAt` is needed (section 13).

### The solver

`EndgameSolver_proofs` proves `LabelsAreTrue` (`SolverSpec => []LabelsHold`),
`EntriesAreDeep` (`[]DeepAsClaimed`) and `AbortsUnwind` for any positions, moves,
requests and depths.  The only assumption beyond types is that a depth asked for
is at least one, as `cfg.max_depth.max(1)` makes it (`recursive.rs:722`).  The
inductive invariant `SolverInv` has a part for each piece of state: `Typed`;
`StackOK`, what each open node has gathered so far is accounted for - a cut is
counted in the statistics or the search is late - and the stack's depths go down
by one; `CallOK`, the node being opened belongs to the node that asked;
`TableOK`, entries rest on no abort, are as deep as they claim and, while a
request that found a clean table runs, any cut in them is counted; `BestOK` and
`AnswerOK`, the same of the kept iteration and the answer.  The properties alone
are not inductive: an entry is written from a frame, so the frame has to carry
them.

### Double oracle

`Solver_proofs` proves, for any numbers of actions, games, seeds and
precision: `GlobalEquilibrium` (`Spec => []ConvergedIsNash`: a response outside
the supports cannot gain because the loop would have grown, one inside cannot
because the program's solution is a saddle point), `CapIsSpare`
(`Spec => []CapNeverBinds`, from `iterations + 2 <= |rows| + |cols|`: each round
that goes on adds an action) and `ValuesAreFree` (after convergence the cells that
`row_values` and `col_values` read are all paid for).

### The simplex

`Solver_proofs` proves `SaddlePointHolds` (`SimplexSpec => []SaddlePoint`),
`NeverBackHolds` (`SimplexSpec => NeverBack`) and `PivotsAreFewHolds` for any number
of rows and columns, any integer payoffs and any cap, from `ZeroSumAssumption`
alone.  Integers are no loss: a matrix of rationals is one of integers, scaled.

Neither property is inductive: they speak of the matrix, a pivot of the tableau.
What ties the two is `Reached`.  A tableau is `Canonical` (each basic column is
that of the denominator in its own row, nothing elsewhere), its right-hand sides
are nonnegative (`Feasible`), and its rows span those of the first tableau and are
spanned by them (`Spans`).  A row u is *spanned* when it is the sum of the rows, each
times what u has in that row's basic column, and a multiple of the objective; over
canonical rows there is no choice of coefficients, so the sum can be written down
(`Weighed`) and a pivot carried through it (`SpannedEliminated`, `SpansMoved`,
`SpansOn`).  The ratio test keeps the right-hand sides (`CanonicalOn`, `RhsOn`).

* There is a row to leave (`RowOpen`): if no entry of an improving column were
  positive, the first tableau's, which are raised to at least 1, could not be sums
  of them.
* An optimum is an equilibrium (`OptimalIsSaddle`).  The last objective row, spanned
  by the first tableau, is its objective plus the rows times the slack entries: that
  is `RowWeights`, and the entries over the columns say what each column pays it
  (`RowsWin`).  The right-hand sides are spanned the same way, which gives what each
  row pays `ColWeights` (`ColumnsLose`) and that both weigh the same
  (`ColumnsWeighSame`).
* There is an answer at the cap too: the first pivot makes the objective
  positive and none lowers it (`PivotPays`).

`NeverBack` needs the past: `TrailInv` says that there is a `Trail`, a sequence
of tableaus with the row and the column each was left by, to the one there is.  Bland's
argument is `NoCycle`.  Were the same variables basic twice, the objective would not
have risen between (`SameValue`, `PivotRaises`), so every row pivoted there has a
right-hand side of 0, all along (`CycleNothing`).  The highest variable e that enters
in the cycle also leaves in it (`CycleLeaves`), for a lower one, s.  Take the
objective row from where e enters and span it by the tableau where e leaves: there s
still improves, in the other it does not, so some row r has to make up for it (`SomeRow`).  The
basic variable x of r enters and leaves in the cycle too and is lower than e; its row
ties with that of e, at 0, and Bland's rule would have taken it.  `NoCycle` is about
the *sets* of basic variables, which is more than `NeverBack` says and gives
`PivotsAreFewHolds`: fewer pivots than such sets, at seven by seven 3432, so the
cap of 5000 does not bind up to there.

### The chance frontier

`Solver_proofs` proves `EachPassDeeperHolds` (`FrontierSpec => []EachPassDeeper`),
`CapIsForLongTurnsHolds` and `PriorsAreRightHolds`
(`FrontierSpec => []PriorsAreRight`) for any turn, any set of keys, any scale of
the thresholds, any fallback stream, any cap and any bound on the product, from
`FrontierAssumption` alone.  A replay is a function of the number of draws, and what
holds after each is proved by induction on that number (`Counting`).

The first two follow from `DeepInv`.  Its core is `PassIsDeep`: in the pass after
n rounds no cell of the product misses one of its first n + 1 draws.  It is kept
because what a replay missed is on record (`MissesNoted`), the record's keys all
come back as sites (`DiscoveredIs`), and a longer table changes nothing of a replay
before its first miss (`SameUntilMiss`): the new sites stand behind the old ones
in every queue, so the old ones are still taken first.  Then the draw that was the
first miss is on file, and the next pass sees one draw more (`SeesFurther`).
`MissesNoted` in turn needs to know which cells have been replayed: those the
odometer has passed (`TurnedIsNext`, `LastIsLast`).  `CapIsForLongTurns` turns
`DeepInv` into numbers: with `MAX_LAZY_ITERATIONS` at 16 a draw stays unmatched only
in a turn that may draw eighteen times.

`PriorsAreRight` compares a sum over cells with a product along a path.  Neither is
compared directly; both count the same thing, the *vectors*: a roll of 1 to Den for
every site, `Vectors(Len(sites))`.  A cell is the set of vectors that fall into it,
as many as its prior (`PriorCounts`, from `Slice`: of vectors that may have any roll
at a site, those with a roll in A are to all as A to the rolls).  `FairInv` adds
to `DeepInv` that the mass of a state is the number of vectors in the cells merged so
far that end there (`MassIs`): a replay adds a set disjoint from the rest,
because no cell is replayed twice.  When the answer has no misses, no cell misses
anything (`DoneClean`), and where each key asks with one threshold every site is
asked with the threshold it was expanded with (`SitesAsk`).  Then the vectors that
go down a path for n draws agree on which sites are left and may have any roll there
(`Even`), so the next draw takes a roll nothing has restricted yet, and its share
goes on (`ReachNext`).  At the end of the path the share is its law (`EndsCount`).
The sites a path never asks are the ones left: they divide out.

### Move locks

`MoveLocks_proofs` proves `SummaryIsRight` (`Spec => []LocksCached`) and
`MenusShutTheSame` (`Spec => []MenusAgree`) for any moves, PP up to four, kits and
interferences, with no bound on their number.  The invariant is `Kept(mon)`, typed
with its summary right, and that the queued move is a slot; a lemma for each
setter, tick, cure and copy says that it keeps `Kept`.

`ChoiceHolds` (`Spec => []OneMoveEach`) and `EncoreHolds` (`Spec => EncoreBinds`)
need `BothInv`, which adds two parts.  `HeldInv`: the moves used since the Choice
item has been at work are none, or the lock alone - a count of at most one does
not say that the one is the move the lock will enforce.  `EncoreInv`: an Encore
names a move, and under Champions' rule, which overrides nothing when the mon
acts, a move already queued is that one or Struggle.

`CostsTheSame` (`Spec => LocksCostTheSame`) needs `CostInv`, which ties the
histories to the countdowns: what a lock has cost plus its countdown is what it is
due, one more once this turn's action is behind it, because the tick at the end of
the turn is still to come.  A mon that came in this turn is past that action too.

### The stream

`PsStream_proofs` proves `TypeCorrect`, `ReadersGetItOnceHolds`,
`LogCarriesBattleHolds` and `RequestsArriveHolds`, the type invariant and all
three properties of the run, for any script the battle may write, any finite set
of players, any options and any bounds.  `StreamAssumption` asks that the
preamble's lines, `chat` and `rated` are lines of the stream's own, and types the
rest.

The inductive invariant `StreamInv` adds to the properties what they need of each
other.  `BattleInv`: the battle has written its script up to here and stands at
its last stop.  `SentInv`: what readers were told is the log up to `sentPos`; an
end is sent only when there is one, and closes the stream.  `EndInv`: no end
record without `sentEnd`.  `AskInv`: no request for a stop to come.  `WaitInv`:
whatever waits to be sent has left a line in the log that waits too - this is why
the early return of `send_updates` strands nobody, and it holds because no step
of a battle is silent.  TLC checked `StreamInv` on the run's states first.

A `>` line adds x to the log and y to the input log (`Grows`) and leaves the
battle alone, opens it or moves it on; or it says something that tells no line;
the end of a chunk sends.  Each class preserves each part.

### The choice parser

`ChoiceParser_proofs` proves `AnswersAreLegal` (`Spec => []OnFileIsLegal`),
`FinalAnswers` (`Spec => []FinalMeansAnswered`) and `UndoTellsNothing`
(`Spec => NoFreeProbe`) in singles and doubles, for any team size, any moves, requests and
strings, from `ParserAssumption` alone.  `Spec` has no fairness; the run's
`FairSpec` implies it.

`OnFileIsLegal` is not inductive: a part is judged when it is read, by counters
and by the request, not by the battle.  `IInv` says that the request is honest
(`Honest`: only the last slot that chooses is ever told `maybe`), that each part
read is legal for its slot and noted (`Slotwise`), and that the counters are what
the parts have spent (`Counted`).  `SwitchLeft` is the count behind forced
switches: while a forced slot is unanswered and no pass is left, some mon of the
bench is unspoken for.

### The turn

`TurnLoop_proofs` proves, for any number of mons a side, any allowed moves, any
items and abilities and any number of turns:

* `TypeCorrect` and `OverWhenOutHolds` (`Spec => []OverWhenOut`), with no
  hypothesis.
* `PositionsHold` and `StopsAskSomeoneHolds` (`[]Positions`, `[]StopsAskSomeone`),
  under `OneExitEach`: a side has at most one mon with an Eject Button or an
  Emergency Exit.
* `SweepTakesPicksHolds` (`SweepTakesPicks`), where neither exists.
* `ActionsFollowMonsHolds` (`[]ActionsFollowMons`), under `SwapAlone`: the battle
  with Ally Switch has no forced switch and no drag.

The hypotheses are the code's own limits (section 13): with two forced slots over
one reserve `battle.rs:7408` sends one mon in twice, and Ally Switch leaves
`replaced_mid_turn` behind (`battle.rs:16928`).

`PlacesInv` is the inductive invariant of the places.  `Positions` alone is not
inductive, because a switch keeps the arrays only if the mon that enters is not
in the other slot, and that is known only from where the switch comes from.  So
it says for each side (`SideInv`): the arrays agree and hold every mon once
(`Placed`); which flags may be up at this point of the turn, and that they are of
one mon (`FlagsAre`); that at most one pick is left, of a flagged slot and of a mon
on the bench (`PicksAre`).  `SwitchInv` says the same of the switches queued before the moves,
`StopInv` that a stop has a flag behind it.

`ActionInv` is the invariant of the actions: no two entries of one slot or mon
(`QueueInv`), an entry's mon stands in its slot unless that slot was refilled, and
then whoever stands there came in this turn (`LatchInv`), the Pursuit latch is up
exactly for those who have acted (`ChaseInv`), and whoever stands anywhere came
in, has acted or has an entry left (`TurnedInv`); `SwapInv` is the case with
Ally Switch.  TLC checked each of them on the two runs first.

### The action order

`ActionOrder_proofs` proves `EachOnceHolds` (`Spec => []EachOnce`),
`NextIsDueHolds` (`Spec => []NextIsDue`) and `TiesAreFairHolds`
(`Spec => []TiesAreFair`) for any Speeds, priorities and fractional
keys, with any number of events in a turn, and for both sorts.  `OrderAssumption`
is all they assume.  They follow from
`QueueInvariant` (`Spec => [](TypeInv /\ QueueInv)`).

The sorts come first.  `ps_speed_sort` is a selection sort that swaps and then
shuffles, so a round disturbs what it has not looked at yet.  `Fronted` says what
is where after each swap of a round, `Sorts` what each round leaves sorted, and
`SpeedSorted` that the last one leaves a sorted rearrangement; `StableSorted` says
the same of the insertion sort, because ranks are all different and agree with
the keys (keys are in a weak order).  `Resorted` and `Built` bring both back to
the queue.

That ties are fair is an argument about `ps_speed_sort` alone, from any tail whose
entries differ.  A shuffle leaves alone what it has dealt (`DealingRests`), so
different draws deal differently (`DrawnAlike`), and some draws deal any
arrangement of what is there (`SomeDraws`).  A sorted order has next exactly those
that the first half of a round moved up (`NextAreFirst`, a pigeonhole argument),
so each round has exactly one outcome that agrees with it as far as it is sorted
(`RoundOne`), and the sort ends in it once (`OneWay`).  `SortsAreFair` turns that
into a bijection between sequences of draws and sorted orders.

`QueueInv` says that the actions of those who can act stand in the order of their
keys (`Ordered`), and what the edits of a move need for that and for `EachOnce`:

* `BoundInv`, `SeatsInv`: no two actions share a place or a mon, and the mon
  stands in its place unless one was brought there.
* `DueInv`, `DoneInv`: who is owed an action has one, who has one has not acted.
* `StuckInv`: a mon brought in whose latch Ally Switch left behind
  (`battle.rs:16928`) has the last action of its side, so no second one can find it.
* `OneHot`: at most one action is put first.  Two calls would tie and a sort
  may then break either; but the first one called is at the head, so when the next
  move runs nobody else is called (`NoneLeft`).
* `GivenInv`, `CallsInv`: the keys of a place are what the mon there was granted,
  through every Ally Switch.

TLC checked `QueueInv` with three events a turn (3 019 954 states) before the proof.

### Induction

The provers take no theorem with an operator parameter, so the library's
induction theorems are out of reach; the least-number principle over a *set* is
not.  Where a proof needs induction - `FlattenSeq` in the stream, counts in the
parser, last entries in the turn, the stages of the sorts - it is over the set of the numbers, or of the
sequences (`SeqInduction`), that satisfy the claim.

### Only model-checked

Liveness (`Progress`, `TurnEnds`, `DefaultIsAnswered`)
stays with TLC.  Every other property that a run checks is stated by a theorem.

Fairness, in one place: `WF(AcceptSome(s))` for each player of a session,
`WF(Step)` of a turn, `WF(Parse)` and an insisting client's `Send`.  `AcceptSome` and
`Send` are players and clients who answer, `Parse` is a call that runs, and `Step` is
that and a player asked at a stop.  The other specifications state none.

## 13. Divergences

Where the code, met while modelling, does not do what it or its documentation
says, or what the models therefore set aside.  The models follow the code; the runs'
inputs or the theorems' hypotheses exclude the case where a property would fail
for that reason, and each says so.

| Where | What |
|---|---|
| `ps_session.rs:420` | A reseed at a mid-turn stop changes the generator of the rerun, so what was shown is no longer a prefix of what is played (against `:15-17`).  `ReplayFaithful` and `SessionRefines` assume it away. |
| `ps_session.rs:396` | A win forced inside a turn keeps a battle played past the stop (`docs/protocol.md:456`). |
| `ps_session.rs:307` | A refused answer that fills the side stays on file and counts (against `:241-243`); with it both sides can be complete and nobody asked. |
| `ps_session.rs:442` | A reseed before the preview answers is lost with the battle it was made on. |
| `ps_session.rs:973` | A mon whose every move a foe's Imprison shuts and hides is refused every move; `legal_choices` (`battle.rs:3013-3029`) gives it Struggle. `MCSituations` leaves it out. |
| `ps_session.rs:1215` | `default, team 12` at a preview sends one mon twice (against `:1208`). |
| `ps_stream.rs:549` | `tiebreak` at a mid-turn stop compares HP of the battle at the start of the turn. |
| `battle.rs:16928` | Ally Switch leaves `replaced_mid_turn` with the slot (against `:600-603`): a mon it brings there does not act.  Kept out of `turn_moves`; `SwapAlone` in the theorem. |
| `nash.rs:148` | At `MAX_ITERATIONS` the strategies of an unfinished tableau are returned as if they were a solution (`:83-85` leaves `None` open for that).  `SaddlePoint` claims an equilibrium only under the cap. |
| `battle.rs:7408` | A passed forced slot takes the only reserve although the other slot's pick names it, which is then sent in twice (`side.rs:37-39`).  Kept out of the turn runs, in which one mon a side has an Eject Button or an Emergency Exit; `OneExitEach` in the theorems. |
| `battle.rs:7341` | The third pick of a side in a turn is dropped; `TwoPicks` in the theorem. |
| `battle.rs:6267`, `:18079` | An Eject Pack may take the mon a pre-turn switch names; a mon revived in its slot still has its queued action.  Not modelled. |
| `battle.rs:3131` | The step machine is entered again inside an action at its one yield (confusion).  Not modelled. |
| `battle.rs:5434-5462` | A Custap Berry is eaten also by mons whose fractional priority did not come from it. |
| `battle.rs:15365` | A Choice holder that Struggles is locked into Struggle; `:8062-8066` calls Struggle exempt. `MoveLocks` has it, and the mon can only Struggle until it leaves. |
| `battle.rs:2820` | `legal_choices_into` knows neither Torment, nor moves that cannot be used twice, nor Gravity, which `ps_request.rs:505-526` shuts: a mon left with such a move is offered it by one menu and Struggle by the other (against `battle.rs:2812-2816`).  `MenusAgree` excepts the move used last. |
| `recursive.rs:828` | An entry one request's budget cut is returned by the next one over the same table, which reports no truncation (`:769`, `:286`).  `TruncationTold` is stated for tables nothing had cut. |
| `recursive.rs:621` | A linear program that fails gives a leaf that no counter tells of. |
| `double_oracle.rs` | The doc says `None` only on malformed input; an abort and a failed program give it too. |
| `solver/lib.rs:950` | Draws of one key with different thresholds, both missed by the recording, are all given the first one's threshold: a 30% secondary counts as 50% with nothing unmatched, although the seed of the recording "does NOT affect the enumerated outcomes" (`:414-416`).  `PriorsAreRight` is stated for one threshold a key. |
| `rng.rs:1091-1131` | `chance_keyed` draws are enumerated as percent draws of their numerator over ten: Fickle Beam's 3 in 10 becomes 9 in 10 (against `rng.rs:1088`).  Not modelled. |

## 14. Not modelled

Line wording, the `|split|` views and JSON; damage, abilities, items and the
effects of moves beyond sections 6 to 8; field timers; static data,
serialisation and hashes; formats and teams; the Python bindings, the command
line and the test harnesses; sampled worlds, safe-KO search and leaf evaluators.
These are most of the code's lines.  They are formulas and tables, thousands of
rules that do not interact through an order of events, and the repository compares
them with Pokemon Showdown one by one; a model of them would be a transcription.
`PROJECT.json` gives the reason for each component.
