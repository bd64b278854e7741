--------------------------- MODULE ChanceFrontier ---------------------------
(***************************************************************************)
(* How the solver learns what a turn may lead to                           *)
(* (crates/vgc-solver/src/lib.rs, enumerate_outcomes_bounded).  The turn   *)
(* is the engine's step(): a function of the rolls it draws, each under a  *)
(* key (who acts, on whom, with which move, what is decided).  One path is *)
(* recorded; the cross product of the draws it met is replayed through a   *)
(* table of rolls, first in first out per key (rng.rs, KeyedState); a      *)
(* replay that draws past its table takes the fallback stream and logs a   *)
(* miss, and the draws missed join the product of the next pass.           *)
(*                                                                         *)
(* A draw is a percent roll against a threshold, on a scale of Den; a path *)
(* is told by the sides its rolls fell on, and the state it reaches by the *)
(* path (the coarser states of canonical_hash only add these masses up,    *)
(* and the battle kept for them is not modelled).  The exact collapse of   *)
(* damage rolls, the lossy one and the product by defenders, which this    *)
(* entry point skips when it is given a limit, are left out.  A threshold  *)
(* belongs to a key and to how often it was drawn under, not to the path.  *)
(***************************************************************************)
EXTENDS Integers, Sequences, FiniteSets, SequencesExt

CONSTANTS
    Keys,      \* the keys of the draws of a turn
    Den,       \* a roll is one of 1 .. Den
    MaxDraws,  \* the most draws on a path
    Turns,     \* the turns tried: [site: path -> key or Over, odds: key -> thresholds]
    Streams,   \* the fallback streams tried: sequences of rolls
    Caps,      \* the bounds on the rounds tried, MAX_LAZY_ITERATIONS
    MaxCombos  \* max_combinations

Over == "over"  \* the site of a path that is finished

Stories == UNION {[1 .. n -> BOOLEAN] : n \in 0 .. MaxDraws}

ASSUME FrontierAssumption ==
    /\ Den \in Nat \ {0} /\ MaxDraws \in Nat /\ Caps \subseteq Nat
    /\ IsFiniteSet(Keys) /\ Over \notin Keys
    /\ \A t \in Turns : /\ t.site \in [Stories -> Keys \cup {Over}]
                        /\ \A path \in [1 .. MaxDraws -> BOOLEAN] : t.site[path] = Over
                        /\ t.odds \in [Keys -> [1 .. MaxDraws -> 0 .. Den]]

VARIABLES
    turn,     \* the turn enumerated
    stream,   \* what the Splitmix of record_seed draws
    cap,      \* MAX_LAZY_ITERATIONS
    phase,    \* "record", "pass", "fold", then "done", "refused" or "tripped"
    sites,    \* per_site: [key, odds] in the order they were met
    idx,      \* the cell of the product that is replayed next
    mass,     \* dedup: the mass of each path reached, over Rolls(Len(sites))
    logs,     \* combo_miss_logs
    rounds    \* lazy_iterations

frontier == <<turn, stream, cap, phase, sites, idx, mass, logs, rounds>>

-----------------------------------------------------------------------------
(* The product of the sites.                                               *)

\* The outcomes of a site: one roll for each side of the threshold.
Outcomes(odds) ==
    IF odds = 0 THEN <<[roll |-> Den, mass |-> Den]>>
    ELSE IF odds >= Den THEN <<[roll |-> 1, mass |-> Den]>>
    ELSE <<[roll |-> 1, mass |-> odds], [roll |-> odds + 1, mass |-> Den - odds]>>

\* The outcome of a site in a cell of the product.
Cell(ss, c, i) == Outcomes(ss[i].odds)[c[i]]

Product(numbers) ==
    LET upTo[i \in 0 .. Len(numbers)] == IF i = 0 THEN 1 ELSE upTo[i - 1] * numbers[i]
    IN  upTo[Len(numbers)]

Combinations(ss) == Product([i \in DOMAIN ss |-> Len(Outcomes(ss[i].odds))])

Prior(ss, c) == Product([i \in DOMAIN ss |-> Cell(ss, c, i).mass])

-----------------------------------------------------------------------------
(* A turn t, played through the table of a cell, on the fallback stream s. *)

Key(t, path) == t.site[path]

\* How often the path has drawn under k.
Drawn(t, path, k) == Cardinality({i \in 1 .. Len(path) : Key(t, SubSeq(path, 1, i - 1)) = k})

Odds(t, path) == t.odds[Key(t, path)][Drawn(t, path, Key(t, path)) + 1]

\* One draw: the next roll on file for its key, or else the fallback and a
\* miss.  `left` are the sites whose rolls are still in the table.
Draw(t, s, ss, c, run) ==
    LET key   == Key(t, run.at)
        odds  == Odds(t, run.at)
        queue == {i \in run.left : ss[i].key = key}
        filed == queue # {}
        roll  == IF filed THEN Cell(ss, c, Min(queue)).roll ELSE s[Len(run.log) + 1]
    IN  IF key = Over THEN run
        ELSE [at   |-> Append(run.at, roll <= odds),
              left |-> IF filed THEN run.left \ {Min(queue)} ELSE run.left,
              log  |-> IF filed THEN run.log
                       ELSE Append(run.log, [key |-> key, odds |-> odds, after |-> Len(run.at)])]

\* The run after each number of draws, and at its end.
Run(t, s, ss, c) ==
    LET run[n \in 0 .. MaxDraws] ==
            IF n = 0 THEN [at |-> <<>>, left |-> DOMAIN ss, log |-> <<>>] ELSE Draw(t, s, ss, c, run[n - 1])
    IN  run

Play(t, s, ss, c) == Run(t, s, ss, c)[MaxDraws]

-----------------------------------------------------------------------------
\* The odometer: the first site that has an outcome left moves on, those
\* before it start again.
LastCell(ss, c) == \A i \in DOMAIN ss : c[i] = Len(Outcomes(ss[i].odds))

Turned(ss, c) ==
    LET up == Min({i \in DOMAIN ss : c[i] < Len(Outcomes(ss[i].odds))})
    IN  [i \in DOMAIN c |-> IF i < up THEN 1 ELSE IF i = up THEN c[i] + 1 ELSE c[i]]

Mass(path) == IF path \in DOMAIN mass THEN mass[path] ELSE 0

\* Mutated form: a state reached again keeps the last cell's mass.
Merge_Replaces(path) == [p \in DOMAIN mass \cup {path} |-> IF p = path THEN Prior(sites, idx) ELSE mass[p]]

\* The mass of a cell joins that of the state it reached.
Merge(path) == [p \in DOMAIN mass \cup {path} |-> IF p = path THEN Mass(p) + Prior(sites, idx) ELSE mass[p]]

-----------------------------------------------------------------------------
(* The sites a pass discovered: for each key as many as the one replay that *)
(* missed it most, with the space of the first miss on record, in an order *)
(* of the keys that nothing depends on.                                    *)

Misses(log, k) == {j \in DOMAIN log : log[j].key = k}

Missed(ls, k) == {i \in DOMAIN ls : Misses(ls[i], k) # {}}

Most(ls, k) == Max({0} \cup {Cardinality(Misses(ls[i], k)) : i \in DOMAIN ls})

NewSite(ls, k) ==
    LET log == ls[Min(Missed(ls, k))]
    IN  [key |-> k, odds |-> log[Min(Misses(log, k))].odds]

\* Mutated form: only the last replay is looked at.
Discovered_LastLog(ls) ==
    LET last == IF ls = <<>> THEN <<>> ELSE ls[Len(ls)]
    IN  [i \in DOMAIN last |-> [key |-> last[i].key, odds |-> last[i].odds]]

Discovered(ls) ==
    LET slots == SetToSeq(UNION {{k} \X (1 .. Most(ls, k)) : k \in Keys})
    IN  [i \in DOMAIN slots |-> NewSite(ls, slots[i][1])]

-----------------------------------------------------------------------------
FrontierInit ==
    /\ turn \in Turns /\ stream \in Streams /\ cap \in Caps
    /\ phase = "record"
    /\ sites = <<>> /\ idx = <<>> /\ mass = <<>> /\ logs = <<>> /\ rounds = 0

\* A pass over the sites found so far begins, unless its product is too large.
Open(ss) ==
    /\ sites' = ss
    /\ mass' = <<>>
    /\ logs' = <<>>
    /\ idx' = [i \in DOMAIN ss |-> 1]
    /\ phase' = IF Combinations(ss) > MaxCombos THEN "refused" ELSE "pass"

\* The recording: every draw falls back and is a site.  A turn that draws
\* nothing has one outcome.
Record ==
    LET run == Play(turn, stream, <<>>, <<>>)
    IN /\ phase = "record"
       /\ \/ /\ run.log = <<>>
             /\ mass' = [p \in {run.at} |-> 1]
             /\ phase' = "done"
             /\ UNCHANGED <<sites, idx, logs>>
          \/ /\ run.log # <<>>
             /\ Open([i \in DOMAIN run.log |-> [key |-> run.log[i].key, odds |-> run.log[i].odds]])
       /\ UNCHANGED <<turn, stream, cap, rounds>>

\* One cell replayed, its mass merged into the state it reached.
Replay ==
    LET run == Play(turn, stream, sites, idx)
    IN /\ phase = "pass"
       /\ mass' = Merge(run.at)
       /\ logs' = IF run.log = <<>> THEN logs ELSE Append(logs, run.log)
       /\ idx' = IF LastCell(sites, idx) THEN idx ELSE Turned(sites, idx)
       /\ phase' = IF LastCell(sites, idx) THEN "fold" ELSE "pass"
       /\ UNCHANGED <<turn, stream, cap, sites, rounds>>

\* The pass is over: it is the answer when it found nothing new or was the
\* last one allowed; else the sites it found join the next.
Fold ==
    /\ phase = "fold"
    /\ \/ /\ Discovered(logs) = <<>> \/ rounds >= cap
          /\ phase' = "done"
          /\ UNCHANGED <<sites, idx, mass, logs, rounds>>
       \/ /\ Discovered(logs) # <<>> /\ rounds < cap
          /\ Open(sites \o Discovered(logs))
          /\ rounds' = rounds + 1
    /\ UNCHANGED <<turn, stream, cap>>

\* The deadline or the replay budget ends it before a step(): what there is
\* of the pass is returned, and the solver throws it away.
Trip ==
    /\ phase \in {"record", "pass"}
    /\ phase' = "tripped"
    /\ UNCHANGED <<turn, stream, cap, sites, idx, mass, logs, rounds>>

FrontierNext == Record \/ Replay \/ Fold \/ Trip

FrontierSpec == FrontierInit /\ [][FrontierNext]_frontier

-----------------------------------------------------------------------------
(* The law of the turn, straight from its thresholds.                      *)

Paths(t) == {path \in Stories : /\ Key(t, path) = Over
                               /\ \A i \in 1 .. Len(path) : Key(t, SubSeq(path, 1, i - 1)) # Over}

\* The rolls, of Den, that send a draw down the path.
Side(t, path, i) ==
    LET odds == Odds(t, SubSeq(path, 1, i - 1))
    IN  IF path[i] THEN odds ELSE Den - odds

Law(t, path) == Product([i \in DOMAIN path |-> Side(t, path, i)])

\* All the ways n rolls may fall.
Rolls(n) == Product([i \in 1 .. n |-> Den])

\* Every key asks with one threshold at all its draws.  discover_new_sites
\* gives the sites of a key the threshold it first missed (lib.rs:950).
OneThreshold(t) == \A k \in Keys : \A i, j \in DOMAIN t.odds[k] : t.odds[k][i] = t.odds[k][j]

\* In a turn of one threshold a key, a frontier returned with nothing
\* unmatched gives every state the chance the turn's own draws give it,
\* whichever path was recorded: the draws a path never makes marginalise out,
\* those the recording missed are all found, and none is counted twice
\* (lib.rs:26-29, 412-416).
PriorsAreRight ==
    phase = "done" /\ logs = <<>> /\ OneThreshold(turn) =>
        \A path \in Paths(turn) : Mass(path) * Rolls(Len(path)) = Law(turn, path) * Rolls(Len(sites))

\* Each pass sees one draw further than the one before on every path at
\* once (lib.rs:290-294).
EachPassDeeper == \A i \in DOMAIN logs : logs[i][1].after > rounds
=============================================================================
