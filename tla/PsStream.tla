------------------------------ MODULE PsStream ------------------------------
(***************************************************************************)
(* crates/vgc-engine-core/src/ps_stream.rs: the text protocol around one   *)
(* session.  `>` lines arrive in chunks; every line of a chunk runs at     *)
(* once, and the end of the chunk sends what the battle wrote, then the    *)
(* requests, then the record of the end.                                   *)
(***************************************************************************)
EXTENDS SessionFeed, SequencesExt

CONSTANTS
    Player,       \* p1 and p2
    Script,       \* the lines the battle will write, in order
    OwnLine,      \* the kinds of line the stream writes by itself
    Options,      \* the StreamOptions (and `rated` of >start) to try
    MaxInput,     \* bound: input-log lines
    MaxOut,       \* bound: messages pushed
    MaxTalk       \* bound: chat lines and answers that move nothing

ASSUME StreamAssumption ==
    /\ IsFiniteSet(Player)
    /\ Script \in Seq(ToSet(Script)) \ {<<>>}
    /\ {"t", "gametype", "player", "rated", "chat"} \subseteq OwnLine
    /\ Options \subseteq [keepAlive : BOOLEAN, replayOnly : BOOLEAN, rated : BOOLEAN]
    /\ MaxInput \in Nat /\ MaxOut \in Nat /\ MaxTalk \in Nat

VARIABLES
    opts,
    format,       \* >start was accepted
    players,      \* the players who joined
    session,      \* the session exists
    log,          \* PS `battle.log`
    sentPos,      \* how much of it was sent
    sessionSeen,  \* session lines copied into it
    taken,        \* committed choices taken from the session
    inputLog,
    sentEnd,
    closed,
    out,          \* every message pushed, in order
    chunk,        \* "open" inside a chunk, then how the last one ended
    stops         \* history: where the log of each stop ends

stream == <<opts, format, players, session, log, sentPos, sessionSeen, taken,
            inputLog, sentEnd, closed, out, chunk, stops>>
vars == <<feed, stream>>

-----------------------------------------------------------------------------
(* Messages. *)

Update(lines)      == [type |-> "update", lines |-> lines]
Request(p, n)      == [type |-> "request", side |-> p, stop |-> n]
Revealed(p, n)     == [type |-> "revealed", side |-> p, stop |-> n]
ErrorTo(p)         == [type |-> "error", side |-> p]
EndRecord(inputs)  == [type |-> "end", inputs |-> inputs]
RequestedData      == [type |-> "requesteddata"]

\* A sequence without the members of a set.
Without(s, S) == FlattenSeq([i \in 1 .. Len(s) |-> IF s[i] \in S THEN <<>> ELSE <<s[i]>>])

\* `push`, of a list of messages: nothing passes a closed stream.
Pushed(msgs) ==
    IF closed THEN out
    ELSE out \o Without(msgs, {m \in ToSet(msgs) : opts.replayOnly /\ m.type # "update"})

\* How many lines a new session's log repeats from the stream's own.
Repeated(lines) ==
    Min({n \in 0 .. Len(lines) :
            n < Len(lines) => lines[n + 1] \notin {"t", "gametype", "player"}})

\* `|rated|` follows `|tier|`.
WithRating(lines) ==
    FlattenSeq([i \in 1 .. Len(lines) |->
        IF lines[i] = "tier" /\ opts.rated THEN <<"tier", "rated">> ELSE <<lines[i]>>])

\* Mutated form: lines are counted from the stream's own log.
Pull_CountsLog(base, seen) ==
    /\ log' = base \o WithRating(SubSeq(raw', Len(base) + 1, Len(raw')))
    /\ sessionSeen' = Len(raw')
    /\ taken' = Len(committed')

\* `pull_session`, onto a log that may just have got a line of its own.
Pull(base, seen) ==
    /\ log' = base \o WithRating(SubSeq(raw', seen + 1, Len(raw')))
    /\ sessionSeen' = Len(raw')
    /\ taken' = Len(committed')

\* The committed choices a pull finds.
NewTexts == SubSeq(committed', taken + 1, Len(committed'))

\* An input-log line; choices are told apart by the stop they answer.
Entry(cmd) == [cmd |-> cmd, stop |-> 0]
ChoiceAt(n) == [cmd |-> "choice", stop |-> n]

Room(n) == Len(inputLog) + n =< MaxInput

\* What the bound MaxTalk counts.
Idle(lines, inputs, msgs) ==
    Len(SelectSeq(lines, LAMBDA l : l = "chat"))
    + Len(SelectSeq(inputs, LAMBDA e : e.cmd = "chat"))
    + Len(SelectSeq(msgs, LAMBDA m : m.type \in {"error", "revealed", "requesteddata"}))

-----------------------------------------------------------------------------
(* Lines. *)

Start ==
    /\ Room(1)
    /\ format' = TRUE
    /\ inputLog' = Append(inputLog, Entry("start"))
    /\ log' = log \o <<"t", "gametype">>
    /\ chunk' = "open"
    /\ UNCHANGED <<feed, opts, players, session, sentPos, sessionSeen, taken, sentEnd,
                   closed, out, stops>>

\* The session is built once both players are in; building it may fail, and
\* then the player is in, the line is logged and the chunk is given up.
Begin(n) ==
    /\ n \in 1 .. Len(Script)
    /\ raw' = SubSeq(Script, 1, n)
    /\ newRequests' = TRUE /\ committed' = <<>> /\ ended' = FALSE
    /\ session' = TRUE
    /\ stops' = <<n>>

Join(p) ==
    /\ format /\ Room(1)
    /\ players' = players \cup {p}
    /\ inputLog' = Append(inputLog, Entry("player"))
    /\ IF players' = Player /\ ~session
       THEN \/ /\ \E n \in 1 .. Len(Script) : Begin(n)
               /\ Pull(Append(log, "player"), Repeated(raw'))
               /\ chunk' = "open"
            \/ /\ log' = Append(log, "player")
               /\ chunk' = "aborted"
               /\ UNCHANGED <<feed, session, sessionSeen, taken, stops>>
       ELSE /\ log' = Append(log, "player")
            /\ chunk' = "open"
            /\ UNCHANGED <<feed, session, sessionSeen, taken, stops>>
    /\ UNCHANGED <<opts, format, sentPos, sentEnd, closed, out>>

\* A choice or undo that leaves the battle where it is: at most errors and,
\* for an [Unavailable choice], the request again.
Heard(p) ==
    /\ session
    /\ \E msgs \in {<<>>, <<ErrorTo(p)>>, <<ErrorTo(p), Revealed(p, Len(stops))>>} :
           /\ ended => Len(msgs) =< 1
           /\ Len(out) + Len(msgs) =< MaxOut
           /\ Idle(log, inputLog, out \o msgs) =< MaxTalk
           /\ out' = Pushed(msgs)
    /\ chunk' = "open"
    /\ UNCHANGED <<feed, opts, format, players, session, log, sentPos, sessionSeen,
                   taken, inputLog, sentEnd, closed, stops>>

\* The last choice of a stop: both sides' choices are committed.
Choose ==
    /\ session /\ Room(2)
    /\ \E n \in Len(raw) + 1 .. Len(Script), over \in BOOLEAN, k \in 1 .. 2 :
           /\ MoveOn(SubSeq(Script, Len(raw) + 1, n),
                     [i \in 1 .. k |-> ChoiceAt(Len(stops))], over)
           /\ stops' = IF over THEN stops ELSE Append(stops, n)
    /\ Pull(log, sessionSeen)
    /\ inputLog' = inputLog \o NewTexts
    /\ chunk' = "open"
    /\ UNCHANGED <<opts, format, players, session, sentPos, sentEnd, closed, out>>

\* >forcewin, >forcetie, >forcelose and >tiebreak.  The command is logged
\* even when it ends nothing (the battle was over, >forcelose of nobody).
ForceEnd ==
    /\ session /\ Room(1)
    /\ \/ Len(raw) < Len(Script) /\ Close(SubSeq(Script, Len(raw) + 1, Len(raw) + 1))
       \/ UNCHANGED feed
    /\ Pull(log, sessionSeen)
    /\ inputLog' = Append(inputLog \o NewTexts, Entry("force"))
    /\ chunk' = "open"
    /\ UNCHANGED <<opts, format, players, session, sentPos, sentEnd, closed, out, stops>>

\* >chat, >eval and >editbattle write to the log; >reseed and
\* >chat-inputlogonly only to the input log.
Talk ==
    /\ \E own \in {<<>>, <<"chat">>}, text \in {<<>>, <<Entry("chat")>>} :
           /\ own \o text # <<>> /\ Room(Len(text))
           /\ log' = log \o own
           /\ inputLog' = inputLog \o text
    /\ Idle(log', inputLog', out) =< MaxTalk
    /\ chunk' = "open"
    /\ UNCHANGED <<feed, opts, format, players, session, sentPos, sessionSeen, taken,
                   sentEnd, closed, out, stops>>

\* Data is handed out past a closed stream, too.
RequestData ==
    /\ Len(out) < MaxOut
    /\ Idle(log, inputLog, out) < MaxTalk
    /\ out' = Append(out, RequestedData)
    /\ chunk' = "open"
    /\ UNCHANGED <<feed, opts, format, players, session, log, sentPos, sessionSeen, taken,
                   inputLog, sentEnd, closed, stops>>

\* A line that throws (no battle yet, a bad option, an unknown command)
\* gives up the rest of its chunk, and nothing is sent.
Throw ==
    /\ chunk' = "aborted"
    /\ UNCHANGED <<feed, opts, format, players, session, log, sentPos, sessionSeen, taken,
                   inputLog, sentEnd, closed, out, stops>>

\* >version, an edit that changes nothing, >tiebreak after the end.
Ignored ==
    /\ chunk' = "open"
    /\ UNCHANGED <<feed, opts, format, players, session, log, sentPos, sessionSeen, taken,
                   inputLog, sentEnd, closed, out, stops>>

-----------------------------------------------------------------------------
(* The end of a chunk. *)

\* After the end of the battle the request is `null`.
Requests == IF newRequests
            THEN SetToSeq({Request(p, IF ended THEN 0 ELSE Len(stops)) : p \in Player})
            ELSE <<>>

\* Mutated form: the end goes out only with requests.
Record_NeedsRequests ==
    IF session /\ ended /\ ~sentEnd /\ newRequests THEN <<EndRecord(inputLog)>> ELSE <<>>

Record == IF session /\ ended /\ ~sentEnd THEN <<EndRecord(inputLog)>> ELSE <<>>

\* Mutated form: the position in the log is not moved.
SendUpdates_Forgets ==
    IF sentPos < Len(log)
    THEN /\ out' = Pushed(<<Update(SubSeq(log, sentPos + 1, Len(log)))>> \o Requests \o Record)
         /\ TakeNewRequests
         /\ sentEnd' = (sentEnd \/ (session /\ ended))
         /\ closed' = (closed \/ (Record # <<>> /\ ~opts.keepAlive))
         /\ UNCHANGED sentPos
    ELSE UNCHANGED <<feed, sentPos, sentEnd, closed, out>>

\* `send_updates`: nothing at all goes out while the log has not grown.
SendUpdates ==
    IF sentPos < Len(log)
    THEN /\ out' = Pushed(<<Update(SubSeq(log, sentPos + 1, Len(log)))>> \o Requests \o Record)
         /\ sentPos' = Len(log)
         /\ TakeNewRequests
         /\ sentEnd' = (sentEnd \/ (session /\ ended))
         /\ closed' = (closed \/ (Record # <<>> /\ ~opts.keepAlive))
    ELSE UNCHANGED <<feed, sentPos, sentEnd, closed, out>>

EndChunk ==
    /\ SendUpdates
    /\ Len(out') =< MaxOut
    /\ chunk' = "sent"
    /\ UNCHANGED <<opts, format, players, session, log, sessionSeen, taken, inputLog, stops>>
-----------------------------------------------------------------------------

StreamInit ==
    /\ raw = <<>> /\ newRequests = FALSE /\ committed = <<>> /\ ended = FALSE
    /\ opts \in Options
    /\ format = FALSE /\ players = {} /\ session = FALSE
    /\ log = <<>> /\ sentPos = 0 /\ sessionSeen = 0 /\ taken = 0
    /\ inputLog = <<>>
    /\ sentEnd = FALSE /\ closed = FALSE
    /\ out = <<>>
    /\ chunk = "sent"
    /\ stops = <<>>

Line ==
    \/ Start
    \/ \E p \in Player : Join(p) \/ Heard(p)
    \/ Choose \/ ForceEnd \/ Talk \/ RequestData \/ Ignored \/ Throw

StreamNext == Line \/ EndChunk

StreamSpec == StreamInit /\ [][StreamNext]_vars

-----------------------------------------------------------------------------
(* Properties. *)

\* The log lines of the updates among the first n messages.
Delivered(n) ==
    FlattenSeq([i \in 1 .. n |-> IF out[i].type = "update" THEN out[i].lines ELSE <<>>])

OfBattle(lines) == Without(lines, OwnLine)
ChosenIn(inputs) == Without(inputs, {Entry(cmd) : cmd \in {"start", "player", "force", "chat"}})

\* Readers get the log exactly once, line by line in order, whatever chunks
\* it is cut into and however many chunks were given up on the way.
SentOnce ==
    IF closed THEN IsPrefix(Delivered(Len(out)), log)
    ELSE Delivered(Len(out)) = SubSeq(log, 1, sentPos)

\* One end record, after the whole battle, telling every choice; and only
\* asked-for data behind it unless the stream is kept alive.
OneEnd ==
    \A i \in 1 .. Len(out) : out[i].type = "end" =>
        /\ ChosenIn(out[i].inputs) = committed
        /\ OfBattle(Delivered(i)) = OfBattle(raw)
        /\ \A j \in i + 1 .. Len(out) :
              IF opts.keepAlive THEN out[j].type # "end" ELSE out[j].type = "requesteddata"

\* What a reader collects is the battle, told once and closed once.
ReadersGetItOnce == SentOnce /\ OneEnd

\* The stream's two logs carry the session's: the battle's lines, minus the
\* preamble the stream wrote itself, and every committed choice; none lost,
\* doubled or moved between two commands.  Of the kinds of line that the stream
\* writes too, none is compared, also where the battle writes them.
LogCarriesBattle ==
    /\ sessionSeen = Len(raw) /\ taken = Len(committed)
    /\ OfBattle(log) = OfBattle(raw)
    /\ ChosenIn(inputLog) = committed

\* A stop's request is sent when its players have read the log up to that
\* stop, and nothing past it.
RequestsFollowLog ==
    \A i \in 1 .. Len(out) :
        out[i].type = "request" /\ out[i].stop # 0 =>
            OfBattle(Delivered(i)) = OfBattle(SubSeq(Script, 1, stops[out[i].stop]))

\* Once a chunk is through, nobody waits for a request or for the end: the
\* early return on an unchanged log never leaves one unsent.
NobodyWaits ==
    chunk = "sent" /\ session =>
        /\ ~newRequests
        /\ ~opts.replayOnly =>
              IF ended THEN \E i \in 1 .. Len(out) : out[i].type = "end"
              ELSE \A p \in Player : Request(p, Len(stops)) \in ToSet(out)

\* Every request goes out, and not before its log.
RequestsArrive == RequestsFollowLog /\ NobodyWaits
=============================================================================
