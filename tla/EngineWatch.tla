---------------------------- MODULE EngineWatch ----------------------------
(***************************************************************************)
(* The live output of the commands of a pipeline run: the engine writes     *)
(* one progress log (errors.go, logBuffer); engine_watch.go folds it into   *)
(* spans; each running command has a task (progress.go) whose goroutine     *)
(* drains the command's span once a second, and whose ok or fail closes it. *)
(* The engine writes concurrently with the calls that return the results:   *)
(* its log may lag behind them by any amount.                               *)
(***************************************************************************)
EXTENDS Naturals, Sequences, FiniteSets, SequencesExt

CONSTANTS
  Commands,   \* the commands of a run
  Previous,   \* the one each command follows in its step, or NoCommand
  NoCommand,
  Matching,   \* the commands whose rendering contains the text looked for for each command;
              \* none for a text too short to be looked for
  NLines,     \* how many lines of output each command writes
  SpanLimit,  \* spanLineLimit: lines kept per span
  Retained    \* logTailBytes: lines of the log kept unread

ASSUME WatchAssumption ==
  /\ NoCommand \notin Commands
  /\ Previous \in [Commands -> Commands \cup {NoCommand}]
  /\ Matching \in [Commands -> SUBSET Commands]
  /\ NLines \in [Commands -> Nat]
  /\ SpanLimit \in Nat \ {0} /\ Retained \in Nat \ {0}

VARIABLES
  fate,     \* what the engine does with a command: run it, or serve it from its cache
  emitted,  \* per command: entries the engine has written to its log
  log,      \* the entries of the log not yet read, oldest first
  cut,      \* whether the oldest of them has lost its beginning
  spans,    \* per engine operation: the command it describes, its lines, its status
  reader,   \* per command: the span its reader is bound to and the lines of it returned
  task,     \* per command: program point and result
  hand,     \* lines the task's goroutine has drained and not yet printed
  shown,    \* lines the terminal shows for the command
  closing,  \* what the closing block says
  mishaps   \* history: overrun, burst, late

engineSide == <<fate, emitted>>
watch == <<log, cut, spans, reader>>
terminal == <<hand, shown, closing>>
watchVars == <<engineSide, watch, task, terminal, mishaps>>

\* A command's operation is known by the command: what its log lines carry is an id.
Line(c, i) == <<c, i>>
\* DONE stands for ERROR too: only CACHED is ever told apart.
SpanStatuses == {"open", "DONE", "CACHED"}
NoSpan == [of |-> NoCommand, lines |-> <<>>, status |-> "open"]
Entry(c, kind, i) == [span |-> c, kind |-> kind, line |-> Line(c, i)]

WatchInit ==
  /\ fate = [c \in Commands |-> "none"]
  /\ emitted = [c \in Commands |-> 0]
  /\ log = <<>> /\ cut = FALSE
  /\ spans = [c \in Commands |-> NoSpan]
  /\ reader = [c \in Commands |-> [span |-> NoCommand, seen |-> 0]]
  /\ task = [c \in Commands |-> [pc |-> "idle", result |-> "none"]]
  /\ hand = [c \in Commands |-> <<>>]
  /\ shown = [c \in Commands |-> <<>>]
  /\ closing = [c \in Commands |-> "none"]
  /\ mishaps = {}

At(c, point) == task[c].pc = point
Goto(c, point) == task' = [task EXCEPT ![c].pc = point]

Mishaps(kinds) == mishaps' = mishaps \cup kinds
\* Bound: the log outgrows its readers once.
OneOverrun == Len(log) < Retained \/ "overrun" \notin mishaps

-----------------------------------------------------------------------------
(* The engine *)

Total(c) == IF fate[c] = "run" THEN NLines[c] ELSE 0

\* The operation's description, its lines, and the status it is closed with.
NextEntries(c) ==
  CASE emitted[c] = 0 -> {Entry(c, "describe", 0)}
    [] emitted[c] \in 1..Total(c) -> {Entry(c, "output", emitted[c])}
    [] emitted[c] = Total(c) + 1 ->
         {Entry(c, IF fate[c] = "run" THEN "DONE" ELSE "CACHED", 0)}
    [] OTHER -> {}

\* logBuffer.Write: only the tail is kept, and it is cut in the middle of a line.
Emit(c) ==
  /\ fate[c] # "none" /\ OneOverrun
  /\ \E e \in NextEntries(c) :
       IF Len(log) < Retained
         THEN log' = Append(log, e) /\ UNCHANGED cut
         ELSE log' = Append(Tail(log), e) /\ cut' = TRUE
  /\ Mishaps(IF Len(log) < Retained THEN {} ELSE {"overrun"})
  /\ emitted' = [emitted EXCEPT ![c] = @ + 1]
  /\ UNCHANGED <<fate, spans, reader, task, terminal>>

-----------------------------------------------------------------------------
(* The watch: consume, findSpan and drain, under its mutex *)

\* A line without its beginning is no progress line, or carries what is left of an id.
Readings(e) == {<<>>, <<e>>} \cup {<<[e EXCEPT !.span = c]>> : c \in Commands}
Unread == IF cut /\ log # <<>> THEN {r \o Tail(log) : r \in Readings(Head(log))} ELSE {log}

\* The entries of a span that are of one of the kinds, in their order.
Of(entries, c, kinds) ==
  LET kept[i \in 0..Len(entries)] ==
        IF i = 0 THEN <<>>
        ELSE IF entries[i].span = c /\ entries[i].kind \in kinds
               THEN Append(kept[i - 1], entries[i]) ELSE kept[i - 1]
  IN kept[Len(entries)]

\* The first description is kept and the last status.
Described(entries, c) ==
  LET found == Of(entries, c, {"describe"}) IN
  IF spans[c].of # NoCommand \/ found = <<>> THEN spans[c].of ELSE Head(found).line[1]

Closed(entries, c) ==
  LET found == Of(entries, c, {"DONE", "CACHED"}) IN
  IF found = <<>> THEN spans[c].status ELSE Last(found).kind

AllLines(entries, c) ==
  LET written == Of(entries, c, {"output"}) IN
  spans[c].lines \o [i \in DOMAIN written |-> written[i].line]

Dropped(entries, c) ==
  LET length == Len(AllLines(entries, c)) IN
  IF length > SpanLimit THEN length - SpanLimit ELSE 0

Consumed(entries) ==
  [c \in Commands |->
     [of     |-> Described(entries, c),
      lines  |-> LET all == AllLines(entries, c) IN SubSeq(all, Dropped(entries, c) + 1, Len(all)),
      status |-> Closed(entries, c)]]

\* rebase: the readers of a trimmed span keep their place in it.
RebasedM(entries) == reader
Rebased(entries) ==
  [c \in Commands |->
     [reader[c] EXCEPT !.seen =
        IF reader[c].span = NoCommand THEN @
        ELSE LET dropped == Dropped(entries, reader[c].span) IN
             IF @ > dropped THEN @ - dropped ELSE 0]]

\* commandKey: whether a command's text is long enough to be looked for.
HasKey(c) == Matching[c] # {}

\* findSpan: any span whose description contains the key and that no reader has taken.
CandidatesM(folded, c) == {s \in Commands : folded[s].of \in Matching[c]}
Candidates(folded, c) ==
  {s \in Commands : folded[s].of \in Matching[c] /\ \A d \in Commands : reader[d].span # s}

Bindings(folded, c) ==
  IF reader[c].span # NoCommand THEN {reader[c].span}
  ELSE IF Candidates(folded, c) = {} THEN {NoCommand} ELSE Candidates(folded, c)

\* Lines are trimmed that the reader of their span has not returned.
Burst(entries) ==
  \E s \in Commands :
    LET returned == {reader[d].seen : d \in {e \in Commands : reader[e].span = s}} IN
    Dropped(entries, s) > 0 /\ \A n \in returned : Dropped(entries, s) > n

\* What drain and status can find: the spans as the unread log leaves them, the readers
\* that follow them, the span this reader is bound to and the lines of it not yet returned.
Looks(c) ==
  UNION {LET folded == Consumed(entries)
             readers == Rebased(entries)
         IN {[spans |-> folded, readers |-> readers, burst |-> Burst(entries), span |-> s,
              fresh |-> IF s = NoCommand THEN <<>>
                        ELSE SubSeq(folded[s].lines, readers[c].seen + 1, Len(folded[s].lines))]
               : s \in Bindings(folded, c)}
         : entries \in Unread}

\* The last poll of a command comes before the last of its lines.
Lags(c) == At(c, "closing") /\ emitted[c] <= Total(c)

Look(c, found, returned) ==
  /\ log' = <<>> /\ cut' = FALSE
  /\ spans' = found.spans
  /\ reader' = [found.readers EXCEPT ![c] = [span |-> found.span, seen |-> @.seen + returned]]
  /\ Mishaps((IF found.burst THEN {"burst"} ELSE {}) \cup (IF Lags(c) THEN {"late"} ELSE {}))

-----------------------------------------------------------------------------
(* The tasks *)

Startable(c) ==
  At(c, "idle") /\ (Previous[c] # NoCommand => closing[Previous[c]] \notin {"none", "failed"})

\* reporter.start, and the engine takes the command.
Start(c) ==
  /\ Startable(c)
  /\ Goto(c, "running")
  /\ \E f \in {"run", "cached"} : fate' = [fate EXCEPT ![c] = f]
  /\ UNCHANGED <<emitted, watch, terminal, mishaps>>

\* The goroutine's poll: drain, and then the terminal.
Drain(c) ==
  /\ task[c].pc \in {"running", "stopping"}
  /\ hand[c] = <<>>
  /\ \E found \in Looks(c) :
       /\ Look(c, found, Len(found.fresh))
       /\ hand' = [hand EXCEPT ![c] = found.fresh]
  /\ UNCHANGED <<engineSide, task, shown, closing>>

WriteOutput(c) ==
  /\ hand[c] # <<>>
  /\ shown' = [shown EXCEPT ![c] = @ \o hand[c]]
  /\ hand' = [hand EXCEPT ![c] = <<>>]
  /\ UNCHANGED <<engineSide, watch, task, closing, mishaps>>

\* The call into the SDK returns and ok or fail begins: it tells the goroutine to stop.
Return(c) ==
  /\ At(c, "running")
  /\ \E result \in {"ok", "failed"} :
       task' = [task EXCEPT ![c] = [pc |-> "stopping", result |-> result]]
  /\ UNCHANGED <<engineSide, watch, terminal, mishaps>>

\* finish waits for the goroutine.
Finish(c) ==
  /\ At(c, "stopping")
  /\ hand[c] = <<>>
  /\ Goto(c, "closing")
  /\ UNCHANGED <<engineSide, watch, terminal, mishaps>>

\* Whatever the last poll missed.
FinalPoll(c) ==
  /\ At(c, "closing")
  /\ IF task[c].result = "failed"
       THEN Goto(c, "closed") /\ closing' = [closing EXCEPT ![c] = "failed"]
       ELSE Goto(c, "asking") /\ UNCHANGED closing
  /\ \E found \in Looks(c) :
       /\ Look(c, found, Len(found.fresh))
       /\ shown' = [shown EXCEPT ![c] = @ \o found.fresh]
  /\ UNCHANGED <<engineSide, hand>>

Close(c, block) == Goto(c, "closed") /\ closing' = [closing EXCEPT ![c] = block]

\* A command that was streamed plainly ran, and one without a key is never found.
CloseUnasked(c) ==
  /\ At(c, "asking")
  /\ \/ shown[c] # <<>> /\ Close(c, "timings")
     \/ shown[c] = <<>> /\ ~HasKey(c) /\ Close(c, "output")
  /\ UNCHANGED <<engineSide, watch, hand, shown, mishaps>>

\* cachedByEngine: the span's status is asked for until it has one.
Asking(c) == At(c, "asking") /\ shown[c] = <<>> /\ HasKey(c)
StatusOf(found) ==
  IF found.span = NoCommand THEN "open" ELSE found.spans[found.span].status

AskInVain(c) ==
  /\ Asking(c)
  /\ \E found \in Looks(c) : StatusOf(found) = "open" /\ Look(c, found, 0)
  /\ UNCHANGED <<engineSide, task, terminal>>

ConcludeLateM(c) ==
  /\ Asking(c)
  /\ Goto(c, "closed")
  /\ \E found \in Looks(c) :
       /\ StatusOf(found) = "open" => found.span = NoCommand
       /\ Look(c, found, 0)
       /\ closing' = [closing EXCEPT ![c] = IF StatusOf(found) = "CACHED" THEN "cached" ELSE "output"]
  /\ UNCHANGED <<engineSide, hand, shown>>

\* The span has a status, or two seconds are over.
Conclude(c) ==
  /\ Asking(c)
  /\ Goto(c, "closed")
  /\ \E found \in Looks(c) :
       /\ Look(c, found, 0)
       /\ closing' = [closing EXCEPT ![c] = IF StatusOf(found) = "CACHED" THEN "cached" ELSE "output"]
  /\ UNCHANGED <<engineSide, hand, shown>>

Closes(c) ==
  \/ WriteOutput(c) \/ Finish(c) \/ FinalPoll(c) \/ CloseUnasked(c) \/ Conclude(c)

\* Every command that could be started has been closed.
Rest == (\A c \in Commands : At(c, "closed") \/ (At(c, "idle") /\ ~Startable(c))) /\ UNCHANGED watchVars

WatchNext ==
  \/ \E c \in Commands : Emit(c) \/ Start(c) \/ Drain(c) \/ Return(c) \/ AskInVain(c) \/ Closes(c)
  \/ Rest

WatchSpec == WatchInit /\ [][WatchNext]_watchVars

\* The goroutines of a run are scheduled; the engine owes nothing.
FairWatchSpec == WatchSpec /\ \A c \in Commands : WF_watchVars(Closes(c))

-----------------------------------------------------------------------------
(* Properties *)

Lines == Commands \X Nat
Spans == [of : Commands \cup {NoCommand}, lines : Seq(Lines), status : SpanStatuses]

\* Every variable has its type.
WatchTypeOK ==
  /\ fate \in [Commands -> {"none", "run", "cached"}]
  /\ emitted \in [Commands -> Nat]
  /\ log \in Seq([span : Commands, kind : {"describe", "output"} \cup SpanStatuses, line : Lines])
  /\ cut \in BOOLEAN
  /\ spans \in [Commands -> Spans]
  /\ reader \in [Commands -> [span : Commands \cup {NoCommand}, seen : 0..SpanLimit]]
  /\ task \in [Commands -> [pc : {"idle", "running", "stopping", "closing", "asking", "closed"},
                            result : {"none", "ok", "failed"}]]
  /\ hand \in [Commands -> Seq(Lines)] /\ shown \in [Commands -> Seq(Lines)]
  /\ closing \in [Commands -> {"none", "timings", "output", "cached", "failed"}]
  /\ mishaps \subseteq {"overrun", "burst", "late"}

\* No other command that has been started so far has a rendering the key is found in.
Unique(c) == HasKey(c) /\ \A d \in Matching[c] : fate[d] # "none" => d = c

\* "Each running command has its own, so two concurrent steps never consume each other's
\* lines" (engine_watch.go, engineReader): no line is printed twice, by one task or by two,
\* and the lines of a command appear in the order it wrote them, however the goroutines,
\* the trimming of a span and the binding of the readers interleave.
PrintedOnce ==
  /\ \A c, d \in Commands : c # d => ToSet(shown[c]) \cap ToSet(shown[d]) = {}
  /\ \A c \in Commands : \A i, j \in DOMAIN shown[c] :
       i < j /\ shown[c][i][1] = shown[c][j][1] => shown[c][i][2] < shown[c][j][2]

\* "Everything it wrote has been streamed line by line already, so the closing block carries
\* only the timings" (progress.go, ok): a closed command that shows no captured output has
\* shown every line, unless the log or a span was trimmed or the engine's log came late.
NothingLost ==
  mishaps = {} => \A c \in Commands :
    Unique(c) /\ closing[c] = "timings" => shown[c] = [i \in 1..NLines[c] |-> Line(c, i)]

\* "A heartbeat quotes the running command's own lines and not the ones the concurrently
\* running step is printing at the same time" (engine_watch.go, engineWatch).
OwnLinesOnly ==
  mishaps = {} => \A c \in Commands : \A i \in DOMAIN shown[c] : shown[c][i][1] = c

\* A command the engine has answered is always closed, whatever the log says or keeps back:
\* again and again there is none that waits for its goroutine, its output or its status.
AnsweredCommandsClose == []<>(\A c \in Commands : task[c].pc \notin {"stopping", "closing", "asking"})
=============================================================================
