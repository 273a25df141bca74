----------------------------- MODULE LogStream ------------------------------
(***************************************************************************)
(* The log viewer: the lines the containers write, the watcher threads and *)
(* the queue behind /api/logs/stream, the EventSource of useLogStream, the *)
(* ring buffer, and the selection that survives in localStorage.           *)
(*                                                                         *)
(* A line is a container and its number in that container's log; "since"   *)
(* replays the lines that are not old yet.  Filter, sorting and scrolling  *)
(* only show what the buffer has.                                          *)
(***************************************************************************)
EXTENDS Integers, Sequences

CONSTANTS
  Container,   \* the containers Docker lists
  Capacity,    \* MAX of log-buffer.ts
  QueueSize,   \* maxsize of the queue of a stream
  MaxLine,     \* bound on the lines of two containers
  MaxFaults,   \* bound on connections that break or are refused, and threads that end
  MaxMoves     \* bound on what the operator does

ASSUME LogAssumption ==
  /\ Capacity \in Nat \ {0} /\ QueueSize \in Nat \ {0}
  /\ MaxLine \in Nat /\ MaxFaults \in Nat /\ MaxMoves \in Nat

VARIABLES
  written,      \* container -> lines written so far
  old,          \* container -> how many of them "since" leaves out
  conn,         \* the EventSource: "closed", "connecting", "open", or "refused"
                \* once it has given up
  watcher,      \* container with a thread -> last line the thread has read
  queue,        \* the lines of the stream on their way
  ended,        \* history: containers whose thread has ended in this stream
  mounted,      \* the viewer is on screen
  initialised,  \* hasInitialised
  selected,     \* the containers that are selected
  storage,      \* localStorage: [saved, names]
  paused, reconnecting,
  dropped,      \* droppedWhilePaused is not zero
  buffer, nextId,
  expanded,     \* ids of the lines shown in full
  seen,         \* history: container -> last line that was due and came
  missing,      \* history: container -> last line that may be missing
  unfolded,     \* history: id -> the line the operator expanded
  chosen,       \* history: the last selection the operator made
  faults, moves

dockerVars == <<written, old>>
serverVars == <<watcher, queue, ended>>
pickVars   == <<mounted, initialised, selected, storage, chosen>>
viewVars   == <<paused, dropped, buffer, nextId, expanded, unfolded>>
vars == <<dockerVars, conn, serverVars, pickVars, viewVars, reconnecting,
          seen, missing, faults, moves>>

NotSaved == [saved |-> FALSE, names |-> {}]
Saved(names) == [saved |-> TRUE, names |-> names]
Line(c, n) == [container |-> c, n |-> n]

LInit ==
  /\ written = [c \in Container |-> 0] /\ old = [c \in Container |-> 0]
  /\ conn = "closed" /\ watcher = <<>> /\ queue = <<>> /\ ended = {}
  /\ mounted = FALSE /\ initialised = FALSE /\ selected = {} /\ storage = NotSaved
  /\ paused = FALSE /\ reconnecting = FALSE /\ dropped = FALSE
  /\ buffer = <<>> /\ nextId = 1 /\ expanded = {} /\ unfolded = <<>>
  /\ seen = [c \in Container |-> 0] /\ missing = [c \in Container |-> 0]
  /\ chosen = NotSaved /\ faults = 0 /\ moves = 0

Move == moves < MaxMoves /\ moves' = moves + 1

-----------------------------------------------------------------------------
(* Docker and the stream of the orchestrator *)

Emit(c) ==
  /\ written[c] < MaxLine
  /\ \A d \in Container \ {c} : written[c] + written[d] < MaxLine
  /\ written' = [written EXCEPT ![c] = @ + 1]
  /\ UNCHANGED <<old, conn, serverVars, pickVars, viewVars, reconnecting, seen, missing,
                 faults, moves>>

\* A line gets older than two minutes.
GrowOld(c) ==
  /\ old[c] < written[c]
  /\ old' = [old EXCEPT ![c] = @ + 1]
  /\ UNCHANGED <<written, conn, serverVars, pickVars, viewVars, reconnecting, seen, missing,
                 faults, moves>>

\* The stream is gone, its queue and its threads with it.
Stop == queue' = <<>> /\ watcher' = <<>> /\ ended' = {}

\* Mutant of Start: the threads follow the logs from their end.
StartAtEnd(names) == watcher' = [c \in names |-> written[c]]
\* A thread for each container, from the lines of the last two minutes on.
Start(names) == watcher' = [c \in names |-> old[c]]

\* The connection opens; lines that grew old meanwhile are gone.  Nothing
\* clears "reconnecting": only an effect that runs anew does.
Connect ==
  /\ conn = "connecting" /\ conn' = "open"
  /\ Start(selected) /\ queue' = <<>> /\ ended' = {}
  /\ missing' = [c \in Container |-> IF c \in selected /\ old[c] > missing[c] THEN old[c]
                                                                             ELSE missing[c]]
  /\ UNCHANGED <<dockerVars, pickVars, viewVars, reconnecting, seen, faults, moves>>

\* The stream ends or the network fails: EventSource connects anew by itself.
Break ==
  /\ conn = "open" /\ faults < MaxFaults /\ faults' = faults + 1
  /\ conn' = "connecting" /\ Stop
  /\ reconnecting' = TRUE
  /\ UNCHANGED <<dockerVars, pickVars, viewVars, seen, missing, moves>>

\* The answer is not a stream: the proxy's 500 while the orchestrator is down, or
\* the login page once the session is over.  EventSource closes for good then,
\* and nobody opens another one before the selection changes.
Refused ==
  /\ conn = "connecting" /\ faults < MaxFaults /\ faults' = faults + 1
  /\ conn' = "refused" /\ reconnecting' = TRUE
  /\ UNCHANGED <<dockerVars, serverVars, pickVars, viewVars, seen, missing, moves>>

\* A thread ends with its container's log stream or by an exception, or because
\* there is no such container, and then leaves a line of its own, which has no
\* number.  The stream stays open.
WatcherEnds(c) ==
  /\ c \in DOMAIN watcher /\ faults < MaxFaults /\ faults' = faults + 1
  /\ watcher' = [d \in DOMAIN watcher \ {c} |-> watcher[d]] /\ ended' = ended \cup {c}
  /\ \/ UNCHANGED queue
     \/ watcher[c] = old[c] /\ Len(queue) < QueueSize /\ queue' = Append(queue, Line(c, 0))
  /\ UNCHANGED <<dockerVars, conn, pickVars, viewVars, reconnecting, seen, missing, moves>>

\* A thread reads a line; put_nowait on a full queue drops it.
Watch(c) ==
  /\ c \in DOMAIN watcher /\ watcher[c] < written[c]
  /\ watcher' = [watcher EXCEPT ![c] = @ + 1]
  /\ IF Len(queue) < QueueSize
       THEN queue' = Append(queue, Line(c, watcher'[c])) /\ UNCHANGED missing
       ELSE missing' = [missing EXCEPT ![c] = IF watcher'[c] > @ THEN watcher'[c] ELSE @] /\ UNCHANGED queue
  /\ UNCHANGED <<dockerVars, conn, ended, pickVars, viewVars, reconnecting, seen, faults, moves>>

-----------------------------------------------------------------------------
(* The buffer and the handler of the EventSource *)

Ring(s) == IF Len(s) > Capacity THEN SubSeq(s, Len(s) - Capacity + 1, Len(s)) ELSE s

\* While the viewer is paused a line is noted and lost.
Message ==
  /\ conn = "open" /\ queue # <<>> /\ queue' = Tail(queue)
  /\ LET line == Head(queue)
         c == line.container
     IN IF paused
          THEN /\ dropped' = TRUE
               /\ missing' = [missing EXCEPT ![c] = IF line.n > @ THEN line.n ELSE @]
               /\ UNCHANGED <<buffer, nextId, seen>>
          ELSE /\ buffer' = Ring(Append(buffer, [id |-> nextId, line |-> line]))
               /\ nextId' = nextId + 1
               /\ seen' = [seen EXCEPT ![c] = IF line.n > @ THEN line.n ELSE @]
               /\ UNCHANGED <<dropped, missing>>
  /\ UNCHANGED <<dockerVars, conn, watcher, ended, pickVars, paused, expanded, unfolded,
                 reconnecting, faults, moves>>

\* Mutant of ClearBuffer: the ids start again as well.
ClearBufferAndIds == buffer' = <<>> /\ nextId' = 1
ClearBuffer == buffer' = <<>> /\ UNCHANGED nextId

Clear ==
  /\ Move /\ mounted /\ ClearBuffer /\ dropped' = FALSE
  /\ UNCHANGED <<dockerVars, conn, serverVars, pickVars, paused, expanded, unfolded,
                 reconnecting, seen, missing, faults>>

PauseToggle ==
  /\ Move /\ mounted /\ initialised /\ paused' = ~paused
  /\ UNCHANGED <<dockerVars, conn, serverVars, pickVars, dropped, buffer, nextId, expanded,
                 unfolded, reconnecting, seen, missing, faults>>

\* A click on a row expands it, the next one folds it again.
ToggleExpand(i) ==
  /\ Move /\ i \in 1..Len(buffer)
  /\ LET id == buffer[i].id IN
       IF id \in expanded
         THEN expanded' = expanded \ {id} /\ UNCHANGED unfolded
         ELSE /\ expanded' = expanded \cup {id}
              /\ unfolded' = [j \in DOMAIN unfolded \cup {id} |->
                                IF j = id THEN buffer[i].line ELSE unfolded[j]]
  /\ UNCHANGED <<dockerVars, conn, serverVars, pickVars, paused, dropped, buffer, nextId,
                 reconnecting, seen, missing, faults>>

-----------------------------------------------------------------------------
(* The selection *)

\* Mutant of Reopen: a stream that is open stays as it is.
ReopenOnce(names) ==
  /\ UNCHANGED reconnecting
  /\ IF names = {} THEN conn' = "closed" /\ Stop
     ELSE /\ conn' = IF conn = "closed" THEN "connecting" ELSE conn
          /\ UNCHANGED serverVars
\* The effect of useLogStream when the selection changes: the old source is
\* closed, a new one opened unless nothing is selected.
Reopen(names) ==
  /\ Stop
  /\ IF names = {} THEN conn' = "closed" /\ UNCHANGED reconnecting
                   ELSE conn' = "connecting" /\ reconnecting' = FALSE

\* The buttons of the toolbar; the effect stores the selection.
Select(names) ==
  /\ Move /\ mounted /\ initialised /\ names # selected
  /\ \/ \E c \in Container : names \in {selected \cup {c}, selected \ {c}}
     \/ names \in {{}, Container}
  /\ selected' = names /\ storage' = Saved(names) /\ chosen' = Saved(names)
  /\ Reopen(names)
  /\ UNCHANGED <<dockerVars, mounted, initialised, viewVars, seen, missing, faults>>

\* Mutant of FirstTime: an empty selection counts as none.
FirstTimeEmpty == selected = {}
FirstTime == selected = {} /\ ~storage.saved

\* The list of containers arrives: a first-time visitor gets all of them.
Listed ==
  /\ mounted /\ ~initialised /\ initialised' = TRUE
  /\ IF FirstTime
       THEN /\ selected' = Container /\ storage' = Saved(Container)
            /\ Reopen(Container)
       ELSE /\ storage' = Saved(selected)
            /\ UNCHANGED <<selected, conn, serverVars, reconnecting>>
  /\ UNCHANGED <<dockerVars, mounted, chosen, viewVars, seen, missing, faults, moves>>

\* The stream of a saved selection opens before the list has arrived.
Mount ==
  /\ ~mounted /\ mounted' = TRUE /\ initialised' = FALSE
  /\ selected' = storage.names
  /\ conn' = IF selected' = {} THEN "closed" ELSE "connecting"
  /\ reconnecting' = FALSE /\ paused' = FALSE /\ dropped' = FALSE
  /\ buffer' = <<>> /\ nextId' = 1 /\ expanded' = {} /\ unfolded' = <<>>
  /\ UNCHANGED <<dockerVars, serverVars, storage, chosen, seen, missing, faults, moves>>

\* Mutant of Unmount: the source is not closed.
UnmountLeaks ==
  /\ Move /\ mounted /\ mounted' = FALSE
  /\ UNCHANGED <<dockerVars, conn, serverVars, initialised, selected, storage, chosen,
                 viewVars, reconnecting, seen, missing, faults>>
Unmount ==
  /\ Move /\ mounted /\ mounted' = FALSE
  /\ conn' = "closed" /\ Stop
  /\ UNCHANGED <<dockerVars, initialised, selected, storage, chosen, viewVars,
                 reconnecting, seen, missing, faults>>

-----------------------------------------------------------------------------
LNext ==
  \/ \E c \in Container : Emit(c) \/ GrowOld(c) \/ Watch(c) \/ WatcherEnds(c)
  \/ Connect \/ Break \/ Refused \/ Message \/ Clear \/ PauseToggle
  \/ \E i \in 1..Capacity : ToggleExpand(i)
  \/ \E names \in SUBSET Container : Select(names)
  \/ Listed \/ Mount \/ Unmount

LSpec == LInit /\ [][LNext]_vars

\* The browser connects or is refused, threads read, messages are handled.
LFairness ==
  /\ WF_vars(Connect) /\ WF_vars(Message) /\ \A c \in Container : WF_vars(Watch(c))
LFairSpec == LSpec /\ LFairness

-----------------------------------------------------------------------------
LTypeOK ==
  /\ written \in [Container -> 0..MaxLine] /\ old \in [Container -> 0..MaxLine]
  /\ conn \in {"closed", "connecting", "open", "refused"} /\ (conn # "closed" => mounted)
  /\ \A c \in DOMAIN watcher : conn = "open" /\ watcher[c] <= written[c]
  /\ \A c \in ended : conn = "open" /\ c \notin DOMAIN watcher
  /\ Len(queue) <= QueueSize /\ Len(buffer) <= Capacity
  /\ selected \subseteq Container /\ storage.names \subseteq Container
  /\ paused \in BOOLEAN /\ reconnecting \in BOOLEAN /\ mounted \in BOOLEAN
  /\ faults \in 0..MaxFaults /\ moves \in 0..MaxMoves

\* A broken connection costs no line: the replay of two minutes closes the gap
\* with lines the viewer has, or has them twice.  Lines are missing only after
\* a pause, a full queue, or a gap of more than two minutes.
NothingSkipped ==
  [][\A c \in Container :
       seen'[c] > seen[c] => seen'[c] - 1 <= seen[c] \/ seen'[c] - 1 <= missing[c]]_vars

\* The newest line that came is in the buffer, however full it is, until the
\* operator clears it.
NewestIsShown ==
  [][\A c \in Container :
       seen'[c] > seen[c] =>
         \E i \in 1..Len(buffer') : buffer'[i].line = Line(c, seen'[c])]_vars

\* A row that is shown in full is the one the operator opened: ids are not
\* used again, not after the buffer wrapped around or was cleared either.
ExpandedIsTheSame ==
  \A i \in 1..Len(buffer) :
    buffer[i].id \in expanded => buffer[i].line = unfolded[buffer[i].id]

\* The viewer has the selection the operator made last, an empty one too, over
\* visits and before the list of containers has arrived.
SelectionKept == mounted /\ chosen.saved => selected = chosen.names

\* The stream will bring no line of c any more: EventSource has given up, or the
\* container's thread has ended in this stream (api/logs.py:68-74, 81-100).
CutOff(c) == conn = "refused" \/ c \in ended

\* A line of a selected container comes in the end, however often the connection
\* breaks, unless the operator pauses, deselects or leaves, the line may be
\* missing, or the container is cut off, which only a new selection mends
\* (use-log-stream.ts:41-77, api/logs.py:96, 120-128).
LinesArrive ==
  \A c \in Container :
    (mounted /\ c \in selected /\ seen[c] < written[c])
    ~> \/ seen[c] = written[c] \/ missing[c] > seen[c]
       \/ c \notin selected \/ ~mounted \/ paused \/ CutOff(c)
=============================================================================
