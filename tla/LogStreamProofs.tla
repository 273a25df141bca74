---------------------------- MODULE LogStreamProofs ----------------------------
(***************************************************************************)
(* What holds of the log viewer for every number of containers and lines,  *)
(* every capacity of the buffer and of the queue, and any number of faults.*)
(***************************************************************************)
EXTENDS LogStream, TLAPS

USE DEF dockerVars, serverVars, pickVars, viewVars

Lines == [container : Container, n : Nat]
Rows  == [id : Nat, line : Lines]
Choice == [saved : BOOLEAN, names : SUBSET Container]

DockerInv ==
  /\ written \in [Container -> Nat] /\ old \in [Container -> Nat]
  /\ \A c \in Container : old[c] <= written[c] /\ written[c] <= MaxLine
  /\ seen \in [Container -> Nat] /\ missing \in [Container -> Nat]
  /\ paused \in BOOLEAN /\ reconnecting \in BOOLEAN
  /\ faults \in 0..MaxFaults /\ moves \in 0..MaxMoves

\* Threads and queue live as long as the connection, the connection as long as
\* the viewer.
StreamInv ==
  /\ conn \in {"closed", "connecting", "open", "refused"}
  /\ conn # "closed" => mounted
  /\ conn # "open" => watcher = <<>> /\ queue = <<>>
  /\ \A c \in ended : conn = "open" /\ c \notin DOMAIN watcher
  /\ DOMAIN watcher \subseteq Container
  /\ conn = "open" => watcher \in [DOMAIN watcher -> Nat]
  /\ \A c \in DOMAIN watcher : watcher[c] \in Nat /\ watcher[c] <= written[c]
  /\ queue \in Seq(Lines) /\ Len(queue) <= QueueSize

\* What is stored is what the operator chose, and what the viewer starts from.
PickInv ==
  /\ mounted \in BOOLEAN /\ initialised \in BOOLEAN
  /\ selected \subseteq Container /\ storage \in Choice /\ chosen \in Choice
  /\ chosen.saved => storage = chosen
  /\ mounted /\ chosen.saved => selected = chosen.names

\* Ids are given once; a row that is expanded is the one that was opened.
ViewInv ==
  /\ buffer \in Seq(Rows) /\ Len(buffer) <= Capacity /\ nextId \in Nat
  /\ \A i \in 1..Len(buffer) : buffer[i].id < nextId
  /\ \A i, j \in 1..Len(buffer) : i # j => buffer[i].id # buffer[j].id
  /\ \A id \in expanded : id \in Nat /\ id < nextId /\ id \in DOMAIN unfolded
  /\ ExpandedIsTheSame

\* Line n of c has come, or is one of those that may be missing.
Settled(came, lost, c, n) == n <= came[c] \/ n <= lost[c]
InQueue(q, c, n, k) == \E j \in 1..k : q[j] = Line(c, n)
Follows(came, lost, q, c, n, k) == Settled(came, lost, c, n) \/ InQueue(q, c, n, k)

\* No gaps: each line in the queue, and the next one a thread will read,
\* follows a line that has come or that is ahead of it in the queue.
Gapless(came, lost, q, w) ==
  /\ \A k \in 1..Len(q) : Follows(came, lost, q, q[k].container, q[k].n - 1, k - 1)
  /\ \A c \in DOMAIN w : Follows(came, lost, q, c, w[c], Len(q))
GapInv == Gapless(seen, missing, queue, watcher)

LInv == DockerInv /\ StreamInv /\ PickInv /\ ViewInv /\ GapInv

-----------------------------------------------------------------------------
LEMMA LogLimits ==
  /\ Capacity \in Nat /\ Capacity > 0 /\ QueueSize \in Nat /\ QueueSize > 0
  /\ MaxLine \in Nat /\ MaxFaults \in Nat /\ MaxMoves \in Nat
  BY LogAssumption

\* The ring keeps the newest rows, in their order.
LEMMA RingKeeps ==
  ASSUME NEW S, NEW s \in Seq(S), Len(s) <= Capacity + 1, Len(s) > 0
  PROVE  /\ Ring(s) \in Seq(S) /\ Len(Ring(s)) <= Capacity /\ Len(Ring(s)) > 0
         /\ Ring(s)[Len(Ring(s))] = s[Len(s)]
         /\ \E k \in 0..1 : \A i \in 1..Len(Ring(s)) :
              i + k \in 1..Len(s) /\ Ring(s)[i] = s[i + k]
  <1>1. Capacity \in Nat /\ Capacity > 0 /\ Len(s) \in Nat
    BY LogLimits
  <1>2. CASE Len(s) <= Capacity
    <2>1. Ring(s) = s  BY <1>1, <1>2 DEF Ring
    <2>2. \A i \in 1..Len(s) : i + 0 \in 1..Len(s) /\ s[i] = s[i + 0]  BY <1>1
    <2>3. QED BY <1>1, <1>2, <2>1, <2>2
  <1>3. CASE Len(s) > Capacity
    <2> DEFINE t == SubSeq(s, 2, Capacity + 1)
    <2>1. Len(s) = Capacity + 1  BY <1>1, <1>3
    <2>2. Ring(s) = t  BY <1>1, <1>3, <2>1 DEF Ring
    <2>3. t \in Seq(S) /\ Len(t) = Capacity
      BY <1>1, <2>1
    <2>4. \A i \in 1..Capacity : t[i] = s[i + 1] /\ i + 1 \in 1..Len(s)
      BY <1>1, <2>1
    <2> HIDE DEF t
    <2>5. t[Capacity] = s[Len(s)]  BY <1>1, <2>1, <2>4
    <2>6. QED BY <1>1, <2>2, <2>3, <2>4, <2>5
  <1>4. QED BY <1>1, <1>2, <1>3

LEMMA LogInit == LInit => LInv
  <1> SUFFICES ASSUME LInit  PROVE LInv
    OBVIOUS
  <1>1. DockerInv
    <2>1. /\ written = [c \in Container |-> 0] /\ old = [c \in Container |-> 0]
          /\ seen = [c \in Container |-> 0] /\ missing = [c \in Container |-> 0]
          /\ paused = FALSE /\ reconnecting = FALSE /\ faults = 0 /\ moves = 0
      BY DEF LInit
    <2>2. \A c \in Container : old[c] = 0 /\ written[c] = 0
      BY <2>1
    <2>3. /\ written \in [Container -> Nat] /\ old \in [Container -> Nat]
          /\ seen \in [Container -> Nat] /\ missing \in [Container -> Nat]
      BY <2>1
    <2>4. 0 <= MaxLine /\ 0 \in 0..MaxFaults /\ 0 \in 0..MaxMoves /\ 0 <= 0
      BY LogLimits
    <2>5. \A c \in Container : old[c] <= written[c] /\ written[c] <= MaxLine
      BY <2>2, <2>4
    <2>6. faults \in 0..MaxFaults /\ moves \in 0..MaxMoves  BY <2>1, <2>4
    <2>7. paused \in BOOLEAN /\ reconnecting \in BOOLEAN  BY <2>1
    <2>8. QED BY <2>3, <2>5, <2>6, <2>7 DEF DockerInv
  <1>2. StreamInv  BY LogLimits DEF LInit, StreamInv
  <1>3. PickInv  BY DEF LInit, PickInv, NotSaved, Choice
  <1>4. ViewInv  BY LogLimits DEF LInit, ViewInv, ExpandedIsTheSame
  <1>5. GapInv  BY DEF LInit, GapInv, Gapless
  <1>6. QED BY <1>1, <1>2, <1>3, <1>4, <1>5 DEF LInv

-----------------------------------------------------------------------------
(* What steps keep that do not touch a part.                               *)

LEMMA StreamStays ==
  StreamInv /\ UNCHANGED <<conn, serverVars, mounted, written>> => StreamInv'
  BY DEF StreamInv

LEMMA PickStays == PickInv /\ UNCHANGED pickVars => PickInv'
  BY DEF PickInv

LEMMA ViewStays ==
  ViewInv /\ UNCHANGED <<buffer, nextId, expanded, unfolded>> => ViewInv'
  BY DEF ViewInv, ExpandedIsTheSame

LEMMA GapStays ==
  GapInv /\ UNCHANGED <<serverVars, seen, missing>> => GapInv'
  BY DEF GapInv

\* A stream that is gone has neither lines nor gaps.
LEMMA StoppedStream ==
  ASSUME StreamInv, Stop, conn' \in {"closed", "connecting"}, conn' # "closed" => mounted'
  PROVE  StreamInv' /\ GapInv'
  BY LogLimits DEF StreamInv, GapInv, Gapless, Stop

-----------------------------------------------------------------------------
(* The steps.                                                              *)

LEMMA DockerSteps ==
  ASSUME LInv, NEW c \in Container, Emit(c) \/ GrowOld(c)  PROVE LInv'
  <1> USE DEF LInv
  <1>1. PickInv' /\ ViewInv' /\ GapInv'
    BY PickStays, ViewStays, GapStays DEF Emit, GrowOld
  <1>2. CASE Emit(c)
    <2>1. /\ written' = [written EXCEPT ![c] = @ + 1] /\ written[c] < MaxLine
          /\ UNCHANGED <<old, seen, missing, paused, reconnecting, faults, moves>>
      BY <1>2 DEF Emit
    <2>2. DockerInv'  BY <2>1, LogLimits DEF DockerInv
    <2>3. \A d \in Container : written'[d] \in Nat /\ written[d] <= written'[d]
      BY <2>1 DEF DockerInv
    <2>4. UNCHANGED <<conn, watcher, queue, ended, mounted>>  BY <1>2 DEF Emit
    <2>5. \A d \in DOMAIN watcher : watcher[d] \in Nat /\ watcher[d] <= written'[d]
      BY <2>3 DEF StreamInv, DockerInv
    <2>6. StreamInv'  BY <2>4, <2>5 DEF StreamInv
    <2>7. QED BY <1>1, <2>2, <2>6
  <1>3. CASE GrowOld(c)
    <2>1. /\ old' = [old EXCEPT ![c] = @ + 1] /\ old[c] < written[c]
          /\ UNCHANGED <<written, seen, missing, paused, reconnecting, faults, moves>>
      BY <1>3 DEF GrowOld
    <2>2. DockerInv'  BY <2>1, LogLimits DEF DockerInv
    <2>3. StreamInv'  BY <1>3, StreamStays DEF GrowOld
    <2>4. QED BY <1>1, <2>2, <2>3
  <1>4. QED BY <1>2, <1>3

LEMMA ConnectStep == ASSUME LInv, Connect  PROVE LInv'
  <1> USE DEF LInv
  <1>1. PickInv' /\ ViewInv'  BY PickStays, ViewStays DEF Connect
  <1>2. /\ watcher' = [c \in selected |-> old[c]] /\ queue' = <<>> /\ conn' = "open"
        /\ ended' = {} /\ selected \subseteq Container /\ mounted /\ mounted' = mounted
        /\ UNCHANGED <<written, old, seen, paused, reconnecting, faults, moves>>
    BY DEF Connect, Start, PickInv, StreamInv
  <1>3. /\ missing' \in [Container -> Nat]
        /\ \A c \in selected : old[c] <= missing'[c]
    <2>1. missing' = [c \in Container |-> IF c \in selected /\ old[c] > missing[c]
                                            THEN old[c] ELSE missing[c]]
      BY DEF Connect
    <2>2. QED BY <1>2, <2>1 DEF DockerInv
  <1>4. DockerInv'  BY <1>2, <1>3 DEF DockerInv
  <1>5. StreamInv'
    <2>1. watcher' \in [selected -> Nat] /\ DOMAIN watcher' = selected
      BY <1>2 DEF DockerInv
    <2>2. \A c \in selected : watcher'[c] \in Nat /\ watcher'[c] <= written'[c]
      BY <1>2 DEF DockerInv
    <2>3. queue' \in Seq(Lines) /\ Len(queue') = 0  BY <1>2
    <2>4. QED BY <1>2, <2>1, <2>2, <2>3, LogLimits DEF StreamInv
  <1>6. GapInv'
    <2>1. \A c \in DOMAIN watcher' : watcher'[c] <= missing'[c]
      BY <1>2, <1>3 DEF DockerInv
    <2>2. Len(queue') = 0  BY <1>2
    <2>3. QED BY <2>1, <2>2 DEF GapInv, Gapless, Follows, Settled
  <1>7. QED BY <1>1, <1>4, <1>5, <1>6

LEMMA BreakStep == ASSUME LInv, Break  PROVE LInv'
  <1>1. DockerInv'  BY LogLimits DEF LInv, DockerInv, Break
  <1>2. PickInv' /\ ViewInv'  BY PickStays, ViewStays DEF LInv, Break
  <1>3. StreamInv' /\ GapInv'
    BY StoppedStream DEF LInv, StreamInv, Break
  <1>4. QED BY <1>1, <1>2, <1>3 DEF LInv

LEMMA RefusedStep == ASSUME LInv, Refused  PROVE LInv'
  <1>1. DockerInv'  BY LogLimits DEF LInv, DockerInv, Refused
  <1>2. PickInv' /\ ViewInv'  BY PickStays, ViewStays DEF LInv, Refused
  <1>3. StreamInv' /\ GapInv'
    BY GapStays DEF LInv, StreamInv, Refused
  <1>4. QED BY <1>1, <1>2, <1>3 DEF LInv

\* The threads that are left read on where they are; the line a thread leaves
\* has no number, and so follows every other.
LEMMA WatcherEndsStep == ASSUME LInv, NEW c \in Container, WatcherEnds(c)  PROVE LInv'
  <1> USE DEF LInv
  <1>1. PickInv' /\ ViewInv'  BY PickStays, ViewStays DEF WatcherEnds
  <1>2. DockerInv'  BY LogLimits DEF DockerInv, WatcherEnds
  <1>3. /\ watcher' = [d \in DOMAIN watcher \ {c} |-> watcher[d]] /\ conn' = conn
        /\ ended' = ended \cup {c}
        /\ c \in DOMAIN watcher /\ UNCHANGED <<written, mounted, seen, missing>>
    BY DEF WatcherEnds
  <1>4. /\ conn = "open" /\ queue \in Seq(Lines)
        /\ watcher \in [DOMAIN watcher -> Nat]
    BY <1>3 DEF StreamInv
  <1>5. /\ DOMAIN watcher' = DOMAIN watcher \ {c}
        /\ \A d \in DOMAIN watcher' : d \in DOMAIN watcher /\ watcher'[d] = watcher[d]
    BY <1>3
  <1>6. watcher' \in [DOMAIN watcher' -> Nat]
        /\ \A d \in DOMAIN watcher' : watcher'[d] \in Nat /\ watcher'[d] <= written'[d]
    BY <1>3, <1>4, <1>5 DEF StreamInv
  <1> DEFINE l == Line(c, 0)
  <1>7. l \in Lines /\ l.container = c /\ l.n = 0
    BY DEF Lines, Line
  <1> HIDE DEF l
  <1>8. CASE queue' = queue
    <2>1. StreamInv'  BY <1>3, <1>4, <1>5, <1>6, <1>8 DEF StreamInv
    <2>2. GapInv'
      BY <1>3, <1>5, <1>8 DEF GapInv, Gapless
    <2>3. QED BY <1>1, <1>2, <2>1, <2>2
  <1>9. CASE Len(queue) < QueueSize /\ queue' = Append(queue, l)
    <2>1. /\ queue' \in Seq(Lines) /\ Len(queue') = Len(queue) + 1
          /\ queue'[Len(queue')] = l
          /\ \A k \in 1..Len(queue) : queue'[k] = queue[k]
      BY <1>4, <1>7, <1>9
    <2>2. StreamInv'
      BY <1>3, <1>4, <1>5, <1>6, <1>9, <2>1, LogLimits DEF StreamInv
    <2>3. ASSUME NEW d, NEW m, NEW k \in 0..Len(queue), NEW e \in k..Len(queue'),
                 Follows(seen, missing, queue, d, m, k)
          PROVE  Follows(seen', missing', queue', d, m, e)
      <3>1. \A j \in 1..k : queue'[j] = queue[j] /\ j \in 1..e
        BY <1>4, <2>1
      <3>2. QED BY <1>3, <2>3, <3>1 DEF Follows, Settled, InQueue
    <2>4. ASSUME NEW k \in 1..Len(queue')
          PROVE  Follows(seen', missing', queue', queue'[k].container, queue'[k].n - 1, k - 1)
      <3>1. CASE k \in 1..Len(queue)
        <4>1. /\ queue'[k] = queue[k] /\ k - 1 \in 0..Len(queue)
              /\ k - 1 \in (k - 1)..Len(queue')
          BY <1>4, <2>1, <3>1
        <4>2. Follows(seen, missing, queue, queue[k].container, queue[k].n - 1, k - 1)
          BY <3>1 DEF GapInv, Gapless
        <4>3. QED BY <4>1, <4>2, <2>3
      <3>2. CASE k = Len(queue')
        <4>1. queue'[k].container = c /\ queue'[k].n = 0
          BY <1>7, <2>1, <3>2
        <4>2. seen'[c] \in Nat  BY <1>2 DEF DockerInv
        <4>3. 0 - 1 <= seen'[c]  BY <4>2
        <4>4. QED BY <4>1, <4>3 DEF Follows, Settled
      <3>3. QED BY <1>4, <2>1, <3>1, <3>2
    <2>5. ASSUME NEW d \in DOMAIN watcher'
          PROVE  Follows(seen', missing', queue', d, watcher'[d], Len(queue'))
      <3>1. d \in DOMAIN watcher /\ watcher'[d] = watcher[d]  BY <1>5
      <3>2. Follows(seen, missing, queue, d, watcher[d], Len(queue))
        BY <3>1 DEF GapInv, Gapless
      <3>3. Len(queue) \in 0..Len(queue) /\ Len(queue') \in Len(queue)..Len(queue')
        BY <1>4, <2>1
      <3>4. QED BY <2>3, <3>1, <3>2, <3>3
    <2>6. GapInv'  BY <2>4, <2>5 DEF GapInv, Gapless
    <2>7. QED BY <1>1, <1>2, <2>2, <2>6
  <1>10. QED BY <1>8, <1>9 DEF WatcherEnds, l

LEMMA WatchStep == ASSUME LInv, NEW c \in Container, Watch(c)  PROVE LInv'
  <1> USE DEF LInv
  <1>1. PickInv' /\ ViewInv'  BY PickStays, ViewStays DEF Watch
  <1> DEFINE n == watcher[c]
             l == Line(c, n + 1)
  <1>2. /\ c \in DOMAIN watcher /\ n \in Nat /\ n < written[c] /\ conn = "open"
        /\ watcher \in [DOMAIN watcher -> Nat] /\ queue \in Seq(Lines)
    BY DEF Watch, StreamInv
  <1>3. /\ watcher' = [watcher EXCEPT ![c] = n + 1] /\ watcher'[c] = n + 1
        /\ UNCHANGED <<written, old, conn, ended, mounted, seen, paused, reconnecting, faults, moves>>
    BY <1>2 DEF Watch
  <1>4. l \in Lines /\ l.container = c /\ l.n = n + 1
    BY <1>2 DEF Lines, Line
  <1>5. /\ DOMAIN watcher' = DOMAIN watcher
        /\ \A d \in DOMAIN watcher : d # c => watcher'[d] = watcher[d]
    BY <1>2, <1>3
  <1>6. watcher' \in [DOMAIN watcher' -> Nat]
        /\ \A d \in DOMAIN watcher : watcher'[d] \in Nat /\ watcher'[d] <= written'[d]
    BY <1>2, <1>3, <1>5 DEF StreamInv, DockerInv
  <1>7. Follows(seen, missing, queue, c, n, Len(queue))
    BY <1>2 DEF GapInv, Gapless
  <1> HIDE DEF n, l
  <1>8. CASE Len(queue) < QueueSize
    <2>1. queue' = Append(queue, l) /\ missing' = missing
      BY <1>3, <1>8 DEF Watch, l
    <2>2. /\ queue' \in Seq(Lines) /\ Len(queue') = Len(queue) + 1
          /\ queue'[Len(queue')] = l
          /\ \A k \in 1..Len(queue) : queue'[k] = queue[k]
      BY <1>2, <1>4, <2>1
    <2>3. DockerInv'  BY <1>3, <2>1 DEF DockerInv
    <2>4. StreamInv'
      BY <1>2, <1>3, <1>5, <1>6, <1>8, <2>2, LogLimits DEF StreamInv
    <2>5. ASSUME NEW d, NEW m, NEW k \in 0..Len(queue), NEW e \in k..Len(queue'),
                 Follows(seen, missing, queue, d, m, k)
          PROVE  Follows(seen', missing', queue', d, m, e)
      <3>1. \A j \in 1..k : queue'[j] = queue[j] /\ j \in 1..e
        BY <1>2, <2>2
      <3>2. QED BY <1>3, <2>1, <2>5, <3>1 DEF Follows, Settled, InQueue
    <2>6. ASSUME NEW k \in 1..Len(queue')
          PROVE  Follows(seen', missing', queue', queue'[k].container, queue'[k].n - 1, k - 1)
      <3>1. CASE k \in 1..Len(queue)
        <4>1. /\ queue'[k] = queue[k] /\ k - 1 \in 0..Len(queue)
              /\ k - 1 \in (k - 1)..Len(queue')
          BY <1>2, <2>2, <3>1
        <4>2. Follows(seen, missing, queue, queue[k].container, queue[k].n - 1, k - 1)
          BY <3>1 DEF GapInv, Gapless
        <4>3. QED BY <4>1, <4>2, <2>5
      <3>2. CASE k = Len(queue')
        <4>1. /\ queue'[k] = l /\ k - 1 = Len(queue) /\ l.n - 1 = n
              /\ Len(queue) \in 0..Len(queue) /\ k - 1 \in Len(queue)..Len(queue')
          BY <1>2, <1>4, <2>2, <3>2
        <4>2. QED BY <1>4, <1>7, <2>5, <4>1
      <3>3. QED BY <1>2, <2>2, <3>1, <3>2
    <2>7. ASSUME NEW d \in DOMAIN watcher'
          PROVE  Follows(seen', missing', queue', d, watcher'[d], Len(queue'))
      <3>1. CASE d = c
        <4>1. Len(queue') \in 1..Len(queue') /\ queue'[Len(queue')] = Line(d, watcher'[d])
          BY <1>2, <1>3, <2>2, <3>1 DEF l
        <4>2. QED BY <4>1 DEF Follows, InQueue
      <3>2. CASE d # c
        <4>1. watcher'[d] = watcher[d] /\ d \in DOMAIN watcher  BY <1>5, <3>2
        <4>2. Follows(seen, missing, queue, d, watcher[d], Len(queue))
          BY <4>1 DEF GapInv, Gapless
        <4>3. Len(queue) \in 0..Len(queue) /\ Len(queue') \in Len(queue)..Len(queue')
          BY <1>2, <2>2
        <4>4. QED BY <2>5, <4>1, <4>2, <4>3
      <3>3. QED BY <3>1, <3>2
    <2>9. GapInv'  BY <2>6, <2>7 DEF GapInv, Gapless
    <2>10. QED BY <1>1, <2>3, <2>4, <2>9
  <1>9. CASE ~(Len(queue) < QueueSize)
    <2>1. queue' = queue /\ missing' = [missing EXCEPT ![c] = IF n + 1 > @ THEN n + 1 ELSE @]
      BY <1>3, <1>9 DEF Watch, n
    <2>2. /\ missing' \in [Container -> Nat] /\ missing'[c] >= n + 1
          /\ \A d \in Container : missing'[d] >= missing[d] /\ missing[d] \in Nat
                                  /\ missing'[d] \in Nat
      BY <1>2, <2>1 DEF DockerInv, n
    <2>3. DockerInv'  BY <1>3, <2>2 DEF DockerInv
    <2>4. StreamInv'  BY <1>2, <1>3, <1>5, <1>6, <2>1 DEF StreamInv
    <2>5. ASSUME NEW d \in Container, NEW m \in Int, NEW k,
                 Follows(seen, missing, queue, d, m, k)
          PROVE  Follows(seen', missing', queue', d, m, k)
      <3>1. missing[d] \in Nat /\ missing'[d] \in Nat /\ missing'[d] >= missing[d]
        BY <2>2
      <3>2. m <= missing[d] => m <= missing'[d]  BY <3>1
      <3>3. QED BY <1>3, <2>1, <2>5, <3>2 DEF Follows, Settled
    <2>6. ASSUME NEW k \in 1..Len(queue)
          PROVE  Follows(seen', missing', queue', queue[k].container, queue[k].n - 1, k - 1)
      <3>1. queue[k] \in Lines  BY <1>2
      <3>2. queue[k].container \in Container /\ queue[k].n - 1 \in Int
        BY <3>1 DEF Lines
      <3>3. QED BY <2>5, <3>2 DEF GapInv, Gapless
    <2>7. ASSUME NEW d \in DOMAIN watcher'
          PROVE  Follows(seen', missing', queue', d, watcher'[d], Len(queue'))
      <3>1. CASE d = c
        BY <1>2, <1>3, <2>2, <3>1 DEF Follows, Settled
      <3>2. CASE d # c
        <4>1. watcher'[d] = watcher[d] /\ d \in DOMAIN watcher /\ d \in Container
              /\ watcher[d] \in Int
          BY <1>5, <3>2 DEF StreamInv
        <4>2. QED BY <2>1, <2>5, <4>1 DEF GapInv, Gapless
      <3>3. QED BY <3>1, <3>2
    <2>10. GapInv'  BY <2>1, <2>6, <2>7 DEF GapInv, Gapless
    <2>11. QED BY <1>1, <2>3, <2>4, <2>10
  <1>10. QED BY <1>8, <1>9

\* What a line does that reaches the viewer, paused or not.
LEMMA MessageView == ASSUME LInv, Message, ~paused  PROVE ViewInv'
  <1> DEFINE row == [id |-> nextId, line |-> Head(queue)]
             s == Append(buffer, row)
  <1>1. queue \in Seq(Lines) /\ queue # <<>> /\ Head(queue) \in Lines
    BY DEF LInv, StreamInv, Message
  <1>2. buffer \in Seq(Rows) /\ Len(buffer) <= Capacity /\ nextId \in Nat
    BY DEF LInv, ViewInv
  <1>3. /\ buffer' = Ring(s) /\ nextId' = nextId + 1
        /\ UNCHANGED <<expanded, unfolded>>
    BY DEF Message
  <1>4. row \in Rows /\ row.id = nextId  BY <1>1, <1>2 DEF Rows
  <1> HIDE DEF row
  <1>5. /\ s \in Seq(Rows) /\ Len(s) = Len(buffer) + 1 /\ s[Len(s)] = row
        /\ \A i \in 1..Len(buffer) : s[i] = buffer[i]
    BY <1>2, <1>4
  <1> HIDE DEF s
  <1>6. \A i \in 1..Len(s) : i \in 1..Len(buffer) \/ i = Len(s)
    BY <1>2, <1>5
  <1>7. \A i \in 1..Len(buffer) : buffer[i].id \in Nat /\ buffer[i].id < nextId
    <2>1. \A i \in 1..Len(buffer) : buffer[i] \in Rows  BY <1>2
    <2>2. \A i \in 1..Len(buffer) : buffer[i].id \in Nat  BY <2>1 DEF Rows
    <2>3. QED BY <2>2 DEF LInv, ViewInv
  <1>8. \A i \in 1..Len(s) : s[i].id < nextId + 1
    BY <1>2, <1>4, <1>5, <1>6, <1>7
  <1>9. \A i, j \in 1..Len(s) : i # j => s[i].id # s[j].id
    BY <1>2, <1>4, <1>5, <1>6, <1>7 DEF LInv, ViewInv
  <1>10. \A i \in 1..Len(s) : s[i].id \in expanded => s[i].line = unfolded[s[i].id]
    <2>1. row.id \notin expanded  BY <1>2, <1>4 DEF LInv, ViewInv
    <2>2. QED BY <1>4, <1>5, <1>6, <2>1 DEF LInv, ViewInv, ExpandedIsTheSame
  <1>11. Len(s) > 0 /\ Len(s) <= Capacity + 1
    BY <1>2, <1>5, LogLimits
  <1>12. PICK k \in 0..1 : \A i \in 1..Len(buffer') :
           i + k \in 1..Len(s) /\ buffer'[i] = s[i + k]
    BY <1>3, <1>5, <1>11, RingKeeps
  <1>13. buffer' \in Seq(Rows) /\ Len(buffer') <= Capacity
    BY <1>3, <1>5, <1>11, RingKeeps
  <1>14. \A i \in 1..Len(buffer') : buffer'[i].id < nextId'
    BY <1>3, <1>8, <1>12
  <1>15. \A i, j \in 1..Len(buffer') : i # j => buffer'[i].id # buffer'[j].id
    <2>1. ASSUME NEW i \in 1..Len(buffer'), NEW j \in 1..Len(buffer'), i # j
          PROVE  buffer'[i].id # buffer'[j].id
      <3>1. /\ i + k \in 1..Len(s) /\ buffer'[i] = s[i + k]
            /\ j + k \in 1..Len(s) /\ buffer'[j] = s[j + k]
        BY <1>12
      <3>2. i + k # j + k  BY <2>1
      <3>3. QED BY <1>9, <3>1, <3>2
    <2>2. QED BY <2>1
  <1>16. \A i \in 1..Len(buffer') :
           buffer'[i].id \in expanded' => buffer'[i].line = unfolded'[buffer'[i].id]
    BY <1>3, <1>10, <1>12
  <1>17. /\ nextId' \in Nat
         /\ \A id \in expanded' : id \in Nat /\ id < nextId' /\ id \in DOMAIN unfolded'
    BY <1>2, <1>3 DEF LInv, ViewInv
  <1>18. QED BY <1>13, <1>14, <1>15, <1>16, <1>17 DEF ViewInv, ExpandedIsTheSame

\* The head of the queue comes, or is lost for a reason that is noted.
LEMMA MessageGap ==
  ASSUME LInv, Message
  PROVE  /\ GapInv'
         /\ Head(queue) \in Lines
         /\ Settled(seen, missing, Head(queue).container, Head(queue).n - 1)
         /\ seen' \in [Container -> Nat] /\ missing' \in [Container -> Nat]
  <1> DEFINE line == Head(queue)
             c == line.container
  <1>1. /\ queue \in Seq(Lines) /\ queue # <<>> /\ line \in Lines
        /\ c \in Container /\ line.n \in Nat /\ line = Line(c, line.n)
    <2>1. queue \in Seq(Lines) /\ queue # <<>>  BY DEF LInv, StreamInv, Message
    <2>2. line \in Lines  BY <2>1
    <2> HIDE DEF line
    <2>3. c \in Container /\ line.n \in Nat /\ line = Line(c, line.n)
      BY <2>2 DEF Lines, Line
    <2>4. QED BY <2>1, <2>2, <2>3
  <1>2. /\ Len(queue) \in Nat /\ Len(queue) > 0 /\ line = queue[1]
        /\ queue' = Tail(queue) /\ Len(queue') = Len(queue) - 1
        /\ \A k \in 1..Len(queue') : queue'[k] = queue[k + 1]
    BY <1>1 DEF Message
  <1>3. seen \in [Container -> Nat] /\ missing \in [Container -> Nat]
    BY DEF LInv, DockerInv
  <1>4. \/ /\ missing' = [missing EXCEPT ![c] = IF line.n > @ THEN line.n ELSE @]
           /\ seen' = seen
        \/ /\ seen' = [seen EXCEPT ![c] = IF line.n > @ THEN line.n ELSE @]
           /\ missing' = missing
    BY DEF Message
  <1>5. watcher' = watcher  BY DEF Message
  <1> HIDE DEF line, c
  <1>6. /\ seen' \in [Container -> Nat] /\ missing' \in [Container -> Nat]
        /\ \A d \in Container : seen'[d] >= seen[d] /\ missing'[d] >= missing[d]
        /\ seen'[c] >= line.n \/ missing'[c] >= line.n
    <2>1. ASSUME NEW f, NEW g, f \in [Container -> Nat],
                 g = [f EXCEPT ![c] = IF line.n > @ THEN line.n ELSE @]
          PROVE  /\ g \in [Container -> Nat] /\ g[c] >= line.n
                 /\ \A d \in Container : g[d] >= f[d]
      <3>1. f[c] \in Nat /\ line.n \in Nat /\ c \in Container  BY <1>1, <2>1
      <3>2. /\ g[c] = IF line.n > f[c] THEN line.n ELSE f[c]
            /\ \A d \in Container : d # c => g[d] = f[d] /\ f[d] \in Nat
            /\ g \in [Container -> Nat]
        BY <2>1, <3>1
      <3>3. QED BY <3>1, <3>2
    <2>2. \A d \in Container : seen[d] >= seen[d] /\ missing[d] >= missing[d]
      BY <1>3
    <2>3. CASE missing' = [missing EXCEPT ![c] = IF line.n > @ THEN line.n ELSE @] /\ seen' = seen
      BY <1>3, <2>1, <2>2, <2>3
    <2>4. CASE seen' = [seen EXCEPT ![c] = IF line.n > @ THEN line.n ELSE @] /\ missing' = missing
      BY <1>3, <2>1, <2>2, <2>4
    <2>5. QED BY <1>4, <2>3, <2>4
  <1>7. ASSUME NEW d \in Container, NEW m \in Int, NEW k \in 0..Len(queue),
               Follows(seen, missing, queue, d, m, k)
        PROVE  Follows(seen', missing', queue', d, m, k - 1)
    <2>1. CASE Settled(seen, missing, d, m)
      <3>1. /\ seen[d] \in Nat /\ seen'[d] \in Nat /\ seen'[d] >= seen[d]
            /\ missing[d] \in Nat /\ missing'[d] \in Nat /\ missing'[d] >= missing[d]
        BY <1>3, <1>6
      <3>2. QED BY <2>1, <3>1 DEF Follows, Settled
    <2>2. CASE InQueue(queue, d, m, k)
      <3>1. PICK j \in 1..k : queue[j] = Line(d, m)  BY <2>2 DEF InQueue
      <3>2. CASE j = 1
        <4>1. d = c /\ m = line.n  BY <1>1, <1>2, <3>1, <3>2 DEF Line
        <4>2. QED BY <1>6, <4>1 DEF Follows, Settled
      <3>3. CASE j # 1
        <4>1. j - 1 \in 1..(k - 1) /\ j - 1 \in 1..Len(queue')
          BY <1>2, <3>1, <3>3
        <4>2. queue'[j - 1] = Line(d, m)
          <5>1. queue'[j - 1] = queue[(j - 1) + 1]  BY <1>2, <4>1
          <5>2. (j - 1) + 1 = j  BY <3>1
          <5>3. QED BY <3>1, <5>1, <5>2
        <4>3. QED BY <4>1, <4>2 DEF Follows, InQueue
      <3>4. QED BY <3>2, <3>3
    <2>3. QED BY <1>7, <2>1, <2>2 DEF Follows
  <1>8. ASSUME NEW k \in 1..Len(queue')
        PROVE  Follows(seen', missing', queue', queue'[k].container, queue'[k].n - 1, k - 1)
    <2>1. /\ k + 1 \in 1..Len(queue) /\ queue'[k] = queue[k + 1] /\ (k + 1) - 1 = k
          /\ k \in 0..Len(queue)
      BY <1>2
    <2>2. queue[k + 1] \in Lines  BY <1>1, <2>1
    <2>3. queue[k + 1].container \in Container /\ queue[k + 1].n - 1 \in Int
      BY <2>2 DEF Lines
    <2>4. Follows(seen, missing, queue, queue[k + 1].container, queue[k + 1].n - 1, k)
      BY <2>1 DEF LInv, GapInv, Gapless
    <2>5. QED BY <1>7, <2>1, <2>3, <2>4
  <1>9. ASSUME NEW d \in DOMAIN watcher'
        PROVE  Follows(seen', missing', queue', d, watcher'[d], Len(queue'))
    <2>1. /\ d \in DOMAIN watcher /\ d \in Container /\ watcher[d] \in Int
          /\ watcher'[d] = watcher[d]
      BY <1>5 DEF LInv, StreamInv
    <2>2. Follows(seen, missing, queue, d, watcher[d], Len(queue))
      BY <2>1 DEF LInv, GapInv, Gapless
    <2>3. Len(queue) \in 0..Len(queue) /\ Len(queue') = Len(queue) - 1  BY <1>2
    <2>4. QED BY <1>7, <2>1, <2>2, <2>3
  <1>10. Settled(seen, missing, c, line.n - 1)
    <2>1. Follows(seen, missing, queue, queue[1].container, queue[1].n - 1, 0)
      <3>1. 1 \in 1..Len(queue) /\ 1 - 1 = 0  BY <1>2
      <3>2. QED BY <3>1 DEF LInv, GapInv, Gapless
    <2>2. QED BY <1>2, <2>1 DEF Follows, InQueue, c
  <1>11. GapInv'  BY <1>8, <1>9 DEF GapInv, Gapless
  <1>12. QED BY <1>1, <1>6, <1>10, <1>11 DEF line, c

LEMMA MessageStep == ASSUME LInv, Message  PROVE LInv'
  <1>1. GapInv' /\ seen' \in [Container -> Nat] /\ missing' \in [Container -> Nat]
    BY MessageGap
  <1>2. UNCHANGED <<written, old, paused, reconnecting, faults, moves, conn, watcher, ended, mounted>>
    BY DEF Message
  <1>3. DockerInv'  BY <1>1, <1>2 DEF LInv, DockerInv
  <1>4. StreamInv'
    <2>1. queue \in Seq(Lines) /\ queue # <<>> /\ queue' = Tail(queue) /\ conn = "open"
          /\ Len(queue) <= QueueSize
      BY DEF LInv, StreamInv, Message
    <2>2. queue' \in Seq(Lines) /\ Len(queue') <= QueueSize
      BY <2>1, LogLimits
    <2>3. QED BY <1>2, <2>1, <2>2 DEF LInv, StreamInv
  <1>5. PickInv'  BY PickStays DEF LInv, Message
  <1>6. ViewInv'
    <2>1. CASE paused
      <3>1. UNCHANGED <<buffer, nextId, expanded, unfolded>>
        BY <2>1 DEF Message
      <3>2. QED BY <3>1, ViewStays DEF LInv
    <2>2. CASE ~paused
      BY <2>2, MessageView
    <2>3. QED BY <2>1, <2>2
  <1>7. QED BY <1>1, <1>3, <1>4, <1>5, <1>6 DEF LInv

LEMMA MoveKeeps ==
  ASSUME DockerInv, Move \/ UNCHANGED moves,
         UNCHANGED <<dockerVars, seen, missing, faults>>,
         paused' \in BOOLEAN, reconnecting' \in BOOLEAN
  PROVE  DockerInv'
  <1>1. moves' \in 0..MaxMoves  BY LogLimits DEF Move, DockerInv
  <1>2. QED BY <1>1 DEF DockerInv

LEMMA ViewSteps ==
  ASSUME LInv, Clear \/ PauseToggle \/ (\E i \in 1..Capacity : ToggleExpand(i))
  PROVE  LInv'
  <1> USE DEF LInv
  <1>1. /\ UNCHANGED <<dockerVars, conn, serverVars, pickVars, reconnecting, seen, missing, faults>>
        /\ Move /\ paused' \in BOOLEAN
    BY DEF Clear, PauseToggle, ToggleExpand, DockerInv
  <1>2. DockerInv'  BY <1>1, MoveKeeps DEF DockerInv
  <1>3. StreamInv' /\ PickInv' /\ GapInv'
    BY <1>1, StreamStays, PickStays, GapStays
  <1>4. ViewInv'
    <2>1. CASE Clear
      BY <2>1, LogLimits DEF Clear, ClearBuffer, ViewInv, ExpandedIsTheSame
    <2>2. CASE PauseToggle
      BY <2>2, ViewStays DEF PauseToggle
    <2>3. CASE \E i \in 1..Capacity : ToggleExpand(i)
      <3>1. PICK i \in 1..Len(buffer) :
              /\ UNCHANGED <<buffer, nextId>>
              /\ \/ expanded' = expanded \ {buffer[i].id} /\ unfolded' = unfolded
                 \/ /\ expanded' = expanded \cup {buffer[i].id}
                    /\ unfolded' = [j \in DOMAIN unfolded \cup {buffer[i].id} |->
                                      IF j = buffer[i].id THEN buffer[i].line ELSE unfolded[j]]
                    /\ buffer[i].id \notin expanded
        BY <2>3 DEF ToggleExpand
      <3>2. buffer[i] \in Rows /\ buffer[i].id \in Nat /\ buffer[i].id < nextId
        <4>1. buffer[i] \in Rows  BY DEF ViewInv
        <4>2. QED BY <4>1 DEF ViewInv, Rows
      <3>3. CASE expanded' = expanded \ {buffer[i].id} /\ unfolded' = unfolded
        BY <3>1, <3>3 DEF ViewInv, ExpandedIsTheSame
      <3>4. CASE /\ expanded' = expanded \cup {buffer[i].id}
                 /\ unfolded' = [j \in DOMAIN unfolded \cup {buffer[i].id} |->
                                   IF j = buffer[i].id THEN buffer[i].line ELSE unfolded[j]]
        <4>1. ASSUME NEW k \in 1..Len(buffer), buffer[k].id \in expanded'
              PROVE  buffer[k].line = unfolded'[buffer[k].id]
          <5>1. CASE k = i
            BY <3>4, <5>1
          <5>2. CASE k # i
            <6>1. buffer[k].id # buffer[i].id  BY <5>2 DEF ViewInv
            <6>2. buffer[k].id \in expanded  BY <3>4, <4>1, <6>1
            <6>3. buffer[k].line = unfolded[buffer[k].id]
              BY <6>2 DEF ViewInv, ExpandedIsTheSame
            <6>4. buffer[k].id \in DOMAIN unfolded  BY <6>2 DEF ViewInv
            <6>5. QED BY <3>4, <6>1, <6>3, <6>4
          <5>3. QED BY <5>1, <5>2
        <4>2. \A id \in expanded' : id \in Nat /\ id < nextId' /\ id \in DOMAIN unfolded'
          BY <3>1, <3>2, <3>4 DEF ViewInv
        <4>3. QED BY <3>1, <4>1, <4>2 DEF ViewInv, ExpandedIsTheSame
      <3>5. QED BY <3>1, <3>3, <3>4
    <2>4. QED BY <2>1, <2>2, <2>3
  <1>5. QED BY <1>2, <1>3, <1>4

\* The effect of useLogStream leaves a stream that is closed or opens anew.
LEMMA Reopened ==
  ASSUME StreamInv, NEW names, Reopen(names), mounted, mounted' = mounted, reconnecting \in BOOLEAN
  PROVE  StreamInv' /\ GapInv' /\ reconnecting' \in BOOLEAN
  BY StoppedStream DEF Reopen

LEMMA PickSteps ==
  ASSUME LInv, Listed \/ Mount \/ Unmount \/ \E names \in SUBSET Container : Select(names)
  PROVE  LInv'
  <1> USE DEF LInv
  <1>1. CASE Mount
    <2>1. conn = "closed" /\ watcher = <<>> /\ queue = <<>>
      BY <1>1 DEF Mount, StreamInv
    <2>2. DockerInv'  BY <1>1, MoveKeeps DEF Mount
    <2>3. StreamInv' /\ GapInv'
      BY <1>1, <2>1, LogLimits DEF Mount, StreamInv, GapInv, Gapless
    <2>4. PickInv'  BY <1>1 DEF Mount, PickInv, Choice
    <2>5. ViewInv'  BY <1>1, LogLimits DEF Mount, ViewInv, ExpandedIsTheSame
    <2>6. QED BY <2>2, <2>3, <2>4, <2>5
  <1>2. CASE Unmount
    <2>1. DockerInv'  BY <1>2, MoveKeeps DEF Unmount, DockerInv
    <2>2. StreamInv' /\ GapInv'  BY <1>2, StoppedStream DEF Unmount
    <2>3. PickInv'  BY <1>2 DEF Unmount, PickInv
    <2>4. ViewInv'  BY <1>2, ViewStays DEF Unmount
    <2>5. QED BY <2>1, <2>2, <2>3, <2>4
  <1>3. CASE \E names \in SUBSET Container : Select(names)
    <2>1. PICK names \in SUBSET Container : Select(names)  BY <1>3
    <2>2. StreamInv' /\ GapInv' /\ reconnecting' \in BOOLEAN
      BY <2>1, Reopened DEF Select, DockerInv
    <2>3. DockerInv'  BY <2>1, <2>2, MoveKeeps DEF Select, DockerInv
    <2>4. PickInv'  BY <2>1 DEF Select, PickInv, Choice, Saved
    <2>5. ViewInv'  BY <2>1, ViewStays DEF Select
    <2>6. QED BY <2>2, <2>3, <2>4, <2>5
  <1>4. CASE Listed
    <2>1. ViewInv'  BY <1>4, ViewStays DEF Listed
    <2>2. PickInv'
      <3>1. chosen \in Choice /\ (chosen.saved => storage = chosen)
            /\ (chosen.saved => selected = chosen.names)
        BY <1>4 DEF Listed, PickInv
      <3>2. chosen.saved => Saved(chosen.names) = chosen
        BY <3>1 DEF Choice, Saved
      <3>3. CASE FirstTime
        <4>1. /\ selected' = Container /\ storage' = Saved(Container)
              /\ UNCHANGED <<chosen, mounted>> /\ initialised' = TRUE
          BY <1>4, <3>3 DEF Listed
        <4>2. Saved(Container) \in Choice  BY DEF Choice, Saved
        <4>3. ~chosen.saved  BY <3>1, <3>3 DEF FirstTime
        <4>4. QED BY <4>1, <4>2, <4>3 DEF PickInv
      <3>4. CASE ~FirstTime
        <4>1. storage' = Saved(selected) /\ UNCHANGED <<selected, chosen, mounted>> /\ initialised'
          BY <1>4, <3>4 DEF Listed
        <4>2. Saved(selected) \in Choice  BY DEF PickInv, Choice, Saved
        <4>3. QED BY <3>1, <3>2, <4>1, <4>2, <1>4 DEF PickInv, Listed
      <3>5. QED BY <3>3, <3>4
    <2>3. StreamInv' /\ GapInv' /\ reconnecting' \in BOOLEAN
      <3>1. CASE FirstTime
        BY <1>4, <3>1, Reopened DEF Listed, DockerInv
      <3>2. CASE ~FirstTime
        BY <1>4, <3>2, StreamStays, GapStays DEF Listed, DockerInv
      <3>3. QED BY <3>1, <3>2
    <2>4. DockerInv'  BY <1>4, <2>3, MoveKeeps DEF Listed, DockerInv
    <2>5. QED BY <2>1, <2>2, <2>3, <2>4
  <1>5. QED BY <1>1, <1>2, <1>3, <1>4

LEMMA LogStep == LInv /\ [LNext]_vars => LInv'
  <1> SUFFICES ASSUME LInv, [LNext]_vars  PROVE LInv'
    OBVIOUS
  <1>1. CASE \E c \in Container : Emit(c) \/ GrowOld(c) \/ Watch(c) \/ WatcherEnds(c)
    BY <1>1, DockerSteps, WatchStep, WatcherEndsStep
  <1>2. CASE Connect \/ Break \/ Refused \/ Message
    BY <1>2, ConnectStep, BreakStep, RefusedStep, MessageStep
  <1>3. CASE Clear \/ PauseToggle \/ \E i \in 1..Capacity : ToggleExpand(i)
    BY <1>3, ViewSteps
  <1>4. CASE Listed \/ Mount \/ Unmount \/ \E names \in SUBSET Container : Select(names)
    BY <1>4, PickSteps
  <1>5. CASE UNCHANGED vars
    <2>1. DockerInv'  BY <1>5 DEF LInv, DockerInv, vars
    <2>2. StreamInv' /\ PickInv' /\ ViewInv' /\ GapInv'
      BY <1>5, StreamStays, PickStays, ViewStays, GapStays DEF LInv, vars
    <2>3. QED BY <2>1, <2>2 DEF LInv
  <1>6. QED BY <1>1, <1>2, <1>3, <1>4, <1>5 DEF LNext

THEOREM LogInvariant == LSpec => []LInv
  BY LogInit, LogStep, PTL DEF LSpec

-----------------------------------------------------------------------------
\* Types: neither the queue nor the buffer outgrows its limit, and threads run
\* only for a connection that is open (api/logs.py, log-buffer.ts:9-14).
THEOREM LogTyped == LSpec => []LTypeOK
  <1>1. LInv => LTypeOK
    <2> SUFFICES ASSUME LInv  PROVE LTypeOK
      OBVIOUS
    <2>1. \A c \in Container : written[c] \in 0..MaxLine /\ old[c] \in 0..MaxLine
      <3> TAKE c \in Container
      <3>1. written[c] \in Nat /\ old[c] \in Nat /\ old[c] <= written[c] /\ written[c] <= MaxLine
        BY DEF LInv, DockerInv
      <3>2. QED BY <3>1, LogLimits
    <2>2. written \in [Container -> 0..MaxLine] /\ old \in [Container -> 0..MaxLine]
      BY <2>1 DEF LInv, DockerInv
    <2>3. /\ \A c \in DOMAIN watcher : conn = "open" /\ watcher[c] <= written[c]
          /\ \A c \in ended : conn = "open" /\ c \notin DOMAIN watcher
      BY DEF LInv, StreamInv
    <2>4. storage.names \subseteq Container
      BY DEF LInv, PickInv, Choice
    <2>5. QED BY <2>2, <2>3, <2>4 DEF LTypeOK, LInv, DockerInv, StreamInv, PickInv, ViewInv
  <1>2. QED BY <1>1, LogInvariant, PTL

\* The viewer has the selection the operator made last (log-viewer.tsx:21-61).
THEOREM SelectionIsKept == LSpec => []SelectionKept
  <1>1. LInv => SelectionKept  BY DEF LInv, PickInv, SelectionKept
  <1>2. QED BY <1>1, LogInvariant, PTL

\* A row that is shown in full is the one the operator opened
\* (log-buffer.ts:9-22, use-log-stream.ts:51-86).
THEOREM ExpandedStays == LSpec => []ExpandedIsTheSame
  <1>1. LInv => ExpandedIsTheSame  BY DEF LInv, ViewInv
  <1>2. QED BY <1>1, LogInvariant, PTL

\* Only a message that is shown brings a line.
LEMMA OnlyMessage ==
  ASSUME LInv, [LNext]_vars, NEW c \in Container, seen'[c] > seen[c]
  PROVE  /\ Message /\ ~paused /\ c = Head(queue).container /\ seen'[c] = Head(queue).n
  <1>1. seen \in [Container -> Nat]  BY DEF LInv, DockerInv
  <1>2. seen' # seen  BY <1>1
  <1>3. Message /\ ~paused
    BY <1>2 DEF LNext, vars, Emit, GrowOld, Watch, WatcherEnds, Connect, Break, Refused, Message, Clear,
                PauseToggle, ToggleExpand, Select, Listed, Mount, Unmount
  <1>4. Head(queue) \in Lines  BY <1>3, MessageGap
  <1>5. seen' = [seen EXCEPT ![Head(queue).container] =
                   IF Head(queue).n > @ THEN Head(queue).n ELSE @]
    BY <1>3 DEF Message
  <1>6. Head(queue).container \in Container /\ Head(queue).n \in Nat
    BY <1>4 DEF Lines
  <1>7. QED BY <1>1, <1>3, <1>5, <1>6

\* A broken connection costs no line: what comes follows a line that has come,
\* or one of those that may be missing.
THEOREM NoLineSkipped == LSpec => NothingSkipped
  <1>1. ASSUME LInv, [LNext]_vars, NEW c \in Container, seen'[c] > seen[c]
        PROVE  seen'[c] - 1 <= seen[c] \/ seen'[c] - 1 <= missing[c]
    <2>1. Message /\ c = Head(queue).container /\ seen'[c] = Head(queue).n
      BY <1>1, OnlyMessage
    <2>2. Settled(seen, missing, Head(queue).container, Head(queue).n - 1)
      BY <1>1, <2>1, MessageGap
    <2>3. QED BY <2>1, <2>2 DEF Settled
  <1>2. LInv /\ [LNext]_vars =>
          \A c \in Container :
            seen'[c] > seen[c] => seen'[c] - 1 <= seen[c] \/ seen'[c] - 1 <= missing[c]
    BY <1>1
  <1>3. QED BY <1>2, LogInvariant, PTL DEF LSpec, NothingSkipped

\* The newest line is in the buffer, however full it is (log-buffer.ts:9-14).
THEOREM NewestStays == LSpec => NewestIsShown
  <1>1. ASSUME LInv, [LNext]_vars, NEW c \in Container, seen'[c] > seen[c]
        PROVE  \E i \in 1..Len(buffer') : buffer'[i].line = Line(c, seen'[c])
    <2> DEFINE row == [id |-> nextId, line |-> Head(queue)]
               s == Append(buffer, row)
    <2>1. Message /\ ~paused /\ c = Head(queue).container /\ seen'[c] = Head(queue).n
      BY <1>1, OnlyMessage
    <2>2. Head(queue) \in Lines  BY <1>1, <2>1, MessageGap
    <2>3. Head(queue) = Line(c, seen'[c])  BY <2>1, <2>2 DEF Lines, Line
    <2>4. buffer \in Seq(Rows) /\ Len(buffer) <= Capacity /\ row \in Rows
      BY <1>1, <2>2 DEF LInv, ViewInv, Rows
    <2>5. buffer' = Ring(s)  BY <2>1 DEF Message
    <2> HIDE DEF row
    <2>6. s \in Seq(Rows) /\ Len(s) = Len(buffer) + 1 /\ s[Len(s)] = row
      BY <2>4
    <2> HIDE DEF s
    <2>7. Len(s) > 0 /\ Len(s) <= Capacity + 1  BY <2>4, <2>6, LogLimits
    <2>8. /\ Len(buffer') \in Nat /\ Len(buffer') > 0
          /\ buffer'[Len(buffer')] = row
      BY <2>5, <2>6, <2>7, RingKeeps
    <2>9. row.line = Line(c, seen'[c])  BY <2>3 DEF row
    <2>10. QED BY <2>8, <2>9
  <1>2. LInv /\ [LNext]_vars =>
          \A c \in Container :
            seen'[c] > seen[c] =>
              \E i \in 1..Len(buffer') : buffer'[i].line = Line(c, seen'[c])
    BY <1>1
  <1>3. QED BY <1>2, LogInvariant, PTL DEF LSpec, NewestIsShown
=============================================================================
