------------------------------ MODULE Retention ------------------------------
(***************************************************************************)
(* The retention engine (core/retention/, workers/retention.py,            *)
(* api/retention.py): the planner that announces deletions, the apply tick *)
(* with its circuit breaker, its boost under disk pressure and the         *)
(* executor that carries announcements out, and the API calls that cancel, *)
(* hasten and pin.                                                         *)
(*                                                                         *)
(* The ticks share the event loop: they interleave at their awaits only.   *)
(* API handlers run in threads and interleave everywhere, but their        *)
(* commits fail while the executor's session holds SQLite's write lock.    *)
(* Time is counted in days, relative to the present.                       *)
(***************************************************************************)
EXTENDS Naturals, FiniteSets

CONSTANTS
  Item,        \* titles
  Pd,          \* rows of pending_deletion, reused once closed and let go
  NoItem,
  NoPd,
  Grace,       \* movie_grace_days, series_grace_days
  PinDays,     \* days of a temporary pin
  MaxPerTick,  \* retention_max_deletes_per_tick
  MaxPerDay,   \* retention_max_deletes_per_day
  Actors,      \* who acts besides the ticks, and which faults happen
  Punctual     \* the planner runs at least once a day

ASSUME SetsAssumption == IsFiniteSet(Item) /\ IsFiniteSet(Pd)
                         /\ NoItem \notin Item /\ NoPd \notin Pd
ASSUME LimitsAssumption == {Grace, PinDays, MaxPerTick, MaxPerDay} \subseteq Nat
ASSUME ActorsAssumption ==
  Actors \subseteq {"viewer", "cancel", "hasten", "pin", "settings", "pressure",
                    "exception", "arr", "lost"}
ASSUME PunctualAssumption == Punctual \in BOOLEAN

VARIABLES
  enabled,   \* retention_enabled
  dryRun,    \* retention_dry_run
  want,      \* what status, encodes, favourites, bait, look-ahead and watches
             \* say of a title, first match first
  pin,       \* days until keep_until.until; 0 is no pin
  class,     \* retention_state.classification; "none" is no row
  since,     \* retention_state.eligible_since is set
  file,      \* the title's file exists
  pd,        \* pending_deletion
  planner,   \* the planner tick, with the dry_run it read before its awaits
  planned,   \* the planner ran today
  exec,      \* the executor: between awaits ("scan"), or awaiting a deletion
  batch,     \* due rows of its SELECT that it has not reached
  cur,       \* the row whose files it is deleting
  stale,     \* rows it has cancelled and not yet committed
  done,      \* rows it has executed and not yet committed
  count,     \* what it counts against MaxPerTick
  recent,    \* retention.deleted rows of the last 24 hours
  streak,    \* history: consecutive verdicts "eligible", up to 2
  seenPin,   \* history: the pin of now was there when the planner last ran
  unlogged   \* history: titles deleted without a row in history

settingVars == <<enabled, dryRun>>
stateVars   == <<class, since>>
planVars    == <<planner, planned>>
execVars    == <<exec, batch, cur, stale, done, count>>
histVars    == <<streak, seenPin, unlogged>>
vars == <<settingVars, want, pin, stateVars, file, pd, planVars, execVars,
          recent, histVars>>

Want  == {"busy", "shielded", "watched", "idle"}
Class == {"none", "keep", "protected_pin_temp", "protected", "eligible",
          "pending_delete"}
NoRow == [state |-> "closed", item |-> NoItem, left |-> 0, why |-> "ttl",
          shown |-> 0]

Init ==
  /\ enabled = TRUE
  /\ dryRun \in BOOLEAN
  /\ want \in [Item -> Want]
  /\ pin      = [i \in Item |-> 0]
  /\ class    = [i \in Item |-> "none"]
  /\ since    = [i \in Item |-> FALSE]
  /\ file     = [i \in Item |-> TRUE]
  /\ pd       = [p \in Pd |-> NoRow]
  /\ planner  = "idle" /\ planned = FALSE
  /\ exec     = "idle" /\ batch = {} /\ cur = NoPd
  /\ stale    = {} /\ done = {} /\ count = 0
  /\ recent   = 0
  /\ streak   = [i \in Item |-> 0]
  /\ seenPin  = [i \in Item |-> FALSE]
  /\ unlogged = {}

Open(p)    == pd[p].state = "open"
HasOpen(i) == \E p \in Pd : Open(p) /\ pd[p].item = i
Held       == batch \cup {cur} \cup stale \cup done
Locked     == stale \cup done # {}
LoopFree   == exec # "scan"

\* Mutant of Tripped: the breaker lets one deletion more pass.
TrippedLate == recent > MaxPerDay + 1

Tripped == recent > MaxPerDay

\* The table with a fresh row for each title of I: one of these.
Announced(I, why, left) ==
  LET Free == {p \in Pd : pd[p] = NoRow /\ p \notin Held} IN
  {[p \in Pd |->
      IF \E i \in I : f[i] = p
      THEN [state |-> "open", item |-> CHOOSE i \in I : f[i] = p,
            left |-> left, why |-> why, shown |-> 0]
      ELSE pd[p]] :
     f \in {g \in [I -> Free] : \A i, k \in I : g[i] = g[k] => i = k}}

\* The circuit breaker at the head of a tick.
Trip ==
  /\ Tripped /\ ~Locked
  /\ enabled' = FALSE
  /\ UNCHANGED <<dryRun, want, pin, stateVars, file, pd, planVars, execVars,
                 recent, histVars>>

-----------------------------------------------------------------------------
(* retention_plan_tick and run_planner_tick.                               *)

\* Mutant of Verdict: an expired TTL is looked at before the pin.
VerdictTtlFirst(i) ==
  CASE want[i] = "busy"     -> "keep"
    [] want[i] = "watched"  -> "eligible"
    [] want[i] = "shielded" -> "protected"
    [] want[i] = "idle"     -> IF pin[i] > 0 THEN "protected_pin_temp" ELSE "keep"

\* The cascade of _classify_movie and _classify_episode.
Verdict(i) ==
  CASE want[i] = "busy"                      -> "keep"
    [] want[i] # "busy" /\ pin[i] > 0        -> "protected_pin_temp"
    [] want[i] = "shielded" /\ pin[i] = 0    -> "protected"
    [] want[i] = "watched" /\ pin[i] = 0     -> "eligible"
    [] want[i] = "idle" /\ pin[i] = 0        -> "keep"

\* Settings and breaker are read; the tick waits for Sonarr, Radarr, Jellyfin.
PlanStart ==
  /\ enabled /\ planner = "idle" /\ LoopFree
  /\ \/ Trip
     \/ /\ ~Tripped
        /\ planner' = IF dryRun THEN "dry" ELSE "live"
        /\ UNCHANGED <<settingVars, want, pin, stateVars, file, pd, planned,
                       execVars, recent, histVars>>

\* Mutant of EligibleSince: it outlives a verdict that is not "eligible".
EligibleSinceSticky(i) == since[i] \/ Verdict(i) = "eligible"

EligibleSince(i) == Verdict(i) = "eligible"

\* Mutant of Promoted: an open row is no obstacle.
PromotedTwice ==
  {i \in Item : planner = "live" /\ Verdict(i) = "eligible" /\ since[i]}

\* Titles found eligible once more, with no open row.  Two ticks are further
\* apart (30 minutes) than the anti-flap window (15).
Promoted ==
  {i \in Item : /\ planner = "live" /\ Verdict(i) = "eligible"
                /\ since[i] /\ ~HasOpen(i)}

\* run_planner_tick classifies every title and commits, or meets the lock.
PlanRun ==
  /\ planner # "idle" /\ LoopFree
  /\ \/ /\ ~Locked
        /\ pd' \in Announced(Promoted, "ttl", Grace)
        /\ class' = [i \in Item |-> IF i \in Promoted THEN "pending_delete"
                                    ELSE Verdict(i)]
        /\ since' = [i \in Item |-> EligibleSince(i)]
        /\ streak' = [i \in Item |-> IF Verdict(i) # "eligible" THEN 0
                                     ELSE IF streak[i] = 0 THEN 1 ELSE 2]
        /\ seenPin' = [i \in Item |-> pin[i] > 0]
        /\ planned' = TRUE
     \/ Locked /\ UNCHANGED <<pd, stateVars, streak, seenPin, planned>>
  /\ planner' = "idle"
  /\ UNCHANGED <<settingVars, want, pin, file, execVars, recent, unlogged>>

-----------------------------------------------------------------------------
(* retention_apply_tick and run_executor_tick.                             *)

\* Under critical pressure, the best-scored of the eligible titles: any of
\* them, but at least one if there is one.
Boosts ==
  LET Eligible == {i \in Item : class[i] = "eligible"} IN
  {{}} \cup (IF "pressure" \in Actors THEN SUBSET Eligible ELSE {})

\* Mutant of Due: the grace period is not looked at.
DueEarly(rows) == {p \in Pd : rows[p].state = "open"}

Due(rows) == {p \in Pd : rows[p].state = "open" /\ rows[p].left = 0}

\* The executor's SELECT.
Select(rows) ==
  /\ ~dryRun
  /\ exec' = "scan" /\ batch' = Due(rows) /\ count' = 0
  /\ pd' = rows

\* In a dry run the executor only cancels stale rows, up to its limit, and has
\* no await.
DryRun(rows) ==
  LET Stale == {p \in Due(rows) : class'[rows[p].item] # "pending_delete"} IN
  /\ dryRun
  /\ \E K \in SUBSET Stale :
       /\ K = Stale \/ Cardinality(K) = MaxPerTick
       /\ Cardinality(K) <= MaxPerTick
       /\ pd' = [p \in Pd |-> IF p \in K THEN NoRow ELSE rows[p]]
  /\ UNCHANGED <<exec, batch, count>>

\* Breaker, boost and the start of the executor, with no await in between.
ApplyStart ==
  /\ enabled /\ exec = "idle"
  /\ \/ Trip
     \/ \E S \in Boosts :
          LET New == {i \in S : ~HasOpen(i)} IN
          \E rows \in Announced(New, "pressure", 0) :
            /\ ~Tripped
            /\ class' = [i \in Item |-> IF i \in New THEN "pending_delete"
                                        ELSE class[i]]
            /\ Select(rows) \/ DryRun(rows)
            /\ UNCHANGED <<settingVars, want, pin, since, file, planVars,
                           cur, stale, done, recent, histVars>>

Room == count < MaxPerTick

\* Mutant of ExecNext: a stale row is skipped instead of cancelled.
ExecNextSkips(p) ==
  /\ exec = "scan" /\ p \in batch /\ Room
  /\ batch' = batch \ {p}
  /\ \/ /\ class[pd[p].item] # "pending_delete"
        /\ count' = count + 1
        /\ UNCHANGED <<exec, cur>>
     \/ /\ class[pd[p].item] = "pending_delete"
        /\ cur' = p /\ exec' = "delete"
        /\ UNCHANGED count
  /\ UNCHANGED <<settingVars, want, pin, stateVars, file, pd, planVars, stale,
                 done, recent, histVars>>

\* The next due row, as the SELECT returned it.  Only the title's
\* classification is read again.
ExecNext(p) ==
  /\ exec = "scan" /\ p \in batch /\ Room
  /\ batch' = batch \ {p}
  /\ \/ /\ class[pd[p].item] # "pending_delete"
        /\ stale' = stale \cup {p} /\ count' = count + 1
        /\ UNCHANGED <<exec, cur>>
     \/ /\ class[pd[p].item] = "pending_delete"
        /\ cur' = p /\ exec' = "delete"
        /\ UNCHANGED <<stale, count>>
  /\ UNCHANGED <<settingVars, want, pin, stateVars, file, pd, planVars, done,
                 recent, histVars>>

\* delete_item_files returns, even if Sonarr or Radarr refused, or raises: the
\* row then stays open.
ExecDelete ==
  /\ exec = "delete"
  /\ \/ /\ done' = done \cup {cur}
        /\ file' = [file EXCEPT ![pd[cur].item] = FALSE]
        /\ unlogged' = unlogged \cup {pd[cur].item}
     \/ "arr" \in Actors /\ done' = done \cup {cur} /\ UNCHANGED <<file, unlogged>>
     \/ "exception" \in Actors /\ UNCHANGED <<done, file, unlogged>>
  /\ exec' = "scan" /\ cur' = NoPd /\ count' = count + 1
  /\ UNCHANGED <<settingVars, want, pin, stateVars, pd, planVars, batch, stale,
                 recent, streak, seenPin>>

\* Rows nobody holds any longer are forgotten once they are closed.
LetGo(Closed) ==
  [p \in Pd |-> IF p \in Closed \/ ~Open(p) THEN NoRow ELSE pd[p]]

ExecIdle ==
  /\ exec' = "idle" /\ batch' = {} /\ cur' = NoPd
  /\ stale' = {} /\ done' = {} /\ count' = 0

\* Mutant of Executed: the reason lands in the classification.
ExecutedReason == "deleted"

\* The classification of a title whose files were deleted.
Executed == "keep"

\* The commit at the end of the loop.
ExecEnd ==
  LET Gone == {pd[p].item : p \in done} IN
  /\ exec = "scan" /\ (batch = {} \/ ~Room)
  /\ ExecIdle
  /\ pd' = LetGo(stale \cup done)
  /\ class' = [i \in Item |-> IF i \in Gone THEN Executed ELSE class[i]]
  /\ recent' = recent + Cardinality(done)
  /\ unlogged' = unlogged \ Gone
  /\ UNCHANGED <<settingVars, want, pin, since, file, planVars, streak, seenPin>>

\* The process dies, or a flush meets a lock somebody else holds: what was not
\* committed is rolled back, the files stay deleted.
ExecLost ==
  /\ "lost" \in Actors /\ exec # "idle"
  /\ ExecIdle
  /\ pd' = LetGo({})
  /\ UNCHANGED <<settingVars, want, pin, stateVars, file, planVars, recent,
                 histVars>>

-----------------------------------------------------------------------------
(* The API, the viewers, the clock.                                        *)

CancelPending(p) ==
  /\ "cancel" \in Actors /\ ~Locked /\ Open(p)
  /\ pd' = [pd EXCEPT ![p] = IF p \in Held THEN [@ EXCEPT !.state = "cancelled"]
                             ELSE NoRow]
  /\ UNCHANGED <<settingVars, want, pin, stateVars, file, planVars, execVars,
                 recent, histVars>>

ExecutePendingNow(p) ==
  /\ "hasten" \in Actors /\ ~Locked /\ Open(p)
  /\ pd' = [pd EXCEPT ![p].left = 0, ![p].why = "forced"]
  /\ UNCHANGED <<settingVars, want, pin, stateVars, file, planVars, execVars,
                 recent, histVars>>

KeepUntil(i) ==
  /\ "pin" \in Actors /\ ~Locked
  /\ pin' = [pin EXCEPT ![i] = PinDays]
  /\ UNCHANGED <<settingVars, want, stateVars, file, pd, planVars, execVars,
                 recent, histVars>>

RemoveKeep(i) ==
  /\ "pin" \in Actors /\ ~Locked
  /\ pin' = [pin EXCEPT ![i] = 0]
  /\ seenPin' = [seenPin EXCEPT ![i] = FALSE]
  /\ UNCHANGED <<settingVars, want, stateVars, file, pd, planVars, execVars,
                 recent, streak, unlogged>>

PutSettings ==
  /\ "settings" \in Actors /\ ~Locked
  /\ enabled' \in BOOLEAN /\ dryRun' \in BOOLEAN
  /\ UNCHANGED <<want, pin, stateVars, file, pd, planVars, execVars, recent,
                 histVars>>

\* The Jellyfin sync, the pipeline and the passing of the TTL.
Viewer(i) ==
  /\ "viewer" \in Actors /\ ~Locked
  /\ \E w \in Want : want' = [want EXCEPT ![i] = w]
  /\ UNCHANGED <<settingVars, pin, stateVars, file, pd, planVars, execVars,
                 recent, histVars>>

Less(n) == IF n = 0 THEN 0 ELSE n - 1

\* A day passes, while the loop awaits; some of the deletions leave the window of 24 hours.
Day ==
  /\ LoopFree
  /\ Punctual /\ enabled => planned
  /\ pd' = [p \in Pd |->
              IF Open(p) THEN [pd[p] EXCEPT !.left = Less(@),
                                 !.shown = IF @ < Grace THEN @ + 1 ELSE @]
              ELSE pd[p]]
  /\ pin' = [i \in Item |-> Less(pin[i])]
  /\ seenPin' = [i \in Item |-> seenPin[i] /\ pin[i] > 1]
  /\ recent' \in 0..recent
  /\ planned' = FALSE
  /\ UNCHANGED <<settingVars, want, stateVars, file, planner, execVars, streak,
                 unlogged>>

ExecStep == ExecDelete \/ ExecEnd \/ \E p \in Pd : ExecNext(p)

Api ==
  \/ \E p \in Pd : CancelPending(p) \/ ExecutePendingNow(p)
  \/ \E i \in Item : KeepUntil(i) \/ RemoveKeep(i) \/ Viewer(i)
  \/ PutSettings

Next ==
  \/ PlanStart \/ PlanRun \/ ApplyStart
  \/ ExecStep \/ ExecLost \/ Api \/ Day

Spec == Init /\ [][Next]_vars

\* The scheduler fires its ticks, awaited calls end, time passes: strongly fair
\* where the executor's stretches between two awaits only interrupt an action.
Fairness ==
  /\ SF_vars(PlanStart) /\ SF_vars(PlanRun) /\ WF_vars(ApplyStart)
  /\ WF_vars(ExecStep) /\ SF_vars(Day)

FairSpec == Spec /\ Fairness

-----------------------------------------------------------------------------
(* Properties.                                                             *)

Row == [state : {"closed", "open", "cancelled"}, item : Item \cup {NoItem},
        left : 0..Grace, why : {"ttl", "pressure", "forced"}, shown : 0..Grace]

TypeOK ==
  /\ enabled \in BOOLEAN /\ dryRun \in BOOLEAN
  /\ want \in [Item -> Want]
  /\ pin \in [Item -> 0..PinDays]
  /\ class \in [Item -> Class]
  /\ since \in [Item -> BOOLEAN]
  /\ file \in [Item -> BOOLEAN]
  /\ pd \in [Pd -> Row]
  /\ planner \in {"idle", "dry", "live"} /\ planned \in BOOLEAN
  /\ exec \in {"idle", "scan", "delete"}
  /\ batch \in SUBSET Pd /\ stale \in SUBSET Pd /\ done \in SUBSET Pd
  /\ cur \in Pd \cup {NoPd}
  /\ count \in 0..MaxPerTick
  /\ recent \in Nat
  /\ streak \in [Item -> 0..2]
  /\ seenPin \in [Item -> BOOLEAN]
  /\ unlogged \in SUBSET Item

\* A title has at most one open announcement, although the planner and the
\* boost both open them and the executor closes them in a transaction of its
\* own (planner.py:364-371, executor.py:52-84).
OneOpen ==
  \A p, q \in Pd : Open(p) /\ Open(q) /\ pd[p].item = pd[q].item => p = q

\* What the circuit breaker, which looks at the history before a tick only, and
\* the limit per tick guarantee together, for limits that stay as they are: the
\* deletions on record of the last 24 hours and those the tick under way has
\* carried out but not committed are at most MaxPerDay + MaxPerTick.  A tick that
\* crashes or is lost takes its own out of the record, and the breaker never
\* learns of them (workers/retention.py:50-63, executor.py:52, 75-84).
SoftCap == recent + Cardinality(done) <= MaxPerDay + MaxPerTick

\* Files are deleted only after the announcement was on show for the whole
\* grace period, unless disk pressure or the administrator cut it short
\* (planner.py:381, executor.py:50).
GraceHeld ==
  [][exec = "scan" /\ exec' = "delete" =>
       pd[cur'].why # "ttl" \/ pd[cur'].shown >= Grace]_vars

\* A TTL deletion is announced only for a title which two consecutive runs of
\* the planner have found eligible, with no other verdict in between
\* (planner.py:353-389).
TwoTicks ==
  [][\A p \in Pd : ~Open(p) /\ Open(p)' /\ pd'[p].why = "ttl" =>
       streak'[pd'[p].item] = 2]_vars

\* A pin the planner has seen protects the title as long as it lasts, from the
\* executor and from the boost (planner.py:96-98, executor.py:55).
SeenPinHolds ==
  [][exec = "scan" /\ exec' = "delete" => ~seenPin[pd[cur'].item]]_vars

\* No announcement stays open for ever while the engine is enabled: it is
\* executed or cancelled as stale (executor.py:52-84).
AnnouncementsClose == \A p \in Pd : Open(p) ~> ~Open(p) \/ ~enabled

-----------------------------------------------------------------------------
(* Promised by the documents, not kept by the code: README, section 4,     *)
(* has for each an instance on which it is violated.                       *)

\* No tick sets out to delete a title that is pinned (api/retention.py:230-249,
\* executor.py:55).
PinnedIsKept ==
  [][exec = "idle" /\ exec' = "scan" =>
       \A p \in batch' : \/ pin[pd'[p].item] = 0
                         \/ class'[pd'[p].item] # "pending_delete"]_vars

\* An announced title that stays as it is is deleted in the end
\* (planner.py:364-389, executor.py:55-78).
TtlDeletes ==
  \A i \in Item : want[i] = "watched" /\ pin[i] = 0 /\ class[i] = "pending_delete"
                  ~> ~file[i] \/ want[i] # "watched" \/ pin[i] > 0

\* What becomes of an announcement for a title's TTL instead: while it is open,
\* the executor never carries it out, since the next planner run takes its mark
\* back (planner.py:350-372, executor.py:55).  Not so if the engine is switched
\* off and on again, or if the grace period is over before the planner's next run.
TtlLapses ==
  [][exec = "scan" /\ exec' = "delete" =>
       pd[cur'].why # "ttl" \/ ~Open(cur')]_vars

\* If from some time on no tick is lost, every deletion gets its row in
\* the history (executor.py:75-84).
DeletionsAreLogged ==
  <>[][ExecLost => ExecEnd]_vars =>
    \A i \in Item : i \in unlogged ~> i \notin unlogged
=============================================================================
