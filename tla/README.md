# A verification of mediateca

mediateca imports films and episodes that Sonarr and Radarr download, makes sure
they carry the wanted audio languages, publishes them in a library that Jellyfin
serves (optionally as HLS bundles), and deletes what nobody watches any more. An
admin app shows and operates all of it. This directory holds TLA+ models of the
orchestrator, of the encoder and of the admin app, the TLC runs that check them
on small instances, and proofs that the TLA+ proof system checks for every
instance. Paths without a prefix are below `orchestrator/src/orchestrator/`;
`.ts` and `.tsx` files are below `admin-app/src/`.

## 1. Inventory

| part | state it keeps | operations | talks to |
|---|---|---|---|
| encoder service (`hls-encoder/server.py`, `encoder.py`) | `_jobs` in memory, a semaphore, worker processes, bundles on disk | POST, GET, DELETE `/jobs`; `encode_to_hls` | called by the orchestrator over HTTP |
| encode jobs (`workers/job_runner.py`) | table `jobs` | `enqueue_encode`, the `encode_jobs` tick | encoder (HTTP), `items` |
| inbox and ingest pipeline (`api/webhooks.py`, `workers/webhook_inbox.py`, `core/pipeline.py`, `core/policy.py`, `core/state.py`, `core/merger.py`) | tables `webhook_inbox`, `items`; files under staging and media | webhook, inbox tick, `process_item`: promote, merge, replace, reject | Sonarr/Radarr, ffmpeg, encode jobs |
| catch-up, orphan sweep, start-up reconcile (`workers/catch_up.py`, `workers/reconcile.py`) | `items.next_retry_at`, `.bak` files | retry search, sweep of backups, adoption of unknown files | Sonarr/Radarr, the library |
| title API (`api/items.py`) | table `items` | delete, accept-as-is, override, search-now | everything above |
| retention (`core/retention/*`, `workers/retention.py`, `api/retention.py`) | tables `retention_state`, `pending_deletion`, `watch_event`, `series_engagement`, `retention_pin`, `retention_settings` | sync, planner, disk-pressure boost, executor, keep, cancel, execute | Jellyfin, Sonarr/Radarr, title deletion |
| merge safety (`core/merge_safety.py`), scanners, probe, ISO 639 tables, custom formats, notification, event bus and metrics API | little or none | pure functions and I/O | |
| admin app, pages (`app/(app)/**`, `components/**`) | React Query's cache, one entry per key | mount, poll, refresh, mutate | the proxies, the event stream |
| admin app, session and proxies (`middleware.ts`, `lib/auth`, `app/api/**`) | a signed cookie | sign in, sign out, forward | orchestrator, Sonarr, Radarr, qBittorrent, Jellyseerr |
| delete dialog (`delete-dialog.tsx`) | state hooks: mode, switches, typed text, selection, pending | open, dismiss, pick, type, submit | `DELETE /api/items/{id}` |
| settings form, retention form (`settings-form.tsx`, `retention-form.tsx`) | a hook per field; a draft over the data | edit, save | `/api/settings`, `/api/retention/settings`, one table behind both |
| log viewer (`log-viewer.tsx`, `use-log-stream.ts`, `log-buffer.ts`; `api/logs.py`) | ring buffer, selection in localStorage; a queue and threads per stream | select, pause, clear, reconnect | Docker |
| reverse proxy, backup, provisioning scripts, CI kit | none of their own | | the orchestrator's API |

How they interact. The orchestrator is one asyncio event loop over SQLite, with
synchronous sessions. Handlers and scheduler ticks interleave at their `await`s
only; but a session that has flushed and not committed holds SQLite's write lock
over an `await`, and every other commit then blocks the loop, times out and
raises. A tick never overlaps itself (`max_instances=1`) but overlaps all others
and the API. The encoder is a second event loop in another container, with one
operating-system process per running encode. Files on disk are shared by all.

What is hard, and what makes each part correct:

- *encoder*: a bounded pool whose slots have to come back on every path; a
  cancellation that races a result; a bundle that appears under its name only
  when it is whole, although copy, removal and rename are separate steps; a
  restart that forgets every job.
- *encode jobs*: rows, items and encoder jobs are three records of one fact,
  written by three actors. A row is dispatched once and settled once; a title in
  ENCODING has a row somebody will settle; a title is promoted only when it can be
  played; nothing waits for ever.
- *ingest*: a webhook is processed at least once, the file it names is moved
  before the row that says so is committed, and a crash may fall in between; a
  file with a wanted language is never lost; `audio_present` describes the file
  that is in the library.
- *retention*: a title is deleted only after a grace period in which its
  deletion is announced and may be cancelled, never in dry-run mode, never when
  pinned; what is announced is carried out.
- *pages*: what is on screen is what a service said at some moment, never older
  than the refresh the operator's own action asked for; "nothing there" is not
  said of what was never read; a page that polls recovers by itself.
- *delete dialog*: only what was ticked or confirmed goes, although dialog, list
  and handler see the title at three moments and the dialog can be dismissed,
  reopened and left while its request runs.
- *settings*: two forms, two encodings, a background writer and three readers of
  one table agree on the values; edits are not lost to data that arrive.
- *logs*: a reconnect neither skips lines nor mixes them up; the selection is
  the operator's.

The hazards list of `PROJECT.json` names each of these at its line.

## 2. Plan

1. `HlsEncoder`, `EncodeJobs`, `EncodeLedger`, with `HlsEncoderProofs` and
   `EncodeJobsProofs` (done):
   the component with most actors - two event loops, worker processes, deletes,
   crashes - and the one whose documentation promises most.
2. `Retention` and `RetentionProofs` (done): planner, boost, executor, the API
   calls that race them, and the days that pass in between.
3. The admin app, a module and a proof module per part with a state of its own
   (done): `ConsoleViews`, `QueryCache` and `ReadThrough` for the pages,
   `DeleteDialog` together with the handler it calls, `SettingsForms` together
   with the table and its other writers, `LogStream` together with the stream
   of the orchestrator.
4. `Ingest` (next): inbox, `process_item` with its filesystem changes cut at its
   commits and renames, merge, replace, reject, catch-up, sweep of backups,
   reconcile, with crashes. Its abstract specification: the library of a title
   never loses a wanted language it had. Runs: two files of one title arriving
   in either order, a crash at every point, a replay of a webhook. Instances of
   one title, two files, two languages.
5. Pure algorithms as operators, against a reference definition: the policy
   engine, the state table, the look-ahead window, `replace_atomically` against
   "the target is the old or the new file".

Each component gets its module, an `MC` module with the constants of its
instance, one `.cfg` per question, and a `Proofs` module.

## 3. Modules

### HlsEncoder

One action per stretch of code between two suspension points.

| variable | code |
|---|---|
| `encStatus`, `encSource` | `_jobs[id]["status"]`, `["source"]`; `encSource` outlives a restart, so that ids stay fresh (uuid4) |
| `waiters`, `holders`, `slots` | the tasks queued on the semaphore (FIFO), those inside it, its value |
| `child`, `result` | where a job's worker process is, what it put on its queue |
| `bundle`, `stagedBy`, `stagedWhole`, `strm` | `.<stem>.hls`, `.<stem>.hls.tmp` (whose copy, finished or not), the `.strm` |

`CreateJob`, `CancelJob` are the handlers; `TaskSkip`, `TaskStart`, `TaskHarvest`
are `run()`; `ChildFails` ... `ChildWritten` are the steps of `encode_to_hls` that
change what others see, `ChildKilled` is SIGTERM or SIGKILL; `EncoderRestart` is
the container. The cache directory is private to a worker and abstracted, and so
is what ffmpeg writes there: it ends in a complete bundle or in a failure.

Each of these steps may fail or be killed. `Raises` is the `except` that removes the
staging directory, or what can be removed of it. The removal of an old bundle is
many unlinks: `ChildDrop` is the first, after which a part of it is under the final
name, `ChildUnlinked` the last; an error, a kill or a restart between them leaves it
so. `write_text` empties the `.strm` (`ChildStrm`) before it writes (`ChildWritten`)
and is outside the `except`: when it fails the bundle stays and the job is reported
as failed.

### EncodeJobs

Extends `HlsEncoder` with the orchestrator's half. `RunnerTick`, `RunnerTake`,
`SubmitSend`, `SubmitReply`, `PollDone`, `PollFailed`, `RunnerLost`,
`RunnerDrained` are `run_encode_jobs` cut at its awaits. The inbox worker is there as
far as encodes see it: `Webhook` starts on a title, `inbox` is the title it is
suspended on and `lock` says that it holds SQLite's write lock meanwhile.
`PipelineReplaces` is the commit of MERGING or PROMOTING by which a merge or a
replacement frees the lock before it is suspended once more; `PipelineEncode` the
end that queues a job, from a first promotion or from a merge; `PipelineOther` every
other end; `PipelineMisses` the commit that raises because the title was deleted.
`DeleteStart`, `DeleteCancel`, `DeleteCommit` are the DELETE handler of a movie.
`RunnerCommit` is a commit of the runner: it succeeds, or raises because the
cascade took the row, or because of the lock, and then ends the tick, since
the handler's own commit raises in a session that was not rolled back. `Faults`
says which faults a run admits. The runner's branch for a row without item or
library path is unreachable (the foreign key cascades and the pipeline sets the
path before it queues a job) and is left out.

A title may have several rows: a merge queues one for a title that has a library
file, and so may a later file when the wanted languages were changed.
`LostSight(t)` says that the title has two rows and the runner has turned away from
one of them without the encoder's word: settled as failed, deleted, or left RUNNING.
`PromotedMeansPlayable` excepts these titles. `DonePlays` needs no exception: as long
as the dispatched rows of a title are all DONE, its bundle is whole and its `.strm`
written. A bundle is not always whole, as the comment at `hls-encoder/encoder.py:430`
may suggest: see section 4. `Abandoned(j)` says that a commit that raised, or a crash,
has left a row RUNNING that no tick selects again; `RunningSettles` and `EncodingEnds`
name it.

### EncodeLedger

What the table `jobs` promises: a row is queued once, dispatched at most once and
settled at most once, DONE only if the encoder says so of that very job.
`EncodeJobs!LedgerSpec` is this specification under
`row <- job, rowOf <- jobOf, report <- encStatus`.

### Retention

| variable | code |
|---|---|
| `enabled`, `dryRun` | the settings `retention_enabled`, `retention_dry_run` |
| `want` | what the status, encodes, favourites, bait, look-ahead and watch rows say of a title, by the first branch of the cascade that matches |
| `pin` | days left of `keep_until.until` |
| `class`, `since` | `retention_state.classification`; whether `eligible_since` is set |
| `file` | the title's file exists |
| `pd` | the rows of `pending_deletion`: open, or cancelled while the executor still holds the object, with the days to `delete_after`, the reason, and how long it was on show |
| `planner` | a planner tick awaits, with the `dry_run` it read before; `planned`: one ran today |
| `exec`, `batch`, `cur`, `stale`, `done`, `count` | where the executor is, the rows of its SELECT, the row whose files it deletes, what it has changed and not committed, what it counts against its cap |
| `recent` | `retention.deleted` rows of the last 24 hours |
| `streak`, `seenPin`, `unlogged` | history variables for the properties |

`PlanStart` and `PlanRun` are the planner tick before and after its awaits;
`ApplyStart` is breaker, boost and the SELECT of the executor, which no await
separates; `ExecNext`, `ExecDelete`, `ExecEnd` are the loop of
`run_executor_tick` cut at its await and at its commit; `ExecLost` is a crash or
a failed flush. `CancelPending`, `ExecutePendingNow`, `KeepUntil`, `RemoveKeep`,
`PutSettings` are the API; `Viewer` is what sync, pipeline and the TTL do to a
title's verdict; `Day` is the clock.

Three facts of the code shape the module. Between two awaits the executor does
not yield (`LoopFree`), while API handlers run in threads. From its first flush
to its commit it holds SQLite's write lock, so that every other commit fails
(`Locked`). And the executor works with the rows as its SELECT returned them: a
cancellation meanwhile does not take a row out of its `batch`.

Abstractions. Time is counted in days: planner and executor run many times a
day, in any order. The anti-flap window of 15 minutes is always over when the
next planner tick comes after 30, so "eligible once more" stands for it. The
best-scored titles of the boost are any set of eligible titles, since the scores
are arbitrary. Rows are reused once they are closed and nobody holds them; as
many rows as open and held ones together are therefore enough. The deletion of a
title's row, with its cascade, is left to `EncodeJobs`.

### ConsoleViews, QueryCache, ReadThrough

`ConsoleViews` is a table, translated component by component: the queries a
component reads, whether it polls them, what it shows until they are answered,
the events it refreshes on, what its mutations change and what they invalidate;
and which components a page has. `QueryCache` follows one query through its
life. Queries share no state, so one at a time suffices, and `key \in Tracked`
chooses it in the initial state.

| variable | code |
|---|---|
| `cache`, `stale`, `failed`, `fetch` | the entry of the query in React Query's cache: its data, whether they need a fetch, the outcome and the place of the fetch under way (`query-provider.tsx` sets `retry: 1`, `staleTime`) |
| `page`, `signedIn`, `visible` | the route, the session cookie and its age, the tab |
| `stream`, `inbox` | the EventSource of `use-events.ts`, events on their way to it |
| `acting` | a mutation of the page under way |
| `server`, `up` | the data at the service, and whether it answers |
| `mustSee` | history: the version that the last refresh has to bring |

React Query is not in the repository and is modelled from how the app uses it; so
are the services. `Mount` and `Goto` are a navigation with all its effects: the
reads of the new page, the closing of the old stream and the opening of the new
one, the middleware's redirect. `Answer`, `AnswerError`, `AnswerLogin` are the
three ends of a request; `Invalidate` is one refresh with all keys it covers.
`ReadThrough` is what a page promises; `Abstract` maps the query to it by
`current <- server.ver, shown <- cache.ver`.

### DeleteDialog

`dialog` is the record of the component's state hooks; `listing` the episodes of
its query; `requests` the requests with the place of their handler (`at`), their
payload and the files still to delete (`todo`); `file`, `inArr`, `torrent` what
Sonarr or Radarr have; `row` the orchestrator's item. A step of `Handler` is what
`delete_item` does between two awaits, so that imports, other requests and
failures fall in between. `Dismiss`, `Cancel` and a success close the dialog in
three different ways, as in the code. `chosen`, `confirmed`, and `asked`, `meant`,
`sure` of a request are history: what the operator did, not what the code kept of
it. The encodes, bundles and staging directories of a delete are in `EncodeJobs`.

### SettingsForms

`table` is the settings table with its texts; `Json` and `Str` are the two ways
to write a row, `ReadJson` and `Coerce` the two ways to read it. `form` chooses
which form this tab shows; `draft` is what it edits, `data`, `fresh`, `get` its
query, `status` and `puts` its mutation and the requests it sent, which outlive
the form. `OtherTab` and `Breaker` are the other writers. Four settings stand for
all: the language list, which is the React key of the settings form; the pair of
thresholds that is validated against each other; a Boolean, whose two texts
differ; and a number.

### LogStream

`written` and `old` are the containers' logs: lines written, lines the replay of
two minutes leaves out. `watcher` and `queue` are the threads and the queue of a
stream, `conn` the EventSource. `Break` is a connection that is lost, which the
browser opens again, `Refused` one that is answered by something else than a stream,
after which the EventSource is closed for good. `WatcherEnds` is a thread that ends
with its container or by an exception while the stream stays open; the line
`<error: ...>` that it may leave is `Line(c, 0)`. `ended` remembers such threads of the
stream that is open. `buffer`, `nextId`, `expanded` are the ring buffer and
the rows in full; `selected`, `storage`, `initialised` the selection. `seen`,
`missing`, `unfolded`, `chosen` are history. A line is its container and number;
filter, sorting and scrolling only show the buffer.

## 4. Runs

| run | asks | instance |
|---|---|---|
| `encoder` | types, the cap, cancellation is final, done means published, every job settles | 3 jobs, 2 sources, 2 workers; every step of a worker may fail |
| `encode_jobs` | what is DONE can be played, promoted means playable | 2 jobs, 2 titles, 2 workers, 2 webhooks; lost requests, locked commits, deletes, encoder restarts, a crash |
| `encode_jobs_delete` | refinement of the ledger, ENCODING has a row | the same, without a crash |
| `encode_jobs_live` | queue drains, running settles, ENCODING ends | 2 jobs, 2 titles, 1 worker, 2 webhooks; lost requests, locked commits, encoder restarts, a crash; no deletes |
| `retention` | types, one open announcement, the grace period, two ticks, pins the planner has seen, the two limits together | 1 title, 2 rows, every actor and fault, limits of 1 |
| `retention_live` | every announcement closes | 1 title, viewers, cancellations, disk pressure |
| `console` | a refresh is answered with what it asked for, nothing is called empty that was not, the read-through view is implemented, polls catch up, refreshes end | 5 queries, 5 pages, 2 versions, 2 troubles, 1 event on its way |
| `delete_dialog` | only what was ticked or confirmed goes, a title only after its confirmation, one request at a time, the button comes back | a season of 2 episodes, or a film; 2 files, 2 requests, 5 moves, 1 fault |
| `settings_forms` | both encodings read back, only valid values are saved, edits survive arriving data, saves end, the page catches up | both forms, 2 saves, 1 write of another tab, the breaker, 1 fault |
| `log_stream` | no line is skipped, an open row stays the same row, the selection stays, lines arrive | 2 containers of 2 lines, buffer of 2, queue of 1, 2 faults, 2 moves |
| `delete_wedges_queue` | violated: the queue drains | deletes |
| `settings_unreadable` | violated: every row of the settings table can be decoded | one save of the retention form |

The two violated ones say what a document or comment promises and the code does
not keep; `findings` in `PROJECT.json` quotes the lines.

### More divergences

Seen while modelling, without a run of their own. For the first four the models
have the property, with a comment that points here; TLC finds it violated on the
instance given.

- `NoStaleEncode`, `Job = {1, 2}`, `Source = {f1}`, one worker, two webhooks,
  `Faults = {"delete"}`, `Spec`: a delete between a submission and the commit of
  its id finds nothing to cancel, and the encode goes on
  (`workers/job_runner.py:53`; `docs/architecture.md:213`).
- `TtlDeletes`, `Item = {a}`, two rows, `Grace = 2`, `PinDays = 1`,
  `MaxPerTick = 1`, `MaxPerDay = 2`, `Actors = {}`, `Punctual = TRUE`, `FairSpec`:
  the planner classifies a title that already has an open row as "eligible" again
  (`core/retention/planner.py:371`), and the executor deletes only what is
  "pending_delete" (`core/retention/executor.py:55`), so each announcement is
  cancelled as stale when it falls due (`docs/maintenance.md:30-31`). This is the
  most consequential one: what deletes anything is the boost, whose rows are due
  within the same tick, and an administrator's delete-now that an apply tick
  reaches before the next planner run. `RetentionTtlLapses` proves it (section 5).
- `PinnedIsKept`, as above with `Grace = 1`, `PinDays = 2` and
  `Actors = {"pin", "pressure"}`, `Spec`: a pin counts only once the planner has
  seen it, and the boost does not wait for that (`docs/maintenance.md:68-70`).
- `DeletionsAreLogged`, `Grace = 2`, `PinDays = 1`, `MaxPerDay = 3`,
  `Actors = {"lost", "pressure"}`, `Punctual = TRUE`, `FairSpec`: a tick that is
  lost after its deletions leaves them out of the history
  (`docs/maintenance.md:92-93`).

Orchestrator and encoder:

- A row left RUNNING by a crash, or by a commit that raised, stays so: ticks select
  QUEUED rows only (`workers/job_runner.py:38`), and its title stays in ENCODING if it
  has no other; `docs/troubleshooting.md:11` says that jobs are requeued and retried.
  Without `Abandoned`, TLC finds `RunningSettles` and `EncodingEnds` violated by any one
  of the faults `"crash"` and `"locked"`.
- "Atomically promote the bundle" (`hls-encoder/encoder.py:430`) holds of a first
  encode. A later one removes the old bundle file by file before the rename (:445). An
  error, a cancellation or a restart in it leaves a part of the old bundle under the
  final name, which the `except` (:447-450) does not touch, and beside it a `.strm` that
  points there.
- Two workers may share a source's staging directory (`hls-encoder/encoder.py:434`).
  A row whose poll or commit failed, or that went with a delete or a crash, is
  settled or gone while its worker goes on (`workers/job_runner.py:73`). If the title
  is encoded again - a file with a missing language arrives and is merged - the two
  workers take the directory from each other, and one can rename the copy that the
  other has just begun: a partial bundle under its final name, and the
  job that did it is reported as done. TLC finds `PromotedMeansPlayable` without its
  exception violated with
  `Job = {1, 2}`, `Source = {f1}`, two workers, two webhooks and any one of the faults
  `"lost"`, `"locked"`, `"delete"`, `"crash"`. `PromotedPlays` proves that it takes such
  a title.
- DELETE leaves the bundle on the disk: it is removed only when `library_path`
  names the `.strm` (`api/items.py:221`), and no code sets it so.
- The boost ignores `dry_run` and announces (`workers/retention.py:162`), while
  `docs/maintenance.md:38-40` says that no rows are created.
- A cancellation during a tick does not stop the rows that the tick has already
  selected (`core/retention/executor.py:51`; `docs/architecture.md:177`).
- The circuit breaker compares with `>` and only before a tick
  (`workers/retention.py:63`), so a tick may exceed the daily limit by its own
  limit; `docs/architecture.md:210` says the breaker trips if the engine would
  exceed it. `SoftCap` is what does hold,
  and only of deletions on record and of those of the tick under way: a tick that is
  lost or crashes before its commit leaves its own out of the history, where the
  breaker looks, so that more than the two limits may go within 24 hours.
- Errors of Sonarr and Radarr are swallowed in `delete_item_files`
  (`api/items.py:238`), and the executor records the deletion all the same.
- After an execution the title's status, watches and `eligible_since` stay as
  they were, so the next planner run announces it again
  (`core/retention/planner.py:353`).

Pages:

- The browser reopens an EventSource after a lost connection, but not after an
  answer other than 200 `text/event-stream`: one 502 or a redirect to the login
  page ends the events of the page (`lib/hooks/use-events.ts:39`). This is why
  `PolledCatchesUp` speaks of the polled queries only.
- "No data" and "an error" look the same in the blocked banner and in the lists
  of available, blocked and deleted titles, and in every list whose first load
  fails. `NoFalseEmpty` names these exceptions. Some components say "empty" while
  they load.
- `app/(app)/page.tsx:24` says that all widgets refresh on their own; some neither
  poll nor listen. The page listens for `retention.*` events, which no code
  publishes.

Delete dialog:

- Cancel and success close the dialog without the reset that a dismissal makes,
  and the success of an earlier request closes a dialog that was opened again
  meanwhile.
- The toast says that the title was removed although errors of Sonarr and Radarr
  are swallowed; deletions that failed are counted as deleted files.
- A full delete of a series removes one row of `items`
  (`docs/architecture.md:171`).
- An error of the last step, which stops monitoring, answers 500 after the files
  are gone. A file that holds several episodes goes if one of them is ticked,
  which is why `OnlyChosenFilesGo` speaks of an episode the file holds.

Settings:

- `SettingsReadable` is violated by the two encodings (run `settings_unreadable`);
  `RetentionReadsBack` holds since the retention engine's own reader accepts both.
- The breaker's `retention_enabled = false` is overwritten by a later save of a
  draft that is older; two tabs overwrite each other likewise. No version is
  compared, so no property says otherwise.
- PUT `/api/settings` may answer 500 after its commit. `SaveEnds` says that the
  form is told an outcome, not which.
- Unsaved edits are lost when a different list of languages arrives, because it
  is the key of the form: the exception in `EditsSurvive`.

Logs:

- "Reconnecting" stays after the browser has reconnected by itself. A reconnect
  repeats the lines of two minutes. Lines are lost when the queue is full or the
  viewer is paused; the three cases `NothingSkipped` excuses.
- Threads of a closed stream end at the next line of their container. The model ends
  them with the stream: they feed a queue that nobody reads.
- "browser auto-reconnects" (`lib/hooks/use-log-stream.ts:71`) is so after a lost
  connection, not after a proxy's 500 or a redirect to the login page: the viewer then
  says "reconnecting" for good. And when a container stops or is restarted its thread
  ends (`api/logs.py:81-100`) and its lines cease while the stream stays open. Only a new
  selection or visit mends either. `CutOff` is this exception in `LinesArrive`.

### Bounds

*Encoder, encode jobs.* Of the service alone three jobs are one running, one waiting
and one more that overtakes or joins; two workers are the default and the least with
which two of them meet on a source. Ids and sources are interchangeable, and the run
checks liveness, where TLC has no symmetry: `MCSpec` hands the ids out in order and
gives the first job one source. The liveness run of the composition has one worker:
the runner waits for one job at a time, and with one slot that job has to wait for
those it has lost sight of. It leaves out deletes, because one wedges the queue
(`delete_wedges_queue`). In the composition two rows are one of each title
or two of one; what more of them could do is what section 5 proves. `MaxWebhooks`
bounds the only counter of the composed model and leaves room for a title that is
imported, deleted and imported again, or encoded twice.

*Retention.* One title suffices because no guard compares two titles but the
counters, and limits of 1 make one deletion reach them; two rows let a cancelled
row be in the executor's hands while the title is announced again. `Grace = 1`
and `PinDays = 2` make a pin outlive an announcement and an announcement outlive a
planner run.

*Console.* The five queries are one of every kind: heard and not polled, heard
and polled, polled with mutations, read by the fetcher that hides errors, changed
by a mutation that ignores its answer. Two versions of the data tell old from new,
and between them rows may come or go. Two troubles - a failing or restarted service, a
lost stream, an expired session - are enough for the second to meet the recovery
from the first.

*Delete dialog.* Two episodes are one that is ticked and one that is not; two
files let an episode be upgraded, or one file hold both; two requests are one that
still runs and one of a dialog opened again. Five moves open, pick, submit,
dismiss and reopen.

*Settings forms.* Two saves, so that one overlaps the other's refresh; one write
from elsewhere to fall anywhere between; one fault to break any of the requests.

*Log stream.* A buffer of two lines drops one when the third of four comes; a
queue of one is full as soon as a line is not taken; two faults are a break and the
reconnect that is refused, or a break and a thread that ends in the replay; two moves
open a row and clear the buffer, pause and go on, or select and leave.

The proofs remove these bounds.

### Fairness

`EncoderFairness`: the event loop runs its ready tasks, ffmpeg ends
(`proc.wait` has a timeout, `finally` terminates it), a cancelled worker is
terminated and after ten seconds killed. `Fairness` adds the scheduler's ticks,
the poll loop and the end of HTTP calls, which have timeouts. No fairness is
assumed of clients, webhooks, faults and restarts.

For `Retention`, the apply tick and the executor's steps are weakly fair; the
planner's steps and the day are strongly fair, since the executor's stretches
between awaits interrupt but cannot starve them. `Punctual` says that the planner
runs at least once a day while the engine is enabled (it is scheduled every 30
minutes); the runs do without, three of the instances above set it.

`QFairness`: timers fire, a request is answered or fails (the proxies have a
timeout), React Query's callbacks run, the browser connects and hands events on.
Nobody is obliged to come back to the tab, to sign in again or to start a service
that is down: `PolledCatchesUp` and `RefreshEnds` say what they need of that.
`DFairness`: a handler goes on and its answer arrives or the connection breaks;
nobody has to click. `FFairness`: the same for the requests of a form.
`LFairness`: the browser connects and handles messages, the threads of an open
stream read.

`CHECK_DEADLOCK FALSE` appears only where the system may really stop, because a
bound on what the operator or the outside does is used up: in
`delete_wedges_queue`, `delete_dialog` and `log_stream`.

## 5. Proofs

`HlsEncoderProofs` proves for every number of jobs, sources and workers that the
service keeps its types, never runs more workers than slots, never takes a
cancellation back, and reports as done only what is on the disk, whichever step of
whichever worker fails or is killed. The invariants
are not inductive by themselves. `EncInv` adds the accounting of the semaphore -
`Cardinality(holders) + slots = MaxWorkers`, a live worker belongs to a holder,
a task is queued at most once and before it has a worker - from which the cap
follows by cardinalities. `OnDisk(j)` is what a worker must find on the disk at each
of its steps: its own steps keep it (`OwnPublish`), and only workers of the same
source can break it (`ChildKeeps`, `TaskKeeps`, `CreateKeeps`). `PublishInv` has it
of the jobs that never share their source.

Of the constants are assumed at least one worker (the code takes
`max(1, ...)`), finitely many jobs, and two values outside their sets.

`EncodeJobsProofs` proves every safety property of the composition, for every
number of titles, jobs and workers and, unless a theorem says otherwise, for every
set of faults.

- `OrchInv` is the orchestrator's half. `RowInv`: a row has a title from its
  insertion on, the lock is the pipeline's, and the title it is suspended on is never
  ENCODING, because only its own last commit says so. `RunnerInv`: the row the runner
  waits for is RUNNING and those it has not reached are QUEUED, unless a deletion took
  them. `HandedInv`: the encoder has jobs of dispatched rows only, each on the title
  of its row.
- `EncoderWithin`: under `OrchInv` every step of the composition is a step of the
  encoder's own specification or leaves the encoder alone (`EncoderSide`). So what
  `HlsEncoderProofs` shows of the service under any client carries over to this one.
- `DoneStays` and `PromotedPlays` (`DonePlays`, `PromotedMeansPlayable`), for
  every set of faults, deletions included. A title may be encoded again, so its worker
  need not be the only one that ever had its source. `SightInv` says what holds as long
  as the runner has not lost sight of the title: a row is DONE only after its worker
  ended, the job that is still at work, or that the runner waits for, finds its
  files as it left them, and while the dispatched rows are DONE the files are complete.
  There is one such job at most (`OneWatched`): of several rows of the title each is
  queued, done, or the one the runner waits for; and no step takes a dispatched row
  back (`RowsStay`). Sight is lost for good (`LostStays`), which is why the exception is
  stable.
- `EncodingKeepsRow` (`EncodingHasRow`), until the orchestrator first dies: a crash
  between the commit of ENCODING and that of the row leaves a title without one.
- `LedgerKept` (`LedgerSpec`): a step of the tables is a `Queue`, `Dispatch`,
  `Settle` or `Cascade` of `EncodeLedger` (`TableStep`); a step of the encoder is its
  `Encode`, because only jobs of dispatched rows report (`ReportsDispatched`) and
  cancellations stay (`CancelStays`).

Assumed are, besides the encoder's assumptions, finitely many sets told apart
from the null values, known faults, and natural numbers as bounds.

`RetentionProofs` proves every property of the run `retention`, for every number
of titles and rows, every grace period, every limit and every set of actors.

- `RetentionCap` (`SoftCap`). `ExecInv` relates the executor's registers: rows
  executed are at most those counted, which are at most the cap; it is not idle
  only if the breaker found `recent` within the daily limit; and nothing else
  raises `recent`. Then `recent` plus what one tick may carry out is the bound. The
  limits are constants, and what a lost tick has deleted is not in it (section 4).
- `RetentionOneOpen` (`OneOpen`) and `RetentionTypes`. `TableInv` adds that what
  the executor holds is not a free row, and that an open row has a title. A new
  announcement takes a free row that nobody holds (`AnnouncedRows`); planner and
  boost announce only titles without an open row (`AnnouncedKeeps`); every other
  step opens nothing (`Opens`, `KeepsShut`).
- `RetentionGraceHeld` (`GraceHeld`). `Counted`: days on show and days left of a
  TTL announcement add up to the grace period, and what the executor holds has
  none left.
- `RetentionTwoTicks`, `RetentionSeenPinHolds`. `Remembered`: `eligible_since`
  is set only if the last verdict was "eligible", and a title whose pin the
  planner saw is neither eligible nor announced as far as the executor and the
  boost can see.
- `RetentionTtlLapses` (`TtlLapses`) is about what goes wrong, and has no run.
  `Lapsing`: an open announcement for a TTL whose title is still marked
  `pending_delete` is of today, or of yesterday with the planner still to run; so none
  is due, and the executor holds none. It needs a planner that runs daily, two
  days of grace, and nobody who switches the engine off and on. TLC agrees on the
  instance of `TtlDeletes` with every actor but `"settings"`.

Assumed are finitely many titles and rows, natural numbers as limits, and two
values outside the sets.

`QueryCacheProofs` proves every safety property of the run `console`, for the
whole table of components, any number of versions and troubles.

- `QInv` is `PageInv` (stream, inbox and session fit the page) and `CacheInv`:
  what is cached, or on its way, is a version the service had; what is fresh with no
  fetch under way is at least `mustSee`; and an answer that was taken in is at least
  `mustSee` too, because a refresh cancels the fetch under way - unless it is the
  first load, which nothing can refresh (`~HasData => mustSee = 0`). An answer may
  come at any moment of a page's life, so this is what `RefreshBringsNews` needs.
- `ActsRefresh` goes through the table once: every mutation that changes a key
  invalidates it, or the component is among the named exceptions.
- `ViewIsReadThrough`: each step of `QueryCache` is, under `current <- server.ver`,
  `shown <- cache.ver`, a change at the service, a read of something not older
  than what is shown, a reload, or a stutter of `ReadThrough`.

`DeleteDialogProofs` proves the safety properties of the run `delete_dialog`, for
every series, division into seasons and number of requests. `DInv`: the dialog's
record is typed and a title that counts as typed was typed (`DialogInv`); what
Sonarr has are files of this series (`ArrInv`); every live request is backed by
what the operator saw and did, `todo` included (`ReqInv`); the pending flag is up
exactly while a request is out that has not been answered (`WaitInv`), which is
`OneRequest`.

`SettingsFormsProofs` proves the safety properties of the run `settings_forms` for
any number of saves and writes. `FInv`: both texts of a value decode to it and
the table is valid (`TableInv`); data and the answers on their way are snapshots of
some version, a save on its way is valid (`CacheInv`, `PutsInv`); only a draft has
edits, and the settings form always has one when data are there (`DraftInv`). `FormsTyped` adds `Counted`: the version is the number of
writes, those of answered saves included.

`LogStreamProofs` proves the safety properties of the run `log_stream` for all
containers, capacities and lengths. `LInv`: the watchers are within what is
written (`DockerInv`, `StreamInv`); the selection and its copy in the storage
(`PickInv`); ids in the buffer are distinct and below `nextId` (`ViewInv`); and
`Gapless`: for each container, lines seen, excused, in the queue and still to be
read leave no hole (`GapInv`), which is why a replay may repeat but not skip.
`NewestStays` is proved and has no run.

Assumed of the constants of these four are natural numbers as bounds, at least one
line of buffer and queue, and a season for every episode.

Every invariant, action property and refinement that a run checks is stated by
a theorem. Model-checked only are the liveness properties: the prover has no rule
for fairness.

## 6. Not modelled

- The ingest pipeline, catch-up, sweep and reconcile beyond what the encode jobs
  see of them: next in the plan. Four of their hazards are listed already,
  without properties; three more are a rejected merge whose title another actor
  has moved on meanwhile (`core/pipeline.py:645`), a retry that is counted only
  after the search was sent (`workers/catch_up.py:101`), and a rejection that
  deletes whatever file the episode has by then (`core/pipeline.py:910`). The
  other operations of the title API and the components that only call them -
  item actions with the override dialog, the command palette - belong there too.
- React Query, the browser's EventSource, Docker, Sonarr, Radarr, Jellyfin and
  SQLite are external: modelled from how the code uses them, marked so in `map`.
- ffmpeg, ffprobe, mkvmerge and the audio fingerprints of the merge check: what
  they compute is data, and their verdict a choice.
- Signatures, password checks and the headers that the proxies forward; the
  cookie of the qBittorrent proxy; the editor of notification channels with its
  test: one request each, no protocol.
- Migrations, custom formats, metrics, notifications, deployment, backup, CI:
  assignments, I/O or configuration without a protocol of their own.
- Labels, formatting, sorting, filtering, charts and the primitives under
  `components/ui`: looks.

`components` in `PROJECT.json` has every part with its files.
