----------------------------- MODULE QueryCache -----------------------------
(***************************************************************************)
(* One query of the admin app through its life: the components that mount  *)
(* and unmount as the operator changes page, the polls, the event stream,  *)
(* the mutations, the session, and the server whose data it shows.         *)
(*                                                                         *)
(* React Query itself is not in the repository; it is modelled from how    *)
(* the app uses it: one fetch at a time per key, started when a reader     *)
(* mounts without fresh data, when a poll is due, or when the key is       *)
(* invalidated.  An invalidation replaces a fetch under way if the key has *)
(* data already; during the first load it joins it.  Requests are retried  *)
(* once.  Keys do not share state, so one key at a time is enough.         *)
(***************************************************************************)
EXTENDS ConsoleViews

CONSTANTS
  Tracked,      \* the keys one of which is followed
  Visited,      \* the pages the operator goes to
  MaxVersion,   \* bound on the versions of the data on the server
  MaxTrouble,   \* bound on faults and on the operator's own actions
  MaxInbox      \* bound on the events on their way

ASSUME QueryAssumption ==
  /\ Tracked \subseteq Keys
  /\ Visited \subseteq PageNames /\ "login" \in Visited
  /\ MaxVersion \in Nat \ {0} /\ MaxTrouble \in Nat /\ MaxInbox \in Nat

VARIABLES
  key,       \* the key that is followed
  page,      \* the page the operator is on
  server,    \* the data as the service has them: [ver, rows]
  cache,     \* the data in the browser, version 0 if none
  stale,     \* older than staleTime, or invalidated
  failed,    \* the last fetch gave up
  fetch,     \* the fetch under way
  stream,    \* the EventSource of the page
  inbox,     \* item events on their way to it
  acting,    \* the mutation under way
  signedIn,  \* the session cookie is there and younger than its limit
  up,        \* the service behind the key, and the orchestrator, answer
  visible,   \* the browser tab is in front
  trouble,   \* faults and own actions so far
  mustSee    \* history: what the last refresh has to bring

queryVars == <<cache, stale, failed, fetch, mustSee>>
worldVars == <<server, signedIn, up, visible, trouble>>
vars == <<key, page, queryVars, stream, inbox, acting, worldVars>>

Content == [ver : 0..MaxVersion, rows : BOOLEAN]
Nothing == [ver |-> 0, rows |-> FALSE]
Idle == [at |-> "idle", body |-> Nothing, try |-> 1]
Sent(try) == [at |-> "sent", body |-> Nothing, try |-> try]
Resting == [at |-> "none", act |-> Act({}, {})]

HasData == cache.ver > 0
Mounted == Readers(page, key) # {}

\* What a reader shows; a reader of a list says "empty" or "rows".
Shows(r) ==
  IF HasData THEN IF cache.rows THEN "rows" ELSE "empty"
  ELSE IF r.until = "loading" THEN IF failed THEN "empty" ELSE "skeleton"
  ELSE r.until

-----------------------------------------------------------------------------
QInit ==
  /\ key \in Tracked
  /\ page = "login"
  /\ server \in [ver : {1}, rows : BOOLEAN]
  /\ cache = Nothing /\ stale = FALSE /\ failed = FALSE /\ fetch = Idle
  /\ stream = "closed" /\ inbox = <<>> /\ acting = Resting
  /\ signedIn = FALSE /\ up = TRUE /\ visible = TRUE
  /\ trouble = 0 /\ mustSee = 0

\* One more fault or own action.
Spend == trouble < MaxTrouble /\ trouble' = trouble + 1

\* A fetch starts; without data the query is loading again.
Start(try) == fetch' = Sent(try) /\ failed' = (failed /\ HasData)

-----------------------------------------------------------------------------
(* Pages and session *)

\* Mutant of Mount: the EventSource of the page that is left stays open.
MountLeaks(p) ==
  /\ page' = p
  /\ IF Readers(p, key) # {} /\ fetch = Idle /\ (stale \/ ~HasData)
       THEN Start(1) ELSE UNCHANGED <<fetch, failed>>
  /\ stream' = IF Listens(p) THEN "connecting" ELSE "closed"
  /\ UNCHANGED <<key, cache, stale, mustSee, acting, inbox>>
\* The components of p mount: a fetch for data that are missing or stale,
\* unless one is under way, and a new EventSource.
Mount(p) ==
  /\ page' = p
  /\ IF Readers(p, key) # {} /\ fetch = Idle /\ (stale \/ ~HasData)
       THEN Start(1) ELSE UNCHANGED <<fetch, failed>>
  /\ stream' = IF Listens(p) THEN "connecting" ELSE "closed"
  /\ inbox' = <<>>
  /\ UNCHANGED <<key, cache, stale, mustSee, acting>>

\* The middleware redirects to the login page without a valid session.
Goto(p) ==
  /\ p \in Visited \ {page} /\ page # "login"
  /\ p = "login" <=> ~signedIn
  /\ Mount(p)
  /\ UNCHANGED worldVars

\* login() signs a new session and redirects to the dashboard.
Login(p) ==
  /\ page = "login" /\ p \in Visited \ {"login"}
  /\ signedIn' = TRUE
  /\ Mount(p)
  /\ UNCHANGED <<server, up, visible, trouble>>

\* A full load of the page, all state of the tab gone.  Logging out is one:
\* the form posts to /api/logout, which drops the cookie and redirects.
Reload(out) ==
  /\ Spend
  /\ signedIn' = (signedIn /\ ~out)
  /\ page' = IF signedIn' THEN page ELSE "login"
  /\ cache' = Nothing /\ stale' = FALSE /\ failed' = FALSE /\ mustSee' = 0
  /\ fetch' = IF Readers(page', key) # {} THEN Sent(1) ELSE Idle
  /\ stream' = IF Listens(page') THEN "connecting" ELSE "closed"
  /\ inbox' = <<>> /\ acting' = Resting
  /\ UNCHANGED <<key, server, up, visible>>

\* The session passes its limit; nobody renews it.
Expire ==
  /\ Spend /\ signedIn /\ signedIn' = FALSE
  /\ UNCHANGED <<key, page, queryVars, stream, inbox, acting, server, up, visible>>

\* Polls and retries wait while the tab is in the background.
Hide ==
  /\ visible' = ~visible
  /\ IF visible THEN Spend ELSE UNCHANGED trouble
  /\ UNCHANGED <<key, page, queryVars, stream, inbox, acting, server, signedIn, up>>

-----------------------------------------------------------------------------
(* The life of the data *)

Age ==
  /\ HasData /\ ~stale /\ stale' = TRUE
  /\ UNCHANGED <<key, page, cache, failed, fetch, mustSee, stream, inbox, acting, worldVars>>

\* A query that nobody reads is dropped after a while.
Collect ==
  /\ ~Mounted /\ fetch = Idle /\ (HasData \/ failed)
  /\ cache' = Nothing /\ stale' = FALSE /\ failed' = FALSE /\ mustSee' = 0
  /\ UNCHANGED <<key, page, fetch, stream, inbox, acting, worldVars>>

\* Mutant of Poll: polling ends with the first error.
PollUntilError ==
  /\ Polled(page, key) /\ visible /\ fetch = Idle /\ ~failed
  /\ Start(1)
  /\ UNCHANGED <<key, page, cache, stale, mustSee, stream, inbox, acting, worldVars>>
Poll ==
  /\ Polled(page, key) /\ visible /\ fetch = Idle
  /\ Start(1)
  /\ UNCHANGED <<key, page, cache, stale, mustSee, stream, inbox, acting, worldVars>>

Reply(kind, body) == fetch' = [fetch EXCEPT !.at = kind, !.body = body]

\* Mutant of Answer: the proxy answers from a cache of its own.
AnswerCached ==
  /\ fetch.at = "sent" /\ up /\ signedIn
  /\ \E old \in 1..server.ver : Reply("data", [server EXCEPT !.ver = old])
  /\ UNCHANGED <<key, page, cache, stale, failed, mustSee, stream, inbox, acting, worldVars>>
\* The middleware, the proxy and the service answer.  Without a session the
\* request ends at the HTML of the login page, which is not JSON.
Answer ==
  /\ fetch.at = "sent" /\ up /\ signedIn
  /\ Reply("data", server)
  /\ UNCHANGED <<key, page, cache, stale, failed, mustSee, stream, inbox, acting, worldVars>>

\* Mutant of AnswerError: no fetcher looks at the status of the answer.
AnswerUnchecked ==
  /\ fetch.at = "sent" /\ signedIn
  /\ IF up THEN Spend ELSE UNCHANGED trouble
  /\ Reply("data", [server EXCEPT !.rows = FALSE])
  /\ UNCHANGED <<key, page, cache, stale, failed, mustSee, stream, inbox, acting,
                 server, signedIn, up, visible>>
AnswerError ==
  /\ fetch.at = "sent" /\ signedIn
  /\ IF up THEN Spend ELSE UNCHANGED trouble
  /\ IF key \in Lenient THEN Reply("data", [server EXCEPT !.rows = FALSE])
                        ELSE Reply("error", Nothing)
  /\ UNCHANGED <<key, page, cache, stale, failed, mustSee, stream, inbox, acting,
                 server, signedIn, up, visible>>

AnswerLogin ==
  /\ fetch.at = "sent" /\ ~signedIn
  /\ Reply("error", Nothing)
  /\ UNCHANGED <<key, page, cache, stale, failed, mustSee, stream, inbox, acting, worldVars>>

\* A success replaces the data and clears the invalidation.
Success ==
  /\ fetch.at = "data"
  /\ cache' = fetch.body /\ stale' = FALSE /\ failed' = FALSE /\ fetch' = Idle
  /\ UNCHANGED <<key, page, mustSee, stream, inbox, acting, worldVars>>

\* The first failure is retried if somebody still reads the query; the data
\* of an earlier success stay.
Failure ==
  /\ fetch.at = "error"
  /\ IF fetch.try = 1 /\ Mounted
       THEN /\ fetch' = [fetch EXCEPT !.at = "backoff"]
            /\ UNCHANGED <<failed, stale>>
       ELSE fetch' = Idle /\ failed' = TRUE /\ stale' = TRUE
  /\ UNCHANGED <<key, page, cache, mustSee, stream, inbox, acting, worldVars>>

Retry ==
  /\ fetch.at = "backoff" /\ visible
  /\ fetch' = Sent(2)
  /\ UNCHANGED <<key, page, cache, stale, failed, mustSee, stream, inbox, acting, worldVars>>

\* Mutant of Invalidate: a refresh joins a fetch that is under way.
InvalidateJoins(prefixes, sees) ==
  LET hit == \E p \in prefixes : Covers(p, key)
      begin == hit /\ Mounted /\ fetch = Idle
  IN /\ stale' = (stale \/ hit)
     /\ IF begin THEN Start(1) ELSE UNCHANGED <<fetch, failed>>
     /\ mustSee' = IF HasData /\ (hit \/ sees) /\ (Mounted \/ fetch = Idle)
                     THEN server.ver ELSE mustSee
     /\ UNCHANGED cache
\* Mutant of Invalidate: the key is marked, nothing is fetched.
InvalidateMarks(prefixes, sees) ==
  LET hit == \E p \in prefixes : Covers(p, key)
  IN /\ stale' = (stale \/ hit)
     /\ UNCHANGED <<fetch, failed, cache>>
     /\ mustSee' = IF HasData /\ (hit \/ sees) /\ (Mounted \/ fetch = Idle)
                     THEN server.ver ELSE mustSee
\* invalidateQueries marks the matching keys and refetches those that are
\* read.  It replaces a fetch that is under way, but not the first load, and
\* not the fetch of a page that was left: that one clears the mark.
\* "sees": the operator's own action changed this key.
Invalidate(prefixes, sees) ==
  LET hit   == \E p \in prefixes : Covers(p, key)
      begin == hit /\ Mounted /\ (fetch = Idle \/ HasData)
  IN /\ stale' = (stale \/ hit)
     /\ IF begin THEN Start(1) ELSE UNCHANGED <<fetch, failed>>
     /\ mustSee' = IF HasData /\ (hit \/ sees) /\ (Mounted \/ fetch = Idle)
                     THEN server.ver ELSE mustSee
     /\ UNCHANGED cache

-----------------------------------------------------------------------------
(* The service and its events *)

\* The data change, with or without an item event; an event nobody is
\* connected for is lost.
ServerWrite ==
  /\ up /\ server.ver < MaxVersion
  /\ \E rows \in BOOLEAN : server' = [ver |-> server.ver + 1, rows |-> rows]
  /\ \/ UNCHANGED inbox
     \/ /\ Announced(key) /\ stream = "open" /\ Len(inbox) < MaxInbox
        /\ inbox' = Append(inbox, "item")
  /\ UNCHANGED <<key, page, queryVars, stream, acting, signedIn, up, visible, trouble>>

\* onmessage of useOrchestratorEvents, then of the component.
Deliver ==
  /\ inbox # <<>> /\ inbox' = Tail(inbox)
  /\ Invalidate(Hears(page), FALSE)
  /\ UNCHANGED <<key, page, stream, acting, worldVars>>

\* The browser gives up an EventSource whose answer is not an event stream:
\* the 500 or 502 of the route, or the login page.
StreamConnect ==
  /\ stream = "connecting"
  /\ stream' = IF up /\ signedIn THEN "open" ELSE "dead"
  /\ UNCHANGED <<key, page, queryVars, inbox, acting, worldVars>>

\* A stream that ends is opened again by the browser.
StreamBreak ==
  /\ Spend /\ stream = "open" /\ stream' = "connecting"
  /\ UNCHANGED <<key, page, queryVars, inbox, acting, server, signedIn, up, visible>>

ServiceDown ==
  /\ Spend /\ up /\ up' = FALSE
  /\ stream' = IF stream = "open" THEN "connecting" ELSE stream
  /\ UNCHANGED <<key, page, queryVars, inbox, acting, server, signedIn, visible>>

ServiceUp ==
  /\ ~up /\ up' = TRUE
  /\ UNCHANGED <<key, page, queryVars, stream, inbox, acting, server, signedIn, visible, trouble>>

-----------------------------------------------------------------------------
(* The operator's own actions *)

ActSend(a) ==
  /\ Spend /\ acting = Resting /\ a \in Acts(page)
  /\ acting' = [at |-> "sent", act |-> a]
  /\ UNCHANGED <<key, page, queryVars, stream, inbox, server, signedIn, up, visible>>

ActServed ==
  /\ acting.at = "sent" /\ up /\ signedIn
  /\ acting' = [acting EXCEPT !.at = "ok"]
  /\ IF key \in acting.act.changes /\ server.ver < MaxVersion
       THEN \E rows \in BOOLEAN : server' = [ver |-> server.ver + 1, rows |-> rows]
       ELSE UNCHANGED server
  /\ UNCHANGED <<key, page, queryVars, stream, inbox, signedIn, up, visible, trouble>>

\* An error, or the login page of an ended session, is a success to a mutation
\* that does not look at the status.
ActRefused ==
  /\ acting.at = "sent" /\ ~(up /\ signedIn)
  /\ acting' = [acting EXCEPT !.at = IF acting.act.checks THEN "error" ELSE "ok"]
  /\ UNCHANGED <<key, page, queryVars, stream, inbox, worldVars>>

\* onSuccess invalidates; onError at most shows a toast.
ActDone ==
  /\ acting.at \in {"ok", "error"} /\ acting' = Resting
  /\ IF acting.at = "ok"
       THEN Invalidate(acting.act.invalidates,
                       acting.act.invalidates # {} /\ key \in acting.act.changes)
       ELSE UNCHANGED queryVars
  /\ UNCHANGED <<key, page, stream, inbox, worldVars>>

-----------------------------------------------------------------------------
QNext ==
  \/ \E p \in Visited : Goto(p) \/ Login(p)
  \/ \E out \in BOOLEAN : Reload(out)
  \/ Expire \/ Hide \/ Age \/ Collect \/ Poll
  \/ Answer \/ AnswerError \/ AnswerLogin \/ Success \/ Failure \/ Retry
  \/ ServerWrite \/ Deliver \/ StreamConnect \/ StreamBreak \/ ServiceDown \/ ServiceUp
  \/ \E a \in Acts(page) : ActSend(a)
  \/ ActServed \/ ActRefused \/ ActDone

QSpec == QInit /\ [][QNext]_vars

\* Timers fire, requests are answered, answers are handled, and the browser
\* connects.  Nobody is obliged to come back to the tab, to sign in, to change
\* anything, or to start the service again.
QFairness ==
  /\ WF_vars(Poll) /\ WF_vars(Answer \/ AnswerError \/ AnswerLogin)
  /\ WF_vars(Success) /\ WF_vars(Failure) /\ WF_vars(Retry)
  /\ WF_vars(Deliver) /\ WF_vars(StreamConnect)
QFairSpec == QSpec /\ QFairness

-----------------------------------------------------------------------------
QTypeOK ==
  /\ key \in Keys /\ page \in PageNames
  /\ server \in [ver : 1..MaxVersion, rows : BOOLEAN]
  /\ cache \in Content /\ stale \in BOOLEAN /\ failed \in BOOLEAN
  /\ fetch \in [at : {"idle", "sent", "data", "error", "backoff"}, body : Content, try : {1, 2}]
  /\ stream \in {"closed", "connecting", "open", "dead"}
  /\ inbox \in Seq({"item"}) /\ (stream = "closed" => inbox = <<>>)
  /\ acting.at \in {"none", "sent", "ok", "error"}
  /\ signedIn \in BOOLEAN /\ up \in BOOLEAN /\ visible \in BOOLEAN
  /\ trouble \in 0..MaxTrouble /\ mustSee \in 0..MaxVersion

\* Data that count as fresh, with no fetch under way, are at least as new as
\* the last refresh asked for: by an event, or by a mutation of the operator
\* that changed them.  A fetch that had left before is never taken for the
\* answer (use-events.ts:25-38 and the invalidateQueries of the components).
RefreshIsAnswered ==
  HasData /\ ~stale /\ fetch = Idle => cache.ver >= mustSee

\* A component says that a list is empty only if the service has it empty, or
\* had when it was read.  Three exceptions are in the code: fetchers that turn
\* an HTTP error into an empty list, components that do not wait for the first
\* answer, and those that take a first load that has failed for an empty one.
NoFalseEmpty ==
  \A r \in Readers(page, key) :
    Shows(r) = "empty" /\ key \notin Lenient =>
      \/ ~server.rows
      \/ HasData /\ cache.ver < server.ver
      \/ ~HasData /\ r.until = "empty"
      \/ ~HasData /\ r.until = "loading" /\ failed

\* The cache is a read-through view of the service: ReadThrough.
Abstract == INSTANCE ReadThrough WITH current <- server.ver, shown <- cache.ver
ReadsThrough == Abstract!RTSpec

\* On a page that polls the query, in front, with a session and a service
\* that answers, the data of the service are shown in the end: no state of
\* the cache, of a retry or of the stream can hold them back.
Steady == Polled(page, key) /\ visible /\ signedIn /\ up
PolledCatchesUp == (<>[]Steady) => <>[](cache = server)

\* A refresh of what is on the screen ends: with the data it was for, with an
\* error, or because the operator leaves the page or the tab.
RefreshEnds ==
  (Mounted /\ HasData /\ cache.ver < mustSee) ~>
    (cache.ver >= mustSee \/ failed \/ ~Mounted \/ ~visible)
=============================================================================
