---------------------------- MODULE QueryCacheProofs ----------------------------
(***************************************************************************)
(* What holds of every query of the admin app on every page, for any       *)
(* number of changes, faults and actions of the operator.                  *)
(***************************************************************************)
EXTENDS QueryCache, TLAPS

USE DEF queryVars, worldVars

Fetches ==
  [at : {"idle", "sent", "data", "error", "backoff"}, body : Content, try : {1, 2}]

\* A mutation that refreshes anything refreshes all it has changed.
Refreshing(a) ==
  a.invalidates # {} => \A k \in a.changes : \E p \in a.invalidates : Covers(p, k)
Fine(c) == \A a \in c.acts : Refreshing(a)

PageInv ==
  /\ key \in Keys /\ page \in PageNames
  /\ stream \in {"closed", "connecting", "open", "dead"}
  /\ inbox \in Seq({"item"}) /\ (stream = "closed" => inbox = <<>>)
  /\ acting.at \in {"none", "sent", "ok", "error"}
  /\ acting = [at |-> acting.at, act |-> acting.act]
  /\ acting.at # "none" => Refreshing(acting.act)
  /\ signedIn \in BOOLEAN /\ up \in BOOLEAN /\ visible \in BOOLEAN
  /\ trouble \in 0..MaxTrouble

\* What a fetcher can get of the version the service has: the list, and from a
\* lenient one the empty list.
Genuine(data) ==
  /\ data.ver <= server.ver
  /\ data.ver = server.ver /\ key \notin Lenient => data.rows = server.rows

CacheInv ==
  /\ server \in [ver : 1..MaxVersion, rows : BOOLEAN]
  /\ cache \in Content /\ stale \in BOOLEAN /\ failed \in BOOLEAN /\ fetch \in Fetches
  /\ mustSee \in 0..MaxVersion /\ mustSee <= server.ver
  /\ Genuine(cache)
  /\ fetch.at = "idle" => fetch = Idle
  /\ fetch.at = "data" => Genuine(fetch.body) /\ fetch.body.ver >= cache.ver
                          /\ fetch.body.ver >= mustSee /\ fetch.body.ver > 0
  /\ ~HasData => mustSee = 0
  /\ HasData /\ ~stale /\ fetch.at = "idle" => cache.ver >= mustSee

QInv == PageInv /\ CacheInv

-----------------------------------------------------------------------------
(* The table of components.                                                *)

LEMMA ComponentsFine ==
  /\ Fine(DiskPressureBanner) /\ Fine(RetentionWidget) /\ Fine(BlockedBanner)
  /\ Fine(AvailableList) /\ Fine(BlockedList) /\ Fine(DeletedList)
  /\ Fine(PipelineOverview) /\ Fine(LifecycleStrip) /\ Fine(MetricsCards)
  /\ Fine(ContainersTable) /\ Fine(ServicesHealth) /\ Fine(LogViewer)
  /\ Fine(SettingsForm) /\ Fine(ActiveDownloadsCard) /\ Fine(PendingRequestsCard)
  /\ Fine(HeroStats) /\ Fine(RecentAdditions) /\ Fine(EventFeed) /\ Fine(RequestsList)
  /\ Fine(ProcessingList) /\ Fine(ItemsTable) /\ Fine(SeriesDetail) /\ Fine(ItemDetail)
  /\ Fine(RequestCard) /\ Fine(QueueTable) /\ Fine(ProposalsTable) /\ Fine(RetentionForm)
  /\ Fine(CFEditor) /\ Fine(DeleteDialog) /\ Fine(SeriesActions)
  <1>1. /\ Fine(DiskPressureBanner) /\ Fine(RetentionWidget) /\ Fine(BlockedBanner)
        /\ Fine(AvailableList) /\ Fine(BlockedList) /\ Fine(DeletedList)
        /\ Fine(PipelineOverview) /\ Fine(LifecycleStrip) /\ Fine(MetricsCards)
        /\ Fine(ContainersTable) /\ Fine(ServicesHealth) /\ Fine(LogViewer)
        /\ Fine(SettingsForm) /\ Fine(ActiveDownloadsCard) /\ Fine(PendingRequestsCard)
        /\ Fine(HeroStats) /\ Fine(RecentAdditions) /\ Fine(RequestsList)
        /\ Fine(SeriesDetail) /\ Fine(ItemDetail)
    BY DEF Fine, Component, DiskPressureBanner, RetentionWidget, BlockedBanner, AvailableList,
           BlockedList, DeletedList, PipelineOverview, LifecycleStrip, MetricsCards,
           ContainersTable, ServicesHealth, LogViewer, SettingsForm, ActiveDownloadsCard,
           PendingRequestsCard, HeroStats, RecentAdditions, RequestsList, SeriesDetail,
           ItemDetail
  <1>2. Fine(EventFeed) /\ Fine(ProcessingList) /\ Fine(ItemsTable)
    BY DEF Fine, Component, Listening, EventFeed, ProcessingList, ItemsTable
  <1>3. Fine(RequestCard)
    BY DEF Fine, Refreshing, Component, RequestCard, Act, Requests, Counts, Covers
  <1>4. Fine(QueueTable)
    BY DEF Fine, Refreshing, Component, QueueTable, Act, Downloads, Covers
  <1>5. Fine(ProposalsTable) /\ Fine(RetentionForm)
    BY DEF Fine, Refreshing, Component, ProposalsTable, RetentionForm, Act, Proposals, Overview,
           RetentionConfig, Covers
  <1>6. Fine(CFEditor)
    BY DEF Fine, Refreshing, Component, CFEditor, Act, Formats, Covers
  <1>7. Fine(DeleteDialog) /\ Fine(SeriesActions)
    BY DEF Fine, Refreshing, Component, DeleteDialog, SeriesActions, Act, SeriesItems, Covers
  <1>8. QED BY <1>1, <1>2, <1>3, <1>4, <1>5, <1>6, <1>7

\* Every mutation of every page refreshes what it changes, or nothing.
LEMMA ActsRefresh ==
  ASSUME NEW p \in PageNames, NEW a \in Acts(p)  PROVE Refreshing(a)
  <1>1. \A c \in Components(p) : Fine(c)
    <2>1. CASE p \in DOMAIN PipelinePages
      BY <2>1, ComponentsFine DEF Components, PipelinePages
    <2>2. CASE p \notin DOMAIN PipelinePages
      <3>1. p \in DOMAIN OtherPages  BY <2>2 DEF PageNames
      <3>2. QED BY <2>2, <3>1, ComponentsFine DEF Components, OtherPages
    <2>3. QED BY <2>1, <2>2
  <1>2. QED BY <1>1 DEF Acts, Fine

-----------------------------------------------------------------------------
LEMMA QueryLimits ==
  MaxVersion \in Nat /\ MaxVersion > 0 /\ MaxTrouble \in Nat /\ MaxInbox \in Nat
  BY QueryAssumption

LEMMA SentIsTyped ==
  /\ \A try \in {1, 2} : Sent(try) \in Fetches /\ Sent(try).at = "sent"
  /\ Idle \in Fetches /\ Idle.at = "idle" /\ Nothing \in Content /\ Nothing.ver = 0
  BY QueryLimits DEF Sent, Idle, Nothing, Content, Fetches

LEMMA QueryInit == QInit => QInv
  <1> SUFFICES ASSUME QInit  PROVE QInv
    OBVIOUS
  <1>1. PageInv
    <2>1. key \in Keys /\ page \in PageNames /\ page = "login"
      BY QueryAssumption DEF QInit
    <2>2. acting = [at |-> "none", act |-> acting.act] /\ acting.at = "none"
      BY DEF QInit, Resting
    <2>3. trouble \in 0..MaxTrouble  BY QueryLimits DEF QInit
    <2>4. inbox \in Seq({"item"}) /\ inbox = <<>> /\ stream = "closed"  BY DEF QInit
    <2>5. signedIn = FALSE /\ up = TRUE /\ visible = TRUE  BY DEF QInit
    <2>6. QED BY <2>1, <2>2, <2>3, <2>4, <2>5 DEF PageInv
  <1>2. CacheInv
    <2>1. server \in [ver : 1..MaxVersion, rows : BOOLEAN] /\ server.ver = 1
      BY QueryLimits DEF QInit
    <2>2. /\ cache = Nothing /\ fetch = Idle /\ stale = FALSE /\ failed = FALSE /\ mustSee = 0
      BY DEF QInit
    <2>3. cache \in Content /\ cache.ver = 0 /\ fetch \in Fetches /\ fetch.at = "idle"
      BY <2>2, SentIsTyped
    <2>4. ~HasData /\ Genuine(cache)  BY <2>1, <2>3 DEF HasData, Genuine
    <2>5. mustSee \in 0..MaxVersion /\ mustSee <= server.ver
      BY <2>1, <2>2, QueryLimits
    <2>6. QED BY <2>1, <2>2, <2>3, <2>4, <2>5 DEF CacheInv
  <1>3. QED BY <1>1, <1>2 DEF QInv

-----------------------------------------------------------------------------
(* What a step does to the query.                                          *)

LEMMA CacheStays == CacheInv /\ UNCHANGED <<key, queryVars, server>> => CacheInv'
  BY DEF CacheInv, Genuine, HasData

\* A fetch starts, or nothing happens.
LEMMA FetchStarts ==
  ASSUME CacheInv, UNCHANGED <<key, server, cache, mustSee>>,
         stale' = stale \/ (stale' \in BOOLEAN /\ stale'),
         \/ UNCHANGED <<fetch, failed>>
         \/ \E try \in {1, 2} : fetch' = Sent(try) /\ failed' \in BOOLEAN
  PROVE  CacheInv'
  <1>1. CASE UNCHANGED <<fetch, failed>>
    BY <1>1 DEF CacheInv, Genuine, HasData
  <1>2. CASE \E try \in {1, 2} : fetch' = Sent(try) /\ failed' \in BOOLEAN
    <2>1. fetch' \in Fetches /\ fetch'.at = "sent" /\ failed' \in BOOLEAN
      BY <1>2, SentIsTyped
    <2>2. QED BY <2>1 DEF CacheInv, Genuine, HasData
  <1>3. QED BY <1>1, <1>2

\* The service changes: what the browser has is of an older version.
LEMMA ServerChanges ==
  ASSUME CacheInv, UNCHANGED <<key, queryVars>>, server.ver < MaxVersion,
         \E rows \in BOOLEAN : server' = [ver |-> server.ver + 1, rows |-> rows]
  PROVE  CacheInv'
  <1>1. /\ server \in [ver : 1..MaxVersion, rows : BOOLEAN] /\ cache \in Content
        /\ fetch \in Fetches /\ mustSee \in 0..MaxVersion
    BY DEF CacheInv
  <1>2. cache.ver \in 0..MaxVersion /\ fetch.body.ver \in 0..MaxVersion /\ server.ver \in 1..MaxVersion
    BY <1>1 DEF Content, Fetches
  <1>3. /\ server' \in [ver : 1..MaxVersion, rows : BOOLEAN] /\ server'.ver = server.ver + 1
    BY <1>2, QueryLimits
  <1>4. QED BY <1>1, <1>2, <1>3, QueryLimits DEF CacheInv, Genuine, HasData

\* A refresh: the key is marked, and what is under way is replaced.
LEMMA InvalidateKeeps ==
  ASSUME CacheInv, NEW prefixes, NEW sees \in BOOLEAN, Invalidate(prefixes, sees),
         sees => \E p \in prefixes : Covers(p, key),
         UNCHANGED <<key, server>>
  PROVE  CacheInv'
  <1> DEFINE hit == \E p \in prefixes : Covers(p, key)
  <1>1. /\ cache' = cache /\ stale' = (stale \/ hit)
        /\ IF hit /\ Mounted /\ (fetch = Idle \/ HasData)
             THEN fetch' = Sent(1) /\ failed' = (failed /\ HasData)
             ELSE UNCHANGED <<fetch, failed>>
        /\ mustSee' = IF HasData /\ (hit \/ sees) /\ (Mounted \/ fetch = Idle)
                        THEN server.ver ELSE mustSee
    BY DEF Invalidate, Start
  <1>2. sees => hit  OBVIOUS
  <1> HIDE DEF hit
  <1>3. /\ server.ver \in 1..MaxVersion /\ cache.ver \in 0..MaxVersion /\ mustSee \in 0..MaxVersion
        /\ stale \in BOOLEAN /\ failed \in BOOLEAN /\ fetch \in Fetches
    BY DEF CacheInv, Content
  <1>4. stale' \in BOOLEAN /\ HasData' = HasData /\ hit \in BOOLEAN
    BY <1>1, <1>3 DEF HasData, hit
  <1>5. mustSee' \in 0..MaxVersion /\ mustSee' <= server.ver
    BY <1>1, <1>3 DEF CacheInv
  <1>6. ~HasData => mustSee' = mustSee  BY <1>1
  <1>7. CASE hit /\ Mounted /\ (fetch = Idle \/ HasData)
    <2>1. fetch' \in Fetches /\ fetch'.at = "sent" /\ failed' \in BOOLEAN
      BY <1>1, <1>3, <1>7, SentIsTyped
    <2>2. QED BY <1>1, <1>4, <1>5, <1>6, <2>1 DEF CacheInv, Genuine
  <1>8. CASE ~(hit /\ Mounted /\ (fetch = Idle \/ HasData))
    <2>1. UNCHANGED <<fetch, failed>>  BY <1>1, <1>8
    <2>2. CASE mustSee' = mustSee
      BY <1>1, <1>4, <2>1, <2>2 DEF CacheInv, Genuine
    <2>3. CASE mustSee' # mustSee
      <3>1. HasData /\ hit /\ ~Mounted /\ fetch = Idle
        BY <1>1, <1>2, <1>8, <2>3
      <3>2. stale' = TRUE /\ fetch'.at = "idle"
        BY <1>1, <2>1, <3>1, SentIsTyped
      <3>3. QED BY <1>1, <1>4, <1>5, <2>1, <3>1, <3>2 DEF CacheInv, Genuine
    <2>4. QED BY <2>2, <2>3
  <1>9. QED BY <1>7, <1>8

-----------------------------------------------------------------------------
(* Steps that touch the query.                                             *)

LEMMA MountKeeps ==
  ASSUME CacheInv, NEW p, Mount(p), server' = server  PROVE CacheInv'
  <1>1. /\ UNCHANGED <<key, server, cache, mustSee, stale>>
        /\ \/ UNCHANGED <<fetch, failed>>
           \/ fetch' = Sent(1) /\ failed' = (failed /\ HasData)
    BY DEF Mount, Start
  <1>2. failed \in BOOLEAN  BY DEF CacheInv
  <1>3. QED BY <1>1, <1>2, FetchStarts

\* The query is thrown away, and perhaps loaded for the first time.
LEMMA Cleared ==
  ASSUME CacheInv, UNCHANGED <<key, server>>, cache' = Nothing, stale' = FALSE,
         failed' = FALSE, mustSee' = 0, fetch' = Sent(1) \/ fetch' = Idle
  PROVE  CacheInv'
  <1>1. /\ server \in [ver : 1..MaxVersion, rows : BOOLEAN] /\ server.ver \in 1..MaxVersion
    BY DEF CacheInv
  <1>2. cache'.ver = 0 /\ cache' \in Content  BY SentIsTyped
  <1>3. /\ fetch' \in Fetches /\ fetch'.at # "data"
        /\ fetch'.at = "idle" => fetch' = Idle
    BY SentIsTyped
  <1>4. ~HasData'  BY <1>2 DEF HasData
  <1>5. Genuine(cache)'  BY <1>1, <1>2 DEF Genuine
  <1>6. mustSee' \in 0..MaxVersion /\ mustSee' <= server.ver  BY <1>1, QueryLimits
  <1>7. QED BY <1>1, <1>2, <1>3, <1>4, <1>5, <1>6 DEF CacheInv

LEMMA ReloadKeeps ==
  ASSUME CacheInv, NEW out \in BOOLEAN, Reload(out)  PROVE CacheInv'
  BY Cleared DEF Reload

LEMMA AgeKeeps ==
  ASSUME CacheInv, Age \/ Collect \/ Poll \/ Retry  PROVE CacheInv'
  <1>1. CASE Age
    BY <1>1 DEF Age, CacheInv, Genuine, HasData
  <1>2. CASE Collect
    BY <1>2, Cleared DEF Collect
  <1>3. CASE Poll
    BY <1>3, FetchStarts DEF Poll, Start, CacheInv
  <1>4. CASE Retry
    BY <1>4, FetchStarts DEF Retry, CacheInv
  <1>5. QED BY <1>1, <1>2, <1>3, <1>4

\* An answer is the list of now, or an error; a lenient fetcher takes the
\* error for an empty list.
LEMMA AnswerKeeps ==
  ASSUME CacheInv, Answer \/ AnswerError \/ AnswerLogin  PROVE CacheInv'
  <1>1. /\ UNCHANGED <<key, server, cache, stale, failed, mustSee>>
        /\ \/ Reply("error", Nothing)
           \/ Reply("data", server)
           \/ Reply("data", [server EXCEPT !.rows = FALSE]) /\ key \in Lenient
    BY DEF Answer, AnswerError, AnswerLogin
  <1>2. /\ server \in Content /\ server.ver \in 1..MaxVersion /\ fetch \in Fetches
        /\ cache.ver <= server.ver /\ mustSee <= server.ver
    <2>1. server \in [ver : 1..MaxVersion, rows : BOOLEAN]  BY DEF CacheInv
    <2>2. server \in Content /\ server.ver \in 1..MaxVersion  BY <2>1, QueryLimits DEF Content
    <2>3. QED BY <2>2 DEF CacheInv, Genuine
  <1>3. CASE Reply("error", Nothing)
    <2>1. fetch' \in Fetches /\ fetch'.at = "error"
      BY <1>2, <1>3, SentIsTyped DEF Reply, Fetches
    <2>2. QED BY <1>1, <2>1 DEF CacheInv, Genuine, HasData
  <1>4. ASSUME NEW body \in Content, Reply("data", body), body.ver = server.ver,
               key \notin Lenient => body.rows = server.rows
        PROVE  CacheInv'
    <2>1. fetch' \in Fetches /\ fetch'.at = "data" /\ fetch'.body = body
      BY <1>2, <1>4 DEF Reply, Fetches
    <2>2. QED BY <1>1, <1>2, <1>4, <2>1 DEF CacheInv, Genuine, HasData
  <1>5. /\ [server EXCEPT !.rows = FALSE] \in Content
        /\ [server EXCEPT !.rows = FALSE].ver = server.ver
    BY <1>2 DEF Content
  <1>6. CASE Reply("data", server)
    BY <1>2, <1>4, <1>6
  <1>7. CASE Reply("data", [server EXCEPT !.rows = FALSE]) /\ key \in Lenient
    BY <1>4, <1>5, <1>7
  <1>8. QED BY <1>1, <1>3, <1>6, <1>7

LEMMA HandledKeeps ==
  ASSUME CacheInv, Success \/ Failure  PROVE CacheInv'
  <1>1. Idle \in Fetches /\ Idle.at = "idle" /\ fetch \in Fetches
    BY SentIsTyped DEF CacheInv
  <1>2. CASE Success
    <2>1. /\ fetch.at = "data" /\ cache' = fetch.body /\ stale' = FALSE /\ failed' = FALSE
          /\ fetch' = Idle /\ UNCHANGED <<key, server, mustSee>>
      BY <1>2 DEF Success
    <2>2. fetch.body \in Content  BY <1>1 DEF Fetches
    <2>3. QED BY <1>1, <2>1, <2>2 DEF CacheInv, Genuine, HasData
  <1>3. CASE Failure
    <2>1. /\ UNCHANGED <<key, server, cache, mustSee>>
          /\ \/ fetch' = [fetch EXCEPT !.at = "backoff"] /\ UNCHANGED <<failed, stale>>
             \/ fetch' = Idle /\ failed' = TRUE /\ stale' = TRUE
      BY <1>3 DEF Failure
    <2>2. [fetch EXCEPT !.at = "backoff"] \in Fetches
      BY <1>1 DEF Fetches
    <2>3. [fetch EXCEPT !.at = "backoff"].at = "backoff"
      BY <1>1 DEF Fetches
    <2>4. CASE fetch' = [fetch EXCEPT !.at = "backoff"] /\ UNCHANGED <<failed, stale>>
      BY <2>1, <2>2, <2>3, <2>4 DEF CacheInv, Genuine, HasData
    <2>5. CASE fetch' = Idle /\ failed' = TRUE /\ stale' = TRUE
      BY <1>1, <2>1, <2>5 DEF CacheInv, Genuine, HasData
    <2>6. QED BY <2>1, <2>4, <2>5
  <1>4. QED BY <1>2, <1>3

\* The operator's own mutation refreshes what it changed.
LEMMA ActDoneKeeps == ASSUME QInv, ActDone  PROVE CacheInv'
  <1>1. UNCHANGED <<key, server>> /\ acting.at \in {"ok", "error"}
    BY DEF ActDone
  <1>2. CASE acting.at = "ok"
    <2> DEFINE a == acting.act
    <2>1. Invalidate(a.invalidates, a.invalidates # {} /\ key \in a.changes)
      BY <1>2 DEF ActDone
    <2>2. Refreshing(a)  BY <1>2 DEF QInv, PageInv
    <2>3. (a.invalidates # {} /\ key \in a.changes) =>
            \E p \in a.invalidates : Covers(p, key)
      BY <2>2 DEF Refreshing
    <2> HIDE DEF a
    <2>4. QED BY <1>1, <2>1, <2>3, InvalidateKeeps DEF QInv
  <1>3. CASE acting.at = "error"
    BY <1>1, <1>3, CacheStays DEF ActDone, QInv
  <1>4. QED BY <1>1, <1>2, <1>3

LEMMA CacheStep == ASSUME QInv, [QNext]_vars  PROVE CacheInv'
  <1> USE DEF QInv
  <1>1. CASE \E p \in Visited : Goto(p) \/ Login(p)
    BY <1>1, MountKeeps DEF Goto, Login
  <1>2. CASE \E out \in BOOLEAN : Reload(out)
    BY <1>2, ReloadKeeps
  <1>3. CASE Age \/ Collect \/ Poll \/ Retry
    BY <1>3, AgeKeeps
  <1>4. CASE Answer \/ AnswerError \/ AnswerLogin
    BY <1>4, AnswerKeeps
  <1>5. CASE Success \/ Failure
    BY <1>5, HandledKeeps
  <1>6. CASE ServerWrite
    BY <1>6, ServerChanges DEF ServerWrite
  <1>7. CASE ActServed
    <2>1. UNCHANGED <<key, queryVars>>  BY <1>7 DEF ActServed
    <2>2. CASE key \in acting.act.changes /\ server.ver < MaxVersion
      BY <1>7, <2>1, <2>2, ServerChanges DEF ActServed
    <2>3. CASE ~(key \in acting.act.changes /\ server.ver < MaxVersion)
      BY <1>7, <2>1, <2>3, CacheStays DEF ActServed
    <2>4. QED BY <2>2, <2>3
  <1>8. CASE Deliver
    BY <1>8, InvalidateKeeps DEF Deliver
  <1>9. CASE ActDone
    BY <1>9, ActDoneKeeps
  <1>10. CASE \/ Expire \/ Hide \/ StreamConnect \/ StreamBreak \/ ServiceDown \/ ServiceUp
              \/ (\E a \in Acts(page) : ActSend(a)) \/ ActRefused \/ UNCHANGED vars
    <2>1. UNCHANGED <<key, queryVars, server>>
      BY <1>10 DEF Expire, Hide, StreamConnect, StreamBreak, ServiceDown, ServiceUp, ActSend,
                   ActRefused, vars
    <2>2. QED BY <2>1, CacheStays
  <1>11. QED BY <1>1, <1>2, <1>3, <1>4, <1>5, <1>6, <1>7, <1>8, <1>9, <1>10 DEF QNext

-----------------------------------------------------------------------------
(* Steps of the page, of the session and of the mutation.                  *)

LEMMA MountPage ==
  ASSUME PageInv, NEW p \in PageNames, Mount(p)
  PROVE  /\ page' \in PageNames /\ UNCHANGED <<key, acting>>
         /\ stream' \in {"closed", "connecting"} /\ inbox' = <<>> /\ inbox' \in Seq({"item"})
  BY DEF Mount

LEMMA PageStep == ASSUME PageInv, [QNext]_vars  PROVE PageInv'
  <1> USE DEF PageInv
  <1>1. CASE \E p \in Visited : Goto(p) \/ Login(p)
    <2>1. PICK p \in PageNames : Goto(p) \/ Login(p)
      BY <1>1, QueryAssumption
    <2>2. Mount(p) /\ UNCHANGED <<up, visible, trouble>> /\ signedIn' \in BOOLEAN
      BY <2>1 DEF Goto, Login
    <2>3. QED BY <2>2, MountPage
  <1>2. CASE \E out \in BOOLEAN : Reload(out)
    <2>1. PICK out \in BOOLEAN : Reload(out)  BY <1>2
    <2>2. /\ page' \in PageNames /\ signedIn' \in BOOLEAN /\ UNCHANGED <<key, up, visible>>
          /\ inbox' = <<>> /\ stream' \in {"closed", "connecting"}
          /\ trouble < MaxTrouble /\ trouble' = trouble + 1
      BY <2>1, QueryAssumption DEF Reload, Spend, PageNames, OtherPages
    <2>3. acting' = [at |-> "none", act |-> Act({}, {})]
      BY <2>1 DEF Reload, Resting
    <2>4. trouble' \in 0..MaxTrouble  BY <2>2, QueryLimits
    <2>5. QED BY <2>2, <2>3, <2>4
  <1>3. CASE Expire \/ Hide \/ StreamBreak \/ ServiceDown
    <2>1. /\ UNCHANGED <<key, page, inbox, acting>>
          /\ signedIn' \in BOOLEAN /\ visible' \in BOOLEAN /\ up' \in BOOLEAN
          /\ stream' = stream \/ (stream = "open" /\ stream' = "connecting")
          /\ trouble' = trouble \/ (trouble < MaxTrouble /\ trouble' = trouble + 1)
      BY <1>3 DEF Expire, Hide, StreamBreak, ServiceDown, Spend
    <2>2. trouble' \in 0..MaxTrouble  BY <2>1, QueryLimits
    <2>3. QED BY <2>1, <2>2
  <1>4. CASE StreamConnect \/ ServiceUp
    BY <1>4 DEF StreamConnect, ServiceUp
  <1>5. CASE ServerWrite
    <2>1. /\ UNCHANGED <<key, page, stream, acting, signedIn, up, visible, trouble>>
          /\ inbox' = inbox \/ (stream = "open" /\ inbox' = Append(inbox, "item"))
      BY <1>5 DEF ServerWrite
    <2>2. Append(inbox, "item") \in Seq({"item"})  OBVIOUS
    <2>3. QED BY <2>1, <2>2
  <1>6. CASE Deliver
    <2>1. /\ UNCHANGED <<key, page, stream, acting, signedIn, up, visible, trouble>>
          /\ inbox # <<>> /\ inbox' = Tail(inbox)
      BY <1>6 DEF Deliver
    <2>2. Tail(inbox) \in Seq({"item"})  BY <2>1
    <2>3. QED BY <2>1, <2>2
  <1>7. CASE \E a \in Acts(page) : ActSend(a)
    <2>1. PICK a \in Acts(page) : ActSend(a)  BY <1>7
    <2>2. /\ UNCHANGED <<key, page, stream, inbox, signedIn, up, visible>>
          /\ acting' = [at |-> "sent", act |-> a]
          /\ trouble < MaxTrouble /\ trouble' = trouble + 1
      BY <2>1 DEF ActSend, Spend
    <2>3. trouble' \in 0..MaxTrouble  BY <2>2, QueryLimits
    <2>4. Refreshing(a)  BY ActsRefresh
    <2>5. QED BY <2>2, <2>3, <2>4
  <1>8. CASE ActServed \/ ActRefused
    <2>1. /\ UNCHANGED <<key, page, stream, inbox, signedIn, up, visible, trouble>>
          /\ acting.at = "sent"
          /\ \E at \in {"ok", "error"} : acting' = [acting EXCEPT !.at = at]
      BY <1>8 DEF ActServed, ActRefused
    <2>2. PICK at \in {"ok", "error"} : acting' = [acting EXCEPT !.at = at]
      BY <2>1
    <2>3. acting' = [at |-> at, act |-> acting.act]
      BY <2>2
    <2>4. QED BY <2>1, <2>2, <2>3
  <1>9. CASE ActDone
    <2>1. /\ UNCHANGED <<key, page, stream, inbox, signedIn, up, visible, trouble>>
          /\ acting' = [at |-> "none", act |-> Act({}, {})]
      BY <1>9 DEF ActDone, Resting
    <2>2. QED BY <2>1
  <1>10. CASE \/ Age \/ Collect \/ Poll \/ Answer \/ AnswerError \/ AnswerLogin
              \/ Success \/ Failure \/ Retry \/ UNCHANGED vars
    <2>1. /\ UNCHANGED <<key, page, stream, inbox, acting, signedIn, up, visible>>
          /\ trouble' = trouble \/ (trouble < MaxTrouble /\ trouble' = trouble + 1)
      BY <1>10 DEF Age, Collect, Poll, Answer, AnswerError, AnswerLogin, Success, Failure,
                   Retry, Spend, vars
    <2>2. trouble' \in 0..MaxTrouble  BY <2>1, QueryLimits
    <2>3. QED BY <2>1, <2>2
  <1>11. QED BY <1>1, <1>2, <1>3, <1>4, <1>5, <1>6, <1>7, <1>8, <1>9, <1>10 DEF QNext

\* The inductive invariant.
THEOREM QueryInvariant == QSpec => []QInv
  <1>1. QInv /\ [QNext]_vars => QInv'
    BY PageStep, CacheStep DEF QInv
  <1>2. QED BY QueryInit, <1>1, PTL DEF QSpec

-----------------------------------------------------------------------------
(* What it gives.                                                          *)

\* Every variable keeps its type, and no event waits for a closed stream.
THEOREM QueryTyped == QSpec => []QTypeOK
  <1>1. QInv => QTypeOK
    BY DEF QInv, PageInv, CacheInv, Fetches, QTypeOK
  <1>2. QED BY QueryInvariant, <1>1, PTL

\* Data that count as fresh are what the last refresh was for, whatever fetch
\* was under way when it was asked.
THEOREM RefreshBringsNews == QSpec => []RefreshIsAnswered
  <1>1. QInv => RefreshIsAnswered
    BY SentIsTyped DEF QInv, CacheInv, RefreshIsAnswered
  <1>2. QED BY QueryInvariant, <1>1, PTL

\* No page says that a list is empty which the service has and had not empty,
\* but for the components and fetchers of the three exceptions.
THEOREM EmptyIsEmpty == QSpec => []NoFalseEmpty
  <1>1. QInv => NoFalseEmpty
    <2> SUFFICES ASSUME QInv, NEW r \in Readers(page, key), Shows(r) = "empty",
                        key \notin Lenient, server.rows,
                        ~(HasData /\ cache.ver < server.ver),
                        ~(~HasData /\ r.until = "empty"),
                        ~(~HasData /\ r.until = "loading" /\ failed)
                 PROVE FALSE
      BY DEF NoFalseEmpty
    <2>1. CASE HasData
      <3>1. /\ cache \in Content /\ server \in [ver : 1..MaxVersion, rows : BOOLEAN]
            /\ Genuine(cache)
        BY DEF QInv, CacheInv
      <3>2. cache.ver = server.ver  BY <2>1, <3>1 DEF Content, Genuine
      <3>3. cache.rows  BY <3>1, <3>2 DEF Genuine
      <3>4. QED BY <2>1, <3>3 DEF Shows
    <2>2. CASE ~HasData
      BY <2>2 DEF Shows
    <2>3. QED BY <2>1, <2>2
  <1>2. QED BY QueryInvariant, <1>1, PTL

\* What the browser keeps only moves forward along the versions of the
\* service, until it is dropped as a whole.
LEMMA ViewStep ==
  ASSUME QInv, [QNext]_vars
  PROVE  [Abstract!RTNext]_<<server.ver, cache.ver>>
  <1> USE DEF Abstract!RTNext, Abstract!Change, Abstract!Show, Abstract!Forget
  <1>1. CASE Success
    <2>1. /\ fetch.at = "data" /\ cache' = fetch.body /\ server' = server
      BY <1>1 DEF Success
    <2>2. /\ fetch.body.ver <= server.ver /\ fetch.body.ver >= cache.ver
          /\ fetch \in Fetches /\ cache \in Content /\ server.ver \in 1..MaxVersion
      BY <2>1 DEF QInv, CacheInv, Genuine
    <2>3. cache.ver \in 0..MaxVersion /\ fetch.body.ver \in 0..MaxVersion
      BY <2>2 DEF Fetches, Content
    <2>4. cache'.ver \in cache.ver..server.ver  BY <2>1, <2>2, <2>3
    <2>5. QED BY <2>1, <2>4
  <1>2. CASE Collect \/ (\E out \in BOOLEAN : Reload(out))
    <2>1. cache' = Nothing /\ server' = server
      BY <1>2 DEF Collect, Reload
    <2>2. QED BY <2>1, SentIsTyped
  <1>3. CASE ServerWrite \/ ActServed
    <2>1. /\ cache' = cache
          /\ \/ server' = server
             \/ \E rows \in BOOLEAN : server' = [ver |-> server.ver + 1, rows |-> rows]
      BY <1>3 DEF ServerWrite, ActServed
    <2>2. QED BY <2>1
  <1>4. CASE ~(\/ Success \/ Collect \/ (\E out \in BOOLEAN : Reload(out))
               \/ ServerWrite \/ ActServed)
    <2>1. cache' = cache /\ server' = server
      <3>1. CASE \E p \in Visited : Goto(p) \/ Login(p)
        BY <3>1 DEF Goto, Login, Mount
      <3>2. CASE Deliver \/ ActDone
        BY <3>2 DEF Deliver, ActDone, Invalidate
      <3>3. CASE \/ Expire \/ Hide \/ Age \/ Poll \/ Answer \/ AnswerError \/ AnswerLogin
                 \/ Failure \/ Retry \/ StreamConnect \/ StreamBreak \/ ServiceDown
                 \/ ServiceUp \/ (\E a \in Acts(page) : ActSend(a)) \/ ActRefused
                 \/ UNCHANGED vars
        BY <3>3 DEF Expire, Hide, Age, Poll, Answer, AnswerError, AnswerLogin, Failure, Retry,
                    StreamConnect, StreamBreak, ServiceDown, ServiceUp, ActSend, ActRefused, vars
      <3>4. QED BY <1>4, <3>1, <3>2, <3>3 DEF QNext
    <2>2. QED BY <2>1
  <1>5. QED BY <1>1, <1>2, <1>3, <1>4

\* The cache implements the read-through view: a step of the app is a step of
\* ReadThrough or leaves it as it is.
THEOREM ViewIsReadThrough == QSpec => ReadsThrough
  <1>1. QInit => Abstract!RTInit
    BY SentIsTyped DEF QInit, Abstract!RTInit
  <1>2. QInv /\ [QNext]_vars => [Abstract!RTNext]_<<server.ver, cache.ver>>
    BY ViewStep
  <1>3. QED BY QueryInvariant, <1>1, <1>2, PTL DEF QSpec, ReadsThrough, Abstract!RTSpec
=============================================================================
