---------------------------- MODULE ConsoleViews ----------------------------
(***************************************************************************)
(* What the pages of the admin app ask of React Query: which queries each  *)
(* component reads, whether it polls them, what it shows until they are    *)
(* answered, which events it refreshes on, and what its buttons change and *)
(* then invalidate.  QueryCache runs one query of this table at a time.    *)
(***************************************************************************)
EXTENDS Naturals, Sequences

-----------------------------------------------------------------------------
(* Query keys.  Ids, filters and search terms that end a key are left out. *)

Overview        == <<"retention", "overview">>
Proposals       == <<"retention", "proposals">>
RetentionConfig == <<"retention", "settings">>
Lifecycle       == <<"retention", "lifecycle">>
BlockedSummary  == <<"pipeline", "blocked", "summary">>
Blocked         == <<"pipeline", "blocked">>
Available       == <<"pipeline", "available">>
Deleted         == <<"pipeline", "deleted">>
Stages          == <<"pipeline", "overview">>
Items           == <<"items", "ALL">>
SeriesItems     == <<"items", "series">>
Processing      == <<"items", "processing">>
ItemLookup      == <<"items", "recent-additions-lookup">>
RecentItems     == <<"dashboard-recent-items">>
Movies          == <<"radarr", "movies">>
Movie           == <<"radarr", "movie">>
AllSeries       == <<"sonarr", "series">>
OneSeries       == <<"sonarr", "series", "id">>
Episodes        == <<"sonarr", "episodes">>
Downloads       == <<"arrs", "queue">>
Requests        == <<"seerr", "requests">>
Counts          == <<"seerr", "count">>
MediaInfo       == <<"seerr", "movie">>
System          == <<"metrics", "system">>
Containers      == <<"metrics", "containers">>
Health          == <<"services", "health">>
Formats         == <<"cf">>
LogSources      == <<"logs", "containers">>
Settings        == <<"settings">>

Keys == {Overview, Proposals, RetentionConfig, Lifecycle, BlockedSummary,
         Blocked, Available, Deleted, Stages, Items, SeriesItems, Processing,
         ItemLookup, RecentItems, Movies, Movie, AllSeries, OneSeries, Episodes,
         Downloads, Requests, Counts, MediaInfo, System, Containers, Health,
         Formats, LogSources, Settings}

\* A filter of invalidateQueries matches every key it is a prefix of.
Covers(prefix, k) ==
  Len(prefix) <= Len(k) /\ \A i \in DOMAIN prefix : k[i] = prefix[i]

\* The fetchers of these keys turn an HTTP error into an empty answer.
Lenient == {BlockedSummary, Blocked, Available, Deleted}

\* Only items are announced on the event bus; no code publishes "retention.*".
Announced(k) == k[1] = "items" \/ k = RecentItems

-----------------------------------------------------------------------------
(* A component: the queries it reads, the prefixes it invalidates on an    *)
(* item event, whether it opens the event stream, and its mutations.       *)
(* "until" is what the component shows of a query without data:            *)
(*   "blank"     nothing at all;                                           *)
(*   "skeleton"  a placeholder, whether the query is loading or has failed;*)
(*   "loading"   a placeholder while loading, the empty list after that;   *)
(*   "empty"     the empty list from the start.                            *)

Read(k, poll, until) == [key |-> k, poll |-> poll, until |-> until]
Component(reads, acts) ==
  [reads |-> reads, acts |-> acts, listens |-> FALSE, hears |-> {}]
Listening(c, hears) == [c EXCEPT !.listens = TRUE, !.hears = hears]

\* "checks": an HTTP error makes the mutation fail.
Act(changes, invalidates) ==
  [changes |-> changes, invalidates |-> invalidates, checks |-> TRUE]

DiskPressureBanner == Component({Read(Overview, TRUE, "blank")}, {})
RetentionWidget    == Component({Read(Overview, TRUE, "blank")}, {})
BlockedBanner      == Component({Read(BlockedSummary, TRUE, "blank")}, {})
AvailableList      == Component({Read(Available, TRUE, "loading")}, {})
BlockedList        == Component({Read(Blocked, TRUE, "loading")}, {})
DeletedList        == Component({Read(Deleted, TRUE, "loading")}, {})
PipelineOverview   == Component({Read(Stages, TRUE, "skeleton")}, {})
LifecycleStrip     == Component({Read(Lifecycle, TRUE, "skeleton")}, {})
MetricsCards       == Component({Read(System, TRUE, "skeleton")}, {})
ContainersTable    == Component({Read(Containers, TRUE, "skeleton")}, {})
ServicesHealth     == Component({Read(Health, TRUE, "empty")}, {})
LogViewer          == Component({Read(LogSources, TRUE, "skeleton")}, {})
SettingsForm       == Component({Read(Settings, FALSE, "blank")}, {})

ActiveDownloadsCard == Component({Read(Downloads, TRUE, "loading")}, {})
PendingRequestsCard ==
  Component({Read(Requests, TRUE, "loading"), Read(MediaInfo, FALSE, "blank")}, {})
HeroStats ==
  Component({Read(Movies, FALSE, "loading"), Read(AllSeries, FALSE, "loading"),
             Read(Downloads, TRUE, "loading"), Read(Requests, TRUE, "loading")}, {})
RecentAdditions ==
  Component({Read(Movies, FALSE, "loading"), Read(AllSeries, FALSE, "loading"),
             Read(ItemLookup, FALSE, "blank")}, {})
EventFeed ==
  Listening(Component({Read(RecentItems, FALSE, "empty")}, {}), {})

RequestsList ==
  Component({Read(Requests, TRUE, "loading"), Read(Counts, TRUE, "blank")}, {})
RequestCard ==
  Component({Read(MediaInfo, FALSE, "blank")},
            {Act({Requests, Counts}, {<<"seerr">>})})
\* removeQueueItem does not look at the status of the answer.
QueueTable ==
  Component({Read(Downloads, TRUE, "loading")},
            {[Act({Downloads}, {<<"arrs", "queue">>}) EXCEPT !.checks = FALSE]})
ProcessingList ==
  Listening(Component({Read(Processing, TRUE, "loading"),
                       Read(Movies, FALSE, "blank"), Read(AllSeries, FALSE, "blank")}, {}),
            {<<"items", "processing">>})
ItemsTable ==
  Listening(Component({Read(Items, FALSE, "loading"),
                       Read(Movies, FALSE, "blank"), Read(AllSeries, FALSE, "blank")}, {}),
            {<<"items">>})
ProposalsTable ==
  Component({Read(Proposals, TRUE, "empty")},
            {Act({Proposals, Overview}, {<<"retention">>})})
RetentionForm ==
  Component({Read(RetentionConfig, FALSE, "skeleton")},
            {Act({RetentionConfig}, {<<"retention">>})})
CFEditor ==
  Component({Read(Formats, FALSE, "blank")}, {Act({Formats}, {<<"cf">>})})

\* The dialog refreshes the route, which is rendered from no query.
DeleteDialog ==
  Component({Read(Episodes, FALSE, "loading")}, {Act({Episodes, SeriesItems}, {})})
SeriesActions == Component({}, {Act({SeriesItems}, {<<"items">>})})
SeriesDetail ==
  Component({Read(OneSeries, FALSE, "loading"), Read(Episodes, FALSE, "loading"),
             Read(SeriesItems, FALSE, "loading")}, {})
ItemDetail == Component({Read(Movie, FALSE, "blank")}, {})

-----------------------------------------------------------------------------
(* The pages.  Every page under /pipeline but none else repeats the banner.*)

PipelinePages ==
  [stages |-> {PipelineOverview, EventFeed}, request |-> {RequestsList, RequestCard},
   acquire |-> {QueueTable}, process |-> {ProcessingList}, available |-> {AvailableList},
   blocked |-> {BlockedList}, deleted |-> {DeletedList},
   retain |-> {DiskPressureBanner, ProposalsTable}]

OtherPages ==
  [dashboard |-> {BlockedBanner, HeroStats, RecentAdditions, ActiveDownloadsCard,
                  PendingRequestsCard, RetentionWidget, EventFeed},
   library |-> {ItemsTable}, series |-> {SeriesDetail, SeriesActions, DeleteDialog},
   item |-> {ItemDetail, LifecycleStrip, DeleteDialog},
   server |-> {MetricsCards, ContainersTable}, services |-> {ServicesHealth},
   settings |-> {SettingsForm}, retention |-> {RetentionForm},
   formats |-> {CFEditor}, logs |-> {LogViewer}, login |-> {}]

PageNames == DOMAIN PipelinePages \cup DOMAIN OtherPages
Components(p) ==
  IF p \in DOMAIN PipelinePages THEN PipelinePages[p] \cup {BlockedBanner}
                                ELSE OtherPages[p]

Readers(p, k) == {r \in UNION {c.reads : c \in Components(p)} : r.key = k}
Polled(p, k)  == \E r \in Readers(p, k) : r.poll
Listens(p)    == \E c \in Components(p) : c.listens
Hears(p)      == UNION {c.hears : c \in Components(p)}
Acts(p)       == UNION {c.acts : c \in Components(p)}
=============================================================================
