---------------------------- MODULE DeleteDialog ----------------------------
(***************************************************************************)
(* Deleting a title from the admin app: the dialog with its confirmation   *)
(* and its episode picker (delete-dialog.tsx), and the handler it calls    *)
(* (delete_item of api/items.py), which works through Sonarr or Radarr one *)
(* await at a time while downloads go on being imported.                   *)
(*                                                                         *)
(* The dialog can be dismissed, reopened and left while its request runs.  *)
(* A file can hold several episodes.  Encodes, bundles and staging belong  *)
(* to EncodeJobs; a movie is a title of one episode without a picker.      *)
(***************************************************************************)
EXTENDS Integers, FiniteSets, Sequences

CONSTANTS
  Episodes,     \* the episodes of the title
  SeasonOf,     \* the season of each
  MaxFile,      \* bound on the files that are imported
  MaxRequests,  \* bound on the requests that are sent
  MaxMoves,     \* bound on what the operator does in the dialog
  MaxFaults     \* bound on the errors of Sonarr, Radarr and the network

ASSUME DialogAssumption ==
  /\ DOMAIN SeasonOf = Episodes
  /\ MaxFile \in Nat \ {0} /\ MaxRequests \in Nat /\ MaxMoves \in Nat /\ MaxFaults \in Nat

VARIABLES
  kind,       \* "series" or "movie"
  dialog,     \* the state hooks of the component
  listing,    \* the episodes the picker shows with a file
  waiting,    \* history: requests of this mount without an answer
  requests,   \* the requests, running or over, in the order they were sent
  file,       \* the file of each episode in Sonarr or Radarr, 0 for none
  imported,   \* files imported so far
  inArr,      \* Sonarr or Radarr have the title
  torrent,    \* a download is under way
  row,        \* the orchestrator has the item
  chosen,     \* history: boxes ticked by an operator who saw a file there
  confirmed,  \* history: the title typed since the dialog was dismissed
  moves, faults

clientVars == <<dialog, listing, waiting, chosen, confirmed>>
arrVars    == <<file, imported, inArr, torrent>>
vars == <<kind, clientVars, requests, arrVars, row, moves, faults>>

NoListing == [known |-> FALSE, filed |-> {}]
Listed(filed) == [known |-> TRUE, filed |-> filed]
Filed == {e \in Episodes : file[e] # 0}
Season(n) == {e \in Episodes : SeasonOf[e] = n}
Seasons == {SeasonOf[e] : e \in Episodes}

Closed == [open |-> FALSE, mode |-> "full", deleteFiles |-> TRUE, purge |-> TRUE,
           unmonitor |-> TRUE, typed |-> FALSE, selected |-> {}, expanded |-> {},
           pending |-> FALSE]

DInit ==
  /\ kind \in {"series", "movie"}
  /\ dialog = Closed /\ listing = NoListing /\ waiting = {} /\ requests = <<>>
  /\ file \in [Episodes -> {0, 1}] /\ imported = 1
  /\ inArr = TRUE /\ torrent = FALSE /\ row = TRUE
  /\ chosen = {} /\ confirmed = FALSE /\ moves = 0 /\ faults = 0

-----------------------------------------------------------------------------
(* The dialog *)

Move == moves < MaxMoves /\ moves' = moves + 1
Fault == faults < MaxFaults /\ faults' = faults + 1
Keep == UNCHANGED <<kind, requests, arrVars, row, faults, waiting>>

Open ==
  /\ ~dialog.open
  /\ dialog' = [dialog EXCEPT !.open = TRUE]
  /\ Keep /\ UNCHANGED <<listing, chosen, confirmed, moves>>

\* Mutant of Dismissed: what was typed is kept for the next opening.
DismissedKeepsText ==
  [dialog EXCEPT !.open = FALSE, !.selected = {}, !.mode = "full"]
\* Mutant of Dismissed: the dialog starts afresh, its buttons too.
DismissedAfresh ==
  [dialog EXCEPT !.open = FALSE, !.typed = FALSE, !.selected = {}, !.mode = "full",
                 !.pending = FALSE]
\* Escape, the cross or a click outside close the dialog and reset part of it.
Dismissed ==
  [dialog EXCEPT !.open = FALSE, !.typed = FALSE, !.selected = {}, !.mode = "full"]

\* It may happen while a request runs.
Dismiss ==
  /\ Move /\ dialog.open
  /\ dialog' = Dismissed
  /\ chosen' = {} /\ confirmed' = FALSE
  /\ Keep /\ UNCHANGED listing

\* The Cancel button closes without a reset, never while a request runs.
Cancel ==
  /\ Move /\ dialog.open /\ ~dialog.pending
  /\ dialog' = [dialog EXCEPT !.open = FALSE]
  /\ Keep /\ UNCHANGED <<listing, chosen, confirmed>>

\* The operator leaves the page and comes back: state and answer are lost,
\* the listing stays in the query cache.
Remount ==
  /\ Move
  /\ dialog' = Closed /\ waiting' = {} /\ chosen' = {} /\ confirmed' = FALSE
  /\ UNCHANGED <<kind, listing, requests, arrVars, row, faults>>

PickMode(m) ==
  /\ Move /\ dialog.open /\ kind = "series" /\ dialog.mode # m
  /\ dialog' = [dialog EXCEPT !.mode = m]
  /\ Keep /\ UNCHANGED <<listing, chosen, confirmed>>

\* The three switches; a switch is shown in its own mode only.
Switch ==
  /\ Move /\ dialog.open
  /\ dialog' \in IF dialog.mode = "full"
       THEN {[dialog EXCEPT !.deleteFiles = ~@], [dialog EXCEPT !.purge = ~@]}
       ELSE {[dialog EXCEPT !.unmonitor = ~@]}
  /\ Keep /\ UNCHANGED <<listing, chosen, confirmed>>

NeedsTyping == dialog.mode = "full" /\ dialog.deleteFiles

\* The text becomes the title, or something else.
Type ==
  /\ Move /\ dialog.open /\ NeedsTyping
  /\ dialog' = [dialog EXCEPT !.typed = ~@]
  /\ confirmed' = ~dialog.typed
  /\ Keep /\ UNCHANGED <<listing, chosen>>

Picking == dialog.open /\ kind = "series" /\ dialog.mode = "partial"

\* The picker's query: a first load, a load after a minute, or a failure.
List ==
  /\ Picking /\ inArr
  /\ listing' = Listed(Filed) /\ listing' # listing
  /\ Keep /\ UNCHANGED <<dialog, chosen, confirmed, moves>>

Toggled(s, es) == IF es \subseteq s THEN s \ es ELSE s \cup es

ExpandSeason(n) ==
  /\ Move /\ Picking /\ listing.known
  /\ dialog' = [dialog EXCEPT !.expanded = Toggled(@, {n})]
  /\ Keep /\ UNCHANGED <<listing, chosen, confirmed>>

\* The box of an episode without a file is disabled.
ToggleEpisode(e) ==
  /\ Move /\ Picking /\ SeasonOf[e] \in dialog.expanded /\ e \in listing.filed
  /\ dialog' = [dialog EXCEPT !.selected = Toggled(@, {e})]
  /\ chosen' = Toggled(chosen, {e})
  /\ Keep /\ UNCHANGED <<listing, confirmed>>

\* Mutant of InSeason: the box of a season takes its missing episodes too.
InSeasonAll(n) == Season(n)
InSeason(n) == Season(n) \cap listing.filed

\* The box of a season takes or drops its episodes with a file.
ToggleSeason(n) ==
  /\ Move /\ Picking /\ Season(n) \cap listing.filed # {}
  /\ dialog' = [dialog EXCEPT !.selected = Toggled(@, InSeason(n))]
  /\ chosen' = Toggled(chosen, Season(n) \cap listing.filed)
  /\ Keep /\ UNCHANGED <<listing, confirmed>>

CanSubmit ==
  /\ NeedsTyping => dialog.typed
  /\ dialog.mode = "partial" => dialog.selected # {}

Payload ==
  IF dialog.mode = "full"
    THEN [files |-> dialog.deleteFiles, purge |-> dialog.purge, ids |-> {}, unmonitor |-> FALSE]
    ELSE [files |-> TRUE, purge |-> FALSE, ids |-> dialog.selected,
          unmonitor |-> dialog.unmonitor]

\* "asked", "meant" and "sure" are history: the button that was pressed, the
\* episodes the operator had ticked, the title he had typed.
Submit ==
  /\ Move /\ dialog.open /\ CanSubmit /\ ~dialog.pending
  /\ Len(requests) < MaxRequests
  /\ dialog' = [dialog EXCEPT !.pending = TRUE]
  /\ requests' = Append(requests,
       [at |-> "sent", payload |-> Payload, todo |-> {},
        asked |-> dialog.mode, meant |-> chosen, sure |-> confirmed])
  /\ waiting' = waiting \cup {Len(requests')}
  /\ UNCHANGED <<kind, listing, chosen, confirmed, arrVars, row, faults>>

-----------------------------------------------------------------------------
(* delete_item; a step is what happens between two awaits                  *)

Req(i) == requests[i]
Live(i, at) == i \in 1..Len(requests) /\ Req(i).at = at
Goes(i, at, todo) == requests' = [requests EXCEPT ![i].at = at, ![i].todo = todo]
KeepClient == UNCHANGED <<kind, clientVars, moves>>

\* is_partial: an empty list of episodes means the whole series.
Partial(i) == kind = "series" /\ Req(i).payload.ids # {}

\* 404 without the item.
Begin(i) ==
  /\ Live(i, "sent")
  /\ Goes(i, IF ~row THEN "failed" ELSE IF Partial(i) THEN "listing" ELSE "purging", {})
  /\ KeepClient /\ UNCHANGED <<arrVars, row, faults>>

\* The queue of the title, with the files in the torrent client; an error is
\* not caught.  A movie's files are handled apart from Radarr's record.
Purge(i) ==
  /\ Live(i, "purging")
  /\ \/ /\ torrent' = (torrent /\ ~Req(i).payload.purge)
        /\ Goes(i, IF kind = "movie" /\ Req(i).payload.files THEN "listing" ELSE "removing", {})
        /\ UNCHANGED faults
     \/ /\ Req(i).payload.purge /\ Fault
        /\ Goes(i, "failed", {})
        /\ UNCHANGED torrent
  /\ KeepClient /\ UNCHANGED <<file, imported, inArr, row>>

\* Mutant of Targets: the season of a chosen episode is targeted.
TargetsBySeason(i) ==
  IF kind = "movie" THEN Episodes
  ELSE {e \in Episodes : \E c \in Req(i).payload.ids : SeasonOf[c] = SeasonOf[e]}
Targets(i) == IF kind = "movie" THEN Episodes ELSE Req(i).payload.ids

\* The files are read anew: list_episodes, whose error is not caught, or
\* get_movie, whose error is.
ReadFiles(i) ==
  /\ Live(i, "listing")
  /\ \/ /\ inArr /\ Goes(i, "deleting", {file[e] : e \in Targets(i)} \ {0})
        /\ UNCHANGED faults
     \/ /\ ~inArr /\ Goes(i, "deleting", {}) /\ UNCHANGED faults
     \/ /\ Fault /\ Goes(i, IF kind = "movie" THEN "deleting" ELSE "failed", {})
  /\ KeepClient /\ UNCHANGED <<arrVars, row>>

\* A file goes with all its episodes; an error is noted and passed over.
DropFile(i, f) ==
  /\ Live(i, "deleting") /\ f \in Req(i).todo
  /\ Goes(i, "deleting", Req(i).todo \ {f})
  /\ \/ /\ file' = [e \in Episodes |-> IF file[e] = f /\ inArr THEN 0 ELSE file[e]]
        /\ UNCHANGED faults
     \/ Fault /\ UNCHANGED file
  /\ KeepClient /\ UNCHANGED <<imported, inArr, torrent, row>>

\* unmonitor_episodes comes after the files; its error is not caught.
Unmonitor(i) ==
  /\ Live(i, "deleting") /\ Req(i).todo = {}
  /\ IF kind = "movie" THEN Goes(i, "removing", {}) /\ UNCHANGED faults
     ELSE \/ Goes(i, "closing", {}) /\ UNCHANGED faults
          \/ Req(i).payload.unmonitor /\ Fault /\ Goes(i, "failed", {})
  /\ KeepClient /\ UNCHANGED <<arrVars, row>>

\* delete_series with the files, or delete_movie without; an error is noted
\* and passed over.
Remove(i) ==
  /\ Live(i, "removing") /\ Goes(i, "closing", {})
  /\ \/ /\ inArr /\ inArr' = FALSE
        /\ file' = IF kind = "series" /\ Req(i).payload.files
                     THEN [e \in Episodes |-> 0] ELSE file
        /\ UNCHANGED faults
     \/ ~inArr /\ UNCHANGED <<inArr, file, faults>>
     \/ Fault /\ UNCHANGED <<inArr, file>>
  /\ KeepClient /\ UNCHANGED <<imported, torrent, row>>

\* The history entry, the item and the commit; both need the item's row.
Close(i) ==
  /\ Live(i, "closing")
  /\ Goes(i, IF row THEN "ok" ELSE "failed", {})
  /\ row' = (row /\ Partial(i))
  /\ KeepClient /\ UNCHANGED <<arrVars, faults>>

-----------------------------------------------------------------------------
(* The answer, and the world outside *)

\* Mutant of Settled: only the success path clears the flag.
SettledOnSuccess(ok) ==
  IF ok THEN [dialog EXCEPT !.pending = FALSE, !.open = FALSE] ELSE dialog
\* finally: setPending(false); a success closes the dialog.
Settled(ok) ==
  [dialog EXCEPT !.pending = FALSE, !.open = @ /\ ~ok]

\* After a full delete the router leaves the page.
Answered(i) ==
  /\ i \in waiting /\ Req(i).at \in {"ok", "failed"}
  /\ waiting' = waiting \ {i}
  /\ IF Req(i).at = "ok" /\ ~Partial(i)
       THEN dialog' = Closed /\ chosen' = {} /\ confirmed' = FALSE
       ELSE dialog' = Settled(Req(i).at = "ok") /\ UNCHANGED <<chosen, confirmed>>
  /\ UNCHANGED <<kind, listing, requests, arrVars, row, moves, faults>>

\* The connection breaks; the handler goes on.
AnswerLost(i) ==
  /\ i \in waiting /\ Fault
  /\ waiting' = waiting \ {i} /\ dialog' = Settled(FALSE)
  /\ UNCHANGED <<kind, listing, chosen, confirmed, requests, arrVars, row, moves>>

\* Sonarr or Radarr import a file for some episodes of a season; the files
\* these had are replaced, and go.
Import(es) ==
  /\ inArr /\ torrent /\ imported < MaxFile
  /\ es # {} /\ \E n \in Seasons : es \subseteq Season(n)
  /\ imported' = imported + 1 /\ torrent' = FALSE
  /\ file' = [e \in Episodes |-> IF e \in es THEN imported'
                                 ELSE IF \E r \in es : file[r] = file[e] THEN 0 ELSE file[e]]
  /\ KeepClient /\ UNCHANGED <<requests, inArr, row, faults>>

Grab ==
  /\ inArr /\ ~torrent /\ imported < MaxFile /\ torrent' = TRUE
  /\ KeepClient /\ UNCHANGED <<requests, file, imported, inArr, row, faults>>

-----------------------------------------------------------------------------
Operator ==
  \/ Open \/ Dismiss \/ Cancel \/ Remount \/ Switch \/ Type \/ Submit
  \/ \E m \in {"full", "partial"} : PickMode(m)
  \/ \E n \in Seasons : ExpandSeason(n) \/ ToggleSeason(n)
  \/ \E e \in Episodes : ToggleEpisode(e)

Handler(i) ==
  \/ Begin(i) \/ Purge(i) \/ ReadFiles(i) \/ Unmonitor(i) \/ Remove(i) \/ Close(i)
  \/ \E f \in 1..MaxFile : DropFile(i, f)

DNext ==
  \/ Operator \/ List \/ Grab
  \/ \E i \in 1..MaxRequests : Handler(i) \/ Answered(i) \/ AnswerLost(i)
  \/ \E es \in SUBSET Episodes : Import(es)

DSpec == DInit /\ [][DNext]_vars

\* The handler runs to its end and its answer arrives, or the connection
\* breaks.
DFairness ==
  \A i \in 1..MaxRequests :
    WF_vars(Handler(i)) /\ WF_vars(Answered(i) \/ AnswerLost(i))
DFairSpec == DSpec /\ DFairness

-----------------------------------------------------------------------------
Stages == {"sent", "purging", "listing", "deleting", "removing", "closing", "ok", "failed"}
Dialogs ==
  [open : BOOLEAN, mode : {"full", "partial"}, deleteFiles : BOOLEAN, purge : BOOLEAN,
   unmonitor : BOOLEAN, typed : BOOLEAN, selected : SUBSET Episodes,
   expanded : SUBSET Seasons, pending : BOOLEAN]

\* Types, and the shape of the payload: the two modes never mix.
DTypeOK ==
  /\ kind \in {"series", "movie"} /\ dialog \in Dialogs
  /\ listing \in [known : BOOLEAN, filed : SUBSET Episodes]
  /\ \A i \in 1..Len(requests) :
       /\ Req(i).at \in Stages /\ Req(i).todo \subseteq 1..MaxFile
       /\ Req(i).asked = "full" => Req(i).payload.ids = {}
       /\ Req(i).asked = "partial" => ~Req(i).payload.purge /\ Req(i).payload.files
  /\ file \in [Episodes -> 0..MaxFile] /\ imported \in 1..MaxFile
  /\ inArr \in BOOLEAN /\ torrent \in BOOLEAN /\ row \in BOOLEAN
  /\ chosen \subseteq Episodes /\ confirmed \in BOOLEAN /\ waiting \subseteq 1..MaxRequests
  /\ moves \in 0..MaxMoves /\ faults \in 0..MaxFaults

\* A dialog has one request out at most, however often it is dismissed and
\* opened again meanwhile: the buttons stay disabled until the answer.
OneRequestAtATime ==
  Cardinality(waiting) <= 1 /\ (waiting # {} => dialog.pending)

\* A title goes from Sonarr or Radarr only by a request of the button "Delete
\* title", and with its files only if the title was typed since the dialog was
\* last dismissed.  It takes dialog and handler together: an empty selection
\* would mean the whole series to the handler.
TitleGoneWasTyped ==
  [][inArr /\ ~inArr' =>
       \E i \in 1..Len(requests) :
         /\ Req(i).at = "removing" /\ Req(i).asked = "full"
         /\ Req(i).payload.files => Req(i).sure]_vars

\* A file goes by a full delete that was confirmed, or because an episode it
\* holds was ticked when the picker showed it with a file.  Episodes that got
\* a file only after the choice are safe, whatever the handler reads later.
\* (An import may replace a file on its own.)
OnlyChosenFilesGo ==
  [][\A e \in Episodes : file[e] # 0 /\ file'[e] = 0 /\ imported' = imported =>
       \E i \in 1..Len(requests) :
         /\ Req(i).at \in {"deleting", "removing"}
         /\ IF Req(i).asked = "full" THEN Req(i).sure
            ELSE \E c \in Req(i).meant : file[c] = file[e]]_vars

\* The buttons come back: after the answer, an error or a broken connection.
DeleteEnds == dialog.pending ~> ~dialog.pending
=============================================================================
