--------------------------- MODULE DeleteDialogProofs ---------------------------
(***************************************************************************)
(* What holds of the deletion of a title for any number of episodes, files,*)
(* requests, moves of the operator and faults.                             *)
(***************************************************************************)
EXTENDS DeleteDialog, FiniteSetTheorems, TLAPS

USE DEF clientVars, arrVars

Payloads == [files : BOOLEAN, purge : BOOLEAN, ids : SUBSET Episodes, unmonitor : BOOLEAN]
Reqs == [at : Stages, payload : Payloads, todo : SUBSET (1..MaxFile),
         asked : {"full", "partial"}, meant : SUBSET Episodes, sure : BOOLEAN]

\* What the dialog holds is what the operator saw and typed.
DialogInv ==
  /\ kind \in {"series", "movie"} /\ dialog \in Dialogs
  /\ listing \in [known : BOOLEAN, filed : SUBSET Episodes]
  /\ chosen \in SUBSET Episodes /\ confirmed \in BOOLEAN
  /\ dialog.mode = "partial" => kind = "series"
  /\ dialog.selected = chosen /\ dialog.typed = confirmed
  /\ moves \in 0..MaxMoves /\ faults \in 0..MaxFaults

ArrInv ==
  /\ file \in [Episodes -> 0..imported] /\ imported \in 1..MaxFile
  /\ inArr \in BOOLEAN /\ torrent \in BOOLEAN /\ row \in BOOLEAN

\* Every file still to delete is one of a chosen episode, or nobody's.
Covered(todo, meant, files) ==
  \A e \in Episodes : files[e] \in todo => \E c \in meant : files[c] = files[e]

\* A request asks for what its button says, and goes the way of its kind.
GoodReq(r, files, last) ==
  /\ r \in Reqs
  /\ r.asked = "full" => r.payload.ids = {} /\ (r.payload.files => r.sure)
  /\ r.asked = "partial" =>
       /\ kind = "series" /\ r.payload.ids # {} /\ r.payload.ids \subseteq r.meant
       /\ r.payload.files /\ ~r.payload.purge
  /\ r.at \in {"purging", "removing"} => r.asked = "full"
  /\ r.at \in {"listing", "deleting"} =>
       r.asked = "partial" \/ (kind = "movie" /\ r.payload.files)
  /\ r.at = "deleting" =>
       r.todo \subseteq 1..last /\ (r.asked = "partial" => Covered(r.todo, r.meant, files))

ReqInv ==
  /\ requests \in Seq(Reqs) /\ Len(requests) <= MaxRequests
  /\ \A i \in 1..Len(requests) : GoodReq(requests[i], file, imported)

\* At most one request is waited for, with the buttons disabled.
WaitInv ==
  /\ waiting \subseteq 1..Len(requests)
  /\ \/ waiting = {}
     \/ dialog.pending /\ \E i \in waiting : waiting = {i}

DInv == DialogInv /\ ArrInv /\ ReqInv /\ WaitInv

-----------------------------------------------------------------------------
LEMMA DialogLimits ==
  /\ MaxFile \in Nat /\ MaxFile > 0 /\ MaxRequests \in Nat
  /\ MaxMoves \in Nat /\ MaxFaults \in Nat
  BY DialogAssumption

LEMMA ClosedIsTyped == Closed \in Dialogs
  BY DEF Closed, Dialogs

LEMMA DialogInit == DInit => DInv
  <1> SUFFICES ASSUME DInit  PROVE DInv
    OBVIOUS
  <1>1. DialogInv
    <2>1. listing \in [known : BOOLEAN, filed : SUBSET Episodes]
      BY DEF DInit, NoListing
    <2>2. 0 \in 0..MaxMoves /\ 0 \in 0..MaxFaults  BY DialogLimits
    <2>3. dialog \in Dialogs /\ dialog.mode = "full" /\ dialog.selected = {} /\ dialog.typed = FALSE
      BY ClosedIsTyped DEF DInit, Closed
    <2>4. QED BY <2>1, <2>2, <2>3 DEF DInit, DialogInv
  <1>2. ArrInv
    <2>1. file \in [Episodes -> 0..1] /\ imported = 1
      BY DEF DInit
    <2>2. imported \in 1..MaxFile /\ file \in [Episodes -> 0..imported]
      BY <2>1, DialogLimits
    <2>3. inArr = TRUE /\ torrent = FALSE /\ row = TRUE  BY DEF DInit
    <2>4. QED BY <2>2, <2>3 DEF ArrInv
  <1>3. ReqInv  BY DialogLimits DEF DInit, ReqInv
  <1>4. WaitInv  BY DEF DInit, WaitInv
  <1>5. QED BY <1>1, <1>2, <1>3, <1>4 DEF DInv

-----------------------------------------------------------------------------
(* Requests.                                                               *)

\* The files of a request that still waits to delete stay whole, or go.
LEMMA GoodStays ==
  ASSUME NEW r, NEW files, NEW last \in Nat, NEW files2, NEW last2 \in Nat,
         GoodReq(r, files, last), last <= last2,
         \A e \in Episodes : files2[e] \in 1..last =>
           /\ files2[e] = files[e]
           /\ \A c \in Episodes : files[c] = files[e] => files2[c] = files[c]
  PROVE  GoodReq(r, files2, last2)
  <1>1. r.at = "deleting" => r.todo \subseteq 1..last2
    BY DEF GoodReq
  <1>2. r.meant \subseteq Episodes  BY DEF GoodReq, Reqs
  <1>3. r.at = "deleting" /\ r.asked = "partial" => Covered(r.todo, r.meant, files2)
    <2> SUFFICES ASSUME r.at = "deleting", r.asked = "partial",
                        NEW e \in Episodes, files2[e] \in r.todo
                 PROVE  \E c \in r.meant : files2[c] = files2[e]
      BY DEF Covered
    <2>1. files2[e] \in 1..last  BY DEF GoodReq
    <2>2. files2[e] = files[e]  BY <2>1
    <2>3. PICK c \in r.meant : files[c] = files[e]
      BY <2>2 DEF GoodReq, Covered
    <2>4. files2[c] = files[c]  BY <1>2, <2>1, <2>3
    <2>5. QED BY <2>2, <2>3, <2>4
  <1>4. QED BY <1>1, <1>3 DEF GoodReq

\* A request that goes on keeps what it asks for.
LEMMA GoesOn ==
  ASSUME ReqInv, NEW i \in 1..Len(requests), NEW at \in Stages,
         NEW todo \in SUBSET (1..MaxFile), Goes(i, at, todo)
  PROVE  /\ requests' \in Seq(Reqs) /\ Len(requests') = Len(requests)
         /\ requests'[i].at = at /\ requests'[i].todo = todo
         /\ requests'[i].payload = requests[i].payload
         /\ requests'[i].asked = requests[i].asked
         /\ requests'[i].meant = requests[i].meant
         /\ requests'[i].sure = requests[i].sure
         /\ \A j \in 1..Len(requests) : j # i => requests'[j] = requests[j]
  <1> DEFINE r == requests[i]
             p == [at |-> at, payload |-> r.payload, todo |-> todo, asked |-> r.asked,
                   meant |-> r.meant, sure |-> r.sure]
  <1>1. requests \in Seq(Reqs) /\ r \in Reqs  BY DEF ReqInv
  <1>2. r = [at |-> r.at, payload |-> r.payload, todo |-> r.todo, asked |-> r.asked,
             meant |-> r.meant, sure |-> r.sure]
    BY <1>1 DEF Reqs
  <1>3. p \in Reqs  BY <1>1 DEF Reqs
  <1>4. requests' = [requests EXCEPT ![i] = p]
    <2> DEFINE one == [requests EXCEPT ![i] = [r EXCEPT !.at = at]]
    <2>1. requests' = [one EXCEPT ![i] = [one[i] EXCEPT !.todo = todo]]
      BY DEF Goes
    <2>2. one[i] = [r EXCEPT !.at = at]  BY <1>1
    <2>3. [one[i] EXCEPT !.todo = todo] = p  BY <1>2, <2>2
    <2>4. requests' = [one EXCEPT ![i] = p]  BY <2>1, <2>3
    <2>5. QED BY <1>1, <2>4
  <1>5. requests' \in Seq(Reqs) /\ Len(requests') = Len(requests) /\ requests'[i] = p
        /\ \A j \in 1..Len(requests) : j # i => requests'[j] = requests[j]
    BY <1>1, <1>3, <1>4
  <1>6. QED BY <1>5

\* A step of the handler: one request goes on, files stay whole or go.
LEMMA HandlerKeeps ==
  ASSUME DInv, NEW i \in 1..Len(requests), NEW at \in Stages,
         NEW todo \in SUBSET (1..MaxFile), Goes(i, at, todo), KeepClient,
         ArrInv', imported' = imported, faults' \in 0..MaxFaults,
         at \in {"purging", "removing"} => requests[i].asked = "full",
         at \in {"listing", "deleting"} =>
           requests[i].asked = "partial" \/ (kind = "movie" /\ requests[i].payload.files),
         at = "deleting" =>
           /\ todo \subseteq 1..imported
           /\ requests[i].asked = "partial" => Covered(todo, requests[i].meant, file'),
         \A e \in Episodes : file'[e] \in 1..imported =>
           /\ file'[e] = file[e]
           /\ \A c \in Episodes : file[c] = file[e] => file'[c] = file[c]
  PROVE  DInv'
  <1>1. /\ requests' \in Seq(Reqs) /\ Len(requests') = Len(requests)
        /\ requests'[i].at = at /\ requests'[i].todo = todo
        /\ requests'[i].payload = requests[i].payload
        /\ requests'[i].asked = requests[i].asked
        /\ requests'[i].meant = requests[i].meant
        /\ requests'[i].sure = requests[i].sure
        /\ \A j \in 1..Len(requests) : j # i => requests'[j] = requests[j]
    BY GoesOn DEF DInv
  <1>2. kind' = kind /\ UNCHANGED <<clientVars, moves>>  BY DEF KeepClient
  <1>3. imported \in Nat  BY DialogLimits DEF DInv, ArrInv
  <1>4. ASSUME NEW j \in 1..Len(requests)  PROVE GoodReq(requests'[j], file', imported')
    <2>1. GoodReq(requests[j], file, imported)  BY DEF DInv, ReqInv
    <2>2. CASE j # i
      <3>1. requests'[j] = requests[j] /\ imported' = imported  BY <1>1, <2>2
      <3>2. GoodReq(requests[j], file', imported)
        BY <1>3, <2>1, GoodStays
      <3>3. QED BY <3>1, <3>2
    <2>3. CASE j = i
      <3>1. requests'[i] \in Reqs  BY <1>1
      <3>2. QED BY <1>1, <2>1, <2>3, <3>1 DEF GoodReq
    <2>4. QED BY <2>2, <2>3
  <1>5. ReqInv'
    BY <1>1, <1>2, <1>4 DEF ReqInv, DInv, GoodReq
  <1>6. DialogInv'  BY <1>2 DEF DInv, DialogInv
  <1>7. WaitInv'  BY <1>1, <1>2 DEF DInv, WaitInv
  <1>8. QED BY <1>5, <1>6, <1>7 DEF DInv

\* A step that leaves requests and files alone.
LEMMA RequestsStay ==
  ASSUME DInv, UNCHANGED <<kind, requests, arrVars, row>>
  PROVE  ArrInv' /\ ReqInv'
  BY DEF DInv, ArrInv, ReqInv, GoodReq

-----------------------------------------------------------------------------
(* The dialog.                                                             *)

LEMMA DialogSteps ==
  ASSUME DInv,
         \/ Open \/ Dismiss \/ Cancel \/ Switch \/ Type \/ List
         \/ (\E m \in {"full", "partial"} : PickMode(m))
         \/ (\E n \in Seasons : ExpandSeason(n) \/ ToggleSeason(n))
         \/ \E e \in Episodes : ToggleEpisode(e)
  PROVE  DInv'
  <1> USE DEF DInv
  <1>1. Keep /\ UNCHANGED <<kind, requests, arrVars, row, faults, waiting>>
    BY DEF Open, Dismiss, Cancel, Switch, Type, List, PickMode, ExpandSeason, ToggleSeason,
           ToggleEpisode, Keep
  <1>2. ArrInv' /\ ReqInv'  BY <1>1, RequestsStay
  <1>3. moves' \in 0..MaxMoves
    <2>1. Move \/ moves' = moves
      BY DEF Open, Dismiss, Cancel, Switch, Type, List, PickMode, ExpandSeason, ToggleSeason,
             ToggleEpisode
    <2>2. QED BY <2>1, DialogLimits DEF Move, DialogInv
  <1>4. dialog \in Dialogs  BY DEF DialogInv
  <1>5. DialogInv' /\ dialog'.pending = dialog.pending
    <2>1. CASE Open
      BY <1>1, <1>3, <1>4, <2>1 DEF Open, DialogInv, Dialogs
    <2>2. CASE Dismiss
      <3>1. /\ dialog' = [dialog EXCEPT !.open = FALSE, !.typed = FALSE, !.selected = {},
                                        !.mode = "full"]
            /\ chosen' = {} /\ confirmed' = FALSE /\ listing' = listing
        BY <2>2 DEF Dismiss, Dismissed
      <3>2. /\ dialog' \in Dialogs /\ dialog'.pending = dialog.pending
            /\ dialog'.selected = {} /\ dialog'.typed = FALSE /\ dialog'.mode = "full"
        BY <1>4, <3>1 DEF Dialogs
      <3>3. QED BY <1>1, <1>3, <3>1, <3>2 DEF DialogInv
    <2>3. CASE Cancel
      BY <1>1, <1>3, <1>4, <2>3 DEF Cancel, DialogInv, Dialogs
    <2>4. CASE Switch
      <3>1. /\ UNCHANGED <<listing, chosen, confirmed>>
            /\ \/ dialog' = [dialog EXCEPT !.deleteFiles = ~@]
               \/ dialog' = [dialog EXCEPT !.purge = ~@]
               \/ dialog' = [dialog EXCEPT !.unmonitor = ~@]
        BY <2>4 DEF Switch
      <3>2. /\ dialog' \in Dialogs /\ dialog'.pending = dialog.pending
            /\ dialog'.selected = dialog.selected /\ dialog'.typed = dialog.typed
            /\ dialog'.mode = dialog.mode
        BY <1>4, <3>1 DEF Dialogs
      <3>3. QED BY <1>1, <1>3, <3>1, <3>2 DEF DialogInv
    <2>5. CASE Type
      <3>1. /\ dialog' = [dialog EXCEPT !.typed = ~@] /\ confirmed' = ~dialog.typed
            /\ UNCHANGED <<listing, chosen>>
        BY <2>5 DEF Type
      <3>2. /\ dialog' \in Dialogs /\ dialog'.pending = dialog.pending
            /\ dialog'.selected = dialog.selected /\ dialog'.typed = ~dialog.typed
            /\ dialog'.mode = dialog.mode /\ dialog.typed \in BOOLEAN
        BY <1>4, <3>1 DEF Dialogs
      <3>3. QED BY <1>1, <1>3, <3>1, <3>2 DEF DialogInv
    <2>6. CASE List
      <3>1. listing' = Listed(Filed) /\ UNCHANGED <<dialog, chosen, confirmed>>
        BY <2>6 DEF List
      <3>2. listing' \in [known : BOOLEAN, filed : SUBSET Episodes]
        BY <3>1 DEF Listed, Filed
      <3>3. QED BY <1>1, <1>3, <3>1, <3>2 DEF DialogInv
    <2>7. CASE \E m \in {"full", "partial"} : PickMode(m)
      <3>1. PICK m \in {"full", "partial"} :
              /\ dialog' = [dialog EXCEPT !.mode = m] /\ kind = "series"
              /\ UNCHANGED <<listing, chosen, confirmed>>
        BY <2>7 DEF PickMode
      <3>2. /\ dialog' \in Dialogs /\ dialog'.pending = dialog.pending
            /\ dialog'.selected = dialog.selected /\ dialog'.typed = dialog.typed
        BY <1>4, <3>1 DEF Dialogs
      <3>3. QED BY <1>1, <1>3, <3>1, <3>2 DEF DialogInv
    <2>8. CASE \E n \in Seasons : ExpandSeason(n)
      <3>1. PICK n \in Seasons :
              /\ dialog' = [dialog EXCEPT !.expanded = Toggled(@, {n})]
              /\ UNCHANGED <<listing, chosen, confirmed>>
        BY <2>8 DEF ExpandSeason
      <3>2. Toggled(dialog.expanded, {n}) \in SUBSET Seasons
        BY <1>4 DEF Dialogs, Toggled
      <3>3. /\ dialog' \in Dialogs /\ dialog'.pending = dialog.pending
            /\ dialog'.selected = dialog.selected /\ dialog'.typed = dialog.typed
            /\ dialog'.mode = dialog.mode
        BY <1>4, <3>1, <3>2 DEF Dialogs
      <3>4. QED BY <1>1, <1>3, <3>1, <3>3 DEF DialogInv
    <2>9. CASE \/ \E n \in Seasons : ToggleSeason(n)
               \/ \E e \in Episodes : ToggleEpisode(e)
      <3>1. PICK es \in SUBSET Episodes :
              /\ dialog' = [dialog EXCEPT !.selected = Toggled(@, es)]
              /\ chosen' = Toggled(chosen, es) /\ UNCHANGED <<listing, confirmed>>
        <4>1. CASE \E n \in Seasons : ToggleSeason(n)
          <5>1. PICK n \in Seasons : ToggleSeason(n)  BY <4>1
          <5>2. InSeason(n) \in SUBSET Episodes  BY DEF InSeason, Season
          <5>3. QED BY <5>1, <5>2 DEF ToggleSeason, InSeason
        <4>2. CASE \E e \in Episodes : ToggleEpisode(e)
          <5>1. PICK e \in Episodes : ToggleEpisode(e)  BY <4>2
          <5>2. QED BY <5>1 DEF ToggleEpisode
        <4>3. QED BY <2>9, <4>1, <4>2
      <3>2. Toggled(chosen, es) \in SUBSET Episodes /\ dialog.selected = chosen
        BY DEF DialogInv, Toggled
      <3>3. /\ dialog' \in Dialogs /\ dialog'.pending = dialog.pending
            /\ dialog'.selected = Toggled(chosen, es) /\ dialog'.typed = dialog.typed
            /\ dialog'.mode = dialog.mode
        BY <1>4, <3>1, <3>2 DEF Dialogs
      <3>4. QED BY <1>1, <1>3, <3>1, <3>2, <3>3 DEF DialogInv
    <2>10. QED BY <2>1, <2>2, <2>3, <2>4, <2>5, <2>6, <2>7, <2>8, <2>9
  <1>6. WaitInv'  BY <1>1, <1>5 DEF WaitInv
  <1>7. QED BY <1>2, <1>5, <1>6

LEMMA RemountStep == ASSUME DInv, Remount  PROVE DInv'
  <1>1. ArrInv' /\ ReqInv'  BY RequestsStay DEF Remount
  <1>2. /\ dialog' = Closed /\ waiting' = {} /\ chosen' = {} /\ confirmed' = FALSE
        /\ UNCHANGED <<kind, listing, faults>> /\ moves' \in 0..MaxMoves
    BY DialogLimits DEF Remount, Move, DInv, DialogInv
  <1>3. DialogInv'
    BY <1>2, ClosedIsTyped DEF DInv, DialogInv, Closed
  <1>4. WaitInv'  BY <1>2 DEF WaitInv
  <1>5. QED BY <1>1, <1>3, <1>4 DEF DInv

\* What is sent is what was typed and ticked.
LEMMA SubmitStep == ASSUME DInv, Submit  PROVE DInv'
  <1> DEFINE r == [at |-> "sent", payload |-> Payload, todo |-> {},
                   asked |-> dialog.mode, meant |-> chosen, sure |-> confirmed]
  <1>1. /\ dialog \in Dialogs /\ dialog.selected = chosen /\ dialog.typed = confirmed
        /\ dialog.mode = "partial" => kind = "series"
        /\ CanSubmit /\ ~dialog.pending /\ chosen \in SUBSET Episodes
    BY DEF DInv, DialogInv, Submit
  <1>2. Payload \in Payloads
    BY <1>1 DEF Payload, Payloads, Dialogs
  <1>3. r \in Reqs
    BY <1>1, <1>2 DEF Reqs, Stages, Dialogs, DInv, DialogInv
  <1>4. dialog.mode = "full" => Payload.ids = {} /\ (Payload.files => confirmed)
    BY <1>1 DEF Payload, CanSubmit, NeedsTyping
  <1>5. dialog.mode = "partial" =>
          /\ kind = "series" /\ Payload.ids # {} /\ Payload.ids \subseteq chosen
          /\ Payload.files /\ ~Payload.purge
    BY <1>1 DEF Payload, CanSubmit
  <1>6. GoodReq(r, file, imported)
    BY <1>3, <1>4, <1>5 DEF GoodReq
  <1>7. /\ requests' = Append(requests, r) /\ dialog' = [dialog EXCEPT !.pending = TRUE]
        /\ waiting' = waiting \cup {Len(requests')} /\ Len(requests) < MaxRequests
        /\ UNCHANGED <<kind, listing, chosen, confirmed, arrVars, row, faults>> /\ Move
    BY DEF Submit
  <1> HIDE DEF r
  <1>8. /\ requests \in Seq(Reqs) /\ requests' \in Seq(Reqs)
        /\ Len(requests') = Len(requests) + 1 /\ requests'[Len(requests')] = r
        /\ \A i \in 1..Len(requests) : requests'[i] = requests[i]
    BY <1>3, <1>7 DEF DInv, ReqInv
  <1>9. ReqInv'
    <2>1. ASSUME NEW i \in 1..Len(requests')  PROVE GoodReq(requests'[i], file', imported')
      <3>1. i \in 1..Len(requests) \/ i = Len(requests')  BY <1>8
      <3>2. QED BY <1>6, <1>7, <1>8, <3>1 DEF DInv, ReqInv
    <2>2. Len(requests') <= MaxRequests  BY <1>7, <1>8, DialogLimits
    <2>3. QED BY <1>7, <1>8, <2>1, <2>2 DEF ReqInv, GoodReq
  <1>10. DialogInv' /\ dialog'.pending
    <2>1. /\ dialog' \in Dialogs /\ dialog'.pending /\ dialog'.selected = dialog.selected
          /\ dialog'.typed = dialog.typed /\ dialog'.mode = dialog.mode
      BY <1>1, <1>7 DEF Dialogs
    <2>2. moves' \in 0..MaxMoves  BY <1>7, DialogLimits DEF Move, DInv, DialogInv
    <2>3. QED BY <1>7, <2>1, <2>2 DEF DInv, DialogInv
  <1>11. WaitInv'
    <2>1. waiting = {}  BY <1>1 DEF DInv, WaitInv
    <2>2. waiting' = {Len(requests')} /\ Len(requests') \in 1..Len(requests')
      BY <1>7, <1>8, <2>1
    <2>3. QED BY <1>10, <2>2 DEF WaitInv
  <1>12. ArrInv'  BY <1>7 DEF DInv, ArrInv
  <1>13. QED BY <1>9, <1>10, <1>11, <1>12 DEF DInv

-----------------------------------------------------------------------------
(* The handler.                                                            *)

LEMMA FaultBound == DInv /\ (Fault \/ faults' = faults) => faults' \in 0..MaxFaults
  BY DialogLimits DEF DInv, DialogInv, Fault

LEMMA LiveIsGood ==
  ASSUME DInv, NEW i, NEW at, Live(i, at)
  PROVE  /\ i \in 1..Len(requests) /\ requests[i].at = at
         /\ GoodReq(requests[i], file, imported) /\ requests[i] \in Reqs
         /\ requests[i].asked \in {"full", "partial"}
         /\ requests[i].meant \subseteq Episodes
         /\ requests[i].payload.ids \subseteq Episodes
  <1>1. i \in 1..Len(requests) /\ requests[i].at = at  BY DEF Live, Req
  <1>2. GoodReq(requests[i], file, imported) /\ requests[i] \in Reqs
    BY <1>1 DEF DInv, ReqInv, GoodReq
  <1>3. QED BY <1>1, <1>2 DEF Reqs, Payloads

\* A step that deletes nothing.
LEMMA FilesStay ==
  ASSUME DInv, UNCHANGED <<file, imported, row>>, inArr' \in BOOLEAN, torrent' \in BOOLEAN
  PROVE  /\ ArrInv'
         /\ \A e \in Episodes : file'[e] \in 1..imported =>
              /\ file'[e] = file[e]
              /\ \A c \in Episodes : file[c] = file[e] => file'[c] = file[c]
  BY DEF DInv, ArrInv

LEMMA BeginStep == ASSUME DInv, NEW i, Begin(i)  PROVE DInv'
  <1>1. /\ i \in 1..Len(requests) /\ GoodReq(requests[i], file, imported)
        /\ requests[i].asked \in {"full", "partial"}
    BY LiveIsGood DEF Begin
  <1>2. PICK at \in Stages :
          /\ at = IF ~row THEN "failed" ELSE IF Partial(i) THEN "listing" ELSE "purging"
          /\ Goes(i, at, {})
    BY DEF Begin, Stages
  <1>3. at = "purging" => requests[i].asked = "full"
    BY <1>1, <1>2 DEF Partial, Req, GoodReq
  <1>4. at = "listing" => requests[i].asked = "partial"
    BY <1>1, <1>2 DEF Partial, Req, GoodReq
  <1>5. at \notin {"removing", "deleting"}  BY <1>2
  <1>6. /\ KeepClient /\ UNCHANGED <<arrVars, row, faults>> /\ inArr' \in BOOLEAN
        /\ torrent' \in BOOLEAN /\ faults' \in 0..MaxFaults
    BY DEF Begin, DInv, ArrInv, DialogInv
  <1>7. {} \in SUBSET (1..MaxFile)  OBVIOUS
  <1>8. QED BY <1>1, <1>2, <1>3, <1>4, <1>5, <1>6, <1>7, FilesStay, HandlerKeeps

LEMMA PurgeStep == ASSUME DInv, NEW i, Purge(i)  PROVE DInv'
  <1>1. /\ i \in 1..Len(requests) /\ GoodReq(requests[i], file, imported)
        /\ requests[i].at = "purging"
    BY LiveIsGood DEF Purge
  <1>2. requests[i].asked = "full"  BY <1>1 DEF GoodReq
  <1>3. PICK at \in {"listing", "removing", "failed"} :
          /\ Goes(i, at, {})
          /\ at = "listing" => kind = "movie" /\ requests[i].payload.files
    BY DEF Purge, Req
  <1>4. at \in Stages /\ at # "deleting"  BY <1>3 DEF Stages
  <1>5. /\ KeepClient /\ UNCHANGED <<file, imported, inArr, row>> /\ inArr' \in BOOLEAN
        /\ torrent' \in BOOLEAN
    BY DEF Purge, DInv, ArrInv
  <1>6. faults' \in 0..MaxFaults  BY FaultBound DEF Purge
  <1>7. {} \in SUBSET (1..MaxFile)  OBVIOUS
  <1>8. QED BY <1>1, <1>2, <1>3, <1>4, <1>5, <1>6, <1>7, FilesStay, HandlerKeeps

LEMMA ReadFilesStep == ASSUME DInv, NEW i, ReadFiles(i)  PROVE DInv'
  <1>1. /\ i \in 1..Len(requests) /\ GoodReq(requests[i], file, imported)
        /\ requests[i].at = "listing" /\ requests[i].payload.ids \subseteq Episodes
        /\ requests[i].meant \subseteq Episodes
    BY LiveIsGood DEF ReadFiles
  <1>2. requests[i].asked = "partial" \/ (kind = "movie" /\ requests[i].payload.files)
    BY <1>1 DEF GoodReq
  <1> DEFINE found == {file[e] : e \in Targets(i)} \ {0}
  <1>3. found \subseteq 1..imported
    <2>1. Targets(i) \subseteq Episodes  BY <1>1 DEF Targets, Req
    <2>2. \A e \in Episodes : file[e] \in 0..imported  BY DEF DInv, ArrInv
    <2>3. imported \in Nat  BY DialogLimits DEF DInv, ArrInv
    <2>4. QED BY <2>1, <2>2, <2>3
  <1>4. requests[i].asked = "partial" => Covered(found, requests[i].meant, file)
    <2> SUFFICES ASSUME requests[i].asked = "partial", NEW e \in Episodes, file[e] \in found
                 PROVE  \E c \in requests[i].meant : file[c] = file[e]
      BY DEF Covered
    <2>1. Targets(i) \subseteq requests[i].meant
      BY <1>1 DEF GoodReq, Targets, Req
    <2>2. QED BY <2>1
  <1> HIDE DEF found
  <1>5. /\ KeepClient /\ UNCHANGED <<arrVars, row>> /\ inArr' \in BOOLEAN
        /\ torrent' \in BOOLEAN
    BY DEF ReadFiles, DInv, ArrInv
  <1>6. faults' \in 0..MaxFaults  BY FaultBound DEF ReadFiles
  <1>7. found \in SUBSET (1..MaxFile) /\ {} \in SUBSET (1..MaxFile)
    BY <1>3, DialogLimits DEF DInv, ArrInv
  <1>8. CASE Goes(i, "deleting", found)
    BY <1>1, <1>2, <1>3, <1>4, <1>5, <1>6, <1>7, <1>8, FilesStay, HandlerKeeps DEF Stages
  <1>9. CASE Goes(i, "deleting", {})
    <2>1. Covered({}, requests[i].meant, file')  BY DEF Covered
    <2>2. QED BY <1>1, <1>2, <1>5, <1>6, <1>7, <1>9, <2>1, FilesStay, HandlerKeeps DEF Stages
  <1>10. CASE Goes(i, "failed", {})
    BY <1>1, <1>5, <1>6, <1>7, <1>10, FilesStay, HandlerKeeps DEF Stages
  <1>11. QED BY <1>8, <1>9, <1>10 DEF ReadFiles, found

\* One file goes: the files that others still have to delete stay whole.
LEMMA DropFileStep ==
  ASSUME DInv, NEW i, NEW f \in 1..MaxFile, DropFile(i, f)  PROVE DInv'
  <1>1. /\ i \in 1..Len(requests) /\ GoodReq(requests[i], file, imported)
        /\ requests[i].at = "deleting" /\ requests[i].meant \subseteq Episodes
        /\ requests[i] \in Reqs
    BY LiveIsGood DEF DropFile
  <1> DEFINE rest == requests[i].todo \ {f}
  <1>2. /\ Goes(i, "deleting", rest) /\ rest \in SUBSET (1..MaxFile) /\ rest \subseteq 1..imported
        /\ requests[i].asked = "partial" \/ (kind = "movie" /\ requests[i].payload.files)
    BY <1>1 DEF DropFile, Req, GoodReq, Reqs
  <1>3. /\ KeepClient /\ UNCHANGED <<imported, inArr, torrent, row>>
        /\ faults' \in 0..MaxFaults
    BY FaultBound DEF DropFile
  <1>4. imported \in Nat /\ file \in [Episodes -> 0..imported]
    BY DialogLimits DEF DInv, ArrInv
  <1>5. file' = file \/ file' = [e \in Episodes |-> IF file[e] = f THEN 0 ELSE file[e]]
    <2>1. CASE file' = [e \in Episodes |-> IF file[e] = f /\ inArr THEN 0 ELSE file[e]]
      <3>1. CASE inArr
        BY <2>1, <3>1
      <3>2. CASE ~inArr
        <4>1. file' = [e \in Episodes |-> file[e]]  BY <2>1, <3>2
        <4>2. QED BY <1>4, <4>1
      <3>3. QED BY <3>1, <3>2
    <2>2. QED BY <2>1 DEF DropFile
  <1>6. ArrInv'
    <2>1. file' \in [Episodes -> 0..imported]  BY <1>4, <1>5
    <2>2. QED BY <1>3, <2>1 DEF DInv, ArrInv
  <1>7. \A e \in Episodes : file'[e] \in 1..imported =>
          /\ file'[e] = file[e]
          /\ \A c \in Episodes : file[c] = file[e] => file'[c] = file[c]
    BY <1>4, <1>5
  <1>8. requests[i].asked = "partial" => Covered(rest, requests[i].meant, file')
    <2> SUFFICES ASSUME requests[i].asked = "partial", NEW e \in Episodes, file'[e] \in rest
                 PROVE  \E c \in requests[i].meant : file'[c] = file'[e]
      BY DEF Covered
    <2>1. file'[e] \in 1..imported  BY <1>2
    <2>2. /\ file'[e] = file[e]
          /\ \A c \in Episodes : file[c] = file[e] => file'[c] = file[c]
      BY <1>7, <2>1
    <2>3. PICK c \in requests[i].meant : file[c] = file[e]
      BY <1>1, <2>2 DEF GoodReq, Covered
    <2>4. QED BY <1>1, <2>2, <2>3
  <1> HIDE DEF rest
  <1>9. "deleting" \in Stages  BY DEF Stages
  <1>10. QED BY <1>1, <1>2, <1>3, <1>6, <1>7, <1>8, <1>9, HandlerKeeps

LEMMA UnmonitorStep == ASSUME DInv, NEW i, Unmonitor(i)  PROVE DInv'
  <1>1. /\ i \in 1..Len(requests) /\ GoodReq(requests[i], file, imported)
        /\ requests[i].at = "deleting" /\ requests[i].asked \in {"full", "partial"}
    BY LiveIsGood DEF Unmonitor
  <1>2. kind = "movie" => requests[i].asked = "full"
    BY <1>1 DEF GoodReq
  <1>3. PICK at \in {"removing", "closing", "failed"} :
          Goes(i, at, {}) /\ (at = "removing" => kind = "movie")
    BY DEF Unmonitor
  <1>4. at \in Stages  BY <1>3 DEF Stages
  <1>5. /\ KeepClient /\ UNCHANGED <<arrVars, row>> /\ inArr' \in BOOLEAN
        /\ torrent' \in BOOLEAN
    BY DEF Unmonitor, DInv, ArrInv
  <1>6. faults' \in 0..MaxFaults  BY FaultBound DEF Unmonitor
  <1>7. {} \in SUBSET (1..MaxFile)  OBVIOUS
  <1>8. QED BY <1>1, <1>2, <1>3, <1>4, <1>5, <1>6, <1>7, FilesStay, HandlerKeeps

LEMMA RemoveStep == ASSUME DInv, NEW i, Remove(i)  PROVE DInv'
  <1>1. i \in 1..Len(requests)  BY LiveIsGood DEF Remove
  <1>2. /\ Goes(i, "closing", {}) /\ KeepClient /\ UNCHANGED <<imported, torrent, row>>
        /\ faults' \in 0..MaxFaults
    BY FaultBound DEF Remove
  <1>3. (file' = file \/ file' = [e \in Episodes |-> 0]) /\ inArr' \in BOOLEAN
    BY DEF Remove, DInv, ArrInv
  <1>4. imported \in Nat /\ file \in [Episodes -> 0..imported]
    BY DialogLimits DEF DInv, ArrInv
  <1>5. ArrInv'
    <2>1. file' \in [Episodes -> 0..imported]  BY <1>3, <1>4
    <2>2. QED BY <1>2, <1>3, <2>1 DEF DInv, ArrInv
  <1>6. \A e \in Episodes : file'[e] \in 1..imported =>
          /\ file'[e] = file[e]
          /\ \A c \in Episodes : file[c] = file[e] => file'[c] = file[c]
    BY <1>3, <1>4
  <1>7. "closing" \in Stages /\ {} \in SUBSET (1..MaxFile)  BY DEF Stages
  <1>8. QED BY <1>1, <1>2, <1>5, <1>6, <1>7, HandlerKeeps

LEMMA CloseStep == ASSUME DInv, NEW i, Close(i)  PROVE DInv'
  <1>1. i \in 1..Len(requests)  BY LiveIsGood DEF Close
  <1>2. PICK at \in {"ok", "failed"} : Goes(i, at, {})
    BY DEF Close
  <1>3. at \in Stages  BY <1>2 DEF Stages
  <1>4. KeepClient /\ UNCHANGED <<arrVars, faults>> /\ row' \in BOOLEAN
    BY DEF Close, DInv, ArrInv
  <1>5. faults' \in 0..MaxFaults  BY <1>4, FaultBound
  <1>6. ArrInv'  BY <1>4 DEF DInv, ArrInv
  <1>7. \A e \in Episodes : file'[e] \in 1..imported =>
          /\ file'[e] = file[e]
          /\ \A c \in Episodes : file[c] = file[e] => file'[c] = file[c]
    BY <1>4
  <1>8. {} \in SUBSET (1..MaxFile) /\ imported' = imported  BY <1>4
  <1>9. QED BY <1>1, <1>2, <1>3, <1>4, <1>5, <1>6, <1>7, <1>8, HandlerKeeps

-----------------------------------------------------------------------------
(* Answers, and the world outside.                                         *)

LEMMA AnswerSteps ==
  ASSUME DInv, NEW i, Answered(i) \/ AnswerLost(i)  PROVE DInv'
  <1>1. /\ UNCHANGED <<kind, listing, requests, arrVars, row, moves>>
        /\ i \in waiting /\ waiting' = waiting \ {i} /\ faults' \in 0..MaxFaults
    BY FaultBound DEF Answered, AnswerLost
  <1>2. ArrInv' /\ ReqInv'  BY <1>1, RequestsStay
  <1>3. \/ dialog' = Closed /\ chosen' = {} /\ confirmed' = FALSE
        \/ /\ \E ok \in BOOLEAN : dialog' = Settled(ok)
           /\ UNCHANGED <<chosen, confirmed>>
    BY DEF Answered, AnswerLost
  <1>4. DialogInv'
    <2>1. CASE dialog' = Closed /\ chosen' = {} /\ confirmed' = FALSE
      BY <1>1, <2>1, ClosedIsTyped DEF DInv, DialogInv, Closed
    <2>2. CASE /\ \E ok \in BOOLEAN : dialog' = Settled(ok)
               /\ UNCHANGED <<chosen, confirmed>>
      <3>1. PICK ok \in BOOLEAN : dialog' = [dialog EXCEPT !.pending = FALSE, !.open = @ /\ ~ok]
        BY <2>2 DEF Settled
      <3>2. /\ dialog' \in Dialogs /\ dialog'.selected = dialog.selected
            /\ dialog'.typed = dialog.typed /\ dialog'.mode = dialog.mode
        BY <3>1 DEF DInv, DialogInv, Dialogs
      <3>3. QED BY <1>1, <2>2, <3>2 DEF DInv, DialogInv
    <2>3. QED BY <1>3, <2>1, <2>2
  <1>5. waiting' = {}
    BY <1>1 DEF DInv, WaitInv
  <1>6. WaitInv'  BY <1>1, <1>5 DEF WaitInv
  <1>7. QED BY <1>2, <1>4, <1>6 DEF DInv

\* A file that is imported has a number of its own; the files it replaces are
\* nobody's any more.
LEMMA ImportStep ==
  ASSUME DInv, NEW es \in SUBSET Episodes, Import(es)  PROVE DInv'
  <1>1. /\ KeepClient /\ UNCHANGED <<kind, dialog, listing, chosen, confirmed, moves, waiting,
                                     requests, inArr, row, faults>>
        /\ imported < MaxFile /\ imported' = imported + 1 /\ torrent' = FALSE
        /\ file' = [e \in Episodes |-> IF e \in es THEN imported'
                                        ELSE IF \E r \in es : file[r] = file[e] THEN 0 ELSE file[e]]
    BY DEF Import, KeepClient
  <1>2. imported \in Nat /\ imported > 0 /\ file \in [Episodes -> 0..imported]
    BY DialogLimits DEF DInv, ArrInv
  <1>3. ArrInv'
    <2>1. \A e \in Episodes : file'[e] \in 0..imported'
      BY <1>1, <1>2
    <2>2. file' \in [Episodes -> 0..imported']  BY <1>1, <2>1
    <2>3. imported' \in 1..MaxFile  BY <1>1, <1>2, DialogLimits
    <2>4. QED BY <1>1, <2>2, <2>3 DEF DInv, ArrInv
  <1>4. ASSUME NEW e \in Episodes, file'[e] \in 1..imported
        PROVE  /\ file'[e] = file[e]
               /\ \A c \in Episodes : file[c] = file[e] => file'[c] = file[c]
    <2>1. file'[e] # imported' /\ file'[e] # 0  BY <1>1, <1>2, <1>4
    <2>2. e \notin es /\ ~\E r \in es : file[r] = file[e]
      BY <1>1, <2>1
    <2>3. QED BY <1>1, <2>2
  <1>5. ReqInv'
    <2>1. ASSUME NEW j \in 1..Len(requests)  PROVE GoodReq(requests[j], file', imported')
      <3>1. GoodReq(requests[j], file, imported)  BY DEF DInv, ReqInv
      <3>2. imported' \in Nat /\ imported <= imported'  BY <1>1, <1>2
      <3>3. QED BY <1>2, <1>4, <3>1, <3>2, GoodStays
    <2>2. QED BY <1>1, <2>1 DEF DInv, ReqInv, GoodReq
  <1>6. DialogInv' /\ WaitInv'  BY <1>1 DEF DInv, DialogInv, WaitInv
  <1>7. QED BY <1>3, <1>5, <1>6 DEF DInv

LEMMA GrabStep == ASSUME DInv, Grab  PROVE DInv'
  <1>1. /\ UNCHANGED <<kind, clientVars, moves, requests, file, imported, inArr, row, faults>>
        /\ torrent' = TRUE
    BY DEF Grab, KeepClient
  <1>2. QED BY <1>1 DEF DInv, DialogInv, ArrInv, ReqInv, GoodReq, WaitInv

LEMMA DialogStep == DInv /\ [DNext]_vars => DInv'
  <1> SUFFICES ASSUME DInv, [DNext]_vars  PROVE DInv'
    OBVIOUS
  <1>1. CASE Operator
    <2>1. CASE Remount  BY <2>1, RemountStep
    <2>2. CASE Submit  BY <2>2, SubmitStep
    <2>3. QED BY <1>1, <2>1, <2>2, DialogSteps DEF Operator
  <1>2. CASE List \/ Grab
    BY <1>2, DialogSteps, GrabStep
  <1>3. CASE \E i \in 1..MaxRequests : Handler(i) \/ Answered(i) \/ AnswerLost(i)
    <2>1. PICK i \in 1..MaxRequests : Handler(i) \/ Answered(i) \/ AnswerLost(i)
      BY <1>3
    <2>2. CASE Handler(i)
      BY <2>2, BeginStep, PurgeStep, ReadFilesStep, DropFileStep, UnmonitorStep, RemoveStep,
         CloseStep DEF Handler
    <2>3. CASE Answered(i) \/ AnswerLost(i)
      BY <2>3, AnswerSteps
    <2>4. QED BY <2>1, <2>2, <2>3
  <1>4. CASE \E es \in SUBSET Episodes : Import(es)
    BY <1>4, ImportStep
  <1>5. CASE UNCHANGED vars
    BY <1>5 DEF vars, DInv, DialogInv, ArrInv, ReqInv, GoodReq, WaitInv
  <1>6. QED BY <1>1, <1>2, <1>3, <1>4, <1>5 DEF DNext

THEOREM DialogInvariant == DSpec => []DInv
  BY DialogInit, DialogStep, PTL DEF DSpec

-----------------------------------------------------------------------------
\* Types, and the shape of the payload: a full delete names no episodes, a
\* partial one purges nothing and keeps the title (delete-dialog.tsx:117-125).
THEOREM DialogTyped == DSpec => []DTypeOK
  <1>1. DInv => DTypeOK
    <2> SUFFICES ASSUME DInv  PROVE DTypeOK
      OBVIOUS
    <2>1. ASSUME NEW i \in 1..Len(requests)
          PROVE  /\ Req(i).at \in Stages /\ Req(i).todo \subseteq 1..MaxFile
                 /\ Req(i).asked = "full" => Req(i).payload.ids = {}
                 /\ Req(i).asked = "partial" => ~Req(i).payload.purge /\ Req(i).payload.files
      <3>1. GoodReq(requests[i], file, imported)  BY DEF DInv, ReqInv
      <3>2. QED BY <3>1 DEF GoodReq, Reqs, Req
    <2>2. file \in [Episodes -> 0..MaxFile]
      BY DialogLimits DEF DInv, ArrInv
    <2>3. waiting \subseteq 1..MaxRequests
      <3>1. Len(requests) \in Nat /\ Len(requests) <= MaxRequests /\ waiting \subseteq 1..Len(requests)
        BY DEF DInv, ReqInv, WaitInv
      <3>2. QED BY <3>1, DialogLimits
    <2>4. QED BY <2>1, <2>2, <2>3 DEF DTypeOK, DInv, DialogInv, ArrInv
  <1>2. QED BY <1>1, DialogInvariant, PTL

\* However often the dialog is dismissed and opened again, it has one request
\* out at most (delete-dialog.tsx:112-144, 366-373).
THEOREM OneRequest == DSpec => []OneRequestAtATime
  <1>1. DInv => OneRequestAtATime
    <2> SUFFICES ASSUME DInv  PROVE OneRequestAtATime
      OBVIOUS
    <2>1. CASE waiting = {}
      BY <2>1, FS_EmptySet DEF OneRequestAtATime
    <2>2. CASE dialog.pending /\ \E i \in waiting : waiting = {i}
      BY <2>2, FS_Singleton DEF OneRequestAtATime
    <2>3. QED BY <2>1, <2>2 DEF DInv, WaitInv
  <1>2. QED BY <1>1, DialogInvariant, PTL

\* A title goes only by "Delete title", and with its files only if the title
\* was typed: the dialog never sends what the handler would take for a full
\* delete by mistake (items.py, is_partial).
THEOREM TitleGoneTyped == DSpec => TitleGoneWasTyped
  <1>1. ASSUME DInv, [DNext]_vars, inArr, ~inArr'
        PROVE  \E i \in 1..Len(requests) :
                 /\ Req(i).at = "removing" /\ Req(i).asked = "full"
                 /\ Req(i).payload.files => Req(i).sure
    <2>1. PICK i : Remove(i)
      <3>1. inArr' # inArr  BY <1>1
      <3>2. QED BY <1>1, <3>1
              DEF DNext, vars, Operator, Handler, Open, Dismiss, Cancel, Remount, PickMode,
                  Switch, Type, Submit, ExpandSeason, ToggleSeason, ToggleEpisode, List, Keep,
                  Begin, Purge, ReadFiles, DropFile, Unmonitor, Close, Answered, AnswerLost,
                  Import, Grab
    <2>2. /\ i \in 1..Len(requests) /\ requests[i].at = "removing"
          /\ GoodReq(requests[i], file, imported)
      BY <1>1, <2>1, LiveIsGood DEF Remove
    <2>3. QED BY <2>2 DEF GoodReq, Req
  <1>2. QED BY <1>1, DialogInvariant, PTL DEF DSpec, TitleGoneWasTyped

\* The file of an episode goes by a full delete that was confirmed, or because
\* one of its episodes was ticked: whatever is imported while the handler works
\* through its list is safe.
THEOREM ChosenFilesGo == DSpec => OnlyChosenFilesGo
  <1>1. ASSUME DInv, [DNext]_vars, NEW e \in Episodes,
               file[e] # 0, file'[e] = 0, imported' = imported
        PROVE  \E i \in 1..Len(requests) :
                 /\ Req(i).at \in {"deleting", "removing"}
                 /\ IF Req(i).asked = "full" THEN Req(i).sure
                    ELSE \E c \in Req(i).meant : file[c] = file[e]
    <2>1. \E i : Remove(i) \/ \E f \in 1..MaxFile : DropFile(i, f)
      <3>1. file' # file  BY <1>1
      <3>2. ~\E es \in SUBSET Episodes : Import(es)
        BY <1>1, DialogLimits DEF Import, DInv, ArrInv
      <3>3. QED BY <1>1, <3>1, <3>2
              DEF DNext, vars, Operator, Handler, Open, Dismiss, Cancel, Remount, PickMode,
                  Switch, Type, Submit, ExpandSeason, ToggleSeason, ToggleEpisode, List, Keep,
                  Begin, Purge, ReadFiles, Unmonitor, Close, Answered, AnswerLost, Grab
    <2>2. CASE \E i : Remove(i)
      <3>1. PICK i : Remove(i)  BY <2>2
      <3>2. /\ i \in 1..Len(requests) /\ requests[i].at = "removing"
            /\ GoodReq(requests[i], file, imported)
        BY <1>1, <3>1, LiveIsGood DEF Remove
      <3>3. requests[i].payload.files
        BY <1>1, <3>1 DEF Remove, Req
      <3>4. QED BY <3>2, <3>3 DEF GoodReq, Req
    <2>3. CASE \E i : \E f \in 1..MaxFile : DropFile(i, f)
      <3>0. PICK i : \E f \in 1..MaxFile : DropFile(i, f)  BY <2>3
      <3>1. PICK f \in 1..MaxFile : DropFile(i, f)  BY <3>0
      <3>2. /\ i \in 1..Len(requests) /\ requests[i].at = "deleting"
            /\ GoodReq(requests[i], file, imported) /\ requests[i].asked \in {"full", "partial"}
        BY <1>1, <3>1, LiveIsGood DEF DropFile
      <3>3. f \in requests[i].todo /\ file[e] = f
        BY <1>1, <3>1 DEF DropFile, Req
      <3>4. CASE requests[i].asked = "full"
        BY <3>2, <3>4 DEF GoodReq, Req
      <3>5. CASE requests[i].asked = "partial"
        <4>1. Covered(requests[i].todo, requests[i].meant, file)
          BY <3>2, <3>5 DEF GoodReq
        <4>2. \E c \in requests[i].meant : file[c] = file[e]
          BY <3>3, <4>1 DEF Covered
        <4>3. QED BY <3>2, <3>5, <4>2 DEF Req
      <3>6. QED BY <3>2, <3>4, <3>5
    <2>4. QED BY <2>1, <2>2, <2>3
  <1>2. DInv /\ [DNext]_vars =>
          \A e \in Episodes : file[e] # 0 /\ file'[e] = 0 /\ imported' = imported =>
            \E i \in 1..Len(requests) :
              /\ Req(i).at \in {"deleting", "removing"}
              /\ IF Req(i).asked = "full" THEN Req(i).sure
                 ELSE \E c \in Req(i).meant : file[c] = file[e]
    BY <1>1
  <1>3. QED BY <1>2, DialogInvariant, PTL DEF DSpec, OnlyChosenFilesGo
=============================================================================
