---------------------------- MODULE SettingsForms ----------------------------
(***************************************************************************)
(* The settings table of the orchestrator with its writers and readers,    *)
(* and the two forms of the admin app that edit it: the settings form, one *)
(* state hook per field, and the retention form, a draft over the data.    *)
(*                                                                         *)
(* Four settings stand for all: the language list, which is the React key  *)
(* of the settings form, the pair of offset thresholds (0 for a pair in    *)
(* the wrong order), the retention switch and a time to live.  Values are  *)
(* 0 or 1; the table holds texts.                                          *)
(***************************************************************************)
EXTENDS Integers, Sequences

CONSTANTS
  MaxWrites,   \* bound on the writes before another writer comes in
  MaxPuts,     \* bound on the saves of this tab
  MaxFaults    \* bound on failed requests

ASSUME FormsAssumption == MaxWrites \in Nat /\ MaxPuts \in Nat /\ MaxFaults \in Nat

VARIABLES
  table,     \* setting -> its row
  meant,     \* history: setting -> the value last written
  version,   \* number of writes
  form,      \* the form that is followed in this tab
  shown,     \* it is on screen
  data,      \* its settings in the query cache
  fresh,     \* the cache is not invalidated
  get,       \* the fetch under way
  draft,     \* what the form on screen edits
  typed,     \* history: the fields the operator has edited since the mount
  status,    \* the mutation of the form on screen: its state and its save
  puts,      \* the saves of this tab, in the order they were sent
  faults

serverVars == <<table, meant, version>>
formVars   == <<shown, draft, typed, status>>
cacheVars  == <<data, fresh, get>>
vars == <<form, serverVars, formVars, cacheVars, puts, faults>>

Forms == {"settings", "retention"}
Fields(f) == IF f = "settings" THEN {"langs", "offsets"} ELSE {"enabled", "ttl"}
Settings == Fields("settings") \cup Fields("retention")
Nothing == <<>>
Quiet == [at |-> "idle", body |-> Nothing]
Rest == [at |-> "idle", put |-> 0]

\* What the forms, and the server for the thresholds, take as valid.
Valid(vals) ==
  /\ DOMAIN vals = Fields("settings") => vals["offsets"] = 1
  /\ DOMAIN vals = Fields("retention") => vals["ttl"] = 1

Filled(f) == [Fields(f) -> {0, 1}]

-----------------------------------------------------------------------------
(* The table: a text for each setting.  json.dumps writes JSON; str writes  *)
(* a Boolean or a name the way Python shows it, which is not JSON.          *)

Word(k, v, yes, no) ==
  IF k = "enabled" THEN IF v = 1 THEN yes ELSE no ELSE IF v = 1 THEN "1" ELSE "0"
Json(k, v) == Word(k, v, "true", "false")
Str(k, v) == Word(k, v, "True", "False")
Texts == {"true", "false", "True", "False", "1", "0"}

\* _get_all and _settings_dict read every row as JSON, or raise.
Readable == \A k \in Settings : table[k] \notin {"True", "False"}
ReadJson(k) == IF table[k] \in {"true", "1"} THEN 1 ELSE 0

\* Mutant of Coerce: a text that is not JSON counts as true.
CoerceTruthy(k) == IF table[k] \in {"false", "0"} THEN 0 ELSE 1
\* load_retention_settings takes JSON and bare words alike, in either case.
Coerce(k) == IF table[k] \in {"true", "True", "1"} THEN 1 ELSE 0

Snapshot(f) ==
  [ver |-> version,
   vals |-> [k \in Fields(f) |-> IF f = "retention" THEN Coerce(k) ELSE ReadJson(k)]]

Encode(f, k, v) == IF f = "settings" THEN Json(k, v) ELSE Str(k, v)
Write(f, vals) ==
  /\ version' = version + 1
  /\ table' = [k \in Settings |-> IF k \in DOMAIN vals THEN Encode(f, k, vals[k]) ELSE table[k]]
  /\ meant' = [k \in Settings |-> IF k \in DOMAIN vals THEN vals[k] ELSE meant[k]]

-----------------------------------------------------------------------------
\* seed_settings has filled the table before anything is served.
FInit ==
  /\ meant = [k \in Settings |-> 1]
  /\ table = [k \in Settings |-> Json(k, meant[k])]
  /\ version = 0 /\ form \in Forms /\ shown = FALSE
  /\ data = Nothing /\ fresh = FALSE /\ get = Quiet
  /\ draft = Nothing /\ typed = {} /\ status = Rest /\ puts = <<>> /\ faults = 0

Fault == faults < MaxFaults /\ faults' = faults + 1

HasData == data # Nothing
\* draft ?? data ?? null; the settings form has a draft from its mount on.
Shown == IF draft # Nothing THEN draft
         ELSE IF shown /\ HasData THEN data.vals ELSE Nothing

\* The settings form mounts with the first data and mounts anew when the
\* language list differs.
Remounts(d) ==
  /\ shown /\ form = "settings"
  /\ ~HasData \/ data.vals["langs"] # d.vals["langs"]

\* Mutant of Receive: an effect copies new data into the draft.
ReceiveSyncs(d) ==
  /\ data' = d
  /\ draft' = IF shown THEN d.vals ELSE draft
  /\ typed' = IF Remounts(d) THEN {} ELSE typed
\* New data; edits are kept but for a form that mounts anew.
Receive(d) ==
  /\ data' = d
  /\ draft' = IF Remounts(d) THEN d.vals ELSE draft
  /\ typed' = IF Remounts(d) THEN {} ELSE typed

-----------------------------------------------------------------------------
(* The page and its query *)

\* The form comes on screen; old or missing data are fetched.
Visit ==
  /\ ~shown /\ shown' = TRUE
  /\ \E old \in BOOLEAN :
       get' = IF get.at = "idle" /\ (old \/ ~fresh \/ ~HasData)
                THEN [Quiet EXCEPT !.at = "sent"] ELSE get
  /\ draft' = IF form = "settings" /\ HasData THEN data.vals ELSE Nothing
  /\ typed' = {} /\ status' = Rest
  /\ UNCHANGED <<form, serverVars, data, fresh, puts, faults>>

Leave ==
  /\ shown /\ shown' = FALSE
  /\ draft' = Nothing /\ typed' = {} /\ status' = Rest
  /\ UNCHANGED <<form, serverVars, cacheVars, puts, faults>>

\* The server answers; the settings route raises on a row that is not JSON.
GetServed ==
  /\ get.at = "sent"
  /\ get' = IF form = "settings" /\ ~Readable THEN [Quiet EXCEPT !.at = "failed"]
                                              ELSE [at |-> "ok", body |-> Snapshot(form)]
  /\ UNCHANGED <<form, serverVars, formVars, data, fresh, puts, faults>>

GetLost ==
  /\ get.at \in {"sent", "ok"} /\ Fault
  /\ get' = [Quiet EXCEPT !.at = "failed"]
  /\ UNCHANGED <<form, serverVars, formVars, data, fresh, puts>>

GetDone ==
  /\ get.at = "ok"
  /\ Receive(get.body)
  /\ status' = IF Remounts(get.body) THEN Rest ELSE status
  /\ get' = Quiet /\ fresh' = TRUE
  /\ UNCHANGED <<form, serverVars, shown, puts, faults>>

\* After its retry the query keeps what it has.
GetFailed ==
  /\ get.at = "failed" /\ get' = Quiet
  /\ UNCHANGED <<form, serverVars, formVars, data, fresh, puts, faults>>

-----------------------------------------------------------------------------
(* Editing and saving *)

\* One field of the settings form, a state hook of its own.
EditSettings(k, v) ==
  /\ form = "settings" /\ draft # Nothing
  /\ draft' = [draft EXCEPT ![k] = v]

\* One field of the retention form: what it shows is copied into the draft.
EditRetention(k, v) ==
  /\ form = "retention" /\ Shown # Nothing
  /\ draft' = [Shown EXCEPT ![k] = v]

Edit(k, v) ==
  /\ shown /\ k \in Fields(form)
  /\ EditSettings(k, v) \/ EditRetention(k, v)
  /\ typed' = typed \cup {k}
  /\ UNCHANGED <<form, serverVars, cacheVars, shown, status, puts, faults>>

\* Mutant of MaySave: the form is submitted whatever it holds.
MaySaveAnything == Shown # Nothing
\* offsetError and hasErrors keep the form from being submitted.
MaySave == Shown # Nothing /\ Valid(Shown)

\* All fields are sent, edited or not.
Save ==
  /\ shown /\ MaySave /\ status.at # "pending" /\ Len(puts) < MaxPuts
  /\ status' = [at |-> "pending", put |-> Len(puts) + 1]
  /\ puts' = Append(puts, [at |-> "sent", vals |-> Shown, body |-> Nothing])
  /\ UNCHANGED <<form, serverVars, cacheVars, shown, draft, typed, faults>>

Put(i, at) == i \in 1..Len(puts) /\ puts[i].at = at

\* The rows are committed, then all are read for the answer: the settings
\* route can fail after the commit.
PutServed(i) ==
  /\ Put(i, "sent")
  /\ UNCHANGED <<form, formVars, cacheVars, faults>>
  /\ Write(form, puts[i].vals)
  /\ puts' = [puts EXCEPT ![i] =
       [at |-> IF form = "settings" /\ ~Readable' THEN "failed" ELSE "ok",
        vals |-> Nothing, body |-> Snapshot(form)']]

PutLost(i) ==
  /\ Put(i, "sent") \/ Put(i, "ok")
  /\ Fault
  /\ puts' = [puts EXCEPT ![i].at = "failed", ![i].vals = Nothing]
  /\ UNCHANGED <<form, serverVars, formVars, cacheVars>>

\* Mutant of OnSuccess: the answer is not put to use, nothing is fetched.
OnSuccessForgets(i) == UNCHANGED <<cacheVars, draft, typed>>
\* setQueryData with the answer, or an invalidation that fetches anew.  It
\* happens even if the form has gone.
OnSuccess(i) ==
  IF form = "settings"
    THEN Receive(puts[i].body) /\ UNCHANGED <<get, fresh>>
    ELSE /\ get' = IF shown THEN [Quiet EXCEPT !.at = "sent"] ELSE get
         /\ fresh' = FALSE
         /\ UNCHANGED <<data, draft, typed>>

\* Mutant of Outcome: an error leaves the button as it is.
OutcomeOnSuccess(i, at) ==
  status' = IF status.put = i /\ at = "success" THEN [status EXCEPT !.at = at] ELSE status
\* The form that sent it may have gone, or have mounted anew.
Outcome(i, at) ==
  status' = IF status.put # i THEN status
            ELSE IF at = "success" /\ Remounts(puts[i].body) THEN Rest
            ELSE [status EXCEPT !.at = at]

PutDone(i) ==
  /\ Put(i, "ok")
  /\ OnSuccess(i) /\ Outcome(i, "success")
  /\ puts' = [puts EXCEPT ![i].at = "done"]
  /\ UNCHANGED <<form, serverVars, shown, faults>>

PutFailed(i) ==
  /\ Put(i, "failed")
  /\ Outcome(i, "error")
  /\ puts' = [puts EXCEPT ![i].at = "done"]
  /\ UNCHANGED <<form, serverVars, shown, draft, typed, cacheVars, faults>>

-----------------------------------------------------------------------------
(* Other writers *)

\* The same forms in another tab.
OtherTab(f) ==
  /\ version < MaxWrites
  /\ \E vals \in Filled(f) : Valid(vals) /\ Write(f, vals)
  /\ UNCHANGED <<form, formVars, cacheVars, puts, faults>>

\* The circuit breaker of the retention worker writes the text "false".
Breaker ==
  /\ version < MaxWrites /\ Coerce("enabled") = 1
  /\ Write("settings", [k \in {"enabled"} |-> 0])
  /\ UNCHANGED <<form, formVars, cacheVars, puts, faults>>

-----------------------------------------------------------------------------
FNext ==
  \/ Visit \/ Leave \/ GetServed \/ GetLost \/ GetDone \/ GetFailed \/ Save \/ Breaker
  \/ \E f \in Forms : OtherTab(f)
  \/ \E k \in Settings : \E v \in {0, 1} : Edit(k, v)
  \/ \E i \in 1..MaxPuts : PutServed(i) \/ PutLost(i) \/ PutDone(i) \/ PutFailed(i)

FSpec == FInit /\ [][FNext]_vars

\* Requests are answered or break off, and answers are handled.
FFairness ==
  /\ WF_vars(GetServed) /\ WF_vars(GetDone) /\ WF_vars(GetFailed)
  /\ \A i \in 1..MaxPuts :
       WF_vars(PutServed(i)) /\ WF_vars(PutDone(i)) /\ WF_vars(PutFailed(i))
FFairSpec == FSpec /\ FFairness

-----------------------------------------------------------------------------
FTypeOK ==
  /\ \A k \in Settings : table[k] \in Texts
  /\ version \in 0..(MaxWrites + MaxPuts) /\ form \in Forms /\ shown \in BOOLEAN
  /\ HasData => data.vals \in Filled(form) /\ data.ver <= version
  /\ get.at \in {"idle", "sent", "ok", "failed"} /\ fresh \in BOOLEAN
  /\ Shown # Nothing => shown /\ Shown \in Filled(form)
  /\ faults \in 0..MaxFaults

\* Whichever writer wrote a retention setting last, and in whatever text, the
\* retention engine and its form read the value that was meant.
RetentionReadsBack == \A k \in Fields("retention") : Coerce(k) = meant[k]

\* Saves and reloads of several tabs never bring the table to values the forms
\* refuse: the retention route checks nothing itself.
OnlyValidSaved ==
  \A f \in Forms : Valid([k \in Fields(f) |-> Coerce(k)])

\* What the operator has typed stays, whatever data arrive meanwhile, unless
\* the language list changes under the settings form (retention-form.tsx:
\* 106-111, settings-form.tsx:579).
EditsSurvive ==
  [][data' # data => \A k \in typed' : Shown'[k] = Shown[k]]_vars

\* A save ends with the button usable again.
SaveEnds == (status.at = "pending") ~> (status.at # "pending")

\* After a save that succeeded, the retention form has the data of that save
\* or of a later one, unless it goes or a request fails.
RetentionCatchesUp ==
  (form = "retention" /\ status.at = "success" /\ data.ver < puts[status.put].body.ver)
  ~> (status.at # "success" \/ faults > 0 \/ data.ver >= puts[status.put].body.ver)

\* core/retention/settings.py:51-52: the table stores everything as JSON.
SettingsReadable == Readable
=============================================================================
