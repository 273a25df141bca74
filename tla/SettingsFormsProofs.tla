-------------------------- MODULE SettingsFormsProofs --------------------------
(***************************************************************************)
(* What holds of the settings table and of its forms for any number of     *)
(* writers, saves and failed requests.                                     *)
(***************************************************************************)
EXTENDS SettingsForms, FiniteSetTheorems, TLAPS

USE DEF serverVars, formVars, cacheVars

AnyVals == Filled("settings") \cup Filled("retention")
Snapshots == [ver : Nat, vals : AnyVals]
PutAt == {"sent", "ok", "failed", "done"}
PutRec == [at : PutAt, vals : AnyVals \cup {Nothing}, body : Snapshots \cup {Nothing}]

\* A snapshot of the form that is followed, not from the future.
Snap(s) == s \in Snapshots /\ s.vals \in Filled(form) /\ s.ver <= version

\* Whatever its texts look like, the table holds what was meant, and that is
\* valid: the part of the invariant that matters.
TableInv ==
  /\ table \in [Settings -> Texts] /\ meant \in [Settings -> {0, 1}]
  /\ \A k \in Settings : Coerce(k) = meant[k]
  /\ meant["offsets"] = 1 /\ meant["ttl"] = 1
  /\ form \in Forms /\ version \in Nat

\* What is in the cache or on its way came from the table.
CacheInv ==
  /\ shown \in BOOLEAN /\ fresh \in BOOLEAN /\ faults \in 0..MaxFaults
  /\ data = Nothing \/ Snap(data)
  /\ get \in [at : {"idle", "sent", "ok", "failed"}, body : Snapshots \cup {Nothing}]
  /\ get.at = "ok" => Snap(get.body)

\* A draft exists only on screen, and only a draft has edits.
DraftInv ==
  /\ draft = Nothing \/ draft \in Filled(form)
  /\ ~shown => draft = Nothing
  /\ draft = Nothing => typed = {}
  /\ shown /\ form = "settings" /\ data # Nothing => draft # Nothing

\* A save on its way is valid; its answer came from the table.
PutsInv ==
  /\ puts \in Seq(PutRec)
  /\ \A i \in 1..Len(puts) :
       /\ puts[i].at = "sent" => puts[i].vals \in Filled(form) /\ Valid(puts[i].vals)
       /\ puts[i].at = "ok" => Snap(puts[i].body)

FInv == TableInv /\ CacheInv /\ DraftInv /\ PutsInv

-----------------------------------------------------------------------------
LEMMA FormLimits == MaxWrites \in Nat /\ MaxPuts \in Nat /\ MaxFaults \in Nat
  BY FormsAssumption

LEMMA TwoForms ==
  /\ Fields("settings") = {"langs", "offsets"} /\ Fields("retention") = {"enabled", "ttl"}
  /\ Fields("settings") # Fields("retention")
  /\ Settings = {"langs", "offsets", "enabled", "ttl"}
  BY DEF Fields, Settings

LEMMA FilledForms ==
  ASSUME NEW f \in Forms, NEW d \in Filled(f)
  PROVE  /\ d # Nothing /\ d \in AnyVals /\ DOMAIN d = Fields(f)
         /\ Valid(d) <=> (f = "settings" => d["offsets"] = 1)
                         /\ (f = "retention" => d["ttl"] = 1)
  <1>1. d \in [Fields(f) -> {0, 1}]  BY DEF Filled
  <1>2. DOMAIN d = Fields(f)  BY <1>1
  <1>3. Fields(f) # {}  BY TwoForms DEF Forms
  <1>4. d # Nothing
    <2>1. DOMAIN Nothing = {}  BY DEF Nothing
    <2>2. QED BY <2>1, <1>2, <1>3
  <1>5. d \in AnyVals  BY DEF AnyVals, Forms
  <1>6. Valid(d) <=> (f = "settings" => d["offsets"] = 1) /\ (f = "retention" => d["ttl"] = 1)
    BY <1>2, TwoForms DEF Valid, Forms
  <1>7. QED BY <1>2, <1>4, <1>5, <1>6

\* Both ways of writing a value are read back by Coerce.
LEMMA EncodingsAgree ==
  ASSUME NEW k \in Settings, NEW v \in {0, 1}
  PROVE  /\ Json(k, v) \in Texts /\ Str(k, v) \in Texts
         /\ (IF Json(k, v) \in {"true", "True", "1"} THEN 1 ELSE 0) = v
         /\ (IF Str(k, v) \in {"true", "True", "1"} THEN 1 ELSE 0) = v
  BY DEF Json, Str, Word, Texts

LEMMA SnapshotNow ==
  ASSUME FInv  PROVE  Snap(Snapshot(form))
  <1>1. form \in Forms /\ version \in Nat  BY DEF FInv, TableInv
  <1>2. Snapshot(form).vals \in Filled(form)
    <2>1. \A k \in Fields(form) :
            (IF form = "retention" THEN Coerce(k) ELSE ReadJson(k)) \in {0, 1}
      BY DEF Coerce, ReadJson
    <2>2. QED BY <2>1 DEF Snapshot, Filled
  <1>3. QED BY <1>1, <1>2, FilledForms DEF Snap, Snapshots, Snapshot

\* What a write of the fields of one form does to the table.
LEMMA WriteKeeps ==
  ASSUME TableInv, NEW f \in Forms, NEW vals \in Filled(f), Valid(vals), Write(f, vals),
         form' = form
  PROVE  TableInv' /\ version' = version + 1
  <1>1. version' = version + 1  BY DEF Write, Encode
  <1>2. /\ DOMAIN vals = Fields(f) /\ vals \in [Fields(f) -> {0, 1}]
        /\ Fields(f) \subseteq Settings
    BY FilledForms DEF Filled, Forms, Settings
  <1>3. /\ \A k \in Settings \ Fields(f) : table'[k] = table[k] /\ meant'[k] = meant[k]
        /\ \A k \in Fields(f) : meant'[k] = vals[k]
        /\ \A k \in Fields(f) : table'[k] = Json(k, vals[k]) \/ table'[k] = Str(k, vals[k])
    BY <1>2 DEF Write, Encode
  <1>4. table' = [k \in Settings |-> table'[k]] /\ meant' = [k \in Settings |-> meant'[k]]
    BY DEF Write, Encode
  <1>5. ASSUME NEW k \in Settings
        PROVE  /\ table'[k] \in Texts /\ meant'[k] \in {0, 1} /\ Coerce(k)' = meant'[k]
    <2>1. CASE k \in Fields(f)
      BY <2>1, <1>2, <1>3, EncodingsAgree DEF Coerce
    <2>2. CASE k \notin Fields(f)
      BY <2>2, <1>3 DEF Coerce, TableInv
    <2>3. QED BY <2>1, <2>2
  <1>6. meant'["offsets"] = 1 /\ meant'["ttl"] = 1
    BY <1>2, <1>3, FilledForms, TwoForms DEF TableInv, Forms
  <1>7. table' \in [Settings -> Texts] /\ meant' \in [Settings -> {0, 1}]
    BY <1>4, <1>5
  <1>8. QED BY <1>1, <1>5, <1>6, <1>7 DEF TableInv

-----------------------------------------------------------------------------
(* The initial state and the steps.                                        *)

LEMMA FormsInit == FInit => FInv
  <1> SUFFICES ASSUME FInit  PROVE FInv
    OBVIOUS
  <1>1. TableInv
    <2>1. \A k \in Settings : Json(k, 1) \in Texts /\ Coerce(k) = 1 /\ meant[k] = 1
      BY EncodingsAgree DEF FInit, Coerce
    <2>2. QED BY <2>1, TwoForms DEF FInit, TableInv
  <1>2. CacheInv
    <2>1. get = [at |-> "idle", body |-> Nothing]  BY DEF FInit, Quiet
    <2>2. 0 \in 0..MaxFaults  BY FormLimits
    <2>3. shown = FALSE /\ fresh = FALSE /\ faults = 0 /\ data = Nothing
      BY DEF FInit
    <2>4. get \in [at : {"idle", "sent", "ok", "failed"}, body : Snapshots \cup {Nothing}]
      BY <2>1
    <2>5. get.at # "ok"  BY <2>1
    <2>6. QED BY <2>2, <2>3, <2>4, <2>5 DEF CacheInv
  <1>3. DraftInv  BY DEF FInit, DraftInv
  <1>4. PutsInv  BY DEF FInit, PutsInv
  <1>5. QED BY <1>1, <1>2, <1>3, <1>4 DEF FInv

\* The values that are sent are the ones on screen.
LEMMA ShownIsFilled ==
  ASSUME FInv  PROVE  Shown = Nothing \/ Shown \in Filled(form)
  BY DEF FInv, DraftInv, CacheInv, Snap, Shown, HasData

\* New data: the draft is kept, or replaced as a whole.
LEMMA ReceiveKeeps ==
  ASSUME FInv, NEW d, Snap(d), Receive(d), UNCHANGED <<form, shown, version>>
  PROVE  (data = Nothing \/ Snap(data))' /\ DraftInv'
  <1>1. data' = d /\ Snap(data)'  BY DEF Receive, Snap
  <1>2. d.vals \in Filled(form) /\ d.vals # Nothing
    BY FilledForms DEF Snap, FInv, TableInv
  <1>3. CASE Remounts(d)
    <2>1. draft' = d.vals /\ shown /\ typed' = {}  BY <1>3 DEF Receive, Remounts
    <2>2. QED BY <1>1, <1>2, <2>1 DEF DraftInv, FInv, Filled
  <1>4. CASE ~Remounts(d)
    <2>1. draft' = draft /\ typed' = typed  BY <1>4 DEF Receive
    <2>2. shown /\ form = "settings" => draft # Nothing
      BY <1>4 DEF Remounts, HasData, FInv, DraftInv
    <2>3. QED BY <1>1, <2>1, <2>2 DEF DraftInv, FInv, Filled
  <1>5. QED BY <1>1, <1>3, <1>4

\* What a step that leaves the table alone keeps of it.
LEMMA TableStays == TableInv /\ UNCHANGED <<serverVars, form>> => TableInv'
  BY DEF TableInv, Coerce

LEMMA PutsStay ==
  PutsInv /\ UNCHANGED <<puts, form, version>> => PutsInv'
  BY DEF PutsInv, Snap, Filled

LEMMA CacheStays ==
  CacheInv /\ UNCHANGED <<cacheVars, shown, form, version, faults>> => CacheInv'
  BY DEF CacheInv, Snap, Filled

LEMMA DraftStays ==
  DraftInv /\ UNCHANGED <<draft, typed, shown, form, data>> => DraftInv'
  BY DEF DraftInv, Filled

LEMMA PageSteps ==
  ASSUME FInv, Visit \/ Leave \/ GetServed \/ GetLost \/ GetDone \/ GetFailed
  PROVE  FInv'
  <1> USE DEF FInv
  <1>1. TableInv' /\ PutsInv' /\ UNCHANGED <<form, serverVars, puts>>
    BY TableStays, PutsStay DEF Visit, Leave, GetServed, GetLost, GetDone, GetFailed
  <1>2. CASE Visit
    <2>1. CacheInv'
      BY <1>2 DEF Visit, CacheInv, Snap, Filled, Quiet
    <2>2. data # Nothing => data.vals \in Filled(form) /\ data.vals # Nothing
      BY FilledForms DEF CacheInv, Snap, TableInv
    <2>3. DraftInv'
      BY <1>2, <2>2 DEF Visit, DraftInv, HasData, Filled
    <2>4. QED BY <1>1, <2>1, <2>3
  <1>3. CASE Leave
    <2>1. CacheInv'  BY <1>3 DEF Leave, CacheInv, Snap, Filled
    <2>2. DraftInv'  BY <1>3 DEF Leave, DraftInv
    <2>3. QED BY <1>1, <2>1, <2>2
  <1>4. CASE GetServed
    <2>1. Snap(Snapshot(form))  BY SnapshotNow
    <2>2. CacheInv'
      BY <1>4, <2>1 DEF GetServed, CacheInv, Snap, Filled, Quiet
    <2>3. DraftInv'  BY <1>4, DraftStays DEF GetServed
    <2>4. QED BY <1>1, <2>2, <2>3
  <1>5. CASE GetLost
    <2>1. CacheInv'
      BY <1>5, FormLimits DEF GetLost, CacheInv, Snap, Filled, Quiet, Fault
    <2>2. DraftInv'  BY <1>5, DraftStays DEF GetLost
    <2>3. QED BY <1>1, <2>1, <2>2
  <1>6. CASE GetDone
    <2>1. Snap(get.body)  BY <1>6 DEF GetDone, CacheInv
    <2>2. (data = Nothing \/ Snap(data))' /\ DraftInv'
      BY <1>6, <2>1, ReceiveKeeps DEF GetDone
    <2>3. CacheInv'
      BY <1>6, <2>2 DEF GetDone, CacheInv, Quiet
    <2>4. QED BY <1>1, <2>2, <2>3
  <1>7. CASE GetFailed
    <2>1. CacheInv'
      BY <1>7 DEF GetFailed, CacheInv, Snap, Filled, Quiet
    <2>2. DraftInv'  BY <1>7, DraftStays DEF GetFailed
    <2>3. QED BY <1>1, <2>1, <2>2
  <1>8. QED BY <1>2, <1>3, <1>4, <1>5, <1>6, <1>7

LEMMA EditStep ==
  ASSUME FInv, NEW k \in Settings, NEW v \in {0, 1}, Edit(k, v)  PROVE FInv'
  <1>1. Shown # Nothing /\ draft' = [Shown EXCEPT ![k] = v] /\ k \in Fields(form)
    BY DEF Edit, EditSettings, EditRetention, Shown
  <1>2. draft' \in Filled(form) /\ draft' # Nothing
    <2>1. Shown \in Filled(form) /\ form \in Forms
      BY <1>1, ShownIsFilled DEF FInv, TableInv
    <2>2. draft' \in Filled(form)  BY <1>1, <2>1 DEF Filled
    <2>3. QED BY <2>1, <2>2, FilledForms
  <1>3. DraftInv'  BY <1>2 DEF Edit, DraftInv, Filled
  <1>4. QED BY <1>3, TableStays, PutsStay, CacheStays DEF FInv, Edit

LEMMA SaveStep == ASSUME FInv, Save  PROVE FInv'
  <1>1. Shown \in Filled(form) /\ form \in Forms /\ Valid(Shown)
    BY ShownIsFilled DEF Save, MaySave, FInv, TableInv
  <1>2. TableInv' /\ CacheInv' /\ DraftInv'
    BY TableStays, CacheStays, DraftStays DEF FInv, Save
  <1>3. PutsInv'
    <2> DEFINE p == [at |-> "sent", vals |-> Shown, body |-> Nothing]
    <2>1. p \in PutRec  BY <1>1, FilledForms DEF PutRec, PutAt
    <2>2. puts \in Seq(PutRec) /\ puts' = Append(puts, p) /\ UNCHANGED <<form, version>>
      BY DEF FInv, PutsInv, Save
    <2> HIDE DEF p
    <2>3. /\ puts' \in Seq(PutRec) /\ Len(puts') = Len(puts) + 1
          /\ puts'[Len(puts')] = p /\ \A i \in 1..Len(puts) : puts'[i] = puts[i]
      BY <2>1, <2>2
    <2>4. \A i \in 1..Len(puts') : i \in 1..Len(puts) \/ i = Len(puts')
      BY <2>2, <2>3
    <2>5. p.at = "sent" /\ p.vals = Shown  BY DEF p
    <2>6. \A i \in 1..Len(puts) :
            /\ puts'[i].at = "sent" => puts'[i].vals \in Filled(form) /\ Valid(puts'[i].vals)
            /\ puts'[i].at = "ok" => Snap(puts[i].body)'
      BY <2>2, <2>3 DEF FInv, PutsInv, Snap, Filled
    <2>7. QED BY <1>1, <2>2, <2>3, <2>4, <2>5, <2>6 DEF PutsInv, Filled
  <1>4. QED BY <1>2, <1>3 DEF FInv

\* A write of another tab leaves what this one has a snapshot of the past.
LEMMA OlderSnaps ==
  ASSUME FInv, TableInv', version' >= version, UNCHANGED <<form, cacheVars, shown, faults>>
  PROVE  CacheInv'
  BY DEF FInv, TableInv, CacheInv, Snap, Snapshots, Filled

\* A save in another state, its answer from the table.
LEMMA PutMoves ==
  ASSUME FInv, NEW i \in 1..Len(puts), NEW p \in PutRec, puts' = [puts EXCEPT ![i] = p],
         form' = form, TableInv', version' >= version,
         p.at # "sent",
         p.at = "ok" => p.body \in Snapshots /\ p.body.vals \in Filled(form')
                        /\ p.body.ver <= version'
  PROVE  PutsInv'
  <1>1. /\ puts' \in Seq(PutRec) /\ Len(puts') = Len(puts) /\ puts'[i] = p
        /\ \A j \in 1..Len(puts) \ {i} : puts'[j] = puts[j]
    BY DEF FInv, PutsInv
  <1>2. \A r : Snap(r) => (r \in Snapshots /\ r.vals \in Filled(form') /\ r.ver <= version')
    BY DEF Snap, Snapshots, FInv, TableInv
  <1>3. ASSUME NEW j \in 1..Len(puts), j # i
        PROVE  /\ puts[j].at = "sent" => puts[j].vals \in Filled(form') /\ Valid(puts[j].vals)
               /\ puts[j].at = "ok" => /\ puts[j].body \in Snapshots
                                       /\ puts[j].body.vals \in Filled(form')
                                       /\ puts[j].body.ver <= version'
    BY <1>2, <1>3 DEF FInv, PutsInv
  <1>4. \A j \in 1..Len(puts') :
          /\ puts'[j].at = "sent" => puts'[j].vals \in Filled(form') /\ Valid(puts'[j].vals)
          /\ puts'[j].at = "ok" => /\ puts'[j].body \in Snapshots
                                   /\ puts'[j].body.vals \in Filled(form')
                                   /\ puts'[j].body.ver <= version'
    BY <1>1, <1>3
  <1>5. QED BY <1>1, <1>4 DEF PutsInv, Snap, Filled

LEMMA PutIsRec ==
  ASSUME FInv, NEW i \in 1..Len(puts)
  PROVE  /\ puts[i] \in PutRec
         /\ puts[i] = [at |-> puts[i].at, vals |-> puts[i].vals, body |-> puts[i].body]
  <1>1. puts[i] \in PutRec  BY DEF FInv, PutsInv
  <1>2. QED BY <1>1 DEF PutRec

LEMMA PutServedStep ==
  ASSUME FInv, NEW i \in 1..MaxPuts, PutServed(i)  PROVE FInv'
  <1>1. i \in 1..Len(puts) /\ puts[i].at = "sent"
    BY DEF PutServed, Put
  <1>2. puts[i].vals \in Filled(form) /\ Valid(puts[i].vals) /\ form \in Forms
    BY <1>1 DEF FInv, PutsInv, TableInv
  <1>3. form' = form /\ Write(form, puts[i].vals)
    BY DEF PutServed
  <1>4. TableInv' /\ version' = version + 1
    BY <1>2, <1>3, WriteKeeps DEF FInv
  <1>5. CacheInv' /\ DraftInv'
    <2>1. UNCHANGED <<form, formVars, cacheVars, faults>>  BY DEF PutServed
    <2>2. version' >= version  BY <1>4 DEF FInv, TableInv
    <2>3. QED BY <1>4, <2>1, <2>2, OlderSnaps, DraftStays DEF FInv
  <1>6. Snap(Snapshot(form))'
    <2>1. \A k \in Fields(form') :
            (IF form' = "retention" THEN Coerce(k)' ELSE ReadJson(k)') \in {0, 1}
      BY DEF Coerce, ReadJson
    <2>2. (Snapshot(form).vals)' \in Filled(form')
      BY <2>1 DEF Snapshot, Filled
    <2>3. version' \in Nat /\ form' \in Forms  BY <1>4 DEF TableInv
    <2>4. QED BY <2>2, <2>3, FilledForms DEF Snap, Snapshots, Snapshot, Filled
  <1>7. PutsInv'
    <2> DEFINE body == [ver |-> version', vals |-> (Snapshot(form).vals)']
               p == [at |-> IF form = "settings" /\ ~Readable' THEN "failed" ELSE "ok",
                     vals |-> Nothing, body |-> body]
    <2>1. body \in Snapshots /\ body.vals \in Filled(form') /\ body.ver <= version'
      BY <1>6 DEF Snap, Snapshot, Filled
    <2>2. p.at # "sent" /\ p.body = body  OBVIOUS
    <2>3. p \in PutRec  BY <2>1 DEF PutRec, PutAt
    <2>4. puts' = [puts EXCEPT ![i] = p]
      BY DEF PutServed, Snapshot
    <2>5. version' >= version  BY <1>4 DEF FInv, TableInv
    <2> HIDE DEF p, body
    <2>6. QED BY <1>1, <1>3, <1>4, <2>1, <2>2, <2>3, <2>4, <2>5, PutMoves
  <1>8. QED BY <1>4, <1>5, <1>7 DEF FInv

LEMMA AnswerSteps ==
  ASSUME FInv, NEW i \in 1..MaxPuts, PutLost(i) \/ PutDone(i) \/ PutFailed(i)
  PROVE  FInv'
  <1>1. i \in 1..Len(puts) /\ puts[i].at \in {"sent", "ok", "failed"}
    BY DEF PutLost, PutDone, PutFailed, Put
  <1>2. TableInv' /\ UNCHANGED <<form, version>> /\ version \in Nat
    BY TableStays DEF PutLost, PutDone, PutFailed, FInv, TableInv
  <1>3. PutsInv'
    <2> DEFINE p == [at |-> puts'[i].at, vals |-> puts'[i].vals, body |-> puts'[i].body]
    <2>1. puts[i] \in PutRec /\ puts \in Seq(PutRec)
      BY <1>1 DEF FInv, PutsInv
    <2>2. puts[i] = [at |-> puts[i].at, vals |-> puts[i].vals, body |-> puts[i].body]
      BY <1>1, PutIsRec
    <2>3. \/ puts' = [puts EXCEPT ![i] = [at |-> "failed", vals |-> Nothing, body |-> puts[i].body]]
          \/ puts' = [puts EXCEPT ![i] = [at |-> "done", vals |-> puts[i].vals,
                                          body |-> puts[i].body]]
      BY <1>1, <2>1, <2>2 DEF PutLost, PutDone, PutFailed
    <2>4. /\ puts' = [puts EXCEPT ![i] = p] /\ p \in PutRec /\ p.at \in {"failed", "done"}
      BY <1>1, <2>1, <2>3 DEF PutRec, PutAt
    <2> HIDE DEF p
    <2>5. p.at # "sent" /\ p.at # "ok"  BY <2>4
    <2>6. version' >= version /\ form' = form  BY <1>2
    <2>7. QED BY <1>1, <1>2, <2>4, <2>5, <2>6, PutMoves
  <1>4. CASE PutLost(i) \/ PutFailed(i)
    <2>1. UNCHANGED <<form, version, shown, draft, typed, cacheVars>>
      BY <1>4, <1>2 DEF PutLost, PutFailed
    <2>2. faults' \in 0..MaxFaults
      BY <1>4, FormLimits DEF PutLost, PutFailed, Fault, FInv, CacheInv
    <2>3. CacheInv'  BY <2>1, <2>2 DEF FInv, CacheInv, Snap, Filled
    <2>4. DraftInv'  BY <2>1, DraftStays DEF FInv
    <2>5. QED BY <1>2, <1>3, <2>3, <2>4 DEF FInv
  <1>5. CASE PutDone(i)
    <2>1. Snap(puts[i].body) /\ UNCHANGED <<shown, faults>>
      BY <1>5, <1>1 DEF PutDone, Put, FInv, PutsInv
    <2>2. CASE form = "settings"
      <3>1. Receive(puts[i].body) /\ UNCHANGED <<get, fresh>>
        BY <1>5, <2>2 DEF PutDone, OnSuccess
      <3>2. (data = Nothing \/ Snap(data))' /\ DraftInv'
        BY <1>2, <2>1, <3>1, ReceiveKeeps
      <3>3. CacheInv'
        BY <1>2, <2>1, <3>1, <3>2 DEF FInv, CacheInv, Snap, Filled
      <3>4. QED BY <1>2, <1>3, <3>2, <3>3 DEF FInv
    <2>3. CASE form # "settings"
      <3>1. /\ get' \in {get, [at |-> "sent", body |-> Nothing]}
            /\ fresh' = FALSE /\ UNCHANGED <<data, draft, typed>>
        BY <1>5, <2>3 DEF PutDone, OnSuccess, Quiet
      <3>2. CacheInv'
        <4>1. get' = get \/ (get'.at = "sent" /\ get'.body = Nothing
                             /\ get' \in [at : {"idle", "sent", "ok", "failed"},
                                          body : Snapshots \cup {Nothing}])
          BY <3>1
        <4>2. get'.at = "ok" => get' = get  BY <4>1
        <4>3. QED BY <1>2, <2>1, <3>1, <4>1, <4>2 DEF FInv, CacheInv, Snap, Filled
      <3>3. DraftInv'  BY <1>2, <2>1, <3>1, DraftStays DEF FInv
      <3>4. QED BY <1>2, <1>3, <3>2, <3>3 DEF FInv
    <2>4. QED BY <2>2, <2>3
  <1>6. QED BY <1>4, <1>5

\* The values other writers write are valid as well.
LEMMA OtherSteps ==
  ASSUME FInv, (\E f \in Forms : OtherTab(f)) \/ Breaker  PROVE FInv'
  <1>1. TableInv' /\ version' = version + 1
    <2>1. CASE Breaker
      <3>1. /\ version' = version + 1 /\ form' = form
            /\ table' = [k \in Settings |-> IF k \in {"enabled"} THEN "false" ELSE table[k]]
            /\ meant' = [k \in Settings |-> IF k \in {"enabled"} THEN 0 ELSE meant[k]]
        BY <2>1 DEF Breaker, Write, Encode, Json, Word
      <3>2. \A k \in Settings : table'[k] \in Texts /\ Coerce(k)' = meant'[k]
        BY <3>1 DEF Coerce, FInv, TableInv, Texts
      <3>3. table' \in [Settings -> Texts] /\ meant' \in [Settings -> {0, 1}]
        BY <3>1, <3>2 DEF FInv, TableInv
      <3>4. meant'["offsets"] = 1 /\ meant'["ttl"] = 1
        BY <3>1, TwoForms DEF FInv, TableInv
      <3>5. QED BY <3>1, <3>2, <3>3, <3>4 DEF FInv, TableInv
    <2>2. CASE \E f \in Forms : OtherTab(f)
      <3>1. PICK f \in Forms : OtherTab(f)  BY <2>2
      <3>2. PICK vals \in Filled(f) : Valid(vals) /\ Write(f, vals)
        BY <3>1 DEF OtherTab
      <3>3. form' = form  BY <3>1 DEF OtherTab
      <3>4. QED BY <3>2, <3>3, WriteKeeps DEF FInv
    <2>3. QED BY <2>1, <2>2
  <1>2. UNCHANGED <<form, formVars, cacheVars, puts, faults>>
    BY DEF OtherTab, Breaker
  <1>3. version' >= version  BY <1>1 DEF FInv, TableInv
  <1>4. CacheInv' /\ DraftInv'
    BY <1>1, <1>2, <1>3, OlderSnaps, DraftStays DEF FInv
  <1>5. PutsInv'
    <2>1. \A r : Snap(r) =>
            r \in Snapshots /\ r.vals \in Filled(form') /\ r.ver <= version'
      BY <1>1, <1>2 DEF Snap, Snapshots, FInv, TableInv
    <2>2. \A i \in 1..Len(puts) : puts[i].at = "ok" =>
            /\ puts[i].body \in Snapshots
            /\ puts[i].body.vals \in Filled(form')
            /\ puts[i].body.ver <= version'
      BY <2>1 DEF FInv, PutsInv
    <2>3. puts' = puts /\ form' = form  BY <1>2
    <2>4. QED BY <2>2, <2>3 DEF FInv, PutsInv, Snap, Filled
  <1>6. QED BY <1>1, <1>4, <1>5 DEF FInv

LEMMA FormsStep == FInv /\ [FNext]_vars => FInv'
  <1> SUFFICES ASSUME FInv, [FNext]_vars  PROVE FInv'
    OBVIOUS
  <1>1. CASE Visit \/ Leave \/ GetServed \/ GetLost \/ GetDone \/ GetFailed
    BY <1>1, PageSteps
  <1>2. CASE Save
    BY <1>2, SaveStep
  <1>3. CASE Breaker \/ \E f \in Forms : OtherTab(f)
    BY <1>3, OtherSteps
  <1>4. CASE \E k \in Settings : \E v \in {0, 1} : Edit(k, v)
    BY <1>4, EditStep
  <1>5. CASE \E i \in 1..MaxPuts : PutServed(i) \/ PutLost(i) \/ PutDone(i) \/ PutFailed(i)
    BY <1>5, PutServedStep, AnswerSteps
  <1>6. CASE UNCHANGED vars
    <2>1. UNCHANGED <<form, serverVars, formVars, cacheVars, puts, faults>>
      BY <1>6 DEF vars
    <2>2. QED BY <2>1, TableStays, PutsStay, CacheStays, DraftStays DEF FInv
  <1>7. QED BY <1>1, <1>2, <1>3, <1>4, <1>5, <1>6 DEF FNext

THEOREM FormsInvariant == FSpec => []FInv
  BY FormsInit, FormsStep, PTL DEF FSpec

-----------------------------------------------------------------------------
\* The retention engine and its form read back what was meant, whichever
\* writer wrote it and in whatever text (api/retention.py:85,
\* core/retention/settings.py:39-92).
THEOREM ReadsBack == FSpec => []RetentionReadsBack
  <1>1. FInv => RetentionReadsBack
    BY DEF FInv, TableInv, RetentionReadsBack, Settings
  <1>2. QED BY <1>1, FormsInvariant, PTL

\* No interleaving of saves and reloads brings values to the table that the
\* forms refuse, although the retention route checks nothing.
THEOREM SavedIsValid == FSpec => []OnlyValidSaved
  <1>1. FInv => OnlyValidSaved
    <2> SUFFICES ASSUME FInv, NEW f \in Forms
                 PROVE  Valid([k \in Fields(f) |-> Coerce(k)])
      BY DEF OnlyValidSaved
    <2> DEFINE d == [k \in Fields(f) |-> Coerce(k)]
    <2>1. \A k \in Fields(f) : k \in Settings /\ Coerce(k) = meant[k]
      BY DEF FInv, TableInv, Settings, Forms
    <2>2. d \in Filled(f)
      BY <2>1 DEF FInv, TableInv, Filled
    <2>3. (f = "settings" => d["offsets"] = 1) /\ (f = "retention" => d["ttl"] = 1)
      BY <2>1, TwoForms DEF FInv, TableInv
    <2> HIDE DEF d
    <2>4. Valid(d)  BY <2>2, <2>3, FilledForms
    <2>5. QED BY <2>4 DEF d
  <1>2. QED BY <1>1, FormsInvariant, PTL

\* What the operator has typed survives whatever data arrive meanwhile: the
\* answer of a fetch, or of a save, kept apart from the draft
\* (retention-form.tsx:105-113), or the form mounts anew (settings-form.tsx:579).
THEOREM EditsAreKept == FSpec => EditsSurvive
  <1>1. ASSUME FInv, [FNext]_vars, data' # data
        PROVE  \A k \in typed' : Shown'[k] = Shown[k]
    <2>1. \E d : Receive(d)
      <3>1. CASE GetDone
        BY <3>1 DEF GetDone
      <3>2. CASE \E i \in 1..MaxPuts : PutDone(i)
        BY <3>2, <1>1 DEF PutDone, OnSuccess
      <3>3. CASE ~GetDone /\ ~\E i \in 1..MaxPuts : PutDone(i)
        <4>1. data' = data
          BY <3>3, <1>1 DEF FNext, vars, Visit, Leave, GetServed, GetLost, GetFailed, Save,
                  Breaker, OtherTab, Edit, PutServed, PutLost, PutFailed
        <4>2. QED BY <4>1, <1>1
      <3>4. QED BY <3>1, <3>2, <3>3
    <2>2. typed' = {} \/ (typed' = typed /\ draft' = draft)
      BY <2>1 DEF Receive
    <2>3. typed # {} => draft # Nothing
      BY <1>1 DEF FInv, DraftInv
    <2>4. QED BY <2>2, <2>3 DEF Shown
  <1>2. QED BY <1>1, FormsInvariant, PTL DEF FSpec, EditsSurvive

-----------------------------------------------------------------------------
(* Types.  The bound on the versions counts the saves that are answered.   *)

Answered == {i \in 1..Len(puts) : puts[i].at # "sent"}
Counted ==
  /\ Len(puts) <= MaxPuts
  /\ version <= MaxWrites + Cardinality(Answered)

LEMMA AnsweredBound ==
  ASSUME FInv
  PROVE  IsFiniteSet(Answered) /\ Cardinality(Answered) \in 0..Len(puts)
  <1>1. Len(puts) \in Nat  BY DEF FInv, PutsInv
  <1> DEFINE n == Len(puts)
  <1> HIDE DEF n
  <1>2. n \in Nat  BY <1>1 DEF n
  <1>3. IsFiniteSet(1..n) /\ Cardinality(1..n) = IF 1 > n THEN 0 ELSE n - 1 + 1
    BY <1>2, FS_Interval, SMT
  <1>4. Cardinality(1..n) = n  BY <1>2, <1>3
  <1>5. Answered \subseteq 1..n  BY DEF Answered, n
  <1>6. /\ IsFiniteSet(Answered) /\ Cardinality(Answered) \in Nat
        /\ Cardinality(Answered) <= n
    BY <1>3, <1>4, <1>5, FS_Subset, FS_CardinalityType
  <1>7. QED BY <1>2, <1>6 DEF n

LEMMA CountedStep == FInv /\ FInv' /\ Counted /\ [FNext]_vars => Counted'
  <1> SUFFICES ASSUME FInv, FInv', Counted, [FNext]_vars  PROVE Counted'
    OBVIOUS
  <1>1. /\ IsFiniteSet(Answered) /\ Cardinality(Answered) \in Nat
        /\ IsFiniteSet(Answered') /\ Cardinality(Answered') \in Nat
    <2>1. Len(puts) \in Nat  BY DEF FInv, PutsInv
    <2>2. Len(puts') \in Nat  BY DEF FInv, PutsInv
    <2>3. Answered' \subseteq 1..Len(puts')  BY DEF Answered
    <2>4. IsFiniteSet(1..Len(puts'))  BY <2>2, FS_Interval
    <2>5. QED BY <2>1, <2>3, <2>4, AnsweredBound, FS_Subset, FS_CardinalityType
  <1>2. version \in Nat /\ MaxWrites \in Nat /\ MaxPuts \in Nat /\ puts \in Seq(PutRec)
    BY FormLimits DEF FInv, TableInv, PutsInv
  <1>3. ASSUME UNCHANGED puts, version' = version \/ (version < MaxWrites /\ version' = version + 1)
        PROVE  Counted'
    <2>1. Answered' = Answered  BY <1>3 DEF Answered
    <2>2. QED BY <1>1, <1>2, <1>3, <2>1 DEF Counted
  <1>4. CASE Save
    <2> DEFINE p == [at |-> "sent", vals |-> Shown, body |-> Nothing]
    <2>1. puts' = Append(puts, p) /\ Len(puts) < MaxPuts /\ version' = version
      BY <1>4 DEF Save
    <2>2. p.at = "sent"  OBVIOUS
    <2> HIDE DEF p
    <2>3. /\ Len(puts') = Len(puts) + 1 /\ puts'[Len(puts) + 1] = p
          /\ \A i \in 1..Len(puts) : puts'[i] = puts[i]
      BY <1>2, <2>1
    <2>4. Answered' = Answered
      BY <1>2, <2>2, <2>3 DEF Answered
    <2>5. QED BY <1>1, <1>2, <2>1, <2>3, <2>4 DEF Counted
  <1>5. ASSUME NEW i \in 1..MaxPuts,
               PutServed(i) \/ PutLost(i) \/ PutDone(i) \/ PutFailed(i)
        PROVE  Counted'
    <2>1. i \in 1..Len(puts)
      BY <1>5 DEF PutServed, PutLost, PutDone, PutFailed, Put
    <2>2. /\ Len(puts') = Len(puts) /\ puts'[i].at # "sent"
          /\ \A j \in 1..Len(puts) \ {i} : puts'[j] = puts[j]
      <3>1. puts[i] = [at |-> puts[i].at, vals |-> puts[i].vals, body |-> puts[i].body]
        BY <2>1, PutIsRec
      <3>2. \E p : p.at # "sent" /\ puts' = [puts EXCEPT ![i] = p]
        BY <1>2, <1>5, <2>1, <3>1 DEF PutServed, PutLost, PutDone, PutFailed
      <3>3. QED BY <1>2, <2>1, <3>2
    <2>3. Answered' = Answered \cup {i}
      BY <2>1, <2>2 DEF Answered
    <2>4. Cardinality(Answered') = IF i \in Answered THEN Cardinality(Answered)
                                                     ELSE Cardinality(Answered) + 1
      BY <1>1, <2>3, FS_AddElement
    <2>5. version' = version \/ (version' = version + 1 /\ i \notin Answered)
      <3>1. CASE PutServed(i)
        BY <3>1 DEF PutServed, Put, Write, Encode, Answered
      <3>2. CASE PutLost(i) \/ PutDone(i) \/ PutFailed(i)
        BY <3>2 DEF PutLost, PutDone, PutFailed
      <3>3. QED BY <1>5, <3>1, <3>2
    <2>6. QED BY <1>1, <1>2, <2>2, <2>4, <2>5 DEF Counted
  <1>6. CASE \/ Visit \/ Leave \/ GetServed \/ GetLost \/ GetDone \/ GetFailed
             \/ (\E k \in Settings : \E v \in {0, 1} : Edit(k, v)) \/ UNCHANGED vars
    <2>1. UNCHANGED <<puts, version>>
      BY <1>6 DEF Visit, Leave, GetServed, GetLost, GetDone, GetFailed, Edit, vars
    <2>2. QED BY <1>3, <2>1
  <1>7. CASE Breaker \/ \E f \in Forms : OtherTab(f)
    <2>1. puts' = puts /\ version < MaxWrites /\ version' = version + 1
      BY <1>7 DEF Breaker, OtherTab, Write, Encode
    <2>2. QED BY <1>3, <2>1
  <1>8. QED BY <1>4, <1>5, <1>6, <1>7 DEF FNext

\* Types: the cache is never ahead of the table, what a form shows is a value
\* for each of its fields, and only a form on screen shows anything.
THEOREM FormsTyped == FSpec => []FTypeOK
  <1>1. FInit => Counted
    <2> SUFFICES ASSUME FInit  PROVE Counted
      OBVIOUS
    <2>1. puts = <<>> /\ version = 0  BY DEF FInit
    <2>2. Answered = {}  BY <2>1 DEF Answered
    <2>3. QED BY <2>1, <2>2, FS_EmptySet, FormLimits DEF Counted
  <1>2. FInv /\ Counted => FTypeOK
    <2> SUFFICES ASSUME FInv, Counted  PROVE FTypeOK
      OBVIOUS
    <2>1. version \in 0..(MaxWrites + MaxPuts)
      BY AnsweredBound, FormLimits DEF FInv, TableInv, PutsInv, Counted
    <2>2. HasData => data.vals \in Filled(form) /\ data.ver <= version
      BY DEF HasData, FInv, CacheInv, Snap
    <2>3. Shown # Nothing => shown /\ Shown \in Filled(form)
      BY ShownIsFilled DEF Shown, FInv, DraftInv
    <2>4. get.at \in {"idle", "sent", "ok", "failed"}
      BY DEF FInv, CacheInv
    <2>5. \A k \in Settings : table[k] \in Texts
      BY DEF FInv, TableInv
    <2>6. QED BY <2>1, <2>2, <2>3, <2>4, <2>5 DEF FTypeOK, FInv, TableInv, CacheInv
  <1>3. QED BY <1>1, <1>2, CountedStep, FormsInvariant, PTL DEF FSpec
=============================================================================
