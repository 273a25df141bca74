--------------------------- MODULE RetentionProofs ---------------------------
(***************************************************************************)
(* What holds of the retention engine for every number of titles and rows, *)
(* every grace period, every limit, and every set of actors and faults.    *)
(***************************************************************************)
EXTENDS Retention, FiniteSetTheorems, TLAPS

USE DEF settingVars, stateVars, planVars, execVars, histVars

\* What every step keeps of the variables that stand for one fact each.
Types ==
  /\ enabled \in BOOLEAN /\ dryRun \in BOOLEAN
  /\ want \in [Item -> Want]
  /\ pin \in [Item -> 0..PinDays]
  /\ class \in [Item -> Class]
  /\ since \in [Item -> BOOLEAN]
  /\ file \in [Item -> BOOLEAN]
  /\ planner \in {"idle", "dry", "live"} /\ planned \in BOOLEAN
  /\ streak \in [Item -> 0..2]
  /\ seenPin \in [Item -> BOOLEAN]

\* The executor's registers agree with where it is, its deletions with what it
\* has counted, and it does not start beyond the daily limit.
ExecInv ==
  /\ exec \in {"idle", "scan", "delete"}
  /\ batch \in SUBSET Pd /\ stale \in SUBSET Pd /\ done \in SUBSET Pd
  /\ cur \in Pd \cup {NoPd}
  /\ exec = "delete" <=> cur \in Pd
  /\ exec = "idle" => batch = {} /\ stale = {} /\ done = {} /\ count = 0
  /\ count \in 0..MaxPerTick
  /\ exec = "delete" => count < MaxPerTick
  /\ recent \in Nat
  /\ exec # "idle" => recent <= MaxPerDay
  /\ recent <= MaxPerDay + MaxPerTick
  /\ Cardinality(done) <= count

\* Rows are well-formed, and those the executor holds belong to a title.
RowInv ==
  /\ pd \in [Pd -> Row]
  /\ \A p \in Pd : pd[p].state # "closed" => pd[p].item \in Item
  /\ \A p \in Pd : p \in Held => pd[p].state # "closed"
  /\ unlogged \in SUBSET Item

-----------------------------------------------------------------------------
LEMMA Limits ==
  Grace \in Nat /\ PinDays \in Nat /\ MaxPerTick \in Nat /\ MaxPerDay \in Nat
  BY LimitsAssumption

\* A new announcement takes a free row that nobody holds, and each of the
\* announced titles gets exactly one.
Fresh(rows, I, why, left) ==
  /\ rows \in [Pd -> Row]
  /\ \A p \in Pd :
       \/ rows[p] = pd[p]
       \/ /\ pd[p] = NoRow /\ p \notin Held
          /\ rows[p].state = "open" /\ rows[p].why = why
          /\ rows[p].item \in I /\ rows[p].left = left
  /\ \A p, q \in Pd :
       /\ pd[p] = NoRow /\ rows[p].state = "open"
       /\ pd[q] = NoRow /\ rows[q].state = "open"
       /\ rows[p].item = rows[q].item
       => p = q

LEMMA AnnouncedRows ==
  ASSUME pd \in [Pd -> Row],
         NEW I \in SUBSET Item, NEW why \in {"ttl", "pressure"},
         NEW left \in 0..Grace, NEW rows \in Announced(I, why, left)
  PROVE  Fresh(rows, I, why, left)
  <1> DEFINE Free == {p \in Pd : pd[p] = NoRow /\ p \notin Held}
  <1>1. PICK f \in [I -> Free] :
          rows = [p \in Pd |->
                    IF \E i \in I : f[i] = p
                    THEN [state |-> "open", item |-> CHOOSE i \in I : f[i] = p,
                          left |-> left, why |-> why, shown |-> 0]
                    ELSE pd[p]]
    BY DEF Announced
  <1>2. ASSUME NEW p \in Pd, NEW i \in I, f[i] = p
        PROVE  /\ rows[p] \in Row /\ pd[p] = NoRow /\ p \notin Held
               /\ rows[p].state = "open" /\ rows[p].why = why
               /\ rows[p].item \in I /\ f[rows[p].item] = p
               /\ rows[p].left = left
    <2> DEFINE k == CHOOSE c \in I : f[c] = p
    <2>1. k \in I /\ f[k] = p  BY <1>2
    <2>2. rows[p] = [state |-> "open", item |-> k, left |-> left, why |-> why,
                     shown |-> 0]
      BY <1>1, <1>2
    <2>3. p \in Free  BY <1>1, <1>2
    <2> HIDE DEF k
    <2>4. QED BY <2>1, <2>2, <2>3, Limits DEF Row
  <1>3. ASSUME NEW p \in Pd, ~\E i \in I : f[i] = p
        PROVE  rows[p] = pd[p]
    BY <1>1, <1>3
  <1>4. rows \in [Pd -> Row]  BY <1>1, <1>2, <1>3
  <1>5. ASSUME NEW p \in Pd, pd[p] = NoRow, rows[p].state = "open"
        PROVE  rows[p].item \in I /\ f[rows[p].item] = p
    <2>1. rows[p] # pd[p]  BY <1>5 DEF NoRow
    <2>2. QED BY <2>1, <1>2, <1>3
  <1>6. QED BY <1>2, <1>3, <1>4, <1>5 DEF Fresh

LEMMA VerdictType ==
  ASSUME Types, NEW i \in Item
  PROVE  /\ Verdict(i) \in Class
         /\ Verdict(i) = "eligible" => pin[i] = 0
         /\ Verdict(i) # "pending_delete"
  <1>1. want[i] \in Want /\ pin[i] \in Nat
    BY Limits DEF Types
  <1>2. CASE want[i] = "busy"      BY <1>1, <1>2 DEF Verdict, Class
  <1>3. CASE want[i] = "shielded"  BY <1>1, <1>3 DEF Verdict, Class
  <1>4. CASE want[i] = "watched"   BY <1>1, <1>4 DEF Verdict, Class
  <1>5. CASE want[i] = "idle"      BY <1>1, <1>5 DEF Verdict, Class
  <1>6. QED BY <1>1, <1>2, <1>3, <1>4, <1>5 DEF Want

-----------------------------------------------------------------------------
(* Types.                                                                  *)

LEMMA TypesInit == Init => Types
  <1> SUFFICES ASSUME Init  PROVE Types
    OBVIOUS
  <1>1. /\ since \in [Item -> BOOLEAN] /\ file \in [Item -> BOOLEAN]
        /\ seenPin \in [Item -> BOOLEAN]
    BY Zenon DEF Init
  <1>2. class \in [Item -> Class]      BY DEF Init, Class
  <1>3. pin \in [Item -> 0..PinDays]   BY Limits DEF Init
  <1>4. streak \in [Item -> 0..2]      BY DEF Init
  <1>5. enabled \in BOOLEAN /\ dryRun \in BOOLEAN /\ planned \in BOOLEAN
    BY Zenon DEF Init
  <1>6. QED BY <1>1, <1>2, <1>3, <1>4, <1>5 DEF Init, Types

LEMMA TypesStep == Types /\ [Next]_vars => Types'
  <1> SUFFICES ASSUME Types, [Next]_vars  PROVE Types'
    OBVIOUS
  <1> USE DEF Types
  <1>1. CASE PlanStart  BY <1>1 DEF PlanStart, Trip
  <1>2. CASE PlanRun
    <2>1. CASE Locked /\ UNCHANGED <<pd, stateVars, streak, seenPin, planned>>
      BY <1>2, <2>1 DEF PlanRun
    <2>2. CASE ~(Locked /\ UNCHANGED <<pd, stateVars, streak, seenPin, planned>>)
      <3>1. class' \in [Item -> Class]
        BY <1>2, <2>2, VerdictType DEF PlanRun, Class
      <3>2. since' \in [Item -> BOOLEAN]
        BY <1>2, <2>2 DEF PlanRun, EligibleSince
      <3>3. streak' \in [Item -> 0..2]
        BY <1>2, <2>2 DEF PlanRun
      <3>4. seenPin' \in [Item -> BOOLEAN]
        <4>1. seenPin' = [i \in Item |-> pin[i] > 0]
          BY <1>2, <2>2 DEF PlanRun
        <4>2. \A i \in Item : (pin[i] > 0) \in BOOLEAN  OBVIOUS
        <4>3. QED BY <4>1, <4>2, Zenon
      <3>5. QED BY <1>2, <2>2, <3>1, <3>2, <3>3, <3>4 DEF PlanRun
    <2>3. QED BY <2>1, <2>2
  <1>3. CASE ApplyStart
    <2>1. class' \in [Item -> Class]
      BY <1>3 DEF ApplyStart, Trip, Class
    <2>2. QED BY <1>3, <2>1 DEF ApplyStart, Trip
  <1>4. CASE ExecStep
    <2>1. CASE ExecDelete  BY <2>1 DEF ExecDelete
    <2>2. CASE ExecEnd     BY <2>2 DEF ExecEnd, Executed, Class
    <2>3. CASE \E p \in Pd : ExecNext(p)  BY <2>3 DEF ExecNext
    <2>4. QED BY <1>4, <2>1, <2>2, <2>3 DEF ExecStep
  <1>5. CASE ExecLost  BY <1>5 DEF ExecLost
  <1>6. CASE Api
    <2>1. CASE \E p \in Pd : CancelPending(p) \/ ExecutePendingNow(p)
      BY <2>1 DEF CancelPending, ExecutePendingNow
    <2>2. ASSUME NEW i \in Item, KeepUntil(i) \/ RemoveKeep(i) \/ Viewer(i)
          PROVE  Types'
      <3>1. PinDays \in 0..PinDays /\ 0 \in 0..PinDays  BY Limits
      <3>2. QED BY <2>2, <3>1 DEF KeepUntil, RemoveKeep, Viewer
    <2>3. CASE PutSettings  BY <2>3 DEF PutSettings
    <2>4. QED BY <1>6, <2>1, <2>2, <2>3 DEF Api
  <1>7. CASE Day
    <2>1. pin' \in [Item -> 0..PinDays]
      <3>1. \A i \in Item : Less(pin[i]) \in 0..PinDays
        BY Limits DEF Less
      <3>2. pin' = [i \in Item |-> Less(pin[i])]  BY <1>7 DEF Day
      <3>3. QED BY <3>1, <3>2
    <2>2. seenPin' \in [Item -> BOOLEAN]
      <3>1. seenPin' = [i \in Item |-> seenPin[i] /\ pin[i] > 1]
        BY <1>7 DEF Day
      <3>2. \A i \in Item : (seenPin[i] /\ pin[i] > 1) \in BOOLEAN  OBVIOUS
      <3>3. QED BY <3>1, <3>2, Zenon
    <2>3. QED BY <1>7, <2>1, <2>2 DEF Day
  <1>8. CASE UNCHANGED vars  BY <1>8 DEF vars
  <1>9. QED BY <1>1, <1>2, <1>3, <1>4, <1>5, <1>6, <1>7, <1>8 DEF Next

-----------------------------------------------------------------------------
(* The executor and the two limits.                                        *)

LEMMA ExecInit == Init => ExecInv
  BY SetsAssumption, Limits, FS_EmptySet DEF Init, ExecInv

\* One more deletion is one more counted row.
LEMMA DoneGrows ==
  ASSUME ExecInv, cur \in Pd
  PROVE  Cardinality(done \cup {cur}) <= count + 1
  <1>1. IsFiniteSet(done)
    BY SetsAssumption, FS_Subset DEF ExecInv
  <1>2. Cardinality(done) \in Nat  BY <1>1, FS_CardinalityType
  <1>3. \/ Cardinality(done \cup {cur}) = Cardinality(done)
        \/ Cardinality(done \cup {cur}) = Cardinality(done) + 1
    BY <1>1, FS_AddElement
  <1>4. count \in Nat /\ Cardinality(done) <= count
    BY Limits DEF ExecInv
  <1>5. QED BY <1>2, <1>3, <1>4

LEMMA ExecInvStep == ExecInv /\ [Next]_vars => ExecInv'
  <1> SUFFICES ASSUME ExecInv, [Next]_vars  PROVE ExecInv'
    OBVIOUS
  <1> USE SetsAssumption, Limits DEF ExecInv
  <1>1. CASE PlanStart  BY <1>1 DEF PlanStart, Trip
  <1>2. CASE PlanRun    BY <1>2 DEF PlanRun
  <1>3. CASE ApplyStart
    <2>1. CASE Trip  BY <2>1 DEF Trip
    <2>2. CASE ~Trip
      <3>0. exec = "idle" /\ ~Tripped
        BY <1>3, <2>2 DEF ApplyStart
      <3>1. exec = "idle" /\ recent <= MaxPerDay
        BY <3>0 DEF Tripped
      <3>2. UNCHANGED <<cur, stale, done, recent>>
        BY <1>3, <2>2 DEF ApplyStart
      <3>3. \/ exec' = "scan" /\ batch' \in SUBSET Pd /\ count' = 0
            \/ UNCHANGED <<exec, batch, count>>
        BY <1>3, <2>2 DEF ApplyStart, Select, DryRun, Due
      <3>4. QED BY <3>1, <3>2, <3>3, FS_EmptySet
    <2>3. QED BY <2>1, <2>2
  <1>4. CASE ExecStep
    <2>1. CASE ExecDelete
      <3>1. cur \in Pd /\ count' = count + 1 /\ count < MaxPerTick
        BY <2>1 DEF ExecDelete
      <3>2. Cardinality(done) \in Nat
        BY FS_Subset, FS_CardinalityType
      <3>3. done' = done \cup {cur} \/ done' = done
        BY <2>1 DEF ExecDelete
      <3>4. Cardinality(done') <= count'
        BY <3>1, <3>2, <3>3, DoneGrows
      <3>5. QED BY <2>1, <3>1, <3>3, <3>4 DEF ExecDelete
    <2>2. CASE ExecEnd
      <3>1. IsFiniteSet(done) /\ Cardinality(done) \in Nat
        BY FS_Subset, FS_CardinalityType
      <3>2. recent' = recent + Cardinality(done) /\ exec = "scan"
        BY <2>2 DEF ExecEnd
      <3>3. recent' \in Nat /\ recent' <= MaxPerDay + MaxPerTick
        BY <3>1, <3>2
      <3>4. QED BY <2>2, <3>3, FS_EmptySet DEF ExecEnd, ExecIdle
    <2>3. ASSUME NEW p \in Pd, ExecNext(p)  PROVE ExecInv'
      <3>1. /\ exec = "scan" /\ count < MaxPerTick /\ batch' \in SUBSET Pd
            /\ UNCHANGED <<done, recent>>
        BY <2>3 DEF ExecNext, Room
      <3>2. Cardinality(done') = Cardinality(done)  BY <3>1
      <3>3. CASE stale' = stale \cup {p} /\ count' = count + 1
                 /\ UNCHANGED <<exec, cur>>
        <4>1. IsFiniteSet(done) /\ Cardinality(done) \in Nat
          BY FS_Subset, FS_CardinalityType
        <4>2. QED BY <3>1, <3>2, <3>3, <4>1
      <3>4. CASE cur' = p /\ exec' = "delete" /\ UNCHANGED <<stale, count>>
        BY <3>1, <3>2, <3>4
      <3>5. QED BY <2>3, <3>3, <3>4 DEF ExecNext
    <2>4. QED BY <1>4, <2>1, <2>2, <2>3 DEF ExecStep
  <1>5. CASE ExecLost  BY <1>5, FS_EmptySet DEF ExecLost, ExecIdle
  <1>6. CASE Api
    BY <1>6 DEF Api, CancelPending, ExecutePendingNow, KeepUntil, RemoveKeep,
                Viewer, PutSettings
  <1>7. CASE Day
    <2>1. recent' \in 0..recent /\ UNCHANGED execVars  BY <1>7 DEF Day
    <2>2. QED BY <2>1
  <1>8. CASE UNCHANGED vars  BY <1>8 DEF vars
  <1>9. QED BY <1>1, <1>2, <1>3, <1>4, <1>5, <1>6, <1>7, <1>8 DEF Next

LEMMA ExecInvariant == Spec => []ExecInv
  BY ExecInit, ExecInvStep, PTL DEF Spec

\* While no tick is lost, no more titles are deleted within 24 hours than the two
\* limits allow together: those on record and those of the tick under way.
THEOREM RetentionCap == Spec => []SoftCap
  <1>1. ASSUME ExecInv  PROVE SoftCap
    <2>1. IsFiniteSet(done)
      BY <1>1, SetsAssumption, FS_Subset DEF ExecInv
    <2>2. Cardinality(done) \in Nat  BY <2>1, FS_CardinalityType
    <2>3. CASE exec = "idle"
      BY <1>1, <2>3, FS_EmptySet, Limits DEF ExecInv, SoftCap
    <2>4. CASE exec # "idle"
      <3>1. recent \in Nat /\ recent <= MaxPerDay
        BY <1>1, <2>4 DEF ExecInv
      <3>2. count \in Nat /\ Cardinality(done) <= count /\ count <= MaxPerTick
        BY <1>1, Limits DEF ExecInv
      <3>3. QED BY <2>2, <3>1, <3>2, Limits DEF SoftCap
    <2>5. QED BY <2>3, <2>4
  <1>2. QED BY <1>1, ExecInvariant, PTL

-----------------------------------------------------------------------------
(* The table of announcements.                                             *)

\* A step's new rows: an announcement of one of I that had none, or no new
\* open row.
Opens(rows, I, why) ==
  \A p \in Pd : rows[p].state = "open" =>
    \/ Open(p) /\ rows[p].item = pd[p].item /\ rows[p].why = pd[p].why
    \/ ~Open(p) /\ rows[p].item \in I /\ rows[p].why = why

LEMMA AnnouncedKeeps ==
  ASSUME RowInv, OneOpen,
         NEW I \in SUBSET Item, NEW why \in {"ttl", "pressure"},
         NEW left \in 0..Grace, NEW rows \in Announced(I, why, left),
         \A i \in I : ~HasOpen(i)
  PROVE  /\ rows \in [Pd -> Row]
         /\ \A p \in Pd : rows[p].state # "closed" => rows[p].item \in Item
         /\ \A p \in Pd : p \in Held => rows[p].state # "closed"
         /\ Opens(rows, I, why)
         /\ \A p, q \in Pd :
              /\ rows[p].state = "open" /\ rows[q].state = "open"
              /\ rows[p].item = rows[q].item
              => p = q
  <1>0. pd \in [Pd -> Row]  BY DEF RowInv, Fresh
  <1>1. Fresh(rows, I, why, left)
    BY <1>0, AnnouncedRows
  <1>2. \A p \in Pd : rows[p].state # "closed" => rows[p].item \in Item
    BY <1>1 DEF RowInv, Fresh
  <1>3. \A p \in Pd : p \in Held => rows[p].state # "closed"
    BY <1>1 DEF RowInv, Fresh
  <1>4. Opens(rows, I, why)
    BY <1>1 DEF Opens, Open, NoRow, Fresh
  <1>5. ASSUME NEW p \in Pd, NEW q \in Pd,
               rows[p].state = "open", rows[q].state = "open",
               rows[p].item = rows[q].item
        PROVE  p = q
    <2>1. CASE rows[p] = pd[p] /\ rows[q] = pd[q]
      BY <1>5, <2>1 DEF OneOpen, Open
    <2>2. CASE rows[p] # pd[p] /\ rows[q] # pd[q]
      BY <1>1, <1>5, <2>2 DEF Fresh
    <2>3. CASE rows[p] # pd[p] /\ rows[q] = pd[q]
      BY <1>1, <1>5, <2>3 DEF HasOpen, Open, Fresh
    <2>4. CASE rows[p] = pd[p] /\ rows[q] # pd[q]
      BY <1>1, <1>5, <2>4 DEF HasOpen, Open, Fresh
    <2>5. QED BY <2>1, <2>2, <2>3, <2>4
  <1>6. QED BY <1>1, <1>2, <1>3, <1>4, <1>5 DEF Fresh

\* Opening no row keeps announcements unique.
LEMMA NothingOpened ==
  ASSUME OneOpen, Opens(pd', {}, "ttl")
  PROVE  OneOpen'
  <1>1. \A p \in Pd : pd'[p].state = "open" =>
          Open(p) /\ pd'[p].item = pd[p].item
    BY DEF Opens
  <1>2. QED BY <1>1 DEF OneOpen, Open

TableInv == RowInv /\ OneOpen

LEMMA NoRowType == NoRow \in Row /\ NoRow.state = "closed"
  BY Limits DEF NoRow, Row

LEMMA TableInit == Init => TableInv
  <1> SUFFICES ASSUME Init  PROVE TableInv
    OBVIOUS
  <1>1. pd = [p \in Pd |-> NoRow] /\ unlogged = {} /\ Held = {NoPd}
    BY DEF Init, Held
  <1>2. QED BY <1>1, NoRowType, SetsAssumption DEF TableInv, RowInv, OneOpen, Open

LEMMA TablePlan ==
  ASSUME TableInv, PlanRun
  PROVE  TableInv' /\ Opens(pd', Promoted, "ttl")
  <1>1. CASE pd' \in Announced(Promoted, "ttl", Grace)
    <2>1. Promoted \in SUBSET Item /\ \A i \in Promoted : ~HasOpen(i)
      BY DEF Promoted
    <2>2. Grace \in 0..Grace  BY Limits
    <2>3. /\ pd' \in [Pd -> Row]
          /\ \A p \in Pd : pd'[p].state # "closed" => pd'[p].item \in Item
          /\ \A p \in Pd : p \in Held => pd'[p].state # "closed"
          /\ Opens(pd', Promoted, "ttl")
          /\ \A p, q \in Pd :
               /\ pd'[p].state = "open" /\ pd'[q].state = "open"
               /\ pd'[p].item = pd'[q].item
               => p = q
      BY <1>1, <2>1, <2>2, AnnouncedKeeps DEF TableInv
    <2>4. UNCHANGED <<batch, cur, stale, done, unlogged>>  BY DEF PlanRun
    <2>5. QED BY <2>3, <2>4 DEF TableInv, RowInv, OneOpen, Open, Held
  <1>2. CASE UNCHANGED pd
    <2>1. UNCHANGED <<batch, cur, stale, done, unlogged>>  BY DEF PlanRun
    <2>2. QED BY <1>2, <2>1 DEF TableInv, RowInv, OneOpen, Open, Held, Opens
  <1>3. QED BY <1>1, <1>2 DEF PlanRun

\* What ApplyStart does to the table: the boost's announcements, of which a dry
\* run at once drops some that were due.
LEMMA TableApply ==
  ASSUME TableInv, ExecInv, ApplyStart
  PROVE  TableInv' /\ Opens(pd', {i \in Item : class[i] = "eligible"}, "pressure")
  <1> DEFINE El == {i \in Item : class[i] = "eligible"}
  <1>1. CASE Trip
    BY <1>1 DEF Trip, TableInv, RowInv, OneOpen, Open, Held, Opens
  <1>2. CASE ~Trip
    <2>1. PICK S \in Boosts :
            \E rows \in Announced({i \in S : ~HasOpen(i)}, "pressure", 0) :
              Select(rows) \/ DryRun(rows)
      BY <1>2 DEF ApplyStart
    <2> DEFINE New == {i \in S : ~HasOpen(i)}
    <2>2. PICK rows \in Announced(New, "pressure", 0) :
              Select(rows) \/ DryRun(rows)
      BY <2>1
    <2>3. New \in SUBSET El  BY DEF Boosts
    <2>4. New \in SUBSET Item /\ (\A i \in New : ~HasOpen(i)) /\ 0 \in 0..Grace
      BY <2>3, Limits
    <2> HIDE DEF New
    <2>5. /\ rows \in [Pd -> Row]
          /\ \A p \in Pd : rows[p].state # "closed" => rows[p].item \in Item
          /\ Opens(rows, New, "pressure")
          /\ \A p, q \in Pd :
               /\ rows[p].state = "open" /\ rows[q].state = "open"
               /\ rows[p].item = rows[q].item
               => p = q
      BY <2>4, AnnouncedKeeps DEF TableInv
    <2>6. /\ batch = {} /\ cur = NoPd /\ stale = {} /\ done = {}
          /\ UNCHANGED <<cur, stale, done, unlogged>>
      BY <1>2 DEF ApplyStart, ExecInv
    <2>7. Opens(rows, El, "pressure")  BY <2>3, <2>5 DEF Opens
    <2>8. CASE Select(rows)
      <3>1. batch' = Due(rows) /\ pd' = rows  BY <2>8 DEF Select
      <3>2. \A p \in Pd : p \in Held' => pd'[p].state # "closed"
        BY <2>6, <3>1, SetsAssumption DEF Held, Due
      <3>3. QED BY <2>5, <2>6, <2>7, <3>1, <3>2 DEF TableInv, RowInv, OneOpen, Open
    <2>9. CASE DryRun(rows)
      <3>0. PICK K : pd' = [p \in Pd |-> IF p \in K THEN NoRow ELSE rows[p]]
        BY <2>9 DEF DryRun
      <3>1. \A p \in Pd : p \notin Held'
        BY <2>6, <2>9, SetsAssumption DEF Held, DryRun
      <3>2. \A p \in Pd : pd'[p] = NoRow \/ pd'[p] = rows[p]  BY <3>0
      <3>3. pd' \in [Pd -> Row]  BY <2>5, <3>0, NoRowType
      <3>4. OneOpen'  BY <2>5, <3>2, NoRowType DEF OneOpen, Open
      <3>5. Opens(pd', El, "pressure")  BY <2>7, <3>2, NoRowType DEF Opens
      <3>6. RowInv'  BY <2>5, <2>6, <3>1, <3>2, <3>3, NoRowType DEF RowInv, TableInv
      <3>7. QED BY <3>4, <3>5, <3>6 DEF TableInv
    <2>10. QED BY <2>2, <2>8, <2>9
  <1>3. QED BY <1>1, <1>2

\* All other steps open nothing.
LEMMA TableExec ==
  ASSUME TableInv, ExecInv, ExecStep \/ ExecLost
  PROVE  TableInv' /\ Opens(pd', {}, "ttl")
  <1>1. CASE ExecDelete
    <2>1. /\ UNCHANGED <<pd, batch, stale>> /\ cur' = NoPd
          /\ done' \subseteq done \cup {cur}
          /\ unlogged' \in {unlogged, unlogged \cup {pd[cur].item}}
      BY <1>1 DEF ExecDelete
    <2>2. cur \in Pd /\ pd[cur].item \in Item
      BY <1>1 DEF ExecDelete, ExecInv, TableInv, RowInv, Held
    <2>3. \A p \in Pd : p \in Held' => p \in Held
      BY <2>1, SetsAssumption DEF Held
    <2>4. QED BY <2>1, <2>2, <2>3 DEF TableInv, RowInv, OneOpen, Open, Opens
  <1>2. ASSUME NEW p \in Pd, ExecNext(p)
        PROVE  TableInv' /\ Opens(pd', {}, "ttl")
    <2>1. UNCHANGED <<pd, done, unlogged>> /\ Held' \subseteq Held \cup {NoPd}
      BY <1>2 DEF ExecNext, Held
    <2>2. QED BY <2>1, SetsAssumption DEF TableInv, RowInv, OneOpen, Open, Opens
  <1>3. CASE ExecEnd \/ ExecLost
    <2>1. PICK C : pd' = LetGo(C)  BY <1>3 DEF ExecEnd, ExecLost
    <2>2. \A p \in Pd : pd'[p] = NoRow \/ (pd'[p] = pd[p] /\ Open(p))
      BY <2>1 DEF LetGo, Open
    <2>3. pd' \in [Pd -> Row]
      BY <2>1, NoRowType DEF LetGo, TableInv, RowInv
    <2>4. Held' = {NoPd} /\ unlogged' \subseteq unlogged
      BY <1>3 DEF ExecEnd, ExecLost, ExecIdle, Held
    <2>5. RowInv'
      BY <2>2, <2>3, <2>4, NoRowType, SetsAssumption DEF TableInv, RowInv
    <2>6. Opens(pd', {}, "ttl")  BY <2>2, NoRowType DEF Opens
    <2>7. OneOpen'  BY <2>6, NothingOpened DEF TableInv
    <2>8. QED BY <2>5, <2>6, <2>7 DEF TableInv
  <1>4. QED BY <1>1, <1>2, <1>3 DEF ExecStep

KeepsShut == \A p \in Pd : Open(p)' => Open(p)

LEMMA TableOthers ==
  ASSUME TableInv, PlanStart \/ Day \/ Api \/ UNCHANGED vars
  PROVE  TableInv' /\ KeepsShut
  <1>1. ASSUME UNCHANGED <<pd, execVars, unlogged>>
        PROVE  TableInv' /\ KeepsShut
    BY <1>1 DEF TableInv, RowInv, OneOpen, Open, Held, KeepsShut
  <1>2. CASE PlanStart
    BY <1>1, <1>2 DEF PlanStart, Trip
  <1>3. ASSUME NEW p \in Pd, CancelPending(p)
        PROVE  TableInv' /\ KeepsShut
    <2>1. /\ UNCHANGED <<execVars, unlogged>> /\ pd \in [Pd -> Row]
          /\ \A q \in Pd : q # p => pd'[q] = pd[q]
          /\ pd' \in [Pd -> Row]
          /\ pd'[p].state # "open"
          /\ pd'[p].state # "closed" => pd'[p].item = pd[p].item /\ Open(p)
          /\ p \in Held => pd'[p].state # "closed"
      BY <1>3, NoRowType DEF CancelPending, TableInv, RowInv, Row
    <2>2. RowInv'  BY <2>1 DEF TableInv, RowInv, Held, Open
    <2>3. Opens(pd', {}, "pressure") /\ Opens(pd', {}, "ttl")
      BY <2>1 DEF Opens, Open
    <2>4. QED BY <2>1, <2>2, <2>3, NothingOpened DEF TableInv, KeepsShut, Open
  <1>4. ASSUME NEW p \in Pd, ExecutePendingNow(p)
        PROVE  TableInv' /\ KeepsShut
    <2>1. /\ UNCHANGED <<execVars, unlogged>> /\ pd \in [Pd -> Row]
          /\ \A q \in Pd : q # p => pd'[q] = pd[q]
          /\ pd' \in [Pd -> Row] /\ pd'[p].state = "open" /\ Open(p)
          /\ pd'[p].item = pd[p].item
      <3>1. pd \in [Pd -> Row] /\ Open(p) /\ UNCHANGED <<execVars, unlogged>>
        BY <1>4 DEF ExecutePendingNow, TableInv, RowInv
      <3>2. pd' = [pd EXCEPT ![p] = [pd[p] EXCEPT !.left = 0, !.why = "forced"]]
        BY <1>4, <3>1 DEF ExecutePendingNow, Row
      <3>3. [pd[p] EXCEPT !.left = 0, !.why = "forced"] \in Row
        <4>1. pd[p] \in Row /\ 0 \in 0..Grace  BY <3>1, <1>4, Limits
        <4>2. QED BY <4>1 DEF Row
      <3>4. pd'[p] = [pd[p] EXCEPT !.left = 0, !.why = "forced"]  BY <3>1, <3>2
      <3>5. pd'[p].state = pd[p].state /\ pd'[p].item = pd[p].item
        BY <3>1, <3>4 DEF Row
      <3>6. QED BY <3>1, <3>2, <3>3, <3>5 DEF Open
    <2>2. RowInv'  BY <2>1 DEF TableInv, RowInv, Held, Open
    <2>3. OneOpen'  BY <2>1 DEF TableInv, OneOpen, Open
    <2>4. QED BY <2>1, <2>2, <2>3 DEF TableInv, KeepsShut, Open
  <1>5. CASE Day
    <2>1. UNCHANGED <<execVars, unlogged>> /\ pd \in [Pd -> Row]
      BY <1>5 DEF Day, TableInv, RowInv
    <2>2. ASSUME NEW p \in Pd
          PROVE  /\ pd'[p] \in Row /\ pd'[p].state = pd[p].state
                 /\ pd'[p].item = pd[p].item /\ pd'[p].why = pd[p].why
      <3>1. pd'[p] = IF Open(p)
                     THEN [pd[p] EXCEPT !.left = Less(@),
                             !.shown = IF @ < Grace THEN @ + 1 ELSE @]
                     ELSE pd[p]
        BY <1>5 DEF Day
      <3>2. Less(pd[p].left) \in 0..Grace
        BY <2>1, Limits DEF Row, Less
      <3>3. (IF pd[p].shown < Grace THEN pd[p].shown + 1 ELSE pd[p].shown) \in 0..Grace
        BY <2>1, Limits DEF Row
      <3>4. QED BY <2>1, <3>1, <3>2, <3>3 DEF Row
    <2>3. pd' \in [Pd -> Row]
      BY <1>5, <2>2 DEF Day
    <2>4. RowInv'  BY <2>1, <2>2, <2>3 DEF TableInv, RowInv, Held
    <2>5. Opens(pd', {}, "pressure") /\ Opens(pd', {}, "ttl")
      BY <2>2 DEF Opens, Open
    <2>6. QED BY <2>2, <2>4, <2>5, NothingOpened DEF TableInv, KeepsShut, Open
  <1>6. CASE UNCHANGED vars  BY <1>1, <1>6 DEF vars
  <1>7. ASSUME NEW i \in Item, KeepUntil(i) \/ RemoveKeep(i) \/ Viewer(i)
        PROVE  TableInv' /\ KeepsShut
    BY <1>1, <1>7 DEF KeepUntil, RemoveKeep, Viewer
  <1>8. CASE PutSettings  BY <1>1, <1>8 DEF PutSettings
  <1>9. QED BY <1>2, <1>3, <1>4, <1>5, <1>6, <1>7, <1>8 DEF Api

LEMMA TableStep == TableInv /\ ExecInv /\ [Next]_vars => TableInv'
  BY TablePlan, TableApply, TableExec, TableOthers DEF Next

LEMMA TableInvariant == Spec => []TableInv
  BY TableInit, TableStep, ExecInvariant, PTL DEF Spec

\* No two announcements of one title are open, whatever the planner, the boost,
\* the executor and the API do to the table between each other's awaits.
THEOREM RetentionOneOpen == Spec => []OneOpen
  <1>1. TableInv => OneOpen  BY DEF TableInv
  <1>2. QED BY <1>1, TableInvariant, PTL

\* The state stays within its types; in particular no tick counts beyond its
\* limit.
THEOREM RetentionTypes == Spec => []TypeOK
  <1>1. Spec => []Types  BY TypesInit, TypesStep, PTL DEF Spec
  <1>2. Types /\ ExecInv /\ TableInv => TypeOK
    BY DEF Types, ExecInv, TableInv, RowInv, TypeOK
  <1>3. QED BY <1>1, <1>2, ExecInvariant, TableInvariant, PTL

-----------------------------------------------------------------------------
(* What the planner remembers.                                             *)

\* A title has been eligible since some tick only if the last verdict on it
\* was "eligible"; one whose pin the last tick saw is not up for deletion.
Remembered ==
  /\ \A i \in Item : since[i] => streak[i] >= 1
  /\ \A i \in Item : seenPin[i] => class[i] \notin {"eligible", "pending_delete"}

LEMMA RememberedStep ==
  Remembered /\ Types /\ [Next]_vars => Remembered'
  <1> SUFFICES ASSUME Remembered, Types, [Next]_vars  PROVE Remembered'
    OBVIOUS
  <1> USE DEF Remembered
  <1>1. ASSUME UNCHANGED <<since, class, streak, seenPin>>  PROVE Remembered'
    BY <1>1
  <1>2. CASE PlanRun
    <2>1. CASE UNCHANGED <<stateVars, streak, seenPin>>  BY <1>1, <2>1
    <2>2. CASE ~UNCHANGED <<stateVars, streak, seenPin>>
      <3>1. /\ class' = [i \in Item |-> IF i \in Promoted THEN "pending_delete"
                                        ELSE Verdict(i)]
            /\ since' = [i \in Item |-> EligibleSince(i)]
            /\ streak' = [i \in Item |-> IF Verdict(i) # "eligible" THEN 0
                                         ELSE IF streak[i] = 0 THEN 1 ELSE 2]
            /\ seenPin' = [i \in Item |-> pin[i] > 0]
        BY <1>2, <2>2 DEF PlanRun
      <3>2. ASSUME NEW i \in Item
            PROVE  since'[i] => streak'[i] >= 1
        <4>1. since'[i] => Verdict(i) = "eligible"
          BY <3>1, <3>2, Zenon DEF EligibleSince
        <4>2. Verdict(i) = "eligible" => streak'[i] \in {1, 2}
          BY <3>1, <3>2
        <4>3. QED BY <4>1, <4>2
      <3>3. ASSUME NEW i \in Item, seenPin'[i]
            PROVE  class'[i] \notin {"eligible", "pending_delete"}
        <4>0. pin[i] > 0  BY <3>1, <3>3, Zenon
        <4>1. pin[i] \in Nat  BY Limits DEF Types
        <4>2. Verdict(i) \notin {"eligible", "pending_delete"}
          BY <4>0, <4>1, VerdictType
        <4>3. i \notin Promoted  BY <4>2 DEF Promoted
        <4>4. QED BY <3>1, <4>2, <4>3
      <3>4. QED BY <3>2, <3>3
    <2>3. QED BY <2>1, <2>2
  <1>3. CASE ApplyStart
    <2>1. CASE Trip  BY <1>1, <2>1 DEF Trip
    <2>2. CASE ~Trip
      <3>1. UNCHANGED <<since, streak, seenPin>>
        BY <1>3, <2>2 DEF ApplyStart
      <3>2. PICK S \in Boosts :
              class' = [i \in Item |-> IF i \in {k \in S : ~HasOpen(k)}
                                       THEN "pending_delete" ELSE class[i]]
        BY <1>3, <2>2 DEF ApplyStart
      <3>3. \A i \in S : class[i] = "eligible"  BY DEF Boosts
      <3>4. QED BY <3>1, <3>2, <3>3
    <2>3. QED BY <2>1, <2>2
  <1>4. CASE ExecEnd
    <2>1. UNCHANGED <<since, streak, seenPin>>
          /\ \A i \in Item : class'[i] \in {class[i], "keep"}
      BY <1>4 DEF ExecEnd, Executed
    <2>2. QED BY <2>1
  <1>5. CASE Day
    <2>1. UNCHANGED <<since, streak, class>>
          /\ \A i \in Item : seenPin'[i] => seenPin[i]
      BY <1>5 DEF Day
    <2>2. QED BY <2>1
  <1>6. ASSUME NEW i \in Item, RemoveKeep(i)  PROVE Remembered'
    <2>1. UNCHANGED <<since, streak, class>>
          /\ \A k \in Item : seenPin'[k] => seenPin[k]
      BY <1>6, Zenon DEF RemoveKeep, Types
    <2>2. QED BY <2>1
  <1>7. CASE PlanStart \/ ExecDelete \/ ExecLost \/ PutSettings \/ UNCHANGED vars
    BY <1>1, <1>7 DEF PlanStart, Trip, ExecDelete, ExecLost, PutSettings, vars
  <1>8. ASSUME NEW p \in Pd, ExecNext(p) \/ CancelPending(p) \/ ExecutePendingNow(p)
        PROVE  Remembered'
    BY <1>1, <1>8 DEF ExecNext, CancelPending, ExecutePendingNow
  <1>9. ASSUME NEW i \in Item, KeepUntil(i) \/ Viewer(i)  PROVE Remembered'
    BY <1>1, <1>9 DEF KeepUntil, Viewer
  <1>10. QED
    BY <1>2, <1>3, <1>4, <1>5, <1>6, <1>7, <1>8, <1>9 DEF Next, ExecStep, Api

LEMMA RememberedInvariant == Spec => [](Remembered /\ Types)
  <1>1. Init => Remembered  BY DEF Init, Remembered
  <1>2. QED BY <1>1, RememberedStep, TypesInit, TypesStep, PTL DEF Spec

\* A TTL deletion is announced only after two consecutive verdicts "eligible".
THEOREM RetentionTwoTicks == Spec => TwoTicks
  <1> DEFINE Step ==
        \A p \in Pd : ~Open(p) /\ Open(p)' /\ pd'[p].why = "ttl" =>
          streak'[pd'[p].item] = 2
  <1>1. ASSUME Remembered, Types, TableInv, ExecInv, [Next]_vars
        PROVE  [Step]_vars
    <2>1. CASE PlanRun
      <3>1. CASE UNCHANGED pd  BY <3>1 DEF Open
      <3>2. CASE ~UNCHANGED pd
        <4>1. streak' = [i \in Item |-> IF Verdict(i) # "eligible" THEN 0
                                        ELSE IF streak[i] = 0 THEN 1 ELSE 2]
          BY <2>1, <3>2 DEF PlanRun
        <4>2. \A i \in Promoted : i \in Item /\ streak'[i] = 2
          BY <1>1, <4>1 DEF Promoted, Remembered
        <4>3. \A p \in Pd : ~Open(p) /\ Open(p)' => pd'[p].item \in Promoted
          BY <1>1, <2>1, TablePlan DEF Opens, Open
        <4>4. QED BY <4>2, <4>3
      <3>3. QED BY <3>1, <3>2
    <2>2. CASE ApplyStart
      BY <1>1, <2>2, TableApply DEF Opens, Open
    <2>3. CASE ExecStep \/ ExecLost
      BY <1>1, <2>3, TableExec DEF Opens, Open
    <2>4. CASE PlanStart \/ Day \/ Api \/ UNCHANGED vars
      BY <1>1, <2>4, TableOthers DEF KeepsShut
    <2>5. QED BY <1>1, <2>1, <2>2, <2>3, <2>4 DEF Next
  <1>2. QED
    BY <1>1, RememberedInvariant, TableInvariant, ExecInvariant, PTL
       DEF Spec, TwoTicks

\* Only a step to the next due row begins a deletion.
LEMMA DeletionBegins ==
  ASSUME [Next]_vars, exec = "scan", exec' = "delete"
  PROVE  \E p \in Pd : /\ ExecNext(p) /\ p \in batch /\ cur' = p
                       /\ class[pd[p].item] = "pending_delete"
  <1>1. PICK p \in Pd : ExecNext(p)
    BY DEF Next, PlanStart, PlanRun, ApplyStart, Trip, Select, DryRun,
           ExecStep, ExecDelete, ExecEnd, ExecLost, ExecIdle, Api,
           CancelPending, ExecutePendingNow, KeepUntil, RemoveKeep,
           Viewer, PutSettings, Day, vars
  <1>2. QED BY <1>1 DEF ExecNext

\* A pin that the planner has seen keeps the executor away from the title until
\* it runs out.
THEOREM RetentionSeenPinHolds == Spec => SeenPinHolds
  <1>1. ASSUME Remembered, TableInv, [Next]_vars, exec = "scan", exec' = "delete"
        PROVE  ~seenPin[pd[cur'].item]
    <2>1. PICK p \in Pd : cur' = p /\ p \in batch
                           /\ class[pd[p].item] = "pending_delete"
      BY <1>1, DeletionBegins
    <2>2. pd[p].item \in Item
      BY <1>1, <2>1 DEF TableInv, RowInv, Held
    <2>3. QED BY <1>1, <2>1, <2>2 DEF Remembered
  <1>2. QED
    BY <1>1, RememberedInvariant, TableInvariant, PTL DEF Spec, SeenPinHolds

-----------------------------------------------------------------------------
(* The grace period.                                                       *)

\* The days an announcement was on show and those it has left add up to the
\* grace period; only rows with none left are in the executor's hands.
GraceRow(r) == r.state # "closed" /\ r.why = "ttl" => r.left + r.shown >= Grace

Counted ==
  /\ \A p \in Pd : GraceRow(pd[p])
  /\ \A p \in batch : pd[p].left = 0

\* Fresh rows are either counted from the full period or not a TTL's.
LEMMA FreshCounted ==
  ASSUME Counted, RowInv, batch \in SUBSET Pd,
         NEW I \in SUBSET Item, NEW why \in {"ttl", "pressure"},
         NEW left \in 0..Grace, why = "ttl" => left = Grace,
         NEW rows \in Announced(I, why, left)
  PROVE  /\ rows \in [Pd -> Row]
         /\ \A p \in Pd : GraceRow(rows[p])
         /\ \A p \in batch : rows[p].left = 0
  <1>1. pd \in [Pd -> Row]  BY DEF RowInv
  <1>2. Fresh(rows, I, why, left)  BY <1>1, AnnouncedRows
  <1>3. rows \in [Pd -> Row]  BY <1>2 DEF Fresh
  <1>4. ASSUME NEW p \in Pd
        PROVE  GraceRow(rows[p]) /\ (p \in Held => rows[p] = pd[p])
    <2>1. CASE rows[p] = pd[p]  BY <2>1 DEF Counted
    <2>2. CASE rows[p] # pd[p]
      <3>1. rows[p].why = why /\ rows[p].left = left /\ p \notin Held
        BY <1>2, <2>2 DEF Fresh
      <3>2. rows[p] \in Row  BY <1>3
      <3>3. rows[p].shown \in Nat  BY <3>2, Limits DEF Row
      <3>4. QED BY <3>1, <3>3, Limits DEF GraceRow
    <2>3. QED BY <2>1, <2>2
  <1>5. QED BY <1>3, <1>4 DEF Counted, Held

LEMMA CountedStep ==
  Counted /\ TableInv /\ ExecInv /\ [Next]_vars => Counted'
  <1> SUFFICES ASSUME Counted, TableInv, ExecInv, [Next]_vars  PROVE Counted'
    OBVIOUS
  <1>0. pd \in [Pd -> Row] /\ batch \in SUBSET Pd /\ RowInv
    BY DEF TableInv, RowInv, ExecInv
  <1>n. GraceRow(NoRow)  BY DEF GraceRow, NoRow
  <1>1. ASSUME UNCHANGED pd, batch' \subseteq batch  PROVE Counted'
    BY <1>1 DEF Counted
  <1>2. CASE PlanRun
    <2>1. CASE pd' \in Announced(Promoted, "ttl", Grace)
      <3>1. Promoted \in SUBSET Item /\ Grace \in 0..Grace
        BY Limits DEF Promoted
      <3>2. UNCHANGED batch  BY <1>2 DEF PlanRun
      <3>3. QED BY <1>0, <2>1, <3>1, <3>2, FreshCounted DEF Counted
    <2>2. CASE UNCHANGED pd  BY <1>1, <1>2, <2>2 DEF PlanRun
    <2>3. QED BY <1>2, <2>1, <2>2 DEF PlanRun
  <1>3. CASE ApplyStart
    <2>1. CASE Trip  BY <1>1, <2>1 DEF Trip
    <2>2. CASE ~Trip
      <3>1. PICK S \in Boosts :
              \E rows \in Announced({i \in S : ~HasOpen(i)}, "pressure", 0) :
                Select(rows) \/ DryRun(rows)
        BY <1>3, <2>2 DEF ApplyStart
      <3> DEFINE New == {i \in S : ~HasOpen(i)}
      <3>2. PICK rows \in Announced(New, "pressure", 0) :
              Select(rows) \/ DryRun(rows)
        BY <3>1
      <3>3. New \in SUBSET Item /\ 0 \in 0..Grace
        BY Limits DEF Boosts
      <3> HIDE DEF New
      <3>4. \A p \in Pd : GraceRow(rows[p])
        BY <1>0, <3>2, <3>3, FreshCounted
      <3>5. CASE Select(rows)
        <4>1. pd' = rows /\ batch' = Due(rows)  BY <3>5 DEF Select
        <4>2. \A p \in batch' : pd'[p].left = 0  BY <4>1 DEF Due
        <4>3. QED BY <3>4, <4>1, <4>2 DEF Counted
      <3>6. CASE DryRun(rows)
        <4>1. PICK K : pd' = [p \in Pd |-> IF p \in K THEN NoRow ELSE rows[p]]
          BY <3>6 DEF DryRun
        <4>2. batch' = {}
          BY <1>3, <2>2, <3>6 DEF DryRun, ApplyStart, ExecInv
        <4>3. \A p \in Pd : pd'[p] = NoRow \/ pd'[p] = rows[p]  BY <4>1
        <4>4. \A p \in Pd : GraceRow(pd'[p])  BY <1>n, <3>4, <4>3
        <4>5. QED BY <4>2, <4>4 DEF Counted
      <3>7. QED BY <3>2, <3>5, <3>6
    <2>3. QED BY <2>1, <2>2
  <1>4. CASE ExecDelete  BY <1>1, <1>4 DEF ExecDelete
  <1>5. ASSUME NEW p \in Pd, ExecNext(p)  PROVE Counted'
    BY <1>1, <1>5 DEF ExecNext
  <1>6. CASE ExecEnd \/ ExecLost
    <2>1. PICK C : pd' = LetGo(C) /\ batch' = {}
      BY <1>6 DEF ExecEnd, ExecLost, ExecIdle
    <2>2. \A p \in Pd : pd'[p] = NoRow \/ pd'[p] = pd[p]
      BY <2>1 DEF LetGo
    <2>3. \A p \in Pd : GraceRow(pd'[p])  BY <1>n, <2>2 DEF Counted
    <2>4. QED BY <2>1, <2>3 DEF Counted
  <1>7. ASSUME NEW p \in Pd, CancelPending(p)  PROVE Counted'
    <2>1. UNCHANGED batch /\ Open(p)
          /\ pd' = [pd EXCEPT ![p] = IF p \in Held THEN [@ EXCEPT !.state = "cancelled"]
                                    ELSE NoRow]
      BY <1>7 DEF CancelPending
    <2>2. \A q \in Pd : q # p => pd'[q] = pd[q]  BY <1>0, <2>1
    <2>3. CASE p \in Held
      <3>1. pd'[p] = [pd[p] EXCEPT !.state = "cancelled"] /\ pd[p] \in Row
        BY <1>0, <2>1, <2>3
      <3>2. pd'[p].left = pd[p].left /\ pd'[p].why = pd[p].why
            /\ pd'[p].shown = pd[p].shown
        BY <3>1 DEF Row
      <3>3. GraceRow(pd'[p])
        BY <2>1, <3>2 DEF Counted, GraceRow, Open
      <3>4. QED BY <1>0, <2>1, <2>2, <3>2, <3>3 DEF Counted
    <2>4. CASE p \notin Held
      <3>1. pd'[p] = NoRow /\ p \notin batch  BY <1>0, <2>1, <2>4 DEF Held
      <3>2. QED BY <1>0, <1>n, <2>1, <2>2, <3>1 DEF Counted
    <2>5. QED BY <2>3, <2>4
  <1>8. ASSUME NEW p \in Pd, ExecutePendingNow(p)  PROVE Counted'
    <2>1. UNCHANGED batch
          /\ pd' = [pd EXCEPT ![p] = [pd[p] EXCEPT !.left = 0, !.why = "forced"]]
      BY <1>0, <1>8 DEF ExecutePendingNow, Row
    <2>2. \A q \in Pd : q # p => pd'[q] = pd[q]  BY <1>0, <2>1
    <2>3. pd'[p] = [pd[p] EXCEPT !.left = 0, !.why = "forced"] /\ pd[p] \in Row
      BY <1>0, <1>8, <2>1
    <2>4. pd'[p].left = 0 /\ pd'[p].why = "forced"  BY <2>3 DEF Row
    <2>5. QED BY <1>0, <2>1, <2>2, <2>4 DEF Counted, GraceRow
  <1>9. CASE Day
    <2>1. ASSUME NEW p \in Pd
          PROVE  GraceRow(pd'[p]) /\ (pd[p].left = 0 => pd'[p].left = 0)
      <3>1. pd[p] \in Row /\ GraceRow(pd[p])  BY <1>0 DEF Counted
      <3>2. CASE ~Open(p)
        <4>1. pd'[p] = pd[p]  BY <1>9, <3>2 DEF Day
        <4>2. QED BY <3>1, <4>1
      <3>3. CASE Open(p)
        <4> DEFINE shown == IF pd[p].shown < Grace THEN pd[p].shown + 1
                            ELSE pd[p].shown
        <4>1. pd'[p] = [pd[p] EXCEPT !.left = Less(pd[p].left), !.shown = shown]
          BY <1>9, <3>1, <3>3 DEF Day, Row
        <4>2. /\ pd'[p].left = Less(pd[p].left) /\ pd'[p].shown = shown
              /\ pd'[p].why = pd[p].why /\ pd'[p].state = pd[p].state
          BY <3>1, <4>1 DEF Row
        <4>3. pd[p].left \in Nat /\ pd[p].shown \in Nat
          BY <3>1, Limits DEF Row
        <4>4. QED BY <3>1, <4>2, <4>3, Limits DEF GraceRow, Less
      <3>4. QED BY <3>2, <3>3
    <2>2. UNCHANGED batch  BY <1>9 DEF Day
    <2>3. QED BY <1>0, <2>1, <2>2 DEF Counted
  <1>10. CASE PlanStart \/ PutSettings \/ UNCHANGED vars
    BY <1>1, <1>10 DEF PlanStart, Trip, PutSettings, vars
  <1>11. ASSUME NEW i \in Item, KeepUntil(i) \/ RemoveKeep(i) \/ Viewer(i)
         PROVE  Counted'
    BY <1>1, <1>11 DEF KeepUntil, RemoveKeep, Viewer
  <1>12. QED
    BY <1>2, <1>3, <1>4, <1>5, <1>6, <1>7, <1>8, <1>9, <1>10, <1>11
       DEF Next, ExecStep, Api

LEMMA CountedInvariant == Spec => []Counted
  <1>1. Init => Counted  BY DEF Init, Counted, GraceRow, NoRow
  <1>2. QED BY <1>1, CountedStep, TableInvariant, ExecInvariant, PTL DEF Spec

\* No file is deleted for its TTL before its announcement was on show for the
\* whole grace period.
THEOREM RetentionGraceHeld == Spec => GraceHeld
  <1>1. ASSUME Counted, TableInv, ExecInv, [Next]_vars,
               exec = "scan", exec' = "delete"
        PROVE  pd[cur'].why # "ttl" \/ pd[cur'].shown >= Grace
    <2>1. PICK p \in Pd : p \in batch /\ cur' = p  BY <1>1, DeletionBegins
    <2>2. pd[p].left = 0 /\ pd[p].state # "closed" /\ pd[p] \in Row
      BY <1>1, <2>1 DEF Counted, TableInv, RowInv, Held
    <2>3. pd[p].shown \in Nat  BY <2>2, Limits DEF Row
    <2>4. QED BY <1>1, <2>1, <2>2, <2>3, Limits DEF Counted, GraceRow
  <1>2. QED
    BY <1>1, CountedInvariant, TableInvariant, ExecInvariant, PTL
       DEF Spec, GraceHeld
-----------------------------------------------------------------------------
(* Why nothing is deleted for its TTL.                                     *)

\* The executor would carry the announcement out.
Marked(p) ==
  Open(p) /\ pd[p].why = "ttl" /\ class[pd[p].item] = "pending_delete"

\* A planner run marks a title only together with a new announcement, and takes
\* the mark from those it finds announced.  So a marked announcement is of today,
\* or of yesterday and the planner has not run yet; and the executor, which holds
\* what was due, holds none.
Lapsing ==
  /\ \A p \in Pd : enabled /\ Marked(p) =>
       pd[p].left = Grace \/ (pd[p].left + 1 = Grace /\ ~planned)
  /\ \A p \in batch : ~Marked(p)

LEMMA LapsingStep ==
  ASSUME Punctual, Grace >= 2, "settings" \notin Actors,
         Lapsing, Types, TableInv, ExecInv, [Next]_vars
  PROVE  Lapsing'
  <1>0. pd \in [Pd -> Row] /\ batch \in SUBSET Pd /\ RowInv
    BY DEF TableInv, RowInv, ExecInv
  <1>1. ASSUME enabled' => enabled, UNCHANGED planned, batch' \subseteq batch,
               \A p \in Pd : Marked(p)' => Marked(p) /\ pd'[p].left = pd[p].left
        PROVE  Lapsing'
    BY <1>0, <1>1 DEF Lapsing
  <1>2. CASE PlanRun
    <2>1. CASE Locked /\ UNCHANGED <<pd, stateVars, planned>>
      BY <1>1, <1>2, <2>1 DEF PlanRun, Marked, Open
    <2>2. CASE ~(Locked /\ UNCHANGED <<pd, stateVars, planned>>)
      <3>1. /\ pd' \in Announced(Promoted, "ttl", Grace)
            /\ class' = [i \in Item |-> IF i \in Promoted THEN "pending_delete"
                                        ELSE Verdict(i)]
            /\ UNCHANGED batch
        BY <1>2, <2>2 DEF PlanRun
      <3>2. Promoted \in SUBSET Item /\ Grace \in 0..Grace
        BY Limits DEF Promoted
      <3>3. Fresh(pd', Promoted, "ttl", Grace)
        BY <1>0, <3>1, <3>2, AnnouncedRows
      <3>4. ASSUME NEW p \in Pd, Open(p), pd'[p] = pd[p]  PROVE ~Marked(p)'
        <4>1. pd[p].item \in Item  BY <1>0, <3>4 DEF RowInv, Open
        <4>2. pd[p].item \notin Promoted  BY <3>4 DEF Promoted, HasOpen
        <4>3. class'[pd[p].item] # "pending_delete"
          BY <3>1, <4>1, <4>2, VerdictType
        <4>4. QED BY <3>4, <4>3 DEF Marked
      <3>5. ASSUME NEW p \in Pd, Marked(p)'
            PROVE  pd'[p].left = Grace /\ p \notin Held
        BY <3>3, <3>4, <3>5 DEF Fresh, Marked, Open
      <3>6. QED BY <1>0, <3>1, <3>5 DEF Lapsing, Held
    <2>3. QED BY <2>1, <2>2
  <1>3. CASE ApplyStart
    <2>1. CASE Trip  BY <1>1, <2>1 DEF Trip, Marked, Open
    <2>2. CASE ~Trip
      <3>1. PICK S \in Boosts :
              \E rows \in Announced({i \in S : ~HasOpen(i)}, "pressure", 0) :
                /\ class' = [i \in Item |-> IF i \in {k \in S : ~HasOpen(k)}
                                            THEN "pending_delete" ELSE class[i]]
                /\ Select(rows) \/ DryRun(rows)
        BY <1>3, <2>2 DEF ApplyStart
      <3> DEFINE New == {i \in S : ~HasOpen(i)}
      <3>2. PICK rows \in Announced(New, "pressure", 0) :
              /\ class' = [i \in Item |-> IF i \in New THEN "pending_delete"
                                          ELSE class[i]]
              /\ Select(rows) \/ DryRun(rows)
        BY <3>1
      <3>3. New \in SUBSET Item /\ 0 \in 0..Grace /\ \A i \in New : ~HasOpen(i)
        BY Limits DEF Boosts
      <3>4. enabled /\ UNCHANGED <<enabled, planned>> /\ batch = {}
        BY <1>3, <2>2 DEF ApplyStart, ExecInv
      <3> HIDE DEF New
      <3>5. Fresh(rows, New, "pressure", 0)
        BY <1>0, <3>2, <3>3, AnnouncedRows
      <3>6. \A p \in Pd : pd'[p] = NoRow \/ pd'[p] = rows[p]
        BY <3>2 DEF Select, DryRun
      <3>7. ASSUME NEW p \in Pd, Marked(p)'
            PROVE  Marked(p) /\ pd'[p] = pd[p]
        <4>1. pd'[p] = pd[p]
          BY <3>5, <3>6, <3>7 DEF Fresh, Marked, Open, NoRow
        <4>2. pd[p].item \in Item /\ Open(p)
          BY <1>0, <3>7, <4>1 DEF RowInv, Marked, Open
        <4>3. pd[p].item \notin New  BY <3>3, <4>2 DEF HasOpen
        <4>4. class'[pd[p].item] = class[pd[p].item]  BY <3>2, <4>2, <4>3
        <4>5. QED BY <3>7, <4>1, <4>2, <4>4 DEF Marked
      <3>8. CASE Select(rows)
        <4>1. batch' \subseteq Pd /\ \A p \in batch' : pd'[p].left = 0
          BY <3>8 DEF Select, Due
        <4>2. \A p \in batch' : ~Marked(p)'
          BY <3>4, <3>7, <4>1, Limits DEF Lapsing
        <4>3. QED BY <3>4, <3>7, <4>2 DEF Lapsing
      <3>9. CASE DryRun(rows)
        BY <1>1, <3>4, <3>7, <3>9 DEF DryRun
      <3>10. QED BY <3>2, <3>8, <3>9
    <2>3. QED BY <2>1, <2>2
  <1>4. CASE ExecEnd \/ ExecLost
    <2>1. PICK C : pd' = LetGo(C)  BY <1>4 DEF ExecEnd, ExecLost
    <2>2. \A p \in Pd : pd'[p] = NoRow \/ pd'[p] = pd[p]
      BY <2>1 DEF LetGo
    <2>3. /\ batch' = {} /\ UNCHANGED <<enabled, planned>>
          /\ \A i \in Item : class'[i] \in {class[i], "keep"}
      BY <1>4 DEF ExecEnd, ExecLost, ExecIdle, Executed
    <2>4. ASSUME NEW p \in Pd, Marked(p)'  PROVE Marked(p) /\ pd'[p] = pd[p]
      <3>1. pd'[p] = pd[p] /\ Open(p)  BY <2>2, <2>4 DEF Marked, Open, NoRow
      <3>2. pd[p].item \in Item  BY <1>0, <3>1 DEF RowInv, Open
      <3>3. QED BY <2>3, <2>4, <3>1, <3>2 DEF Marked
    <2>5. QED BY <1>1, <2>3, <2>4
  <1>5. ASSUME NEW p \in Pd, CancelPending(p) \/ ExecutePendingNow(p)
        PROVE  Lapsing'
    <2>1. UNCHANGED <<enabled, planned, class, batch>>
      BY <1>5 DEF CancelPending, ExecutePendingNow
    <2>2. \A q \in Pd : q # p => pd'[q] = pd[q]
      BY <1>0, <1>5 DEF CancelPending, ExecutePendingNow
    <2>3. ~Marked(p)'
      <3>1. CASE CancelPending(p)
        <4>1. pd'[p] = NoRow \/ pd'[p] = [pd[p] EXCEPT !.state = "cancelled"]
          BY <1>0, <3>1 DEF CancelPending
        <4>2. pd'[p].state # "open"  BY <1>0, <4>1 DEF Row, NoRow
        <4>3. QED BY <4>2 DEF Marked, Open
      <3>2. CASE ExecutePendingNow(p)
        <4>1. pd'[p] = [pd[p] EXCEPT !.left = 0, !.why = "forced"]
          BY <1>0, <3>2 DEF ExecutePendingNow, Row
        <4>2. pd'[p].why = "forced"  BY <1>0, <4>1 DEF Row
        <4>3. QED BY <4>2 DEF Marked
      <3>3. QED BY <1>5, <3>1, <3>2
    <2>4. QED BY <1>1, <2>1, <2>2, <2>3 DEF Marked, Open
  <1>6. CASE Day
    <2>1. /\ UNCHANGED <<enabled, class, batch>> /\ planned' = FALSE
          /\ enabled => planned
      BY <1>6 DEF Day
    <2>2. ASSUME NEW p \in Pd, Marked(p)'
          PROVE  Marked(p) /\ pd'[p].left = Less(pd[p].left)
      <3>1. pd'[p] = IF Open(p)
                     THEN [pd[p] EXCEPT !.left = Less(@),
                             !.shown = IF @ < Grace THEN @ + 1 ELSE @]
                     ELSE pd[p]
        BY <1>6 DEF Day
      <3>2. Open(p)  BY <2>2, <3>1 DEF Marked, Open
      <3>3. /\ pd'[p].state = pd[p].state /\ pd'[p].item = pd[p].item
            /\ pd'[p].why = pd[p].why /\ pd'[p].left = Less(pd[p].left)
        BY <1>0, <3>1, <3>2 DEF Row
      <3>4. QED BY <2>1, <2>2, <3>2, <3>3 DEF Marked
    <2>3. ASSUME NEW p \in Pd, enabled', Marked(p)'
          PROVE  pd'[p].left + 1 = Grace
      <3>1. pd[p].left = Grace  BY <2>1, <2>2, <2>3 DEF Lapsing
      <3>2. QED BY <2>2, <2>3, <3>1, Limits DEF Less
    <2>4. QED BY <1>0, <2>1, <2>2, <2>3 DEF Lapsing
  <1>7. ASSUME NEW p \in Pd, ExecNext(p)  PROVE Lapsing'
    BY <1>1, <1>7 DEF ExecNext, Marked, Open
  <1>8. ASSUME NEW i \in Item, KeepUntil(i) \/ RemoveKeep(i) \/ Viewer(i)
        PROVE  Lapsing'
    BY <1>1, <1>8 DEF KeepUntil, RemoveKeep, Viewer, Marked, Open
  <1>9. CASE PlanStart \/ ExecDelete \/ UNCHANGED vars
    BY <1>1, <1>9 DEF PlanStart, Trip, ExecDelete, vars, Marked, Open
  <1>10. ~PutSettings  BY DEF PutSettings
  <1>11. QED
    BY <1>2, <1>3, <1>4, <1>5, <1>6, <1>7, <1>8, <1>9, <1>10
       DEF Next, ExecStep, Api

\* A planner that runs every day takes the mark from every announcement before
\* it is due, so that the executor never carries out one that was made for a
\* title's TTL and is still open, although GraceHeld would allow it: what it
\* deletes was announced under disk pressure, hastened, or cancelled meanwhile.
THEOREM RetentionTtlLapses ==
  ASSUME Punctual, Grace >= 2, "settings" \notin Actors
  PROVE  Spec => TtlLapses
  <1>1. Init => Lapsing
    BY DEF Init, Lapsing, Marked, Open, NoRow
  <1>2. ASSUME Lapsing, TableInv, [Next]_vars, exec = "scan", exec' = "delete"
        PROVE  pd[cur'].why # "ttl" \/ ~Open(cur')
    BY <1>2, DeletionBegins DEF Lapsing, Marked
  <1>3. QED
    BY <1>1, <1>2, LapsingStep, RememberedInvariant, TableInvariant,
       ExecInvariant, PTL DEF Spec, TtlLapses
=============================================================================
