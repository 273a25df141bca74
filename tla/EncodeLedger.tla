----------------------------- MODULE EncodeLedger -----------------------------
(***************************************************************************)
(* What the jobs table promises about encodes, without the runner, the     *)
(* encoder or the faults between them: a row is queued once, dispatched at *)
(* most once, and settled at most once - DONE only on the encoder's word   *)
(* for that very job - unless it goes away together with its item.         *)
(***************************************************************************)
CONSTANTS Job, Title, NoTitle

VARIABLES
  row,      \* status of each row; "none" before it exists, "gone" after
  rowOf,    \* the title a row encodes
  report    \* what the encoder would answer for a job right now

ledgerVars == <<row, rowOf, report>>

RowStatus == {"none", "QUEUED", "RUNNING", "DONE", "FAILED", "gone"}
Exists(j) == row[j] \notin {"none", "gone"}

Init ==
  /\ row = [j \in Job |-> "none"]
  /\ rowOf = [j \in Job |-> NoTitle]
  /\ report = [j \in Job |-> "unknown"]

Queue(j, t) ==
  /\ row[j] = "none"
  /\ row' = [row EXCEPT ![j] = "QUEUED"]
  /\ rowOf' = [rowOf EXCEPT ![j] = t]
  /\ UNCHANGED report

Dispatch(j) ==
  /\ row[j] = "QUEUED"
  /\ row' = [row EXCEPT ![j] = "RUNNING"]
  /\ UNCHANGED <<rowOf, report>>

Settle(j) ==
  /\ row[j] = "RUNNING"
  /\ \/ report[j] = "done" /\ row' = [row EXCEPT ![j] = "DONE"]
     \/ row' = [row EXCEPT ![j] = "FAILED"]
  /\ UNCHANGED <<rowOf, report>>

\* The item goes, and every row of it (ON DELETE CASCADE).
Cascade(t) ==
  /\ row' = [j \in Job |->
               IF rowOf[j] = t /\ Exists(j) THEN "gone" ELSE row[j]]
  /\ UNCHANGED <<rowOf, report>>

\* The encoder is free to change its mind about jobs it was given, never to
\* take a cancellation back, and knows nothing of jobs not dispatched.
Encode ==
  /\ \A j \in Job :
       /\ report'[j] # report[j] => row[j] \notin {"none", "QUEUED"}
       /\ report[j] = "cancelled" => report'[j] \in {"cancelled", "unknown"}
  /\ UNCHANGED <<row, rowOf>>

Next ==
  \/ \E j \in Job, t \in Title : Queue(j, t)
  \/ \E j \in Job : Dispatch(j) \/ Settle(j)
  \/ \E t \in Title : Cascade(t)
  \/ Encode

Spec == Init /\ [][Next]_ledgerVars
=============================================================================
