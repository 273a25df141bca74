----------------------------- MODULE ReadThrough -----------------------------
(***************************************************************************)
(* What a page promises about a list it shows: it is the list as it was at *)
(* some moment, never one from before what was shown already, and it is    *)
(* forgotten as a whole.  Versions count the changes of the list, 0 is     *)
(* nothing shown.                                                          *)
(***************************************************************************)
EXTENDS Naturals

VARIABLES current, shown

RTInit == current = 1 /\ shown = 0

\* The list changes, whatever is shown.
Change == current' = current + 1 /\ UNCHANGED shown
\* The page takes over what the server answered.
Show   == shown' \in shown..current /\ UNCHANGED current
\* The page, or the cache behind it, is thrown away.
Forget == shown' = 0 /\ UNCHANGED current

RTNext == Change \/ Show \/ Forget
RTSpec == RTInit /\ [][RTNext]_<<current, shown>>
=============================================================================
