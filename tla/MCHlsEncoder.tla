---------------------------- MODULE MCHlsEncoder ----------------------------
(* HlsEncoder on the sets of the .cfg.  Jobs and sources are               *)
(* interchangeable, but the run checks liveness, where TLC knows no        *)
(* symmetry: the ids are handed out in one order instead, and the first    *)
(* job has one source.                                                     *)
EXTENDS HlsEncoder

InOrder(j, s) ==
  /\ \A k \in Job : k < j => encSource[k] # NoSource
  /\ (\A k \in Job : encSource[k] = NoSource) => s = CHOOSE t \in Source : TRUE

MCNext ==
  \/ \E j \in Job, s \in Source : InOrder(j, s) /\ CreateJob(j, s)
  \/ \E j \in Job : CancelJob(j)
  \/ EncoderRestart
  \/ EncoderStep

MCSpec == EncInit /\ [][MCNext]_encVars /\ EncoderFairness
=============================================================================
