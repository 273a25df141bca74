---------------------------- MODULE MCEncodeJobs ----------------------------
(* EncodeJobs on small sets.  Jobs are numbered, titles interchangeable.   *)
EXTENDS EncodeJobs, TLC

Symmetry == Permutations(Source)
=============================================================================
