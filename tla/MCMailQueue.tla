---------------------------- MODULE MCMailQueue ----------------------------
(***************************************************************************)
(* MailQueue on small sets.  Four jobs are one more than a queue of size   *)
(* two and its worker hold together, so that a full queue refuses; the     *)
(* liveness run has three jobs for a queue of size one for the same reason.*)
(***************************************************************************)
EXTENDS MailQueue, TLC

\* Jobs are interchangeable: no definition tells one from another.
JobSymmetry == Permutations(Jobs)
=============================================================================
