-------------------------- MODULE MCSchedulerFleet --------------------------
(***************************************************************************)
(* Instances of SchedulerFleet for TLC.  Node ids, credentials and codes   *)
(* are model values; NodeSymmetry is used by the safety run only.          *)
(***************************************************************************)
EXTENDS SchedulerFleet, TLC

NodeSymmetry == Permutations(Node) \cup Permutations(Cred) \cup Permutations(Record)
=============================================================================
