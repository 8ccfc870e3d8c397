----------------------------- MODULE MCCaseTeam -----------------------------
(***************************************************************************)
(* CaseTeam for TLC.  Users differ only in their roles, which are a        *)
(* variable, open statuses and calls not at all; no liveness is checked.   *)
(***************************************************************************)
EXTENDS CaseTeam, TLC

MCSymmetry == Permutations(Staff) \cup Permutations(OpenStatuses) \cup Permutations(Calls)
=============================================================================
