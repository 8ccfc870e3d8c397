------------------------------ MODULE MCTasks ------------------------------
(***************************************************************************)
(* One task, its creator, a colleague of the team and an admin, two calls. *)
(* Calls, files and members of the team are interchangeable; no liveness   *)
(* is checked here.                                                        *)
(***************************************************************************)
EXTENDS Tasks, TLC

MCSymmetry == Permutations(Calls) \cup Permutations(Files) \cup Permutations(Team)
=============================================================================
