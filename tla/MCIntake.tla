------------------------------ MODULE MCIntake ------------------------------
(***************************************************************************)
(* Intake on a small instance: every request is made by one client; the    *)
(* padding holds two numbers, so the third case already has a longer one.  *)
(***************************************************************************)
EXTENDS Intake

CONSTANT k1

MCRequester == [r \in Requests |-> k1]
=============================================================================
