----------------------------- MODULE MCDispatch -----------------------------
(***************************************************************************)
(* Model values for Dispatch.  Requests and nodes are interchangeable: no  *)
(* action and no invariant names one.  Safety runs only.                   *)
(***************************************************************************)
EXTENDS Dispatch, TLC

RequestSymmetry == Permutations(Req)
=============================================================================
