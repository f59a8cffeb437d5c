----------------------------- MODULE MCAsyncNet -----------------------------
(***************************************************************************)
(* Instances of AsyncNet.  The workers run the same code, so permuting     *)
(* them is sound for the runs that check no liveness property.             *)
(***************************************************************************)
EXTENDS AsyncNet, TLC

WorkerSymmetry == Permutations(Workers)
=============================================================================
