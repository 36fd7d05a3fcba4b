------------------------ MODULE MCVoucherConsumption ------------------------
(***************************************************************************)
(* VoucherConsumption with its slots and stores taken up to symmetry: no   *)
(* definition tells one of them from another.                              *)
(***************************************************************************)
EXTENDS VoucherConsumption, TLC

Symmetry == Permutations(Worker) \cup Permutations(Store)
=============================================================================
