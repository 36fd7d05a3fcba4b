-------------------------- MODULE MCOperationQueue --------------------------
(* Values for the constants of OperationQueue that a .cfg cannot write. *)
EXTENDS OperationQueue

CONSTANTS NumberOfOperations, NumberOrphaned

MCOperation == 1..NumberOfOperations
MCOrphaned  == (NumberOfOperations - NumberOrphaned + 1)..NumberOfOperations
=============================================================================
