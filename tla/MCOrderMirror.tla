----------------------------- MODULE MCOrderMirror -----------------------------
(* Values for the constants of OrderMirror that a .cfg cannot write: what   *)
(* the platform answers about the order in each of its three versions, and  *)
(* the order of the after-sales case.                                       *)
EXTENDS OrderMirror

CONSTANTS o1, a1

\* The status changes, then the paid amount, and the second answer is unreadable.
MCHead == <<1, 2, 2>>
MCTail == <<1, 1, 2>>
MCOrderOf == [a \in AfterSale |-> o1]
=============================================================================
