-------------------------- MODULE MCAccountingSync --------------------------
(* Values for the constants of AccountingSync that a .cfg cannot write.  The *)
(* funds flow lists an entry without an id before one of an order; one date  *)
(* has two bills of that order that carry no id and are alike, so that they  *)
(* have one identity, and the other date has none.  The amount of the first  *)
(* of the two bills cannot be read, that of the second is amended to a       *)
(* negative one.  And the symmetry of the requests, keys and slots.          *)
EXTENDS AccountingSync, TLC

CONSTANTS o1, d1, fund, bill

MCLength   == [f \in Feed |-> IF f \in {"funds", d1} THEN 2 ELSE 0]
MCAmounts  == [e \in Entry |-> CASE e = <<d1, 1>> -> <<Unreadable>>
                                 [] e = <<d1, 2>> -> <<2, -1>>
                                 [] OTHER         -> <<2>>]
MCGiven    == [e \in Entry |-> IF e = <<"funds", 2>> THEN fund ELSE NoId]
MCIdentity == [e \in Entry |-> IF e[1] = d1 THEN bill ELSE NoId]
MCOrderOf  == [i \in Id |-> o1]

Symmetry == Permutations(Request) \cup Permutations(Key) \cup Permutations(Worker)
=============================================================================
