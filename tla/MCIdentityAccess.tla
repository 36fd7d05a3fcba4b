-------------------------- MODULE MCIdentityAccess --------------------------
(* The symmetry of the requests, sessions and invitations of               *)
(* IdentityAccess, which start alike; its run checks safety only.          *)
EXTENDS IdentityAccess, TLC

Symmetry == Permutations(Request) \cup Permutations(Session) \cup Permutations(Invitation)
=============================================================================
