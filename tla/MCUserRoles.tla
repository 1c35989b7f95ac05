----------------------------- MODULE MCUserRoles -----------------------------
(***************************************************************************)
(* Overlapping edits of one user who starts with a role: lists that share    *)
(* roles, in both orders, empty, with a role named twice and with one that   *)
(* does not exist.                                                           *)
(***************************************************************************)
EXTENDS UserRoles, TLC

CONSTANTS admin, viewer, unknown

TwoAndUnknown == {admin, viewer, unknown}
TwoRoles == {admin, viewer}
StartsAdmin == {admin}
SomeLists ==
    {<<>>, <<admin>>, <<viewer>>, <<admin, viewer>>, <<viewer, admin>>,
     <<viewer, viewer>>, <<viewer, unknown>>}

\* Refuted: somebody stays an administrator.
AdministratorStays == admin \in {v.role : v \in Current}

Symmetric == Permutations(Edits)
=============================================================================
