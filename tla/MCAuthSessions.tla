--------------------------- MODULE MCAuthSessions ---------------------------
(***************************************************************************)
(* Model-checking instances of AuthSessions.  Requests, refresh tokens and  *)
(* administrators are interchangeable.                                      *)
(***************************************************************************)
EXTENDS AuthSessions, TLC

Symmetric == Permutations(Requests) \cup Permutations(Admins) \cup Permutations(Tokens)

ViewerOnly == {"viewer"}
ViewerAndEditor == {"viewer", "editor"}
NoEdits == {}
RemoveAll == {{}}
SwapRoles == {{"viewer"}, {"editor"}}

=============================================================================
