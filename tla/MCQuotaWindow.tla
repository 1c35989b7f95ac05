--------------------------- MODULE MCQuotaWindow ----------------------------
(***************************************************************************)
(* Model-checking instances of QuotaWindow.                                 *)
(***************************************************************************)
EXTENDS QuotaWindow, TLC

Symmetric == Permutations(Requests)

TwoKinds == {"explore", "workflow"}
OneKind == {"explore"}
AllRoles == {"viewer", "editor", "admin"}

\* A viewer has one run of each kind an hour, an editor two explorations; an
\* admin is not configured.
Configured ==
    [role \in {"viewer", "editor"} |->
        [kind \in TwoKinds |-> IF role = "editor" /\ kind = "explore" THEN 2 ELSE 1]]
Tokens == {{"viewer"}, {"viewer", "editor"}}
WithAdmin == {{"admin"}, {"viewer", "admin"}}

\* Runs of viewers are forbidden, or meant to be.
ViewersBlocked == [role \in {"viewer"} |-> [kind \in TwoKinds |-> 0]]
Viewers == {{"viewer"}}

=============================================================================
