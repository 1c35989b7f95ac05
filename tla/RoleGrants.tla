----------------------------- MODULE RoleGrants -----------------------------
(***************************************************************************)
(* What the edits of one user's roles promise: an edit that is committed     *)
(* replaces, in one step, what it found when it began by the list it was     *)
(* asked for.  What others have given meanwhile stays, and is not given a    *)
(* second time.  An edit that is not committed has done nothing.             *)
(***************************************************************************)
EXTENDS Naturals, Sequences

CONSTANTS
    Edits,
    Registration, \* who gave the roles the user starts with
    Roles,
    Lists,        \* the lists an administrator may ask for
    InitialRoles

VARIABLES
    granted, \* pairs of a role and who gave it
    status,  \* of the edits
    asked,
    found    \* whose roles an edit found when it began

vars == <<granted, status, asked, found>>

Init ==
    /\ granted = {<<role, Registration>> : role \in InitialRoles}
    /\ status = [e \in Edits |-> "idle"]
    /\ asked = [e \in Edits |-> <<>>]
    /\ found = [e \in Edits |-> {}]

Named(list) == {list[k] : k \in 1..Len(list)}

Givers == {Registration} \cup {e \in Edits : status[e] = "committed"}

Begin(e, list) ==
    /\ status[e] = "idle"
    /\ status' = [status EXCEPT ![e] = "running"]
    /\ asked' = [asked EXCEPT ![e] = list]
    /\ found' = [found EXCEPT ![e] = Givers]
    /\ UNCHANGED granted

\* A list names roles that there are, each once.
Proper(list) ==
    /\ Named(list) \subseteq Roles
    /\ \A j, k \in 1..Len(list) : list[j] = list[k] => j = k

Give(e) ==
    LET others == {g \in granted : g[2] \notin found[e]} IN
    /\ status[e] = "running"
    /\ Proper(asked[e])
    /\ \A g \in others : g[1] \notin Named(asked[e])
    /\ granted' = others \cup {<<role, e>> : role \in Named(asked[e])}
    /\ status' = [status EXCEPT ![e] = "committed"]
    /\ UNCHANGED <<asked, found>>

GiveUp(e) ==
    /\ status[e] = "running"
    /\ status' = [status EXCEPT ![e] = "aborted"]
    /\ UNCHANGED <<granted, asked, found>>

Next == \E e \in Edits : (\E list \in Lists : Begin(e, list)) \/ Give(e) \/ GiveUp(e)

Spec == Init /\ [][Next]_vars

=============================================================================
