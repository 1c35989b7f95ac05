--------------------------- MODULE PagedListing ----------------------------
(***************************************************************************)
(* What a paginated query promises of a listing that an upstream keeps: the *)
(* items are taken in their order, none skipped and none twice, and the     *)
(* result is the whole listing, or a part that says it is one, or an error. *)
(* An upstream whose next-page field never ends has no last item.           *)
(***************************************************************************)
EXTENDS Naturals

VARIABLES
    api,     \* the listing: its length, and whether it has an end
    got,     \* how many of its items have been taken
    outcome,
    rows     \* how many of them are in the result

vars == <<api, got, outcome, rows>>

Outcomes == {"running", "whole", "part", "failed"}

Init ==
    /\ api \in [length : Nat, endless : {"yes", "no"}]
    /\ got = 0
    /\ outcome = "running"
    /\ rows = 0

Take ==
    /\ outcome = "running"
    /\ got' \in {n \in Nat : n >= got /\ (api.endless = "no" => n <= api.length)}
    /\ UNCHANGED <<api, outcome, rows>>

\* Unmarked, a result is the whole listing.
Whole ==
    /\ outcome = "running"
    /\ api.endless = "no"
    /\ got = api.length
    /\ outcome' = "whole"
    /\ rows' = got
    /\ UNCHANGED <<api, got>>

Part ==
    /\ outcome = "running"
    /\ outcome' = "part"
    /\ rows' \in {n \in Nat : n <= got}
    /\ UNCHANGED <<api, got>>

Fail ==
    /\ outcome = "running"
    /\ outcome' = "failed"
    /\ UNCHANGED <<api, got, rows>>

Next == Take \/ Whole \/ Part \/ Fail

Spec == Init /\ [][Next]_vars

=============================================================================
