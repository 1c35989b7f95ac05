------------------------------ MODULE UserRoles ------------------------------
(***************************************************************************)
(* Administrators' edits of one user's roles: PUT /users/{id}/roles, whose   *)
(* Repository.SetUserRoles deletes the rows of user_roles and inserts those  *)
(* asked for in one transaction, at PostgreSQL's READ COMMITTED.             *)
(*                                                                          *)
(* The DELETE sees the rows committed when it starts and takes them one by   *)
(* one, waiting for another transaction that has one.  An INSERT meets the   *)
(* primary key (user_id, role_id): it waits for a transaction that has put   *)
(* or taken the same role, and fails on a role that is there.  Edits of two  *)
(* users touch no common row, so one user is all there is to see.            *)
(***************************************************************************)
EXTENDS Naturals, Sequences, Functions

CONSTANTS
    Edits,        \* the requests, each a transaction of its own
    Registration, \* who wrote the rows the user starts with
    NoOne,
    Ids,          \* role ids a request may name
    Roles,        \* those of a row of table roles
    Lists,        \* the lists of ids an administrator may ask for
    InitialRoles  \* what the user starts with

ASSUME RolesAssumption ==
    /\ Registration \notin Edits /\ NoOne \notin Edits \cup {Registration}
    /\ Roles \subseteq Ids /\ InitialRoles \subseteq Roles
    /\ Lists \subseteq Seq(Ids)

VARIABLES
    rows, \* the rows of the user: role, who inserted it and who is deleting it
    edit, \* the transactions
    over  \* history: who had committed when an edit's DELETE started

vars == <<rows, edit, over>>

Writers == Edits \cup {Registration}
Row == [role : Roles, by : Writers, gone : Edits \cup {NoOne}]
Id(row) == <<row.role, row.by>>

\* seen is what the DELETE has still to take, next the INSERT to come.
Transaction ==
    [pc : {"idle", "running", "committed", "aborted"}, asked : Seq(Ids),
     seen : SUBSET (Roles \X Writers), next : Nat]

TypeOK ==
    /\ rows \subseteq Row
    /\ edit \in [Edits -> Transaction]
    /\ over \in [Edits -> SUBSET Writers]

Fresh(role, by) == [role |-> role, by |-> by, gone |-> NoOne]

Init ==
    /\ rows = {Fresh(role, Registration) : role \in InitialRoles}
    /\ edit = [e \in Edits |-> [pc |-> "idle", asked |-> <<>>, seen |-> {}, next |-> 1]]
    /\ over = [e \in Edits |-> {}]

-----------------------------------------------------------------------------
Running(e) == edit[e].pc = "running"
Committed(w) == w = Registration \/ edit[w].pc = "committed"

\* What a statement sees that starts now; a row whose deletion is committed is
\* no longer in rows.
Current == {v \in rows : Committed(v.by)}

\* BEGIN, and the DELETE takes its snapshot.
StartClear(e, list) ==
    /\ edit[e].pc = "idle"
    /\ edit' = [edit EXCEPT ![e] =
           [pc |-> "running", asked |-> list, seen |-> {Id(v) : v \in Current}, next |-> 1]]
    /\ over' = [over EXCEPT ![e] = {w \in Writers : Committed(w)}]
    /\ UNCHANGED rows

\* It takes a row that nobody else is deleting; one whose deletion has been
\* committed meanwhile is not there any more.
ClearRow(e, id) ==
    /\ Running(e) /\ id \in edit[e].seen
    /\ \A v \in rows : Id(v) = id => v.gone = NoOne
    /\ rows' = {IF Id(v) = id THEN [v EXCEPT !.gone = e] ELSE v : v \in rows}
    /\ edit' = [edit EXCEPT ![e].seen = @ \ {id}]
    /\ UNCHANGED over

Inserting(e) == Running(e) /\ edit[e].seen = {} /\ edit[e].next \in DOMAIN edit[e].asked
Wanted(e) == edit[e].asked[edit[e].next]

\* Mutant: user_roles has no primary key.
NoKey(e) == {}

\* The rows that the primary key compares a new one with.
SameKey(e) == {v \in rows : v.role = Wanted(e) /\ v.gone # e}

\* Mutant: user_roles has no foreign key.
InsertAnyId(e) ==
    /\ Inserting(e)
    /\ SameKey(e) = {}
    /\ rows' = rows \cup {Fresh(Wanted(e), e)}
    /\ edit' = [edit EXCEPT ![e].next = @ + 1]
    /\ UNCHANGED over

Insert(e) ==
    /\ Inserting(e) /\ Wanted(e) \in Roles
    /\ SameKey(e) = {}
    /\ rows' = rows \cup {Fresh(Wanted(e), e)}
    /\ edit' = [edit EXCEPT ![e].next = @ + 1]
    /\ UNCHANGED over

\* Mutant: the DELETE runs outside the transaction of the INSERTs.
UndoneInsertsOnly(e) == {v \in rows : v.by # e /\ v.gone # e}

\* Rollback: the rows the edit has inserted go, those it was deleting stay.
Undone(e) ==
    {IF v.gone = e THEN [v EXCEPT !.gone = NoOne] ELSE v : v \in {u \in rows : u.by # e}}

RollBack(e) ==
    /\ rows' = Undone(e)
    /\ edit' = [edit EXCEPT ![e].pc = "aborted"]
    /\ UNCHANGED over

\* A role that does not exist, one named twice, or one that another edit has
\* given since the DELETE looked.
Refuse(e) ==
    /\ Inserting(e)
    /\ \/ Wanted(e) \notin Roles
       \/ \E v \in SameKey(e) : v.gone = NoOne /\ (v.by = e \/ Committed(v.by))
    /\ RollBack(e)

\* Any statement may break: the client leaves, the process dies, or PostgreSQL
\* picks the edit as the victim of a deadlock (two lists in opposite orders).
Break(e) == Running(e) /\ RollBack(e)

Commit(e) ==
    /\ Running(e) /\ edit[e].seen = {}
    /\ edit[e].next = Len(edit[e].asked) + 1
    /\ rows' = {v \in rows : v.gone # e}
    /\ edit' = [edit EXCEPT ![e].pc = "committed"]
    /\ UNCHANGED over

Next ==
    \E e \in Edits :
        \/ \E list \in Lists : StartClear(e, list)
        \/ \E id \in edit[e].seen : ClearRow(e, id)
        \/ Insert(e)
        \/ Refuse(e)
        \/ Break(e)
        \/ Commit(e)

Spec == Init /\ [][Next]_vars

-----------------------------------------------------------------------------
Wants(w) == IF w = Registration THEN InitialRoles ELSE Range(edit[w].asked)
Replaced(w) == \E f \in Edits : Committed(f) /\ w \in over[f]

\* SetUserRoles is all or nothing, whatever overlaps and wherever it breaks: the
\* user has exactly the roles of the committed edits that no later one, started
\* after their commit, has replaced.
RolesAreOfLastEdits ==
    {Id(v) : v \in Current} =
        {id \in Roles \X Writers :
            Committed(id[2]) /\ ~Replaced(id[2]) /\ id[1] \in Wants(id[2])}

\* SetUserRoles implements RoleGrants: taking rows and inserting them are steps
\* nobody sees, the commit replaces what was found by the list at one blow, and
\* never gives a role that the user has already.
Grants == INSTANCE RoleGrants WITH
    granted <- {Id(v) : v \in Current},
    status <- [e \in Edits |-> edit[e].pc],
    asked <- [e \in Edits |-> edit[e].asked],
    found <- over
GrantsSpec == Grants!Spec

\* Refuted: whoever commits last has decided what the user's roles are.
LastWriterWins ==
    [][\A e \in Edits : Commit(e) => {v.role : v \in Current'} = Wants(e)]_vars
=============================================================================
