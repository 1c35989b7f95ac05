--------------------------- MODULE MCConnections ---------------------------
(***************************************************************************)
(* Model-checking instances of Connections.                                 *)
(***************************************************************************)
EXTENDS Connections, TLC

Symmetric == Permutations(Requests)

\* PostgreSQL's rejection of a password, whose message also says that a role
\* does not exist; an HTTP status known by the message only.
Rejected == [chain |-> {<<"postgres", "28P01">>}, words |-> {"not_found"}]
Throttled == [chain |-> {}, words |-> {"rate_limited", "not_found"}]

TwoErrors == {Rejected, Throttled}

=============================================================================
