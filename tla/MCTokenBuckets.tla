--------------------------- MODULE MCTokenBuckets ---------------------------
(***************************************************************************)
(* Model-checking instances of TokenBuckets.                                *)
(***************************************************************************)
EXTENDS TokenBuckets, TLC

Symmetric == Permutations(Requests)

BothBackends == {"process", "redis"}
OnlyRedis == {"redis"}

\* All clocks agree; one of them is a tick ahead.
InStep == [r \in Requests |-> 0]
OneAhead == [r \in Requests |-> IF r = CHOOSE q \in Requests : TRUE THEN 1 ELSE 0]

=============================================================================
