----------------------------- MODULE QuotaWindow -----------------------------
(***************************************************************************)
(* Per-user quotas: quota.Service.Check and the handlers that call it before *)
(* a run (POST /explore, POST /workflows/{id}/execute).                     *)
(*                                                                          *)
(* A handler reads the clock, then Check locks the caller's bucket: requests *)
(* can be counted in another order than they were stamped.  A hit is its     *)
(* stamp and its place n in the order of admission, which is its order in    *)
(* the bucket's list.  The routes need a permission, so there is always a    *)
(* user; a user and a kind of run share nothing with another.               *)
(***************************************************************************)
EXTENDS Integers, FiniteSets

CONSTANTS
    Requests,   \* goroutines inside the handlers
    Users,      \* user ids
    Kinds,      \* what is counted separately
    Roles,      \* names of roles
    RoleSets,   \* the sets of roles an access token may carry
    RoleQuotas, \* config: RoleQuotas[role][kind], for some of the roles
    Window,     \* the hour
    MinRetry,   \* the second a refused caller is told to wait at least
    MaxClock,   \* bound on time
    MaxHits     \* bound on the runs admitted

ASSUME QuotaAssumption ==
    /\ Users # {} /\ Kinds # {} /\ RoleSets # {}
    /\ RoleSets \subseteq SUBSET Roles
    /\ DOMAIN RoleQuotas \subseteq Roles
    /\ \A role \in DOMAIN RoleQuotas, kind \in Kinds : RoleQuotas[role][kind] \in Int
    /\ Window \in Nat \ {0} /\ MinRetry \in Nat
    /\ MaxClock \in Nat /\ MaxHits \in Nat

VARIABLES
    clock,
    hits,     \* the hits kept in each bucket
    req,      \* local state of the requests
    admitted, \* history: every run a bucket admitted
    newest,   \* history: the latest stamp each bucket was checked with
    count     \* history: how many runs were admitted

vars == <<clock, hits, req, admitted, newest, count>>

Keys == Kinds \X Users

\* quota and late are history: what the caller was entitled to, and whether a
\* request stamped later had been checked before it.
Hit == [at : Nat, n : Nat, quota : Int, late : BOOLEAN]

\* The last four fields are those of the last refusal; after is the number of
\* runs admitted before it.
RequestState ==
    [pc : {"idle", "stamped", "refused"}, key : Keys, roles : RoleSets, now : Nat,
     quota : Int, used : Nat, retry : Int, after : Nat, late : BOOLEAN]

TypeOK ==
    /\ clock \in 0..MaxClock
    /\ hits \in [Keys -> SUBSET Hit]
    /\ req \in [Requests -> RequestState]
    /\ admitted \in [Keys -> SUBSET Hit]
    /\ newest \in [Keys -> Nat]
    /\ count \in Nat

\* A request at rest holds nothing.
At(pc, key, roles, now) ==
    [pc |-> pc, key |-> key, roles |-> roles, now |-> now,
     quota |-> 0, used |-> 0, retry |-> 0, after |-> 0, late |-> FALSE]
Idle == At("idle", CHOOSE k \in Keys : TRUE, CHOOSE s \in RoleSets : TRUE, 0)

Init ==
    /\ clock = 0
    /\ hits = [k \in Keys |-> {}]
    /\ req = [r \in Requests |-> Idle]
    /\ admitted = [k \in Keys |-> {}]
    /\ newest = [k \in Keys |-> 0]
    /\ count = 0

-----------------------------------------------------------------------------
\* quotaFor: the largest quota among the roles that have one, 0 without any.
Quotas(roles, kind) ==
    {0} \cup {RoleQuotas[role][kind] : role \in roles \cap DOMAIN RoleQuotas}
IsQuotaFor(q, roles, kind) ==
    q \in Quotas(roles, kind) /\ \A other \in Quotas(roles, kind) : other <= q

\* The handlers: the principal's id and roles, and time.Now().
Stamp(r) ==
    /\ req[r].pc \in {"idle", "refused"}
    /\ count < MaxHits
    /\ \E k \in Keys, s \in RoleSets :
          req' = [req EXCEPT ![r] = At("stamped", k, s, clock)]
    /\ UNCHANGED <<clock, hits, admitted, newest, count>>

\* Mutants: a window that starts with the hour, and one that is too long.
KeptThisHour(k, now) == {h \in hits[k] : h.at >= (now \div Window) * Window}
KeptAtTheEdge(k, now) == {h \in hits[k] : h.at >= now - Window}

\* The hits still inside the window.
Kept(k, now) == {h \in hits[k] : h.at > now - Window}
Late(r) == req[r].now < newest[req[r].key]
Seen(r) == newest' = [newest EXCEPT ![req[r].key] = IF Late(r) THEN @ ELSE req[r].now]

\* Check without a quota: allowed, and not counted.
Pass(r, q) ==
    /\ q <= 0
    /\ req' = [req EXCEPT ![r] = Idle]
    /\ UNCHANGED <<clock, hits, admitted, newest, count>>

\* Mutant: the cutoff is appended for the time of the request.
NewHitAtCutoff(r, q) ==
    [at |-> req[r].now - Window, n |-> count, quota |-> q, late |-> Late(r)]

NewHit(r, q) == [at |-> req[r].now, n |-> count, quota |-> q, late |-> Late(r)]

\* Check with room in the bucket, under b.mu.
Admit(r, q) ==
    LET k == req[r].key
        now == req[r].now
        hit == NewHit(r, q)
    IN /\ q > 0
       /\ Cardinality(Kept(k, now)) < q
       /\ hits' = [hits EXCEPT ![k] = Kept(k, now) \cup {hit}]
       /\ admitted' = [admitted EXCEPT ![k] = @ \cup {hit}]
       /\ count' = count + 1
       /\ Seen(r)
       /\ req' = [req EXCEPT ![r] = Idle]
       /\ UNCHANGED clock

\* Mutant: the time since the first hit for the time until it expires.
RetryAfterElapsed(first, now) ==
    IF now - first.at < MinRetry THEN MinRetry ELSE now - first.at

\* Check with a full bucket: the caller is told to wait until the first hit of
\* the list leaves the window.
RetryAfter(first, now) ==
    IF first.at + Window - now < MinRetry THEN MinRetry ELSE first.at + Window - now

Refuse(r, q) ==
    LET k == req[r].key
        now == req[r].now
        kept == Kept(k, now)
    IN /\ q > 0
       /\ Cardinality(kept) >= q
       /\ hits' = [hits EXCEPT ![k] = kept]
       /\ Seen(r)
       /\ \E first \in kept :
             /\ \A h \in kept : first.n <= h.n
             /\ req' = [req EXCEPT ![r] =
                   [pc |-> "refused", key |-> k, roles |-> req[r].roles, now |-> now,
                    quota |-> q, used |-> Cardinality(kept), retry |-> RetryAfter(first, now),
                    after |-> count, late |-> Late(r)]]
       /\ UNCHANGED <<clock, admitted, count>>

Check(r) ==
    /\ req[r].pc = "stamped"
    /\ \E q \in Quotas(req[r].roles, req[r].key[1]) :
          /\ IsQuotaFor(q, req[r].roles, req[r].key[1])
          /\ Pass(r, q) \/ Admit(r, q) \/ Refuse(r, q)

Tick ==
    /\ clock < MaxClock
    /\ clock' = clock + 1
    /\ UNCHANGED <<hits, req, admitted, newest, count>>

Next == Tick \/ \E r \in Requests : Stamp(r) \/ Check(r)

Spec == Init /\ [][Next]_vars

-----------------------------------------------------------------------------
\* The runs a bucket had admitted up to the n-th, stamped after t.
Counted(k, n, t) == {g \in admitted[k] : g.n < n /\ g.at > t}

\* A run that was not overtaken on its way to the bucket is admitted only
\* while the hour before it, itself included, holds no more runs than the
\* caller's quota, although the bucket forgets as it goes.
AdmittedWithinQuota ==
    \A k \in Keys : \A h \in admitted[k] :
        ~h.late => Cardinality(Counted(k, h.n + 1, h.at - Window)) <= h.quota

\* A run is refused only if the caller's quota was used up by runs of the same
\* user and kind admitted in the hour before: refusals are not counted, and
\* neither are other users' and other kinds' runs.
RefusalIsFull ==
    \A r \in Requests : req[r].pc = "refused" =>
        Cardinality(Counted(req[r].key, req[r].after, req[r].now - Window)) >= req[r].quota

\* Who waits for as long as the answer says finds room, if nobody takes it
\* first, the caller was not overtaken and has not had a higher quota before.
RetryIsEnough ==
    \A r \in Requests : req[r].pc = "refused" /\ ~req[r].late /\ req[r].used = req[r].quota =>
        Cardinality(Counted(req[r].key, req[r].after, req[r].now + req[r].retry - Window))
          < req[r].quota

-----------------------------------------------------------------------------
\* What the documentation says and the code does not do.

\* "a role with 0 explicitly configured blocks all runs"
\* (docs/functional-requirements/FR-13-enhanced-guardrails.md:380)
ZeroBlocks ==
    [][\A r \in Requests :
          /\ req[r].pc = "stamped" /\ req'[r].pc = "idle"
          /\ req[r].roles \subseteq DOMAIN RoleQuotas /\ req[r].roles # {}
          => \E role \in req[r].roles : RoleQuotas[role][req[r].key[1]] # 0]_vars

\* "A role with no quota configuration inherits unlimited" (FR-13:379)
UnlimitedRole ==
    \A r \in Requests : req[r].pc = "refused" => req[r].roles \subseteq DOMAIN RoleQuotas

\* "a burst around the reset boundary is deterministic (never counts a request
\* twice, never misses one)" (FR-13:372)
NeverMissesOne ==
    \A k \in Keys : \A h \in admitted[k] :
        Cardinality(Counted(k, h.n + 1, h.at - Window)) <= h.quota

\* "Retry after the indicated delay." (backend/internal/api/handlers/explore.go:61)
RetryAlwaysEnough ==
    \A r \in Requests : req[r].pc = "refused" =>
        Cardinality(Counted(req[r].key, req[r].after, req[r].now + req[r].retry - Window))
          < req[r].quota

=============================================================================
