---------------------------- MODULE TokenBuckets ----------------------------
(***************************************************************************)
(* The API's rate limiters: the in-process token bucket with its cleanup    *)
(* goroutine (middleware/ratelimit.go) and the one several instances share  *)
(* in Redis (adapters/ratelimit/redis.go).                                  *)
(*                                                                          *)
(* One key is modelled: keys share nothing but a mutex.  The unit of time   *)
(* is what one token takes to refill.  A request reads its clock before the *)
(* bucket is locked, or the script runs, so stamps may reach a bucket out   *)
(* of order; instances that share a bucket stamp with clocks of their own.  *)
(*                                                                          *)
(* Nothing bounds how long a script takes to reach Redis: the 200 ms of a    *)
(* call's context end no read of its socket, and a script that the client    *)
(* has given up on may run after that.                                      *)
(***************************************************************************)
EXTENDS Integers

CONSTANTS
    Requests,    \* goroutines inside Allow
    Backends,    \* deployments considered, of {"process", "redis"}
    Burst,       \* capacity of a bucket
    Skew,        \* Skew[r]: how far ahead the clock of r's instance runs
    MaxSkew,     \* bound on the skew
    Grace,       \* the second a row is kept after it must be full
    MaxOutages,  \* bound on calls of Redis that get no answer
    MaxClock,    \* bound on time
    MaxCleanups, \* bound on limiters deleted
    MaxPasses    \* bound on requests let through

ASSUME BucketsAssumption ==
    /\ Backends \subseteq {"process", "redis"}
    /\ Burst \in Nat \ {0}
    /\ MaxSkew \in Nat /\ Skew \in [Requests -> 0..MaxSkew]
    /\ Grace \in Nat
    /\ MaxOutages \in Nat /\ MaxClock \in Nat /\ MaxCleanups \in Nat /\ MaxPasses \in Nat

VARIABLES
    clock,    \* true time
    backend,
    bucket,   \* bucket[g]: the g-th limiter created; Redis has only the first
    current,  \* the limiter in the map, or the row's stand-in
    live,     \* whether the map, or Redis, has the key
    used,     \* when the script last ran, by Redis's clock
    req,      \* local state of the requests
    outages,
    stray,    \* stray[<<r, now>>]: scripts of r with this stamp that Redis may yet run,
              \* though nobody waits for them any more
    since,    \* history: tokens taken for requests stamped s or later
    latest,   \* history: the latest stamp that took from the bucket
    slack     \* history: what was given beyond the budget: see BudgetHolds

history == <<since, latest, slack>>
vars == <<clock, backend, bucket, current, live, used, req, outages, stray,
          since, latest, slack>>

Stamps == 0..(MaxClock + MaxSkew)
Limiters == 0..MaxCleanups

TypeOK ==
    /\ clock \in 0..MaxClock
    /\ backend \in {"process", "redis"}
    /\ bucket \in [Limiters -> [tokens : 0..Burst, ts : Stamps]]
    /\ current \in Limiters
    /\ live \in BOOLEAN
    /\ used \in 0..MaxClock
    /\ req \in [Requests -> [pc : {"idle", "got", "stamped", "refused"},
                             limiter : Limiters, now : Stamps]]
    /\ outages \in Nat
    /\ stray \in [Requests \X Stamps -> Nat]
    /\ since \in [Stamps -> Nat]
    /\ latest \in Stamps
    /\ slack \in Nat

Fresh(t) == [tokens |-> Burst, ts |-> t]

Init ==
    /\ clock = 0
    /\ backend \in Backends
    /\ bucket = [g \in Limiters |-> Fresh(0)]
    /\ current = 0
    /\ live = FALSE
    /\ used = 0
    /\ req = [r \in Requests |-> [pc |-> "idle", limiter |-> 0, now |-> 0]]
    /\ outages = 0
    /\ stray = [p \in Requests \X Stamps |-> 0]
    /\ since = [s \in Stamps |-> 0]
    /\ latest = 0
    /\ slack = 0

-----------------------------------------------------------------------------
Later(a, b) == IF a >= b THEN a ELSE b
Back(ts, now) == IF now < ts THEN ts - now ELSE 0

\* Mutant: the refill does not stop at the capacity.
RefilledUncapped(b, now) == IF now <= b.ts THEN b.tokens ELSE b.tokens + (now - b.ts)

\* The tokens of bucket b for a caller whose clock says now: a caller behind
\* the bucket's timestamp refills nothing.
Refilled(b, now) ==
    IF now <= b.ts THEN b.tokens
    ELSE IF b.tokens + (now - b.ts) >= Burst THEN Burst ELSE b.tokens + (now - b.ts)

\* Both buckets move the timestamp to the caller's clock, backwards too.
Taken(b, now) == [tokens |-> Refilled(b, now) - 1, ts |-> now]

Counted(now) == [s \in Stamps |-> IF s <= now THEN since[s] + 1 ELSE since[s]]

Clock(r) == clock + (IF backend = "redis" THEN Skew[r] ELSE 0)

Answer(r, pc) == req' = [req EXCEPT ![r] = [pc |-> pc, limiter |-> 0, now |-> 0]]

Begins(r) ==
    /\ req[r].pc \in {"idle", "refused"}
    /\ since[0] < MaxPasses

\* IPRateLimiter.get, under l.mu: the key's limiter, made when it has none.
Get(r) ==
    /\ Begins(r)
    /\ backend = "process"
    /\ \/ /\ live
          /\ req' = [req EXCEPT ![r] = [pc |-> "got", limiter |-> current, now |-> 0]]
          /\ UNCHANGED <<bucket, current, live>>
       \/ /\ ~live
          /\ current < MaxCleanups
          /\ current' = current + 1
          /\ bucket' = [bucket EXCEPT ![current + 1] = Fresh(clock)]
          /\ live' = TRUE
          /\ req' = [req EXCEPT ![r] = [pc |-> "got", limiter |-> current + 1, now |-> 0]]
    /\ UNCHANGED <<clock, backend, used, outages, stray, history>>

\* time.Now(): before the limiter's lock, or in the argument of the script.
Stamp(r) ==
    /\ \/ backend = "process" /\ req[r].pc = "got"
       \/ backend = "redis" /\ Begins(r)
    /\ req' = [req EXCEPT ![r] = [@ EXCEPT !.pc = "stamped", !.now = Clock(r)]]
    /\ UNCHANGED <<clock, backend, bucket, current, live, used, outages, stray, history>>

\* rate.Limiter.Allow.  The limiter may have been deleted from the map since.
Allow(r) ==
    LET g == req[r].limiter
        now == req[r].now
    IN /\ backend = "process" /\ req[r].pc = "stamped"
       /\ \/ /\ Refilled(bucket[g], now) >= 1
             /\ bucket' = [bucket EXCEPT ![g] = Taken(bucket[g], now)]
             /\ Answer(r, "idle")
             /\ since' = Counted(now)
             /\ \/ /\ g = current /\ live
                   /\ latest' = Later(latest, now)
                   /\ slack' = slack + Back(bucket[g].ts, now)
                \/ /\ ~(g = current /\ live)
                   /\ slack' = slack + 1
                   /\ latest' = latest
          \/ /\ Refilled(bucket[g], now) < 1
             /\ Answer(r, "refused")
             /\ UNCHANGED <<bucket, history>>
       /\ UNCHANGED <<clock, backend, current, live, used, outages, stray>>

\* Mutant: whatever is in the map is dropped.
CleanupAny ==
    /\ backend = "process" /\ live
    /\ live' = FALSE
    /\ UNCHANGED <<clock, backend, bucket, current, used, req, outages, stray, history>>

\* cleanupLoop, every ten minutes: a limiter that is full is dropped.
Cleanup ==
    /\ backend = "process" /\ live
    /\ Refilled(bucket[current], clock) >= Burst
    /\ live' = FALSE
    /\ UNCHANGED <<clock, backend, bucket, current, used, req, outages, stray, history>>

-----------------------------------------------------------------------------
Row(now) == IF live THEN bucket[current] ELSE Fresh(now)

\* Faulty variant: the tokens are compared before they are refilled.
HasTokenBeforeRefill(now) == Row(now).tokens >= 1

HasToken(now) == Refilled(Row(now), now) >= 1

\* A script runs so long after it was stamped that the row it is for may have
\* expired before it was full again.
Late(r, now) == clock - (now - Skew[r]) > Grace - MaxSkew

\* What a script gives beyond the budget: the time by which it moves the row
\* back, and, when it is late and the row gone, the tokens that the row lacked.
Gives(r, now) ==
    IF live THEN Back(bucket[current].ts, now)
    ELSE IF Late(r, now)
         THEN Back(bucket[current].ts, now) + (Burst - Refilled(bucket[current], now))
         ELSE 0

\* The script: refill, take a token if there is one, write tokens and
\* timestamp back, and put the row's end of life off.
Script(r, now) ==
    LET left == Refilled(Row(now), now)
    IN /\ bucket' = [bucket EXCEPT ![current] =
                        [tokens |-> IF HasToken(now) THEN left - 1 ELSE left, ts |-> now]]
       /\ live' = TRUE
       /\ used' = clock
       /\ latest' = Later(latest, now)
       /\ slack' = slack + Gives(r, now)
       /\ since' = IF HasToken(now) THEN Counted(now) ELSE since

\* RedisLimiter.Allow, answered.
RunScript(r) ==
    /\ backend = "redis" /\ req[r].pc = "stamped"
    /\ Script(r, req[r].now)
    /\ Answer(r, IF HasToken(req[r].now) THEN "idle" ELSE "refused")
    /\ UNCHANGED <<clock, backend, current, outages, stray>>

\* A call of Redis gets no answer; the script it sent runs later, or never.
CallFails(r) ==
    /\ backend = "redis" /\ req[r].pc = "stamped"
    /\ outages < MaxOutages
    /\ outages' = outages + 1
    /\ stray' = [stray EXCEPT ![<<r, req[r].now>>] = @ + 1]
    /\ UNCHANGED <<clock, backend, bucket, current, live, used, history>>

\* The Redis client sends the script once more, with the same stamp.
Resend(r) == CallFails(r) /\ UNCHANGED req

\* RedisLimiter.Allow on an error: the request is let through.
FailOpen(r) == CallFails(r) /\ Answer(r, "idle")

\* Redis runs a script that nobody waits for.
StrayRuns(r, now) ==
    /\ stray[<<r, now>>] > 0
    /\ stray' = [stray EXCEPT ![<<r, now>>] = @ - 1]
    /\ Script(r, now)
    /\ UNCHANGED <<clock, backend, current, req, outages>>

\* PEXPIRE, on Redis's clock.
Expire ==
    /\ backend = "redis" /\ live
    /\ clock >= used + Burst + Grace
    /\ live' = FALSE
    /\ UNCHANGED <<clock, backend, bucket, current, used, req, outages, stray, history>>

Tick ==
    /\ clock < MaxClock
    /\ clock' = clock + 1
    /\ UNCHANGED <<backend, bucket, current, live, used, req, outages, stray, history>>

Next ==
    \/ \E r \in Requests :
          Get(r) \/ Stamp(r) \/ Allow(r) \/ RunScript(r) \/ Resend(r) \/ FailOpen(r)
    \/ \E r \in Requests, now \in Stamps : StrayRuns(r, now)
    \/ Cleanup \/ Expire \/ Tick

Spec == Init /\ [][Next]_vars

-----------------------------------------------------------------------------
\* From s on, the limiter gives no more tokens than a full bucket and what was
\* refilled since, those lost with an answer counted too.  slack is what comes
\* on top: one for each request let through by a limiter that had been cleaned
\* up under it, the time by which a late or slow clock moved a bucket back, as
\* that time is refilled twice, and what a row lacked that had expired under a
\* late script.  That cleaning up and expiry give nothing else away is the rest.
\* (A request that fails open takes no token: there are no more than outages.)
BudgetHolds ==
    \A s \in Stamps : since[s] <= Burst + Back(latest, s) + slack

\* A request is refused only when the budget is used up: since some moment
\* a full bucket and all that was refilled after it have been taken.
RefusedOnlyWhenSpent ==
    [][\A r \in Requests : req[r].pc = "stamped" /\ req'[r].pc = "refused" =>
          \E s \in Stamps : s <= req[r].now /\ since[s] >= Burst + (req[r].now - s)]_vars

\* "A horizontally-scaled deployment enforces one budget across all
\* instances" (adapters/ratelimit/redis.go:1): with Redis answering, the
\* instances together keep to the budget of one bucket.
OneBudget ==
    backend = "redis" /\ outages = 0 =>
        \A s \in Stamps : since[s] <= Burst + Back(latest, s)

=============================================================================
