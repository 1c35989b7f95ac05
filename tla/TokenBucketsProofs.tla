------------------------- MODULE TokenBucketsProofs -------------------------
(***************************************************************************)
(* What TokenBuckets promises for every number of requests, capacity and    *)
(* skew: its variables keep their types, the budget holds up to the slack   *)
(* accounted for, and a refusal means that the budget is used up.           *)
(***************************************************************************)
EXTENDS TokenBuckets, TLAPS

Bucket == [tokens : 0..Burst, ts : Stamps]

LEMMA StampsAreNaturals ==
    /\ Stamps \subseteq Nat /\ Limiters \subseteq Nat
    /\ 0 \in Stamps /\ 0 \in Limiters
    /\ 0..MaxClock \subseteq Stamps
BY BucketsAssumption DEF Stamps, Limiters

\* What refilling returns.
LEMMA RefillFacts ==
    ASSUME NEW b \in Bucket, NEW now \in Stamps
    PROVE  /\ Refilled(b, now) \in 0..Burst
           /\ now <= b.ts => Refilled(b, now) = b.tokens
           /\ now > b.ts => /\ Refilled(b, now) <= b.tokens + (now - b.ts)
                            /\ \/ Refilled(b, now) = Burst
                               \/ Refilled(b, now) = b.tokens + (now - b.ts)
<1>1. b.tokens \in 0..Burst /\ b.ts \in Nat /\ now \in Nat /\ Burst \in Nat
  BY BucketsAssumption, StampsAreNaturals DEF Bucket
<1>2. QED
  BY <1>1 DEF Refilled

LEMMA ClockTyped ==
    ASSUME TypeOK, NEW r \in Requests
    PROVE  /\ Clock(r) \in Stamps
           /\ clock \in Nat /\ Skew[r] \in Nat /\ Skew[r] <= MaxSkew
           /\ backend = "process" => Clock(r) = clock
           /\ backend = "redis" => Clock(r) = clock + Skew[r]
<1>1. /\ clock \in Nat /\ clock <= MaxClock /\ MaxClock \in Nat
      /\ Skew[r] \in Nat /\ Skew[r] <= MaxSkew /\ MaxSkew \in Nat
  BY BucketsAssumption DEF TypeOK
<1>2. backend = "process" => Clock(r) = clock
  BY <1>1 DEF Clock
<1>3. backend = "redis" => Clock(r) = clock + Skew[r]
  BY DEF Clock
<1>4. backend = "process" \/ backend = "redis"
  BY DEF TypeOK
<1>5. Clock(r) \in Stamps
  BY <1>1, <1>2, <1>3, <1>4 DEF Stamps
<1>6. QED
  BY <1>1, <1>2, <1>3, <1>5

LEMMA FreshIsFull ==
    ASSUME NEW t \in Stamps
    PROVE  Fresh(t) \in Bucket /\ Fresh(t).tokens = Burst /\ Fresh(t).ts = t
BY BucketsAssumption DEF Fresh, Bucket

LEMMA TakenFacts ==
    ASSUME NEW b \in Bucket, NEW now \in Stamps, Refilled(b, now) >= 1
    PROVE  /\ Taken(b, now) \in Bucket
           /\ Taken(b, now).tokens = Refilled(b, now) - 1
           /\ Taken(b, now).ts = now
<1>1. Refilled(b, now) - 1 \in 0..Burst
  BY RefillFacts, BucketsAssumption
<1>2. QED
  BY <1>1 DEF Taken, Bucket

LEMMA CountedFacts ==
    ASSUME since \in [Stamps -> Nat], NEW now \in Stamps
    PROVE  /\ Counted(now) \in [Stamps -> Nat]
           /\ \A s \in Stamps : Counted(now)[s] = IF s <= now THEN since[s] + 1 ELSE since[s]
           /\ \A s \in Stamps : Counted(now)[s] >= since[s] /\ Counted(now)[s] <= since[s] + 1
           /\ \A s \in Stamps : s > now => Counted(now)[s] = since[s]
<1>1. Counted(now) \in [Stamps -> Nat]
  BY DEF Counted
<1>2. ASSUME NEW s \in Stamps
      PROVE  /\ Counted(now)[s] = IF s <= now THEN since[s] + 1 ELSE since[s]
             /\ s \in Nat /\ now \in Nat /\ since[s] \in Nat
  BY StampsAreNaturals DEF Counted
<1>3. ASSUME NEW s \in Stamps
      PROVE  /\ Counted(now)[s] >= since[s] /\ Counted(now)[s] <= since[s] + 1
             /\ s > now => Counted(now)[s] = since[s]
  BY <1>2
<1>4. QED
  BY <1>1, <1>2, <1>3

LEMMA BackFacts ==
    ASSUME NEW a \in Nat, NEW b \in Nat
    PROVE  /\ Back(a, b) \in Nat
           /\ b < a => Back(a, b) = a - b
           /\ b >= a => Back(a, b) = 0
           /\ Later(a, b) \in {a, b} /\ Later(a, b) >= a /\ Later(a, b) >= b
BY DEF Back, Later

-----------------------------------------------------------------------------
\* What a request keeps to itself.
Local == [pc : {"idle", "got", "stamped", "refused"}, limiter : Limiters, now : Stamps]

LEMMA AnswerTyped ==
    ASSUME TypeOK, NEW r \in Requests, NEW pc \in {"idle", "refused"}, Answer(r, pc)
    PROVE  req' \in [Requests -> Local]
BY StampsAreNaturals DEF TypeOK, Answer, Local

\* What a script asks for is a token or none, and what it gives is a number.
LEMMA RowFacts ==
    ASSUME TypeOK, NEW r \in Requests, NEW now \in Stamps
    PROVE  /\ Row(now) \in Bucket
           /\ Refilled(Row(now), now) \in 0..Burst
           /\ Refilled(bucket[current], now) \in 0..Burst
           /\ bucket[current] \in Bucket
           /\ Gives(r, now) \in Nat
<1>1. current \in Limiters /\ bucket[current] \in Bucket
  BY DEF TypeOK, Bucket
<1>2. Row(now) \in Bucket
  BY <1>1, FreshIsFull DEF Row
<1>3. Refilled(Row(now), now) \in 0..Burst /\ Refilled(bucket[current], now) \in 0..Burst
  BY <1>1, <1>2, RefillFacts
<1>4. Back(bucket[current].ts, now) \in Nat
  <2>1. bucket[current].ts \in Nat /\ now \in Nat
    BY <1>1, StampsAreNaturals DEF Bucket
  <2>2. QED
    BY <2>1, BackFacts
<1>5. Burst - Refilled(bucket[current], now) \in Nat
  BY <1>3, BucketsAssumption
<1>6. Gives(r, now) \in Nat
  BY <1>4, <1>5 DEF Gives
<1>7. QED
  BY <1>1, <1>2, <1>3, <1>6

LEMMA ScriptTyped ==
    ASSUME TypeOK, NEW r \in Requests, NEW now \in Stamps, Script(r, now)
    PROVE  /\ bucket' \in [Limiters -> Bucket]
           /\ live' \in BOOLEAN /\ used' \in 0..MaxClock /\ latest' \in Stamps
           /\ since' \in [Stamps -> Nat] /\ slack' \in Nat
<1>1. latest \in Stamps /\ current \in Limiters
  BY DEF TypeOK
<1>2. Refilled(Row(now), now) \in 0..Burst /\ Gives(r, now) \in Nat
  BY RowFacts
<1>3. [tokens |-> IF HasToken(now) THEN Refilled(Row(now), now) - 1
                  ELSE Refilled(Row(now), now), ts |-> now] \in Bucket
  BY <1>2, BucketsAssumption DEF Bucket, HasToken
<1>4. bucket' \in [Limiters -> Bucket]
  BY <1>1, <1>3 DEF TypeOK, Script, Bucket
<1>5. latest' \in Stamps
  BY <1>1, BackFacts, StampsAreNaturals DEF Script
<1>6. since' \in [Stamps -> Nat]
  BY CountedFacts DEF TypeOK, Script
<1>7. slack' \in Nat
  BY <1>2 DEF TypeOK, Script
<1>8. QED
  BY <1>4, <1>5, <1>6, <1>7 DEF TypeOK, Script

\* The variables keep their types.
LEMMA TypeStep == TypeOK /\ [Next]_vars => TypeOK'
<1> SUFFICES ASSUME TypeOK, [Next]_vars PROVE TypeOK'
  OBVIOUS
<1> USE StampsAreNaturals
<1>1. CASE UNCHANGED vars
  BY <1>1 DEF vars, TypeOK
<1>2. ASSUME NEW r \in Requests, Get(r) PROVE TypeOK'
  <2>1. req' \in [Requests -> Local] /\ current' \in Limiters
    <3>1. current \in Limiters /\ (current < MaxCleanups => current + 1 \in Limiters)
      BY BucketsAssumption DEF TypeOK, Limiters
    <3>2. CASE live
      BY <1>2, <3>1, <3>2 DEF Get, TypeOK, Local
    <3>3. CASE ~live
      BY <1>2, <3>1, <3>3 DEF Get, TypeOK, Local
    <3>4. QED
      BY <3>2, <3>3
  <2>2. bucket' \in [Limiters -> Bucket]
    <3>1. Fresh(clock) \in Bucket
      BY FreshIsFull DEF TypeOK
    <3>2. QED
      BY <1>2, <3>1 DEF Get, TypeOK, Bucket
  <2>a. live' \in BOOLEAN
    BY <1>2 DEF Get, TypeOK
  <2>3. QED
    BY <1>2, <2>1, <2>2, <2>a DEF Get, TypeOK, history, Local, Bucket
<1>3. ASSUME NEW r \in Requests, Stamp(r) PROVE TypeOK'
  <2>1. Clock(r) \in Stamps
    BY ClockTyped
  <2>2. req' \in [Requests -> Local]
    BY <1>3, <2>1 DEF Stamp, TypeOK, Local
  <2>3. QED
    BY <1>3, <2>2 DEF Stamp, TypeOK, history, Local
<1>4. ASSUME NEW r \in Requests, Allow(r) PROVE TypeOK'
  <2> DEFINE g == req[r].limiter
             now == req[r].now
  <2>1. g \in Limiters /\ now \in Stamps /\ bucket[g] \in Bucket
    BY DEF TypeOK, Bucket
  <2>2. req' \in [Requests -> Local]
    BY <1>4, AnswerTyped DEF Allow
  <2>3. CASE Refilled(bucket[g], now) < 1
    <3>1. ~(Refilled(bucket[g], now) >= 1)
      BY <2>1, <2>3, RefillFacts, BucketsAssumption
    <3>2. QED
      BY <1>4, <2>2, <2>3, <3>1 DEF Allow, TypeOK, history, Local
  <2>4. CASE Refilled(bucket[g], now) >= 1
    <3>1. bucket' \in [Limiters -> Bucket]
      <4>1. Taken(bucket[g], now) \in Bucket
        BY <2>1, <2>4, TakenFacts
      <4>2. bucket' = [bucket EXCEPT ![g] = Taken(bucket[g], now)] \/ bucket' = bucket
        BY <1>4 DEF Allow, history
      <4>3. QED
        BY <2>1, <4>1, <4>2 DEF TypeOK, Bucket
    <3>2. since' \in [Stamps -> Nat]
      <4>1. Counted(now) \in [Stamps -> Nat]
        BY <2>1, CountedFacts DEF TypeOK
      <4>2. QED
        BY <1>4, <4>1 DEF Allow, TypeOK, history
    <3>3. latest' \in Stamps /\ slack' \in Nat
      <4>1. bucket[g].ts \in Nat /\ now \in Nat /\ latest \in Nat /\ slack \in Nat
        BY <2>1 DEF TypeOK, Bucket
      <4>2. Back(bucket[g].ts, now) \in Nat /\ Later(latest, now) \in Stamps
        BY <4>1, <2>1, BackFacts DEF TypeOK
      <4>3. QED
        BY <1>4, <4>1, <4>2 DEF Allow, TypeOK, history
    <3>4. QED
      BY <1>4, <2>2, <3>1, <3>2, <3>3 DEF Allow, TypeOK, Local, Bucket
  <2>5. QED
    BY <2>1, <2>3, <2>4, RefillFacts, BucketsAssumption
<1>5. ASSUME NEW r \in Requests, RunScript(r) PROVE TypeOK'
  <2>1. req' \in [Requests -> Local]
    BY <1>5, AnswerTyped DEF RunScript
  <2>2. req[r].now \in Stamps
    BY DEF TypeOK
  <2>3. QED
    BY <1>5, <2>1, <2>2, ScriptTyped DEF RunScript, TypeOK, Local, Bucket
<1>6. ASSUME NEW r \in Requests, Resend(r) \/ FailOpen(r) PROVE TypeOK'
  <2>1. CallFails(r) /\ (UNCHANGED req \/ Answer(r, "idle"))
    BY <1>6 DEF Resend, FailOpen
  <2>2. req' \in [Requests -> Local]
    BY <2>1, AnswerTyped DEF TypeOK, Local
  <2>3. stray' \in [Requests \X Stamps -> Nat] /\ outages' \in Nat
    BY <2>1 DEF CallFails, TypeOK
  <2>4. QED
    BY <2>1, <2>2, <2>3 DEF CallFails, TypeOK, history, Local, Bucket
<1>b. ASSUME NEW r \in Requests, NEW now \in Stamps, StrayRuns(r, now) PROVE TypeOK'
  <2>1. stray' \in [Requests \X Stamps -> Nat]
    BY <1>b DEF StrayRuns, TypeOK
  <2>2. QED
    BY <1>b, <2>1, ScriptTyped DEF StrayRuns, TypeOK, Local, Bucket
<1>7. CASE Cleanup
  BY <1>7 DEF Cleanup, TypeOK, history
<1>8. CASE Expire
  BY <1>8 DEF Expire, TypeOK, history
<1>9. CASE Tick
  BY <1>9, BucketsAssumption DEF Tick, TypeOK, history
<1>10. QED
  BY <1>1, <1>2, <1>3, <1>4, <1>5, <1>b, <1>6, <1>7, <1>8, <1>9 DEF Next

LEMMA InitTyped == Init => TypeOK
<1> SUFFICES ASSUME Init PROVE TypeOK
  OBVIOUS
<1> USE StampsAreNaturals
<1>1. bucket \in [Limiters -> Bucket]
  BY FreshIsFull DEF Init
<1>2. 0 \in 0..MaxClock /\ backend \in {"process", "redis"}
  BY BucketsAssumption DEF Init
<1>3. req \in [Requests -> Local]
  BY DEF Init, Local
<1>4. QED
  BY <1>1, <1>2, <1>3 DEF Init, TypeOK, Bucket, Local

\* Every variable of the limiters stays in its domain.
THEOREM BucketsTypeCorrect == Spec => []TypeOK
BY InitTyped, TypeStep, PTL DEF Spec


-----------------------------------------------------------------------------
(***************************************************************************)
(* The budget.  The potential "tokens given plus tokens left" never exceeds  *)
(* a full bucket plus the refill, for a bucket in use and for a row that has *)
(* expired, which goes on as if it were there; of a limiter that was removed *)
(* it is known that it was full when it went.                                *)
(***************************************************************************)
InUse == live \/ backend = "redis" => \A s \in Stamps : s <= latest =>
    since[s] + bucket[current].tokens <= Burst + (bucket[current].ts - s) + slack

Removed == ~live /\ backend = "process" => \A s \in Stamps : s <= latest =>
    \/ latest = 0 /\ since[s] <= slack
    \/ since[s] <= clock - s + slack

Beyond == \A s \in Stamps : s > latest => since[s] <= slack

\* How far a timestamp may be from the true time.
Close ==
    /\ backend = "process" =>
          /\ live => bucket[current].ts <= clock
          /\ \A r \in Requests : req[r].pc = "stamped" => req[r].now <= clock
    /\ backend = "redis" =>
          /\ bucket[current].ts <= used + MaxSkew
          /\ used <= clock
          /\ ~live => bucket[current] = Fresh(0) \/ clock >= used + Burst + Grace
          /\ \A r \in Requests : req[r].pc = "stamped" => req[r].now - Skew[r] <= clock

\* Only Redis runs a script late, and none before it was stamped.
StraysPast ==
    \A r \in Requests, now \in Stamps :
        stray[<<r, now>>] > 0 => backend = "redis" /\ now - Skew[r] <= clock

BudgetInv == TypeOK /\ InUse /\ Removed /\ Beyond /\ BudgetHolds /\ Close /\ StraysPast

LEMMA Numbers ==
    ASSUME TypeOK, NEW s \in Stamps, NEW b \in Bucket
    PROVE  /\ s \in Nat /\ since[s] \in Nat /\ latest \in Nat /\ slack \in Nat
           /\ clock \in Nat /\ used \in Nat
           /\ b.ts \in Nat /\ b.tokens \in Nat /\ b.tokens <= Burst
           /\ Burst \in Nat /\ Grace \in Nat /\ MaxSkew \in Nat
<1>1. s \in Nat /\ latest \in Nat /\ b.ts \in Nat
  BY StampsAreNaturals DEF TypeOK, Bucket
<1>2. since[s] \in Nat /\ slack \in Nat
  BY DEF TypeOK
<1>3. clock \in Nat /\ used \in Nat
  BY StampsAreNaturals DEF TypeOK
<1>4. Burst \in Nat /\ Grace \in Nat /\ MaxSkew \in Nat
  BY BucketsAssumption
<1>5. b.tokens \in Nat /\ b.tokens <= Burst
  BY <1>4 DEF Bucket
<1>6. QED
  BY <1>1, <1>2, <1>3, <1>4, <1>5

\* One token taken at now from a bucket the invariant speaks of.
LEMMA TakeKeepsBudget ==
    ASSUME TypeOK, NEW b \in Bucket, NEW now \in Stamps, NEW s \in Stamps, NEW k \in Nat,
           Refilled(b, now) >= 1, s <= latest \/ s <= now,
           s <= latest => since[s] + b.tokens <= Burst + (b.ts - s) + slack + k,
           s > latest => since[s] <= slack
    PROVE  Counted(now)[s] + (Refilled(b, now) - 1)
             <= Burst + (now - s) + (slack + k + Back(b.ts, now))
<1>1. /\ s \in Nat /\ now \in Nat /\ b.ts \in Nat /\ latest \in Nat /\ Burst \in Nat
      /\ slack \in Nat /\ since[s] \in Nat /\ b.tokens \in Nat
  BY Numbers, StampsAreNaturals
<1>2. Counted(now)[s] = IF s <= now THEN since[s] + 1 ELSE since[s]
  BY CountedFacts DEF TypeOK
<1>3. /\ Refilled(b, now) \in Nat /\ Refilled(b, now) <= Burst
      /\ now <= b.ts => Refilled(b, now) = b.tokens
      /\ now > b.ts => Refilled(b, now) <= b.tokens + (now - b.ts)
  BY RefillFacts, BucketsAssumption
<1>4. /\ Back(b.ts, now) \in Nat
      /\ now < b.ts => Back(b.ts, now) = b.ts - now
      /\ now >= b.ts => Back(b.ts, now) = 0
  BY <1>1, BackFacts
<1>5. QED
  BY <1>1, <1>2, <1>3, <1>4

\* A script that finds no token.
LEMMA RefusalKeepsBudget ==
    ASSUME TypeOK, NEW b \in Bucket, NEW now \in Stamps, NEW s \in Stamps, NEW k \in Nat,
           Refilled(b, now) < 1, s <= latest \/ s <= now,
           s <= latest => since[s] + b.tokens <= Burst + (b.ts - s) + slack + k,
           s > latest => since[s] <= slack
    PROVE  since[s] + Refilled(b, now)
             <= Burst + (now - s) + (slack + k + Back(b.ts, now))
<1>1. /\ s \in Nat /\ now \in Nat /\ b.ts \in Nat /\ latest \in Nat /\ Burst \in Nat
      /\ slack \in Nat /\ since[s] \in Nat /\ b.tokens \in Nat
  BY Numbers, StampsAreNaturals
<1>2. /\ Refilled(b, now) = 0
      /\ now <= b.ts => Refilled(b, now) = b.tokens
      /\ now > b.ts => Refilled(b, now) <= b.tokens + (now - b.ts)
      /\ now > b.ts => \/ Refilled(b, now) = Burst
                       \/ Refilled(b, now) = b.tokens + (now - b.ts)
  BY RefillFacts, BucketsAssumption
<1>3. /\ Back(b.ts, now) \in Nat
      /\ now < b.ts => Back(b.ts, now) = b.ts - now
      /\ now >= b.ts => Back(b.ts, now) = 0
  BY <1>1, BackFacts
<1>4. QED
  BY <1>1, <1>2, <1>3

\* The row a script finds, or makes, satisfies what the two lemmas ask, k being
\* what a row made for a late script lacked.
LEMMA RowIsWithinBudget ==
    ASSUME BudgetInv, backend = "redis", NEW r \in Requests, NEW now \in Stamps,
           now - Skew[r] <= clock, NEW s \in Stamps, s <= latest
    PROVE  since[s] + Row(now).tokens
             <= Burst + (Row(now).ts - s) + slack + (IF live THEN 0 ELSE Gives(r, now))
<1> DEFINE row == bucket[current]
           left == Refilled(row, now)
<1>1. TypeOK /\ row \in Bucket /\ left \in 0..Burst
  BY RowFacts DEF BudgetInv
<1>2. /\ s \in Nat /\ now \in Nat /\ slack \in Nat /\ since[s] \in Nat /\ clock \in Nat
      /\ used \in Nat /\ row.ts \in Nat /\ row.tokens \in Nat /\ row.tokens <= Burst
      /\ Burst \in Nat /\ Grace \in Nat /\ MaxSkew \in Nat /\ Skew[r] \in Nat
      /\ left \in Nat /\ left <= Burst
  BY <1>1, Numbers, ClockTyped, StampsAreNaturals, BucketsAssumption
<1>3. since[s] + row.tokens <= Burst + (row.ts - s) + slack
  BY DEF BudgetInv, InUse
<1>4. CASE live
  BY <1>2, <1>3, <1>4 DEF Row
<1>5. CASE ~live /\ Late(r, now)
  <2>1. Row(now).tokens = Burst /\ Row(now).ts = now
    BY <1>5, FreshIsFull DEF Row
  <2>2. Gives(r, now) = Back(row.ts, now) + (Burst - left)
    BY <1>5 DEF Gives
  <2>3. /\ Back(row.ts, now) \in Nat
        /\ now < row.ts => Back(row.ts, now) = row.ts - now
        /\ now >= row.ts => Back(row.ts, now) = 0
    BY <1>2, BackFacts
  <2>4. /\ now <= row.ts => left = row.tokens
        /\ now > row.ts => left <= row.tokens + (now - row.ts)
    BY <1>1, RefillFacts
  <2>5. since[s] + Burst <= Burst + (now - s) + slack + (Back(row.ts, now) + (Burst - left))
    BY <1>2, <1>3, <2>3, <2>4
  <2>6. QED
    BY <1>5, <2>1, <2>2, <2>5
<1>6. CASE ~live /\ ~Late(r, now)
  <2>1. Row(now).tokens = Burst /\ Row(now).ts = now /\ Gives(r, now) = 0
    BY <1>6, FreshIsFull DEF Row, Gives
  <2>2. since[s] + Burst <= Burst + (now - s) + slack
    <3>1. CASE row = Fresh(0)
      <4>1. row.tokens = Burst /\ row.ts = 0
        BY <3>1, FreshIsFull, StampsAreNaturals
      <4>2. QED
        BY <1>2, <1>3, <4>1
    <3>2. CASE clock >= used + Burst + Grace
      <4>1. row.ts <= used + MaxSkew
        BY DEF BudgetInv, Close
      <4>2. clock - (now - Skew[r]) <= Grace - MaxSkew
        BY <1>2, <1>6 DEF Late
      <4>3. now >= row.ts + Burst
        BY <1>2, <3>2, <4>1, <4>2
      <4>4. QED
        BY <1>2, <1>3, <4>3
    <3>3. QED
      BY <1>6, <3>1, <3>2 DEF BudgetInv, Close
  <2>3. QED
    BY <1>2, <1>6, <2>1, <2>2
<1>7. QED
  BY <1>4, <1>5, <1>6

-----------------------------------------------------------------------------
\* A step that leaves the bucket alone may let k requests through if it adds
\* them to the slack.
LEMMA SlackPays ==
    ASSUME BudgetInv, TypeOK', NEW k \in {0, 1},
           clock' >= clock, UNCHANGED <<backend, current, live, latest>>,
           live \/ backend = "redis" => bucket'[current] = bucket[current],
           slack' = slack + k,
           \A s \in Stamps : since'[s] <= since[s] + k
    PROVE  InUse' /\ Removed' /\ Beyond' /\ BudgetHolds'
<1> SUFFICES ASSUME NEW s \in Stamps
             PROVE  /\ (live' \/ backend' = "redis") /\ s <= latest' =>
                          since'[s] + bucket'[current'].tokens
                            <= Burst + (bucket'[current'].ts - s) + slack'
                    /\ ~live' /\ backend' = "process" /\ s <= latest' =>
                          \/ latest' = 0 /\ since'[s] <= slack'
                          \/ since'[s] <= clock' - s + slack'
                    /\ s > latest' => since'[s] <= slack'
                    /\ since'[s] <= Burst + Back(latest', s) + slack'
  BY DEF InUse, Removed, Beyond, BudgetHolds, Back
<1>1. bucket[current] \in Bucket
  BY DEF BudgetInv, TypeOK, Bucket
<1>2. /\ s \in Nat /\ since[s] \in Nat /\ latest \in Nat /\ slack \in Nat
      /\ clock \in Nat /\ Burst \in Nat
      /\ bucket[current].ts \in Nat /\ bucket[current].tokens \in Nat
  BY <1>1, Numbers DEF BudgetInv
<1>3. since'[s] \in Nat /\ clock' \in Nat
  BY StampsAreNaturals DEF TypeOK
<1>5. Back(latest, s) \in Nat
  BY <1>2, BackFacts
<1>6. /\ (live \/ backend = "redis") /\ s <= latest =>
           since[s] + bucket[current].tokens <= Burst + (bucket[current].ts - s) + slack
      /\ ~live /\ backend = "process" /\ s <= latest =>
           \/ latest = 0 /\ since[s] <= slack
           \/ since[s] <= clock - s + slack
      /\ s > latest => since[s] <= slack
      /\ since[s] <= Burst + Back(latest, s) + slack
  BY DEF BudgetInv, InUse, Removed, Beyond, BudgetHolds
<1>7. since'[s] <= since[s] + k
  OBVIOUS
<1>8. /\ (live' \/ backend' = "redis") /\ s <= latest' =>
           since'[s] + bucket'[current'].tokens
             <= Burst + (bucket'[current'].ts - s) + slack'
      /\ s > latest' => since'[s] <= slack'
  BY <1>2, <1>3, <1>6, <1>7
<1>9. ~live' /\ backend' = "process" /\ s <= latest' =>
         \/ latest' = 0 /\ since'[s] <= slack'
         \/ since'[s] <= clock' - s + slack'
  BY <1>2, <1>3, <1>6, <1>7
<1>10. since'[s] <= Burst + Back(latest', s) + slack'
  <2>1. latest' = latest /\ slack' = slack + k /\ since[s] <= Burst + Back(latest, s) + slack
    BY <1>6
  <2>2. QED
    BY <2>1, <1>2, <1>3, <1>5, <1>7
<1>11. QED
  BY <1>8, <1>9, <1>10

\* A step that leaves the potential of every moment up to the latest stamp
\* within bounds keeps the invariant's other parts.
LEMMA PotentialPays ==
    ASSUME BudgetInv, TypeOK', live', NEW now \in Stamps,
           latest' = Later(latest, now), bucket'[current'].ts = now,
           \A s \in Stamps : s <= latest \/ s <= now =>
               since'[s] + bucket'[current'].tokens <= Burst + (now - s) + slack',
           \A s \in Stamps : s > now => since'[s] = since[s],
           slack' >= slack
    PROVE  InUse' /\ Removed' /\ Beyond' /\ BudgetHolds'
<1> SUFFICES ASSUME NEW s \in Stamps
             PROVE  /\ s <= latest' =>
                          since'[s] + bucket'[current'].tokens
                            <= Burst + (bucket'[current'].ts - s) + slack'
                    /\ s > latest' => since'[s] <= slack'
                    /\ since'[s] <= Burst + Back(latest', s) + slack'
  BY DEF InUse, Removed, Beyond, BudgetHolds, Back
<1>1. bucket'[current'] \in Bucket
  BY DEF TypeOK, Bucket
<1>2. /\ s \in Nat /\ now \in Nat /\ latest \in Nat /\ slack \in Nat /\ Burst \in Nat
      /\ since[s] \in Nat
  BY <1>1, Numbers, StampsAreNaturals DEF BudgetInv
<1>3. bucket'[current'].tokens \in Nat
  BY <1>1, BucketsAssumption DEF Bucket
<1>4. since'[s] \in Nat /\ latest' \in Nat /\ slack' \in Nat
  BY StampsAreNaturals DEF TypeOK
<1>5. latest' >= latest /\ latest' >= now /\ latest' \in {latest, now}
  BY <1>2, BackFacts
<1>6. /\ latest' > s => Back(latest', s) = latest' - s
      /\ latest' <= s => Back(latest', s) = 0
  BY <1>2, <1>4, BackFacts
<1>7. s > latest' => since'[s] <= slack'
  <2>1. s > latest => since[s] <= slack
    BY DEF BudgetInv, Beyond
  <2>2. QED
    BY <2>1, <1>2, <1>4, <1>5
<1>8. s <= latest' => since'[s] + bucket'[current'].tokens <= Burst + (now - s) + slack'
  BY <1>2, <1>5
<1>9. QED
  BY <1>2, <1>3, <1>4, <1>5, <1>6, <1>7, <1>8

Parts == InUse /\ Removed /\ Beyond /\ BudgetHolds

\* The script, whoever waits for its answer.
LEMMA ScriptKeepsBudget ==
    ASSUME BudgetInv, TypeOK', backend = "redis", NEW r \in Requests, NEW now \in Stamps,
           now - Skew[r] <= clock, Script(r, now), UNCHANGED <<clock, backend, current>>
    PROVE  Parts'
<1> DEFINE row == Row(now)
           k == IF live THEN 0 ELSE Gives(r, now)
<1>1. TypeOK /\ current \in Limiters
  BY DEF BudgetInv, TypeOK
<1>2. row \in Bucket /\ Refilled(row, now) \in 0..Burst /\ Gives(r, now) \in Nat
  BY <1>1, RowFacts
<1>3. /\ now \in Nat /\ latest \in Nat /\ slack \in Nat /\ Burst \in Nat
      /\ row.ts \in Nat /\ row.tokens \in Nat /\ Refilled(row, now) \in Nat
  BY <1>1, <1>2, Numbers, StampsAreNaturals, BucketsAssumption
<1>4. /\ bucket'[current'].ts = now
      /\ bucket'[current'].tokens =
           IF HasToken(now) THEN Refilled(row, now) - 1 ELSE Refilled(row, now)
  BY <1>1 DEF Script, TypeOK
<1>5. /\ slack' = slack + k + Back(row.ts, now)
      /\ k \in Nat /\ Back(row.ts, now) \in Nat
  <2>1. CASE live
    BY <1>2, <1>3, <2>1, BackFacts DEF Script, Gives, Row
  <2>2. CASE ~live
    <3>1. row.ts = now
      BY <2>2, FreshIsFull DEF Row
    <3>2. Back(row.ts, now) = 0
      BY <1>3, <3>1, BackFacts
    <3>3. slack' = slack + Gives(r, now)
      BY DEF Script
    <3>4. QED
      BY <1>2, <1>3, <2>2, <3>2, <3>3
  <2>3. QED
    BY <2>1, <2>2
<1>6. live' /\ latest' = Later(latest, now)
  BY DEF Script
<1>7. ASSUME NEW s \in Stamps, s <= latest \/ s <= now
      PROVE  since'[s] + bucket'[current'].tokens <= Burst + (now - s) + slack'
  <2>1. s <= latest => since[s] + row.tokens <= Burst + (row.ts - s) + slack + k
    BY RowIsWithinBudget
  <2>2. s > latest => since[s] <= slack
    BY DEF BudgetInv, Beyond
  <2>3. s \in Nat /\ since[s] \in Nat
    BY <1>1, <1>2, Numbers
  <2>4. CASE HasToken(now)
    <3>1. Refilled(row, now) >= 1
      BY <2>4 DEF HasToken
    <3>2. Counted(now)[s] + (Refilled(row, now) - 1)
             <= Burst + (now - s) + (slack + k + Back(row.ts, now))
      BY <1>1, <1>2, <1>5, <1>7, <2>1, <2>2, <3>1, TakeKeepsBudget
    <3>3. since' = Counted(now)
      BY <2>4 DEF Script
    <3>4. QED
      BY <1>4, <1>5, <2>4, <3>2, <3>3
  <2>5. CASE ~HasToken(now)
    <3>1. Refilled(row, now) < 1
      BY <1>3, <2>5 DEF HasToken
    <3>2. since[s] + Refilled(row, now)
             <= Burst + (now - s) + (slack + k + Back(row.ts, now))
      BY <1>1, <1>2, <1>5, <1>7, <2>1, <2>2, <3>1, RefusalKeepsBudget
    <3>3. since' = since
      BY <2>5 DEF Script
    <3>4. QED
      BY <1>4, <1>5, <2>5, <3>2, <3>3
  <2>6. QED
    BY <2>4, <2>5
<1>8. ASSUME NEW s \in Stamps, s > now PROVE since'[s] = since[s]
  <2>1. Counted(now)[s] = since[s]
    <3>1. since \in [Stamps -> Nat]
      BY <1>1 DEF TypeOK
    <3>2. \A t \in Stamps : t > now => Counted(now)[t] = since[t]
      BY <3>1, CountedFacts
    <3>3. QED
      BY <1>8, <3>2
  <2>2. QED
    BY <2>1 DEF Script
<1>9. slack' >= slack
  BY <1>3, <1>5
<1>10. QED
  BY <1>4, <1>6, <1>7, <1>8, <1>9, PotentialPays DEF Parts

\* Steps that touch no bucket, stamp or count; time may pass.
LEMMA IdleKeepsBudget ==
    ASSUME BudgetInv, TypeOK', clock' >= clock,
           UNCHANGED <<backend, bucket, current, live, since, latest, slack>>
    PROVE  Parts'
<1>1. \A s \in Stamps : since'[s] <= since[s] + 0
  BY DEF BudgetInv, TypeOK
<1>2. slack' = slack + 0
  BY DEF BudgetInv, TypeOK
<1>3. QED
  BY <1>1, <1>2, SlackPays DEF Parts

LEMMA BudgetStep == BudgetInv /\ TypeOK' /\ [Next]_vars => Parts'
<1> SUFFICES ASSUME BudgetInv, TypeOK', [Next]_vars PROVE Parts'
  OBVIOUS
<1>a. TypeOK /\ clock \in Nat
  BY StampsAreNaturals DEF BudgetInv, TypeOK
<1>1. CASE UNCHANGED vars
  BY <1>1, <1>a, IdleKeepsBudget DEF vars
<1>2. ASSUME NEW r \in Requests, Get(r) PROVE Parts'
  <2>1. CASE live
    BY <1>2, <1>a, <2>1, IdleKeepsBudget DEF Get, history
  <2>2. CASE ~live
    <3>1. /\ current' = current + 1 /\ current' \in Limiters /\ backend = "process"
          /\ bucket' = [bucket EXCEPT ![current + 1] = Fresh(clock)]
          /\ live' = TRUE /\ since' = since /\ latest' = latest /\ slack' = slack
          /\ clock' = clock
      BY <1>2, <2>2 DEF Get, history, TypeOK
    <3>2. clock \in Stamps
      BY <1>a, StampsAreNaturals DEF TypeOK
    <3>3. bucket'[current'] = Fresh(clock)
      BY <1>a, <3>1 DEF TypeOK
    <3>4. bucket'[current'].tokens = Burst /\ bucket'[current'].ts = clock
      BY <3>2, <3>3, FreshIsFull
    <3>6. ASSUME NEW s \in Stamps, s <= latest'
          PROVE  since'[s] + Burst <= Burst + (clock - s) + slack'
      <4>1. /\ s \in Nat /\ since[s] \in Nat /\ latest \in Nat /\ slack \in Nat
            /\ Burst \in Nat
        BY <1>a, <3>2, FreshIsFull, Numbers
      <4>2. \/ latest = 0 /\ since[s] <= slack
            \/ since[s] <= clock - s + slack
        BY <2>2, <3>1, <3>6 DEF BudgetInv, Removed
      <4>3. QED
        BY <1>a, <3>1, <3>6, <4>1, <4>2
    <3>7. InUse'
      BY <3>4, <3>6, <3>1 DEF InUse
    <3>8. QED
      BY <3>1, <3>7 DEF Parts, BudgetInv, Removed, Beyond, BudgetHolds
  <2>3. QED
    BY <2>1, <2>2
<1>3. ASSUME NEW r \in Requests, Stamp(r) PROVE Parts'
  BY <1>3, <1>a, IdleKeepsBudget DEF Stamp, history
<1>4. ASSUME NEW r \in Requests, Allow(r) PROVE Parts'
  <2> DEFINE g == req[r].limiter
             now == req[r].now
  <2>1. g \in Limiters /\ now \in Stamps /\ bucket[g] \in Bucket
    BY <1>a DEF TypeOK, Bucket
  <2>2. CASE Refilled(bucket[g], now) < 1
    <3>1. ~(Refilled(bucket[g], now) >= 1)
      BY <2>1, <2>2, RefillFacts, BucketsAssumption
    <3>2. QED
      BY <1>4, <1>a, <3>1, IdleKeepsBudget DEF Allow, history
  <2>3. CASE Refilled(bucket[g], now) >= 1
    <3>a. ~(Refilled(bucket[g], now) < 1)
      BY <2>1, <2>3, RefillFacts, BucketsAssumption
    <3>b. /\ bucket' = [bucket EXCEPT ![g] = Taken(bucket[g], now)]
          /\ since' = Counted(now) /\ UNCHANGED <<clock, backend, current, live>>
      BY <1>4, <3>a DEF Allow
    <3>1. CASE g = current /\ live
      <4>1. latest' = Later(latest, now) /\ slack' = slack + Back(bucket[g].ts, now)
        BY <1>4, <3>a, <3>1 DEF Allow
      <4>2. bucket'[current'].ts = now /\ bucket'[current'].tokens = Refilled(bucket[g], now) - 1
        BY <1>a, <2>1, <2>3, <3>1, <3>b, TakenFacts DEF TypeOK
      <4>3. ASSUME NEW s \in Stamps, s <= latest \/ s <= now
            PROVE  since'[s] + bucket'[current'].tokens <= Burst + (now - s) + slack'
        <5>1. s <= latest => since[s] + bucket[g].tokens <= Burst + (bucket[g].ts - s) + slack
          BY <3>1 DEF BudgetInv, InUse
        <5>2. s > latest => since[s] <= slack
          BY DEF BudgetInv, Beyond
        <5>3. since'[s] + (Refilled(bucket[g], now) - 1)
                <= Burst + (now - s) + (slack + 0 + Back(bucket[g].ts, now))
          <6>1. s <= latest => since[s] + bucket[g].tokens
                                 <= Burst + (bucket[g].ts - s) + slack + 0
            BY <1>a, <2>1, <5>1, Numbers
          <6>2. QED
            BY <1>a, <2>1, <2>3, <3>b, <4>3, <5>2, <6>1, TakeKeepsBudget
        <5>4. slack \in Nat
          BY <1>a DEF TypeOK
        <5>5. QED
          BY <4>1, <4>2, <5>3, <5>4
      <4>4. ASSUME NEW s \in Stamps, s > now PROVE since'[s] = since[s]
        <5>1. since \in [Stamps -> Nat]
          BY <1>a DEF TypeOK
        <5>2. \A t \in Stamps : t > now => Counted(now)[t] = since[t]
          BY <2>1, <5>1, CountedFacts
        <5>3. QED
          BY <3>b, <4>4, <5>2
      <4>5. slack' >= slack
        <5>1. bucket[g].ts \in Nat /\ now \in Nat /\ slack \in Nat
          BY <1>a, <2>1, Numbers, StampsAreNaturals
        <5>2. QED
          BY <4>1, <5>1, BackFacts
      <4>6. live'
        BY <3>1, <3>b
      <4>7. QED
        BY <2>1, <4>1, <4>2, <4>3, <4>4, <4>5, <4>6, PotentialPays DEF Parts
    <3>2. CASE ~(g = current /\ live)
      <4>1. slack' = slack + 1 /\ latest' = latest
        BY <1>4, <3>a, <3>2 DEF Allow
      <4>2. ASSUME NEW s \in Stamps PROVE since'[s] <= since[s] + 1
        BY <1>a, <2>1, <3>b, CountedFacts DEF TypeOK
      <4>3. CASE g # current
        <5>1. bucket'[current] = bucket[current] /\ current' = current
          BY <1>a, <3>b, <4>3 DEF TypeOK
        <5>2. QED
          BY <1>a, <3>b, <4>1, <4>2, <5>1, SlackPays DEF Parts
      <4>4. CASE ~live
        <5>1. backend # "redis"
          BY <1>4 DEF Allow
        <5>2. QED
          BY <1>a, <3>b, <4>1, <4>2, <4>4, <5>1, SlackPays DEF Parts
      <4>5. QED
        BY <3>2, <4>3, <4>4
    <3>3. QED
      BY <3>1, <3>2
  <2>4. QED
    BY <2>1, <2>2, <2>3, RefillFacts, BucketsAssumption
<1>5. ASSUME NEW r \in Requests, RunScript(r) PROVE Parts'
  <2>1. /\ backend = "redis" /\ Script(r, req[r].now)
        /\ UNCHANGED <<clock, backend, current>>
    BY <1>5 DEF RunScript
  <2>2. req[r].now \in Stamps /\ req[r].now - Skew[r] <= clock
    BY <1>5, <2>1 DEF RunScript, BudgetInv, TypeOK, Close
  <2>3. QED
    BY <2>1, <2>2, ScriptKeepsBudget
<1>6. ASSUME NEW r \in Requests, Resend(r) \/ FailOpen(r) PROVE Parts'
  BY <1>6, <1>a, IdleKeepsBudget DEF Resend, FailOpen, CallFails, history
<1>b. ASSUME NEW r \in Requests, NEW now \in Stamps, StrayRuns(r, now) PROVE Parts'
  <2>1. Script(r, now) /\ UNCHANGED <<clock, backend, current>> /\ stray[<<r, now>>] > 0
    BY <1>b DEF StrayRuns
  <2>2. backend = "redis" /\ now - Skew[r] <= clock
    BY <2>1 DEF BudgetInv, StraysPast
  <2>3. QED
    BY <2>1, <2>2, ScriptKeepsBudget
<1>7. CASE Cleanup
  <2>1. /\ backend = "process" /\ live /\ ~live'
        /\ Refilled(bucket[current], clock) >= Burst
        /\ UNCHANGED <<clock, backend, bucket, current, since, latest, slack>>
    BY <1>7 DEF Cleanup, history
  <2>2. bucket[current] \in Bucket /\ clock \in Stamps
    BY <1>a, StampsAreNaturals DEF TypeOK, Bucket
  <2>3. bucket[current].ts <= clock
    BY <2>1 DEF BudgetInv, Close
  <2>4. /\ Refilled(bucket[current], clock) <= Burst
        /\ clock <= bucket[current].ts => Refilled(bucket[current], clock) = bucket[current].tokens
        /\ clock > bucket[current].ts =>
             Refilled(bucket[current], clock) <= bucket[current].tokens + (clock - bucket[current].ts)
        /\ Refilled(bucket[current], clock) \in Nat
    BY <2>2, RefillFacts, BucketsAssumption
  <2>5. ASSUME NEW s \in Stamps, s <= latest
        PROVE  since[s] <= clock - s + slack
    <3>1. /\ s \in Nat /\ since[s] \in Nat /\ slack \in Nat /\ Burst \in Nat
          /\ bucket[current].ts \in Nat /\ bucket[current].tokens \in Nat
      BY <1>a, <2>2, Numbers
    <3>2. since[s] + bucket[current].tokens <= Burst + (bucket[current].ts - s) + slack
      BY <2>1, <2>5 DEF BudgetInv, InUse
    <3>3. QED
      BY <1>a, <2>1, <2>3, <2>4, <3>1, <3>2
  <2>6. Removed'
    BY <2>1, <2>3, <2>5 DEF Removed
  <2>7. QED
    BY <2>1, <2>6 DEF Parts, BudgetInv, InUse, Beyond, BudgetHolds
<1>8. CASE Expire
  <2>1. /\ backend = "redis" /\ UNCHANGED <<clock, backend, bucket, current, since, latest, slack>>
    BY <1>8 DEF Expire, history
  <2>2. InUse' /\ Removed'
    BY <2>1 DEF BudgetInv, InUse, Removed
  <2>3. QED
    BY <2>1, <2>2 DEF Parts, BudgetInv, Beyond, BudgetHolds
<1>9. CASE Tick
  BY <1>9, <1>a, IdleKeepsBudget DEF Tick, history
<1>10. QED
  BY <1>1, <1>2, <1>3, <1>4, <1>5, <1>b, <1>6, <1>7, <1>8, <1>9 DEF Next

-----------------------------------------------------------------------------
\* The requests that wait after a step: those that waited, or one just stamped.
LEMMA WaitersStay ==
    ASSUME TypeOK, NEW r \in Requests,
           \/ UNCHANGED req
           \/ \E q \in Requests, pc \in {"idle", "refused"} : Answer(q, pc)
           \/ \E q \in Requests : Get(q),
           req'[r].pc = "stamped"
    PROVE  req[r].pc = "stamped" /\ req'[r].now = req[r].now
<1>1. CASE UNCHANGED req
  BY <1>1
<1>2. ASSUME NEW q \in Requests, NEW pc \in {"idle", "refused"}, Answer(q, pc)
      PROVE  req[r].pc = "stamped" /\ req'[r].now = req[r].now
  BY <1>2 DEF Answer, TypeOK
<1>3. ASSUME NEW q \in Requests, Get(q)
      PROVE  req[r].pc = "stamped" /\ req'[r].now = req[r].now
  <2>1. \E g : req' = [req EXCEPT ![q] = [pc |-> "got", limiter |-> g, now |-> 0]]
    BY <1>3 DEF Get
  <2>2. QED
    BY <2>1 DEF TypeOK
<1>4. QED
  BY <1>1, <1>2, <1>3

LEMMA ScriptKeepsClose ==
    ASSUME BudgetInv, TypeOK', backend = "redis", NEW r \in Requests, NEW now \in Stamps,
           now - Skew[r] <= clock, Script(r, now), UNCHANGED <<clock, backend, current>>,
           req' = req \/ \E q \in Requests, pc \in {"idle", "refused"} : Answer(q, pc)
    PROVE  Close'
<1>1. TypeOK
  BY DEF BudgetInv
<1>2. /\ Skew[r] \in Nat /\ Skew[r] <= MaxSkew /\ clock \in Nat /\ MaxSkew \in Nat
      /\ now \in Nat
  BY <1>1, ClockTyped, BucketsAssumption, StampsAreNaturals
<1>3. bucket'[current].ts = now /\ used' = clock /\ live'
  BY <1>1 DEF Script, TypeOK
<1>4. bucket'[current'].ts <= used' + MaxSkew
  BY <1>2, <1>3
<1>5. ASSUME NEW q \in Requests, req'[q].pc = "stamped"
      PROVE  req'[q].now - Skew[q] <= clock
  <2>1. req[q].pc = "stamped" /\ req'[q].now = req[q].now
    BY <1>1, <1>5, WaitersStay
  <2>2. QED
    BY <2>1 DEF BudgetInv, Close
<1>6. QED
  BY <1>2, <1>3, <1>4, <1>5 DEF Close

LEMMA CloseStep == BudgetInv /\ TypeOK' /\ [Next]_vars => Close'
<1> SUFFICES ASSUME BudgetInv, TypeOK', [Next]_vars PROVE Close'
  OBVIOUS
<1>a. /\ TypeOK /\ clock \in Nat
      /\ backend = "process" \/ backend = "redis"
  BY StampsAreNaturals, BucketsAssumption DEF BudgetInv, TypeOK
<1>1. CASE UNCHANGED vars
  BY <1>1 DEF vars, BudgetInv, Close
<1>2. ASSUME NEW r \in Requests, Get(r) PROVE Close'
  <2>1. backend = "process" /\ backend' = "process" /\ clock' = clock
    BY <1>2 DEF Get
  <2>2. ASSUME NEW q \in Requests, req'[q].pc = "stamped" PROVE req'[q].now <= clock'
    <3>1. req[q].pc = "stamped" /\ req'[q].now = req[q].now
      BY <1>2, <1>a, <2>2, WaitersStay
    <3>2. QED
      BY <2>1, <3>1 DEF BudgetInv, Close
  <2>3. live' => bucket'[current'].ts <= clock'
    <3>1. CASE live
      BY <1>2, <2>1, <3>1 DEF Get, BudgetInv, Close
    <3>2. CASE ~live
      <4>1. current' = current + 1 /\ current' \in Limiters
            /\ bucket' = [bucket EXCEPT ![current + 1] = Fresh(clock)]
        BY <1>2, <3>2 DEF Get, TypeOK
      <4>2. bucket'[current'] = Fresh(clock)
        BY <1>a, <4>1 DEF TypeOK
      <4>3. QED
        BY <1>a, <2>1, <4>2 DEF Fresh
    <3>3. QED
      BY <3>1, <3>2
  <2>4. QED
    BY <2>1, <2>2, <2>3 DEF Close
<1>3. ASSUME NEW r \in Requests, Stamp(r) PROVE Close'
  <2>1. /\ req' = [req EXCEPT ![r] = [req[r] EXCEPT !.pc = "stamped", !.now = Clock(r)]]
        /\ UNCHANGED <<clock, backend, bucket, current, live, used>>
    BY <1>3 DEF Stamp
  <2>2. ASSUME NEW q \in Requests, req'[q].pc = "stamped"
        PROVE  \/ q = r /\ req'[q].now = Clock(r)
               \/ req[q].pc = "stamped" /\ req'[q].now = req[q].now
    BY <1>a, <2>1, <2>2 DEF TypeOK
  <2>3. /\ clock \in Nat /\ Skew[r] \in Nat
        /\ backend = "process" => Clock(r) = clock
        /\ backend = "redis" => Clock(r) = clock + Skew[r]
    BY <1>a, ClockTyped
  <2>4. CASE backend = "process"
    BY <2>1, <2>2, <2>3, <2>4 DEF BudgetInv, Close
  <2>5. CASE backend = "redis"
    <3>1. ASSUME NEW q \in Requests, req'[q].pc = "stamped"
          PROVE  req'[q].now - Skew[q] <= clock
      <4>1. CASE q = r /\ req'[q].now = Clock(r)
        BY <1>a, <2>3, <2>5, <4>1
      <4>2. CASE req[q].pc = "stamped" /\ req'[q].now = req[q].now
        BY <2>5, <4>2 DEF BudgetInv, Close
      <4>3. QED
        BY <2>2, <3>1, <4>1, <4>2
    <3>2. QED
      BY <2>1, <2>5, <3>1 DEF BudgetInv, Close
  <2>6. QED
    BY <1>a, <2>4, <2>5
<1>4. ASSUME NEW r \in Requests, Allow(r) PROVE Close'
  <2> DEFINE g == req[r].limiter
             now == req[r].now
  <2>1. /\ backend = "process" /\ UNCHANGED <<clock, backend, current, live>>
        /\ now <= clock
    BY <1>4 DEF Allow, BudgetInv, Close
  <2>2. \E pc \in {"idle", "refused"} : Answer(r, pc)
    BY <1>4 DEF Allow
  <2>3. ASSUME NEW q \in Requests, req'[q].pc = "stamped" PROVE req'[q].now <= clock'
    <3>1. req[q].pc = "stamped" /\ req'[q].now = req[q].now
      BY <1>a, <2>2, <2>3, WaitersStay
    <3>2. QED
      BY <2>1, <3>1 DEF BudgetInv, Close
  <2>4. live' => bucket'[current'].ts <= clock'
    <3>1. \/ bucket' = bucket
          \/ bucket' = [bucket EXCEPT ![g] = Taken(bucket[g], now)]
      BY <1>4 DEF Allow, history
    <3>2. Taken(bucket[g], now).ts = now
      BY DEF Taken
    <3>3. \/ bucket'[current].ts = bucket[current].ts
          \/ bucket'[current].ts = now
      BY <1>a, <3>1, <3>2 DEF TypeOK
    <3>4. QED
      BY <2>1, <3>3 DEF BudgetInv, Close
  <2>5. QED
    BY <2>1, <2>3, <2>4 DEF Close
<1>5. ASSUME NEW r \in Requests, RunScript(r) PROVE Close'
  <2>1. /\ backend = "redis" /\ Script(r, req[r].now) /\ UNCHANGED <<clock, backend, current>>
        /\ \E pc \in {"idle", "refused"} : Answer(r, pc)
    BY <1>5 DEF RunScript
  <2>2. req[r].now \in Stamps /\ req[r].now - Skew[r] <= clock
    BY <1>5, <1>a, <2>1 DEF RunScript, BudgetInv, TypeOK, Close
  <2>3. QED
    BY <2>1, <2>2, ScriptKeepsClose
<1>6. ASSUME NEW r \in Requests, Resend(r) \/ FailOpen(r) PROVE Close'
  <2>1. /\ backend = "redis" /\ UNCHANGED <<clock, backend, bucket, current, live, used>>
        /\ UNCHANGED req \/ Answer(r, "idle")
    BY <1>6 DEF Resend, FailOpen, CallFails
  <2>2. \A q \in Requests : req'[q].pc = "stamped" =>
            req[q].pc = "stamped" /\ req'[q].now = req[q].now
    BY <1>a, <2>1, WaitersStay
  <2>3. QED
    BY <2>1, <2>2 DEF BudgetInv, Close
<1>b. ASSUME NEW r \in Requests, NEW now \in Stamps, StrayRuns(r, now) PROVE Close'
  <2>1. Script(r, now) /\ UNCHANGED <<clock, backend, current, req>> /\ stray[<<r, now>>] > 0
    BY <1>b DEF StrayRuns
  <2>2. backend = "redis" /\ now - Skew[r] <= clock
    BY <2>1 DEF BudgetInv, StraysPast
  <2>3. QED
    BY <2>1, <2>2, ScriptKeepsClose
<1>7. CASE Cleanup
  BY <1>7 DEF Cleanup, history, BudgetInv, Close
<1>8. CASE Expire
  BY <1>8 DEF Expire, history, BudgetInv, Close
<1>9. CASE Tick
  <2>1. /\ clock' = clock + 1 /\ UNCHANGED <<backend, bucket, current, live, used, req>>
    BY <1>9 DEF Tick, history
  <2>2. /\ bucket[current].ts \in Nat /\ used \in Nat /\ Burst \in Nat /\ Grace \in Nat
        /\ \A r \in Requests : req[r].now \in Nat /\ Skew[r] \in Nat
    BY <1>a, ClockTyped, StampsAreNaturals, BucketsAssumption DEF TypeOK, Bucket
  <2>3. CASE backend = "process"
    BY <1>a, <2>1, <2>2, <2>3 DEF BudgetInv, Close
  <2>4. CASE backend = "redis"
    BY <1>a, <2>1, <2>2, <2>4 DEF BudgetInv, Close
  <2>5. QED
    BY <1>a, <2>3, <2>4
<1>10. QED
  BY <1>1, <1>2, <1>3, <1>4, <1>5, <1>b, <1>6, <1>7, <1>8, <1>9 DEF Next

\* A stray script has its stamp behind it.
LEMMA StraysStep == BudgetInv /\ TypeOK' /\ [Next]_vars => StraysPast'
<1> SUFFICES ASSUME BudgetInv, TypeOK', [Next]_vars, NEW q \in Requests, NEW t \in Stamps,
                    stray'[<<q, t>>] > 0
             PROVE  backend' = "redis" /\ t - Skew[q] <= clock'
  BY DEF StraysPast
<1>0. /\ TypeOK /\ stray \in [Requests \X Stamps -> Nat]
      /\ clock \in Nat /\ t \in Nat /\ Skew[q] \in Nat
  BY ClockTyped, StampsAreNaturals DEF BudgetInv, TypeOK
<1>1. backend' = backend /\ (clock' = clock \/ clock' = clock + 1)
  BY DEF Next, Get, Stamp, Allow, RunScript, Resend, FailOpen, CallFails, StrayRuns, Cleanup,
         Expire, Tick, vars
<1>2. CASE stray[<<q, t>>] > 0
  BY <1>0, <1>1, <1>2 DEF BudgetInv, StraysPast
<1>3. CASE ~(stray[<<q, t>>] > 0)
  <2>1. PICK r \in Requests : CallFails(r)
    <3>1. ~UNCHANGED stray
      BY <1>3
    <3>2. ASSUME NEW r \in Requests, NEW now \in Stamps, StrayRuns(r, now) PROVE FALSE
      <4>1. stray[<<r, now>>] \in Nat /\ stray[<<q, t>>] \in Nat
        BY <1>0
      <4>2. \/ stray'[<<q, t>>] = stray[<<q, t>>]
            \/ stray'[<<q, t>>] = stray[<<r, now>>] - 1 /\ <<q, t>> = <<r, now>>
        BY <1>0, <3>2 DEF StrayRuns
      <4>3. QED
        BY <1>3, <4>1, <4>2
    <3>3. QED
      BY <3>1, <3>2 DEF Next, Get, Stamp, Allow, RunScript, Resend, FailOpen, Cleanup, Expire,
                       Tick, vars
  <2>2. <<q, t>> = <<r, req[r].now>>
    BY <1>0, <1>3, <2>1 DEF CallFails, TypeOK
  <2>3. backend = "redis" /\ req[r].pc = "stamped" /\ clock' = clock
    BY <2>1 DEF CallFails
  <2>4. QED
    BY <1>1, <2>2, <2>3 DEF BudgetInv, Close
<1>4. QED
  BY <1>2, <1>3

\* In every run the tokens given since any moment are no more than a full bucket,
\* the refill and the slack accounted for: however late scripts run, the cleanup
\* goroutine gives nothing away, and PEXPIRE what it gives only to late ones.
THEOREM BudgetIsKept == Spec => []BudgetHolds
<1>1. Init => BudgetInv
  <2> SUFFICES ASSUME Init PROVE BudgetInv
    OBVIOUS
  <2>1. TypeOK
    BY InitTyped
  <2>2. \A s \in Stamps : since[s] = 0 /\ s \in Nat /\ Back(0, s) \in Nat
    BY StampsAreNaturals, BackFacts DEF Init
  <2>3. Burst \in Nat
    BY BucketsAssumption
  <2>4. StraysPast
    BY DEF Init, StraysPast
  <2>5. /\ bucket[current] = Fresh(0) /\ Fresh(0).tokens = Burst /\ Fresh(0).ts = 0
        /\ latest = 0 /\ slack = 0 /\ clock = 0 /\ used = 0 /\ MaxSkew \in Nat
    BY FreshIsFull, StampsAreNaturals, BucketsAssumption DEF Init
  <2>6. Close
    BY <2>5 DEF Init, Close
  <2>7. InUse /\ Removed /\ Beyond /\ BudgetHolds
    BY <2>2, <2>3, <2>5 DEF InUse, Removed, Beyond, BudgetHolds
  <2>8. QED
    BY <2>1, <2>4, <2>6, <2>7 DEF BudgetInv
<1>2. BudgetInv /\ [Next]_vars => BudgetInv'
  BY TypeStep, BudgetStep, CloseStep, StraysStep DEF BudgetInv, Parts
<1>3. BudgetInv => BudgetHolds
  BY DEF BudgetInv
<1>4. QED
  BY <1>1, <1>2, <1>3, PTL DEF Spec

-----------------------------------------------------------------------------
(***************************************************************************)
(* Refusals.  Every bucket, one cleaned up under a request too, was full at  *)
(* some moment since when all that left it was taken from it.               *)
(***************************************************************************)
FullSince(b, s) == s <= b.ts /\ since[s] + b.tokens >= Burst + (b.ts - s)

Spent == \A g \in Limiters : \E s \in Stamps : FullSince(bucket[g], s)

\* Who is stamped later is stamped since any earlier moment.
Antitone == \A s, t \in Stamps : s <= t => since[t] <= since[s]

SpentInv == TypeOK /\ Antitone /\ Spent

LEMMA CountedAntitone ==
    ASSUME TypeOK, Antitone, NEW now \in Stamps, NEW s \in Stamps, NEW t \in Stamps, s <= t
    PROVE  Counted(now)[t] <= Counted(now)[s]
<1>1. since \in [Stamps -> Nat] /\ since[t] <= since[s]
  BY DEF TypeOK, Antitone
<1>2. /\ Counted(now)[s] = IF s <= now THEN since[s] + 1 ELSE since[s]
      /\ Counted(now)[t] = IF t <= now THEN since[t] + 1 ELSE since[t]
  BY <1>1, CountedFacts
<1>3. s \in Nat /\ t \in Nat /\ now \in Nat /\ since[s] \in Nat /\ since[t] \in Nat
  BY <1>1, StampsAreNaturals
<1>4. QED
  BY <1>1, <1>2, <1>3

\* What a bucket is left with after a token is asked of it at now, k being
\* the number of tokens it gave.
LEMMA AskKeepsFullSince ==
    ASSUME TypeOK, Antitone, NEW b \in Bucket, NEW now \in Stamps,
           NEW c \in [tokens : Nat, ts : Stamps], NEW k \in {0, 1},
           c.ts = now, c.tokens = Refilled(b, now) - k,
           NEW count \in [Stamps -> Nat],
           \A s \in Stamps : s <= now => count[s] >= since[s] + k,
           \E s \in Stamps : FullSince(b, s)
    PROVE  \E s \in Stamps : s <= now /\ count[s] + c.tokens >= Burst + (now - s)
<1>1. PICK s \in Stamps : FullSince(b, s)
  OBVIOUS
<1>2. /\ s \in Nat /\ now \in Nat /\ since[s] \in Nat /\ since[now] \in Nat /\ Burst \in Nat
      /\ b.ts \in Nat /\ b.tokens \in Nat /\ count[s] \in Nat /\ count[now] \in Nat
      /\ c.tokens \in Nat /\ Refilled(b, now) \in Nat
  BY Numbers, StampsAreNaturals, RefillFacts, BucketsAssumption
<1>3. /\ now <= b.ts => Refilled(b, now) = b.tokens
      /\ now > b.ts => \/ Refilled(b, now) = Burst
                       \/ Refilled(b, now) = b.tokens + (now - b.ts)
  BY RefillFacts
<1>4. s <= b.ts /\ since[s] + b.tokens >= Burst + (b.ts - s)
  BY <1>1 DEF FullSince
<1>5. CASE s <= now /\ ~(now > b.ts /\ Refilled(b, now) = Burst)
  <2>1. count[s] >= since[s] + k
    BY <1>5
  <2>2. count[s] + c.tokens >= Burst + (now - s)
    BY <1>2, <1>3, <1>4, <1>5, <2>1
  <2>3. QED
    BY <1>5, <2>2
<1>6. CASE now > b.ts /\ Refilled(b, now) = Burst
  <2>1. count[now] >= since[now] + k
    BY <1>2
  <2>2. count[now] + c.tokens >= Burst + (now - now)
    BY <1>2, <1>6, <2>1
  <2>3. QED
    BY <1>2, <2>2
<1>7. CASE s > now
  <2>1. since[s] <= since[now]
    BY <1>2, <1>7 DEF Antitone
  <2>2. count[now] >= since[now] + k
    BY <1>2
  <2>3. count[now] + c.tokens >= Burst + (now - now)
    BY <1>2, <1>3, <1>4, <1>7, <2>1, <2>2
  <2>4. QED
    BY <1>2, <2>3
<1>8. QED
  BY <1>2, <1>5, <1>6, <1>7

LEMMA FreshIsSpent ==
    ASSUME TypeOK, NEW t \in Stamps
    PROVE  FullSince(Fresh(t), t)
BY FreshIsFull, Numbers, BucketsAssumption, StampsAreNaturals DEF FullSince

\* A step that changes no bucket and takes no count back.
LEMMA CountingKeepsSpent ==
    ASSUME SpentInv, TypeOK', NEW g \in Limiters, bucket'[g] = bucket[g],
           \A s \in Stamps : since'[s] >= since[s]
    PROVE  \E s \in Stamps : FullSince(bucket[g], s)'
<1>1. PICK s \in Stamps : FullSince(bucket[g], s)
  BY DEF SpentInv, Spent
<1>2. /\ bucket[g] \in Bucket /\ TypeOK
  BY DEF SpentInv, TypeOK, Bucket
<1>3. /\ bucket[g].ts \in Nat /\ bucket[g].tokens \in Nat /\ s \in Nat /\ Burst \in Nat
      /\ since[s] \in Nat
  BY <1>2, Numbers
<1>4. since'[s] \in Nat /\ since'[s] >= since[s]
  BY DEF TypeOK
<1>5. s <= bucket'[g].ts /\ since'[s] + bucket'[g].tokens >= Burst + (bucket'[g].ts - s)
  BY <1>1, <1>3, <1>4 DEF FullSince
<1>6. QED
  BY <1>5 DEF FullSince

LEMMA RowIsSpent ==
    ASSUME SpentInv, NEW now \in Stamps
    PROVE  Row(now) \in Bucket /\ \E s \in Stamps : FullSince(Row(now), s)
<1>1. TypeOK /\ current \in Limiters /\ bucket[current] \in Bucket
  BY DEF SpentInv, TypeOK, Bucket
<1>2. CASE live
  BY <1>1, <1>2 DEF Row, SpentInv, Spent
<1>3. CASE ~live
  BY <1>1, <1>3, FreshIsFull, FreshIsSpent DEF Row
<1>4. QED
  BY <1>2, <1>3

LEMMA ScriptKeepsSpent ==
    ASSUME SpentInv, TypeOK', NEW r \in Requests, NEW now \in Stamps, Script(r, now),
           UNCHANGED current
    PROVE  Spent'
<1> DEFINE row == Row(now)
<1>1. /\ TypeOK /\ current \in Limiters /\ since \in [Stamps -> Nat]
  BY DEF SpentInv, TypeOK
<1>2. row \in Bucket /\ \E s \in Stamps : FullSince(row, s)
  BY <1>1, RowIsSpent
<1>3. Refilled(row, now) \in Nat
  BY <1>1, <1>2, RefillFacts, BucketsAssumption
<1>4. /\ \A s \in Stamps : Counted(now)[s] >= since[s]
      /\ \A s \in Stamps : s <= now => Counted(now)[s] = since[s] + 1
      /\ \A s \in Stamps : since[s] \in Nat
  BY <1>1, CountedFacts
<1>5. \A s \in Stamps : since'[s] >= since[s]
  BY <1>4 DEF Script
<1>6. /\ bucket'[current].ts = now
      /\ bucket'[current].tokens =
           IF HasToken(now) THEN Refilled(row, now) - 1 ELSE Refilled(row, now)
      /\ \A g \in Limiters : g # current => bucket'[g] = bucket[g]
  BY <1>1 DEF Script, TypeOK
<1>7. \E s \in Stamps : FullSince(bucket[current], s)'
  <2>1. \E s \in Stamps : s <= now /\ since'[s] + bucket'[current].tokens >= Burst + (now - s)
    <3>1. TypeOK' /\ bucket'[current] \in [tokens : Nat, ts : Stamps] /\ since' \in [Stamps -> Nat]
      <4>1. bucket'[current] \in Bucket
        BY <1>1 DEF TypeOK, Bucket
      <4>2. QED
        BY <4>1, BucketsAssumption DEF Bucket, TypeOK
    <3>2. Antitone
      BY DEF SpentInv
    <3>3. CASE HasToken(now)
      <4>1. bucket'[current].tokens = Refilled(row, now) - 1
        BY <1>6, <3>3
      <4>2. \A s \in Stamps : s <= now => since'[s] >= since[s] + 1
        BY <1>4, <3>3 DEF Script
      <4>3. QED
        BY <1>1, <1>2, <1>6, <3>1, <3>2, <4>1, <4>2, AskKeepsFullSince
    <3>4. CASE ~HasToken(now)
      <4>1. bucket'[current].tokens = Refilled(row, now) - 0
        BY <1>3, <1>6, <3>4
      <4>2. \A s \in Stamps : s <= now => since'[s] >= since[s] + 0
        BY <1>4, <1>5
      <4>3. QED
        BY <1>1, <1>2, <1>6, <3>1, <3>2, <4>1, <4>2, AskKeepsFullSince
    <3>5. QED
      BY <3>3, <3>4
  <2>2. QED
    BY <1>6, <2>1 DEF FullSince
<1>8. QED
  BY <1>5, <1>6, <1>7, CountingKeepsSpent DEF Spent

\* since only grows, and by whole prefixes.
LEMMA CountsStayAntitone ==
    ASSUME SpentInv, since' = since \/ \E now \in Stamps : since' = Counted(now)
    PROVE  Antitone'
<1>1. CASE since' = since
  BY <1>1 DEF SpentInv, Antitone
<1>2. ASSUME NEW now \in Stamps, since' = Counted(now) PROVE Antitone'
  <2>1. TypeOK /\ Antitone
    BY DEF SpentInv
  <2>2. ASSUME NEW s \in Stamps, NEW t \in Stamps, s <= t PROVE since'[t] <= since'[s]
    BY <1>2, <2>1, <2>2, CountedAntitone
  <2>3. QED
    BY <2>2 DEF Antitone
<1>3. QED
  BY <1>1, <1>2

LEMMA NoBucketTouched ==
    ASSUME SpentInv, TypeOK', UNCHANGED <<bucket, since>>
    PROVE  Spent'
BY DEF SpentInv, Spent, FullSince

LEMMA SpentStep == SpentInv /\ TypeOK' /\ [Next]_vars => Antitone' /\ Spent'
<1> SUFFICES ASSUME SpentInv, TypeOK', [Next]_vars PROVE Antitone' /\ Spent'
  OBVIOUS
<1>a. TypeOK /\ since \in [Stamps -> Nat]
  BY DEF SpentInv, TypeOK
<1>1. CASE UNCHANGED vars
  BY <1>1, CountsStayAntitone, NoBucketTouched DEF vars
<1>2. ASSUME NEW r \in Requests, Get(r) PROVE Antitone' /\ Spent'
  <2>1. since' = since
    BY <1>2 DEF Get, history
  <2>2. CASE live
    BY <1>2, <2>1, <2>2, CountsStayAntitone, NoBucketTouched DEF Get
  <2>3. CASE ~live
    <3>1. /\ bucket' = [bucket EXCEPT ![current + 1] = Fresh(clock)]
      BY <1>2, <2>3 DEF Get
    <3>2. clock \in Stamps
      BY <1>a, StampsAreNaturals DEF TypeOK
    <3>3. ASSUME NEW g \in Limiters PROVE \E s \in Stamps : FullSince(bucket[g], s)'
      <4>1. CASE g = current + 1
        <5>1. bucket'[g] = Fresh(clock)
          BY <1>a, <3>1, <4>1 DEF TypeOK
        <5>2. FullSince(Fresh(clock), clock)
          BY <1>a, <3>2, FreshIsSpent
        <5>3. QED
          BY <2>1, <3>2, <5>1, <5>2 DEF FullSince
      <4>2. CASE g # current + 1
        <5>1. bucket'[g] = bucket[g]
          BY <1>a, <3>1, <4>2 DEF TypeOK
        <5>2. \A s \in Stamps : since'[s] >= since[s]
          BY <1>a, <2>1
        <5>3. QED
          BY <5>1, <5>2, CountingKeepsSpent
      <4>3. QED
        BY <4>1, <4>2
    <3>4. QED
      BY <2>1, <3>3, CountsStayAntitone DEF Spent
  <2>4. QED
    BY <2>2, <2>3
<1>3. ASSUME NEW r \in Requests, Stamp(r) PROVE Antitone' /\ Spent'
  BY <1>3, CountsStayAntitone, NoBucketTouched DEF Stamp, history
<1>4. ASSUME NEW r \in Requests, Allow(r) PROVE Antitone' /\ Spent'
  <2> DEFINE g == req[r].limiter
             now == req[r].now
  <2>1. g \in Limiters /\ now \in Stamps /\ bucket[g] \in Bucket
    BY <1>a DEF TypeOK, Bucket
  <2>2. CASE ~(Refilled(bucket[g], now) >= 1)
    BY <1>4, <2>2, CountsStayAntitone, NoBucketTouched DEF Allow, history
  <2>3. CASE Refilled(bucket[g], now) >= 1
    <3>1. ~(Refilled(bucket[g], now) < 1)
      BY <2>1, <2>3, RefillFacts, BucketsAssumption
    <3>2. bucket' = [bucket EXCEPT ![g] = Taken(bucket[g], now)] /\ since' = Counted(now)
      BY <1>4, <3>1 DEF Allow
    <3>3. /\ \A s \in Stamps : s <= now => since'[s] >= since[s] + 1
          /\ \A s \in Stamps : since'[s] >= since[s]
      <4>1. \A s \in Stamps : since[s] \in Nat /\ Counted(now)[s] >= since[s]
        BY <1>a, <2>1, CountedFacts
      <4>2. \A s \in Stamps : s <= now => Counted(now)[s] = since[s] + 1
        BY <1>a, <2>1, CountedFacts
      <4>3. QED
        BY <3>2, <4>1, <4>2
    <3>4. bucket'[g].ts = now /\ bucket'[g].tokens = Refilled(bucket[g], now) - 1
      BY <1>a, <2>1, <2>3, <3>2, TakenFacts DEF TypeOK
    <3>5. \E s \in Stamps : s <= now /\ since'[s] + bucket'[g].tokens >= Burst + (now - s)
      <4>1. /\ bucket'[g] \in [tokens : Nat, ts : Stamps] /\ since' \in [Stamps -> Nat]
        <5>1. bucket'[g] \in Bucket
          BY <2>1 DEF TypeOK, Bucket
        <5>2. QED
          BY <5>1, BucketsAssumption DEF Bucket, TypeOK
      <4>2. Antitone /\ \E s \in Stamps : FullSince(bucket[g], s)
        BY <2>1 DEF SpentInv, Spent
      <4>3. QED
        BY <1>a, <2>1, <3>3, <3>4, <4>1, <4>2, AskKeepsFullSince
    <3>6. ASSUME NEW h \in Limiters PROVE \E s \in Stamps : FullSince(bucket[h], s)'
      <4>1. CASE h = g
        BY <3>4, <3>5, <4>1 DEF FullSince
      <4>2. CASE h # g
        <5>1. bucket'[h] = bucket[h]
          BY <1>a, <3>2, <4>2 DEF TypeOK
        <5>2. QED
          BY <3>3, <5>1, CountingKeepsSpent
      <4>3. QED
        BY <4>1, <4>2
    <3>7. QED
      BY <2>1, <3>2, <3>6, CountsStayAntitone DEF Spent
  <2>4. QED
    BY <2>2, <2>3
<1>5. ASSUME NEW r \in Requests, RunScript(r) PROVE Antitone' /\ Spent'
  <2>1. req[r].now \in Stamps
    BY <1>a DEF TypeOK
  <2>2. QED
    BY <1>5, <2>1, CountsStayAntitone, ScriptKeepsSpent DEF RunScript, Script
<1>6. ASSUME NEW r \in Requests, Resend(r) \/ FailOpen(r) PROVE Antitone' /\ Spent'
  BY <1>6, CountsStayAntitone, NoBucketTouched DEF Resend, FailOpen, CallFails, history
<1>b. ASSUME NEW r \in Requests, NEW now \in Stamps, StrayRuns(r, now)
      PROVE  Antitone' /\ Spent'
  BY <1>b, CountsStayAntitone, ScriptKeepsSpent DEF StrayRuns, Script
<1>7. CASE Cleanup
  BY <1>7, CountsStayAntitone, NoBucketTouched DEF Cleanup, history
<1>8. CASE Expire
  BY <1>8, CountsStayAntitone, NoBucketTouched DEF Expire, history
<1>9. CASE Tick
  BY <1>9, CountsStayAntitone, NoBucketTouched DEF Tick, history
<1>10. QED
  BY <1>1, <1>2, <1>3, <1>4, <1>5, <1>b, <1>6, <1>7, <1>8, <1>9 DEF Next

\* A bucket with nothing for a caller has given its whole budget away.
LEMMA EmptyIsSpent ==
    ASSUME SpentInv, NEW b \in Bucket, NEW now \in Stamps, Refilled(b, now) < 1,
           \E s \in Stamps : FullSince(b, s)
    PROVE  \E s \in Stamps : s <= now /\ since[s] >= Burst + (now - s)
<1>1. TypeOK /\ Antitone /\ since \in [Stamps -> Nat]
  BY DEF SpentInv, TypeOK
<1>2. Refilled(b, now) = 0
  BY RefillFacts, BucketsAssumption
<1>3. Fresh(now) \in Bucket
  BY FreshIsFull
<1>4. [tokens |-> 0, ts |-> now] \in [tokens : Nat, ts : Stamps]
  OBVIOUS
<1>5. \A s \in Stamps : s <= now => since[s] >= since[s] + 0
  BY <1>1
<1>6. \E s \in Stamps : s <= now /\ since[s] + 0 >= Burst + (now - s)
  <2> DEFINE c == [tokens |-> 0, ts |-> now]
  <2>1. c.ts = now /\ c.tokens = Refilled(b, now) - 0
    BY <1>2
  <2>2. \E s \in Stamps : s <= now /\ since[s] + c.tokens >= Burst + (now - s)
    BY <1>1, <1>4, <1>5, <2>1, AskKeepsFullSince
  <2>3. QED
    BY <2>2
<1>7. QED
  BY <1>1, <1>6

\* No request is refused while there is something left: at every refusal there
\* is a moment since when a full bucket and all the refill were taken.
THEOREM RefusalsAreJustified == Spec => RefusedOnlyWhenSpent
<1>1. Init => SpentInv
  <2> SUFFICES ASSUME Init PROVE SpentInv
    OBVIOUS
  <2>1. TypeOK
    BY InitTyped
  <2>2. Antitone
    BY DEF Init, Antitone
  <2>3. Spent
    BY <2>1, FreshIsSpent, StampsAreNaturals DEF Init, Spent
  <2>4. QED
    BY <2>1, <2>2, <2>3 DEF SpentInv
<1>2. SpentInv /\ [Next]_vars => SpentInv'
  BY TypeStep, SpentStep DEF SpentInv
<1>3. ASSUME SpentInv, [Next]_vars, NEW r \in Requests,
             req[r].pc = "stamped", req'[r].pc = "refused"
      PROVE  \E s \in Stamps : s <= req[r].now /\ since[s] >= Burst + (req[r].now - s)
  <2> DEFINE now == req[r].now
  <2>1. TypeOK /\ now \in Stamps
    BY <1>3 DEF SpentInv, TypeOK
  <2>2. \/ Allow(r) /\ ~(Refilled(bucket[req[r].limiter], now) >= 1)
        \/ RunScript(r) /\ ~HasToken(now)
    <3>1. req' # req
      BY <1>3
    <3>2. ASSUME NEW q \in Requests, Get(q) PROVE FALSE
      BY <1>3, <2>1, <3>2 DEF Get, Begins, TypeOK
    <3>3. ASSUME NEW q \in Requests, Stamp(q) PROVE FALSE
      BY <1>3, <2>1, <3>3 DEF Stamp, TypeOK
    <3>4. ASSUME NEW q \in Requests, Allow(q)
          PROVE  Allow(r) /\ ~(Refilled(bucket[req[r].limiter], now) >= 1)
      <4>1. ASSUME NEW pc \in {"idle", "refused"}, Answer(q, pc) PROVE q = r /\ pc = "refused"
        BY <1>3, <2>1, <4>1 DEF Answer, TypeOK
      <4>2. \/ Answer(q, "idle")
            \/ Answer(q, "refused") /\ Refilled(bucket[req[q].limiter], req[q].now) < 1
        BY <3>4 DEF Allow
      <4>3. q = r /\ Refilled(bucket[req[q].limiter], req[q].now) < 1
        BY <4>1, <4>2
      <4>4. bucket[req[r].limiter] \in Bucket
        BY <2>1 DEF TypeOK, Bucket
      <4>5. Refilled(bucket[req[r].limiter], now) \in Nat
        BY <2>1, <4>4, RefillFacts, BucketsAssumption
      <4>6. QED
        BY <3>4, <4>3, <4>5
    <3>5. ASSUME NEW q \in Requests, RunScript(q) PROVE RunScript(r) /\ ~HasToken(now)
      <4>1. ASSUME NEW pc \in {"idle", "refused"}, Answer(q, pc) PROVE q = r /\ pc = "refused"
        BY <1>3, <2>1, <4>1 DEF Answer, TypeOK
      <4>2. \/ Answer(q, "idle")
            \/ Answer(q, "refused") /\ ~HasToken(req[q].now)
        BY <3>5 DEF RunScript
      <4>3. QED
        BY <3>5, <4>1, <4>2
    <3>6. ASSUME NEW q \in Requests, FailOpen(q) PROVE FALSE
      BY <1>3, <2>1, <3>6 DEF FailOpen, Answer, TypeOK
    <3>a. ASSUME NEW q \in Requests,
                 Resend(q) \/ \E t \in Stamps : StrayRuns(q, t)
          PROVE FALSE
      BY <3>1, <3>a DEF Resend, StrayRuns
    <3>7. ~Cleanup /\ ~Expire /\ ~Tick
      BY <3>1 DEF Cleanup, Expire, Tick
    <3>8. ~UNCHANGED vars
      BY <3>1 DEF vars
    <3>9. QED
      BY <1>3, <3>2, <3>3, <3>4, <3>5, <3>a, <3>6, <3>7, <3>8 DEF Next
  <2>3. CASE ~(Refilled(bucket[req[r].limiter], now) >= 1)
    <3>1. bucket[req[r].limiter] \in Bucket /\ req[r].limiter \in Limiters
      BY <2>1 DEF TypeOK, Bucket
    <3>2. Refilled(bucket[req[r].limiter], now) < 1
      BY <2>1, <2>3, <3>1, RefillFacts, BucketsAssumption
    <3>3. \E s \in Stamps : FullSince(bucket[req[r].limiter], s)
      BY <1>3, <3>1 DEF SpentInv, Spent
    <3>4. QED
      BY <1>3, <2>1, <3>1, <3>2, <3>3, EmptyIsSpent
  <2>4. CASE ~HasToken(now)
    <3>1. Row(now) \in Bucket /\ \E s \in Stamps : FullSince(Row(now), s)
      BY <1>3, <2>1, RowIsSpent
    <3>2. Refilled(Row(now), now) < 1
      BY <2>1, <2>4, <3>1, RefillFacts, BucketsAssumption DEF HasToken
    <3>3. QED
      BY <1>3, <2>1, <3>1, <3>2, EmptyIsSpent
  <2>5. QED
    BY <2>2, <2>3, <2>4
<1>4. SpentInv /\ [Next]_vars =>
        [\A r \in Requests : req[r].pc = "stamped" /\ req'[r].pc = "refused" =>
            \E s \in Stamps : s <= req[r].now /\ since[s] >= Burst + (req[r].now - s)]_vars
  BY <1>3
<1>5. QED
  BY <1>1, <1>2, <1>4, PTL DEF Spec, RefusedOnlyWhenSpent

-----------------------------------------------------------------------------
(* One budget across all instances.                                         *)

\* No instance's clock is behind what the row was last stamped with.
InOrder ==
    backend = "redis" /\ live =>
        \A r \in Requests : req[r].pc = "stamped" => bucket[current].ts <= req[r].now

\* No request comes so late that its row may have expired before its time.
Prompt ==
    backend = "redis" /\ ~live =>
        \A r \in Requests : req[r].pc = "stamped" => ~Late(r, req[r].now)

Slackless == backend = "redis" /\ outages = 0 => slack = 0

\* Only a call that failed leaves a script behind.
NoStrays ==
    outages = 0 => \A r \in Requests, now \in Stamps : stray[<<r, now>>] = 0

LEMMA SlacklessStep ==
    TypeOK /\ NoStrays /\ Slackless /\ InOrder /\ Prompt /\ [Next]_vars
        => NoStrays' /\ Slackless'
<1> SUFFICES ASSUME TypeOK, NoStrays, Slackless, InOrder, Prompt, [Next]_vars
             PROVE  NoStrays' /\ Slackless'
  OBVIOUS
<1>1. CASE UNCHANGED vars
  BY <1>1 DEF vars, Slackless, NoStrays
<1>2. ASSUME NEW r \in Requests, RunScript(r) PROVE NoStrays' /\ Slackless'
  <2>1. /\ backend = "redis" /\ req[r].pc = "stamped" /\ backend' = backend
        /\ outages' = outages /\ stray' = stray /\ slack' = slack + Gives(r, req[r].now)
    BY <1>2 DEF RunScript, Script
  <2>2. req[r].now \in Nat /\ bucket[current].ts \in Nat
    BY StampsAreNaturals DEF TypeOK
  <2>3. CASE live
    <3>1. bucket[current].ts <= req[r].now
      BY <2>1, <2>3 DEF InOrder
    <3>2. Gives(r, req[r].now) = 0
      BY <2>2, <2>3, <3>1, BackFacts DEF Gives
    <3> QED BY <2>1, <3>2 DEF Slackless, NoStrays
  <2>4. CASE ~live
    <3>1. Gives(r, req[r].now) = 0
      BY <2>1, <2>4 DEF Prompt, Gives
    <3> QED BY <2>1, <3>1 DEF Slackless, NoStrays
  <2> QED BY <2>3, <2>4
<1>3. ASSUME NEW r \in Requests, Resend(r) \/ FailOpen(r) PROVE NoStrays' /\ Slackless'
  <2>1. outages' = outages + 1 /\ outages \in Nat
    BY <1>3 DEF Resend, FailOpen, CallFails, TypeOK
  <2> QED BY <2>1 DEF Slackless, NoStrays
<1>4. ASSUME NEW r \in Requests, Get(r) \/ Stamp(r) \/ Allow(r) PROVE NoStrays' /\ Slackless'
  BY <1>4 DEF Get, Stamp, Allow, Slackless, NoStrays, history
<1>5. ASSUME NEW r \in Requests, NEW now \in Stamps, StrayRuns(r, now)
      PROVE  NoStrays' /\ Slackless'
  <2>1. outages' = outages /\ outages # 0
    BY <1>5 DEF StrayRuns, NoStrays
  <2> QED BY <2>1 DEF Slackless, NoStrays
<1>6. CASE Cleanup \/ Expire \/ Tick
  BY <1>6 DEF Cleanup, Expire, Tick, Slackless, NoStrays, history
<1> QED BY <1>1, <1>2, <1>3, <1>4, <1>5, <1>6 DEF Next

\* The instances together keep to one bucket's budget as long as Redis answers,
\* their requests reach it in the order of their stamps, and none so late that
\* its row has expired before its time: clocks that are behind and requests that
\* are late are all that the refuted OneBudget takes.
THEOREM OneBudgetInOrder == Spec /\ []InOrder /\ []Prompt => []OneBudget
<1>1. Init => NoStrays /\ Slackless
  BY DEF Init, NoStrays, Slackless
<1>2. TypeOK /\ Slackless /\ BudgetHolds => OneBudget
  <2> SUFFICES ASSUME TypeOK, Slackless, BudgetHolds, backend = "redis", outages = 0,
                      NEW s \in Stamps
               PROVE  since[s] <= Burst + Back(latest, s)
    BY DEF OneBudget
  <2>1. slack = 0
    BY DEF Slackless
  <2>2. Burst \in Nat /\ latest \in Nat /\ s \in Nat
    BY BucketsAssumption, StampsAreNaturals DEF TypeOK
  <2>3. Back(latest, s) \in Nat
    BY <2>2, BackFacts
  <2> QED BY <2>1, <2>2, <2>3 DEF BudgetHolds
<1>3. Spec => []TypeOK /\ []BudgetHolds
  BY BucketsTypeCorrect, BudgetIsKept
<1> QED BY <1>1, <1>2, <1>3, SlacklessStep, PTL DEF Spec

=============================================================================
