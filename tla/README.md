# Data Explorer: a verification development

TLA+ models of the parts of Data Explorer where order, concurrency and failure
decide whether it is right, the TLC runs that check them on small instances,
and TLAPS proofs of the results that hold for every instance. Paths are given
from the root of the repository; `FR-nn` is a file of
`docs/functional-requirements/`.

## 1. The system

One Go server process over one PostgreSQL database, and a React client.

| Component | State | Operations | What is hard | What makes it correct |
| --- | --- | --- | --- | --- |
| Scheduler (`backend/internal/scheduler`) | the list of the current poll | poll every 15 s, run each due workflow in turn, skip those in flight, move the schedule on | stale list, crash between run and mark, one goroutine for all, panics | a firing is handled once and leaves a row; a due schedule is acted on |
| Workflow service (`backend/internal/workflow/service.go`, `repository.go`) | `workflows` and `workflow_executions` rows; in-flight counters in memory | create, update, delete, schedule, execute | Execute is eight steps that interleave with everything, and any can fail | exact counters, no row left running, an enabled schedule can fire |
| Workflow engine (`definition.go`, `engine.go`, `projection.go`, `nodes/`) | one run: order, frames shared by pointer, results | validate, sort, hint, run the nodes | graphs with loops and parallel edges, shared mutable frames, failures half way | dependencies first, cycles rejected, data immutable, ends |
| Sessions (`backend/internal/auth`, `api/handlers/{auth,oidc,users}.go`) | `users`, `user_roles`, `refresh_tokens`, `federated_identities` | register, login, OIDC, refresh, logout, suspend, assign roles | every handler is several statements of no transaction; reuse detection; ignored errors | a suspension ends what it should, a rotated token is spent |
| Role administration (`auth/repository.go:168`) | `user_roles` | replace a user's roles in a transaction | two administrators at once, an edit that breaks half way, the last administrator | the roles are those of the last edits, each of them whole |
| Connections (`backend/internal/connections`) | connection rows with a tested status, encrypted secret; a token bucket per connection in memory | create, update, test, query, delete, query without saving | configuration and secret read by two statements, a test result that comes back after an update or a deletion, the code given to a cancelled dial | status, code and what the test met agree, and speak of what is stored |
| Connectors (`connections/connectors`) | none | test, query a vendor | pages, limits and results that are cut | a result is whole or says that it is not |
| API rate limiters (`api/middleware/ratelimit.go`, `adapters/ratelimit/redis.go`) | a token bucket per key, in the process or in Redis | take a token, refill, clean up, expire | cleanup against use, stamps out of order, clocks of several instances, lost answers | never more than the budget, and nothing refused before it is gone |
| Quotas (`quota/quota.go`, `handlers/{explore,workflows}.go`) | a sliding window of hits per user and kind, in memory | check and count a run | stamps out of order, window edges, roles that change | never more than the quota, a refusal has cause, its delay suffices |
| Memory monitor (`platform/memory`) | a pressure flag | sample, check | hysteresis | not refused for ever |
| HTTP client (`backend/pkg/httpclient`) | page cursor, redirect, attempt, challenge, access token, idle connections | paginate, follow, retry, authenticate | five layers whose limits multiply; cursors that never end; redirects and next links to other hosts | bounded requests and pages, no item lost or doubled, an end |
| Egress guard (`backend/pkg/egress`, `internal/config/config.go`) | a policy for each path | allow or refuse a name, then each address of one answer, when dialling | names that resolve differently the second time, IPv6 forms of IPv4 addresses, ways around by redirect or a connection kept open | what is dialled, or reused, is what was checked |
| Data frames (`backend/pkg/dataframe`) | columns, rows, metadata | append, filter, join, group, limit, encode | ragged rows, empty frames, promotion of types | agree with their relational definitions |
| Migrator (`platform/migrator`) | `schema_migrations` | apply what is not recorded | two servers that start together | each migration once, in order |
| Web client (`frontend/src/api/client.ts`, `state/authStore.ts`) | access token, one shared refresh promise | intercept 401, refresh, retry | several tabs over one cookie | one refresh at a time per tab |
| Audit, catalog, crypto, configuration, logging, metrics, pages | | | straight-line code or pure output | not modelled |

How they meet: the handlers call the services; the scheduler calls
`Service.Execute` like a handler does, and both share the in-flight counters;
`Execute` hands a definition to the engine, whose source nodes query
connections; every request passes the session middleware and the limiters; all
lasting state is in PostgreSQL, reached one statement at a time.

`PROJECT.json` lists the hazards, each at its line, with the properties that
watch them, and for every definition the lines it stands for.

## 2. The modules

| Module | Models | Used by |
| --- | --- | --- |
| `WorkflowScheduler` | the scheduler, `Service.Execute`, the schedule columns, the process's life | `MCWorkflowScheduler`, `WorkflowSchedulerProofs` |
| `AuthSessions` | sign-up, sign-in, refresh, logout, suspension, roles | `MCAuthSessions`, `AuthSessionsProofs` |
| `WorkflowDefinition` | definitions and what makes one sound | the next two |
| `WorkflowRun` | abstract: what a run of a workflow promises | instantiated by `WorkflowEngine` |
| `WorkflowEngine` | `Validate`, `TopologicalOrder`, projection hints, `Engine.Run` | `MCWorkflowEngine`, `WorkflowEngineProofs` |
| `TokenBuckets` | the API's rate limiters, in process and in Redis | `MCTokenBuckets`, `TokenBucketsProofs` |
| `QuotaWindow` | `quota.Service.Check` and the handlers that call it | `MCQuotaWindow`, `QuotaWindowProofs` |
| `Connections` | the connections service, its repository, its limiter, `Classify` | `MCConnections`, `ConnectionsProofs` |
| `EgressGuard` | the guarded dialer and the policies it may be built with | extended by `HttpFetch` |
| `PagedListing` | abstract: what a paginated query promises of a listing | instantiated by `HttpFetch` |
| `HttpFetch` | a REST or GraphQL query through all layers of the HTTP client | `MCHttpFetch`, `HttpFetchProofs` |
| `RoleGrants` | abstract: what the edits of a user's roles promise | instantiated by `UserRoles` |
| `UserRoles` | `Repository.SetUserRoles` as the transaction it is | `MCUserRoles`, `UserRolesProofs` |

**WorkflowScheduler.** The unit of interleaving is one database statement, or
one use of `activeMu`; what a goroutine does between two of them belongs to the
step before. `run[r].pc` names the statement `Execute` in goroutine `r` is
about to perform, `sched.pc` where `runOne` is. A statement fails when its
context is cancelled (the client left; SIGTERM for the scheduler) or its
connection breaks, and a failed one may have been applied. `Dies` is what a
process takes with it: goroutines and counters go, rows stay. The scheduler
runs `Execute` as one more goroutine among the requests. `fire` and `mishaps` are
history variables: what became of the present `schedule_next_run`, and how many
of a workflow's firings were spoilt, which is to say moved past without a row, or
taken up again after their run was completed or recorded. Finished rows, names
and `schedule_last_run` are left out, as the code never reads them back.
A cron expression is the period at whose multiples it fires, 0 for one that
fires on no date, -1 for one that does not parse. A definition "panics" as an
aggregation over a missing column does (`pkg/dataframe/groupby.go:75`). The
quota a handler checks before it calls `Execute` only decides whether the
action happens.

**AuthSessions.** Again one statement is one step; `req[r].pc` names the next
one. A refresh token stands for its random value, its hash and its row. A
user's permissions are represented by the roles they come from. The rows of the
first query for them are never asked for an error (`auth/repository.go:117`), so
a connection that breaks meanwhile yields a part of the roles and the handler
goes on (`ReadRoles`). `known` and
`access` are the tokens that reached a client; a handler whose last query
fails has already set the cookie (login, refresh) or not yet (registration),
as in the code. `ancestors`, `late` and `reused` are history variables.

**WorkflowEngine.** Kahn's algorithm is taken edge by edge. Frames are a heap
named by the allocating node, so that two readers share a frame as they share
a pointer. A frame keeps its columns, its number of rows, `Truncated` and
`SourceID`; an expression is the columns it mentions and makes, and a filter
keeps any number of rows, a join any number of pairs the key could produce, a
source any number of rows up to a bound. The history fields `wide` and `cut`
say which columns a frame would have had, and whether rows were cut on the way.
A map's iteration order is a choice (`SingleInput`). The walk that collects a
hint follows the adjacency lists (`Downstream`) and dequeues a node once for every
path to it, as the code does.

**TokenBuckets.** One key of one limiter, as keys share nothing but a mutex or
a server. The unit of time is what a token takes to refill, so tokens are whole
numbers. In process a request looks its limiter up (`Get`), reads the clock
(`Stamp`) and takes a token (`Allow`); `Cleanup` may delete the limiter between
the first and the last. With Redis it reads its instance's clock and runs the
script, whose answer may be lost: the client library repeats the call
(`Resend`) or the request is let through (`FailOpen`). Nothing bounds how late a
script runs: the client is built without `ContextTimeoutEnabled`
(`cmd/server/main.go:166`), so go-redis does not apply the 200 ms of `Allow`'s
context to reads and writes of its socket, and a script that nobody waits for
any more may still run (`stray`, `StrayRuns`). The history variables
are `since` (the tokens taken since each moment, those whose answer was lost
included), `latest` and `slack`, which adds up what is given beyond the budget
and for which reason. The refill
of a caller behind the bucket's timestamp is nothing and the timestamp moves
back to it in both implementations; `x/time/rate` is external and modelled from
its use. In process a bucket's clock is monotonic, so only Redis has `Skew`.

**QuotaWindow.** The handlers read `time.Now()` before `Check` locks the bucket,
so `Stamp` and `Check` are two steps and requests can overtake each other. A
bucket's list is the set of its hits, each with its place `n` in the list. What
a request was entitled to (`quota`), whether it had been overtaken (`late`) and
what had been admitted before a refusal (`after`) are history. The state is in
memory, so a restart is `Init`; the scheduler calls `Execute` without a quota.

**Connections.** A step is one statement, or one call that leaves the process.
`Test` and `Query` take a token of the connection's bucket, read the
configuration (`GetRow`) and the secret (`GetSecret`) by two statements and
dial; `Test` writes what it met by a third (`SetTestResult`), an UPDATE that
finds the row as it is by then, or none. Users create, update and delete the
connection at any point. A configuration and a secret are values; an error is
the typed causes of its chain and the codes its message hints at, and
`Classify` asks for both in the order of `healtherror.go`. History: `dialed` and
`cause` are what the test recorded in a row dialled and met; `edited`, of a
request, and `crossed`, of a row, tell whether and where an edit overtook the
test. A statement that fails and a client that leaves end a request without
effect; a killed server loses requests and limiters.

**EgressGuard.** A host is a name as it is spelt, or an address; an address is
the range it lies in and its form: its own, mapped into IPv6, or with an IPv6
zone, as in `fd00::1%eth0`. `netip.Prefix.Contains` is false for an address with a
zone, so the tables refuse none of these and only the tests that precede them
do (`Special`); section 4 has what the documentation says (`DialsKeepToRanges`). A
wildcard of the allowlist is a test of how a host's text ends, also if that text is
an address. `DialContext` checks the
name, asks the resolver once, which answers whatever it likes, checks every
address of the answer and dials these addresses, never the name. Saved
connections dial through the base guard, ad-hoc queries through their own if one
is configured, and `validateEgressPolicy` decides which pairs the server starts
with. `AllowLoopback` is off, as `main.go` leaves it. `alwaysDeny` and
`privateDeny` are the code's own tables. There is no proxy: the transport is a
clone of Go's default one (`httpclient/client.go:70`), which obeys `HTTP_PROXY` and
its like, and with one set the guard would be asked for the proxy's address only.

**HttpFetch.** From the outside in: the connector builds the request and the
client, `DoPaginated` asks for page after page by one of five paginators, `Do`
exchanges the access token and authenticates, `http.Client` follows redirects,
`retryTransport` repeats a failed exchange, the digest layer answers a challenge
and the transport reuses an idle connection or dials through the guard. Below
all of them the transport sends a request again by itself, when the idle
connection it took turns out to be closed or an HTTP/2 server refuses the request
(`Resend`): once for each idle connection it still has, or as HTTP/2 lets it, so
`TransportResends` is a parameter. Each
layer's counter is a variable, and the upstream may answer anything at each
request: a page, garbage, an error status, a redirect or a next link to any
host, nothing. What it has is a listing of `length` items, of which a page holds
at most `cap` whatever is asked for; an endless one never stops naming a next
page. Items are positions, so a page is the interval from `from` to `upto`. The
refinement mapping takes `got` from what the connector has gathered and
`outcome` from `pc` and the marks on the result; a listing read by offset whose
upstream returns less than a full page counts as a part (section 4 has the
claim that it is marked as one).

**UserRoles.** PostgreSQL's READ COMMITTED, as far as two DELETEs and INSERTs of
one user's rows can tell: a DELETE sees the rows committed when it starts and
waits for each that another transaction has; an INSERT waits for an uncommitted
row or deletion of its key and fails on a committed row; any statement may break,
which takes the transaction back. Edits of two users share no row, so one user
suffices. A deadlock, which PostgreSQL resolves by failing one of the two, is
among the breaks. `RolesAreOfLastEdits` is what entitles `AuthSessions` to take an
edit for one atomic step, and `RoleGrants` says so in full: an edit is the one step
`Give`, which replaces what the edit found when it began by its list and leaves
what others have given meanwhile. The refinement mapping takes the rows'
versions for the grants and `over`, which is history, for what an edit found.

### Order of work

1. `WorkflowScheduler`, 2. `AuthSessions`, 3. `WorkflowDefinition`, `WorkflowRun`
and `WorkflowEngine`, 4. `TokenBuckets` and `QuotaWindow`, 5. `Connections` with its
limiter, 6. `EgressGuard`, `PagedListing` and `HttpFetch`, 7. `UserRoles`: done, each
with its proofs. Of the first plan, the tabs of the web client, the migrator,
the data frames' values and the memory monitor are not built; section 6 says why.

## 3. What is checked

The runs, with the bounds each names in its `.cfg`. The run marked *refuted*
checks a claim of the documentation, and TLC finds it false of the code.

| Run | Instance | Shows |
| --- | --- | --- |
| `SchedClean` | 1 workflow, 2 requests, 1 editor, clock to 3, nothing fails | `FireOnce` |
| `SchedFaults` | 1 workflow, 1 request, 1 editor, 1 broken statement, 1 crash or SIGTERM, clients leave, definitions panic | `TypeOK`, `CountersExact`, `EnabledCanFire`, `FailuresCostOneEach` |
| `SchedLive` | 2 workflows, 1 broken statement, 1 stop, fairness | `DueIsHandled` |
| `SchedRestart` | 1 workflow, 1 editor, 1 crash or SIGTERM, nothing else fails | *refuted* `RestartFiresNoneTwice` |
| `AuthClean` | 1 user, 2 requests, 1 administrator, 3 refresh tokens, nothing fails | `SuspensionEndsSessions`, `UnspentAreFaults` |
| `AuthFaults` | 1 user with OIDC, 1 request, 1 administrator, 3 tokens, 1 broken statement, clients leave | `TypeOK`, `SuspensionClosesDoor`, `UnspentAreFaults` |
| `EngineRuns` | all graphs on 3 nodes with up to 3 edges, 6 definitions at the limits, 10 pipelines; 2 rows kept of at most 3 | `TypeOK`, `NoInternalError`, `RejectsExactlyCycles`, `DataIsImmutable`, `RunSpec`, `RunAdvances`, `RunEnds` |
| `Buckets` | both implementations, 2 requests, burst 2, 5 requests let through, clock to 5, 2 limiters created by one cleanup, 1 call of Redis without an answer, scripts as late as the clock allows, 1 clock ahead | `TypeOK`, `BudgetHolds`, `RefusedOnlyWhenSpent` |
| `Quota` | 2 requests of 1 user, quotas 1 and 2, window of 3, clock to 5, 5 runs admitted | `TypeOK`, `AdmittedWithinQuota`, `RefusalIsFull`, `RetryIsEnough` |
| `Connections` | 1 connection, 2 requests, 1 ad-hoc user, 2 configurations, 1 secret, 2 errors, burst 1 | `TypeOK`, `StatusSpeaksOfStored`, `RowIsCoherent`, `UnhealthyHasCause`, `DeletedStaysDeleted` |
| `Fetch` | 8 queries against 4 upstreams under the 3 of 5 egress configurations a server starts with; pages of 2, listings of 0 and 3 or without end, 2 attempts, 1 re-send by the transport, 2 redirects, 2 pages (3 at most), fairness | `TypeOK`, `RequestsBounded`, `ConnectionsVetted`, `DialsOnlyVetted`, `ListingSpec`, `FetchAdvances`, `FetchEnds` |
| `Roles` | 3 edits, each of one of 7 lists over 2 roles and an id of none | `TypeOK`, `RolesAreOfLastEdits`, `GrantsSpec` |

What the less obvious ones say:

- `CountersExact`: the in-flight counters count exactly the goroutines inside
  `Execute`, on all of its ways out. If they did not, a workflow could be
  skipped for ever on behalf of a run that is over.
- `EnabledCanFire`: three writers (users, a slow `SetSchedule`, the scheduler's
  unconditional `MarkScheduleRun`) never leave an enabled schedule without a next
  run or with an expression that does not parse, nor is one that does not on the
  scheduler's way.
- `FireOnce`: the scheduler does not take up a firing whose run it has completed
  or recorded as skipped. True while the process lives; a crash between the two
  statements breaks it, which `SchedRestart` shows of the promise that a restart
  double-fires nothing (FR-08:204).
- `FailuresCostOneEach`: what failures do to firings is in proportion to them. Of
  any workflow no more firings are lost or repeated than statements failed and
  processes stopped, at whatever stage of `runOne` it happens. SIGTERM is the
  hard case: it cancels the scheduler's context and with it every statement the
  poll has still to make, for all the workflows in its list.
- `SuspensionEndsSessions`: because the status is written before the tokens are
  revoked, the only sessions a suspension can miss are those of requests that
  had passed their status check, or that make none (a registration).
- `UnspentAreFaults`: a refresh ignores the error of the statement that revokes the
  token it was given, so a failure may leave one usable; it is one for each
  failure, however refreshes of one token overlap and branch.
- `DataIsImmutable`: an output node hands on the frame of the node before it and
  the engine caps that frame again; it finds it capped already, so no other
  reader sees its data change (its `SourceID` does change).
- `RunSpec`: the engine implements `WorkflowRun` under
  `ran <- Reported` (the nodes in NodeResults), `status <- Outcome`, sorting and hinting being
  stuttering steps.
- `RunAdvances`: a tuple (phase, node of the order, edges still to visit, stage)
  grows in lexical order with every step, but for the steps of the hint walk: these
  give up a place of one of the first nodes waiting for places of later ones, as
  the definition has been sorted by then. On a cycle the walk would go round for ever.
- `BudgetHolds`: what a limiter gives since any moment is at most a full
  bucket, the refill, and `slack`: one for every request that held a limiter while it
  was cleaned up, the time by which a stamp moved a bucket back, and what a row
  lacked that had expired before a late script ran. So deleting full buckets, and
  expiring rows under scripts that are not late, cost nothing; what the rest
  costs is `OneBudget` in section 4. Requests that fail open take no token, and
  there is one for each call without an answer at most.
- `RefusedOnlyWhenSpent`: the other direction, for all of these behaviours.
- `AdmittedWithinQuota`: although a bucket throws hits away at every check, the
  hour before an admitted run never holds more runs than the quota its caller
  had, unless a request stamped later was checked first (section 4).
- `RetryIsEnough`: the first hit of the list is the one whose expiry makes room.
- `StatusSpeaksOfStored`: a badge is of a test of the present configuration and
  secret, though the test read them by two statements and wrote by a third, unless
  an edit overtook that very test (section 4).
- `RowIsCoherent`: whatever order edits and any number of tests write in, status
  and code agree, and the code is what the cause's type says.
- `UnhealthyHasCause`: `Classify` calls a cancellation a timeout, but the same
  cancellation fails the UPDATE, so a user who leaves marks nothing unhealthy.
- `RequestsBounded`: the limits of the layers multiply: every redirect followed
  starts the attempts afresh, a digest doubles them, and each exchange of theirs is
  sent as often as the transport makes of one. That last factor is Go's, and
  nothing in the code sets it.
- `ConnectionsVetted`: every host and address a query is connected to, by a dial
  or over a connection kept open, for a page, a redirect, a next link or the
  token endpoint, is one that the policy of its path lets through, as far as the
  guard can tell: of an address with a zone it cannot tell the range.
- `ListingSpec`: `HttpFetch` implements `PagedListing` under `got <- Taken` and
  `outcome <- Verdict`: items in their order, none skipped and none twice, and
  the whole listing, a part that says so, or an error; retries, redirects,
  challenges and token exchanges are stuttering.
- `FetchAdvances`: ten counters and stages, of the layers and the dial, in
  lexical order. Each layer starts the counters of the ones below it afresh (a
  redirect the attempts, a retry the challenge and the re-sends, a page everything), and each time
  something that weighs more has grown.
- `FetchEnds`: there is no answer of the upstream for which a query goes on for ever.
- `RolesAreOfLastEdits`: an edit is whole however it overlaps with others and
  wherever it breaks.
- `GrantsSpec`: `UserRoles` implements `RoleGrants`: of all the DELETEs and INSERTs,
  waits and aborts of overlapping transactions others see one step, and what a
  later one does to an earlier one's rows is what `Give` says.

**Bounds.** One workflow is enough for every promise of the scheduler that
speaks of one workflow, as its goroutines meet only over rows and counters of
the same one; the poll's list is exercised with two in `SchedLive`. A clock of
three covers an immediate firing, a late one and a firing that arrives while
the previous one runs. Two requests give every pairwise interleaving of two
refreshes, and three tokens a rotation of a rotated token. Three nodes with
three edges cover a loop, a two-cycle with a tail, a triangle, parallel edges
and every order of the list; what the sort does on all graphs is proved.
In `Buckets` the clock outlasts the life of a row (burst 2 and grace 2), so a
row expires and is made again, and a script stamped before that may run after it;
a limiter is cleaned up and replaced, and five
tokens are more than a burst and the refill of two ticks. In `Quota` the
window of 3 passes nearly twice, five runs fill a bucket of two twice over, and
the two sets of roles give one user quotas of 1 and 2.
In `Connections` two requests are two tests of one row, each overtaken by edits
anywhere; the two errors are one whose words and type disagree and one of words
alone, and a burst of 1 makes the limiter refuse. In `Fetch` a listing of 3 is
more than a page and less than the page limit allows, a cap of 1 makes it more
pages than the limit, 0 is the empty listing; every paginator,
authenticator and path occurs among the queries, as do limits at their default, off
and above the hard one; a redirect or a link may name a zoned address, which an
allowlist's wildcard matches, and an answer may hold mapped ones. In `Roles` three edits are one that
commits first and two that overlap over it; the lists repeat a role, swap two
and name one that is not there.

**Deadlock** is checked everywhere but in `SchedLive` and `SchedRestart`, where a
run without requests ends when the clock stops, in the engine's runs, which model a
function that returns, and in the limiters' and quotas' runs, which end at the
bounds on time and on requests, and in `Fetch` and `Roles`, where every query and
every edit ends.

**Fairness.** `Fairness` of `WorkflowScheduler` is weak fairness of the
scheduler's and each goroutine's next step (the Go runtime schedules runnable
goroutines; a statement returns or its context ends it; `engine.Run` is under
`runTimeout`), of the exit of a draining process (`ShutdownTimeout`) and of the
restart (the container's restart policy). Nothing is assumed of users, clients,
failures or the clock. The engine's fairness is that of one goroutine that runs,
and so is `HttpFetch`'s: what it waits for, it waits for with a timeout.

## 4. Refuted without a run of their own

Stated in the modules and refuted by TLC as well; each is a run of the named
module with the given change to the constants of an existing configuration
(`EngineRuns` where none is named; without its symmetry for temporal ones).

| Claim | Configuration and change | Trace |
| --- | --- | --- |
| `NoOverlap` (FR-08:125) | `SchedClean` | a manual run is created but not counted yet |
| `DisabledHasNoNextRun` (`workflow/service.go:81`) | `SchedClean` | `MarkScheduleRun` writes a next run over a disabled schedule |
| `StuckRowsResolved` (FR-08:236) | `SchedRestart` under `FairSpec` | the crashed run's row stays 'running' |
| `PausedNotDispatched` (FR-08:200) | `SchedClean` | disabled between the poll and its turn in the list |
| `MarkMovesOn` (`schedule.go:24`) | `SchedClean`, `Crons = {0, 1}` | "0 0 30 2 *" has the zero time as next run |
| `HealthyNotStarved` (FR-08:256) | `SchedLive`, `Definitions = {"ok", "panics"}`, no fault, no stop | the panicking workflow is taken first at every poll |
| `OneSuccessor` (FR-01:114) | `AuthClean` | two refreshes of one token find it live |
| `ReuseRevokesTree` (FR-01:115) | `AuthClean` | a refresh under way stores its token after the sweep |
| `RotationSpends` with a fault (FR-01:113) | `AuthFaults` | the ignored error of `RevokeRefreshToken` |
| `SuspensionEndsSessions` with a fault (FR-02:152) | `AuthFaults` | the ignored error of `RevokeUserSessions` |
| `SuspensionRevokesAll` (suggested by FR-02:152, which promises it of existing tokens only) | `AuthClean`, `Requests = {q1}`, `Tokens = {t1, t2}` | a registration, which makes no status check, or a sign-in past its own stores a token after the revocation |
| `SuspendedIsRejected` (FR-01:153; FR-02:153 says otherwise) | the same | an access token outlives the suspension |
| `SuspendedRefreshRevokes` (FR-01:151) | the same | the refusal returns before the revocation |
| `RolesMatchPermissions` (`auth/repository.go:113`) | the same, `Roles <- ViewerAndEditor`, `RoleEdits <- SwapRoles` | an edit between the two queries; with a fault also a first query that breaks unnoticed |
| `RegisteredIsViewer` (FR-02:202) | `AuthClean`, `Requests = {q1}`, `Tokens = {t1, t2}`, `MaxFaults = 1` | the second INSERT fails |
| `ProjectionKeepsOutput` (FR-16:187) | `Definitions <- Filtering` | the hint has the columns of the filters only |
| `NeverPanics` (FR-07:269) | `Definitions <- Misses` | an aggregation indexes a missing column |
| `EmptyFlows` (FR-07:257) | `Definitions <- Grouping` | an empty frame has no columns |
| `HintNamesColumns` (FR-16:187) | `Definitions <- Quoting` | a word of a string literal is taken for a column |
| `TruncationSurvives` (`dataframe/metadata.go:33`) | `Definitions <- Reshaping` | a transform's new frame forgets `Truncated` |
| `OriginIsProducer` (`dataframe/metadata.go:21`) | `Definitions <- Sharing` | an output node relabels a shared frame |
| `InputIsDetermined` (FR-07:280) | `Definitions <- TwoHandles` | map iteration chooses the input |
| `JoinReadsItsHandles` (FR-07:108) | `Definitions <- NamedLeft`, `NodeIds = {"a", "left", "c"}` | a node named "left" takes the left handle |
| `VisitsAreBounded` (`definition.go:62`) | `Definitions <- Ladder`, `NodeIds` from "a" to "g", `MaxNodes = 10`, `MaxEdges = 20` | one visit for every path |
| `SuccessHasOutput` (FR-07:153) | `Definitions <- Empty` | no node, no frame, and the handler asks for its rows |
| `NeverMissesOne` (FR-13:372) | `Quota` | an overtaken request prunes with an older cutoff and is counted after the newer one |
| `UnlimitedRole` (FR-13:379) | `Quota`, `RoleSets <- WithAdmin` | an administrator without a quota has the quota of another of his roles |
| `RetryAlwaysEnough` (`handlers/explore.go:61`) | `Quota` | the first hit of the list is not the oldest |
| `ZeroBlocks` (FR-13:380) | `Quota`, `Kinds <- TwoKinds`, `RoleSets <- Viewers`, `RoleQuotas <- ViewersBlocked`, `MaxClock = 3`, `MaxHits = 4`, no symmetry | a quota of 0 is taken for none |
| `OneBudget` (`adapters/ratelimit/redis.go:1`) | `Buckets`, `Backends <- OnlyRedis` | an instance whose clock is behind moves the stamp back |
| `FinishIsRecorded` (`workflow/service.go:133`) | `SchedClean`, `Requests = {q1}`, `ClientsLeave = TRUE`, no symmetry | the statement that finishes the row has the client's cancelled context |
| `EditInvalidates` (FR-05:155) | `Connections` | a test dialled before an edit is recorded after it |
| `DialsOneVersion` (FR-03:341) | `Connections` | an edit between the read of the configuration and of the secret |
| `EveryTestRecords` (FR-05:152) | `Connections` | the client leaves, and the UPDATE is cancelled with it |
| `DialsKeepToRanges` (`docs/SECURITY.md:151`) | `Fetch` | an address with a zone is in none of the prefixes |
| `RedirectCapIsDepth` (FR-11:134, FR-06:120) | `Fetch` | the redirect whose number is the cap is refused |
| `ZeroDisablesRedirects` (`httpclient/client.go:18`) | `Fetch` | `setDefaults` makes the default of a 0 |
| `PageCapAborts` (FR-11:136) | `Fetch` | the pages so far are returned, with a warning |
| `UnmarkedIsWhole` (what a result without a warning suggests) | `Fetch` | an upstream with smaller pages than asked for ends a listing read by offset |
| `LastWriterWins` (FR-02:239) | `Roles` | an edit that commits last leaves what an overlapping one has just given; of two that give the same role one fails |
| `AdministratorStays` (FR-02:226) | `Roles` | nobody counts the administrators |

Of some of these the trace is the only way: where it cannot happen the claim holds,
and is proved (section 5).

| Claim | Holds if | Theorem |
| --- | --- | --- |
| `MarkMovesOn` | every expression that parses names a date | `SchedulesMoveOn` |
| `OneSuccessor` | the refreshes of an account do not overlap, and no statement breaks | `RotationIsAChain` |
| `ReuseRevokesTree` | the refreshes of an account do not overlap | `ReuseEndsTheTree` |
| `RolesMatchPermissions` | a user's roles stay while a request is between the two queries, and no break of the first goes unnoticed | `TokensAreOfOneMoment` |
| `RegisteredIsViewer` | no statement breaks, no client leaves, nobody takes roles away | `NewAccountsAreViewers` |
| `InputIsDetermined` | every edge but those into joins ends at the default handle | `DefaultInputsAreDetermined` |
| `JoinReadsItsHandles` | no node is called "left" | `JoinsReadTheirHandles` |
| `SuccessHasOutput` | the definition has a node | `SuccessOfNodesHasOutput` |
| `NeverMissesOne` | requests are checked in the order of their stamps | `NoneMissedInOrder` |
| `OneBudget` | stamps reach Redis in order, and no script runs so late that its row may have expired | `OneBudgetInOrder` |
| `UnmarkedIsWhole` | the upstream's pages are as large as the offset strategy asks for | `UnmarkedResultsAreWhole` |

## 5. What is proved

Every theorem is proved from the named assumptions on the constants, which TLC
also evaluates in the runs, and holds for any number of goroutines, workflows,
tokens, nodes and failures.

`WorkflowSchedulerProofs`
- `TypeCorrect`, `CountersAreExact`. `CountersExact` alone is not inductive: the
  scheduler's goroutine runs `Execute` only while `sched.pc = "exec"`, and the
  decrement is safe because of it. `CountInv` adds that link; each way into
  and out of `Execute` is one lemma about the cardinality of the goroutines counted.
- `EnabledStaysArmed`, which states `EnabledCanFire`. The invariant `ArmedInv` says that
  every expression on its way to the database (in an editor's local state, in
  the poll's list, in the entry being run) parses.
- `FiresOnce`, assuming that nothing fails. `OnceInv` says that a
  firing that is done belongs to the workflow whose schedule the scheduler is
  about to move on, so none that is done waits in the list.
- `FailuresCostAFiringEach`, with no assumption, states `FailuresCostOneEach`. The
  invariant `LedgerInv` is a balance: for every workflow the firings that are spoilt
  and the one that a failure may yet spoil (its run is over without a row, or
  done and not moved on: `Owing`) were paid for by a failed statement or a stop.
  SIGTERM pays once for each workflow that the poll has still before it (`Exposed`);
  `ListInv` says that none is there twice.
- `SchedulesMoveOn`, assuming `0 \notin Crons`: only `AdvanceSchedule` leads from one
  stage to the next, and `NextRunIsLater` is the arithmetic.

`AuthSessionsProofs`
- `SessionsTypeCorrect`, `SuspensionClosesTheDoor` (no assumption on failures).
- `UnspentTokensAreFaults` (no assumption either), states `UnspentAreFaults`. `Owed`
  adds to the unspent tokens those of refreshes past `Rotate`, which will have a
  successor; only a rotation whose statement fails adds one.
- `SuspensionEndsTheSessions` and `RotationSpendsTheToken`, assuming that no
  statement breaks; a client may leave at any point. The second (`RotationSpends`,
  of which `UnspentAreFaults` is the general form) needs to know of
  the requests on their way that the token they were given is already revoked
  once they have passed `Rotate`.
- `ReuseEndsTheTree` and `RotationIsAChain`, under `[]RefreshesApart`: no two
  refreshes of one account are under way together. It is a hypothesis about the
  behaviour, not an assumption of the model, and excuses no fault: the first has
  no other, the second that no statement breaks. `OwnInv` keeps a token's ancestors
  in its own account, `CaughtInv` says that no request under way descends from a
  token whose reuse was acted on, `FirstInv` that a refresh which has found its token
  live is the first to rotate it. What the other steps may do to tokens and
  requests is said once, in `Quiet` (`Moves`, `TokensAge`).
- `TokensAreOfOneMoment` and `NewAccountsAreViewers`, under hypotheses about steps:
  `RolesHeld` and `RolesReadWhole` (the first query may break, but not unnoticed),
  `RolesKept`.

`WorkflowEngineProofs`
- `EngineInvariant`: `SortInv` is Kahn's invariant (a node's in-degree is the
  number of edges into it not yet visited; the queued and the ordered are exactly
  those with none; the order lists a node after its predecessors; no node of a
  circular set is ever reached), `RunInv` adds the progress of the loop.
- `OrderIsTopological`, `SortDecidesCycles`: from `SortInv`, the second with the
  observation that the nodes left over when the queue is empty are circular.
- `EngineImplementsRun`: `Spec => RunSpec`, step by step.
- `SharedDataIsImmutable`: `DataInv` adds that every frame in the heap is capped.
- `EngineTypeCorrect`: the counts of `TopologicalOrder` stay natural by `SortInv`, the
  walk's queue holds nodes by `DownstreamType`, the output is a node's frame. The
  library's induction cannot be used here; where a recursive function is built up,
  `UpTo` takes its place: a least counterexample (`LeastElement`, from
  `NatLessThanWellFounded` and `WFMin`) is impossible.
- `EngineGetsOn` states `RunAdvances`: `SuccsLater` (an edge leads forward in the
  order), `PlacesAfter` (what a dequeued node's place turns into) and `WalkInv`.
- `DefaultInputsAreDetermined`, `JoinsReadTheirHandles`, from `InputIsLast`: a key
  holds the frame of the last edge that writes it. `SuccessOfNodesHasOutput`, by
  `LastInv`.

`TokenBucketsProofs`
- `BucketsTypeCorrect`; `BudgetIsKept`, with no assumption on how long a script
  takes or how far clocks are apart. The potential of `BudgetInv` is "tokens given
  plus tokens left". It is kept for a bucket in use, and for a row that has
  expired as if it were there, as a script that is not late would find it full;
  a limiter that was removed was full by then, and what a late script
  finds missing is in `slack`.
- `RefusalsAreJustified`: `SpentInv` says of every bucket that there is a moment
  since when all that is not left was let through.
- `OneBudgetInOrder`, under `[]InOrder` (no request is behind the stamp it finds) and
  `[]Prompt` (no script still to run is late): `slack` stays 0. Both are hypotheses about
  the behaviour, which nothing in the code enforces.

`QuotaWindowProofs`
- `QuotaTypeCorrect`, `QuotaIsKept`, `QuotaIsGranted`, `RetryAfterSuffices`, by
  `QuotaInv`: `Remembered` says that a bucket has forgotten only hits that were
  outside the window of the newest stamp it was checked with, `Finite` and
  `Numbered` that the hits are finitely many with places of their own.
  `NoneMissedInOrder`, under `[]InOrder`: no hit is late.

`ConnectionsProofs`
- `ConnectionsTypeCorrect`, `StatusIsOfStored`, `RowsAreCoherent`,
  `LeavingIsNoIllness`, `DeletedConnectionsStayDeleted`. The invariant is `RowInv`,
  the row's part, and `ReqInv`: a request under way that no edit has
  overtaken holds what the row holds (`Local`, `Underway`), which is what makes the
  result it will write true of the row.

`HttpFetchProofs`
- `GuardVetsDials`: the guard alone, whatever names, ranges and answers there are: every
  address of the answer is one that `Permitted` allows, which is about the range
  only of addresses without a zone. That no address of a denied range is dialled
  (`DialsKeepToRanges`) is false.
- `FetchTypeCorrect`, `FetchDialsVetted`, `FetchConnectionsVetted`,
  `FetchRequestsBounded`. `SentInv` counts the requests of a page against the
  exchanges so far (`Earlier`), each with the transport's re-sends (`WaitInv`: no wait follows the last attempt),
  `DialInv` ties the guard's dial to the query that asked for it.
- `FetchImplementsListing`: `Spec => ListingSpec`. `PageInv` relates the last
  page to what was gathered before it; the lemmas `PageInListing`, `AdvanceIsBeyond`
  and `LastIsEnd` are the arithmetic of the paginators: a page lies
  in the listing, the next one starts where it ends, and a paginator stops only at the end.
  `UnmarkedResultsAreWhole` follows, for upstreams that keep to the page size.
- `FetchGetsOn` states `FetchAdvances`: action by action, the first of the ten
  components that changes has grown. `TokenInv` says that the token endpoint is
  dialled only without a token.

`UserRolesProofs`
- `EditsImplementGrants`: `Spec => GrantsSpec`. `KeyInv` and `UniqueRole` say that what
  is committed, put or taken has one row for a role, `ProperSoFar` that a running
  edit has put each role of its list so far once; with them a commit is `Give`,
  every other end `GiveUp`.
- `RolesTypeCorrect`, `EditsAreWhole`, `LaterEditDecides`, for any number of edits,
  roles and lists. `OverInv` and `RowInv` say which rows a transaction can
  meet, `EditInv` what a running one has still to take and has put so far, and
  `Settled` that what is committed is there whole, or replaced whole.

The assumptions are `SchedulerAssumption` and its like, one in each module: limits
that are natural numbers, sets that do not overlap, values of the shape described.

Only model-checked: liveness (`DueIsHandled`, `RunEnds`, `FetchEnds`), as the prover
does not handle fairness and `ENABLED`. Of `RunEnds` and `FetchEnds` the part
that is about the algorithm is proved all the same: with every step something grows
that is bounded (`RunAdvances`; `FetchAdvances` with the bounds of `TypeOK` and
`RequestsBounded`), so that what is left is that an unfinished run always has a next step,
which the liveness properties `RunEnds` and `FetchEnds` show for their instances. Refuted claims
are model-checked by their nature.

## 6. What is not modelled

Whole parts, with the reason:

- The web client. What its tabs can do to a session is what `AuthSessions` lets
  callers of refresh do (`ReuseRevokesTree`, `OneSuccessor`); its own shared
  promise is one variable of one thread.
- The migrator runs once, before the server listens, and does nothing to a table
  that is up to date. Two servers starting together are a listed hazard without a property.
- The memory monitor compares the heap's size with two marks: the model would be
  the comparison. Its refusals are failures of `Execute`.
- Data frames: values, inference of types and the columnar encoding are sequential
  functions of unbounded data and have unit tests; what the engine depends on
  (columns, counts, caps, sharing) is in `WorkflowEngine`.
- Audit log, OIDC discovery and code exchange (their outcome is an input of
  `AuthSessions`), encryption and hashing, catalog, the rest of configuration, logging,
  metrics, the JSON envelope, probes, and the pages of the web client: straight-line
  code, pure output or external services.

Inside the modelled parts: what expressions, queries and keys evaluate to; time
inside a node; the wording of errors and audit records. Of the connectors: the
translation to each vendor's interface, and their `Test`, which for HTTP is `Do`
without pagination. Of the HTTP client: how long a retry waits, `LimitColumns` and the
cap on columns, the ratio at which a compressed body is refused, basic, bearer,
API-key and JWT headers (straight-line, one value `"static"`), and Kerberos, whose
library talks to its KDC itself; proxies, and the transport's re-sends to the token
endpoint, whose exchange is one step. Of the limiters: that the map of buckets grows by one
for each connection. Of the database: everything a statement's effect does not show.
