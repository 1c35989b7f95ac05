----------------------------- MODULE HttpFetch -----------------------------
(***************************************************************************)
(* A REST or GraphQL query on its way through the layers of pkg/httpclient: *)
(* the connector builds the request and the client; DoPaginated asks for    *)
(* page after page; Do authenticates each request; http.Client follows      *)
(* redirects; retryTransport repeats an exchange that failed; the digest    *)
(* layer answers a challenge; the transport reuses a connection or dials    *)
(* through the egress guard. The connector reads rows from the pages when   *)
(* the last of them is there; what it has gathered at a page depends on the *)
(* pages before it only, and is kept here page by page.                     *)
(*                                                                          *)
(* The upstream keeps a listing that does not change meanwhile: `length`    *)
(* items, at most `cap` to a page whatever the query asks for. An endless   *)
(* one never stops naming a next page: its items are counted on.            *)
(***************************************************************************)
EXTENDS EgressGuard, Integers, FiniteSets

CONSTANTS
    Jobs,                \* the queries and the limits they run under
    Apis,                \* the upstreams
    Targets,             \* the hosts a request can be sent to
    TokenHost,           \* where an access token is exchanged
    MaxAttempts,
    TransportResends,    \* how often net/http sends one exchange again by itself
    DefaultMaxRedirects,
    DefaultMaxPages,
    HardMaxPages

VARIABLES
    job, api, \* the query and its upstream, fixed
    pc,
    req,      \* the request being sent: the position asked for, the host it was
              \* made for and the one it has been redirected to, and its body
    tries,    \* attempts of this exchange
    hops,     \* redirects of this request
    answered, \* whether this attempt has answered a digest challenge
    resent,   \* how often the transport has sent this exchange again
    token,    \* whether the authenticator holds an access token
    sent,     \* requests sent for this page
    conns,    \* the address at the other end of the idle connection to a host
    count, page, \* the pages read: how many, and the last of them
    gathered, sound, \* what the connector has from them: the items before a page
              \* that it cannot use, and whether there is such a page
    rows, flags, \* the result: its rows, and which limits it says it has met
    why       \* why the query failed

attemptVars == <<tries, hops, answered, resent, token, sent>>
readVars == <<count, page, gathered, sound>>
resultVars == <<rows, flags>>
vars == <<job, api, guards, dial, pc, req, attemptVars, conns, readVars, resultVars, why>>

ASSUME FetchAssumption ==
    /\ MaxAttempts \in Nat \ {0} /\ TransportResends \in Nat /\ DefaultMaxRedirects \in Nat \ {0}
    /\ DefaultMaxPages \in Nat \ {0} /\ HardMaxPages \in Nat /\ DefaultMaxPages <= HardMaxPages
    /\ Targets \subseteq Hosts /\ TokenHost \in Hosts \ Targets
    /\ Jobs \subseteq
        [kind : {"rest", "graphql"}, size : Nat \ {0}, limit : Nat \ {0}, pages : Nat, guardrail : Int,
         strategy : {"none", "offset", "page", "cursor", "linkHeader", "graphqlRelay"}, redirects : Int,
         auth : {"static", "digest", "exchange", "unknown"}, path : {"saved", "adhoc"}, host : Targets]
    /\ Apis \subseteq [length : Nat, cap : Nat \ {0}, endless : {"yes", "no"}]

fixed == <<job, api>>
PageBodies == {"none", "json", "empty", "garbage", "deep", "errors", "over", "status"}
Ended == {"done", "failed"}

-----------------------------------------------------------------------------
(* The upstream.                                                            *)

Least(m, n) == IF m <= n THEN m ELSE n

Numbered == job.strategy \in {"page", "offset"}
NoEnd == api.endless = "yes" /\ job.strategy \in {"cursor", "linkHeader", "graphqlRelay"}

\* A page that is asked for by number or offset may be smaller than asked for.
Served == IF Numbered THEN Least(job.size, api.cap) ELSE api.cap

First(at) ==
    IF job.strategy = "page" THEN Least(at * Served, api.length)
    ELSE IF NoEnd THEN at ELSE Least(at, api.length)

Beyond(at) ==
    IF job.strategy = "none" THEN api.length
    ELSE IF NoEnd THEN at + Served ELSE Least(First(at) + Served, api.length)

-----------------------------------------------------------------------------
(* The paginators, and the page limit.                                      *)

Offered == IF job.kind = "rest" THEN {"none", "offset", "page", "cursor", "linkHeader"}
                                ELSE {"none", "graphqlRelay"}

MaxPages ==
    LET asked == IF job.pages > 0 THEN job.pages ELSE job.guardrail IN
    IF asked <= 0 THEN DefaultMaxPages ELSE Least(asked, HardMaxPages)

MaxRedirects == IF job.redirects = 0 THEN DefaultMaxRedirects ELSE job.redirects

\* What a paginator sees of a page: a body that is no JSON, a cut one included,
\* holds no items and no cursor. Its decoder knows no limits of depth and size.
Decoded(p) == p.body \in {"json", "deep"}
Items(p) == IF Decoded(p) THEN p.upto - p.from ELSE 0

NamesNext(p) == NoEnd \/ p.upto < api.length

\* Mutant: only an empty page ends an offset query.
OffsetHasNextUnlessEmpty(p) == Items(p) # 0

OffsetHasNext(p) == Items(p) # 0 /\ Items(p) >= job.size
PageHasNext(p) == Items(p) # 0
CursorHasNext(p) == Decoded(p) /\ NamesNext(p)
LinkHasNext(p) == NamesNext(p) \* in a header
RelayHasNext(p) == Decoded(p) /\ NamesNext(p)

HasNext(p) ==
    \/ job.strategy = "offset" /\ OffsetHasNext(p)
    \/ job.strategy = "page" /\ PageHasNext(p)
    \/ job.strategy = "cursor" /\ CursorHasNext(p)
    \/ job.strategy = "linkHeader" /\ LinkHasNext(p)
    \/ job.strategy = "graphqlRelay" /\ RelayHasNext(p)

OffsetAdvance(p) == req.at + job.size
PageAdvance(p) == req.at + 1
CursorAdvance(p) == p.upto

Advance(p) ==
    IF job.strategy = "offset" THEN OffsetAdvance(p)
    ELSE IF job.strategy = "page" THEN PageAdvance(p) ELSE CursorAdvance(p)

-----------------------------------------------------------------------------
Start(host, at) == [at |-> at, base |-> host, host |-> host, body |-> "own"]

NoPage == [from |-> 0, upto |-> 0, body |-> "none"]

Init ==
    /\ GuardInit
    /\ job \in Jobs /\ api \in Apis
    /\ pc = "begin"
    /\ req = Start(job.host, 0)
    /\ tries = 1 /\ hops = 0 /\ answered = "no" /\ resent = 0 /\ token = "none" /\ sent = 0
    /\ conns = [h \in Targets \cup {TokenHost} |-> NoAddr]
    /\ count = 0 /\ page = NoPage /\ gathered = 0 /\ sound = "yes"
    /\ rows = 0 /\ flags = {}
    /\ why = "none"

Fail(reason) == pc' = "failed" /\ why' = reason

\* The connector's own checks: the strategy and the kind of authentication.
Known == job.strategy \in Offered /\ job.auth # "unknown"

Begin ==
    /\ pc = "begin"
    /\ \/ Known /\ pc' = "auth" /\ UNCHANGED why
       \/ ~Known /\ Fail("config")
    /\ UNCHANGED <<fixed, guardVars, req, attemptVars, conns, readVars, resultVars>>

\* The token endpoint is dialled through the guard of the query's path.
Authenticate ==
    /\ pc = "auth"
    /\ \/ (job.auth = "exchange" => token = "held") /\ pc' = "send" /\ UNCHANGED guardVars
       \/ /\ job.auth = "exchange" /\ token = "none"
          /\ \/ conns[TokenHost] # NoAddr /\ pc' = "exchange" /\ UNCHANGED guardVars
             \/ DialContext("tcp", TokenHost, "https", job.path) /\ pc' = "dialing"
    /\ UNCHANGED <<fixed, req, attemptVars, conns, readVars, resultVars, why>>

ExchangeToken ==
    /\ pc = "exchange"
    /\ \/ pc' = "send" /\ token' = "held" /\ UNCHANGED why
       \/ Fail("auth") /\ UNCHANGED token
    /\ UNCHANGED <<fixed, guardVars, req, tries, hops, answered, resent, sent, conns, readVars, resultVars>>

-----------------------------------------------------------------------------
(* One exchange.                                                            *)

Send ==
    /\ pc = "send"
    /\ \/ conns[req.host] # NoAddr /\ pc' = "reply" /\ sent' = sent + 1 /\ UNCHANGED guardVars
       \/ DialContext("tcp", req.host, "https", job.path) /\ pc' = "dialing" /\ UNCHANGED sent
    /\ UNCHANGED <<fixed, req, tries, hops, answered, resent, token, conns, readVars, resultVars, why>>

Dialing ==
    /\ pc = "dialing"
    /\ Resolve \/ Connect
    /\ UNCHANGED <<fixed, pc, req, attemptVars, conns, readVars, resultVars, why>>

Dialed ==
    /\ pc = "dialing" /\ dial.pc = "open"
    /\ conns' = [conns EXCEPT ![dial.host] = dial.to]
    /\ \/ dial.host = TokenHost /\ pc' = "exchange" /\ UNCHANGED sent
       \/ dial.host # TokenHost /\ pc' = "reply" /\ sent' = sent + 1
    /\ Close
    /\ UNCHANGED <<fixed, req, tries, hops, answered, resent, token, readVars, resultVars, why>>

\* The retry layer repeats an exchange that ended in an error; the last error
\* is its own.
Troubled(reason) ==
    \/ tries < MaxAttempts /\ pc' = "wait" /\ UNCHANGED why
    \/ tries >= MaxAttempts /\ Fail(reason)

\* The authenticator has no retry of its own.
DialFailed ==
    /\ pc = "dialing" /\ dial.pc = "failed"
    /\ \/ dial.host = TokenHost /\ Fail("auth")
       \/ dial.host # TokenHost /\ Troubled("transport")
    /\ Close
    /\ UNCHANGED <<fixed, req, attemptVars, conns, readVars, resultVars>>

\* The connection breaks before an answer has come, or the answer is a challenge
\* that the digest layer cannot meet; a body whose length is not the one
\* announced is never sent whole.
Breaks ==
    /\ pc = "reply"
    /\ conns' \in {conns, [conns EXCEPT ![req.host] = NoAddr]}
    /\ Troubled("transport")
    /\ UNCHANGED <<fixed, guardVars, req, attemptVars, readVars, resultVars>>

\* Below the retry layer, the transport sends an exchange again by itself when
\* the connection it reused turns out to be closed, or when an HTTP/2 server
\* refuses it: over the connection it has, or over another.
Resend ==
    /\ pc = "reply"
    /\ resent < TransportResends
    /\ conns' \in {conns, [conns EXCEPT ![req.host] = NoAddr]}
    /\ resent' = resent + 1
    /\ pc' = "send"
    /\ UNCHANGED <<fixed, guardVars, req, tries, hops, answered, token, sent, readVars, resultVars, why>>

Replies == pc = "reply" /\ req.body # "mismatched"

\* The digest layer sends the request a second time, with the answer.
Challenged ==
    /\ Replies
    /\ job.auth = "digest" /\ answered = "no"
    /\ answered' = "yes" /\ resent' = 0
    /\ pc' = "send"
    /\ UNCHANGED <<fixed, guardVars, req, tries, hops, token, sent, conns, readVars, resultVars, why>>

\* 429, 502, 503 and 504 are repeated; the last one is handed on as an answer.
Busy ==
    /\ Replies
    /\ tries < MaxAttempts
    /\ pc' = "wait"
    /\ UNCHANGED <<fixed, guardVars, req, attemptVars, conns, readVars, resultVars, why>>

\* Mutant: the attempt is not counted.
WaitedUncounted ==
    /\ pc = "wait"
    /\ answered' = "no" /\ resent' = 0
    /\ pc' = "send"
    /\ UNCHANGED <<fixed, guardVars, req, tries, hops, token, sent, conns, readVars, resultVars, why>>

\* After the backoff, or as long as the upstream's Retry-After.
Waited ==
    /\ pc = "wait"
    /\ tries' = tries + 1 /\ answered' = "no" /\ resent' = 0
    /\ pc' = "send"
    /\ UNCHANGED <<fixed, guardVars, req, hops, token, sent, conns, readVars, resultVars, why>>

\* Mutant: the first request is not counted.
MayRedirectInclusive == hops < MaxRedirects

\* CheckRedirect counts the requests made so far, the first included.
MayRedirect == hops + 1 < MaxRedirects

\* A 301 to 303 makes a GET without a body of a POST; a 307 or 308 sends the
\* body that the first page's request was built with, which is shorter than
\* that of a page asked for with a cursor among its variables.
Rewritten(h, keeps) ==
    [req EXCEPT !.host = h,
        !.body = IF job.kind = "rest" THEN "own"
                 ELSE IF ~keeps THEN "dropped"
                 ELSE IF req.at > 0 THEN "mismatched" ELSE "own"]

Redirected ==
    /\ Replies
    /\ MaxRedirects > 0
    /\ \/ /\ MayRedirect
          /\ hops' = hops + 1 /\ tries' = 1 /\ answered' = "no" /\ resent' = 0
          /\ \E h \in Targets, keeps \in BOOLEAN : req' = Rewritten(h, keeps)
          /\ pc' = "send"
          /\ UNCHANGED why
       \/ ~MayRedirect /\ Fail("redirects") /\ UNCHANGED <<req, hops, tries, answered, resent>>
    /\ UNCHANGED <<fixed, guardVars, token, sent, conns, readVars, resultVars>>

\* The client's timeout, the caller's, and a body that cannot be read: Do fails
\* whatever it was waiting for.
GivesUp ==
    /\ pc \in {"auth", "dialing", "exchange", "send", "reply", "wait"}
    /\ Fail("timeout")
    /\ dial' = Idle
    /\ UNCHANGED <<fixed, guards, req, attemptVars, conns, readVars, resultVars>>

-----------------------------------------------------------------------------
(* Page after page.                                                         *)

\* An error status, a body past the limit of its size, one that is no JSON
\* within the limits, GraphQL errors: the connector returns an error. An empty
\* body is no GraphQL answer.
Usable(p) == p.body = "json" \/ (p.body = "empty" /\ job.kind = "rest")

\* The loop that gathers the rows ends at the first page it cannot use.
Gather(p) ==
    LET usable == sound = "yes" /\ Usable(p) IN
    /\ gathered' = IF usable THEN gathered + Items(p) ELSE gathered
    /\ sound' = IF usable THEN "yes" ELSE "no"

\* Without its query, a GraphQL request is refused. An answer is empty when
\* nothing is left; a redirect that is not followed is no JSON.
Bodies ==
    IF req.body = "dropped" THEN {"status"}
    ELSE {"json", "garbage", "deep", "over", "status"}
        \cup (IF job.kind = "graphql" THEN {"errors"} ELSE {})
        \cup (IF First(req.at) = Beyond(req.at) THEN {"empty"} ELSE {})

\* The answer is read, to the limit of its size and no further.
ReadPage ==
    /\ Replies
    /\ \E body \in Bodies :
        page' = [from |-> First(req.at), upto |-> Beyond(req.at), body |-> body]
    /\ count' = count + 1
    /\ Gather(page')
    /\ pc' = IF job.strategy = "none" THEN "frame" ELSE "next"
    /\ UNCHANGED <<fixed, guardVars, req, attemptVars, conns, resultVars, why>>

\* A Link header names the host of the next page, too.
NextPage ==
    /\ pc = "next"
    /\ page.body \notin {"status", "errors"}
    /\ HasNext(page)
    /\ count < MaxPages
    /\ \E h \in IF job.strategy = "linkHeader" THEN Targets ELSE {req.base} :
        req' = Start(h, Advance(page))
    /\ tries' = 1 /\ hops' = 0 /\ answered' = "no" /\ resent' = 0 /\ sent' = 0
    /\ token' \in {token, "none"} \* it may have ended
    /\ pc' = "auth"
    /\ UNCHANGED <<fixed, guardVars, conns, readVars, resultVars, why>>

\* An answer with an error status ends the pagination without an error; so
\* does the page limit, with a flag.
LastPage ==
    /\ pc = "next"
    /\ \/ /\ page.body = "status" \/ (page.body # "errors" /\ ~HasNext(page))
          /\ pc' = "frame"
          /\ UNCHANGED <<flags, why>>
       \/ /\ page.body \notin {"status", "errors"} /\ HasNext(page)
          /\ count >= MaxPages
          /\ pc' = "frame"
          /\ flags' = {"pages"}
          /\ UNCHANGED why
       \/ page.body = "errors" /\ Fail("upstream") /\ UNCHANGED flags
    /\ UNCHANGED <<fixed, guardVars, req, attemptVars, conns, readVars, rows>>

\* Mutant: off by one.
FullOver == gathered > job.limit + 1

\* A row is left when the limit is met.
Full == gathered > job.limit

\* The pages after the one in which the row limit is met are not looked at.
Execute ==
    /\ pc = "frame"
    /\ \/ /\ Full
          /\ pc' = "done"
          /\ rows' = job.limit
          /\ flags' = flags \cup {"rows"}
          /\ UNCHANGED why
       \/ /\ ~Full /\ sound = "yes"
          /\ pc' = "done"
          /\ rows' = gathered
          /\ UNCHANGED <<flags, why>>
       \/ ~Full /\ sound = "no" /\ Fail("upstream") /\ UNCHANGED resultVars
    /\ UNCHANGED <<fixed, guardVars, req, attemptVars, conns, readVars>>

-----------------------------------------------------------------------------
Next ==
    \/ Begin \/ Authenticate \/ ExchangeToken
    \/ Send \/ Dialing \/ Dialed \/ DialFailed
    \/ Breaks \/ Resend \/ Challenged \/ Waited \/ Busy \/ Redirected \/ GivesUp
    \/ ReadPage \/ NextPage \/ LastPage \/ Execute

Spec == Init /\ [][Next]_vars

\* Everything waits with a timeout, and the paging goroutine goes on.
FairSpec == Spec /\ WF_vars(Next)

-----------------------------------------------------------------------------
(* What a query promises.                                                   *)

Reasons == {"none", "config", "auth", "transport", "redirects", "timeout", "upstream"}

TypeOK ==
    /\ pc \in {"begin", "auth", "exchange", "send", "dialing", "reply", "wait", "next", "frame"} \cup Ended
    /\ req \in [at : Nat, base : Targets, host : Targets, body : {"own", "dropped", "mismatched"}]
    /\ tries \in 1..MaxAttempts /\ hops \in Nat /\ sent \in Nat
    /\ answered \in {"yes", "no"} /\ resent \in 0..TransportResends /\ token \in {"none", "held"}
    /\ conns \in [Targets \cup {TokenHost} -> Addrs \cup {NoAddr}]
    /\ count \in 0..MaxPages
    /\ page \in [from : Nat, upto : Nat, body : PageBodies]
    /\ gathered \in Nat /\ sound \in {"yes", "no"}
    /\ rows \in 0..job.limit /\ flags \subseteq {"pages", "rows"}
    /\ why \in Reasons /\ (pc = "failed" <=> why # "none")

\* The bounds of the layers multiply: for one page there are no more exchanges
\* than attempts, twice over with a digest, for the first request and for each
\* redirect that is followed (which starts the count of attempts afresh), and
\* no more requests are sent than the transport makes of that many exchanges.
RequestsBounded ==
    /\ hops = 0 \/ hops < MaxRedirects
    /\ sent <= (1 + TransportResends) *
               ((IF job.auth = "digest" THEN 2 ELSE 1) * (MaxAttempts * (hops + 1)))

\* Wherever pages, redirects and retries lead, and wherever the token endpoint
\* is, the hosts and addresses the query is connected to are ones that the policy
\* of its path lets through.
ConnectionsVetted ==
    \A h \in Targets \cup {TokenHost} : conns[h] # NoAddr => Vetted(job.path, h, "https", conns[h])

\* An upstream that gives smaller pages than the offset strategy asks for ends
\* the query early, and nothing says so.
Shortchanged == job.strategy = "offset" /\ api.cap < job.size

\* A query implements PagedListing: what it has taken is the listing's items in
\* their order, up to those of the last page it can use.
Taken == IF sound = "yes" /\ gathered # page.upto THEN -1 ELSE gathered
Verdict ==
    CASE pc = "done" -> IF flags # {} \/ Shortchanged THEN "part" ELSE "whole"
      [] pc = "failed" -> "failed"
      [] OTHER -> "running"
Listing == INSTANCE PagedListing WITH
    api <- [length |-> api.length, endless |-> IF NoEnd THEN "yes" ELSE "no"],
    got <- Taken, outcome <- Verdict
ListingSpec == Listing!Spec

\* How far a query is: the page it is at, the redirect, the attempt, the answer
\* to a challenge, the token, the transport's own re-sends, the stage of the
\* exchange and the stage of the dial, with the addresses it has still to try.
Round == IF pc \in {"begin", "next", "frame"} THEN 2 * count ELSE 2 * count + 1

Stage ==
    CASE pc \in {"begin", "auth", "next"} -> 0
      [] pc \in {"send", "frame"} -> 1
      [] pc = "dialing" -> 2
      [] pc \in {"exchange", "reply"} -> 3
      [] pc = "wait" -> 4
      [] OTHER -> 5

DialStage ==
    CASE dial.pc = "connect" -> 1
      [] dial.pc \in {"open", "failed"} -> 2
      [] OTHER -> 0

Position ==
    <<IF pc \in Ended THEN 1 ELSE 0, Round, hops, tries,
      IF answered = "yes" THEN 1 ELSE 0, IF token = "held" THEN 1 ELSE 0, resent,
      Stage, DialStage, 0 - Len(dial.left)>>

Further(p, q) == \E k \in 1..10 : p[k] < q[k] /\ \A j \in 1..(k - 1) : p[j] = q[j]

\* No step of a query leads it back: a step that makes it repeat something (a
\* dial, an exchange, a request, a page) has moved it on in something that
\* weighs more and is bounded, so that the layers cannot go round in circles,
\* each of them starting another's count afresh.
FetchAdvances == [][Further(Position, Position')]_vars

\* A query ends, whatever the upstream does.
FetchEnds == <>(pc \in Ended)

-----------------------------------------------------------------------------
(* What the code does otherwise than it is described.                       *)

\* FR-11:134: a query is aborted if the redirect chain exceeds the cap. The
\* redirect whose number is the cap is not followed any more.
RedirectCapIsDepth == why = "redirects" => hops + 1 > MaxRedirects

\* client.go:18: a cap of 0 disables redirects. setDefaults makes 5 of it.
ZeroDisablesRedirects == job.redirects = 0 => hops = 0

\* FR-11:136: a paginated call that exceeds the page cap is aborted. It
\* returns the pages it has, with a warning.
PageCapAborts == pc = "done" => "pages" \notin flags

\* A result without a mark is the whole listing, the offset strategy included.
UnmarkedIsWhole == (pc = "done" /\ flags = {}) => rows = api.length

=============================================================================
