---------------------------- MODULE MCHttpFetch ----------------------------
(***************************************************************************)
(* Model-checking instances of HttpFetch, and of the guard it dials through.*)
(***************************************************************************)
EXTENDS HttpFetch

Plainly(r) == [range |-> r, form |-> "plain"]
Mapped(r) == [range |-> r, form |-> "mapped"]
Zoned(r) == [range |-> r, form |-> "zoned"]

\* The connection's host; two that a redirect or a link may name, of which one
\* is a host that is never dialled; the token endpoint.
Home == Name("api.example")
Metadata == [name |-> "metadata.goog", spelt |-> "oddly"]
SomeNames == {"api.example", "metadata.goog", "login.example"}
Login == Name("login.example")
SomeTargets == {Home, Metadata, Zoned("fc00::/7")}

\* A zone may be spelt like the end of a name.
SomeParents == [h \in {Name(n) : n \in SomeNames} \cup Addrs |->
    IF h \in {Home, Login, Zoned("fc00::/7")} THEN {"example"}
    ELSE IF h = Name("metadata.goog") THEN {"goog"} ELSE {}]

SomeAnswers == {<<Plainly("elsewhere")>>, <<Plainly("elsewhere"), Mapped("10.0.0.0/8")>>,
    <<Mapped("169.254.0.0/16")>>, <<>>}

Any(host) == [host |-> Name(host), port |-> "any", wildcard |-> "no"]
Below(host) == [host |-> Name(host), port |-> "https", wildcard |-> "yes"]
Policy(policy, adhoc, allowlist) == [policy |-> policy, adhoc |-> adhoc, allowlist |-> allowlist]
SomePolicies == {Policy("allow-private", "public-only", {}), Policy("allowlist", "", {Below("example")}),
    Policy("allowlist", "", {}), Policy("allow-private", "allowlist", {Any("login.example")}),
    Policy("", "", {})}

\* A page size of 2.
Job(kind, strategy, auth, path, limit, redirects) ==
    [kind |-> kind, strategy |-> strategy, auth |-> auth, path |-> path, limit |-> limit,
     redirects |-> redirects, size |-> 2, pages |-> 0, guardrail |-> 0, host |-> Home]
SomeJobs == {
    Job("rest", "none", "static", "saved", 2, 0),
    Job("rest", "offset", "digest", "adhoc", 3, 2),
    [Job("rest", "page", "static", "saved", 3, -1) EXCEPT !.guardrail = 2],
    Job("rest", "cursor", "exchange", "adhoc", 9, 1),
    [Job("rest", "linkHeader", "static", "saved", 9, 3) EXCEPT !.pages = 9],
    Job("graphql", "graphqlRelay", "static", "saved", 9, 2),
    Job("graphql", "none", "unknown", "saved", 9, 2),
    Job("graphql", "cursor", "static", "adhoc", 9, 2)}

Api(length, cap, endless) == [length |-> length, cap |-> cap, endless |-> endless]
SomeApis == {Api(0, 1, "no"), Api(3, 1, "no"), Api(3, 2, "no"), Api(0, 2, "yes")}

=============================================================================
