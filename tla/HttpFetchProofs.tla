--------------------------- MODULE HttpFetchProofs ---------------------------
(***************************************************************************)
(* What EgressGuard and HttpFetch promise for every policy, resolver and    *)
(* upstream, and for any limits of attempts, redirects and pages.           *)
(***************************************************************************)
EXTENDS HttpFetch, TLAPS

-----------------------------------------------------------------------------
(* The guard.                                                                *)

GuardsOK ==
    /\ guards.base.mode \in Modes
    /\ guards.adhoc = NoGuard \/ guards.adhoc.mode \in Modes

Dials == [pc : {"idle", "resolve", "connect", "open", "failed"}, path : {"saved", "adhoc"},
          host : Hosts \cup {NoAddr}, port : Ports \cup {"any"}, answer : Seq(Addrs),
          left : Seq(Addrs), to : Addrs \cup {NoAddr}]

\* What the dial has left to try, and what it has reached, is of the answer;
\* the answer has passed the guard of the path, and so has the host.
DialSound(d) ==
    /\ d.pc \in {"resolve", "connect", "open"} => ValidateHost(Effective(d.path), d.host, d.port)
    /\ d.pc \in {"connect", "open"} =>
        \A k \in 1..Len(d.answer) : ValidateAddr(Effective(d.path), d.answer[k])
    /\ d.pc = "connect" =>
        /\ d.left # <<>>
        /\ \A j \in 1..Len(d.left) : \E k \in 1..Len(d.answer) : d.left[j] = Unmap(d.answer[k])
    /\ d.pc = "open" => \E k \in 1..Len(d.answer) : d.to = Unmap(d.answer[k])

GuardInv == GuardsOK /\ dial \in Dials /\ DialSound(dial)

LEMMA UnmapTyped == \A a \in Addrs : Unmap(a) \in Addrs
BY DEF Unmap, Addrs

LEMMA IdleSound == Idle \in Dials /\ DialSound(Idle)
BY DEF Idle, Dials, DialSound, NoAddr

\* A host and an address that the effective guard allows are vetted.
LEMMA AllowedIsVetted ==
    ASSUME GuardsOK, NEW path, NEW host, NEW port, NEW a \in Addrs,
           ValidateHost(Effective(path), host, port), ValidateAddr(Effective(path), a)
    PROVE  Vetted(path, host, port, a)
<1>1. \A g : InForce(path, g) => g = Effective(path)
  BY DEF InForce, Effective, GuardsOK, NoGuard, Modes
<1>2. Permitted(Effective(path), a)
  BY DEF Permitted, RangePermitted, ValidateAddr, Special, Contains, Unmap, Addrs
<1>3. Effective(path).mode = "allowlist" => HostAllowed(Effective(path), host, port)
  BY DEF ValidateHost
<1> QED BY <1>1, <1>2, <1>3 DEF Vetted

LEMMA UnmapVetted ==
    ASSUME NEW path, NEW host, NEW port, NEW a, Vetted(path, host, port, a)
    PROVE  Vetted(path, host, port, Unmap(a))
BY UnmapTyped DEF Vetted, Permitted, RangePermitted, Special, Unmap

\* A step that leaves the guards alone leaves what they say of a dial alone.
LEMMA GuardsStay ==
    ASSUME guards' = guards, GuardsOK
    PROVE  GuardsOK' /\ (DialSound(dial') => DialSound(dial)')
BY DEF GuardsOK, DialSound, Effective

LEMMA DialContextSound ==
    ASSUME GuardInv, NEW network, NEW host \in Hosts, NEW port \in Ports,
           NEW path \in {"saved", "adhoc"}, DialContext(network, host, port, path)
    PROVE  /\ GuardInv'
           /\ dial'.pc # "open" /\ dial'.path = path /\ dial'.host = host /\ dial'.port = port
<1>1. PICK at \in {"resolve", "connect", "failed"} :
        /\ at # "failed" => /\ ValidateHost(Effective(path), host, port)
                            /\ (host \in Addrs => ValidateAddr(Effective(path), host))
        /\ at = "connect" => host \in Addrs
        /\ dial' = [pc |-> at, path |-> path, host |-> host, port |-> port,
                   answer |-> IF host \in Addrs THEN <<host>> ELSE <<>>,
                   left |-> IF host \in Addrs THEN <<Unmap(host)>> ELSE <<>>, to |-> NoAddr]
  BY DEF DialContext
<1>2. dial' \in Dials
  BY <1>1, UnmapTyped DEF Dials
<1>3. DialSound(dial')
  <2>1. CASE at = "connect"
    <3>1. host \in Addrs /\ dial'.answer = <<host>> /\ dial'.left = <<Unmap(host)>>
      BY <1>1, <2>1
    <3> QED BY <1>1, <2>1, <3>1 DEF DialSound
  <2>2. CASE at # "connect"
    BY <1>1, <2>2 DEF DialSound
  <2> QED BY <2>1, <2>2
<1>4. guards' = guards
  BY DEF DialContext
<1> QED BY <1>1, <1>2, <1>3, <1>4, GuardsStay DEF GuardInv

LEMMA ResolveSound ==
    ASSUME GuardInv, Resolve
    PROVE  /\ GuardInv'
           /\ dial'.pc # "open" /\ dial'.path = dial.path /\ dial'.host = dial.host /\ dial'.port = dial.port
<1>1. guards' = guards /\ dial.pc = "resolve" /\ dial \in Dials
  BY DEF Resolve, GuardInv
<1>2. CASE dial' = [dial EXCEPT !.pc = "failed"]
  <2>1. dial' \in Dials /\ dial'.pc = "failed"
    BY <1>1, <1>2 DEF Dials
  <2>2. DialSound(dial')
    BY <2>1 DEF DialSound
  <2> QED BY <1>1, <1>2, <2>1, <2>2, GuardsStay DEF GuardInv, Dials
<1>3. ASSUME NEW answer \in Answers, AnswerAllowed(Effective(dial.path), answer),
             dial' = [dial EXCEPT !.pc = "connect", !.answer = answer, !.left = Plain(answer)]
      PROVE  /\ GuardInv'
             /\ dial'.pc # "open" /\ dial'.path = dial.path /\ dial'.host = dial.host /\ dial'.port = dial.port
  <2>1. answer \in Seq(Addrs) /\ answer # <<>>
    BY <1>3, GuardAssumption DEF AnswerAllowed
  <2>2. Len(answer) \in Nat /\ \A k \in 1..Len(answer) : answer[k] \in Addrs
    BY <2>1
  <2>3. Plain(answer) \in Seq(Addrs) /\ Len(Plain(answer)) = Len(answer)
    BY <2>2, UnmapTyped DEF Plain
  <2>4. \A k \in 1..Len(answer) : Plain(answer)[k] = Unmap(answer[k])
    BY <2>2 DEF Plain
  <2>5. Len(answer) # 0
    BY <2>1
  <2>6. /\ dial' \in Dials /\ dial'.pc = "connect" /\ dial'.answer = answer /\ dial'.left = Plain(answer)
        /\ dial'.path = dial.path /\ dial'.host = dial.host /\ dial'.port = dial.port
    BY <1>1, <1>3, <2>1, <2>3 DEF Dials
  <2>7. ValidateHost(Effective(dial.path), dial.host, dial.port)
    BY <1>1 DEF GuardInv, DialSound
  <2>8. \A k \in 1..Len(answer) : ValidateAddr(Effective(dial.path), answer[k])
    BY <1>3 DEF AnswerAllowed
  <2>9. Plain(answer) # <<>>
    BY <2>3, <2>5
  <2>10. DialSound(dial')
    BY <2>3, <2>4, <2>6, <2>7, <2>8, <2>9 DEF DialSound
  <2> QED BY <1>1, <2>6, <2>10, GuardsStay DEF GuardInv
<1> QED BY <1>2, <1>3 DEF Resolve

LEMMA ConnectSound ==
    ASSUME GuardInv, Connect
    PROVE  GuardInv' /\ dial'.path = dial.path /\ dial'.host = dial.host /\ dial'.port = dial.port
<1>1. guards' = guards /\ dial.pc = "connect" /\ dial \in Dials
  BY DEF Connect, GuardInv
<1>2. /\ dial.left \in Seq(Addrs) /\ dial.left # <<>>
      /\ \A j \in 1..Len(dial.left) : \E k \in 1..Len(dial.answer) : dial.left[j] = Unmap(dial.answer[k])
      /\ ValidateHost(Effective(dial.path), dial.host, dial.port)
      /\ \A k \in 1..Len(dial.answer) : ValidateAddr(Effective(dial.path), dial.answer[k])
  BY <1>1 DEF GuardInv, DialSound, Dials
<1>3. CASE dial' = [dial EXCEPT !.pc = "open", !.to = Head(dial.left)]
  <2>1. Head(dial.left) = dial.left[1] /\ 1 \in 1..Len(dial.left) /\ dial.left[1] \in Addrs
    BY <1>2
  <2>2. /\ dial' \in Dials /\ dial'.pc = "open" /\ dial'.to = dial.left[1] /\ dial'.answer = dial.answer
        /\ dial'.path = dial.path /\ dial'.host = dial.host /\ dial'.port = dial.port
    BY <1>1, <1>3, <2>1 DEF Dials
  <2>3. DialSound(dial')
    BY <1>2, <2>1, <2>2 DEF DialSound
  <2> QED BY <1>1, <2>2, <2>3, GuardsStay DEF GuardInv
<1>4. CASE Len(dial.left) > 1 /\ dial' = [dial EXCEPT !.left = Tail(dial.left)]
  <2>1. /\ Tail(dial.left) \in Seq(Addrs) /\ Tail(dial.left) # <<>>
        /\ Len(Tail(dial.left)) = Len(dial.left) - 1
        /\ \A j \in 1..Len(dial.left) - 1 : Tail(dial.left)[j] = dial.left[j + 1]
    BY <1>2, <1>4
  <2>2. /\ dial' \in Dials /\ dial'.pc = "connect" /\ dial'.left = Tail(dial.left) /\ dial'.answer = dial.answer
        /\ dial'.path = dial.path /\ dial'.host = dial.host /\ dial'.port = dial.port
    BY <1>1, <1>4, <2>1 DEF Dials
  <2>3. \A j \in 1..Len(dial'.left) : \E k \in 1..Len(dial.answer) : dial'.left[j] = Unmap(dial.answer[k])
    <3> TAKE j \in 1..Len(dial'.left)
    <3>1. Len(dial.left) \in Nat /\ j + 1 \in 1..Len(dial.left)
      BY <1>2, <2>1, <2>2
    <3> QED BY <1>2, <2>1, <2>2, <3>1
  <2>4. DialSound(dial')
    BY <1>2, <2>1, <2>2, <2>3 DEF DialSound
  <2> QED BY <1>1, <2>2, <2>4, GuardsStay DEF GuardInv
<1>5. CASE dial' = [dial EXCEPT !.pc = "failed"]
  <2>1. /\ dial' \in Dials /\ dial'.pc = "failed"
        /\ dial'.path = dial.path /\ dial'.host = dial.host /\ dial'.port = dial.port
    BY <1>1, <1>5 DEF Dials
  <2>2. DialSound(dial')
    BY <2>1 DEF DialSound
  <2> QED BY <1>1, <2>1, <2>2, GuardsStay DEF GuardInv
<1> QED BY <1>3, <1>4, <1>5 DEF Connect

LEMMA IdleAgain == ASSUME GuardInv, guards' = guards, dial' = Idle PROVE GuardInv'
BY IdleSound, GuardsStay DEF GuardInv

LEMMA InitGuard == GuardInit => GuardInv
<1> SUFFICES ASSUME GuardInit PROVE GuardInv
  OBVIOUS
<1>1. PICK c \in Policies : Starts(c) /\ guards = Started(c)
  BY DEF GuardInit
<1>2. guards.base.mode = c.policy /\ c.policy \in Modes
  BY <1>1 DEF Starts, Started, ValidPolicy, New
<1>3. CASE c.adhoc = ""
  BY <1>1, <1>2, <1>3, IdleSound DEF Started, GuardsOK, GuardInit, GuardInv
<1>4. CASE c.adhoc # ""
  <2>1. guards.adhoc.mode = c.adhoc /\ c.adhoc \in Modes
    BY <1>1, <1>4 DEF Starts, Started, ValidPolicy, New
  <2> QED BY <1>2, <2>1, IdleSound DEF GuardsOK, GuardInit, GuardInv
<1> QED BY <1>3, <1>4

LEMMA NextGuard == ASSUME GuardInv, [GuardNext]_guardVars PROVE GuardInv'
<1>1. CASE Close
  BY <1>1, IdleAgain DEF Close
<1>2. CASE UNCHANGED guardVars
  BY <1>2 DEF guardVars, GuardInv, GuardsOK, DialSound, Effective
<1> QED BY <1>1, <1>2, DialContextSound, ResolveSound, ConnectSound DEF GuardNext

LEMMA GuardInvVets == GuardInv => DialsOnlyVetted
<1> SUFFICES ASSUME GuardInv, dial.pc \in {"connect", "open"}
             PROVE  /\ \A k \in 1..Len(dial.answer) : Vetted(dial.path, dial.host, dial.port, dial.answer[k])
                    /\ dial.pc = "open" => \E k \in 1..Len(dial.answer) : dial.to = Unmap(dial.answer[k])
  BY DEF DialsOnlyVetted
<1>1. \A k \in 1..Len(dial.answer) : dial.answer[k] \in Addrs
  BY DEF GuardInv, Dials
<1> QED BY <1>1, AllowedIsVetted DEF GuardInv, DialSound

\* Whatever the resolver answers, and however its answers change, a guarded
\* dial reaches an address of an answer that the policy of its path allows.
THEOREM GuardVetsDials == GuardSpec => []DialsOnlyVetted
<1>1. GuardInv /\ [GuardNext]_guardVars => GuardInv'
  BY NextGuard
<1> QED BY <1>1, InitGuard, GuardInvVets, PTL DEF GuardSpec

-----------------------------------------------------------------------------
(* The listing, and the limits.                                              *)

Fixed == job \in Jobs /\ api \in Apis

LEMMA JobTyped ==
    ASSUME Fixed
    PROVE  /\ job.kind \in {"rest", "graphql"} /\ job.size \in Nat \ {0} /\ job.limit \in Nat \ {0}
           /\ job.pages \in Nat /\ job.guardrail \in Int /\ job.redirects \in Int
           /\ job.strategy \in {"none", "offset", "page", "cursor", "linkHeader", "graphqlRelay"}
           /\ job.auth \in {"static", "digest", "exchange", "unknown"}
           /\ job.path \in {"saved", "adhoc"} /\ job.host \in Targets
           /\ api.length \in Nat /\ api.cap \in Nat \ {0} /\ api.endless \in {"yes", "no"}
<1> DEFINE JobSet ==
        [kind : {"rest", "graphql"}, size : Nat \ {0}, limit : Nat \ {0}, pages : Nat, guardrail : Int,
         strategy : {"none", "offset", "page", "cursor", "linkHeader", "graphqlRelay"}, redirects : Int,
         auth : {"static", "digest", "exchange", "unknown"}, path : {"saved", "adhoc"}, host : Targets]
<1>1. job \in JobSet
  BY FetchAssumption DEF Fixed
<1>2. api \in [length : Nat, cap : Nat \ {0}, endless : {"yes", "no"}]
  BY FetchAssumption DEF Fixed
<1> QED BY <1>1, <1>2

LEMMA LimitsTyped ==
    ASSUME Fixed
    PROVE  MaxPages \in Nat \ {0} /\ MaxRedirects \in Int /\ Served \in Nat \ {0}
BY JobTyped, FetchAssumption DEF MaxPages, MaxRedirects, Served, Least, Numbered

\* The position a page number stands for.
LEMMA PageStarts ==
    \A at \in Nat, n \in Nat \ {0} : at * n \in Nat /\ (at + 1) * n = at * n + n
OBVIOUS

\* A page lies in the listing, and is empty only where it ends.
LEMMA PageInListing ==
    ASSUME Fixed, NEW at \in Nat
    PROVE  /\ First(at) \in Nat /\ Beyond(at) \in Nat /\ First(at) <= Beyond(at)
           /\ ~NoEnd => Beyond(at) <= api.length
           /\ First(at) = Beyond(at) => ~NoEnd /\ Beyond(at) = api.length
<1>1. /\ api.length \in Nat /\ Served \in Nat \ {0} /\ at * Served \in Nat
      /\ job.strategy \in {"none", "offset", "page", "cursor", "linkHeader", "graphqlRelay"}
  BY JobTyped, LimitsTyped, PageStarts
<1> QED BY <1>1 DEF First, Beyond, NoEnd, Least

\* A paginator that names a next page names the one where this page ends.
LEMMA AdvanceIsBeyond ==
    ASSUME Fixed, req.at \in Nat, page.from = First(req.at), page.upto = Beyond(req.at), HasNext(page)
    PROVE  Advance(page) \in Nat /\ First(Advance(page)) = page.upto
<1>1. /\ api.length \in Nat /\ Served \in Nat \ {0} /\ job.size \in Nat \ {0}
      /\ req.at * Served \in Nat /\ (req.at + 1) * Served = req.at * Served + Served
      /\ job.strategy = "offset" => Served <= job.size
  BY JobTyped, LimitsTyped, PageStarts DEF Served, Least, Numbered
<1>2. /\ First(req.at) \in Nat /\ Beyond(req.at) \in Nat /\ First(req.at) <= Beyond(req.at)
      /\ ~NoEnd => Beyond(req.at) <= api.length
  BY PageInListing
<1>3. CASE job.strategy = "offset"
  <2>1. page.upto - page.from >= job.size
    BY <1>1, <1>2, <1>3 DEF HasNext, OffsetHasNext, Items
  <2>2. Advance(page) = req.at + job.size /\ ~NoEnd
    BY <1>3 DEF Advance, OffsetAdvance, NoEnd
  <2> QED BY <1>1, <1>3, <2>1, <2>2 DEF First, Beyond, Least
<1>4. CASE job.strategy = "page"
  <2>1. page.upto # page.from
    BY <1>1, <1>2, <1>4 DEF HasNext, PageHasNext, Items
  <2>2. Advance(page) = req.at + 1 /\ ~NoEnd
    BY <1>4 DEF Advance, PageAdvance, NoEnd
  <2> QED BY <1>1, <1>4, <2>1, <2>2 DEF First, Beyond, Least
<1>5. CASE job.strategy \in {"cursor", "linkHeader", "graphqlRelay"}
  <2>1. Advance(page) = page.upto
    BY <1>5 DEF Advance, CursorAdvance
  <2> QED BY <1>1, <1>2, <1>5, <2>1 DEF First, Least
<1> QED BY <1>3, <1>4, <1>5 DEF HasNext

\* A usable page after which a paginator names none is where the listing ends,
\* unless the upstream has cut an offset page short.
LEMMA LastIsEnd ==
    ASSUME Fixed, req.at \in Nat, page.from = First(req.at), page.upto = Beyond(req.at),
           Usable(page), page.body = "empty" => page.from = page.upto,
           ~HasNext(page), ~Shortchanged
    PROVE  page.upto = api.length /\ ~NoEnd
<1>1. /\ api.length \in Nat /\ Served \in Nat \ {0} /\ job.size \in Nat \ {0} /\ api.cap \in Nat
      /\ req.at * Served \in Nat
      /\ job.strategy \in {"none", "offset", "page", "cursor", "linkHeader", "graphqlRelay"}
  BY JobTyped, LimitsTyped, PageStarts
<1>2. /\ First(req.at) \in Nat /\ Beyond(req.at) \in Nat /\ First(req.at) <= Beyond(req.at)
      /\ ~NoEnd => Beyond(req.at) <= api.length
      /\ First(req.at) = Beyond(req.at) => ~NoEnd /\ Beyond(req.at) = api.length
  BY PageInListing
<1>3. CASE page.body = "empty"
  BY <1>2, <1>3
<1>4. CASE page.body # "empty"
  <2>1. Decoded(page)
    BY <1>4 DEF Usable, Decoded
  <2>2. CASE job.strategy = "offset"
    <3>1. Served = job.size
      BY <1>1, <2>2 DEF Served, Numbered, Least, Shortchanged
    <3>2. page.upto = page.from \/ page.upto - page.from < job.size
      BY <1>1, <1>2, <2>1, <2>2 DEF HasNext, OffsetHasNext, Items
    <3>3. ~NoEnd
      BY <2>2 DEF NoEnd
    <3>4. page.upto = Least(page.from + Served, api.length)
      BY <2>2, <3>3 DEF Beyond
    <3> QED BY <1>1, <1>2, <3>1, <3>2, <3>3, <3>4 DEF Least
  <2>3. CASE job.strategy = "page"
    <3>1. page.upto = page.from
      BY <1>1, <1>2, <2>1, <2>3 DEF HasNext, PageHasNext, Items
    <3> QED BY <1>2, <3>1
  <2>4. CASE job.strategy \in {"cursor", "linkHeader", "graphqlRelay"}
    <3>1. ~NoEnd /\ ~(page.upto < api.length)
      BY <2>1, <2>4 DEF HasNext, CursorHasNext, LinkHasNext, RelayHasNext, NamesNext
    <3> QED BY <1>1, <1>2, <3>1
  <2>5. CASE job.strategy = "none"
    BY <2>5 DEF Beyond, NoEnd
  <2> QED BY <1>1, <2>2, <2>3, <2>4, <2>5
<1> QED BY <1>3, <1>4

-----------------------------------------------------------------------------
(* The inductive invariant.                                                  *)

\* A page is asked for.
Pending == {"begin", "auth", "exchange", "send", "dialing", "reply", "wait"}

\* Its next request is not under way.
Asking == pc \in {"begin", "auth", "exchange", "send", "dialing"}

DialInv ==
    /\ GuardInv
    /\ pc = "dialing" => dial.path = job.path /\ dial.host \in Targets \cup {TokenHost} /\ dial.port = "https"

\* The exchanges of this page before the one under way, at most; and what the
\* transport may make of so many.
Earlier ==
    IF job.auth = "digest" THEN 2 * (MaxAttempts * hops + tries - 1) + (IF answered = "yes" THEN 1 ELSE 0)
    ELSE MaxAttempts * hops + tries - 1

Sends(k) == (1 + TransportResends) * k

\* Each earlier exchange has sent what it may, and this one what it has.
SentInv ==
    /\ hops = 0 \/ hops < MaxRedirects
    /\ job.auth # "digest" => answered = "no"
    /\ sent <= Sends(Earlier) + resent + (IF Asking THEN 0 ELSE 1)

\* What has been gathered is the listing up to the page asked for, and then up
\* to the page read, for as long as the pages can be used.
PageInv ==
    /\ pc \in Pending => count < MaxPages /\ (sound = "yes" => First(req.at) = gathered)
    /\ sound = "yes" => gathered = page.upto
    /\ ~NoEnd => gathered <= api.length
    /\ pc = "next" =>
        /\ page.from = First(req.at) /\ page.upto = Beyond(req.at)
        /\ sound = "yes" => Usable(page)
        /\ page.body = "empty" => page.from = page.upto
    /\ pc \in Pending \cup {"next"} => flags = {}
    /\ pc = "frame" /\ sound = "yes" /\ flags = {} /\ ~Shortchanged => gathered = api.length /\ ~NoEnd

\* Only an attempt that is not the last is waited after.
WaitInv == pc = "wait" => tries < MaxAttempts

Inv == Fixed /\ TypeOK /\ DialInv /\ ConnectionsVetted /\ SentInv /\ WaitInv /\ PageInv

LEMMA FixedStep == ASSUME [Next]_vars PROVE job' = job /\ api' = api /\ guards' = guards
BY DEF Next, vars, fixed, guardVars, Begin, Authenticate, ExchangeToken, Send, Dialing, Dialed, DialFailed,
       Breaks, Resend, Challenged, Waited, Busy, Redirected, GivesUp, ReadPage, NextPage, LastPage, Execute,
       DialContext, Resolve, Connect, Close

LEMMA LimitsStay ==
    ASSUME job' = job, api' = api
    PROVE  /\ MaxPages' = MaxPages /\ MaxRedirects' = MaxRedirects
           /\ NoEnd' = NoEnd /\ Shortchanged' = Shortchanged /\ Served' = Served
BY DEF MaxPages, MaxRedirects, NoEnd, Shortchanged, Served, Numbered, Least

LEMMA PositionsStay ==
    ASSUME job' = job, api' = api
    PROVE  First(req.at)' = First(req'.at) /\ Beyond(req.at)' = Beyond(req'.at)
BY LimitsStay DEF First, Beyond, Least

LEMMA UsableStay == ASSUME job' = job PROVE Usable(page)' = Usable(page')
BY DEF Usable

-----------------------------------------------------------------------------
(* The pages.                                                                *)

LEMMA PagesStay ==
    ASSUME PageInv, job' = job, api' = api, req'.at = req.at, UNCHANGED readVars, flags' = flags,
           pc \in Pending, pc' \in Pending \cup {"failed"}
    PROVE  PageInv'
BY LimitsStay, PositionsStay DEF PageInv, Pending, readVars

LEMMA ReadPagePages == ASSUME Inv, ReadPage PROVE PageInv'
<1>1. /\ job' = job /\ api' = api /\ req' = req /\ flags' = flags /\ count' = count + 1
      /\ pc = "reply" /\ pc' = IF job.strategy = "none" THEN "frame" ELSE "next"
  BY DEF ReadPage, Replies, fixed, resultVars
<1>2. PICK body \in Bodies : page' = [from |-> First(req.at), upto |-> Beyond(req.at), body |-> body]
  BY DEF ReadPage
<1>3. /\ gathered' = IF sound = "yes" /\ Usable(page') THEN gathered + Items(page') ELSE gathered
      /\ sound' = IF sound = "yes" /\ Usable(page') THEN "yes" ELSE "no"
  BY DEF ReadPage, Gather
<1>4. /\ req.at \in Nat /\ gathered \in Nat /\ api.length \in Nat
      /\ First(req.at) \in Nat /\ Beyond(req.at) \in Nat /\ First(req.at) <= Beyond(req.at)
      /\ ~NoEnd => Beyond(req.at) <= api.length
  <2>1. req.at \in Nat /\ gathered \in Nat
    BY DEF Inv, TypeOK
  <2> QED BY <2>1, PageInListing, JobTyped DEF Inv
<1>5. body = "empty" => First(req.at) = Beyond(req.at)
  BY DEF Bodies
<1>6. /\ page'.from = First(req.at) /\ page'.upto = Beyond(req.at) /\ page'.body = body
  BY <1>2
<1>7. sound' = "yes" => gathered' = page'.upto
  <2> SUFFICES ASSUME sound' = "yes" PROVE gathered' = page'.upto
    OBVIOUS
  <2>1. sound = "yes" /\ Usable(page') /\ gathered' = gathered + Items(page')
    BY <1>3
  <2>2. gathered = First(req.at)
    BY <1>1, <2>1 DEF Inv, PageInv, Pending
  <2>3. Items(page') = page'.upto - page'.from
    BY <1>4, <1>5, <1>6, <2>1 DEF Items, Decoded, Usable
  <2> QED BY <1>4, <1>6, <2>1, <2>2, <2>3
<1>8. ~NoEnd => gathered' <= api.length
  BY <1>3, <1>4, <1>6, <1>7 DEF Inv, PageInv
<1>9. pc' = "frame" => Beyond(req.at) = api.length /\ ~NoEnd
  BY <1>1 DEF Beyond, NoEnd
<1>10. /\ First(req.at)' = First(req.at) /\ Beyond(req.at)' = Beyond(req.at)
       /\ Usable(page)' = Usable(page') /\ NoEnd' = NoEnd
  BY <1>1, PositionsStay, UsableStay, LimitsStay
<1>11. sound' = "yes" => Usable(page')
  BY <1>3
<1>12. flags' = {}
  BY <1>1 DEF Inv, PageInv, Pending
<1> QED BY <1>1, <1>5, <1>6, <1>7, <1>8, <1>9, <1>10, <1>11, <1>12 DEF PageInv, Pending

LEMMA NextPagePages == ASSUME Inv, NextPage PROVE PageInv' /\ req'.at \in Nat
<1>1. /\ job' = job /\ api' = api /\ flags' = flags /\ UNCHANGED readVars
      /\ pc = "next" /\ pc' = "auth" /\ HasNext(page) /\ count < MaxPages
  BY DEF NextPage, fixed, resultVars
<1>2. req'.at = Advance(page)
  BY DEF NextPage, Start
<1>3. req.at \in Nat
  BY DEF Inv, TypeOK
<1>4. Advance(page) \in Nat /\ First(Advance(page)) = page.upto
  BY <1>1, <1>3, AdvanceIsBeyond DEF Inv, PageInv
<1>5. First(req.at)' = page.upto
  BY <1>1, <1>2, <1>4, PositionsStay
<1> QED BY <1>1, <1>2, <1>4, <1>5, LimitsStay DEF Inv, PageInv, Pending, readVars

LEMMA LastPagePages == ASSUME Inv, LastPage PROVE PageInv'
<1>1. /\ job' = job /\ api' = api /\ req' = req /\ UNCHANGED readVars /\ pc = "next"
      /\ pc' \in {"frame", "failed"}
  BY DEF LastPage, fixed, Fail
<1>2. req.at \in Nat /\ flags = {}
  BY <1>1 DEF Inv, TypeOK, PageInv
<1>3. ASSUME pc' = "frame", sound = "yes", flags' = {}, ~Shortchanged
      PROVE  gathered = api.length /\ ~NoEnd
  <2>1. Usable(page)
    BY <1>1, <1>3 DEF Inv, PageInv
  <2>2. ~HasNext(page)
    BY <1>3, <2>1 DEF LastPage, Usable, Fail
  <2>3. page.upto = api.length /\ ~NoEnd
    BY <1>1, <1>2, <1>3, <2>1, <2>2, LastIsEnd DEF Inv, PageInv
  <2> QED BY <1>3, <2>3 DEF Inv, PageInv
<1> QED BY <1>1, <1>3, LimitsStay DEF Inv, PageInv, Pending, readVars

LEMMA NextPages == ASSUME Inv, [Next]_vars PROVE PageInv'
<1>1. job' = job /\ api' = api
  BY FixedStep
<1>2. CASE Begin \/ Authenticate \/ ExchangeToken \/ Send \/ Dialing \/ Dialed \/ DialFailed
  <2>1. /\ pc \in Pending /\ pc' \in Pending \cup {"failed"} /\ req' = req /\ UNCHANGED readVars
        /\ flags' = flags
    BY <1>2 DEF Begin, Authenticate, ExchangeToken, Send, Dialing, Dialed, DialFailed, Fail, Troubled,
                Pending, resultVars
  <2> QED BY <1>1, <2>1, PagesStay DEF Inv
<1>3. CASE Breaks \/ Resend \/ Challenged \/ Waited \/ Busy \/ GivesUp
  <2>1. /\ pc \in Pending /\ pc' \in Pending \cup {"failed"} /\ req' = req /\ UNCHANGED readVars
        /\ flags' = flags
    BY <1>3 DEF Breaks, Resend, Challenged, Waited, Busy, GivesUp, Replies, Fail, Troubled, Pending,
                resultVars
  <2> QED BY <1>1, <2>1, PagesStay DEF Inv
<1>4. CASE Redirected
  <2>1. /\ pc \in Pending /\ pc' \in Pending \cup {"failed"} /\ UNCHANGED readVars /\ flags' = flags
    BY <1>4 DEF Redirected, Replies, Fail, Pending, resultVars
  <2>2. req'.at = req.at
    BY <1>4 DEF Redirected, Rewritten, Inv, TypeOK
  <2> QED BY <1>1, <2>1, <2>2, PagesStay DEF Inv
<1>5. CASE Execute
  BY <1>1, <1>5, LimitsStay DEF Execute, Fail, Inv, PageInv, Pending, readVars
<1>6. CASE UNCHANGED vars
  <2>1. UNCHANGED <<job, api, req, pc, readVars, flags, page, gathered, sound, count>>
    BY <1>6 DEF vars, readVars, resultVars
  <2> QED BY <2>1, LimitsStay, PositionsStay, UsableStay DEF Inv, PageInv
<1> QED BY <1>2, <1>3, <1>4, <1>5, <1>6, ReadPagePages, NextPagePages, LastPagePages DEF Next

-----------------------------------------------------------------------------
(* The dials, and what they leave behind.                                    *)

LEMMA HostsTyped == Targets \cup {TokenHost} \subseteq Hosts /\ TokenHost \notin Targets /\ "https" \in Ports
BY FetchAssumption, GuardAssumption

\* A dial for a query starts for its path, and for a host of it.
LEMMA QueryDials ==
    ASSUME Fixed, GuardInv, NEW host \in Targets \cup {TokenHost}, job' = job,
           DialContext("tcp", host, "https", job.path)
    PROVE  DialInv'
<1>1. job.path \in {"saved", "adhoc"} /\ host \in Hosts /\ "https" \in Ports
  BY JobTyped, HostsTyped
<1>2. GuardInv' /\ dial'.path = job.path /\ dial'.host = host /\ dial'.port = "https"
  BY <1>1, DialContextSound
<1> QED BY <1>2 DEF DialInv

LEMMA NextDial == ASSUME Inv, [Next]_vars PROVE DialInv'
<1>1. job' = job /\ guards' = guards /\ GuardInv
  BY FixedStep DEF Inv, DialInv
<1>2. CASE dial' = dial /\ pc' # "dialing"
  BY <1>1, <1>2, GuardsStay DEF DialInv, GuardInv
<1>3. CASE dial' = Idle /\ pc' # "dialing"
  BY <1>1, <1>3, IdleAgain DEF DialInv
<1>4. CASE Authenticate
  <2>1. CASE pc' = "send" /\ UNCHANGED guardVars
    BY <1>2, <2>1 DEF guardVars
  <2>2. CASE DialContext("tcp", TokenHost, "https", job.path)
    BY <1>1, <2>2, QueryDials DEF Inv
  <2>3. CASE pc' = "exchange" /\ UNCHANGED guardVars
    BY <1>2, <2>3 DEF guardVars
  <2> QED BY <1>4, <2>1, <2>2, <2>3 DEF Authenticate
<1>5. CASE Send
  <2>1. CASE pc' = "reply" /\ UNCHANGED guardVars
    BY <1>2, <2>1 DEF guardVars
  <2>2. CASE DialContext("tcp", req.host, "https", job.path)
    <3>1. req.host \in Targets
      BY DEF Inv, TypeOK
    <3> QED BY <1>1, <2>2, <3>1, QueryDials DEF Inv
  <2> QED BY <1>5, <2>1, <2>2 DEF Send
<1>6. CASE Dialing
  <2>1. pc = "dialing" /\ pc' = pc /\ (Resolve \/ Connect)
    BY <1>6 DEF Dialing
  <2>2. GuardInv' /\ dial'.path = dial.path /\ dial'.host = dial.host /\ dial'.port = dial.port
    BY <1>1, <2>1, ResolveSound, ConnectSound
  <2> QED BY <1>1, <2>1, <2>2 DEF Inv, DialInv
<1>7. CASE Dialed \/ DialFailed \/ GivesUp
  BY <1>3, <1>7 DEF Dialed, DialFailed, GivesUp, Close, Fail, Troubled
<1>8. CASE Begin \/ ExchangeToken \/ Breaks \/ Resend \/ Challenged \/ Waited \/ Busy \/ Redirected
  BY <1>2, <1>8 DEF Begin, ExchangeToken, Breaks, Resend, Challenged, Waited, Busy, Redirected, Fail, Troubled,
                    guardVars
<1>9. CASE ReadPage \/ NextPage \/ LastPage \/ Execute
  BY <1>2, <1>9 DEF ReadPage, NextPage, LastPage, Execute, Fail, guardVars
<1>10. CASE UNCHANGED vars
  <2>1. dial' = dial /\ pc' = pc
    BY <1>10 DEF vars
  <2> QED BY <1>1, <2>1, GuardsStay DEF Inv, DialInv, GuardInv
<1> QED BY <1>4, <1>5, <1>6, <1>7, <1>8, <1>9, <1>10 DEF Next

LEMMA NextConnections == ASSUME Inv, [Next]_vars PROVE ConnectionsVetted'
<1>1. job' = job /\ guards' = guards
  BY FixedStep
<1>2. ASSUME NEW h \in Targets \cup {TokenHost}, conns'[h] # NoAddr,
             Vetted(job.path, h, "https", conns'[h])
      PROVE  Vetted(job.path, h, "https", conns[h])'
  BY <1>1, <1>2 DEF Vetted, InForce
<1>3. conns \in [Targets \cup {TokenHost} -> Addrs \cup {NoAddr}]
  BY DEF Inv, TypeOK
<1>4. CASE conns' = conns
  BY <1>2, <1>4 DEF Inv, ConnectionsVetted
<1>5. CASE Dialed
  <2>1. /\ dial.pc = "open" /\ pc = "dialing" /\ conns' = [conns EXCEPT ![dial.host] = dial.to]
    BY <1>5 DEF Dialed
  <2>2. /\ dial.path = job.path /\ dial.host \in Targets \cup {TokenHost} /\ dial.port = "https"
        /\ dial.answer \in Seq(Addrs)
    BY <2>1 DEF Inv, DialInv, GuardInv, Dials
  <2>3. PICK k \in 1..Len(dial.answer) : dial.to = Unmap(dial.answer[k])
    BY <2>1 DEF Inv, DialInv, GuardInv, DialSound
  <2>4. Vetted(dial.path, dial.host, dial.port, dial.answer[k])
    BY <2>1, GuardInvVets DEF Inv, DialInv, DialsOnlyVetted
  <2>5. Vetted(job.path, dial.host, "https", dial.to)
    BY <2>2, <2>3, <2>4, UnmapVetted
  <2>6. \A h \in Targets \cup {TokenHost} : conns'[h] # NoAddr => Vetted(job.path, h, "https", conns'[h])
    BY <1>3, <2>1, <2>2, <2>5 DEF Inv, ConnectionsVetted
  <2> QED BY <1>2, <2>6 DEF ConnectionsVetted
<1>6. CASE Breaks \/ Resend
  <2>1. conns' \in {conns, [conns EXCEPT ![req.host] = NoAddr]}
    BY <1>6 DEF Breaks, Resend
  <2>2. \A h \in Targets \cup {TokenHost} : conns'[h] # NoAddr => Vetted(job.path, h, "https", conns'[h])
    BY <1>3, <2>1 DEF Inv, ConnectionsVetted
  <2> QED BY <1>2, <2>2 DEF ConnectionsVetted
<1>7. ~Dialed /\ ~Breaks /\ ~Resend => conns' = conns
  BY DEF Next, vars, Begin, Authenticate, ExchangeToken, Send, Dialing, DialFailed, Challenged, Waited, Busy,
         Redirected, GivesUp, ReadPage, NextPage, LastPage, Execute
<1> QED BY <1>4, <1>5, <1>6, <1>7

-----------------------------------------------------------------------------
(* The requests.                                                             *)

LEMMA Attempts ==
    \A h \in Nat : /\ MaxAttempts * h \in Nat /\ MaxAttempts * (h + 1) = MaxAttempts * h + MaxAttempts
                   /\ MaxAttempts * 0 = 0
BY FetchAssumption

LEMMA SendsOf ==
    /\ Sends(0) = 0
    /\ \A k \in Int : Sends(k) \in Int /\ Sends(k + 1) = Sends(k) + 1 + TransportResends
    /\ \A j, k \in Int : j <= k => Sends(j) <= Sends(k)
<1>1. TransportResends \in Nat
  BY FetchAssumption
<1>2. Sends(0) = 0
  BY <1>1 DEF Sends
<1>3. \A k \in Int : Sends(k) \in Int /\ Sends(k + 1) = Sends(k) + 1 + TransportResends
  BY <1>1 DEF Sends
<1>4. ASSUME NEW j \in Int, NEW k \in Int, j <= k PROVE Sends(j) <= Sends(k)
  <2>1. /\ Sends(k) = Sends(j) + (1 + TransportResends) * (k - j)
        /\ (1 + TransportResends) * (k - j) >= 0
    BY <1>1, <1>4 DEF Sends
  <2> QED BY <1>1, <1>3, <1>4, <2>1
<1> QED BY <1>2, <1>3, <1>4

LEMMA SentTyped ==
    ASSUME Inv
    PROVE  /\ hops \in Nat /\ tries \in 1..MaxAttempts /\ sent \in Nat /\ answered \in {"yes", "no"}
           /\ MaxAttempts \in Nat /\ MaxAttempts * hops \in Nat
           /\ MaxAttempts * (hops + 1) = MaxAttempts * hops + MaxAttempts /\ MaxAttempts * 0 = 0
           /\ resent \in 0..TransportResends /\ TransportResends \in Nat
           /\ Earlier \in Nat /\ Sends(Earlier) \in Int
<1>1. /\ hops \in Nat /\ tries \in 1..MaxAttempts /\ sent \in Nat /\ answered \in {"yes", "no"}
      /\ MaxAttempts \in Nat /\ MaxAttempts * hops \in Nat
      /\ MaxAttempts * (hops + 1) = MaxAttempts * hops + MaxAttempts /\ MaxAttempts * 0 = 0
      /\ resent \in 0..TransportResends /\ TransportResends \in Nat
  BY Attempts, FetchAssumption DEF Inv, TypeOK
<1>2. Earlier \in Nat
  BY <1>1 DEF Earlier
<1> QED BY <1>1, <1>2, SendsOf

LEMMA SentStays ==
    ASSUME SentInv, Inv, job' = job, api' = api, UNCHANGED <<tries, hops, answered, resent, sent>>,
           Asking' => Asking
    PROVE  SentInv'
<1>1. Earlier' = Earlier /\ Sends(Earlier)' = Sends(Earlier)
  BY DEF Earlier, Sends
<1>2. sent <= Sends(Earlier) + resent + (IF Asking' THEN 0 ELSE 1)
  <2>1. CASE Asking'
    BY <2>1, SentTyped DEF SentInv
  <2>2. CASE ~Asking'
    BY <2>2, SentTyped DEF SentInv
  <2> QED BY <2>1, <2>2
<1> QED BY <1>1, <1>2, LimitsStay DEF SentInv

\* An exchange is over, another one is to come: what it may have sent is paid.
LEMMA SentAgain ==
    ASSUME Inv, sent' = sent, resent' = 0, Asking', Earlier' \in Int, Earlier + 1 <= Earlier'
    PROVE  sent' <= Sends(Earlier') + resent' + (IF Asking' THEN 0 ELSE 1)
<1>1. sent <= Sends(Earlier) + TransportResends + 1
  BY SentTyped DEF Inv, SentInv
<1>2. Sends(Earlier) + 1 + TransportResends <= Sends(Earlier') /\ Sends(Earlier') \in Int
  BY SentTyped, SendsOf
<1> QED BY <1>1, <1>2, SentTyped

LEMMA NextSent == ASSUME Inv, [Next]_vars PROVE SentInv'
<1>1. job' = job /\ api' = api /\ MaxRedirects' = MaxRedirects
  BY FixedStep, LimitsStay
<1>2. /\ hops \in Nat /\ tries \in 1..MaxAttempts /\ sent \in Nat /\ answered \in {"yes", "no"}
      /\ MaxAttempts \in Nat /\ MaxAttempts * hops \in Nat
      /\ MaxAttempts * (hops + 1) = MaxAttempts * hops + MaxAttempts /\ MaxAttempts * 0 = 0
      /\ resent \in 0..TransportResends /\ TransportResends \in Nat
      /\ Earlier \in Nat /\ Sends(Earlier) \in Int /\ MaxRedirects \in Int
  BY SentTyped, LimitsTyped DEF Inv
<1>3. SentInv
  BY DEF Inv
<1>4. Sends(Earlier)' = Sends(Earlier')
  BY DEF Sends
<1>5. CASE Begin \/ Authenticate \/ ExchangeToken \/ Dialing \/ DialFailed
  BY <1>1, <1>3, <1>5, SentStays
     DEF Begin, Authenticate, ExchangeToken, Dialing, DialFailed, Fail, Troubled, Asking, attemptVars
<1>6. CASE Breaks \/ Busy \/ GivesUp \/ ReadPage \/ LastPage \/ Execute
  BY <1>1, <1>3, <1>6, SentStays
     DEF Breaks, Busy, GivesUp, ReadPage, LastPage, Execute, Replies, Fail, Troubled, Asking, attemptVars
<1>7. ASSUME sent' = sent + 1, UNCHANGED <<tries, hops, answered, resent>>, Asking, ~Asking'
      PROVE  SentInv'
  <2>1. Earlier' = Earlier
    BY <1>1, <1>7 DEF Earlier
  <2> QED BY <1>1, <1>2, <1>3, <1>4, <1>7, <2>1 DEF SentInv
<1>8. CASE Send
  <2>1. CASE pc' = "reply" /\ sent' = sent + 1
    BY <1>7, <1>8, <2>1 DEF Send, Asking
  <2>2. CASE pc' = "dialing" /\ sent' = sent
    BY <1>1, <1>3, <1>8, <2>2, SentStays DEF Send, Asking
  <2> QED BY <1>8, <2>1, <2>2 DEF Send
<1>9. CASE Dialed
  <2>1. CASE pc' = "reply" /\ sent' = sent + 1
    BY <1>7, <1>9, <2>1 DEF Dialed, Asking
  <2>2. CASE pc' = "exchange" /\ sent' = sent
    BY <1>1, <1>3, <1>9, <2>2, SentStays DEF Dialed, Asking
  <2> QED BY <1>9, <2>1, <2>2 DEF Dialed
<1>10. CASE Resend
  <2>1. UNCHANGED <<tries, hops, answered, sent>> /\ resent' = resent + 1 /\ ~Asking /\ Asking'
    BY <1>10 DEF Resend, Asking
  <2>2. Earlier' = Earlier
    BY <1>1, <2>1 DEF Earlier
  <2> QED BY <1>1, <1>2, <1>3, <1>4, <2>1, <2>2 DEF SentInv
<1>11. CASE Challenged
  <2>1. /\ UNCHANGED <<tries, hops, sent>> /\ resent' = 0 /\ Asking' /\ job.auth = "digest"
        /\ answered = "no" /\ answered' = "yes"
    BY <1>11 DEF Challenged, Replies, Asking
  <2>2. Earlier' \in Int /\ Earlier + 1 <= Earlier'
    BY <1>1, <1>2, <2>1 DEF Earlier
  <2> QED BY <1>1, <1>3, <1>4, <2>1, <2>2, SentAgain DEF SentInv
<1>12. CASE Waited
  <2>1. UNCHANGED <<hops, sent>> /\ tries' = tries + 1 /\ answered' = "no" /\ resent' = 0 /\ Asking'
    BY <1>12 DEF Waited, Asking
  <2>2. Earlier' \in Int /\ Earlier + 1 <= Earlier'
    BY <1>1, <1>2, <2>1 DEF Earlier
  <2> QED BY <1>1, <1>3, <1>4, <2>1, <2>2, SentAgain DEF SentInv
<1>13. CASE Redirected
  <2>1. CASE MayRedirect /\ hops' = hops + 1 /\ tries' = 1 /\ answered' = "no" /\ resent' = 0 /\ pc' = "send"
    <3>1. sent' = sent /\ Asking'
      BY <1>13, <2>1 DEF Redirected, Replies, Asking
    <3>2. hops' < MaxRedirects
      BY <1>2, <2>1 DEF MayRedirect
    <3>3. MaxAttempts * hops' = MaxAttempts * hops + MaxAttempts
      BY <1>2, <2>1
    <3>4. Earlier' \in Int /\ Earlier + 1 <= Earlier'
      BY <1>1, <1>2, <2>1, <3>3 DEF Earlier
    <3> QED BY <1>1, <1>4, <2>1, <3>1, <3>2, <3>4, SentAgain DEF SentInv
  <2>2. CASE pc' = "failed" /\ UNCHANGED <<req, hops, tries, answered, resent>>
    BY <1>1, <1>3, <1>13, <2>2, SentStays DEF Redirected, Asking
  <2> QED BY <1>13, <2>1, <2>2 DEF Redirected, Fail
<1>14. CASE NextPage
  <2>1. tries' = 1 /\ hops' = 0 /\ answered' = "no" /\ resent' = 0 /\ sent' = 0 /\ Asking'
    BY <1>14 DEF NextPage, Asking
  <2>2. Earlier' = 0
    BY <1>1, <1>2, <2>1 DEF Earlier
  <2> QED BY <1>1, <1>4, <2>1, <2>2, SendsOf DEF SentInv
<1>15. CASE UNCHANGED vars
  BY <1>1, <1>3, <1>15, SentStays DEF vars, attemptVars, Asking
<1> QED BY <1>5, <1>6, <1>8, <1>9, <1>10, <1>11, <1>12, <1>13, <1>14, <1>15 DEF Next

LEMMA NextWait == ASSUME Inv, [Next]_vars PROVE WaitInv'
<1>1. CASE DialFailed \/ Breaks \/ Busy
  BY <1>1 DEF DialFailed, Breaks, Busy, Troubled, Fail, WaitInv, attemptVars
<1>2. CASE UNCHANGED vars
  BY <1>2 DEF vars, attemptVars, Inv, WaitInv
<1>3. pc' = "wait" => DialFailed \/ Breaks \/ Busy \/ UNCHANGED vars
  BY DEF Next, Fail, Begin, Authenticate, ExchangeToken, Send, Dialing, Dialed, Resend, Challenged, Waited,
         Redirected, GivesUp, ReadPage, NextPage, LastPage, Execute
<1> QED BY <1>1, <1>2, <1>3 DEF WaitInv

-----------------------------------------------------------------------------
(* The types.                                                                *)

LEMMA NextType == ASSUME Inv, [Next]_vars PROVE TypeOK'
<1>1. job' = job /\ api' = api /\ MaxPages' = MaxPages
  BY FixedStep, LimitsStay
<1>2. /\ job.host \in Targets /\ job.limit \in Nat \ {0}
      /\ MaxPages \in Nat \ {0} /\ MaxAttempts \in Nat \ {0} /\ TransportResends \in Nat
  BY JobTyped, LimitsTyped, FetchAssumption DEF Inv
<1>3. TypeOK
  BY DEF Inv
<1>4. CASE Begin \/ Authenticate \/ ExchangeToken
  BY <1>1, <1>3, <1>4 DEF TypeOK, Begin, Authenticate, ExchangeToken, Fail, Reasons, Ended,
                          attemptVars, readVars, resultVars
<1>5. CASE Send \/ Dialing \/ DialFailed
  <2>1. CASE Send
    BY <1>1, <1>3, <2>1 DEF TypeOK, Send, Ended, readVars, resultVars
  <2>2. CASE Dialing
    BY <1>1, <1>3, <2>2 DEF TypeOK, Dialing, Ended, attemptVars, readVars, resultVars
  <2>3. CASE DialFailed
    BY <1>1, <1>3, <2>3 DEF TypeOK, DialFailed, Troubled, Fail, Reasons, Ended,
                            attemptVars, readVars, resultVars
  <2> QED BY <1>5, <2>1, <2>2, <2>3
<1>6. CASE Dialed
  <2>1. dial.to \in Addrs \cup {NoAddr}
    BY DEF Inv, DialInv, GuardInv, Dials
  <2>2. conns' \in [Targets \cup {TokenHost} -> Addrs \cup {NoAddr}]
    BY <1>3, <1>6, <2>1 DEF TypeOK, Dialed
  <2> QED BY <1>1, <1>3, <1>6, <2>2 DEF TypeOK, Dialed, Ended, readVars, resultVars
<1>7. CASE Breaks \/ Resend
  <2>1. conns' \in [Targets \cup {TokenHost} -> Addrs \cup {NoAddr}]
    BY <1>3, <1>7 DEF TypeOK, Breaks, Resend
  <2>2. CASE Breaks
    BY <1>1, <1>3, <2>1, <2>2 DEF TypeOK, Breaks, Troubled, Fail, Reasons, Ended,
                                  attemptVars, readVars, resultVars
  <2>3. CASE Resend
    <3>1. resent' \in 0..TransportResends
      BY <1>2, <1>3, <2>3 DEF TypeOK, Resend
    <3> QED BY <1>1, <1>3, <2>1, <2>3, <3>1 DEF TypeOK, Resend, Ended, readVars, resultVars
  <2> QED BY <1>7, <2>2, <2>3
<1>8. CASE Challenged \/ Busy \/ GivesUp
  <2>1. CASE Challenged
    BY <1>1, <1>2, <1>3, <2>1 DEF TypeOK, Challenged, Replies, Ended, readVars, resultVars
  <2>2. CASE Busy \/ GivesUp
    BY <1>1, <1>3, <2>2 DEF TypeOK, Busy, GivesUp, Replies, Fail, Reasons, Ended,
                            attemptVars, readVars, resultVars
  <2> QED BY <1>8, <2>1, <2>2
<1>9. CASE Waited
  <2>1. tries < MaxAttempts
    BY <1>9 DEF Waited, Inv, WaitInv
  <2> QED BY <1>1, <1>2, <1>3, <1>9, <2>1 DEF TypeOK, Waited, Ended, readVars, resultVars
<1>10. CASE Redirected
  <2>1. req' \in [at : Nat, base : Targets, host : Targets, body : {"own", "dropped", "mismatched"}]
    BY <1>3, <1>10 DEF TypeOK, Redirected, Rewritten
  <2>2. /\ pc' \in {"send", "failed"} /\ why' \in Reasons /\ (pc' = "failed" <=> why' # "none")
        /\ tries' \in 1..MaxAttempts /\ hops' \in Nat /\ answered' \in {"yes", "no"}
        /\ resent' \in 0..TransportResends
    BY <1>2, <1>3, <1>10 DEF TypeOK, Redirected, Replies, Fail, Reasons
  <2> QED BY <1>1, <1>3, <1>10, <2>1, <2>2 DEF TypeOK, Redirected, Ended, readVars, resultVars
<1>11. CASE ReadPage
  <2>1. /\ First(req.at) \in Nat /\ Beyond(req.at) \in Nat /\ First(req.at) <= Beyond(req.at)
    BY <1>3, PageInListing DEF Inv, TypeOK
  <2>2. PICK body \in Bodies : page' = [from |-> First(req.at), upto |-> Beyond(req.at), body |-> body]
    BY <1>11 DEF ReadPage
  <2>3. body \in PageBodies
    BY DEF Bodies, PageBodies
  <2>4. page' \in [from : Nat, upto : Nat, body : PageBodies]
    BY <2>1, <2>2, <2>3
  <2>5. gathered' \in Nat /\ sound' \in {"yes", "no"}
    BY <1>3, <1>11, <2>1, <2>2 DEF ReadPage, Gather, Items, TypeOK
  <2>6. count' \in 0..MaxPages
    BY <1>2, <1>3, <1>11 DEF ReadPage, Replies, Inv, PageInv, Pending, TypeOK
  <2> QED BY <1>1, <1>3, <1>11, <2>4, <2>5, <2>6 DEF TypeOK, ReadPage, Replies, Ended, attemptVars, resultVars
<1>12. CASE NextPage
  <2>1. req'.at \in Nat
    BY <1>12, NextPagePages
  <2>2. PICK h \in (IF job.strategy = "linkHeader" THEN Targets ELSE {req.base}) :
          req' = Start(h, Advance(page))
    BY <1>12 DEF NextPage
  <2>3. h \in Targets
    BY <1>3, <2>2 DEF TypeOK
  <2>4. req' \in [at : Nat, base : Targets, host : Targets, body : {"own", "dropped", "mismatched"}]
    BY <2>1, <2>2, <2>3 DEF Start
  <2> QED BY <1>1, <1>2, <1>3, <1>12, <2>4 DEF TypeOK, NextPage, Ended, readVars, resultVars
<1>13. CASE LastPage
  BY <1>1, <1>3, <1>13 DEF TypeOK, LastPage, Fail, Reasons, Ended, attemptVars, readVars
<1>14. CASE Execute
  <2>1. Full /\ rows' = job.limit /\ flags' = flags \cup {"rows"}
          => rows' \in 0..job.limit /\ flags' \subseteq {"pages", "rows"}
    BY <1>2, <1>3 DEF TypeOK
  <2>2. ~Full /\ rows' = gathered /\ flags' = flags
          => rows' \in 0..job.limit /\ flags' \subseteq {"pages", "rows"}
    BY <1>2, <1>3 DEF TypeOK, Full
  <2>3. rows' = rows /\ flags' = flags => rows' \in 0..job.limit /\ flags' \subseteq {"pages", "rows"}
    BY <1>3 DEF TypeOK
  <2>4. rows' \in 0..job.limit /\ flags' \subseteq {"pages", "rows"}
    BY <1>14, <2>1, <2>2, <2>3 DEF Execute, resultVars
  <2>5. pc' \in Ended /\ why' \in Reasons /\ (pc' = "failed" <=> why' # "none")
    BY <1>3, <1>14 DEF TypeOK, Execute, Fail, Reasons, Ended
  <2> QED BY <1>1, <1>3, <1>14, <2>4, <2>5 DEF TypeOK, Execute, attemptVars, readVars
<1>15. CASE UNCHANGED vars
  BY <1>1, <1>3, <1>15 DEF TypeOK, vars, attemptVars, readVars, resultVars
<1> QED BY <1>4, <1>5, <1>6, <1>7, <1>8, <1>9, <1>10, <1>11, <1>12, <1>13, <1>14, <1>15 DEF Next

LEMMA InitInv == Init => Inv
<1> SUFFICES ASSUME Init PROVE Inv
  OBVIOUS
<1>1. Fixed
  BY DEF Init, Fixed
<1>2. /\ job.host \in Targets /\ job.limit \in Nat \ {0} /\ api.length \in Nat
      /\ MaxPages \in Nat \ {0} /\ MaxAttempts \in Nat \ {0} /\ TransportResends \in Nat
      /\ Served \in Nat \ {0} /\ MaxAttempts * 0 = 0 /\ 0 * Served = 0 /\ Sends(0) = 0
  BY <1>1, JobTyped, LimitsTyped, Attempts, SendsOf, FetchAssumption
<1>3. req = Start(job.host, 0) /\ page = NoPage
  BY DEF Init
<1>4. /\ req \in [at : Nat, base : Targets, host : Targets, body : {"own", "dropped", "mismatched"}]
      /\ page \in [from : Nat, upto : Nat, body : PageBodies]
      /\ conns \in [Targets \cup {TokenHost} -> Addrs \cup {NoAddr}]
  BY <1>2, <1>3 DEF Start, NoPage, PageBodies, Init
<1>5. TypeOK
  BY <1>2, <1>4 DEF Init, TypeOK, Ended, Reasons
<1>6. First(req.at) = 0
  BY <1>2, <1>3 DEF First, Least, Start
<1>7. PageInv
  BY <1>2, <1>3, <1>6 DEF Init, PageInv, NoPage, Pending
<1>8. SentInv
  BY <1>2 DEF Init, SentInv, Earlier, Asking
<1>9. DialInv
  BY InitGuard DEF Init, DialInv
<1>10. ConnectionsVetted
  BY DEF Init, ConnectionsVetted
<1> QED BY <1>1, <1>5, <1>7, <1>8, <1>9, <1>10 DEF Inv, Init, WaitInv

LEMMA NextInv == ASSUME Inv, [Next]_vars PROVE Inv'
<1>1. Fixed'
  BY FixedStep DEF Inv, Fixed
<1>2. WaitInv'
  BY NextWait
<1> QED BY <1>1, <1>2, NextType, NextDial, NextConnections, NextSent, NextPages DEF Inv

LEMMA Invariant == Spec => []Inv
<1>1. Inv /\ [Next]_vars => Inv'
  BY NextInv
<1> QED BY <1>1, InitInv, PTL DEF Spec

\* Whatever hosts, upstreams and resolvers do, the state has its type: a page
\* limit, an attempt limit and a row limit that are not exceeded among it.
THEOREM FetchTypeCorrect == Spec => []TypeOK
<1>1. Inv => TypeOK
  BY DEF Inv
<1> QED BY <1>1, Invariant, PTL

\* The dials of a query reach addresses that the policy of its path allows.
THEOREM FetchDialsVetted == Spec => []DialsOnlyVetted
<1>1. Inv => DialsOnlyVetted
  BY GuardInvVets DEF Inv, DialInv
<1> QED BY <1>1, Invariant, PTL

\* So are the connections that pages, redirects, retries and token exchanges
\* leave behind and use again.
THEOREM FetchConnectionsVetted == Spec => []ConnectionsVetted
<1>1. Inv => ConnectionsVetted
  BY DEF Inv
<1> QED BY <1>1, Invariant, PTL

LEMMA WithinBudget == Inv => RequestsBounded
<1> SUFFICES ASSUME Inv PROVE RequestsBounded
  OBVIOUS
<1> DEFINE most == (IF job.auth = "digest" THEN 2 ELSE 1) * (MaxAttempts * (hops + 1))
<1>1. most \in Nat /\ Earlier + 1 <= most
  <2>1. CASE job.auth = "digest"
    BY <2>1, SentTyped DEF Earlier
  <2>2. CASE job.auth # "digest"
    BY <2>2, SentTyped DEF Earlier
  <2> QED BY <2>1, <2>2
<1>2. sent <= Sends(Earlier + 1)
  <2>1. sent <= Sends(Earlier) + TransportResends + 1
    BY SentTyped DEF Inv, SentInv
  <2>2. Sends(Earlier + 1) = Sends(Earlier) + 1 + TransportResends
    BY SentTyped, SendsOf
  <2> QED BY <2>1, <2>2, SentTyped
<1>3. Sends(Earlier + 1) <= Sends(most) /\ Sends(most) \in Int /\ Sends(Earlier + 1) \in Int
  BY <1>1, SentTyped, SendsOf
<1>4. sent <= Sends(most)
  BY <1>2, <1>3, SentTyped
<1> QED BY <1>4 DEF RequestsBounded, Sends, Inv, SentInv

\* For any limits, the requests of a page are bounded by attempts, the digest's
\* second request, the redirects followed, and what the transport makes of an
\* exchange.
THEOREM FetchRequestsBounded == Spec => []RequestsBounded
<1> QED BY WithinBudget, Invariant, PTL

-----------------------------------------------------------------------------
(* The listing is implemented.                                               *)

LEMMA TakenIsGathered == Inv => Taken = gathered
BY DEF Inv, PageInv, Taken

LEMMA InitListing == Init => Listing!Init
<1> SUFFICES ASSUME Init PROVE Listing!Init
  OBVIOUS
<1>1. api.length \in Nat
  BY JobTyped DEF Init, Fixed
<1>2. Taken = gathered
  BY InitInv, TakenIsGathered
<1>3. Verdict = "running"
  BY DEF Init, Verdict
<1> QED BY <1>1, <1>2, <1>3 DEF Init, Listing!Init

\* A step that neither reads a page nor ends the query changes nothing of it,
\* and a failure changes nothing but its outcome.
LEMMA QuietListing ==
    ASSUME Inv, Inv', job' = job, api' = api, UNCHANGED readVars, rows' = rows,
           pc \notin Ended, pc' # "done"
    PROVE  [Listing!Next]_Listing!vars
<1>1. NoEnd' = NoEnd /\ Taken' = Taken
  BY LimitsStay DEF Taken, readVars
<1>2. Verdict = "running"
  BY DEF Verdict, Ended
<1>3. CASE pc' = "failed"
  <2>1. Verdict' = "failed"
    BY <1>3 DEF Verdict
  <2> QED BY <1>1, <1>2, <2>1 DEF Listing!Next, Listing!Fail
<1>4. CASE pc' # "failed"
  <2>1. Verdict' = "running"
    BY <1>4 DEF Verdict
  <2> QED BY <1>1, <1>2, <2>1 DEF Listing!vars
<1> QED BY <1>3, <1>4

LEMMA ReadPageListing == ASSUME Inv, Inv', ReadPage PROVE Listing!Take
<1>1. /\ job' = job /\ api' = api /\ rows' = rows /\ pc = "reply" /\ pc' \in {"frame", "next"}
  BY DEF ReadPage, Replies, fixed, resultVars
<1>2. Taken = gathered /\ Taken' = gathered'
  BY TakenIsGathered DEF Inv, PageInv, Taken
<1>3. gathered \in Nat /\ gathered' \in Nat
  BY DEF Inv, TypeOK
<1>4. NoEnd' = NoEnd /\ (~NoEnd => gathered' <= api.length)
  BY <1>1, LimitsStay DEF Inv, PageInv
<1>5. gathered' >= gathered
  <2>1. req.at \in Nat
    BY DEF Inv, TypeOK
  <2>2. First(req.at) \in Nat /\ Beyond(req.at) \in Nat /\ First(req.at) <= Beyond(req.at)
    BY <2>1, PageInListing DEF Inv
  <2>3. page'.from = First(req.at) /\ page'.upto = Beyond(req.at)
    BY DEF ReadPage
  <2>4. gathered' = gathered \/ gathered' = gathered + Items(page')
    BY DEF ReadPage, Gather
  <2>5. Items(page') \in Nat
    BY <2>2, <2>3 DEF Items
  <2> QED BY <1>3, <2>4, <2>5
<1>6. Verdict = "running" /\ Verdict' = "running"
  BY <1>1 DEF Verdict
<1> QED BY <1>1, <1>2, <1>3, <1>4, <1>5, <1>6 DEF Listing!Take

LEMMA ExecuteListing == ASSUME Inv, Inv', Execute PROVE Listing!Next
<1>1. /\ job' = job /\ api' = api /\ UNCHANGED readVars /\ pc = "frame"
      /\ NoEnd' = NoEnd /\ Shortchanged' = Shortchanged
  BY LimitsStay DEF Execute, fixed
<1>2. Taken = gathered /\ Taken' = gathered
  BY <1>1, TakenIsGathered DEF Inv, PageInv, Taken, readVars
<1>3. gathered \in Nat /\ job.limit \in Nat
  BY JobTyped DEF Inv, TypeOK
<1>4. Verdict = "running"
  BY <1>1 DEF Verdict
<1>5. CASE pc' = "failed" /\ rows' = rows
  <2>1. Verdict' = "failed"
    BY <1>5 DEF Verdict
  <2> QED BY <1>1, <1>2, <1>4, <1>5, <2>1 DEF Listing!Next, Listing!Fail
<1>6. CASE Full /\ pc' = "done" /\ rows' = job.limit /\ flags' = flags \cup {"rows"}
  <2>1. Verdict' = "part" /\ rows' <= gathered
    BY <1>3, <1>6 DEF Verdict, Full
  <2> QED BY <1>1, <1>2, <1>3, <1>4, <1>6, <2>1 DEF Listing!Next, Listing!Part
<1>7. CASE sound = "yes" /\ pc' = "done" /\ rows' = gathered /\ flags' = flags
  <2>1. CASE flags # {} \/ Shortchanged
    <3>1. Verdict' = "part"
      BY <1>1, <1>7, <2>1 DEF Verdict
    <3> QED BY <1>1, <1>2, <1>3, <1>4, <1>7, <3>1 DEF Listing!Next, Listing!Part
  <2>2. CASE flags = {} /\ ~Shortchanged
    <3>1. Verdict' = "whole"
      BY <1>1, <1>7, <2>2 DEF Verdict
    <3>2. gathered = api.length /\ ~NoEnd
      BY <1>1, <1>7, <2>2 DEF Inv, PageInv
    <3> QED BY <1>1, <1>2, <1>3, <1>4, <1>7, <3>1, <3>2 DEF Listing!Next, Listing!Whole
  <2> QED BY <2>1, <2>2
<1> QED BY <1>5, <1>6, <1>7 DEF Execute, Fail, resultVars

LEMMA NextListing == ASSUME Inv, Inv', [Next]_vars PROVE [Listing!Next]_Listing!vars
<1>1. job' = job /\ api' = api
  BY FixedStep
<1>2. CASE Begin \/ Authenticate \/ ExchangeToken \/ Send \/ Dialing \/ Dialed \/ DialFailed
  <2>1. UNCHANGED readVars /\ rows' = rows /\ pc \notin Ended /\ pc' # "done"
    BY <1>2 DEF Begin, Authenticate, ExchangeToken, Send, Dialing, Dialed, DialFailed, Fail, Troubled,
                Ended, resultVars
  <2> QED BY <1>1, <2>1, QuietListing
<1>3. CASE Breaks \/ Resend \/ Challenged \/ Waited \/ Busy \/ Redirected \/ GivesUp
  <2>1. UNCHANGED readVars /\ rows' = rows /\ pc \notin Ended /\ pc' # "done"
    BY <1>3 DEF Breaks, Resend, Challenged, Waited, Busy, Redirected, GivesUp, Replies, Fail, Troubled,
                Ended, resultVars
  <2> QED BY <1>1, <2>1, QuietListing
<1>4. CASE NextPage \/ LastPage
  <2>1. UNCHANGED readVars /\ rows' = rows /\ pc \notin Ended /\ pc' # "done"
    BY <1>4 DEF NextPage, LastPage, Fail, Ended, resultVars
  <2> QED BY <1>1, <2>1, QuietListing
<1>5. CASE ReadPage
  BY <1>5, ReadPageListing DEF Listing!Next
<1>6. CASE Execute
  BY <1>6, ExecuteListing
<1>7. CASE UNCHANGED vars
  <2>1. UNCHANGED <<readVars, rows, pc, flags>>
    BY <1>7 DEF vars, resultVars
  <2>2. NoEnd' = NoEnd /\ Taken' = Taken /\ Verdict' = Verdict
    BY <1>1, <2>1, LimitsStay DEF Taken, Verdict, readVars
  <2> QED BY <1>1, <2>1, <2>2 DEF Listing!vars
<1> QED BY <1>2, <1>3, <1>4, <1>5, <1>6, <1>7 DEF Next

\* A query that fetches pages through redirects, retries and token exchanges
\* implements PagedListing: no item is skipped or taken twice, and a result that
\* is not marked is the whole listing, if the upstream keeps to the page size.
THEOREM FetchImplementsListing == Spec => ListingSpec
<1>1. Inv /\ Inv' /\ [Next]_vars => [Listing!Next]_Listing!vars
  BY NextListing
<1> QED BY <1>1, InitListing, Invariant, PTL DEF Spec, ListingSpec, Listing!Spec

\* What PagedListing calls whole is.
WholeInv == Verdict = "whole" => rows = api.length

LEMMA NextWhole == ASSUME Inv, Inv', WholeInv, [Next]_vars PROVE WholeInv'
<1>1. api' = api
  BY FixedStep
<1>2. CASE Listing!Next /\ Verdict' = "whole"
  <2>1. Listing!Whole
    BY <1>2 DEF Listing!Next, Listing!Take, Listing!Part, Listing!Fail
  <2> QED BY <1>1, <2>1 DEF Listing!Whole, WholeInv
<1>3. CASE UNCHANGED Listing!vars
  BY <1>1, <1>3 DEF Listing!vars, WholeInv
<1> QED BY <1>2, <1>3, NextListing DEF WholeInv

\* Where every page is as large as the offset strategy asks for, a result
\* without a mark is the whole listing, whatever the strategy, the limits and
\* the answers: the smaller page is all that the refuted UnmarkedIsWhole takes.
THEOREM UnmarkedResultsAreWhole ==
    ASSUME \A j \in Jobs, a \in Apis : j.strategy = "offset" => a.cap >= j.size
    PROVE  Spec => []UnmarkedIsWhole
<1>1. Init => WholeInv
  BY DEF Init, WholeInv, Verdict
<1>2. Inv /\ WholeInv => UnmarkedIsWhole
  <2> SUFFICES ASSUME Inv, WholeInv, pc = "done", flags = {} PROVE rows = api.length
    BY DEF UnmarkedIsWhole
  <2>1. job \in Jobs /\ api \in Apis /\ api.cap \in Nat /\ job.size \in Nat
    BY JobTyped DEF Inv, Fixed
  <2>2. ~Shortchanged
    BY <2>1 DEF Shortchanged
  <2>3. Verdict = "whole"
    BY <2>2 DEF Verdict
  <2> QED BY <2>3 DEF WholeInv
<1>3. Inv /\ WholeInv /\ [Next]_vars => Inv' /\ WholeInv'
  BY NextInv, NextWhole
<1> QED BY <1>1, <1>2, <1>3, InitInv, PTL DEF Spec

-----------------------------------------------------------------------------
(* A query gets on.                                                          *)

\* What is exchanged, or dialled for, is a token that is not there.
TokenInv ==
    /\ pc = "exchange" => token = "none"
    /\ pc = "dialing" /\ dial.host = TokenHost => token = "none"

LEMMA NextToken == ASSUME Inv, TokenInv, [Next]_vars PROVE TokenInv'
<1>1. CASE Authenticate
  <2>1. CASE pc' = "send"
    BY <2>1 DEF TokenInv
  <2>2. CASE pc' # "send"
    <3>1. token' = "none"
      BY <1>1, <2>2 DEF Authenticate, attemptVars
    <3> QED BY <3>1 DEF TokenInv
  <2> QED BY <2>1, <2>2
<1>2. CASE Send
  <2>1. CASE pc' = "reply"
    BY <2>1 DEF TokenInv
  <2>2. CASE pc' = "dialing" /\ DialContext("tcp", req.host, "https", job.path)
    <3>1. dial'.host = req.host
      BY <2>2 DEF DialContext
    <3>2. req.host # TokenHost
      BY HostsTyped DEF Inv, TypeOK
    <3> QED BY <2>2, <3>1, <3>2 DEF TokenInv
  <2> QED BY <1>2, <2>1, <2>2 DEF Send
<1>3. CASE Dialing
  <2>1. pc' = pc /\ token' = token
    BY <1>3 DEF Dialing, attemptVars
  <2>2. pc = "dialing" /\ dial \in Dials /\ (Resolve \/ Connect)
    BY <1>3 DEF Dialing, Inv, DialInv, GuardInv
  <2>3. dial'.host = dial.host
    BY <2>2 DEF Resolve, Connect, Dials
  <2> QED BY <2>1, <2>2, <2>3 DEF TokenInv
<1>4. CASE Dialed
  <2>1. token' = token /\ pc = "dialing" /\ pc' # "dialing" /\ (pc' = "exchange" => dial.host = TokenHost)
    BY <1>4 DEF Dialed
  <2> QED BY <2>1 DEF TokenInv
<1>5. CASE UNCHANGED vars
  BY <1>5 DEF vars, attemptVars, TokenInv
<1>6. CASE Begin \/ ExchangeToken \/ DialFailed \/ Breaks \/ Resend \/ Challenged \/ Waited \/ Busy
           \/ Redirected \/ GivesUp \/ ReadPage \/ NextPage \/ LastPage \/ Execute
  <2>1. pc' \notin {"dialing", "exchange"}
    BY <1>6 DEF Begin, ExchangeToken, DialFailed, Breaks, Resend, Challenged, Waited, Busy, Redirected, GivesUp,
                ReadPage, NextPage, LastPage, Execute, Fail, Troubled
  <2> QED BY <2>1 DEF TokenInv
<1> QED BY <1>1, <1>2, <1>3, <1>4, <1>5, <1>6 DEF Next

\* What it takes for a query to get further.
LEMMA GetsFurther ==
    ASSUME pc \notin Ended,
           \/ pc' \in Ended
           \/ /\ pc' \notin Ended
              /\ \/ Round < Round'
                 \/ /\ Round' = Round
                    /\ \/ hops < hops'
                       \/ hops' = hops /\ tries < tries'
                       \/ hops' = hops /\ tries' = tries /\ answered # "yes" /\ answered' = "yes"
                       \/ /\ hops' = hops /\ tries' = tries /\ answered' = answered
                          /\ \/ token # "held" /\ token' = "held"
                             \/ token' = token /\ resent < resent'
                             \/ token' = token /\ resent' = resent /\ Stage < Stage'
                             \/ /\ token' = token /\ resent' = resent /\ Stage' = Stage
                                /\ DialStage < DialStage'
                             \/ /\ token' = token /\ resent' = resent /\ Stage' = Stage
                                /\ DialStage' = DialStage /\ 0 - Len(dial.left) < 0 - Len(dial'.left)
    PROVE  Further(Position, Position')
<1> DEFINE p == Position
           q == Position'
<1>1. /\ p[1] = (IF pc \in Ended THEN 1 ELSE 0) /\ p[2] = Round /\ p[3] = hops /\ p[4] = tries
      /\ p[5] = (IF answered = "yes" THEN 1 ELSE 0) /\ p[6] = (IF token = "held" THEN 1 ELSE 0)
      /\ p[7] = resent /\ p[8] = Stage /\ p[9] = DialStage /\ p[10] = 0 - Len(dial.left)
  BY DEF Position
<1>2. /\ q[1] = (IF pc' \in Ended THEN 1 ELSE 0) /\ q[2] = Round' /\ q[3] = hops' /\ q[4] = tries'
      /\ q[5] = (IF answered' = "yes" THEN 1 ELSE 0) /\ q[6] = (IF token' = "held" THEN 1 ELSE 0)
      /\ q[7] = resent' /\ q[8] = Stage' /\ q[9] = DialStage' /\ q[10] = 0 - Len(dial'.left)
  BY DEF Position, Ended
<1> HIDE DEF p, q
<1>3. ASSUME NEW k \in 1..10, p[k] < q[k], \A j \in 1..(k - 1) : p[j] = q[j] PROVE Further(p, q)
  BY <1>3 DEF Further
<1>4. CASE pc' \in Ended
  <2>1. p[1] < q[1]
    BY <1>1, <1>2, <1>4
  <2> QED BY <1>3, <2>1 DEF p, q
<1>5. CASE pc' \notin Ended
  <2>1. p[1] = q[1]
    BY <1>1, <1>2, <1>5
  <2>2. \/ p[2] < q[2]
        \/ /\ p[2] = q[2]
           /\ \/ p[3] < q[3]
              \/ p[3] = q[3] /\ p[4] < q[4]
              \/ p[3] = q[3] /\ p[4] = q[4] /\ p[5] < q[5]
              \/ /\ p[3] = q[3] /\ p[4] = q[4] /\ p[5] = q[5]
                 /\ \/ p[6] < q[6]
                    \/ p[6] = q[6] /\ p[7] < q[7]
                    \/ p[6] = q[6] /\ p[7] = q[7] /\ p[8] < q[8]
                    \/ p[6] = q[6] /\ p[7] = q[7] /\ p[8] = q[8] /\ p[9] < q[9]
                    \/ p[6] = q[6] /\ p[7] = q[7] /\ p[8] = q[8] /\ p[9] = q[9] /\ p[10] < q[10]
    BY <1>1, <1>2, <1>5
  <2> QED BY <2>1, <2>2 DEF Further, p, q
<1> QED BY <1>4, <1>5

\* Every action takes a query further.
LEMMA NextFurther == ASSUME Inv, TokenInv, Next PROVE Further(Position, Position')
<1>1. /\ count \in Nat /\ hops \in Nat /\ tries \in Nat /\ resent \in Nat
      /\ dial \in Dials /\ DialSound(dial)
  BY LimitsTyped, FetchAssumption DEF Inv, TypeOK, DialInv, GuardInv
<1>2. CASE Begin
  BY <1>1, <1>2, GetsFurther DEF Begin, Fail, Ended, Round, readVars
<1>3. CASE Authenticate
  BY <1>1, <1>3, GetsFurther DEF Authenticate, Ended, Round, Stage, attemptVars, readVars
<1>4. CASE ExchangeToken
  BY <1>1, <1>4, GetsFurther DEF ExchangeToken, TokenInv, Fail, Ended, Round, readVars
<1>5. CASE Send
  BY <1>1, <1>5, GetsFurther DEF Send, Ended, Round, Stage, readVars
<1>6. CASE Dialing
  <2>1. /\ pc = "dialing" /\ pc' = pc /\ Round' = Round /\ Stage' = Stage
        /\ UNCHANGED <<hops, tries, answered, token, resent>>
    BY <1>6 DEF Dialing, Round, Stage, attemptVars, readVars
  <2>2. CASE Resolve
    <3>1. DialStage = 0 /\ dial'.pc \in {"connect", "failed"}
      BY <1>1, <2>2 DEF Resolve, DialStage, Dials
    <3> QED BY <2>1, <3>1, GetsFurther DEF DialStage, Ended
  <2>3. CASE Connect
    <3>1. DialStage = 1 /\ dial.pc = "connect"
      BY <2>3 DEF Connect, DialStage
    <3>2. CASE dial' = [dial EXCEPT !.left = Tail(dial.left)] /\ Len(dial.left) > 1
      <4>1. dial.left \in Seq(Addrs) /\ dial'.left = Tail(dial.left) /\ DialStage' = 1
        BY <1>1, <3>1, <3>2 DEF Dials, DialStage
      <4>2. 0 - Len(dial.left) < 0 - Len(dial'.left)
        BY <3>2, <4>1
      <4> QED BY <2>1, <3>1, <4>1, <4>2, GetsFurther DEF Ended
    <3>3. CASE dial'.pc \in {"open", "failed"}
      <4>1. DialStage' = 2
        BY <3>3 DEF DialStage
      <4> QED BY <2>1, <3>1, <4>1, GetsFurther DEF Ended
    <3> QED BY <1>1, <2>3, <3>2, <3>3 DEF Connect, Dials
  <2> QED BY <1>6, <2>2, <2>3 DEF Dialing
<1>7. CASE Dialed
  BY <1>1, <1>7, GetsFurther DEF Dialed, Ended, Round, Stage, readVars
<1>8. CASE DialFailed
  BY <1>1, <1>8, GetsFurther DEF DialFailed, Troubled, Fail, Ended, Round, Stage, attemptVars, readVars
<1>9. CASE Breaks \/ Busy
  BY <1>1, <1>9, GetsFurther DEF Breaks, Busy, Replies, Troubled, Fail, Ended, Round, Stage, attemptVars, readVars
<1>10. CASE Challenged
  BY <1>1, <1>10, GetsFurther DEF Challenged, Replies, Ended, Round, readVars
<1>11. CASE Waited
  BY <1>1, <1>11, GetsFurther DEF Waited, Ended, Round, readVars
<1>12. CASE Redirected
  BY <1>1, <1>12, GetsFurther DEF Redirected, Replies, Fail, Ended, Round, readVars
<1>13. CASE GivesUp
  BY <1>13, GetsFurther DEF GivesUp, Fail, Ended
<1>14. CASE ReadPage
  BY <1>1, <1>14, GetsFurther DEF ReadPage, Replies, Ended, Round
<1>15. CASE NextPage
  BY <1>1, <1>15, GetsFurther DEF NextPage, Ended, Round, readVars
<1>16. CASE LastPage
  BY <1>1, <1>16, GetsFurther DEF LastPage, Fail, Ended, Round, Stage, attemptVars, readVars
<1>17. CASE Execute
  BY <1>17, GetsFurther DEF Execute, Fail, Ended
<1>18. CASE Resend
  BY <1>1, <1>18, GetsFurther DEF Resend, Ended, Round, readVars
<1> QED BY <1>2, <1>3, <1>4, <1>5, <1>6, <1>7, <1>8, <1>9, <1>10, <1>11, <1>12, <1>13, <1>14, <1>15,
           <1>16, <1>17, <1>18 DEF Next

\* For any limits and whatever the upstream, the hosts and the resolver do, a
\* query gets further with every step. How far it can get is bounded by
\* FetchTypeCorrect (pages, attempts) and FetchRequestsBounded (redirects).
THEOREM FetchGetsOn == Spec => FetchAdvances
<1>1. Init => TokenInv
  BY DEF Init, TokenInv
<1>2. Inv /\ TokenInv /\ [Next]_vars => Inv' /\ TokenInv'
  BY NextInv, NextToken
<1>3. Inv /\ TokenInv /\ [Next]_vars => [Further(Position, Position')]_vars
  BY NextFurther
<1> QED BY <1>1, <1>2, <1>3, InitInv, PTL DEF Spec, FetchAdvances

=============================================================================
