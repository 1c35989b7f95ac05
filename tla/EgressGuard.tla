---------------------------- MODULE EgressGuard ----------------------------
(***************************************************************************)
(* The dialer underneath every connector (pkg/egress): it checks the name,  *)
(* asks the resolver once, checks every address of that answer, and then    *)
(* dials these addresses and never the name. The resolver gives whatever    *)
(* answer it likes each time it is asked; an error is an empty one. Saved   *)
(* connections dial through the base guard, ad-hoc queries through a guard  *)
(* of their own if one is configured.                                       *)
(*                                                                          *)
(* A host is a name, as it is spelt, or an address. An address is the range *)
(* it lies in, in its own form, mapped into IPv6, or an IPv6 one with a     *)
(* zone. A port is a value. AllowLoopback is off, as main.go leaves it. No  *)
(* proxy stands between: of one, the guard would see nothing but its        *)
(* address.                                                                 *)
(***************************************************************************)
EXTENDS Naturals, Sequences

CONSTANTS
    Names,      \* the names that are asked for
    Parents,    \* the names that end each host after a dot of it
    Ports,
    Policies,   \* what the operator may have configured
    Answers     \* what a resolver may answer: sequences of addresses

VARIABLES
    guards, \* the guards of the process, by the path that dials
    dial    \* the dial under way

guardVars == <<guards, dial>>

-----------------------------------------------------------------------------
(* Addresses.                                                               *)

alwaysDeny == {"127.0.0.0/8", "::1/128", "169.254.0.0/16", "fe80::/10", "0.0.0.0/8", "::/128",
               "64:ff9b::/96", "224.0.0.0/4", "ff00::/8", "255.255.255.255/32"}
privateDeny == {"10.0.0.0/8", "172.16.0.0/12", "192.168.0.0/16", "100.64.0.0/10",
                "198.18.0.0/15", "fc00::/7", "fec0::/10"}
metadataHosts == {"metadata.google.internal", "metadata.goog", "instance-data",
                  "instance-data.ec2.internal"}

Ranges == alwaysDeny \cup privateDeny \cup {"elsewhere"}
Sixes == {"::1/128", "fe80::/10", "::/128", "64:ff9b::/96", "ff00::/8", "fc00::/7", "fec0::/10"}
Addrs == [range : Ranges, form : {"plain"}] \cup [range : Ranges \ Sixes, form : {"mapped"}]
         \cup [range : Sixes \cup {"elsewhere"}, form : {"zoned"}]
Hosts == [name : Names, spelt : {"plain", "oddly"}] \cup Addrs
Name(n) == [name |-> n, spelt |-> "plain"]

ASSUME GuardAssumption ==
    /\ Answers \subseteq Seq(Addrs)
    /\ Parents \in [{Name(n) : n \in Names} \cup Addrs -> SUBSET STRING]
    /\ "https" \in Ports

Unmap(a) == IF a.form = "mapped" THEN [range |-> a.range, form |-> "plain"] ELSE a

\* A prefix of one family contains no address in the form of the other, and
\* none that has a zone.
Contains(p, a) == a.form = "plain" /\ a.range = p

\* The tests that precede the lists look at the address and not at its zone,
\* except for the unspecified one, which the lists hold as well.
Special(a) ==
    a.range \in {"127.0.0.0/8", "::1/128", "169.254.0.0/16", "fe80::/10", "224.0.0.0/4", "ff00::/8"}

ValidateAddr(g, a) ==
    /\ ~Special(Unmap(a))
    /\ \A p \in alwaysDeny : ~Contains(p, Unmap(a))
    /\ g.mode = "public-only" => \A p \in privateDeny : ~Contains(p, Unmap(a))

-----------------------------------------------------------------------------
(* Names.                                                                   *)

\* Lower case, without the trailing dot.
Folded(h) == IF h \in Addrs THEN h ELSE Name(h.name)

\* An entry of the allowlist: host or host:port, a leading "*." a wildcard,
\* which stands for every host, an address too, that ends in a dot and the
\* entry's, but not for the entry's host.
Matches(p, h, port) ==
    /\ p.port \in {"any", port}
    /\ IF p.wildcard = "yes" THEN p.host \in {Name(n) : n \in Parents[Folded(h)]}
                             ELSE p.host = Folded(h)

HostAllowed(g, h, port) == \E p \in g.allowlist : Matches(p, h, port)

ValidateHost(g, h, port) ==
    /\ Folded(h) \notin {Name(n) : n \in metadataHosts \cup {"localhost"}}
    /\ g.mode = "allowlist" => HostAllowed(g, h, port)

-----------------------------------------------------------------------------
(* Configuration.                                                           *)

NoGuard == [mode |-> "none", allowlist |-> {}]
Modes == {"allow-private", "allowlist", "public-only"}

\* config.validate refuses what New would refuse, an empty mode included.
ValidPolicy(mode, allowlist) == mode \in Modes /\ (mode = "allowlist" => allowlist # {})

New(mode, allowlist) == [mode |-> mode, allowlist |-> allowlist]

\* The process starts with a base guard, and with one for ad-hoc queries when
\* EGRESS_POLICY_ADHOC is set.
Starts(c) ==
    /\ ValidPolicy(c.policy, c.allowlist)
    /\ c.adhoc # "" => ValidPolicy(c.adhoc, c.allowlist)

Started(c) ==
    [base |-> New(c.policy, c.allowlist),
     adhoc |-> IF c.adhoc = "" THEN NoGuard ELSE New(c.adhoc, c.allowlist)]

\* Mutant: the call's context is not asked.
EffectiveOfConnector(path) == guards.base

\* The dialer of the call's context wins over the connector's.
Effective(path) == IF path = "adhoc" /\ guards.adhoc # NoGuard THEN guards.adhoc ELSE guards.base

-----------------------------------------------------------------------------
(* A dial.                                                                  *)

NoAddr == [range |-> "none", form |-> "plain"]
Idle == [pc |-> "idle", path |-> "saved", host |-> NoAddr, port |-> "any", answer |-> <<>>,
         left |-> <<>>, to |-> NoAddr]

Plain(answer) == [k \in 1..Len(answer) |-> Unmap(answer[k])]

GuardInit ==
    /\ \E c \in Policies : Starts(c) /\ guards = Started(c)
    /\ dial = Idle

DialContext(network, host, port, path) ==
    /\ dial.pc = "idle"
    /\ \E pc \in {"resolve", "connect", "failed"} :
        /\ pc # "failed" <=> network = "tcp" /\ ValidateHost(Effective(path), host, port)
                             /\ (host \in Addrs => ValidateAddr(Effective(path), host))
        /\ pc # "failed" => (pc = "connect" <=> host \in Addrs)
        /\ dial' = [pc |-> pc, path |-> path, host |-> host, port |-> port,
                   answer |-> IF host \in Addrs THEN <<host>> ELSE <<>>,
                   left |-> IF host \in Addrs THEN <<Unmap(host)>> ELSE <<>>, to |-> NoAddr]
    /\ UNCHANGED guards

\* Mutant: the record that will be dialled first is checked.
AnswerAllowedFirst(g, answer) == answer # <<>> /\ ValidateAddr(g, answer[1])

\* One record that is not allowed spoils the whole answer.
AnswerAllowed(g, answer) ==
    answer # <<>> /\ \A k \in 1..Len(answer) : ValidateAddr(g, answer[k])

Resolve ==
    /\ dial.pc = "resolve"
    /\ \/ \E answer \in Answers :
            /\ AnswerAllowed(Effective(dial.path), answer)
            /\ dial' = [dial EXCEPT !.pc = "connect", !.answer = answer, !.left = Plain(answer)]
       \/ /\ \E answer \in Answers : ~AnswerAllowed(Effective(dial.path), answer)
          /\ dial' = [dial EXCEPT !.pc = "failed"]
    /\ UNCHANGED guards

\* The addresses are tried in the order of the answer.
Connect ==
    /\ dial.pc = "connect"
    /\ \/ dial' = [dial EXCEPT !.pc = "open", !.to = Head(dial.left)]
       \/ Len(dial.left) > 1 /\ dial' = [dial EXCEPT !.left = Tail(dial.left)]
       \/ Len(dial.left) <= 1 /\ dial' = [dial EXCEPT !.pc = "failed"]
    /\ UNCHANGED guards

Close ==
    /\ dial.pc \in {"open", "failed"}
    /\ dial' = Idle
    /\ UNCHANGED guards

GuardNext ==
    \/ \E network \in {"tcp", "unix"}, host \in Hosts, port \in Ports, path \in {"saved", "adhoc"} :
            DialContext(network, host, port, path)
    \/ Resolve \/ Connect \/ Close

GuardSpec == GuardInit /\ [][GuardNext]_guardVars

-----------------------------------------------------------------------------
(* What the guard promises.                                                 *)

\* What docs/SECURITY.md says of a policy and a range.
RangePermitted(g, range) ==
    /\ range \in Ranges \ alwaysDeny
    /\ g.mode = "public-only" => range \notin privateDeny

\* It holds of an address in its own form or mapped; of one with a zone, no
\* more than that it is not loopback, link-local or multicast.
Permitted(g, a) ==
    /\ a \in Addrs /\ ~Special(a)
    /\ a.form # "zoned" => RangePermitted(g, a.range)

\* The policy of ad-hoc queries is theirs alone, if there is one.
InForce(path, g) ==
    \/ path = "saved" /\ g = guards.base
    \/ path = "adhoc" /\ g = guards.adhoc /\ g.mode \in Modes
    \/ path = "adhoc" /\ g = guards.base /\ guards.adhoc.mode \notin Modes

\* An address of a host that the policy in force for a path lets through.
Vetted(path, host, port, a) ==
    \A g \in {guards.base, guards.adhoc} : InForce(path, g) =>
        Permitted(g, a) /\ (g.mode = "allowlist" => HostAllowed(g, host, port))

\* Though the resolver changes its answers, a connection goes to an address
\* that was in the answer asked for, and that answer holds no address which the
\* policy of the path forbids, as far as the guard can tell (see Permitted).
DialsOnlyVetted ==
    dial.pc \in {"connect", "open"} =>
        /\ \A k \in 1..Len(dial.answer) : Vetted(dial.path, dial.host, dial.port, dial.answer[k])
        /\ dial.pc = "open" => \E k \in 1..Len(dial.answer) : dial.to = Unmap(dial.answer[k])

-----------------------------------------------------------------------------
(* What the code does otherwise than it is described.                       *)

\* docs/SECURITY.md:151-163: NAT64 addresses are denied in every mode, private
\* ones under public-only. One that has a zone is in none of the lists' prefixes.
DialsKeepToRanges ==
    dial.pc = "open" =>
        \A g \in {guards.base, guards.adhoc} :
            InForce(dial.path, g) => RangePermitted(g, dial.to.range)

=============================================================================
