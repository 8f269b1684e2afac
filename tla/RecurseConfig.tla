---------------------------- MODULE RecurseConfig ----------------------------
(***************************************************************************)
(* How the recursive proxy's configuration is built at start-up:           *)
(*   recursor.InitRecurseConfig, mergeUpstream, needSkip, getBigger and    *)
(*   fillByResolvConfig         (internal/resolver/recursor/base.go)       *)
(*   SidecarConfig.InitDnsResolver and bindLocalhost                       *)
(*                              (internal/bootstrap/config/config.go)      *)
(* /etc/resolv.conf is an input: missing, unparsable, or the ClientConfig  *)
(* miekg/dns parses from it (servers, search list, ndots, attempts,        *)
(* timeout).  Addresses are opaque strings; an upstream "host:53" is the   *)
(* pair <<host, 53>> fmt.Sprintf("%s:53") builds.                          *)
(***************************************************************************)
EXTENDS Naturals, Sequences, SequencesExt

CONSTANTS
    LoopbackIPs,     \* bind addresses net.IP.IsLoopback accepts
    UnspecifiedIPs,  \* bind addresses net.IP.IsUnspecified accepts
    NoConfig         \* the nil *recursor.Config

LocalIp == "127.0.0.1"

\* A Config: Ndots, Search, Timeout, Attempts, Upstream.
EmptyConfig(timeout) ==
    [ndots |-> 0, search |-> << >>, timeout |-> timeout, attempts |-> 0,
     upstream |-> << >>]

getBigger(a, b) == IF a > b THEN a ELSE b

needSkip(bindLocalhost, nameServer) == nameServer = LocalIp /\ bindLocalhost

\* Mutant: the name server is not recorded in nameServerMap.
mergeUpstreamNoMark(bindLocalhost, acc, nameServers) ==
    FoldLeft(LAMBDA a, ns :
                IF ns \notin a.seen /\ ~needSkip(bindLocalhost, ns)
                THEN [a EXCEPT !.conf.upstream = Append(@, <<ns, 53>>)]
                ELSE a,
             acc, nameServers)

\* Config.mergeUpstream: each name server not yet in nameServerMap and not
\* skipped is appended as "host:53" and recorded in the map.  acc carries
\* the Config and the map's key set, both shared by the two calls.
mergeUpstream(bindLocalhost, acc, nameServers) ==
    FoldLeft(LAMBDA a, ns :
                IF ns \notin a.seen /\ ~needSkip(bindLocalhost, ns)
                THEN [a EXCEPT !.conf.upstream = Append(@, <<ns, 53>>),
                               !.seen = @ \cup {ns}]
                ELSE a,
             acc, nameServers)

\* Mutant: Attempts taken from resolv.conf as it is.
fillByResolvConfigNoRaise(conf, rc) ==
    [conf EXCEPT !.ndots = IF rc.ndots > 0 THEN rc.ndots ELSE 1,
                 !.search = rc.search,
                 !.attempts = rc.attempts]

\* Config.fillByResolvConfig: ndots 1 unless resolv.conf sets a positive
\* one, its search list, and at least one attempt per upstream.
fillByResolvConfig(conf, rc) ==
    [conf EXCEPT !.ndots = IF rc.ndots > 0 THEN rc.ndots ELSE 1,
                 !.search = rc.search,
                 !.attempts = getBigger(rc.attempts, Len(conf.upstream))]

\* InitRecurseConfig: no resolv.conf gives (nil, nil), an unparsable one
\* the error; otherwise the explicit name servers are merged first, then
\* resolv.conf's, and the rest is filled in from resolv.conf.
InitRecurseConfig(bindLocalhost, timeout, nameServers, rc) ==
    IF ~rc.exists THEN [err |-> FALSE, conf |-> NoConfig]
    ELSE IF ~rc.parses THEN [err |-> TRUE, conf |-> NoConfig]
    ELSE LET acc0 == [conf |-> EmptyConfig(getBigger(timeout, rc.timeout)),
                      seen |-> {}]
             acc2 == mergeUpstream(bindLocalhost,
                                   mergeUpstream(bindLocalhost, acc0, nameServers),
                                   rc.servers)
         IN  [err |-> FALSE, conf |-> fillByResolvConfig(acc2.conf, rc)]

\* Mutant: only a loopback bind address counts, not 0.0.0.0.
bindLocalhostLoopbackOnly(bind) == bind \in LoopbackIPs

\* SidecarConfig.bindLocalhost: the bind IP is loopback or unspecified.
bindLocalhost(bind) == bind \in LoopbackIPs \cup UnspecifiedIPs

\* SidecarConfig.InitDnsResolver: the recursor's Config is built only when
\* recurse.enable is set; an error aborts the DNS server's construction.
InitDnsResolver(enable, bind, timeout, nameServers, rc) ==
    IF ~enable THEN [err |-> FALSE, conf |-> NoConfig]
    ELSE InitRecurseConfig(bindLocalhost(bind), timeout, nameServers, rc)

-----------------------------------------------------------------------------
(* Section 2, RecursorConfig, as a reference definition: the name servers  *)
(* in priority order, each kept at its first occurrence, 127.0.0.1 left    *)
(* out when the sidecar binds to loopback or 0.0.0.0.                      *)

SelfAddress(bind, host) ==
    host = LocalIp /\ (bind \in LoopbackIPs \cup UnspecifiedIPs)

SpecUpstream(bind, nameServers, servers) ==
    LET all  == nameServers \o servers
        kept == SelectSeq([i \in DOMAIN all |-> i],
                          LAMBDA i : ~SelfAddress(bind, all[i]) /\
                                     \A j \in 1..i-1 : all[j] # all[i])
    IN  [k \in DOMAIN kept |-> <<all[kept[k]], 53>>]

====
