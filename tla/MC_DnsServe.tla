----------------------------- MODULE MC_DnsServe -----------------------------
(* Model-checking instances of DnsServe: two upstreams, two search domains, *)
(* two attempts, one dnsagent resolver, requests served concurrently.       *)
EXTENDS DnsServe, TLC

CONSTANT NoConfig

(* The recursor's Config comes from SidecarConfig.InitDnsResolver, so the  *)
(* upstream list, Attempts and the search list are those start-up builds   *)
(* from the sidecar's configuration and /etc/resolv.conf.                  *)
Rc == INSTANCE RecurseConfig WITH LoopbackIPs <- {"127.0.0.1"},
                                  UnspecifiedIPs <- {"0.0.0.0"}

\* Bound to 127.0.0.1, one explicit name server, and a resolv.conf that
\* lists the sidecar itself and a second server, with two search domains
\* and "options attempts:1", which fillByResolvConfig raises to two.
SidecarConf ==
    Rc!InitDnsResolver(TRUE, "127.0.0.1", 1, <<"10.0.0.1">>,
        [exists |-> TRUE, parses |-> TRUE, servers |-> <<"127.0.0.1", "10.0.0.2">>,
         search |-> <<"svc.local", "local">>, ndots |-> 0, attempts |-> 1,
         timeout |-> 5]).conf

\* Bound to 0.0.0.0, no explicit name server, and a resolv.conf (as a pod
\* whose DNS points at the sidecar has) listing only 127.0.0.1.
SelfOnlyConf ==
    Rc!InitDnsResolver(TRUE, "0.0.0.0", 1, << >>,
        [exists |-> TRUE, parses |-> TRUE, servers |-> <<"127.0.0.1">>,
         search |-> <<"svc.local">>, ndots |-> 0, attempts |-> 2,
         timeout |-> 5]).conf

MCUpstreams == SidecarConf.upstream
MCAttempts == SidecarConf.attempts
MCSearchLen == Len(SidecarConf.search)
NoUpstreams == SelfOnlyConf.upstream
SelfOnlyAttempts == SelfOnlyConf.attempts
SelfOnlySearchLen == Len(SelfOnlyConf.search)

\* nil message with an error, NOERROR, NXDOMAIN, SERVFAIL (plain and
\* truncated), and a NOERROR message returned together with dns.ErrId.
MCOutcomes ==
    {[resp |-> FALSE, err |-> TRUE, rcode |-> "NONE", tc |-> FALSE],
     [resp |-> TRUE, err |-> FALSE, rcode |-> "NOERROR", tc |-> FALSE],
     [resp |-> TRUE, err |-> FALSE, rcode |-> "NXDOMAIN", tc |-> FALSE],
     [resp |-> TRUE, err |-> FALSE, rcode |-> "SERVFAIL", tc |-> FALSE],
     [resp |-> TRUE, err |-> FALSE, rcode |-> "SERVFAIL", tc |-> TRUE],
     [resp |-> TRUE, err |-> TRUE, rcode |-> "NOERROR", tc |-> FALSE]}
=============================================================================
