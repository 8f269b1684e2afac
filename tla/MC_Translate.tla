---------------------------- MODULE MC_Translate ----------------------------
(***************************************************************************)
(* Checks the pure translations of requests, Names (query names) and       *)
(* RlsTranslate (rate-limit requests), against their reference             *)
(* definitions.  Each step, taken from the initial state only, evaluates   *)
(* one operator on inputs chosen from bounded sets, so every input is met  *)
(* exactly once and the invariants see its result.                         *)
(***************************************************************************)
EXTENDS Names, TLC

CONSTANTS LabelKeys, LabelValues, NilDescriptor, NoMethod,
          MaxDomain, MaxNamespace, MaxEntries, MaxDescriptors, MaxHits,
          NoConfig, Absent, NilValue

Rls == INSTANCE RlsTranslate
Rc == INSTANCE RecurseConfig WITH LoopbackIPs <- {"127.0.0.1"},
                                  UnspecifiedIPs <- {"0.0.0.0"}
Fr == INSTANCE DnsFraming WITH HeaderLen <- 40, MinMsgSize <- 512,
                               MaxMsgSize <- 65535, OptLen <- 11,
                               EcsOptLen <- 11, Netmask <- 24
MCIntText == [n \in {"0", "30", "5353"} |->
                CASE n = "0" -> 0 [] n = "30" -> 30 [] OTHER -> 5353]
Cl == INSTANCE ConfigLoad WITH IntText <- MCIntText
St == INSTANCE Startup WITH IntText <- MCIntText
Ud == INSTANCE UpstreamDelay WITH Nil <- NilValue

\* Two letters that ToLower maps to the same one, so that "polaris" in any
\* case is met, a third letter, and the dot.
MCChars == {"p", "P", "x", "."}
MCToLower(c) == IF c = "P" THEN "p" ELSE c
MCSysNamespace == <<"p">>
MCLabelKeys == {":path", "user"}
MCLabelValues == {"v1", "v2"}

\* Name servers, among them the sidecar's usual bind address, and bind
\* addresses: loopback, unspecified, and another interface.
Hosts == {"127.0.0.1", "10.0.0.1", "10.0.0.2"}
Binds == {"127.0.0.1", "0.0.0.0", "10.0.0.5"}

\* /etc/resolv.conf: missing, unparsable, or as dns.ClientConfigFromFile
\* returns it (its parser clamps attempts to at least 1, ndots to 0..15).
ResolvConfs ==
    {[exists |-> FALSE, parses |-> FALSE], [exists |-> TRUE, parses |-> FALSE]}
    \cup [exists : {TRUE}, parses : {TRUE}, servers : BoundedSeq(Hosts, 2),
          search : {<< >>}, ndots : {0, 2}, attempts : {1, 2}, timeout : {5}]

VARIABLE last   \* [op, args, out] of the last evaluation

Init == last = [op |-> "none", args |-> << >>, out |-> << >>]

EvalParseQname ==
    \E q \in NameStrings, suffix \in SuffixStrings :
        last' = [op |-> "parse", args |-> <<q, suffix>>,
                 out |-> ParseQname(q, suffix, CurrentNs)]

EvalPreprocess ==
    \E q \in NameStrings, search \in SearchLists :
        last' = [op |-> "preprocess", args |-> <<q, search>>,
                 out |-> Preprocess(q, search)]

\* A question through the handler to the dnsagent resolver's lookup, with
\* no suffix or a one-character one (ParseQname is checked alone above).
EvalLookup ==
    \E q \in FQDNs, search \in SearchLists, suffix \in BoundedSeq(Chars, 1) :
        last' = [op |-> "lookup", args |-> <<q, search, suffix>>,
                 out |-> LookupKey(q, search, suffix)]

EvalExpandQuery ==
    \E name \in FQDNs, ndots \in 1..MaxNdots, search \in SearchLists :
        last' = [op |-> "expand", args |-> <<name, ndots, search>>,
                 out |-> ExpandQuery(name, ndots, search)]

\* A rate-limit request varying the domain, the namespace and hits_addend.
EvalRlsDomain ==
    \E domain \in Rls!DomainStrings(MaxDomain),
       namespace \in Rls!DomainStrings(MaxNamespace),
       hits \in 0..MaxHits, result \in Rls!LimiterResults :
        last' = [op |-> "rls", args |-> <<domain, namespace, hits, << >>, result>>,
                 out |-> Rls!ShouldRateLimit(domain, namespace, hits, << >>, result)]

\* A rate-limit request varying the descriptors, for a domain "x.p" in
\* namespace "p".
EvalRlsDescriptors ==
    \E ds \in Rls!DescriptorLists, result \in Rls!LimiterResults :
        LET domain == <<"x", Dot, "p">>  namespace == <<"p">>
        IN  last' = [op |-> "rls", args |-> <<domain, namespace, 1, ds, result>>,
                     out |-> Rls!ShouldRateLimit(domain, namespace, 1, ds, result)]

\* InitDnsResolver with recurse.enable, the bind address, the configured
\* name servers (timeoutSec 1) and resolv.conf.
EvalRecurseConfig ==
    \E enable \in BOOLEAN, bind \in Binds, ns \in BoundedSeq(Hosts, 2),
       rc \in ResolvConfs :
        last' = [op |-> "recurse", args |-> <<enable, bind, ns, rc>>,
                 out |-> Rc!InitDnsResolver(enable, bind, 1, ns, rc)]

\* DNS requests: UDP or TCP, without EDNS0, or with an advertised UDPSize
\* below the minimum or at it, with or without a client-subnet option.
DnsRequests ==
    {[edns |-> FALSE, udpSize |-> 0, ecs |-> FALSE]}
    \cup [edns : {TRUE}, udpSize : {256, 512}, ecs : BOOLEAN]

\* Records of 100 and 236 bytes: with the 40-byte header, two of 236 fill
\* 512 bytes exactly.  An upstream that understands EDNS0 echoes an OPT
\* record (UDPSize 1232) to an EDNS0 request.
RRLens == {100, 236}
UpstreamOpt == [udpSize |-> 1232, ecs |-> FALSE, scope |-> 0]

\* WriteDnsResponse on a message from a resolver or an upstream (TC set
\* or not), and WriteDnsCode with the two codes the handler writes.
EvalWriteResponse ==
    \E proto \in {"udp", "tcp"}, r \in DnsRequests, rrs \in BoundedSeq(RRLens, 3),
       rcode \in {"NOERROR", "NXDOMAIN"}, tc \in BOOLEAN, echo \in BOOLEAN :
        LET msg == [rcode |-> rcode, tc |-> tc, rrs |-> rrs,
                    opts |-> IF echo THEN <<UpstreamOpt>> ELSE << >>]
        IN  /\ echo => r.edns
            /\ last' = [op |-> "write", args |-> <<proto, r, msg>>,
                        out |-> Fr!WriteDnsResponse(proto, r, msg)]

EvalWriteCode ==
    \E proto \in {"udp", "tcp"}, r \in DnsRequests, code \in {"REFUSED", "SERVFAIL"} :
        LET msg == [rcode |-> code, tc |-> FALSE, rrs |-> << >>, opts |-> << >>]
        IN  last' = [op |-> "write", args |-> <<proto, r, msg>>,
                     out |-> Fr!WriteDnsCode(proto, r, code)]

\* Start-up configurations.  The fields fall in two groups that the code
\* merges independently: the scalars (bind, port, timeout, log level) and
\* the switches (recurse, the resolvers, the mesh features).  Each
\* evaluation varies one group over every file, environment and boot
\* value of its bounds with the other group unset, so each field is met
\* unset, set, unparsable and overridden at each level.  A file that does
\* not decode is met too.
EnvNames ==
    {"SIDECAR_BIND", "SIDECAR_PORT", "SIDECAR_RECURSE_ENABLE", "SIDECAR_RECURSE_TIMEOUT",
     "SIDECAR_LOG_LEVEL", "SIDECAR_DNS_ENABLE", "SIDECAR_DNS_ROUTE_LABELS",
     "SIDECAR_MESH_ENABLE", "SIDECAR_MESH_RELOAD_INTERVAL", "SIDECAR_MESH_ANSWER_IP",
     "SIDECAR_MTLS_ENABLE", "SIDECAR_RLS_ENABLE", "SIDECAR_METRIC_ENABLE"}
Env(c) == [n \in EnvNames |-> IF n \in DOMAIN c THEN c[n] ELSE ""]
NoMesh == [mtls |-> Absent, rls |-> Absent, metrics |-> Absent]
NoBoot == [bind |-> "", port |-> 0, logLevel |-> "", recurseEnabled |-> "",
           dnsAgentEnabled |-> "", dnsAgentRouteLabels |-> << >>, meshProxyEnabled |-> ""]
BadFile == [parses |-> FALSE, bind |-> Absent, port |-> Absent, recurse |-> Absent,
            level |-> Absent, resolvers |-> Absent, mesh |-> NoMesh]
Entry(n, en, opt) == [name |-> n, enable |-> en, opt |-> opt]

ScalarFiles ==
    {BadFile} \cup [parses : {TRUE}, bind : {Absent, "10.0.0.1"}, port : {Absent, 0},
                    recurse : {Absent}, level : {Absent, "debug"},
                    resolvers : {Absent}, mesh : {NoMesh}]
ScalarEnvs ==
    {Env(c) : c \in [SIDECAR_BIND : {"", "::1"}, SIDECAR_PORT : {"", "5353", "abc"},
                     SIDECAR_RECURSE_TIMEOUT : {"", "0"}, SIDECAR_LOG_LEVEL : {"", "warn"}]}
ScalarBoots ==
    {[NoBoot EXCEPT !.bind = b, !.port = p, !.logLevel = l] :
        b \in {"", "127.0.0.1"}, p \in {0, 8053}, l \in {"", "error"}}

\* The file's resolver lists: a dnsagent alone, both with no option map,
\* a meshproxy with one.  The boot meshproxy flag is set alone as well as
\* with a dnsagent flag: mergeBootConfig reads it only in the latter case.
SwitchFiles ==
    [parses : {TRUE}, bind : {Absent}, port : {Absent}, recurse : {Absent, TRUE},
     level : {Absent},
     resolvers : {Absent, << Entry(Cl!DnsAgent, FALSE, FALSE) >>,
                  << Entry(Cl!DnsAgent, TRUE, FALSE), Entry(Cl!MeshProxy, FALSE, FALSE) >>,
                  << Entry(Cl!MeshProxy, TRUE, TRUE) >>},
     mesh : {NoMesh, [NoMesh EXCEPT !.metrics = TRUE]}]
SwitchEnvs ==
    {Env(c) : c \in [SIDECAR_RECURSE_ENABLE : {"", "false", "yes"},
                     SIDECAR_DNS_ENABLE : {"", "0"}, SIDECAR_MESH_ENABLE : {"", "true"},
                     SIDECAR_MESH_RELOAD_INTERVAL : {"", "30"},
                     SIDECAR_MESH_ANSWER_IP : {"", "10.1.1.1"},
                     SIDECAR_METRIC_ENABLE : {"", "True", "on"},
                     SIDECAR_DNS_ROUTE_LABELS : {"", "a:b"}]}
SwitchBoots ==
    {[NoBoot EXCEPT !.recurseEnabled = r, !.dnsAgentEnabled = d,
                    !.dnsAgentRouteLabels = l, !.meshProxyEnabled = m] :
        r \in {"", "false", "on"}, d \in {"", "false"}, l \in {<< >>, << <<"a", "b">> >>},
        m \in {"", "true"}}

EvalConfig ==
    \E inputs \in (ScalarFiles \X ScalarEnvs \X ScalarBoots)
                  \cup (SwitchFiles \X SwitchEnvs \X SwitchBoots) :
        last' = [op |-> "config", args |-> inputs,
                 out |-> Cl!InitConfig(inputs[1], inputs[2], inputs[3])]

\* Start-up: the configurations InitConfig gives for resolver lists that
\* enable dnsagent, meshproxy, both, or dnsagent and a plugin that is not
\* registered, with recursion and all mesh features on or off, and for a
\* file that does not decode; each with the debugger on or off and every
\* combination of faults of the steps that talk to the outside world.
StartFiles ==
    {BadFile} \cup
    [parses : {TRUE}, bind : {Absent}, port : {Absent}, recurse : {Absent, TRUE},
     level : {Absent},
     resolvers : {<< Entry(Cl!DnsAgent, TRUE, FALSE) >>,
                  << Entry(Cl!MeshProxy, TRUE, TRUE) >>,
                  << Entry(Cl!DnsAgent, TRUE, FALSE), Entry(Cl!MeshProxy, TRUE, TRUE) >>,
                  << Entry(Cl!DnsAgent, TRUE, FALSE), Entry("consul", TRUE, FALSE) >>},
     mesh : {NoMesh, [mtls |-> TRUE, rls |-> TRUE, metrics |-> TRUE]}]
Faults == [log : BOOLEAN, sdk : BOOLEAN, recurse : BOOLEAN,
           mtls : SUBSET {"init", "mkdir", "ca"}, unix : BOOLEAN,
           bad : SUBSET {Cl!DnsAgent, Cl!MeshProxy}]

EvalStartup ==
    \E file \in StartFiles, debug \in BOOLEAN, faults \in Faults :
        LET cfg == Cl!InitConfig(file, Env(<< >>), NoBoot)
        IN  last' = [op |-> "startup", args |-> << cfg, debug, faults >>,
                     out |-> St!initAgent(cfg, debug, faults)]

\* Envoy stats: every name of up to six tokens over the two words, other
\* text and the dot, alone with three values; and every scrape of up to
\* two stats of up to two quantiles, named for cluster "a", for cluster
\* "a.a" or for no cluster, whose values are too few, carry a nil third
\* value, or carry one.
StatTokens == {Ud!ClusterWord, Ud!RqTimeWord, "a", Ud!Dot}
StatNames == UNION {[1..k -> StatTokens] : k \in 1..6}
Quantiles ==
    [name : {<< Ud!ClusterWord, Ud!Dot, "a", Ud!Dot, Ud!RqTimeWord >>,
             << Ud!ClusterWord, Ud!Dot, "a", Ud!Dot, "a", Ud!Dot, Ud!RqTimeWord >>,
             << "a", Ud!Dot, "a", Ud!Dot, Ud!RqTimeWord >>},
     values : {<< >>, << 1, 1 >>, << 1, 1, NilValue >>, << 1, 1, 2 >>, << 1, 2, 1, 2 >>}]
Stats == {NilValue} \cup BoundedSeq(Quantiles, 2)
Scrapes ==
    {[ok |-> FALSE, stats |-> << >>]}
    \cup {[ok |-> TRUE, stats |-> << << [name |-> n, values |-> << 1, 1, 2 >>] >> >>] :
            n \in StatNames}
    \cup {[ok |-> TRUE, stats |-> ss] : ss \in BoundedSeq(Stats, 2)}

EvalUpstreamDelay ==
    \E scrape \in Scrapes :
        last' = [op |-> "delay", args |-> << scrape >>,
                 out |-> Ud!parseUpstreamDelay(scrape)]

Next ==
    /\ last.op = "none"
    /\ \/ EvalParseQname \/ EvalPreprocess \/ EvalLookup \/ EvalExpandQuery
       \/ EvalRlsDomain \/ EvalRlsDescriptors \/ EvalRecurseConfig
       \/ EvalWriteResponse \/ EvalWriteCode \/ EvalConfig
       \/ EvalStartup \/ EvalUpstreamDelay

Spec == Init /\ [][Next]_last

-----------------------------------------------------------------------------
(* Properties.                                                             *)

Strings == Seq(Chars)
Keys == [namespace : Strings \cup {CurrentNs, ServerNamespace},
         service : Strings]

\* Each operator yields a value of its type: keys or nil, strings, the
\* fully qualified names expandQuery sends upstream, quota requests and
\* RLS replies.
TypeOK ==
    /\ last.op \in {"none", "parse", "preprocess", "lookup", "expand", "rls", "recurse", "write", "config",
                    "startup", "delay"}
    /\ last.op \in {"parse", "lookup"} => last.out \in Keys \cup {NoKey}
    /\ last.op = "preprocess" => last.out \in Strings
    /\ last.op = "expand" =>
         last.out \in Seq({s \in Strings : HasSuffix(s, <<Dot>>)})
    /\ last.op = "rls" =>
         last.out.request \in Rls!QuotaRequests /\ last.out.reply \in Rls!Replies
    /\ last.op = "recurse" =>
         /\ last.out.err \in BOOLEAN
         /\ last.out.conf = NoConfig \/
            last.out.conf.upstream \in Seq(Hosts \X {53})
    /\ last.op = "write" =>
         /\ last.out.rrs \in Seq(RRLens) /\ last.out.tc \in BOOLEAN
         /\ last.out.opts \in Seq([udpSize : Nat, ecs : BOOLEAN, scope : {0, 24}])
    /\ last.op = "config" =>
         /\ last.out.res \in {"ok", "err", "panic"}
         /\ last.out.conf.port \in Int /\ last.out.conf.recurse.enable \in BOOLEAN
         /\ last.out.conf.resolvers \in
              Seq([name : {Cl!DnsAgent, Cl!MeshProxy}, enable : BOOLEAN, opt : BOOLEAN])
    /\ last.op = "startup" =>
         last.out \in [res : {"ok", "err", "panic"}, sdk : BOOLEAN,
                       built : SUBSET {"dns", "debug", "mtls", "rls", "metrics"}]

\* Section 8, name parsing: ParseQname yields a key exactly when the
\* canonical suffix ends the canonical name, and the key's namespace is the
\* last label of what the suffix leaves and its service the labels before.
ParseQnameMatchesSpec ==
    last.op = "parse" =>
        last.out = ParseQnameSpec(last.args[1], last.args[2], CurrentNs)

\* Sections 4.3 and 4.1: the service the dnsagent resolver looks up for a
\* question is the one its name gives once a search domain ending it after
\* a dot is stripped and the resolver's suffix is parsed off.  Preprocess
\* (handler.go:39) also cuts a search domain ending a label inside it.
LookupKeyMatchesSpec ==
    last.op = "lookup" =>
        LET q == last.args[1]  search == last.args[2]  suffix == last.args[3]
        IN  last.out = ParseQnameSpec(PreprocessSpec(q, search), suffix, CurrentNs)

\* Section 4.5 steps 1 and 2: ShouldRateLimit asks the limiter for
\* max(hits, 1) tokens of the domain with ".namespace" removed, with the
\* method of the last ":path" entry and every other entry of every
\* descriptor as an argument; an empty domain or namespace gives an
\* unpopulated request.
RequestMatchesSpec ==
    last.op = "rls" =>
        last.out.request = Rls!SpecRequest(last.args[1], last.args[2],
                                           last.args[3], last.args[4])

\* Sections 2 and 8, recursor de-dup: the upstream list InitRecurseConfig
\* builds is the explicit name servers, then resolv.conf's, each once in
\* its first position, without 127.0.0.1 when the sidecar binds to
\* loopback or 0.0.0.0; ndots is at least 1 and every upstream gets at
\* least one attempt per request name.
RecurseConfigMatchesSpec ==
    last.op = "recurse" /\ last.out.conf # NoConfig =>
        LET bind == last.args[2]  ns == last.args[3]  rc == last.args[4]
            conf == last.out.conf
        IN  /\ conf.upstream = Rc!SpecUpstream(bind, ns, rc.servers)
            /\ conf.ndots >= 1
            /\ conf.attempts >= Len(conf.upstream)

\* Section 4.3: a reply to a request without EDNS0 fits the size the
\* writers truncate to: 512 bytes over UDP, 65535 over TCP.
FitsWithoutEdns ==
    last.op = "write" /\ ~last.args[2].edns =>
        Fr!MsgLen(last.out) <= IF last.args[1] = "tcp" THEN 65535 ELSE 512

\* Whether mergeBootConfig reads the boot meshproxy flag: it is unset, or
\* a dnsagent flag (enable or route labels) opens the resolver loop
\* (config.go:321).
MeshFlagRead(boot) ==
    boot.meshProxyEnabled = "" \/ boot.dnsAgentEnabled # "" \/ boot.dnsAgentRouteLabels # << >>

\* InitConfig ("order of priority is: file < environment < bootstrap"),
\* narrowed to the boot flags mergeBootConfig reads: when the meshproxy
\* flag is unset or comes with a dnsagent flag, a configuration it accepts
\* has bind, port, the recurse switch and timeout, every resolver's enable
\* and every mesh feature switch at the value of the highest source that
\* sets it, through defaults, a file whose resolver list replaces the
\* default one, unparsable variables and flags, and verify's DnsEnabled /
\* MeshEnabled follow the enabled entries.  A meshproxy flag given alone is
\* ignored (config.go:321-350), so it and the MeshEnabled it would give are
\* outside this claim; EvalConfig reaches that case, and the claim fails
\* on it.  The log level is left out: it is set from the flag even when
\* empty (config.go:320).
ConfigPrecedence ==
    last.op = "config" /\ last.out.res = "ok" /\ MeshFlagRead(last.args[3]) =>
        LET c == last.out.conf
            sp == Cl!SpecConfig(last.args[1], last.args[2], last.args[3])
            on(n) == \E i \in DOMAIN c.resolvers :
                        c.resolvers[i].name = n /\ c.resolvers[i].enable
        IN  /\ c.bind = sp.bind /\ c.port = sp.port
            /\ c.recurse = sp.recurse /\ c.mesh = sp.mesh
            /\ [i \in DOMAIN c.resolvers |-> [c.resolvers[i] EXCEPT !.opt = FALSE]]
               = [i \in DOMAIN sp.resolvers |-> [sp.resolvers[i] EXCEPT !.opt = FALSE]]
            /\ c.dnsEnabled = on(Cl!DnsAgent) /\ c.meshEnabled = on(Cl!MeshProxy)

\* The mTLS agent cannot be built when its options are invalid, its
\* unix socket's directory cannot be created, or the CA client fails.
MtlsAgentFails(f) ==
    \/ "init" \in f.mtls \/ "ca" \in f.mtls
    \/ f.unix /\ "mkdir" \in f.mtls

\* Section 4.8, start-up, and section 7, configuration errors: initAgent
\* instantiates exactly the components the configuration enables (the DNS
\* server always, the debug server when enabled, a mesh feature when it
\* and meshproxy are on) with the shared SDKContext set, and fails exactly
\* when the configuration is rejected, an enabled resolver is not a
\* registered plugin, or a step that talks to the outside world fails.
\* In particular no plugin's Initialize fails for want of an SDKContext.
StartupMatchesSpec ==
    last.op = "startup" =>
        LET cfg == last.args[1]  c == cfg.conf
            debug == last.args[2]  f == last.args[3]
            names == {c.resolvers[i].name :
                        i \in {j \in DOMAIN c.resolvers : c.resolvers[j].enable}}
            mesh == {m \in {"mtls", "rls", "metrics"} : Cl!isMeshEnabled(c, m)}
            ok == /\ cfg.res = "ok" /\ ~f.log /\ ~f.sdk
                  /\ ~(c.recurse.enable /\ f.recurse)
                  /\ names \subseteq {Cl!DnsAgent, Cl!MeshProxy}
                  /\ names \cap f.bad = {}
                  /\ ~("mtls" \in mesh /\ MtlsAgentFails(f))
        IN  /\ (last.out.res = "ok") = ok
            /\ ok => /\ last.out.sdk
                     /\ last.out.built = {"dns"} \cup {x \in {"debug"} : debug} \cup mesh

\* Section 4.7, step 2, as a reference: the delay of a cluster is the
\* third value of the last upstream_rq_time histogram whose name, between
\* its first and its last dot, is that cluster; quantile lists with fewer
\* than three values or a nil third value give none.  A failed scrape
\* gives no delays, so every report carries 0.
SpecDelays(scrape) ==
    LET stats == IF scrape.ok THEN scrape.stats ELSE << >>
        qs == FlattenSeq([i \in DOMAIN stats |->
                            IF stats[i] = NilValue THEN << >> ELSE stats[i]])
        key(n) == SubSeq(n, SelectInSeq(n, LAMBDA t : t = Ud!Dot) + 1,
                         SelectLastInSeq(n, LAMBDA t : t = Ud!Dot) - 1)
        usable == SelectSeq(qs, LAMBDA q : /\ Ud!clusterRegexMatch(q.name)
                                          /\ Len(q.values) >= 3
                                          /\ q.values[3] # NilValue)
        keys == {key(usable[i].name) : i \in DOMAIN usable}
    IN  [c \in keys |->
           usable[SelectLastInSeq(usable, LAMBDA q : key(q.name) = c)].values[3]]

UpstreamDelayMatchesSpec ==
    last.op = "delay" => last.out = SpecDelays(last.args[1])

\* RFC 6891 section 6.1.1, which section 4.3's "the response must include
\* an OPT record mirroring UDPSize" relies on: a written reply holds at
\* most one OPT record.
SingleOpt ==
    last.op = "write" => Len(last.out.opts) <= 1

\* WriteDnsResponse and WriteDnsCode truncate before setEDNS appends the
\* reply's OPT record (dns.go:36-38): to an EDNS0 request, everything but
\* that last OPT record fits the normalised advertised size, so a reply
\* overruns it by exactly the appended record, never by more.  Truncate
\* reserves room for an OPT record the upstream message already carried.
OverrunIsAppendedOpt ==
    last.op = "write" /\ last.args[2].edns =>
        /\ last.out.opts # << >>
        /\ Fr!MsgLen([last.out EXCEPT !.opts = Front(@)])
               <= Fr!size(last.args[1], last.args[2])

====
