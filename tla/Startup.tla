------------------------------ MODULE Startup -------------------------------
(***************************************************************************)
(* initAgent in internal/bootstrap/agent.go: from the configuration        *)
(* InitConfig produced to the set of components Start runs.  It creates    *)
(* the shared SDKContext (pkg/polaris InitPolarisContext), builds the DNS  *)
(* server with its resolver plugins (resolver.NewServer, whose dnsagent    *)
(* plugin takes a ConsumerAPI from that SDKContext), the debug server and  *)
(* the mesh components.  The first error ends it and the process exits.   *)
(*                                                                         *)
(* The steps that talk to the outside world (log.Configure opening its     *)
(* files, NewSDKContextByConfig, reading /etc/resolv.conf, a plugin's      *)
(* option parsing, mtls.New) succeed or fail as given by a record of       *)
(* faults:                                                                 *)
(*   [log, sdk, recurse : BOOLEAN, bad : names whose parseOptions fails,   *)
(*    mtls : the steps of mtls.New that fail, unix : whether the option    *)
(*    mtls.Option.init completes names a unix socket].                     *)
(* A component is named as in Supervisor: "dns", "debug", "mtls", "rls",   *)
(* "metrics".                                                              *)
(***************************************************************************)
EXTENDS ConfigLoad, FiniteSets

MeshComps == {"mtls", "rls", "metrics"}

\* common.NameResolver: the plugins registered by the blank imports of
\* resolver/server.go (dnsagent's init registers "dnsagent").
Registered == {DnsAgent, MeshProxy}

\* InitPolarisContext under its lock: an SDKContext already set is kept;
\* otherwise NewSDKContextByConfig fails (SDKContext stays nil) or sets it.
InitPolarisContext(sdk, fails) ==
    [sdk |-> sdk \/ ~fails, err |-> ~sdk /\ fails]

\* InitPolarisApi: the SDK configuration (addresses, location, and the
\* metrics reporter when mesh metrics are on) is passed to
\* InitPolarisContext, called once, before anything holds SDKContext.
InitPolarisApi(faults) == InitPolarisContext(FALSE, faults.sdk)

\* GetConsumerAPI: an error while SDKContext is nil.
GetConsumerAPI(sdk) == [ok |-> sdk, err |-> ~sdk]

\* A plugin's Initialize.  dnsagent: parseOptions, then GetConsumerAPI.
\* meshproxy (not in this repository) fails only on its options here.
Initialize(name, sdk, bad) ==
    /\ name \notin bad
    /\ name = DnsAgent => ~GetConsumerAPI(sdk).err

\* resolver.NewServer's loop over the resolver entries, from entry i with
\* the plugins initialised so far.  A disabled entry is skipped; an
\* unregistered name returns an error as it is; a failed Initialize first
\* destroys the plugins initialised before it.
RECURSIVE NewServerFrom(_, _, _, _, _)
NewServerFrom(rs, i, inited, sdk, bad) ==
    IF i > Len(rs) THEN [err |-> FALSE, inited |-> inited, destroyed |-> {}]
    ELSE LET e == rs[i] IN
         CASE ~e.enable -> NewServerFrom(rs, i + 1, inited, sdk, bad)
           [] e.name \notin Registered ->
                [err |-> TRUE, inited |-> inited, destroyed |-> {}]
           [] ~Initialize(e.name, sdk, bad) ->
                [err |-> TRUE, inited |-> inited, destroyed |-> ToSet(inited)]
           [] OTHER -> NewServerFrom(rs, i + 1, Append(inited, e.name), sdk, bad)

NewServer(rs, sdk, bad) == NewServerFrom(rs, 1, << >>, sdk, bad)

\* InitDnsResolver: InitRecurseConfig (when recursion is on) can fail on
\* /etc/resolv.conf; otherwise NewServer.  A DNS server is always built.
InitDnsResolver(conf, sdk, faults) ==
    IF conf.recurse.enable /\ faults.recurse
    THEN [err |-> TRUE, inited |-> << >>, destroyed |-> {}]
    ELSE NewServer(conf.resolvers, sdk, faults.bad)

\* InitDebugServer: built when the debugger is enabled and the DNS server
\* exists; RegisterDebugHandler cannot fail on the ServeMux NewDebugServer
\* installs.  InitMeshMetrics, InitMeshRatelimit, InitMeshMtls: built when
\* the feature is on and meshproxy is enabled.
Built(conf, debug) ==
    {"dns"} \cup {c \in {"debug"} : debug}
            \cup {f \in MeshComps : isMeshEnabled(conf, f)}

\* mtls.New: Option.init, then MkdirAll of the socket's directory when the
\* network is "unix", then caclient.NewWithRootCA with the service-account
\* token (ServiceAccountToken drops a read error and passes "").  The
\* first failure is returned; grpc.NewServer, rotator.New and sds.New
\* cannot fail.
mtlsNew(faults) ==
    faults.mtls \cap (IF faults.unix THEN {"init", "mkdir", "ca"} ELSE {"init", "ca"}) = {}

\* InitMeshMtls: no agent unless mesh mTLS is on; otherwise mtls.New.
InitMeshMtls(conf, faults) == ~isMeshEnabled(conf, "mtls") \/ mtlsNew(faults)

\* Mutant: the DNS server (and its plugins) built before InitPolarisApi.
initAgentDnsFirst(cfg, debug, faults) ==
    LET c == cfg.conf
        api == InitPolarisApi(faults)
        dns == InitDnsResolver(c, FALSE, faults)
        fail(sdk) == [res |-> "err", built |-> {}, sdk |-> sdk]
    IN  CASE cfg.res # "ok" -> [res |-> cfg.res, built |-> {}, sdk |-> FALSE]
          [] faults.log -> fail(FALSE)
          [] dns.err -> fail(FALSE)
          [] api.err -> fail(FALSE)
          [] ~InitMeshMtls(c, faults) -> fail(TRUE)
          [] OTHER -> [res |-> "ok", built |-> Built(c, debug), sdk |-> TRUE]

\* initAgent.  sdk is whether SDKContext is set and was not destroyed by
\* NewServer's rollback (a dnsagent consumer's Destroy destroys it).
initAgent(cfg, debug, faults) ==
    LET c == cfg.conf
        api == InitPolarisApi(faults)
        dns == InitDnsResolver(c, api.sdk, faults)
        fail(sdk) == [res |-> "err", built |-> {}, sdk |-> sdk]
    IN  CASE cfg.res # "ok" -> [res |-> cfg.res, built |-> {}, sdk |-> FALSE]
          [] faults.log -> fail(FALSE)
          [] api.err -> fail(FALSE)
          [] dns.err -> fail(DnsAgent \notin dns.destroyed)
          [] ~InitMeshMtls(c, faults) -> fail(TRUE)
          [] OTHER -> [res |-> "ok", built |-> Built(c, debug), sdk |-> TRUE]

=============================================================================
