----------------------------- MODULE ConfigLoad -----------------------------
(***************************************************************************)
(* How the sidecar's configuration is assembled at start-up, in            *)
(* internal/bootstrap/config: InitConfig applies defaultSidecarConfig,     *)
(* then the YAML file (mergeFileConfig), then the environment (mergeEnv),  *)
(* then the command-line BootConfig (mergeBootConfig), then verify.        *)
(*                                                                         *)
(* A configuration is abstracted to the fields that decide what the        *)
(* sidecar runs: bind, port, recurse, the log level, the resolver entries  *)
(* (name, enable, and whether the Option map is allocated) and the mesh    *)
(* feature switches.  Wording, TTLs, suffixes, paths and the SDK settings  *)
(* are left out.  The environment is a function from variable names to     *)
(* strings ("" for unset).  A file is what yaml.v3 decodes: each key it    *)
(* sets (Absent for one it does not), a resolvers list that replaces the   *)
(* default list (its entries start from zero values, so their Option is    *)
(* nil unless the file gives one), or a decode error.                      *)
(***************************************************************************)
EXTENDS Integers, Sequences, SequencesExt

CONSTANTS
    Absent,   \* a key the YAML file does not set
    IntText   \* strconv.Atoi on the numerals the inputs use: [numeral -> int]

DnsAgent == "dnsagent"
MeshProxy == "meshproxy"

\* strconv.ParseBool: the strings it accepts and what they mean.
BoolText ==
    [s \in {"1", "t", "T", "TRUE", "true", "True"} |-> TRUE] @@
    [s \in {"0", "f", "F", "FALSE", "false", "False"} |-> FALSE]

\* getEnvStringValue, getEnvIntValue, getEnvBoolValue: an unset variable,
\* or one that does not parse, leaves the default.
getEnvStringValue(env, name, default) == IF env[name] # "" THEN env[name] ELSE default

\* Mutant: a value that does not parse as a bool reads as false.
getEnvBoolValueNoFallback(env, name, default) ==
    IF env[name] = "" THEN default
    ELSE IF env[name] \in DOMAIN BoolText THEN BoolText[env[name]] ELSE FALSE

getEnvIntValue(env, name, default) ==
    IF env[name] \in DOMAIN IntText THEN IntText[env[name]] ELSE default
getEnvBoolValue(env, name, default) ==
    IF env[name] \in DOMAIN BoolText THEN BoolText[env[name]] ELSE default

\* defaultSidecarConfig.
defaultSidecarConfig ==
    [bind |-> "0.0.0.0", port |-> 53,
     recurse |-> [enable |-> FALSE, timeout |-> 1], level |-> "info",
     resolvers |-> << [name |-> DnsAgent, enable |-> TRUE, opt |-> FALSE],
                      [name |-> MeshProxy, enable |-> FALSE, opt |-> TRUE] >>,
     mesh |-> [mtls |-> FALSE, rls |-> FALSE, metrics |-> FALSE],
     dnsEnabled |-> FALSE, meshEnabled |-> FALSE]

\* A file value over a current one.
Over(v, cur) == IF v = Absent THEN cur ELSE v

\* mergeFileConfig: a decode error is returned; a missing file
\* (utils.ReadFile gives nil, nil) changes nothing.
mergeFileConfig(s, file) ==
    IF ~file.parses THEN [err |-> TRUE, conf |-> s]
    ELSE [err |-> FALSE,
          conf |-> [s EXCEPT !.bind = Over(file.bind, @), !.port = Over(file.port, @),
                       !.recurse.enable = Over(file.recurse, @),
                       !.level = Over(file.level, @),
                       !.resolvers = Over(file.resolvers, @),
                       !.mesh = [f \in DOMAIN @ |-> Over(file.mesh[f], @[f])]]]

\* The feature switches and their variables.
MeshEnv == [mtls |-> "SIDECAR_MTLS_ENABLE", rls |-> "SIDECAR_RLS_ENABLE",
            metrics |-> "SIDECAR_METRIC_ENABLE"]

\* One resolver entry in mergeEnv's loop.  A meshproxy entry whose Option
\* is nil panics on the write of reload_interval_sec or dns_answer_ip.
envResolver(env, e) ==
    CASE e.name = DnsAgent ->
            [e EXCEPT !.enable = getEnvBoolValue(env, "SIDECAR_DNS_ENABLE", @),
                      !.opt = @ \/ env["SIDECAR_DNS_ROUTE_LABELS"] # ""]
      [] e.name = MeshProxy ->
            [e EXCEPT !.enable = getEnvBoolValue(env, "SIDECAR_MESH_ENABLE", @)]
      [] OTHER -> e

envPanics(env, e) ==
    /\ e.name = MeshProxy /\ ~e.opt
    /\ getEnvIntValue(env, "SIDECAR_MESH_RELOAD_INTERVAL", 0) > 0
       \/ env["SIDECAR_MESH_ANSWER_IP"] # ""

\* mergeEnv.
mergeEnv(s, env) ==
    [panic |-> \E i \in DOMAIN s.resolvers : envPanics(env, s.resolvers[i]),
     conf |-> [s EXCEPT
        !.bind = getEnvStringValue(env, "SIDECAR_BIND", @),
        !.port = getEnvIntValue(env, "SIDECAR_PORT", @),
        !.recurse = [enable |-> getEnvBoolValue(env, "SIDECAR_RECURSE_ENABLE", @.enable),
                     timeout |-> getEnvIntValue(env, "SIDECAR_RECURSE_TIMEOUT", @.timeout)],
        !.level = getEnvStringValue(env, "SIDECAR_LOG_LEVEL", @),
        !.resolvers = [i \in DOMAIN @ |-> envResolver(env, @[i])],
        !.mesh = [f \in DOMAIN @ |-> getEnvBoolValue(env, MeshEnv[f], @[f])]]]

\* utils.ParseLabels on a comma-separated list, given as its tokens, each
\* as its colon-separated parts: the keys of the tokens with two or more.
ParseLabels(tokens) == {tokens[i][1] : i \in {j \in DOMAIN tokens : Len(tokens[j]) > 1}}

\* strconv.ParseBool of a boot flag: value FALSE and an error when the
\* text is not a bool.
parseFlag(text) ==
    IF text \in DOMAIN BoolText THEN [v |-> BoolText[text], err |-> FALSE]
    ELSE [v |-> FALSE, err |-> TRUE]

\* One resolver entry in mergeBootConfig's loop, which runs only when a
\* dnsagent flag is given.
bootResolver(b, e) ==
    CASE e.name = DnsAgent ->
            [e EXCEPT !.enable = IF b.dnsAgentEnabled # ""
                                 THEN parseFlag(b.dnsAgentEnabled).v ELSE @,
                      !.opt = @ \/ ParseLabels(b.dnsAgentRouteLabels) # {}]
      [] e.name = MeshProxy /\ b.meshProxyEnabled # "" ->
            [e EXCEPT !.enable = parseFlag(b.meshProxyEnabled).v]
      [] OTHER -> e

\* mergeBootConfig: set flags override; the log level is set, and then
\* set again unconditionally; every parse error is collected and returned.
mergeBootConfig(s, b) ==
    LET resolverFlags == b.dnsAgentEnabled # "" \/ b.dnsAgentRouteLabels # << >>
        entries == {e \in DOMAIN s.resolvers : s.resolvers[e].name = DnsAgent}
    IN  [err |-> \/ b.recurseEnabled # "" /\ parseFlag(b.recurseEnabled).err
                 \/ resolverFlags /\ b.dnsAgentEnabled # "" /\ entries # {}
                                  /\ parseFlag(b.dnsAgentEnabled).err
                 \/ resolverFlags /\ b.meshProxyEnabled # ""
                                  /\ (\E e \in DOMAIN s.resolvers : s.resolvers[e].name = MeshProxy)
                                  /\ parseFlag(b.meshProxyEnabled).err,
         conf |-> [s EXCEPT
            !.bind = IF b.bind # "" THEN b.bind ELSE @,
            !.port = IF b.port > 0 THEN b.port ELSE @,
            !.recurse.enable = IF b.recurseEnabled # "" THEN parseFlag(b.recurseEnabled).v ELSE @,
            !.level = b.logLevel,
            !.resolvers = IF resolverFlags THEN [i \in DOMAIN @ |-> bootResolver(b, @[i])]
                          ELSE @]]

\* verify: the checks on the modelled fields, and DnsEnabled / MeshEnabled
\* set from the enabled entries.
Levels == {"debug", "info", "warn", "error", "fatal"}
verify(s) ==
    LET enabled(n) == \E i \in DOMAIN s.resolvers :
                         s.resolvers[i].enable /\ s.resolvers[i].name = n
        conf == [s EXCEPT !.dnsEnabled = @ \/ enabled(DnsAgent),
                          !.meshEnabled = @ \/ enabled(MeshProxy)]
    IN  [conf |-> conf,
         err |-> \/ s.level # "" /\ s.level \notin Levels
                 \/ s.bind = "" \/ s.port <= 0 \/ s.recurse.timeout <= 0
                 \/ s.resolvers = << >>
                 \/ ~conf.dnsEnabled /\ ~conf.meshEnabled]

\* InitConfig: the first error ends it; a panic in mergeEnv ends the process.
InitConfig(file, env, boot) ==
    LET f == mergeFileConfig(defaultSidecarConfig, file)
        e == mergeEnv(f.conf, env)
        b == mergeBootConfig(e.conf, boot)
        v == verify(b.conf)
    IN  CASE f.err -> [res |-> "err", conf |-> f.conf]
          [] e.panic -> [res |-> "panic", conf |-> e.conf]
          [] b.err \/ v.err -> [res |-> "err", conf |-> v.conf]
          [] OTHER -> [res |-> "ok", conf |-> v.conf]

\* isMeshMetricsEnabled, isMeshMTLSEnabled, isMeshRatelimitEnabled: a mesh
\* feature starts only with an enabled meshproxy resolver.
isMeshEnabled(s, f) == s.meshEnabled /\ s.mesh[f]

-----------------------------------------------------------------------------
(* InitConfig's comment, as a reference definition: "order of priority is: *)
(* file < environment < bootstrap".  A source that sets nothing (an unset  *)
(* or unparsable variable, an empty flag, a missing key) is passed over.   *)
(* Not met by mergeBootConfig, which reads the meshproxy flag only when a  *)
(* dnsagent flag is given, nor for the log level, which the boot config    *)
(* sets even when its flag is empty; the log level is left out here.       *)

Prior(sources, default) ==
    LET set == SelectSeq(sources, LAMBDA src : src.set)
    IN  IF set = << >> THEN default ELSE Head(set).v

Src(set, v) == [set |-> set, v |-> v]
EnvBool(env, name) == Src(env[name] \in DOMAIN BoolText, parseFlag(env[name]).v)
EnvInt(env, name) ==
    Src(env[name] \in DOMAIN IntText, getEnvIntValue(env, name, 0))
FileSrc(v) == Src(v # Absent, v)

SpecResolver(env, boot, e) ==
    [e EXCEPT !.enable =
        IF e.name = DnsAgent
        THEN Prior(<< Src(boot.dnsAgentEnabled # "", parseFlag(boot.dnsAgentEnabled).v),
                      EnvBool(env, "SIDECAR_DNS_ENABLE") >>, @)
        ELSE IF e.name = MeshProxy
        THEN Prior(<< Src(boot.meshProxyEnabled # "", parseFlag(boot.meshProxyEnabled).v),
                      EnvBool(env, "SIDECAR_MESH_ENABLE") >>, @)
        ELSE @]

SpecConfig(file, env, boot) ==
    LET d == defaultSidecarConfig
        rs == IF file.resolvers = Absent THEN d.resolvers ELSE file.resolvers
    IN  [bind |-> Prior(<< Src(boot.bind # "", boot.bind), Src(env["SIDECAR_BIND"] # "", env["SIDECAR_BIND"]),
                           FileSrc(file.bind) >>, d.bind),
         port |-> Prior(<< Src(boot.port > 0, boot.port), EnvInt(env, "SIDECAR_PORT"),
                           FileSrc(file.port) >>, d.port),
         recurse |->
            [enable |-> Prior(<< Src(boot.recurseEnabled # "", parseFlag(boot.recurseEnabled).v),
                                 EnvBool(env, "SIDECAR_RECURSE_ENABLE"), FileSrc(file.recurse) >>,
                              d.recurse.enable),
             timeout |-> Prior(<< EnvInt(env, "SIDECAR_RECURSE_TIMEOUT") >>, d.recurse.timeout)],
         resolvers |-> [i \in DOMAIN rs |-> SpecResolver(env, boot, rs[i])],
         mesh |-> [f \in DOMAIN d.mesh |->
                     Prior(<< EnvBool(env, MeshEnv[f]), FileSrc(file.mesh[f]) >>, d.mesh[f])]]

====
