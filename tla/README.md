# TLA+ models of polaris-sidecar

These modules model the Go sources under `src/` of polaris-sidecar. The
sidecar runs next to an application. It answers the application's DNS
queries from the Polaris registry, falls back to the host's nameservers,
and optionally serves Envoy's rate-limit (RLS) and secret-discovery (SDS)
gRPC APIs. It can also report Envoy upstream statistics to the registry.
Every definition is translated from the code. `PROJECT.json` maps each
definition to the lines it models.

## The system

| Part | Source | Role |
|---|---|---|
| Supervisor | `internal/bootstrap/entry.go`, `agent.go` | Starts every component's `Run` on its own goroutine with a shared context, `WaitGroup` and buffered error channel. Cancels on a signal or the first error, then waits up to 30 s. |
| DNS server | `internal/resolver/server.go` | One `dns.Server` per protocol (UDP and TCP). `Run` starts the resolvers and one serve goroutine per listener. `Destroy` shuts both down, then destroys the resolvers. |
| DNS handler | `internal/resolver/handler.go`, `common/dns.go` | One goroutine per query (miekg/dns). Answers REFUSED for an empty question. Asks the resolver chain for A/AAAA/SRV, then falls back to the recursor, then writes SERVFAIL. |
| dnsagent resolver | `internal/resolver/dnsagent/plugin.go` | Answers `<hex-ip>._addr.…` names by decoding the address. Answers `<svc>.<ns>.<suffix>` names by a `GetOneInstance` registry call. |
| Recursor | `internal/resolver/recursor/proxy.go`, `base.go` | Expands the name by the search domains. Tries `Attempts` upstreams per name, chosen by a rotation index under a mutex. Returns the first acceptable reply. |
| Name parsing | `pkg/utils/util.go`, `handler.go`'s `Preprocess`, `proxy.go`'s `expandQuery` | Splits `<svc>.<ns>.<suffix>` into a service key. Strips search domains before the resolver chain. Expands short names for the recursor. |
| Metrics | `internal/mesh/metrics/server.go` | Every 30 s, scrapes Envoy's stats, computes per-instance deltas and reports them to the registry. |
| RLS | `internal/mesh/rls/server.go` | gRPC `ShouldRateLimit`, which translates descriptors into a `GetQuota` call. |
| mTLS/SDS | `internal/mesh/mtls/agent.go` | An SDS gRPC server plus a certificate rotator. The rotator, SDS and certificate manager are not in this repository. |
| Debug | `internal/debugger/server.go` | pprof and health HTTP endpoints. |
| Polaris client | `pkg/polaris/client.go` | The one shared `SDKContext`. Every consumer or limit API built on it destroys it in its own `Destroy`. |
| Recursor configuration | `recursor/base.go`, `bootstrap/config/config.go` | `InitDnsResolver` builds the recursor's `Config` at start-up from the sidecar's bind address, its `recurse.name_servers` and `/etc/resolv.conf`. |
| Configuration | `internal/bootstrap/config/*` | `InitConfig`: defaults, then the YAML file, then the environment, then the command-line flags, then `verify`, which also decides `DnsEnabled` and `MeshEnabled` (and so which mesh components start). |

These parts interact in the following ways:

- The supervisor owns the lifecycle of every component.
- The DNS handler calls the dnsagent resolver and the recursor.
- The DNS resolver, the metrics reporter and the RLS server all share the
  SDK context.
- Fatal errors from the debug, DNS, mTLS and RLS serve goroutines, and
  startup errors from their `Run` methods, reach the supervisor through
  the error channel.

## Modules

### `DnsAgent`: the dnsagent resolver as a pure operator

`ServeDNS(q, matched, reg)` is `resolverDiscovery.ServeDNS` for one
question. A question is abstracted to three things:

- its qtype;
- the form of its `_addr` label: none, first label, bad hex, or decoded
  to 2, 4 or 16 bytes;
- whether `ParseQname` matched the suffix.

The registry's answer is the input `reg`.

The result is one of:

- `nil`, so the next resolver is asked;
- an `answer`;
- an `unpackable` message, which `dns.Msg.Pack` rejects: a nil RR, or an
  address of the wrong length for the record type;
- a `panic`, from `labels[i-1]` when `i = 0`.

### `DnsServe`: the handler, the resolver chain and the recursor

Each request `r` in `Req` is a goroutine with a program counter:

- `idle`;
- `resolve`: in the resolver loop;
- `recurse`: entering `HandleDNS`;
- `acquire` and `release`: the two halves of `RotatingUpstream.Next` around
  its mutex `mu`;
- `exchange`: `client.Exchange` to the chosen upstream;
- `done`.

Actions, one per step of the code:

| Action | Code it models |
|---|---|
| `ServeDNS` | The REFUSED and `canDoResolve` tests. |
| `ServeResolver` | One iteration of the resolver loop. |
| `HandleDNS` | Entry into the recursor, with the `domains × attempts` loop bounds. |
| `NextLock` / `NextUnlock` | `Next`. |
| `Exchange` | One attempt and the response switch. |

`Exchange` takes its outcome from `Outcomes`: no response with an error,
or NOERROR, NXDOMAIN or SERVFAIL with the `Truncated` and error flags.

History variables record what happened, so the properties can be stated:

- `nEx`: the number of exchanges per request;
- `picks`: how often each upstream was picked;
- `replies`: every message written, with its rcode and origin;
- `tried`, `namePicks` and `since`: for the name a request is trying, the
  upstream positions `Next` handed it, how many times it called `Next`, and
  how many calls of `Next` (by anyone) came before its first. `RecordPick`
  updates them in `NextUnlock`. No guard reads them.

`WriteDnsResponse` applies `SetReply`, which resets the rcode, as the
code does.

`MC_DnsServe` does not invent the recursor's configuration: the upstream
list, `Attempts` and the search list are what `RecurseConfig`'s
`InitDnsResolver` builds for a sidecar bound to 127.0.0.1 (name server
10.0.0.1, resolv.conf listing 127.0.0.1 and 10.0.0.2 with
`options attempts:1`, which `fillByResolvConfig` raises to the two
upstreams), or, for the
empty-upstream run, bound to 0.0.0.0 with a resolv.conf listing only
127.0.0.1.

### `DnsService`: what the serving path promises, and the refinement

`DnsService` is the abstract specification of the handler: a request
without a question is refused at once (`Refuse`); any other is taken in
(`Receive`) and later, in one step, answered once with one of `Answers`
(the resolver's NOERROR, an upstream NOERROR or NXDOMAIN, or SERVFAIL) or
dropped without a reply (`Drop`: a recovered panic, an unpackable
message). Weak fairness on finishing says every request taken in is
finished.

`DnsServe` defines `Service == INSTANCE DnsService WITH st <- …, out <-
replies`: a goroutine at `idle` or `done` is that state, any program
counter in between is `busy`. `dns_pass` checks `DnsServiceSpec ==
Service!Spec` as a property, so every step of the lock, the rotation, the
exchanges and the retries is a stutter of the abstract specification, and
the step that writes is one of its steps.

### `RecurseConfig`: how the upstream list is built

`InitDnsResolver` (only with `recurse.enable`), `bindLocalhost`,
`InitRecurseConfig`, the two `mergeUpstream` calls sharing
`nameServerMap`, `needSkip`, `getBigger` and `fillByResolvConfig`, as
operators. `/etc/resolv.conf` is an input: missing (the recursor is
silently off), unparsable (start-up fails), or the `ClientConfig` miekg/dns
parses. `SpecUpstream` restates section 2's `RecursorConfig` invariant.

### `ConfigLoad`: the start-up configuration overlay

`InitConfig` and what it calls, as operators: `defaultSidecarConfig`,
`mergeFileConfig`, `mergeEnv`, `mergeBootConfig` and `verify`, the
`getEnv*Value` helpers, `ParseLabels`, and the `isMesh*Enabled` gates.
A configuration is cut down to the fields that decide what runs: bind, port,
the recurse switch and timeout, the log level, the resolver entries (name,
enable, whether their `Option` map exists), and the three mesh switches.
The environment is a function from variable names to strings. A file is
what yaml.v3 decodes: the keys it sets, a resolver list that replaces the
default one (its entries start from zero values), or a decode error.
`strconv.ParseBool` is its table, and `strconv.Atoi` is a table of the
numerals the inputs use. `InitConfig` ends in `ok`, `err`, or `panic`. The
panic is the nil-map write in `mergeEnv`. `SpecConfig` restates the
comment on `InitConfig` ("file < environment < bootstrap") as the value of
the highest source that sets each field.

### `Startup`: from the configuration to the running components

`initAgent` and what it calls, as operators over a configuration
`ConfigLoad` produced:

- `InitPolarisApi` and `InitPolarisContext`: the shared `SDKContext` is
  kept if already set; otherwise `NewSDKContextByConfig` fails or sets it.
- `InitDnsResolver`: `InitRecurseConfig` may fail on `/etc/resolv.conf`.
  Otherwise `resolver.NewServer`'s loop runs (`NewServerFrom`). It skips a
  disabled entry, and returns an error on an unregistered plugin name with
  no rollback. A failed `Initialize` first destroys the plugins
  initialised before it. The dnsagent plugin's `Initialize` takes its
  `ConsumerAPI` from `GetConsumerAPI`, which fails while `SDKContext` is
  nil.
- `Built`: the DNS server always, the debug server when enabled, and each
  mesh component when its switch and meshproxy are on
  (`InitDebugServer`, `InitMeshMetrics`, `InitMeshRatelimit`,
  `InitMeshMtls`).

The steps that talk to the outside world are a record of faults: opening
the log files, creating the SDK, reading `resolv.conf`, a plugin's option
parsing, and the three steps of `mtls.New` that can fail: `Option.init`,
`MkdirAll` of the socket's directory (only for a unix socket, which
`Option.init` decides), and `caclient.NewWithRootCA` (`mtlsNew`,
`InitMeshMtls`). The debugger switch is an input, because
`ConfigLoad` leaves it out. The result `built` is what `Supervisor` takes
as `Enabled`, and it always contains `"dns"`. That is why no Supervisor
run uses a component set without the DNS server.

### `UpstreamDelay`: the latency attached to each metrics report

`getClusterStats` and `parseUpstreamDelay`, as operators:

- A stat name is a sequence of tokens: the dot, the words `cluster` and
  `upstream_rq_time`, and other text. With that, `clusterRegex`, the first
  dot (`strings.Index`) and the last dot of the rest (`strings.LastIndex`)
  keep their meaning.
- A scrape is `Nil` (every HTTP, read or JSON failure) or the stats list.
  A stat is `Nil` (no histograms) or its computed quantiles.
- The quantiles are folded in order, so a later histogram for the same
  cluster replaces an earlier one.
- `DelayOf` is the report's `delayValues[ClusterName]`, which is 0 for a
  cluster without a histogram.

`Telemetry`'s properties do not depend on the delay, so its `Tick`
leaves it out.

### `DnsFraming`: the response writers

`WriteDnsResponse` and `WriteDnsCode` with `size`, `ednsSize`, `setEDNS`,
`ednsSubnetForRequest`, and the `SetReply` and `Truncate` of miekg/dns.
A message is its rcode, its TC bit, the wire lengths of its records in
section order, and its OPT records. `Truncate` follows miekg/dns v1.1:
a message that fits is left alone; otherwise the first OPT record is
popped and its length reserved, the longest prefix of records that fits
is kept, TC is set if one was dropped, and the OPT record is put back.
Lengths are uncompressed (compression only helps a message fit).

### `Supervisor`: lifecycle of all five components

The module has four kinds of actor:

- The main goroutine: `main`, in `runMainLoop`, then waiting for the
  WaitGroup with its deadline.
- One `Run` goroutine per enabled component, in `run[c]`, with its
  startup steps, failure paths and deferred teardown.
- One serve goroutine per listener, in `srv[s]`. It fails on its own, or
  returns after its component's shutdown, and then sends its result on the
  channel.
- The request handlers that call the registry: a DNS query and
  `ShouldRateLimit`, in `call`. The metrics ticker's report is also such
  a call.

`errCh` is the channel's contents, with the capacity from
`getErrorChannel`. `wg` is the WaitGroup counter.

`sdkAlive` and `handle` track the shared `SDKContext`, and `destroyed`
records which `Destroy` methods have run. `deadUse` records registry calls
made on a destroyed SDK.

The orders that matter are kept as the code has them:

- each `Run` executes its own `wg.Add(1)`;
- the debug server calls `wg.Done()` before `Destroy()`;
- RLS destroys its limiter before `GracefulStop`. New RPCs are still
  accepted between the two. Once `GracefulStop` has begun
  (`RlsGracefulStop`), it refuses them and waits for the calls in flight
  (`RlsStop`);
- a nil error received by the main loop panics inside `runMainLoop`, which
  returns without calling `cancel()`.

The constants are:

- `Enabled`: the components `initAgent` built;
- `Callers`: the components whose registry calls are modelled, which
  keeps the pass runs small.

### `Names`: the name rules as string operators

Strings are sequences of characters over a four-character alphabet:
`p`, `P` (which `ToLower` maps to `p`), `x`, and the dot. `SysNamespace`
("polaris") is `<<"p">>`.

The operators follow the code:

- `AddQuota`, `RemoveQuota`, `MatchSuffix` and `ParseQname` (with
  `LastDot` for `strings.LastIndex`);
- `Preprocess`, the first search domain that ends the name is cut off;
- `ExpandQuery` (with `Dots` for `strings.Count`);
- `LookupKey`, the composition the serving path performs: `ServeDNS`
  hands `Preprocess(question.Name)` to the dnsagent resolver, whose
  `lookupFromPolaris` parses it with `ParseQname`.

The reference definitions restate sections 4.1, 4.3 and 4.4 over labels
(`Split`, `Join`, `ParseQnameSpec`, `PreprocessSpec`).

### `RlsTranslate`: the rate-limit translation

`ShouldRateLimit` and `BuildQuotaRequest` cover:

- the `hits_addend` default;
- the inner loop (`AddEntry`: `:path` sets the method, any other key adds
  an argument);
- the outer loop (`AddDescriptors`, skipping nil descriptors);
- the domain's `.namespace` suffix;
- one status per descriptor.

The quota request is a record of the fields the SDK setters write.
`GetQuota`'s outcome is an input. `SpecRequest` is section 4.5 as a
reference definition.

### `MC_Translate`: the harness for the operator modules

Each step, from the initial state only, evaluates one operator on inputs
chosen from bounded sets. The invariants compare the result with the
reference. Every input is one distinct state. It checks `Names`,
`RlsTranslate`, `RecurseConfig`, `DnsFraming`, `ConfigLoad` and
`Startup` (composed with `ConfigLoad`) and `UpstreamDelay`.

### `Telemetry`: the metrics reporter's loop

`Tick` is one iteration of `metrics.Server.Run`'s loop: `cleanCounter`, the
eviction of entries older than five minutes every tenth tick, and
`reportMetricByCluster`. A scrape either fails (nothing changes but
time) or reports, for every host Envoy lists, `Delta(current, stored)` or
the whole cumulative for a key not in the map, and stores the new
snapshot. Time is counted in ticker intervals: an entry's `LastActiveTime`
is its `age`. An iteration that reported calls may, when `SlowRegistry`,
overrun by `OverrunTicks` intervals: `reportStatus` sleeps 0.7 s over three
failing attempts for every single call. Envoy is the environment:
`Request`, `LeaveCluster`, and `JoinCluster` with fresh counters. The
history variables are `total` (requests Envoy counted) and `reported`.

## Runs

| Run | Expect | What it checks |
|---|---|---|
| `dns_pass` | pass | Two requests, two upstreams, two search domains and two attempts. See below. |
| `dns_empty_upstream` | violation | `EventuallyAnswered` with an empty upstream list: `Next` panics and nothing is written. |
| `dns_nxdomain` | violation | `UpstreamRcodePreserved`: an upstream NXDOMAIN is written as NOERROR. |
| `sup_pass` | pass | Debug, DNS, mTLS and metrics. `NoRunBlockedOnErrCh`: after the main loop has gone, no `Run` waits for a free slot in the channel. `MainLoopNeverStuck`: the main loop never receives a nil error. |
| `sup_calls` | pass | DNS, RLS and metrics with registry calls and metrics ticks. `MainLoopNeverStuck` holds across RLS's three startup paths. `ShutdownTerminates` holds under the goroutines' fairness: once the main loop has returned, `wg.Wait` returns without the 30 s timer. This holds even while registry calls and ticks race the cancel. |
| `sup_graceful` | violation | `GracefulShutdownComplete`: a signal before `wg.Add(1)` lets Start report a graceful shutdown with the DNS server never destroyed. |
| `sup_rls_destroy` | violation | `RegistryUsedOnlyWhileAlive`, with the RLS and DNS servers: a `ShouldRateLimit` in flight calls `GetQuota` after `limiter.Destroy()`. |
| `tele_pass` | pass | One host, Envoy failing at most nine ticks in a row. `NoOverReport`: no key is reported more calls than Envoy counted, across rejoins with fresh counters. `MemoryBound`: an inactive entry is gone within ten ticks of its five-minute limit. |
| `tele_slow_registry` | violation | `NoOverReport`: a reporting loop slowed past five minutes by `reportStatus` retries has its still-active keys evicted, and it re-reports their cumulative counts. |
| `translate_pass` | pass | `ParseQnameMatchesSpec`: the key is the last label and the labels before it, exactly when the canonical suffix matches. `RequestMatchesSpec`: the quota request is the one section 4.5 describes, nil descriptors and several `:path` entries included. |
| `translate_double_opt` | violation | `SingleOpt`: a forwarded upstream reply to an EDNS0 request keeps the upstream's OPT record, and `setEDNS` appends a second. |
| `translate_preprocess_label` | violation | `LookupKeyMatchesSpec`: the registry key of a question, `Preprocess` then `ParseQname`, against sections 4.3 and 4.1. With search domain `x`, the question `xx.` is looked up as service `x` instead of `xx`. With `svc.cluster.local`, `foosvc.cluster.local.` is looked up as service `foo`. |

`dns_pass` checks these properties:

- `RotationBalanced`: the rotation stays exactly balanced however the two
  goroutines interleave on the mutex.
- `AttemptsReachEveryUpstream`: a request that has used all its attempts
  on a name, with no other request calling `Next` in between, was handed
  every upstream. This is what raising `Attempts` to the number of
  upstreams (`base.go:62`) is for. Under concurrent load a request can
  miss an upstream; the spec promises only the global balance of
  `RotationBalanced`.
- `ServFailOnlyWhenExhausted`: SERVFAIL is written only after every name
  and attempt.
- `DnsServiceSpec`: `DnsServe` implements `DnsService`, which includes
  that every request finishes, that at most one reply is written per
  request, and that an upstream reply is forwarded only with NOERROR or
  NXDOMAIN (so no upstream SERVFAIL reaches the client). These are
  checked once, as part of the refinement, and not restated as
  invariants.

`translate_pass` also checks:

- `RecurseConfigMatchesSpec`: for every bind address (loopback,
  0.0.0.0, another), every list of up to two explicit name servers and
  every resolv.conf with up to two servers, the upstream list is section
  2's: priority order, no duplicates, no 127.0.0.1 when bound locally.
- `FitsWithoutEdns`: a reply to a request without EDNS0 fits 512 bytes
  over UDP and 65535 over TCP.
- `OverrunIsAppendedOpt`: to an EDNS0 request, everything but the last OPT
  record fits the normalised advertised size. Because `Truncate` runs before
  `setEDNS` (`dns.go:36-38`), the reply overruns the size by exactly the
  record `setEDNS` appends, and `Truncate` reserves room for an OPT record
  the upstream reply already carried.
- `ConfigPrecedence`: for every boot flag set whose meshproxy flag is
  either unset or given together with a dnsagent flag (`MeshFlagRead`),
  in every configuration `InitConfig` accepts, these fields hold the
  value of the highest source that sets them: bind, port,
  the recurse switch and timeout, each resolver's enable, and each mesh
  switch. Defaults, file, environment and flags are all varied. The
  inputs include unparsable variables and flags, and a file whose
  resolver list replaces the default one. `DnsEnabled` and `MeshEnabled`
  follow the enabled entries. A meshproxy flag given alone is outside
  the claim (see "Not modelled"). The inputs reach that case, and the
  unnarrowed claim fails on it.
- `StartupMatchesSpec`: for the configurations `InitConfig` gives for
  these resolver lists (dnsagent, meshproxy, both, or dnsagent with an
  unregistered plugin) and for a file that does not decode, with the
  debugger on or off and every combination of the faults:
  - `initAgent` succeeds exactly when the configuration is accepted, every
    enabled plugin is registered, and no external step fails;
  - it then builds exactly the enabled components, with `SDKContext` set.
  
  This is the ordering that makes the dnsagent plugin's `Initialize` find
  an `SDKContext`. Building the DNS server before `InitPolarisApi` breaks it.
- `UpstreamDelayMatchesSpec`: section 4.7's rule (step 2), checked on two input
  sets. The first is every stat name of up to six tokens. The second is
  every scrape of up to two stats of up to two quantiles, with too few
  values, a nil third value, or a dotted cluster name. Under the rule,
  each cluster gets the third quantile of its last usable histogram whose
  name, between the first and the last dot, is that cluster.

Every property of a passing run has a mutant in `PROJECT.json`. A mutant
is a plausible code bug, such as a dropped lock, a swapped case order or a
missing send, and TLC finds the property violated when the mutant replaces
the code's definition.

`sup_pass` is exactly tight. The channel has 5 slots (debug 1, DNS 2,
mTLS 1, metrics 1). The largest burst after a signal is also 5:

- the debug serve goroutine returns `ErrServerClosed`;
- the two DNS listeners each return;
- the mTLS serve goroutine fails;
- the mTLS rotator error arrives.

The metrics reporter never sends, and its slot is what absorbs the second
mTLS send. Without the metrics reporter the mTLS agent's one slot does not
cover its two senders (its serve goroutine and the rotator error in
`Run`): after a signal its `Run` blocks for good and the shutdown runs
into the 30 s deadline. That configuration is not a run of its own. The `WeightDnsOne` mutant shrinks the channel by one and blocks
the mTLS `Run`. With all five components the property also holds: the RLS
serve goroutine's send fits its own slot. That run takes about 3 minutes,
so it is not one of the runs.

## Bounds

- `Req = {r1, r2}` is the smallest set in which two goroutines contend for
  the rotation mutex.
- Two upstreams, two search domains and `Attempts = 2` make every branch
  happen: wrap-around of the rotation, the next attempt, the next domain,
  and exhaustion.
- The question forms in `dns_pass` cover every control path of the handler
  except the unpackable answers, which the violation runs exercise:
  - `A`, `SRV`, `MX`;
  - `_addr` none, first, 4 bytes;
  - suffix matched or not;
  - the three registry results.
- The supervisor's state is finite by construction: each goroutine's
  program counter, and a channel no longer than its capacity. Each
  component's request handler has at most one call in flight.

- `MC_Translate`: names of up to five characters, over an alphabet with
  a case pair and the dot, contain every shape the rules tell apart:
  - several labels, a bare label, and empty labels;
  - names with and without a trailing dot;
  - a suffix or search domain that ends the name at a label boundary and
    one that ends it inside a label;
  - a name equal to a search domain;
  - "polaris" in either case.

  Three descriptors of up to two entries give nil descriptors between
  others and `:path` in two descriptors.

  Three name servers, one of them 127.0.0.1, in lists of up to two on
  each side, give a server named twice, named on both sides, and skipped
  on one side only. For framing, records of 100 and 236 bytes after a
  40-byte header reach exactly 512 bytes with two records and pass it
  with three; advertised sizes 256 and 512 cover the floor.
  Configurations vary in two groups that the code merges independently.
  The scalars are bind, port, timeout and log level. The switches are
  recurse, resolvers and mesh. Each group is varied with the other left
  unset. Every field is met unset, set, unparsable and overridden at every
  level it has. The resolver lists are: the default list, a dnsagent
  alone, both entries with no option map, and a meshproxy alone.
- `Telemetry`: one host suffices because the code handles each key
  independently. Three requests let a host be observed, rejoin with fresh
  counters and be observed again. Outages of up to nine ticks come one
  short of the inactivity limit; the age saturates one above the largest
  age a property tells apart.

## Fairness

`DnsServe` assumes weak fairness of each request's steps. Each query runs
on its own goroutine, the mutex is held only across an index update, and
`client.Exchange` is bounded by the client's timeout, so a request that
can step eventually does. `DnsService` asks only weak fairness of finishing a
request taken in, which these steps give; arrivals are up to the clients.

`Supervisor` states `FairSpec` (used by `sup_calls`), and assumes the
following:

- Every goroutine the process runs is eventually scheduled while the
  process lives. This covers the main goroutine's receive, the `wg.Wait`
  goroutine, each `Run` goroutine with its deferred teardown, each serve
  goroutine's send, and a registry call in flight, which the SDK bounds
  with its timeout. Each of these gets weak fairness.
- `<-ctx.Done()` gets strong fairness. The metrics select picks at random
  among ready cases, so a ticker that keeps firing takes the tick branch
  only finitely often with probability 1.
- Signals, serve failures, incoming requests, ticks and the 30 s timer are
  the environment, and get no fairness. `ShutdownTerminates` therefore
  asks whether shutdown ends by the goroutines' own progress, not by the
  timer. The safety runs use `Spec`. `Telemetry` checks only safety.

## Not modelled, and why

- The SRV target round trip (`encodeIPAsFqdn`, dnsagent/plugin.go
  169-174, resolved again through the `_addr` branch). Its outcome depends
  on how miekg/dns's `SplitDomainName` splits an empty first label, which
  happens when a host is not an IP and `hex.EncodeToString(nil)` is empty.
  It also depends on how `packDataA` packs a 16-byte `net.ParseIP` result.
  That library is not in this repository, so the model could not follow
  it from source. `DnsAgent` instead takes the `_addr` label's form as an
  input.
- Configuration fields that decide nothing the other models use. These
  are TTLs, suffixes, log paths and rotation limits, the registry
  addresses and location (`mergeLocationEnv`), and the nearby-match level.
  YAML decoding itself is also left out: its result is an input of
  `ConfigLoad`. The models take the overlay's results as constants
  (`Enabled`, `NumResolvers`, `Upstreams`, ...).
  `dns.ClientConfigFromFile`'s parsing of `resolv.conf` is an input of
  `RecurseConfig`.
- Two places where `mergeBootConfig` departs from the priority order
  stated on `InitConfig`. `ConfigLoad` models both, and `MC_Translate`
  reaches both. The violation runs are spent on the serving path, so
  `ConfigPrecedence` is stated around them, as follows:
  - It assigns the log level a second time, unconditionally. An empty
    level flag therefore wipes the level set by the file or by
    `SIDECAR_LOG_LEVEL`, and `verify` accepts the empty string.
    `ConfigPrecedence` leaves the log level out.
  - It reads the meshproxy flag only inside a loop that runs when a
    dnsagent flag is given. `--resolver-meshproxy-enabled` alone is
    therefore ignored: meshproxy stays disabled and `MeshEnabled` false,
    so no mesh component starts. `SpecConfig` does state the flag. The
    pass inputs set it both alone and with a dnsagent flag.
    `ConfigPrecedence` is narrowed by `MeshFlagRead` to the second case,
    because the first makes it fail.
- The start-up panic of `mergeEnv`: a meshproxy resolver listed in the
  file without options has a nil `Option` map, and
  `SIDECAR_MESH_RELOAD_INTERVAL` or `SIDECAR_MESH_ANSWER_IP` writes
  into it. `ConfigLoad` gives the result `panic`. No property is stated
  about start-up crashes.
- A written reply larger than the size the client advertised: `setEDNS`
  appends its OPT record after `Truncate`, so a reply that `Truncate` left
  at exactly the advertised size grows by 11 bytes (22 with a
  client-subnet option). It has the same cause as the double OPT record of
  `translate_double_opt` and is not a violation run of its own.
  `OverrunIsAppendedOpt` bounds the overrun to that one record.
- A resolv.conf with `ndots:2` or more and no search line. `expandQuery`
  then returns no names for a name with fewer dots, and `HandleDNS` answers
  SERVFAIL without asking any upstream. Section 4.4 states the same
  mapping, so no property compares `expandQuery` with it. `DnsServe` reaches the case
  (`NumDomains = 0`), but the runs' resolv.conf has a search list, and no
  run slot is left for a violation.
- The callers of `setEDNS` always pass `ecsGlobal = true`, so a written
  client-subnet option always has scope 0; section 8's scenario 5 (scope
  24 for a NOERROR reply) is about `setEDNS` called with `false`, which
  no caller does.
- Name parsing inside `DnsServe`, where whether `ParseQname` matched is
  an input boolean. `Names` checks the operator on its own.
- Section 8's `AddQuota(RemoveQuota(x)) == AddQuota(x)`. It fails only for
  strings ending in two dots (`..` gives `.` against `..`), which DNS wire
  names never are. It is left as a remark rather than a run.
- Whether the SDK's `GetQuota` can return a nil future with a nil error.
  `ShouldRateLimit` would then return `(nil, nil)`, but that depends on
  code outside this repository.
- The address of the stats scrape. `getClusterStats` always scrapes
  `127.0.0.1:15000`, while the clusters come from the configured admin URL
  (section 6 says both do). With another admin URL, the delays are those of
  a different Envoy. `UpstreamDelay` takes the scrape's result as input,
  so it cannot tell the two Envoys apart. The violation runs are spent on
  the serving path.
- The mTLS rotator, the SDS server, the CA client and `mtls.Option`. They
  are not in this repository; `Startup` takes the outcome of each step of
  `mtls.New` as a fault.
- The pprof and health HTTP handlers and logging. These are pure I/O.
  `ServiceAccountToken` (`sat.go`) drops its read error, so a missing token
  reaches the CA client as the empty string; only the CA client's failure
  is modelled.

## Plan

The composed DNS path (`Preprocess` into `ParseQname`, `LookupKey`) is
done. The components PROJECT.json still marks "partly" are partly modelled
because their remaining code is I/O (handlers, logging, file reads) or lives
outside this repository (the SDK, the mTLS rotator and SDS server); the
previous section says why, item by item. The findings left without a run
(the empty search list, the `mergeBootConfig` departures, the stats URL)
need violation runs the project has no slot for.
