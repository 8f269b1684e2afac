CONSTANTS
    Req = {r1, r2}
    NumResolvers = 1
    RecurseEnabled = TRUE
    Upstreams <- MCUpstreams
    Attempts <- MCAttempts
    SearchLen <- MCSearchLen
    QTypes = {"A", "SRV", "MX"}
    Addrs = {"none", "first", "len4"}
    Outcomes <- MCOutcomes
    NoHolder = NoHolder
    NoConfig = NoConfig
SPECIFICATION Spec
\* Once the finite set of requests is served the server idles in accept.
CHECK_DEADLOCK FALSE
INVARIANTS
    TypeOK
    RotationBalanced
    AttemptsReachEveryUpstream
    ServFailOnlyWhenExhausted
PROPERTIES
    DnsServiceSpec
