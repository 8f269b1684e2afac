\* A name no resolver serves, forwarded to the upstreams.
CONSTANTS
    Req = {r1}
    NumResolvers = 1
    RecurseEnabled = TRUE
    Upstreams <- MCUpstreams
    Attempts <- MCAttempts
    SearchLen <- MCSearchLen
    QTypes = {"A", "MX"}
    Addrs = {"none"}
    Outcomes <- MCOutcomes
    NoHolder = NoHolder
    NoConfig = NoConfig
SPECIFICATION Spec
CHECK_DEADLOCK FALSE
INVARIANTS
    UpstreamRcodePreserved
