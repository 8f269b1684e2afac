\* SelfOnlyConf: resolv.conf lists only 127.0.0.1, the sidecar binds 0.0.0.0:
\* InitRecurseConfig skips it and Upstream is empty, Attempts stays 2.
CONSTANTS
    Req = {r1}
    NumResolvers = 1
    RecurseEnabled = TRUE
    Upstreams <- NoUpstreams
    Attempts <- SelfOnlyAttempts
    SearchLen <- SelfOnlySearchLen
    QTypes = {"A", "MX"}
    Addrs = {"none"}
    Outcomes <- MCOutcomes
    NoHolder = NoHolder
    NoConfig = NoConfig
SPECIFICATION Spec
CHECK_DEADLOCK FALSE
PROPERTIES
    EventuallyAnswered
