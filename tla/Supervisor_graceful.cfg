\* The DNS server alone: can Start report a graceful shutdown before the
\* DNS server has been destroyed?
SPECIFICATION Spec
CONSTANTS Enabled <- DnsOnly
          Callers = {}
INVARIANT GracefulShutdownComplete
CHECK_DEADLOCK FALSE
