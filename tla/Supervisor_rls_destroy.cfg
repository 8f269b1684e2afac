\* The rate-limit server beside the DNS server, with a ShouldRateLimit call
\* in flight during shutdown.
SPECIFICATION Spec
CONSTANTS Enabled <- DnsRls
          Callers = {"rls"}
INVARIANT RegistryUsedOnlyWhileAlive
CHECK_DEADLOCK FALSE
