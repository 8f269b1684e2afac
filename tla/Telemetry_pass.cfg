\* One host, up to three requests across its stats generations, Envoy's
\* admin endpoint failing for at most nine ticks in a row, and a registry
\* that answers in time.  Keys are handled independently by the code, so
\* one key shows every per-key history; the bound of three requests lets a
\* host be observed, rejoin with fresh counters and be observed again.
SPECIFICATION Spec
CONSTANTS Keys <- OneHost
          MaxRequests = 3
          MaxOutage = 9
          SlowRegistry = FALSE
INVARIANTS TypeOK NoOverReport MemoryBound
