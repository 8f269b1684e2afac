\* Envoy always answers, but reporting to the registry can take longer
\* than five minutes (every reportStatus call retried with backoff).
SPECIFICATION Spec
CONSTANTS Keys <- OneHost
          MaxRequests = 3
          MaxOutage = 0
          SlowRegistry = TRUE
INVARIANT NoOverReport
