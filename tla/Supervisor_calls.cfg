\* The three components that hold the shared SDKContext, with their
\* registry calls and the metrics ticker, under the goroutines' fairness:
\* shutdown ends without the timer even while ticks and calls race the
\* cancel.  A state with no successor is the exited process (Start
\* returned), not a deadlock.
SPECIFICATION FairSpec
CONSTANTS Enabled <- SdkHolders
          Callers = {"dns", "rls", "metrics"}
INVARIANTS MainLoopNeverStuck
PROPERTY ShutdownTerminates
CHECK_DEADLOCK FALSE
