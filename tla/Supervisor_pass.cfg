\* All five components but rate limiting: the channel sizing and the main
\* loop's receive.  The process ends when Start returns (main in graceful
\* or forced), so a state with no successor is the exited process, not a
\* deadlock.
SPECIFICATION Spec
CONSTANTS Enabled <- NoRls
          Callers = {}
INVARIANTS TypeOK NoRunBlockedOnErrCh MainLoopNeverStuck
CHECK_DEADLOCK FALSE
