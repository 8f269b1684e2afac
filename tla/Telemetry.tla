----------------------------- MODULE Telemetry -----------------------------
(***************************************************************************)
(* The metrics reporter (internal/mesh/metrics/server.go): each tick of    *)
(* its 30 s ticker, metrics.Server.Run counts the tick, every tenth tick   *)
(* evicts the entries of its `values` map not refreshed for five minutes,  *)
(* then reportMetricByCluster scrapes Envoy's /clusters and reports, per   *)
(* (cluster, host, port) key, the increase of the cumulative request       *)
(* counters since the stored snapshot, and stores the new snapshot.        *)
(*                                                                         *)
(* Time is counted in ticker intervals.  An entry's LastActiveTime is kept *)
(* as its age, the number of intervals since it was last observed.  The    *)
(* counters rq_success and rq_error are handled by identical code; one     *)
(* counter stands for both.  The latency histograms (parseUpstreamDelay)   *)
(* only give the delay attached to each report and are left out.          *)
(*                                                                         *)
(* Envoy is the environment: requests increment a host's counter, a host   *)
(* leaves and rejoins its cluster (rejoining with fresh counters), and the *)
(* admin endpoint may fail to answer.                                      *)
(***************************************************************************)
EXTENDS Naturals, FiniteSets, TLC

CONSTANTS
    Keys,          \* instance keys (cluster, host, port)
    MaxRequests,   \* bound on the requests Envoy counts per key
    MaxOutage,     \* bound on consecutive failed scrapes
    SlowRegistry   \* whether reporting can overrun five minutes

ASSUME MaxRequests \in Nat /\ MaxOutage \in Nat /\ SlowRegistry \in BOOLEAN

\* cleanThreshold and inactiveDuration (5 min of 30 s ticks).
CleanThreshold == 10
InactiveTicks == 10

\* Ages saturate one above the largest age any property distinguishes.
AgeCap == InactiveTicks + CleanThreshold + 1
Sat(n) == IF n > AgeCap THEN AgeCap ELSE n

\* An iteration whose reportStatus calls keep failing sleeps 100+200+400 ms
\* per call: with enough calls it outlasts the inactivity limit.
OverrunTicks == InactiveTicks + 1

VARIABLES
    env,       \* env[k]: Envoy's cumulative counter for host k
    present,   \* hosts listed in Envoy's cluster statuses
    total,     \* total[k]: requests Envoy ever counted for k (history)
    values,    \* the reporter's map: key -> [snap, age]
    clean,     \* cleanCounter
    outage,    \* consecutive scrapes that failed
    overrun,   \* the last iteration ran past the inactivity limit
    reported   \* reported[k]: calls reported for k (history)

vars == <<env, present, total, values, clean, outage, overrun, reported>>

Init ==
    /\ env = [k \in Keys |-> 0]
    /\ present = Keys
    /\ total = [k \in Keys |-> 0]
    /\ values = << >>
    /\ clean = 0
    /\ outage = 0
    /\ overrun = FALSE
    /\ reported = [k \in Keys |-> 0]

-----------------------------------------------------------------------------
(* Envoy.                                                                  *)

Request(k) ==
    /\ k \in present
    /\ total[k] < MaxRequests
    /\ env' = [env EXCEPT ![k] = @ + 1]
    /\ total' = [total EXCEPT ![k] = @ + 1]
    /\ UNCHANGED <<present, values, clean, outage, overrun, reported>>

LeaveCluster(k) ==
    /\ k \in present
    /\ present' = present \ {k}
    /\ UNCHANGED <<env, total, values, clean, outage, overrun, reported>>

\* A host that rejoins gets new stats, starting from zero.
JoinCluster(k) ==
    /\ k \notin present
    /\ present' = present \cup {k}
    /\ env' = [env EXCEPT ![k] = 0]
    /\ UNCHANGED <<total, values, clean, outage, overrun, reported>>

-----------------------------------------------------------------------------
(* The reporter.                                                           *)

\* Mutant: the stored snapshot is ignored and the cumulative is reported.
DeltaFromZero(cur, prev) == cur

\* The per-field delta: only an increase is reported.
Delta(cur, prev) == IF cur > prev THEN cur - prev ELSE 0

\* subMetricValue: the whole cumulative for a key not in the map.
SubMetric(vals, k) ==
    IF k \in DOMAIN vals THEN Delta(env[k], vals[k].snap) ELSE env[k]

\* Time passes: every entry's LastActiveTime recedes by d intervals.
Aged(vals, d) == [k \in DOMAIN vals |-> [vals[k] EXCEPT !.age = Sat(@ + d)]]

\* Mutant: an entry is deleted only once a further tick has passed.
EvictLate(vals) ==
    LET live == {k \in DOMAIN vals : vals[k].age <= InactiveTicks + 1}
    IN  [k \in live |-> vals[k]]

\* delete(values, k) for every entry inactive for more than 5 minutes.
Evict(vals) ==
    LET live == {k \in DOMAIN vals : vals[k].age <= InactiveTicks}
    IN  [k \in live |-> vals[k]]

\* Mutant: cleaning when cleanCounter > cleanThreshold.
ShouldCleanLate(c) == c > CleanThreshold

\* cleanCounter >= cleanThreshold.
ShouldClean(c) == c >= CleanThreshold

\* The scrape fails (HTTP error, read error, unmarshal error); after
\* MaxOutage failures in a row it succeeds.
Scrapes == IF outage < MaxOutage THEN BOOLEAN ELSE {TRUE}

\* One iteration of Run's loop on <-ticker.C: count the tick, clean every
\* tenth tick, then reportMetricByCluster: on a successful scrape, every
\* listed host is reported by its delta and stored with a fresh
\* LastActiveTime.
Tick ==
    LET c    == clean + 1
        aged == Aged(values, IF overrun THEN OverrunTicks ELSE 1)
        kept == IF ShouldClean(c) THEN Evict(aged) ELSE aged
        sub  == [k \in present |-> SubMetric(kept, k)]
    IN  /\ clean' = IF ShouldClean(c) THEN 0 ELSE c
        /\ \E ok \in Scrapes :
             IF ok
             THEN /\ values' = [k \in DOMAIN kept \cup present |->
                                  IF k \in present
                                  THEN [snap |-> env[k], age |-> 0]
                                  ELSE kept[k]]
                  /\ reported' = [k \in Keys |->
                                    IF k \in present THEN reported[k] + sub[k]
                                    ELSE reported[k]]
                  /\ outage' = 0
                  /\ overrun' \in
                       IF SlowRegistry /\ \E k \in present : sub[k] > 0
                       THEN BOOLEAN ELSE {FALSE}
             ELSE /\ values' = kept
                  /\ outage' = outage + 1
                  /\ overrun' = FALSE
                  /\ UNCHANGED reported
        /\ UNCHANGED <<env, present, total>>

Next ==
    \/ Tick
    \/ \E k \in Keys : Request(k) \/ LeaveCluster(k) \/ JoinCluster(k)

Spec == Init /\ [][Next]_vars

-----------------------------------------------------------------------------
(* Properties.                                                             *)

TypeOK ==
    /\ env \in [Keys -> 0..MaxRequests]
    /\ present \subseteq Keys
    /\ total \in [Keys -> 0..MaxRequests]
    /\ DOMAIN values \subseteq Keys
    /\ \A k \in DOMAIN values :
         values[k] \in [snap : 0..MaxRequests, age : 0..AgeCap]
    /\ clean \in 0..CleanThreshold - 1
    /\ outage \in 0..MaxOutage
    /\ overrun \in BOOLEAN
    /\ reported \in [Keys -> Nat]

\* The reporter never reports more calls for a key than Envoy counted for
\* it: the first observation of a key reports its whole cumulative (the
\* one-time over-report the spec accepts), and afterwards only increases
\* are reported, across hosts leaving and rejoining with fresh counters.
NoOverReport == \A k \in Keys : reported[k] <= total[k]

\* The map is bounded: an entry not refreshed for five minutes is gone
\* within the next ten ticks.
MemoryBound ==
    \A k \in DOMAIN values : values[k].age < InactiveTicks + CleanThreshold

====
