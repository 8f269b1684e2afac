--------------------------- MODULE UpstreamDelay ----------------------------
(***************************************************************************)
(* The metrics reporter's latency extraction, internal/mesh/metrics        *)
(* server.go: getClusterStats scrapes Envoy's /stats?format=json and       *)
(* parseUpstreamDelay turns the upstream_rq_time histograms into a delay   *)
(* per cluster, which reportMetricByCluster attaches to every report for   *)
(* that cluster.                                                           *)
(*                                                                         *)
(* A stat name is a sequence of tokens: "." and runs of other text, with   *)
(* the words "cluster" and "upstream_rq_time" as tokens of their own, so   *)
(* that the regular expression and the dot searches keep their meaning.   *)
(* A scrape is Nil (any HTTP, read or JSON failure) or the stats list;     *)
(* a stat is Nil (no histograms) or its computed quantiles, each a name   *)
(* and its values, a value being Nil or a number.                          *)
(***************************************************************************)
EXTENDS Integers, Sequences, SequencesExt

CONSTANT Nil

Dot == "."
ClusterWord == "cluster"
RqTimeWord == "upstream_rq_time"

\* getClusterStats: every failure (GET, read, json.Unmarshal) returns nil.
getClusterStats(scrape) == IF scrape.ok THEN scrape.stats ELSE Nil

\* clusterRegex, ^cluster\..+\.upstream_rq_time$: at least one token
\* between the two dots.
clusterRegexMatch(n) ==
    /\ Len(n) >= 5
    /\ n[1] = ClusterWord /\ n[2] = Dot
    /\ n[Len(n) - 1] = Dot /\ n[Len(n)] = RqTimeWord

NoDelays == [c \in {} |-> 0]

\* Mutant: the service name cut at the first dot after the prefix.
ApplyQuantileFirstDot(ret, q) ==
    LET n == q.name
        dotIndex == SelectInSeq(n, LAMBDA t : t = Dot)
        svcName == SubSeq(n, dotIndex + 1, Len(n))
        cut == SelectInSeq(svcName, LAMBDA t : t = Dot)
    IN  IF \/ ~clusterRegexMatch(n) \/ dotIndex = 0 \/ cut = 0
           \/ Len(q.values) < 3 \/ q.values[3] = Nil
        THEN ret
        ELSE (SubSeq(svcName, 1, cut - 1) :> q.values[3]) @@ ret

\* One computed quantile: skipped unless the name matches, has a dot, and
\* has a dot after it; the service name is what lies after the first dot,
\* cut at its last dot; a quantile with fewer than three values or a nil
\* third one is skipped; otherwise values[2].Cumulative is stored under the
\* service name, replacing an earlier one.
ApplyQuantile(ret, q) ==
    LET n == q.name
        dotIndex == SelectInSeq(n, LAMBDA t : t = Dot)
        svcName == SubSeq(n, dotIndex + 1, Len(n))
        lastDotIndex == SelectLastInSeq(svcName, LAMBDA t : t = Dot)
    IN  IF \/ ~clusterRegexMatch(n) \/ dotIndex = 0 \/ lastDotIndex = 0
           \/ Len(q.values) < 3 \/ q.values[3] = Nil
        THEN ret
        ELSE (SubSeq(svcName, 1, lastDotIndex - 1) :> q.values[3]) @@ ret

\* A stat without histograms is skipped; otherwise its quantiles in order.
ApplyStat(ret, stat) == IF stat = Nil THEN ret ELSE FoldLeft(ApplyQuantile, ret, stat)

\* parseUpstreamDelay over one scrape.
parseUpstreamDelay(scrape) ==
    LET stats == getClusterStats(scrape)
    IN  IF stats = Nil THEN NoDelays ELSE FoldLeft(ApplyStat, NoDelays, stats)

\* delayValues[metricKey.ClusterName]: a cluster without a histogram reads
\* as Go's zero value.
DelayOf(delays, cluster) == IF cluster \in DOMAIN delays THEN delays[cluster] ELSE 0

=============================================================================
