---------------------------- MODULE RlsTranslate ----------------------------
(***************************************************************************)
(* The rate-limit translator (internal/mesh/rls/server.go):                *)
(* RateLimitServer.ShouldRateLimit and buildQuotaRequest, which turn an    *)
(* Envoy RateLimitRequest (domain, hits_addend, descriptors) into a quota  *)
(* request to the registry's limiter, and its answer into a                *)
(* RateLimitResponse or an RPC error.  GetQuota's outcome is an input: an  *)
(* error, or a result OK or LIMITED.  Domains and namespaces are strings   *)
(* over a small alphabet with the dot; descriptor entries are (key,        *)
(* value) pairs, with keys and values from small sets.                     *)
(***************************************************************************)
EXTENDS Naturals, Sequences, SequencesExt

CONSTANTS
    Chars,          \* alphabet of domains and namespaces; contains "."
    LabelKeys,      \* descriptor entry keys; contains ":path"
    LabelValues,    \* descriptor entry values
    NilDescriptor,  \* a nil *RateLimitDescriptor in the list
    NoMethod,       \* the method of a request on which SetMethod never ran
    MaxDomain,      \* longest domain enumerated
    MaxNamespace,   \* longest namespace enumerated
    MaxEntries,     \* most entries per descriptor
    MaxDescriptors, \* most descriptors per request
    MaxHits         \* largest hits_addend enumerated

Dot == "."
Path == ":path"

ASSUME Dot \in Chars /\ Path \in LabelKeys

\* strings.HasSuffix and strings.TrimSuffix.
HasSuffix(s, t) == IsSuffix(t, s)
TrimSuffix(s, t) == IF HasSuffix(s, t) THEN SubSeq(s, 1, Len(s) - Len(t)) ELSE s

\* polarisgo.NewQuotaRequest() as returned when domain or namespace is empty.
Unpopulated == [namespace |-> <<>>, service |-> <<>>, method |-> NoMethod,
                args |-> << >>, token |-> 0]

\* Mutant: the :path entry is also added as an argument.
AddEntryNoContinue(req, e) ==
    [req EXCEPT !.method = IF e.key = Path THEN e.value ELSE @,
                !.args = Append(@, e)]

\* One entry of the inner loop: ":path" sets the method, any other key is
\* added as an argument label.
AddEntry(req, e) ==
    IF e.key = Path THEN [req EXCEPT !.method = e.value]
    ELSE [req EXCEPT !.args = Append(@, e)]

\* The outer loop over descriptors; a nil descriptor is skipped.
RECURSIVE AddDescriptors(_, _)
AddDescriptors(req, ds) ==
    IF ds = << >> THEN req
    ELSE AddDescriptors(
           IF Head(ds) = NilDescriptor THEN req
           ELSE FoldLeft(AddEntry, req, Head(ds)),
           Tail(ds))

\* buildQuotaRequest(domain, acquireQuota, descriptors).
BuildQuotaRequest(domain, namespace, acquire, ds) ==
    IF domain = <<>> \/ namespace = <<>> THEN Unpopulated
    ELSE LET filled == AddDescriptors(Unpopulated, ds)
         IN  [filled EXCEPT
                !.namespace = namespace,
                !.service = TrimSuffix(domain, <<Dot>> \o namespace),
                !.token = acquire]

\* Mutant: a hits_addend of 0 is passed on as it is.
AcquireRaw(hits) == hits

\* acquireQuota: a hits_addend of 0 asks for one token.
Acquire(hits) == IF hits = 0 THEN 1 ELSE hits

\* Outcomes of limiter.GetQuota(quotaReq) followed by future.Get().
LimiterResults == {"error", "ok", "limited"}

\* ShouldRateLimit: the request built, and the RPC's answer: an error, or
\* the overall code repeated once per descriptor.
ShouldRateLimit(domain, namespace, hits, ds, result) ==
    LET req  == BuildQuotaRequest(domain, namespace, Acquire(hits), ds)
        code == IF result = "limited" THEN "OVER_LIMIT" ELSE "OK"
    IN  [request |-> req,
         reply   |-> IF result = "error"
                     THEN [err |-> TRUE, overall |-> "none", statuses |-> << >>]
                     ELSE [err |-> FALSE, overall |-> code,
                           statuses |-> [i \in DOMAIN ds |-> code]]]

-----------------------------------------------------------------------------
(* Section 4.5, as a reference definition.                                 *)

\* The entries of all non-nil descriptors, in order.
AllEntries(ds) == FlattenSeq(SelectSeq(ds, LAMBDA d : d # NilDescriptor))

SpecRequest(domain, namespace, hits, ds) ==
    LET es == AllEntries(ds)
        lastPath == SelectLastInSeq(es, LAMBDA e : e.key = Path)
    IN  IF domain = <<>> \/ namespace = <<>> THEN Unpopulated
        ELSE [namespace |-> namespace,
              service   |-> IF HasSuffix(domain, <<Dot>> \o namespace)
                            THEN SubSeq(domain, 1, Len(domain) - Len(namespace) - 1)
                            ELSE domain,
              method    |-> IF lastPath = 0 THEN NoMethod ELSE es[lastPath].value,
              args      |-> SelectSeq(es, LAMBDA e : e.key # Path),
              token     |-> IF hits > 1 THEN hits ELSE 1]

\* The inputs and results enumerated.
DomainStrings(n) == BoundedSeq(Chars, n)
Entries == [key : LabelKeys, value : LabelValues]
Descriptors == BoundedSeq(Entries, MaxEntries) \cup {NilDescriptor}
DescriptorLists == BoundedSeq(Descriptors, MaxDescriptors)

QuotaRequests ==
    {Unpopulated} \cup
    [namespace : Seq(Chars), service : Seq(Chars),
     method : LabelValues \cup {NoMethod}, args : Seq(Entries),
     token : 1..MaxHits + 1]

Replies ==
    [err : {TRUE}, overall : {"none"}, statuses : {<< >>}] \cup
    [err : {FALSE}, overall : {"OK", "OVER_LIMIT"},
     statuses : Seq({"OK", "OVER_LIMIT"})]

====
