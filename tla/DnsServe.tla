------------------------------ MODULE DnsServe ------------------------------
(***************************************************************************)
(* The DNS serving path: dnsHandler.ServeDNS (internal/resolver/handler.go)*)
(* dispatching one request to the resolver chain and, on a miss, to the    *)
(* recursive proxy Proxy.HandleDNS (internal/resolver/recursor/proxy.go),  *)
(* which walks the expanded names and, for each, Config.Attempts upstream  *)
(* exchanges, picking every upstream from the RotatingUpstream shared by   *)
(* the UDP and the TCP handler.  miekg/dns runs ServeDNS in a goroutine    *)
(* per request, so requests interleave; they share only the rotation index *)
(* and its mutex.                                                          *)
(***************************************************************************)
EXTENDS Naturals, Sequences, FiniteSets, Functions, FiniteSetsExt

CONSTANTS
    Req,            \* requests served concurrently
    NumResolvers,   \* enabled resolvers in the chain built by NewServer
    RecurseEnabled, \* BuildProxy returned a proxy (recurse.enable)
    Upstreams,      \* Config.Upstream, a sequence of servers
    Attempts,       \* Config.Attempts
    SearchLen,      \* Len(Config.Search)
    QTypes,         \* qtypes a question may carry
    Addrs,          \* forms of the "_addr" label questions may carry
    Outcomes,       \* what client.Exchange may produce
    NoHolder        \* the mutex of RotatingUpstream is free

Agent == INSTANCE DnsAgent

ASSUME
    /\ NumResolvers \in Nat /\ Attempts \in Nat /\ SearchLen \in Nat
    /\ RecurseEnabled \in BOOLEAN
    /\ Addrs \subseteq Agent!AddrForms

K == Len(Upstreams)

\* A response of client.Exchange: resp = FALSE is a nil message (then err
\* holds); otherwise its rcode and TC bit, and whether err was also set
\* (dns.ErrId).
Rcodes == {"NOERROR", "NXDOMAIN", "SERVFAIL"}
ExchangeResults ==
    {[resp |-> FALSE, err |-> TRUE, rcode |-> "NONE", tc |-> FALSE]}
    \cup [resp : {TRUE}, err : BOOLEAN, rcode : Rcodes, tc : BOOLEAN]
ASSUME Outcomes \subseteq ExchangeResults

\* A question as the handler sees it: req.Question may be empty; "expand"
\* is strings.Count(name, ".") < Ndots in expandQuery; match[i] is whether
\* resolver i's suffix matches the preprocessed qname.
Questions ==
    {[present |-> FALSE, qtype |-> "A", addr |-> "none",
      match |-> [i \in 1..NumResolvers |-> FALSE], expand |-> FALSE]}
    \cup [present : {TRUE}, qtype : QTypes, addr : Addrs,
          match : [1..NumResolvers -> BOOLEAN], expand : BOOLEAN]

\* A written reply: its rcode on the wire, who produced it and, for a
\* forwarded upstream message, the rcode the upstream sent.
Replies == [rcode : Rcodes \cup {"REFUSED"},
            from : {"code", "resolver", "upstream"},
            upstream : Rcodes \cup {"NONE"}]

PCs == {"idle", "resolve", "recurse", "acquire", "release", "exchange", "done"}

VARIABLES
    q,        \* the question of each request
    pc,       \* where each request's goroutine is
    resIdx,   \* the resolver of the chain being consulted
    dom,      \* the expanded name being tried (1-based)
    att,      \* the attempt on that name (the loop variable i)
    picked,   \* the rotation index read by RotatingUpstream.Next
    rotIdx,   \* RotatingUpstream.index
    mu,       \* RotatingUpstream.mu: its holder or NoHolder
    nEx,      \* exchanges issued per request (history)
    picks,    \* how often Next returned each upstream position (history)
    replies,  \* messages written to each request's ResponseWriter
    tried,    \* positions Next returned for the current name (history)
    namePicks,\* calls of Next for the current name (history)
    since     \* calls of Next by anyone before the name's first (history)

hist == <<tried, namePicks, since>>
vars == <<q, pc, resIdx, dom, att, picked, rotIdx, mu, nEx, picks, replies, hist>>

\* expandQuery: one name per search domain, or the name itself.
NumDomains(r) == IF q[r].expand THEN SearchLen ELSE 1

canDoResolve(t) == t \in Agent!ResolvableTypes

\* dns.Msg.SetReply, called by both writers: it copies the id and the
\* question and resets Rcode to RcodeSuccess.
SetReply(msg) == [msg EXCEPT !.rcode = "NOERROR"]

\* common.WriteDnsCode: a fresh reply carrying the given rcode.
WriteDnsCode(r, code) ==
    replies' = [replies EXCEPT ![r] =
                  Append(@, [rcode |-> code, from |-> "code", upstream |-> "NONE"])]

\* common.WriteDnsResponse: SetReply on the resolved message, then write.
WriteDnsResponse(r, msg) ==
    replies' = [replies EXCEPT ![r] = Append(@, SetReply(msg))]

Init ==
    /\ q \in [Req -> Questions]
    /\ pc = [r \in Req |-> "idle"]
    /\ resIdx = [r \in Req |-> 1]
    /\ dom = [r \in Req |-> 1]
    /\ att = [r \in Req |-> 0]
    /\ picked = [r \in Req |-> 0]
    /\ rotIdx = 0
    /\ mu = NoHolder
    /\ nEx = [r \in Req |-> 0]
    /\ picks = [j \in 1..K |-> 0]
    /\ replies = [r \in Req |-> <<>>]
    /\ tried = [r \in Req |-> {}]
    /\ namePicks = [r \in Req |-> 0]
    /\ since = [r \in Req |-> 0]

-----------------------------------------------------------------------------
(* dnsHandler.ServeDNS up to the resolver loop: REFUSED for an empty       *)
(* question section; a qtype canDoResolve rejects goes to the recursor.    *)
ServeDNS(r) ==
    /\ pc[r] = "idle"
    /\ \/ /\ ~q[r].present
          /\ WriteDnsCode(r, "REFUSED")
          /\ pc' = [pc EXCEPT ![r] = "done"]
       \/ /\ q[r].present /\ canDoResolve(q[r].qtype) /\ NumResolvers > 0
          /\ pc' = [pc EXCEPT ![r] = "resolve"]
          /\ UNCHANGED replies
       \/ /\ q[r].present /\ ~(canDoResolve(q[r].qtype) /\ NumResolvers > 0)
          /\ pc' = [pc EXCEPT ![r] = "recurse"]
          /\ UNCHANGED replies
    /\ UNCHANGED <<q, resIdx, dom, att, picked, rotIdx, mu, nEx, picks, hist>>

(* One iteration of the resolver loop: handler.ServeDNS(ctx, question,     *)
(* qname); the first non-nil reply is written and ends the request.  A     *)
(* panic in the resolver is caught by the deferred recover: nothing is     *)
(* written.  A reply WriteMsg cannot pack is logged and dropped.           *)
ServeResolver(r) ==
    LET i == resIdx[r] IN
    /\ pc[r] = "resolve"
    /\ \E reg \in Agent!RegistryResults :
        LET res == Agent!ServeDNS(q[r], q[r].match[i], reg) IN
        \/ /\ res = "nil" /\ i < NumResolvers
           /\ resIdx' = [resIdx EXCEPT ![r] = i + 1]
           /\ UNCHANGED <<pc, replies>>
        \/ /\ res = "nil" /\ i = NumResolvers
           /\ pc' = [pc EXCEPT ![r] = "recurse"]
           /\ UNCHANGED <<resIdx, replies>>
        \/ /\ res = "answer"
           /\ WriteDnsResponse(r, [rcode |-> "NOERROR", from |-> "resolver",
                                   upstream |-> "NONE"])
           /\ pc' = [pc EXCEPT ![r] = "done"]
           /\ UNCHANGED resIdx
        \/ /\ res \in {"unpackable", "panic"}
           /\ pc' = [pc EXCEPT ![r] = "done"]
           /\ UNCHANGED <<resIdx, replies>>
    /\ UNCHANGED <<q, dom, att, picked, rotIdx, mu, nEx, picks, hist>>

(* Proxy.HandleDNS entry and its caller: a nil proxy, or no (name, attempt)*)
(* pair to try, returns nil and the handler writes SERVFAIL.               *)
HandleDNS(r) ==
    /\ pc[r] = "recurse"
    /\ \/ /\ RecurseEnabled /\ NumDomains(r) * Attempts > 0
          /\ dom' = [dom EXCEPT ![r] = 1]
          /\ att' = [att EXCEPT ![r] = 0]
          /\ pc' = [pc EXCEPT ![r] = "acquire"]
          /\ UNCHANGED replies
       \/ /\ ~RecurseEnabled \/ NumDomains(r) * Attempts = 0
          /\ WriteDnsCode(r, "SERVFAIL")
          /\ pc' = [pc EXCEPT ![r] = "done"]
          /\ UNCHANGED <<dom, att>>
    /\ UNCHANGED <<q, resIdx, picked, rotIdx, mu, nEx, picks, hist>>

\* Mutation: Next without mu.Lock().
NextLockUnguarded(r) ==
    /\ pc[r] = "acquire"
    /\ \/ /\ K = 0
          /\ pc' = [pc EXCEPT ![r] = "done"]
          /\ UNCHANGED <<mu, picked>>
       \/ /\ K > 0
          /\ mu' = r
          /\ picked' = [picked EXCEPT ![r] = rotIdx]
          /\ pc' = [pc EXCEPT ![r] = "release"]
    /\ UNCHANGED <<q, resIdx, dom, att, rotIdx, nEx, picks, replies, hist>>

(* RotatingUpstream.Next, first half: Lock, then read servers[index].  On  *)
(* an empty server list the read panics; the deferred Unlock frees the     *)
(* mutex and ServeDNS's recover swallows the panic: nothing is written.    *)
NextLock(r) ==
    /\ pc[r] = "acquire"
    /\ mu = NoHolder
    /\ \/ /\ K = 0
          /\ pc' = [pc EXCEPT ![r] = "done"]
          /\ UNCHANGED <<mu, picked>>
       \/ /\ K > 0
          /\ mu' = r
          /\ picked' = [picked EXCEPT ![r] = rotIdx]
          /\ pc' = [pc EXCEPT ![r] = "release"]
    /\ UNCHANGED <<q, resIdx, dom, att, rotIdx, nEx, picks, replies, hist>>

\* History: the position Next hands r; the first attempt on a name
\* (att = 0) starts the record of that name afresh.
RecordPick(r) ==
    LET first == att[r] = 0 IN
    /\ tried' = [tried EXCEPT ![r] = IF first THEN {picked[r] + 1} ELSE @ \cup {picked[r] + 1}]
    /\ namePicks' = [namePicks EXCEPT ![r] = IF first THEN 1 ELSE @ + 1]
    /\ since' = [since EXCEPT ![r] = IF first THEN SumFunction(picks) ELSE @]

\* Mutation: the Unlock is not deferred and is skipped.
NextUnlockKeepsLock(r) ==
    /\ pc[r] = "release"
    /\ rotIdx' = (rotIdx + 1) % K
    /\ picks' = [picks EXCEPT ![picked[r] + 1] = @ + 1]
    /\ pc' = [pc EXCEPT ![r] = "exchange"]
    /\ RecordPick(r)
    /\ UNCHANGED <<q, resIdx, dom, att, picked, mu, nEx, replies>>

\* Mutation: the wrap-around tested with > instead of the modulus.
NextUnlockLateWrap(r) ==
    /\ pc[r] = "release"
    /\ rotIdx' = IF rotIdx + 1 > K THEN 0 ELSE rotIdx + 1
    /\ mu' = NoHolder
    /\ picks' = [picks EXCEPT ![picked[r] + 1] = @ + 1]
    /\ pc' = [pc EXCEPT ![r] = "exchange"]
    /\ RecordPick(r)
    /\ UNCHANGED <<q, resIdx, dom, att, picked, nEx, replies>>

(* RotatingUpstream.Next, second half: index = (index + 1) % len(servers), *)
(* then the deferred Unlock; Next returns the server it read.              *)
NextUnlock(r) ==
    /\ pc[r] = "release"
    /\ rotIdx' = (rotIdx + 1) % K
    /\ mu' = NoHolder
    /\ picks' = [picks EXCEPT ![picked[r] + 1] = @ + 1]
    /\ pc' = [pc EXCEPT ![r] = "exchange"]
    /\ RecordPick(r)
    /\ UNCHANGED <<q, resIdx, dom, att, picked, nEx, replies>>

\* The switch after client.Exchange: a response whose rcode is neither
\* NOERROR nor NXDOMAIN is retried; otherwise no error, or a truncated
\* response, is returned; everything else is retried.
Accepted(o) ==
    CASE o.resp /\ o.rcode \notin {"NOERROR", "NXDOMAIN"} -> FALSE
      [] ~o.err \/ (o.resp /\ o.tc)                   -> TRUE
      [] OTHER                                        -> FALSE

\* Mutation: "return nil" inside the loop over names, after the first
\* name's attempts, instead of after the loop.
ExchangeFirstNameOnly(r) ==
    /\ pc[r] = "exchange"
    /\ nEx' = [nEx EXCEPT ![r] = @ + 1]
    /\ \E o \in Outcomes :
        \/ /\ Accepted(o)
           /\ WriteDnsResponse(r, [rcode |-> o.rcode, from |-> "upstream",
                                   upstream |-> o.rcode])
           /\ pc' = [pc EXCEPT ![r] = "done"]
           /\ UNCHANGED <<dom, att>>
        \/ /\ ~Accepted(o) /\ att[r] + 1 < Attempts
           /\ att' = [att EXCEPT ![r] = @ + 1]
           /\ pc' = [pc EXCEPT ![r] = "acquire"]
           /\ UNCHANGED <<dom, replies>>
        \/ /\ ~Accepted(o) /\ att[r] + 1 = Attempts
           /\ WriteDnsCode(r, "SERVFAIL")
           /\ pc' = [pc EXCEPT ![r] = "done"]
           /\ UNCHANGED <<dom, att>>
    /\ UNCHANGED <<q, resIdx, picked, rotIdx, mu, picks, hist>>

(* client.Exchange to the picked upstream and the switch on its result:    *)
(* return the response, or go on to the next attempt, the next name, or   *)
(* return nil once every name had its Attempts tries (SERVFAIL).           *)
Exchange(r) ==
    /\ pc[r] = "exchange"
    /\ nEx' = [nEx EXCEPT ![r] = @ + 1]
    /\ \E o \in Outcomes :
        \/ /\ Accepted(o)
           /\ WriteDnsResponse(r, [rcode |-> o.rcode, from |-> "upstream",
                                   upstream |-> o.rcode])
           /\ pc' = [pc EXCEPT ![r] = "done"]
           /\ UNCHANGED <<dom, att>>
        \/ /\ ~Accepted(o) /\ att[r] + 1 < Attempts
           /\ att' = [att EXCEPT ![r] = @ + 1]
           /\ pc' = [pc EXCEPT ![r] = "acquire"]
           /\ UNCHANGED <<dom, replies>>
        \/ /\ ~Accepted(o) /\ att[r] + 1 = Attempts /\ dom[r] < NumDomains(r)
           /\ dom' = [dom EXCEPT ![r] = @ + 1]
           /\ att' = [att EXCEPT ![r] = 0]
           /\ pc' = [pc EXCEPT ![r] = "acquire"]
           /\ UNCHANGED replies
        \/ /\ ~Accepted(o) /\ att[r] + 1 = Attempts /\ dom[r] = NumDomains(r)
           /\ WriteDnsCode(r, "SERVFAIL")
           /\ pc' = [pc EXCEPT ![r] = "done"]
           /\ UNCHANGED <<dom, att>>
    /\ UNCHANGED <<q, resIdx, picked, rotIdx, mu, picks, hist>>

Next ==
    \E r \in Req :
        \/ ServeDNS(r) \/ ServeResolver(r) \/ HandleDNS(r)
        \/ NextLock(r) \/ NextUnlock(r) \/ Exchange(r)

\* A request's goroutine, once started, keeps being scheduled, and every
\* exchange ends (client.Timeout bounds it); the arrival of a request is
\* up to the client and is not fair.
Fairness ==
    \A r \in Req :
        WF_vars(ServeResolver(r) \/ HandleDNS(r) \/ NextLock(r)
                \/ NextUnlock(r) \/ Exchange(r))

Spec == Init /\ [][Next]_vars /\ Fairness

-----------------------------------------------------------------------------
\* Values of the rotation index: an index of servers (just 0 when empty).
Indices == IF K = 0 THEN {0} ELSE 0..K-1

TypeOK ==
    /\ q \in [Req -> Questions]
    /\ pc \in [Req -> PCs]
    /\ resIdx \in [Req -> 1..Max({NumResolvers, 1})]
    /\ dom \in [Req -> 1..Max({SearchLen, 1})]
    /\ att \in [Req -> 0..Attempts]
    /\ picked \in [Req -> Indices]
    /\ rotIdx \in Indices
    /\ mu \in Req \cup {NoHolder}
    /\ nEx \in [Req -> Nat]
    /\ picks \in [1..K -> Nat]
    /\ replies \in [Req -> Seq(Replies)]
    /\ tried \in [Req -> SUBSET (1..K)]
    /\ namePicks \in [Req -> 0..Attempts]
    /\ since \in [Req -> Nat]

\* Round robin across concurrent requests (RotatingUpstream.Next under mu):
\* after n calls of Next, by any requests in any interleaving, the upstream
\* at position j was returned n \div K times, once more if j is among the
\* first n % K positions.  A lost update of index breaks it.
RotationBalanced ==
    K > 0 =>
        LET n == SumFunction(picks) IN
        \A j \in 1..K : picks[j] = n \div K + (IF j - 1 < n % K THEN 1 ELSE 0)

\* fillByResolvConfig raises Attempts to len(Upstream) so that the tries
\* of one name can reach every upstream: a request that has used all its
\* attempts on a name, with no other request calling Next in between, was
\* handed every upstream.  A rotation that skips or repeats a position, or
\* an Attempts below the number of upstreams, leaves one untried.
AttemptsReachEveryUpstream ==
    \A r \in Req :
        K > 0 /\ namePicks[r] = Attempts /\ SumFunction(picks) - since[r] = Attempts
            => tried[r] = 1..K

\* The handler writes SERVFAIL only after the recursor gave up: with a
\* proxy, only once every expanded name had its Attempts exchanges
\* (Proxy.HandleDNS loops); without one, after no exchange at all.
ServFailOnlyWhenExhausted ==
    \A r \in Req : \A k \in 1..Len(replies[r]) :
        replies[r][k] = [rcode |-> "SERVFAIL", from |-> "code", upstream |-> "NONE"]
            => nEx[r] = IF RecurseEnabled THEN NumDomains(r) * Attempts ELSE 0

\* The refinement mapping: a goroutine between its first and its last step
\* is a request taken in; the written messages are DnsService's out.
Service == INSTANCE DnsService
    WITH st  <- [r \in Req |-> CASE pc[r] = "idle" -> "idle"
                                  [] pc[r] = "done" -> "done"
                                  [] OTHER          -> "busy"],
         out <- replies

\* DnsServe implements DnsService: ServeDNS with the resolver chain and
\* the recursor (lock, rotation, exchanges, retries) refuses a request
\* without a question, writes one answer of DnsService's kinds or nothing
\* for any other, all in its last step, and finishes every request: no
\* request waits forever on the rotation mutex.
DnsServiceSpec == Service!Spec

\* Spec 8 (at-most-one reply, on every path): every received request is
\* eventually answered with exactly one message.
EventuallyAnswered == \A r \in Req : (pc[r] # "idle") ~> (Len(replies[r]) = 1)

\* Spec 4.4 and scenario 2: the upstream's reply is forwarded as it came,
\* so the client sees the upstream's rcode (an NXDOMAIN stays NXDOMAIN).
UpstreamRcodePreserved ==
    \A r \in Req : \A k \in 1..Len(replies[r]) :
        replies[r][k].from = "upstream" => replies[r][k].rcode = replies[r][k].upstream

=============================================================================
