------------------------------ MODULE DnsFraming ------------------------------
(***************************************************************************)
(* The response writers of internal/resolver/common/dns.go: WriteDnsCode   *)
(* and WriteDnsResponse, with size, ednsSize and setEDNS, and the          *)
(* dns.Msg.SetReply and dns.Msg.Truncate of miekg/dns they call.           *)
(*                                                                         *)
(* A message is abstracted to what framing tells apart: its rcode, its TC  *)
(* bit, the wire lengths of its records other than OPT, in section order   *)
(* (Truncate keeps a prefix of Answer, then Ns, then Extra), and its OPT   *)
(* records.  Lengths are uncompressed: compression only helps a message    *)
(* fit.  A request is its transport, whether it carries EDNS0 with its     *)
(* UDPSize, and whether that carries a client-subnet option.               *)
(***************************************************************************)
EXTENDS Naturals, Sequences, SequencesExt

CONSTANTS
    HeaderLen,   \* header and question section, in bytes
    MinMsgSize,  \* dns.MinMsgSize (512)
    MaxMsgSize,  \* dns.MaxMsgSize (65535)
    OptLen,      \* an OPT record without options
    EcsOptLen,   \* an EDNS0_SUBNET option
    Netmask      \* the request's SourceNetmask

\* The wire length of an OPT record and of a whole message.
OptRRLen(o) == OptLen + (IF o.ecs THEN EcsOptLen ELSE 0)
SumLens(s) == FoldLeft(LAMBDA a, b : a + b, 0, s)
MsgLen(m) == HeaderLen + SumLens(m.rrs) + SumLens([i \in DOMAIN m.opts |-> OptRRLen(m.opts[i])])

\* Mutant: the transport test inverted.
ednsSizeProtoSwapped(proto, size) ==
    IF proto # "tcp" THEN MaxMsgSize
    ELSE IF size < MinMsgSize THEN MinMsgSize ELSE size

\* ednsSize: 64K over TCP; over UDP the advertised size, at least 512.
ednsSize(proto, size) ==
    IF proto = "tcp" THEN MaxMsgSize
    ELSE IF size < MinMsgSize THEN MinMsgSize ELSE size

\* size: the UDPSize of the request's OPT record (0 without one),
\* normalised by ednsSize.
size(proto, r) == ednsSize(proto, IF r.edns THEN r.udpSize ELSE 0)

\* dns.Msg.SetReply on a message: the rcode is reset to NOERROR.
SetReply(m) == [m EXCEPT !.rcode = "NOERROR"]

\* The most records of rrs, in order, that fit in budget after the header
\* (truncateLoop: a record is kept while the running length is <= size).
Fitting(rrs, budget) ==
    Max({k \in 0..Len(rrs) :
           k = 0 \/ HeaderLen + SumLens(SubSeq(rrs, 1, k)) <= budget})

\* dns.Msg.Truncate(size): a message that fits is left alone; otherwise
\* the first OPT record is popped and its length reserved, the longest
\* prefix of records that fits is kept, TC is set if any record was
\* dropped, and the OPT record is put back.
Truncate(m, sz) ==
    LET s == IF sz < MinMsgSize THEN MinMsgSize ELSE sz
        budget == s - (IF m.opts = << >> THEN 0 ELSE OptRRLen(Head(m.opts)))
        n == Fitting(m.rrs, budget)
    IN  IF MsgLen(m) <= s THEN m
        ELSE [m EXCEPT !.rrs = SubSeq(@, 1, n), !.tc = @ \/ n < Len(m.rrs)]

\* ednsSubnetForRequest: the request's client-subnet option, which exists
\* only inside its OPT record.
ednsSubnetForRequest(r) == r.edns /\ r.ecs

\* setEDNS(request, response, ecsGlobal): for an EDNS0 request, a new OPT
\* record mirroring its UDPSize, with the client-subnet option mirrored
\* when the request had one (scope 0 for a globally valid reply or a
\* failure rcode, else the source netmask), is appended to Extra.
setEDNS(request, response, ecsGlobal) ==
    IF ~request.edns THEN response
    ELSE [response EXCEPT !.opts = Append(@,
            [udpSize |-> request.udpSize, ecs |-> ednsSubnetForRequest(request),
             scope |-> IF ~ednsSubnetForRequest(request) \/ ecsGlobal \/
                          response.rcode \in {"NXDOMAIN", "SERVFAIL", "REFUSED", "NOTIMP"}
                       THEN 0 ELSE Netmask])]

\* Mutant: the reply is written without Truncate.
WriteDnsResponseUntruncated(protocol, r, msg) ==
    setEDNS(r, SetReply(msg), TRUE)

\* WriteDnsResponse(protocol, w, r, msg): SetReply, Truncate to size, then
\* setEDNS with ecsGlobal true; the result is what WriteMsg sends.
WriteDnsResponse(protocol, r, msg) ==
    setEDNS(r, Truncate(SetReply(msg), size(protocol, r)), TRUE)

\* WriteDnsCode(protocol, w, r, code): a fresh reply with the rcode, framed
\* the same way.
WriteDnsCode(protocol, r, code) ==
    setEDNS(r, Truncate([rcode |-> code, tc |-> FALSE, rrs |-> << >>, opts |-> << >>],
                        size(protocol, r)), TRUE)

====
