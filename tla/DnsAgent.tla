------------------------------ MODULE DnsAgent ------------------------------
(***************************************************************************)
(* The dnsagent resolver plugin (internal/resolver/dnsagent/plugin.go):    *)
(* what resolverDiscovery.ServeDNS returns for one question.  A question   *)
(* is abstracted to the facts its control flow tests: its qtype, the form  *)
(* of its "_addr" label if it has one, and whether ParseQname matches the  *)
(* resolver's suffix.  The registry call GetOneInstance is an input.       *)
(*                                                                         *)
(* The result is one of                                                    *)
(*   "nil"        ServeDNS returned nil: the next resolver is consulted;   *)
(*   "answer"     a message whose RRs pack;                                *)
(*   "unpackable" a message dns.Msg.Pack refuses ("nil rr" for the SRV     *)
(*                record markRecord leaves nil, "overflow packing aaaa"    *)
(*                for an AAAA record of 4 bytes, "overflow packing a" for  *)
(*                an address of another length), so WriteMsg fails;        *)
(*   "panic"      labels[i-1] with i = 0: "_addr" is the first label.      *)
(***************************************************************************)

\* The form of the "_addr" label of a qname (plugin.go lines 103-116):
\* none   - no label equals "_addr"
\* first  - the first label is "_addr", so labels[i-1] is out of range
\* badhex - the label before "_addr" is not hex (DecodeString fails)
\* lenN   - the label before "_addr" decodes to N bytes
AddrForms == {"none", "first", "badhex", "len2", "len4", "len16"}

\* Outcomes of consumer.GetOneInstance: an error, no instance, instances.
RegistryResults == {"error", "empty", "found"}

\* canDoResolve (handler.go): the qtypes the resolver chain is asked about.
ResolvableTypes == {"A", "AAAA", "SRV"}

\* markRecord followed by dns.Msg.Pack for an address of the given length:
\* an A record packs 4 or 16 bytes, an AAAA record only 16, and the SRV
\* branch returns a nil RR when no instance is given.
RecordPacks(qtype, addr) ==
    \/ qtype = "A" /\ addr \in {"len4", "len16"}
    \/ qtype = "AAAA" /\ addr = "len16"

\* resolverDiscovery.ServeDNS(ctx, question, qname): the "_addr" loop comes
\* first and never consults the suffix; otherwise lookupFromPolaris parses
\* the qname (nil key when the suffix does not match) and asks the registry.
\* Instances from the registry carry an IP host, so their records pack.
ServeDNS(q, matched, reg) ==
    CASE q.addr = "first"                      -> "panic"
      [] q.addr = "badhex"                     -> "nil"
      [] q.addr \notin {"none", "first", "badhex"} ->
            IF RecordPacks(q.qtype, q.addr) THEN "answer" ELSE "unpackable"
      [] q.addr = "none" /\ matched /\ reg = "found" -> "answer"
      [] OTHER                                 -> "nil"

=============================================================================
