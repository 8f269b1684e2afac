------------------------------- MODULE Names -------------------------------
(***************************************************************************)
(* The name rules of the DNS path, as functions on strings:               *)
(*   AddQuota, RemoveQuota, MatchSuffix, ParseQname   (pkg/utils/util.go) *)
(*   dnsHandler.Preprocess               (internal/resolver/handler.go)    *)
(*   Proxy.expandQuery          (internal/resolver/recursor/proxy.go)      *)
(* A string is a sequence of characters from a small alphabet that holds   *)
(* the dot, an upper- and a lower-case letter: the rules are about where   *)
(* dots and suffixes fall, so the characters themselves are abstracted.    *)
(*                                                                         *)
(* The reference definitions at the end restate the rules of sections 4.1, *)
(* 4.3 and 4.4 over labels; MC_Translate compares the two on every input   *)
(* of bounded size.                                                        *)
(***************************************************************************)
EXTENDS Naturals, Sequences, SequencesExt, FiniteSets

CONSTANTS
    Chars,            \* the alphabet; contains "."
    ToLower(_),       \* strings.ToLower on one character
    SysNamespace,     \* constants.SysNamespace ("polaris"), lower case
    ServerNamespace,  \* config.ServerNamespace, the registry's own namespace
    CurrentNs,        \* the namespace the sidecar runs in
    NoKey,            \* the nil *model.ServiceKey
    MaxName,          \* longest query name enumerated
    MaxSuffix,        \* longest suffix or search domain enumerated
    MaxSearch,        \* longest search list enumerated
    MaxNdots          \* largest ndots enumerated

Dot == "."

ASSUME Dot \in Chars /\ MaxNdots >= 1

\* The strings enumerated for each role.
NameStrings == BoundedSeq(Chars, MaxName)
SuffixStrings == BoundedSeq(Chars, MaxSuffix)

\* strings.HasSuffix(s, t).
HasSuffix(s, t) == IsSuffix(t, s)

\* s[:len(s)-len(t)].
CutSuffix(s, t) == SubSeq(s, 1, Len(s) - Len(t))

\* AddQuota: append the trailing dot unless there is one.
AddQuota(s) == IF HasSuffix(s, <<Dot>>) THEN s ELSE Append(s, Dot)

\* RemoveQuota: drop one trailing dot if there is one.
RemoveQuota(s) == IF HasSuffix(s, <<Dot>>) THEN Front(s) ELSE s

\* MatchSuffix: an empty suffix matches everything; otherwise both strings
\* are canonicalised and the suffix is cut off the query name.
MatchSuffix(q, suffix) ==
    IF suffix = <<>> THEN [name |-> q, matched |-> TRUE]
    ELSE LET qq == AddQuota(q)
             ss == AddQuota(suffix)
         IN  IF HasSuffix(qq, ss)
             THEN [name |-> CutSuffix(qq, ss), matched |-> TRUE]
             ELSE [name |-> qq, matched |-> FALSE]

\* Mutant: strings.Index in place of strings.LastIndex.
FirstDot(s) == SelectInSeq(s, LAMBDA c : c = Dot)

\* strings.LastIndex(s, "."), 1-based; 0 when there is no dot.
LastDot(s) == SelectLastInSeq(s, LAMBDA c : c = Dot)

Lower(s) == [i \in DOMAIN s |-> ToLower(s[i])]

\* ParseQname(qname, suffix, currentNs): the namespace is what follows the
\* last dot of the stripped name, "polaris" in any case standing for the
\* registry's namespace; without a dot the current namespace is used.
ParseQname(q, suffix, currentNs) ==
    LET m == MatchSuffix(q, suffix)
        r == RemoveQuota(m.name)
        i == LastDot(r)
        ns == SubSeq(r, i + 1, Len(r))
    IN  IF ~m.matched THEN NoKey
        ELSE IF i = 0 THEN [namespace |-> currentNs, service |-> r]
        ELSE [namespace |-> IF Lower(ns) = SysNamespace THEN ServerNamespace
                            ELSE ns,
              service   |-> SubSeq(r, 1, i - 1)]

\* dnsHandler.Preprocess: the first search domain (canonicalised) that ends
\* the query name is cut off, unless nothing would be left.
Preprocess(q, search) ==
    LET hits == {i \in DOMAIN search : HasSuffix(q, AddQuota(search[i]))}
        cut  == CutSuffix(q, AddQuota(search[Min(hits)]))
    IN  IF hits = {} \/ cut = <<>> THEN q ELSE cut

\* The key the dnsagent resolver looks up for a question: dnsHandler.ServeDNS
\* hands it Preprocess(question.Name), and lookupFromPolaris parses that
\* with the resolver's suffix.
LookupKey(q, search, suffix) == ParseQname(Preprocess(q, search), suffix, CurrentNs)

\* strings.Count(name, ".").
Dots(s) == Cardinality({i \in DOMAIN s : s[i] = Dot})

\* Proxy.expandQuery: a name with fewer than ndots dots is tried once per
\* search domain, as AddQuota(name + search); any other name as it is.
ExpandQuery(name, ndots, search) ==
    IF Dots(name) < ndots
    THEN [i \in DOMAIN search |-> AddQuota(name \o search[i])]
    ELSE <<name>>

-----------------------------------------------------------------------------
(* Reference definitions, over labels.                                     *)

\* The labels of s: the strings between its dots.
RECURSIVE Split(_)
Split(s) ==
    IF s = <<>> THEN << <<>> >>
    ELSE LET rest == Split(Tail(s))
         IN  IF Head(s) = Dot THEN << <<>> >> \o rest
             ELSE << <<Head(s)>> \o Head(rest) >> \o Tail(rest)

\* The labels joined by dots.
RECURSIVE Join(_)
Join(ls) ==
    IF Len(ls) = 1 THEN Head(ls) ELSE Head(ls) \o <<Dot>> \o Join(Tail(ls))

\* Section 4.1: the name left once the canonical suffix is cut off (trailing
\* dot removed) is "<service>.<namespace>" with the namespace its last label,
\* or a bare service in the current namespace.
ParseQnameSpec(q, suffix, currentNs) ==
    LET matched == suffix = <<>> \/ HasSuffix(AddQuota(q), AddQuota(suffix))
        rest    == IF suffix = <<>> THEN q
                   ELSE CutSuffix(AddQuota(q), AddQuota(suffix))
        ls      == Split(RemoveQuota(rest))
        ns      == ls[Len(ls)]
    IN  IF ~matched THEN NoKey
        ELSE IF Len(ls) = 1 THEN [namespace |-> currentNs, service |-> ls[1]]
        ELSE [namespace |-> IF Lower(ns) = SysNamespace
                            THEN ServerNamespace ELSE ns,
              service   |-> Join(SubSeq(ls, 1, Len(ls) - 1))]

\* Section 4.3 step 3: the first search domain that ends the name after a
\* dot is stripped, its canonical form cut off.
PreprocessSpec(q, search) ==
    LET hits == {i \in DOMAIN search : HasSuffix(q, <<Dot>> \o AddQuota(search[i]))}
    IN  IF hits = {} THEN q ELSE CutSuffix(q, AddQuota(search[Min(hits)]))

\* A fully qualified name as miekg/dns hands it over: labels ended by dots,
\* none empty, or the root ".".
FQDNs == {s \in NameStrings : HasSuffix(s, <<Dot>>) /\
                        (s = <<Dot>> \/ \A l \in ToSet(Front(Split(s))) : l # <<>>)}

\* Search domains as resolv.conf lists them: non-empty, no leading dot.
SearchDomains == {s \in SuffixStrings : s # <<>> /\ Head(s) # Dot}
SearchLists == BoundedSeq(SearchDomains, MaxSearch)

====
