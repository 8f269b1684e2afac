--------------------------- MODULE MC_Supervisor ---------------------------
(* Model-checking instances of the lifecycle core.                         *)
EXTENDS Supervisor, TLC

\* Every component but rate limiting: the four whose error-channel slots
\* are exactly used up when every serve goroutine and the mTLS rotator
\* report an error.
NoRls == {"debug", "dns", "mtls", "metrics"}

\* The three holders of the shared SDKContext.
SdkHolders == {"dns", "rls", "metrics"}

\* The DNS server alone (the default when mesh features are off and the
\* debug server is disabled).
DnsOnly == {"dns"}

\* The rate-limit server with the DNS server, which initAgent always
\* builds (InitDnsResolver returns a server or fails): the smallest set
\* of components with RLS a configuration yields.
DnsRls == {"dns", "rls"}
====
