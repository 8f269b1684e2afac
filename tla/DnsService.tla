------------------------------ MODULE DnsService ------------------------------
(***************************************************************************)
(* What the DNS serving path promises each request, whatever the resolver  *)
(* chain and the upstreams do: a request without a question is refused at *)
(* once; any other is taken in and, in one step, either answered once or   *)
(* dropped without a reply (a recovered panic, an unpackable message).    *)
(* An answer is the resolver's NOERROR, an upstream reply whose rcode was  *)
(* NOERROR or NXDOMAIN, or SERVFAIL.  Every request taken in is finished.  *)
(* DnsServe implements it; the mapping is in DnsServe.                     *)
(***************************************************************************)
EXTENDS Sequences

CONSTANTS
    Req,        \* requests
    Questions   \* questions a request may carry; q.present is FALSE for none

VARIABLES
    q,    \* each request's question
    st,   \* "idle", "busy" (taken in) or "done"
    out   \* the messages written for each request

vars == <<q, st, out>>

\* The messages a finished request may have been sent.
Refusal == [rcode |-> "REFUSED", from |-> "code", upstream |-> "NONE"]
Answers ==
    {[rcode |-> "NOERROR", from |-> "resolver", upstream |-> "NONE"],
     [rcode |-> "SERVFAIL", from |-> "code", upstream |-> "NONE"]}
    \cup [rcode : {"NOERROR", "NXDOMAIN"}, from : {"upstream"},
          upstream : {"NOERROR", "NXDOMAIN"}]

Init ==
    /\ q \in [Req -> Questions]
    /\ st = [r \in Req |-> "idle"]
    /\ out = [r \in Req |-> << >>]

Refuse(r) ==
    /\ st[r] = "idle" /\ ~q[r].present
    /\ st' = [st EXCEPT ![r] = "done"]
    /\ out' = [out EXCEPT ![r] = Append(@, Refusal)]
    /\ UNCHANGED q

Receive(r) ==
    /\ st[r] = "idle" /\ q[r].present
    /\ st' = [st EXCEPT ![r] = "busy"]
    /\ UNCHANGED <<q, out>>

Answer(r) ==
    /\ st[r] = "busy"
    /\ \E m \in Answers : out' = [out EXCEPT ![r] = Append(@, m)]
    /\ st' = [st EXCEPT ![r] = "done"]
    /\ UNCHANGED q

Drop(r) ==
    /\ st[r] = "busy"
    /\ st' = [st EXCEPT ![r] = "done"]
    /\ UNCHANGED <<q, out>>

Next == \E r \in Req : Refuse(r) \/ Receive(r) \/ Answer(r) \/ Drop(r)

\* Arrivals are up to the clients; a request taken in is finished.
Spec == Init /\ [][Next]_vars /\ \A r \in Req : WF_vars(Answer(r) \/ Drop(r))

====
