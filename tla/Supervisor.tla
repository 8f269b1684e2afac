----------------------------- MODULE Supervisor -----------------------------
(***************************************************************************)
(* The lifecycle core (internal/bootstrap/entry.go, agent.go) and the Run  *)
(* and Destroy of the five components it supervises: the debug HTTP        *)
(* server, the DNS server (UDP and TCP listeners), the mTLS/SDS agent, the  *)
(* metrics reporter and the rate-limit (RLS) gRPC server.                  *)
(*                                                                         *)
(* Start launches every enabled component's Run on its own goroutine,      *)
(* then runMainLoop waits for a signal or for an error on the buffered     *)
(* channel errCh, cancels the shared context, and waits for the WaitGroup  *)
(* with a 30 s deadline.  Each Run calls wg.Add(1) itself, starts its      *)
(* listeners, spawns "serve" goroutines that send the result of Serve on   *)
(* errCh, waits for the context, and in a deferred function calls its      *)
(* Destroy and wg.Done.  The DNS resolver, the metrics reporter and the    *)
(* RLS server each hold an API object built on the one shared polaris      *)
(* SDKContext; destroying any of them destroys that context.               *)
(*                                                                         *)
(* Errors are abstracted to "err" (non-nil) and "nil".  When Start returns *)
(* the process exits, so no goroutine steps after that.                    *)
(***************************************************************************)
EXTENDS Naturals, Sequences, FiniteSets, FiniteSetsExt

CONSTANTS
    Enabled,    \* the components initAgent built (non-nil fields of Agent)
    Callers     \* the components whose registry calls are modelled

Comps == {"debug", "dns", "mtls", "metrics", "rls"}

ASSUME Enabled \subseteq Comps /\ Callers \subseteq {"dns", "rls", "metrics"}

\* The serve goroutines each Run spawns, by component.
ServersOf(c) ==
    CASE c = "debug" -> {"debug"}
      [] c = "dns"   -> {"udp", "tcp"}
      [] c = "mtls"  -> {"mtls"}
      [] c = "rls"   -> {"rls"}
      [] OTHER       -> {}

Servers == UNION {ServersOf(c) : c \in Enabled}

\* Components whose handlers call the registry for each request they serve
\* (the dnsagent resolver and ShouldRateLimit), and the listener serving them.
Users == {"dns", "rls"} \cap Enabled \cap Callers
ListenerOf(c) == IF c = "dns" THEN "udp" ELSE "rls"

\* Mutant: getErrorChannel counts the DNS server as one service.
WeightDnsOne(c) == 1

\* getErrorChannel: one slot per component, two for the DNS server.
Weight(c) == IF c = "dns" THEN 2 ELSE 1
ChannelCapacity == MapThenSumSet(Weight, Enabled)

\* Program counter of a component's Run goroutine.
\*  spawned   go Run(...) issued, wg.Add(1) not yet executed
\*  added     wg.Add(1) done, starting up
\*  rotator   (mtls) listener up, rotator.Run being started
\*  senderr   a startup step failed: blocked on errChan <- err
\*  waiting   blocked on <-ctx.Done() (metrics: in its ticker select)
\*  reporting (metrics) inside reportMetricByCluster
\*  destroy   deferred function entered
\*  stopping  (rls) limiter destroyed, GracefulStop pending
\*  draining  (rls) GracefulStop refuses new RPCs, waits for in-flight
\*  closing   Destroy finished, wg.Done pending (debug: the reverse)
\*  done      Run returned
RunPCs == {"spawned", "added", "rotator", "senderr", "waiting", "reporting",
           "destroy", "stopping", "draining", "closing", "done"}

\* A serve goroutine: not started, serving, returned with a value that it
\* is about to send on errCh, or finished its send.
ServeStates == {"off", "serving", "err", "nil", "sent"}

\* The main goroutine: in runMainLoop, waiting for the WaitGroup after
\* cancel, returned after all components finished or after the deadline,
\* or blocked forever on <-ctx.Done() because runMainLoop returned without
\* calling cancel.
MainStates == {"loop", "wait", "graceful", "forced", "stuck"}

VARIABLES
    main,       \* the main goroutine
    cancelled,  \* the shared context has been cancelled
    errCh,      \* the contents of the buffered error channel
    wg,         \* the WaitGroup counter
    run,        \* run[c]: the Run goroutine of component c
    srv,        \* srv[s]: serve goroutine s
    sdkAlive,   \* the shared SDKContext has not been destroyed
    handle,     \* components holding a consumer or limit API
    destroyed,  \* components whose Destroy has run
    call,       \* call[c]: a request handler of c is inside a registry call
    deadUse     \* components that called the registry on a destroyed SDK

vars == <<main, cancelled, errCh, wg, run, srv, sdkAlive, handle, destroyed,
          call, deadUse>>

\* Start after initAgent: the dnsagent resolver got its consumer API when
\* the DNS server was built; every Run has been spawned by runServices.
Init ==
    /\ main = "loop"
    /\ cancelled = FALSE
    /\ errCh = << >>
    /\ wg = 0
    /\ run = [c \in Enabled |-> "spawned"]
    /\ srv = [s \in Servers |-> "off"]
    /\ sdkAlive = TRUE
    /\ handle = {"dns"} \cap Enabled
    /\ destroyed = {}
    /\ call = [c \in Users |-> "idle"]
    /\ deadUse = {}

\* The process is running: Start has not returned.
Alive == main \notin {"graceful", "forced"}

CanSend == Len(errCh) < ChannelCapacity

\* A request handler of c is inside a registry call.
InFlight(c) == c \in Users /\ call[c] = "inflight"

-----------------------------------------------------------------------------
(* Run goroutines.                                                         *)

\* Mutant: wg.Add(1) once per listener instead of once per component.
WgAddPerListener(c) ==
    /\ run[c] = "spawned"
    /\ wg' = wg + Weight(c)
    /\ run' = [run EXCEPT ![c] = "added"]
    /\ UNCHANGED <<main, cancelled, errCh, srv, sdkAlive, handle, destroyed,
                   call, deadUse>>

\* wg.Add(1), executed by the component's own goroutine.
WgAdd(c) ==
    /\ run[c] = "spawned"
    /\ wg' = wg + 1
    /\ run' = [run EXCEPT ![c] = "added"]
    /\ UNCHANGED <<main, cancelled, errCh, srv, sdkAlive, handle, destroyed,
                   call, deadUse>>

\* debugger.Run: net.Listen fails, or the serve goroutine is started.
DebugListen ==
    /\ run["debug"] = "added"
    /\ \/ run' = [run EXCEPT !["debug"] = "senderr"] /\ UNCHANGED srv
       \/ /\ run' = [run EXCEPT !["debug"] = "waiting"]
          /\ srv' = [srv EXCEPT !["debug"] = "serving"]
    /\ UNCHANGED <<main, cancelled, errCh, wg, sdkAlive, handle, destroyed,
                   call, deadUse>>

\* resolver.Server.Run: start the resolvers and one goroutine per listener.
DnsStart ==
    /\ run["dns"] = "added"
    /\ run' = [run EXCEPT !["dns"] = "waiting"]
    /\ srv' = [srv EXCEPT !["udp"] = "serving", !["tcp"] = "serving"]
    /\ UNCHANGED <<main, cancelled, errCh, wg, sdkAlive, handle, destroyed,
                   call, deadUse>>

\* mtls.Agent.Run: net.Listen fails, or the gRPC serve goroutine starts.
MtlsListen ==
    /\ run["mtls"] = "added"
    /\ \/ run' = [run EXCEPT !["mtls"] = "senderr"] /\ UNCHANGED srv
       \/ /\ run' = [run EXCEPT !["mtls"] = "rotator"]
          /\ srv' = [srv EXCEPT !["mtls"] = "serving"]
    /\ UNCHANGED <<main, cancelled, errCh, wg, sdkAlive, handle, destroyed,
                   call, deadUse>>

\* Mutant: a rotator failure returns without errChan <- err.
MtlsRotatorNoSend ==
    /\ run["mtls"] = "rotator"
    /\ \E next \in {"destroy", "waiting"} : run' = [run EXCEPT !["mtls"] = next]
    /\ UNCHANGED <<main, cancelled, errCh, wg, srv, sdkAlive, handle,
                   destroyed, call, deadUse>>

\* mtls.Agent.Run: rotator.Run returns an error or starts the refresh loop.
MtlsRotator ==
    /\ run["mtls"] = "rotator"
    /\ \E next \in {"senderr", "waiting"} : run' = [run EXCEPT !["mtls"] = next]
    /\ UNCHANGED <<main, cancelled, errCh, wg, srv, sdkAlive, handle,
                   destroyed, call, deadUse>>

\* metrics.Server.Run: GetConsumerAPI (it cannot fail: InitPolarisApi set
\* the SDKContext before any Run started) and enter the ticker loop.
MetricsStart ==
    /\ run["metrics"] = "added"
    /\ run' = [run EXCEPT !["metrics"] = "waiting"]
    /\ handle' = handle \cup {"metrics"}
    /\ UNCHANGED <<main, cancelled, errCh, wg, srv, sdkAlive, destroyed,
                   call, deadUse>>

\* A tick of the metrics ticker.  select picks among ready cases at
\* random, so a tick may still be taken after the context is cancelled.
MetricsTick ==
    /\ "metrics" \in Callers
    /\ run["metrics"] = "waiting"
    /\ run' = [run EXCEPT !["metrics"] = "reporting"]
    /\ UNCHANGED <<main, cancelled, errCh, wg, srv, sdkAlive, handle,
                   destroyed, call, deadUse>>

\* reportMetricByCluster ends with UpdateServiceCallResult on the consumer.
MetricsReport ==
    /\ run["metrics"] = "reporting"
    /\ run' = [run EXCEPT !["metrics"] = "waiting"]
    /\ deadUse' = IF sdkAlive THEN deadUse ELSE deadUse \cup {"metrics"}
    /\ UNCHANGED <<main, cancelled, errCh, wg, srv, sdkAlive, handle,
                   destroyed, call>>

\* rls.RateLimitServer.Run: MkdirAll or Listen fails; or GetLimitAPI
\* succeeds and then the TLS credentials fail; or the gRPC server starts.
RlsListen ==
    /\ run["rls"] = "added"
    /\ \/ /\ run' = [run EXCEPT !["rls"] = "senderr"]
          /\ UNCHANGED <<srv, handle>>
       \/ /\ run' = [run EXCEPT !["rls"] = "senderr"]
          /\ handle' = handle \cup {"rls"}
          /\ UNCHANGED srv
       \/ /\ run' = [run EXCEPT !["rls"] = "waiting"]
          /\ handle' = handle \cup {"rls"}
          /\ srv' = [srv EXCEPT !["rls"] = "serving"]
    /\ UNCHANGED <<main, cancelled, errCh, wg, sdkAlive, destroyed, call,
                   deadUse>>

\* errChan <- err followed by return: blocks while the channel is full.
SendErr(c) ==
    /\ run[c] = "senderr"
    /\ CanSend
    /\ errCh' = Append(errCh, "err")
    /\ run' = [run EXCEPT ![c] = "destroy"]
    /\ UNCHANGED <<main, cancelled, wg, srv, sdkAlive, handle, destroyed,
                   call, deadUse>>

\* Mutant: Run returns once started, without waiting for <-ctx.Done().
AwaitCancelNoWait(c) ==
    /\ run[c] = "waiting"
    /\ run' = [run EXCEPT ![c] = "destroy"]
    /\ UNCHANGED <<main, cancelled, errCh, wg, srv, sdkAlive, handle,
                   destroyed, call, deadUse>>

\* <-ctx.Done() returns (for metrics: the ctx.Done case of its select).
AwaitCancel(c) ==
    /\ run[c] = "waiting"
    /\ cancelled
    /\ run' = [run EXCEPT ![c] = "destroy"]
    /\ UNCHANGED <<main, cancelled, errCh, wg, srv, sdkAlive, handle,
                   destroyed, call, deadUse>>

\* Shut down serve goroutines: a serving one returns the value Serve
\* returns after a shutdown (http: ErrServerClosed; grpc and dns: nil).
StopServers(S) ==
    srv' = [s \in Servers |->
              IF s \in S /\ srv[s] = "serving"
              THEN (IF s = "debug" THEN "err" ELSE "nil")
              ELSE srv[s]]

\* Releasing a component's API object destroys the shared SDKContext.
ReleaseSdk(c) ==
    /\ sdkAlive' = (sdkAlive /\ c \notin handle)
    /\ handle' = handle \ {c}

\* The debug server's deferred function: wg.Done() comes before Destroy().
DebugDone ==
    /\ run["debug"] = "destroy"
    /\ wg' = wg - 1
    /\ run' = [run EXCEPT !["debug"] = "closing"]
    /\ UNCHANGED <<main, cancelled, errCh, srv, sdkAlive, handle, destroyed,
                   call, deadUse>>

\* DebugServer.Destroy: Shutdown of the http server.
DebugDestroy ==
    /\ run["debug"] = "closing"
    /\ StopServers({"debug"})
    /\ destroyed' = destroyed \cup {"debug"}
    /\ run' = [run EXCEPT !["debug"] = "done"]
    /\ UNCHANGED <<main, cancelled, errCh, wg, sdkAlive, handle, call,
                   deadUse>>

\* resolver.Server.Destroy: ShutdownContext of both listeners (10 s
\* deadline, so a query may still be in flight), then the resolvers'
\* Destroy, which destroys the consumer API.
DnsDestroy ==
    /\ run["dns"] = "destroy"
    /\ StopServers({"udp", "tcp"})
    /\ ReleaseSdk("dns")
    /\ destroyed' = destroyed \cup {"dns"}
    /\ run' = [run EXCEPT !["dns"] = "closing"]
    /\ UNCHANGED <<main, cancelled, errCh, wg, call, deadUse>>

\* mtls.Agent.Destroy: GracefulStop and close the listener.
MtlsDestroy ==
    /\ run["mtls"] = "destroy"
    /\ StopServers({"mtls"})
    /\ destroyed' = destroyed \cup {"mtls"}
    /\ run' = [run EXCEPT !["mtls"] = "closing"]
    /\ UNCHANGED <<main, cancelled, errCh, wg, sdkAlive, handle, call,
                   deadUse>>

\* metrics.Server.Destroy: consumer.Destroy().
MetricsDestroy ==
    /\ run["metrics"] = "destroy"
    /\ ReleaseSdk("metrics")
    /\ destroyed' = destroyed \cup {"metrics"}
    /\ run' = [run EXCEPT !["metrics"] = "closing"]
    /\ UNCHANGED <<main, cancelled, errCh, wg, srv, call, deadUse>>

\* RateLimitServer.Destroy, first step: limiter.Destroy().
RlsReleaseLimiter ==
    /\ run["rls"] = "destroy"
    /\ ReleaseSdk("rls")
    /\ run' = [run EXCEPT !["rls"] = "stopping"]
    /\ UNCHANGED <<main, cancelled, errCh, wg, srv, destroyed, call, deadUse>>

\* RateLimitServer.Destroy, second step: GracefulStop closes the listener
\* and refuses new RPCs on open connections.
RlsGracefulStop ==
    /\ run["rls"] = "stopping"
    /\ run' = [run EXCEPT !["rls"] = "draining"]
    /\ UNCHANGED <<main, cancelled, errCh, wg, srv, sdkAlive, handle,
                   destroyed, call, deadUse>>

\* GracefulStop returns once no RPC is in flight; Serve returns nil and the
\* rest of Destroy (ln.Close, removing the socket directory) runs.
RlsStop ==
    /\ run["rls"] = "draining"
    /\ ~InFlight("rls")
    /\ StopServers({"rls"})
    /\ destroyed' = destroyed \cup {"rls"}
    /\ run' = [run EXCEPT !["rls"] = "closing"]
    /\ UNCHANGED <<main, cancelled, errCh, wg, sdkAlive, handle, call,
                   deadUse>>

\* Mutant: the deferred function returns without wg.Done().
WgDoneSkipped(c) ==
    /\ c # "debug"
    /\ run[c] = "closing"
    /\ run' = [run EXCEPT ![c] = "done"]
    /\ UNCHANGED <<main, cancelled, errCh, wg, srv, sdkAlive, handle,
                   destroyed, call, deadUse>>

\* wg.Done() at the end of the deferred function (debug: its Run returns).
WgDone(c) ==
    /\ c # "debug"
    /\ run[c] = "closing"
    /\ wg' = wg - 1
    /\ run' = [run EXCEPT ![c] = "done"]
    /\ UNCHANGED <<main, cancelled, errCh, srv, sdkAlive, handle, destroyed,
                   call, deadUse>>

-----------------------------------------------------------------------------
(* Serve goroutines: errChan <- server.Serve(ln).                          *)

\* Serve returns on its own with an error (accept failure, bind failure).
ServeFail(s) ==
    /\ srv[s] = "serving"
    /\ srv' = [srv EXCEPT ![s] = "err"]
    /\ UNCHANGED <<main, cancelled, errCh, wg, run, sdkAlive, handle,
                   destroyed, call, deadUse>>

\* The returned value is sent on errCh; blocks while the channel is full.
ServeSend(s) ==
    /\ srv[s] \in {"err", "nil"}
    /\ CanSend
    /\ errCh' = Append(errCh, srv[s])
    /\ srv' = [srv EXCEPT ![s] = "sent"]
    /\ UNCHANGED <<main, cancelled, wg, run, sdkAlive, handle, destroyed,
                   call, deadUse>>

-----------------------------------------------------------------------------
(* Request handlers that call the registry: the dnsagent resolver's        *)
(* GetOneInstance and ShouldRateLimit's GetQuota.                          *)

StartCall(c) ==
    /\ call[c] = "idle"
    /\ srv[ListenerOf(c)] = "serving"
    /\ run[c] # "draining"
    /\ call' = [call EXCEPT ![c] = "inflight"]
    /\ UNCHANGED <<main, cancelled, errCh, wg, run, srv, sdkAlive, handle,
                   destroyed, deadUse>>

FinishCall(c) ==
    /\ call[c] = "inflight"
    /\ call' = [call EXCEPT ![c] = "idle"]
    /\ deadUse' = IF sdkAlive THEN deadUse ELSE deadUse \cup {c}
    /\ UNCHANGED <<main, cancelled, errCh, wg, run, srv, sdkAlive, handle,
                   destroyed>>

-----------------------------------------------------------------------------
(* The main goroutine: runMainLoop, then the bounded wait in Start.        *)

\* A signal arrives: cancel() and return.
Signal ==
    /\ main = "loop"
    /\ main' = "wait"
    /\ cancelled' = TRUE
    /\ UNCHANGED <<errCh, wg, run, srv, sdkAlive, handle, destroyed, call,
                   deadUse>>

\* An error is received.  err.Error() on a nil error panics; the deferred
\* recover swallows it and runMainLoop returns without cancel(), so Start
\* blocks on <-ctx.Done() for good.
ReceiveErr ==
    /\ main = "loop"
    /\ errCh # << >>
    /\ errCh' = Tail(errCh)
    /\ IF Head(errCh) = "nil"
         THEN main' = "stuck" /\ UNCHANGED cancelled
         ELSE main' = "wait" /\ cancelled' = TRUE
    /\ UNCHANGED <<wg, run, srv, sdkAlive, handle, destroyed, call, deadUse>>

\* wg.Wait() returns: "all components shutdown gracefully".
AllDone ==
    /\ main = "wait"
    /\ wg = 0
    /\ main' = "graceful"
    /\ UNCHANGED <<cancelled, errCh, wg, run, srv, sdkAlive, handle,
                   destroyed, call, deadUse>>

\* time.After(30 * time.Second) fires first.
Deadline ==
    /\ main = "wait"
    /\ main' = "forced"
    /\ UNCHANGED <<cancelled, errCh, wg, run, srv, sdkAlive, handle,
                   destroyed, call, deadUse>>

\* The steps A of component c, taken only when initAgent built it.
On(c, A) == c \in Enabled /\ A

Next ==
    \/ Signal \/ ReceiveErr \/ AllDone \/ Deadline
    \/ /\ Alive
       /\ \/ \E c \in Enabled : WgAdd(c) \/ SendErr(c) \/ AwaitCancel(c) \/ WgDone(c)
          \/ On("debug", DebugListen \/ DebugDone \/ DebugDestroy)
          \/ On("dns", DnsStart \/ DnsDestroy)
          \/ On("mtls", MtlsListen \/ MtlsRotator \/ MtlsDestroy)
          \/ On("metrics", MetricsStart \/ MetricsTick \/ MetricsReport
                            \/ MetricsDestroy)
          \/ On("rls", RlsListen \/ RlsReleaseLimiter \/ RlsGracefulStop
                                  \/ RlsStop)
          \/ \E s \in Servers : ServeFail(s) \/ ServeSend(s)
          \/ \E c \in Users : StartCall(c) \/ FinishCall(c)

Spec == Init /\ [][Next]_vars

\* The steps of c's own Run goroutine (and its deferred teardown), apart
\* from <-ctx.Done() and the metrics ticker, which are scheduled by time.
Progress(c) ==
    \/ WgAdd(c) \/ SendErr(c) \/ WgDone(c)
    \/ c = "debug" /\ (DebugListen \/ DebugDone \/ DebugDestroy)
    \/ c = "dns" /\ (DnsStart \/ DnsDestroy)
    \/ c = "mtls" /\ (MtlsListen \/ MtlsRotator \/ MtlsDestroy)
    \/ c = "metrics" /\ (MetricsStart \/ MetricsReport \/ MetricsDestroy)
    \/ c = "rls" /\ (RlsListen \/ RlsReleaseLimiter \/ RlsGracefulStop
                                  \/ RlsStop)

\* Every goroutine the process runs is eventually scheduled while the
\* process lives: the main goroutine, the wg.Wait goroutine, each Run and
\* serve goroutine, and a registry call in flight.  <-ctx.Done() is
\* strongly fair: the metrics select picks among ready cases at random, so
\* a ticker that keeps firing cannot starve it.  Signals, serve failures,
\* incoming requests, ticks and the 30 s timer are the environment and get
\* no fairness.
Fairness ==
    /\ WF_vars(ReceiveErr) /\ WF_vars(AllDone)
    /\ \A c \in Enabled : /\ WF_vars(Alive /\ Progress(c))
                          /\ SF_vars(Alive /\ AwaitCancel(c))
    /\ \A s \in Servers : WF_vars(Alive /\ ServeSend(s))
    /\ \A c \in Users : WF_vars(Alive /\ FinishCall(c))

FairSpec == Spec /\ Fairness

-----------------------------------------------------------------------------
(* Properties.                                                             *)

TypeOK ==
    /\ main \in MainStates
    /\ cancelled \in BOOLEAN
    /\ errCh \in Seq({"err", "nil"}) /\ Len(errCh) <= ChannelCapacity
    /\ wg \in 0..Cardinality(Enabled)
    /\ run \in [Enabled -> RunPCs]
    /\ srv \in [Servers -> ServeStates]
    /\ sdkAlive \in BOOLEAN
    /\ handle \subseteq Enabled /\ destroyed \subseteq Enabled
    /\ call \in [Users -> {"idle", "inflight"}]
    /\ deadUse \subseteq Enabled

\* getErrorChannel sizes errCh so that no component's Run goroutine ever
\* blocks on errChan <- err for good: once runMainLoop has returned nobody
\* drains the channel, and a Run blocked there never calls wg.Done, which
\* turns every shutdown into the 30 s forced exit.
NoRunBlockedOnErrCh ==
    \A c \in Enabled : run[c] = "senderr" /\ main # "loop" => CanSend

\* runMainLoop only ever receives non-nil errors: a serve goroutine's nil
\* (returned after GracefulStop or Shutdown) is always queued behind the
\* error that made its component stop, so err.Error() never panics and
\* cancel() is always called.
MainLoopNeverStuck == main # "stuck"

\* Start logs "all components shutdown gracefully" only when every
\* component's Destroy has run.
GracefulShutdownComplete == main = "graceful" => destroyed = Enabled

\* No request handler or metrics report calls the registry through an API
\* object whose SDKContext has been destroyed.
RegistryUsedOnlyWhileAlive == deadUse = {}

\* Once runMainLoop has returned, Start exits without waiting on the 30 s
\* timer's fairness: every component's deferred wg.Done() runs, so the
\* wg.Wait goroutine closes done.  A Run blocked on errChan, a teardown
\* waiting on a call that never ends, or a wg.Add without its Done leaves
\* main in the wait with only the timer to end it.
ShutdownTerminates == main = "wait" ~> ~Alive

====
