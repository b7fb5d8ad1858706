--------------------------- MODULE ServerLifecycle ---------------------------
(***************************************************************************)
(* Server.Run: the listeners, each served by a goroutine of its own, the   *)
(* wait for the main one, the wait for a signal or a failure, and shutdown *)
(* with its drain deadline.  Requests use the middleware chain for as long *)
(* as they are in flight.                                                  *)
(***************************************************************************)
EXTENDS Naturals, Sequences

CONSTANTS ServerConfigs   \* the listeners that may be configured

VARIABLES
    config,      \* Server.cfg
    run,         \* where Run is
    listener,    \* each listener's goroutine
    errCh,       \* errors in Run's channel
    started, ready,   \* HealthChecker
    signal,      \* SIGTERM or SIGINT has cancelled the context
    left,        \* servers that shutdown has still to shut down
    deadline,    \* the drain timeout has passed
    busy,        \* servers with a request in flight
    chain        \* the middleware chain

runVars == <<config, run, listener, errCh, started, ready, signal, left, deadline,
             busy, chain>>

validateMTLS(c) ==
    c.mtls => c.tls /\ c.caFile /\ c.listenAddr \notin {"", c.address}

validateTLS(c) ==
    /\ c.tls => c.certFile
    /\ c.http3 => c.tls
    /\ validateMTLS(c)

\* The servers that New builds.
Servers(c) ==
    {"admin", "main"} \cup (IF c.http3 THEN {"http3"} ELSE {})
                      \cup (IF c.mtls THEN {"mtls"} ELSE {})

\* Mutant: the mTLS server is forgotten.
ShutdownOrderShort(c) == (IF c.http3 THEN <<"http3">> ELSE <<>>) \o <<"main", "admin">>

\* The order in which shutdown goes through the servers there are.
ShutdownOrder(c) ==
    (IF c.http3 THEN <<"http3">> ELSE <<>>) \o <<"main">> \o
    (IF c.mtls THEN <<"mtls">> ELSE <<>>) \o <<"admin">>

-----------------------------------------------------------------------------

RunInit ==
    /\ config \in {c \in ServerConfigs : validateTLS(c)}
    /\ run = "setup" /\ listener = [s \in Servers(config) |-> "none"]
    /\ errCh = 0
    /\ started = FALSE /\ ready = FALSE /\ signal = FALSE
    /\ left = <<>> /\ deadline = FALSE /\ busy = {} /\ chain = "open"

rest == <<config, started, ready, signal, left, deadline, busy, chain>>

\* A certificate or CA file that cannot be loaded ends Run; otherwise the
\* servers are started.
Setup ==
    /\ run = "setup"
    /\ \/ /\ run' = "wait" /\ started' = TRUE
          /\ listener' = [s \in Servers(config) |-> "starting"]
       \/ config.tls /\ run' = "exited" /\ UNCHANGED <<started, listener>>
    /\ UNCHANGED <<config, errCh, ready, signal, left, deadline, busy, chain>>

Listen(s) ==
    /\ listener[s] = "starting"
    /\ listener' = [listener EXCEPT ![s] = "serving"]
    /\ UNCHANGED <<rest, run, errCh>>

\* Mutant: the goroutine returns without a word.
ListenFailsQuietly(s) ==
    /\ listener[s] = "starting"
    /\ listener' = [listener EXCEPT ![s] = "failed"]
    /\ UNCHANGED <<rest, run, errCh>>

\* Each goroutine sends one error at most, and errCh holds four.
ListenFails(s) ==
    /\ listener[s] = "starting"
    /\ listener' = [listener EXCEPT ![s] = "failed"]
    /\ errCh' = errCh + 1
    /\ UNCHANGED <<rest, run>>

ServeFails(s) ==
    /\ listener[s] = "serving"
    /\ listener' = [listener EXCEPT ![s] = "broken"]
    /\ errCh' = errCh + 1
    /\ UNCHANGED <<rest, run>>

Accept(s) ==
    /\ listener[s] = "serving" /\ run # "exited" /\ s \notin busy
    /\ busy' = busy \cup {s}
    /\ UNCHANGED <<config, run, listener, errCh, started, ready, signal, left, deadline, chain>>

Respond(s) ==
    /\ s \in busy /\ run # "exited"
    /\ busy' = busy \ {s}
    /\ UNCHANGED <<config, run, listener, errCh, started, ready, signal, left, deadline, chain>>

Signal ==
    /\ ~signal /\ run # "exited" /\ signal' = TRUE
    /\ UNCHANGED <<config, run, listener, errCh, started, ready, left, deadline, busy, chain>>

\* readyCh is closed when the main server has its listener, and stays closed.
BecomeReady ==
    /\ run = "wait" /\ listener["main"] \in {"serving", "broken"}
    /\ run' = "serve" /\ ready' = TRUE
    /\ UNCHANGED <<config, listener, errCh, started, signal, left, deadline, busy, chain>>

\* An error of any server ends Run at once, without shutdown.
Fail ==
    /\ run \in {"wait", "serve"} /\ errCh > 0
    /\ run' = "exited" /\ errCh' = errCh - 1
    /\ UNCHANGED <<rest, listener>>

(***************************************************************************)
(* shutdown.                                                               *)
(***************************************************************************)

Drain ==
    /\ run = "serve" /\ signal
    /\ run' = "drain" /\ ready' = FALSE
    /\ left' = ShutdownOrder(config)
    /\ UNCHANGED <<config, listener, errCh, started, signal, deadline, busy, chain>>

\* http.Server.Shutdown closes the listener, then waits for the requests.
StopListening ==
    /\ run = "drain" /\ left # <<>> /\ listener[Head(left)] # "closed"
    /\ listener' = [listener EXCEPT ![Head(left)] = "closed"]
    /\ UNCHANGED <<rest, run, errCh>>

Drained ==
    /\ run = "drain" /\ left # <<>> /\ listener[Head(left)] = "closed"
    /\ Head(left) \notin busy \/ deadline
    /\ left' = Tail(left)
    /\ UNCHANGED <<config, run, listener, errCh, started, ready, signal, deadline, busy, chain>>

DrainTimeout ==
    /\ run = "drain" /\ ~deadline /\ deadline' = TRUE
    /\ UNCHANGED <<config, run, listener, errCh, started, ready, signal, left, busy, chain>>

\* adminRL.Stop and chain.Close.
CloseChain ==
    /\ run = "drain" /\ left = <<>>
    /\ run' = "telemetry" /\ chain' = "closed"
    /\ UNCHANGED <<config, listener, errCh, started, ready, signal, left, deadline, busy>>

\* The tracing and metrics providers are flushed, and Run returns.
Exit ==
    /\ run = "telemetry" /\ run' = "exited"
    /\ UNCHANGED <<rest, listener, errCh>>

Steps == Setup \/ BecomeReady \/ Fail \/ Drain \/ StopListening \/ Drained
            \/ DrainTimeout \/ CloseChain \/ Exit

RunNext ==
    \/ Steps \/ Signal
    \/ \E s \in Servers(config) :
          Listen(s) \/ ListenFails(s) \/ ServeFails(s) \/ Accept(s) \/ Respond(s)

RunSpec == RunInit /\ [][RunNext]_runVars

\* Run's goroutine runs, the drain timeout passes, and a goroutine that calls
\* net.Listen gets an answer.  Nothing is assumed of requests or of signals.
RunFairness ==
    /\ WF_runVars(Steps)
    /\ WF_runVars(\E s \in Servers(config) : Listen(s) \/ ListenFails(s))

-----------------------------------------------------------------------------

\* The chain is closed under no request that shutdown could have waited for:
\* every server that uses it, the admin server too, has been shut down before
\* and has no request left, unless the drain timeout cut the wait short.
DrainBeforeClose ==
    chain = "closed" =>
        /\ busy = {} \/ deadline
        /\ \A s \in Servers(config) : listener[s] \notin {"starting", "serving"}

\* After a signal the process ends, whatever the requests do and whichever of
\* the servers never came up.
ShutdownCompletes == signal ~> run = "exited"
=============================================================================
