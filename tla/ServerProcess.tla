--------------------------- MODULE ServerProcess ---------------------------
(***************************************************************************)
(* The life of the server's process (runWebsocketServer, main,             *)
(* ShutdownServer), the set-up of the database that is to be called when   *)
(* it starts, and the browsers that connect to it again and again          *)
(* (client.js).                                                            *)
(*                                                                         *)
(* External: who sends signals, who asks for a shutdown (newChatServer     *)
(* means to register ShutdownServer at /shutdown, but neither the receiver *)
(* nor the parameters fit), who calls InitializePostgres (nobody in src/), *)
(* so that each may or may not happen, and the network.                    *)
(***************************************************************************)
EXTENDS DatabaseSetup

CONSTANT Clients

VARIABLES
    main,            \* "starting", "waiting" at the error group, "exited"
    serve,           \* s.Serve: "idle", "accepting", "failed", "closed"
    metricsLogger,   \* logMetrics: "idle", "logging", "ended"
    mainCtxDone,     \* a signal has come
    stopper,         \* ShutdownServer: "idle", "waiting", "returned"
    socket,          \* a browser's websocket: "connecting", "open", "closed"
    timer,           \* its setTimeout: the seconds, 0 if there is none
    reconnectInterval

serverVars == <<main, serve, metricsLogger, mainCtxDone, stopper>>
clientVars == <<socket, timer, reconnectInterval>>
vars == <<setupVars, serverVars, clientVars>>

maxReconnectInterval == 30

(* The error group's context: derived from mainCtx, and done with the first *)
(* error, as which Serve's end always counts.                               *)
eGroupCtxDone == mainCtxDone \/ serve \in {"failed", "closed"}

Alive == main # "exited"

Init ==
    /\ SetupInit
    /\ main = "starting" /\ serve = "idle" /\ metricsLogger = "idle"
    /\ mainCtxDone = FALSE
    /\ stopper = "idle"
    /\ socket = [k \in Clients |-> "connecting"]
    /\ timer = [k \in Clients |-> 0]
    /\ reconnectInterval = [k \in Clients |-> 3]

-----------------------------------------------------------------------------
(* The process *)

Listen ==
    /\ main = "starting"
    /\ \/ main' = "waiting" /\ serve' = "accepting" /\ metricsLogger' = "logging"
       \/ main' = "exited" /\ serve' = "failed" /\ UNCHANGED metricsLogger
    /\ UNCHANGED <<mainCtxDone, stopper, setupVars, clientVars>>

(* The signal is caught, and so is every later one. *)
Interrupt ==
    /\ main = "waiting"
    /\ mainCtxDone' = TRUE
    /\ UNCHANGED <<main, serve, metricsLogger, stopper, setupVars, clientVars>>

ServeFails ==
    /\ main = "waiting" /\ serve = "accepting"
    /\ serve' = "failed"
    /\ UNCHANGED <<main, metricsLogger, mainCtxDone, stopper, setupVars, clientVars>>

(* A mutant: the logger is given the context of the signals. *)
LoggerEnds_MainCtx ==
    /\ main = "waiting" /\ metricsLogger = "logging"
    /\ mainCtxDone
    /\ metricsLogger' = "ended"
    /\ UNCHANGED <<main, serve, mainCtxDone, stopper, setupVars, clientVars>>

LoggerEnds ==
    /\ main = "waiting" /\ metricsLogger = "logging"
    /\ eGroupCtxDone
    /\ metricsLogger' = "ended"
    /\ UNCHANGED <<main, serve, mainCtxDone, stopper, setupVars, clientVars>>

(* Both goroutines have ended.  After an error main panics; after a shutdown *)
(* it starts the check of unresponsive clients and ends, and so does that.  *)
WaitReturns ==
    /\ main = "waiting"
    /\ serve \in {"failed", "closed"} /\ metricsLogger = "ended"
    /\ main' = "exited"
    /\ UNCHANGED <<serve, metricsLogger, mainCtxDone, stopper, setupVars, clientVars>>

(* Any number of requests, one at a time. *)
CallShutdownServer ==
    /\ main = "waiting" /\ stopper # "waiting"
    /\ stopper' = "waiting"
    /\ UNCHANGED <<main, serve, metricsLogger, mainCtxDone, setupVars, clientVars>>

(* The select takes either context if both are done.  The deadline of the   *)
(* shutdown is that of a done context, so Shutdown closes the listener and  *)
(* returns without waiting for requests.                                    *)
ShutdownServer ==
    /\ Alive /\ stopper = "waiting"
    /\ \/ eGroupCtxDone /\ UNCHANGED serve
       \/ mainCtxDone /\ serve' = IF serve = "accepting" THEN "closed" ELSE serve
    /\ stopper' = "returned"
    /\ UNCHANGED <<main, metricsLogger, mainCtxDone, setupVars, clientVars>>

(* A panic nobody recovers ends the process. *)
SetUpDatabase ==
    /\ Alive
    /\ OpenPools \/ InitializePostgres
    /\ main' = IF step' = "panicked" THEN "exited" ELSE main
    /\ UNCHANGED <<serve, metricsLogger, mainCtxDone, stopper, clientVars>>

-----------------------------------------------------------------------------
(* Browsers *)

Accepting == main = "waiting" /\ serve = "accepting"

Opened(k) ==
    /\ socket[k] = "connecting" /\ Accepting
    /\ socket' = [socket EXCEPT ![k] = "open"]
    /\ UNCHANGED <<timer, reconnectInterval, setupVars, serverVars>>

(* A mutant: reconnect is left to onerror, which a clean close is not. *)
Closed_OnError(k) ==
    /\ socket[k] \in {"connecting", "open"}
    /\ socket' = [socket EXCEPT ![k] = "closed"]
    /\ timer' = [timer EXCEPT ![k] = IF socket[k] = "open" THEN 0 ELSE reconnectInterval[k]]
    /\ UNCHANGED <<reconnectInterval, setupVars, serverVars>>

(* An attempt that fails and a connection that ends, for whatever reason. *)
Closed(k) ==
    /\ socket[k] \in {"connecting", "open"}
    /\ socket' = [socket EXCEPT ![k] = "closed"]
    /\ timer' = [timer EXCEPT ![k] = reconnectInterval[k]]
    /\ reconnectInterval' = [reconnectInterval EXCEPT ![k] =
            IF 2 * @ < maxReconnectInterval THEN 2 * @ ELSE maxReconnectInterval]
    /\ UNCHANGED <<setupVars, serverVars>>

reconnect(k) ==
    /\ timer[k] > 0
    /\ timer' = [timer EXCEPT ![k] = 0]
    /\ socket' = [socket EXCEPT ![k] = "connecting"]
    /\ UNCHANGED <<reconnectInterval, setupVars, serverVars>>

-----------------------------------------------------------------------------
Process ==
    \/ Listen \/ Interrupt \/ ServeFails \/ LoggerEnds \/ WaitReturns
    \/ CallShutdownServer \/ ShutdownServer \/ SetUpDatabase

Next == Process \/ \E k \in Clients : Opened(k) \/ Closed(k) \/ reconnect(k)

Spec == Init /\ [][Next]_vars

(* Goroutines are scheduled and calls to the database answer; a handler     *)
(* whose context is done ends, and a dead process closes its connections;   *)
(* timers fire; attempts at a server that accepts succeed now and then.     *)
FairSpec ==
    /\ Spec
    /\ WF_vars(LoggerEnds) /\ WF_vars(WaitReturns)
    /\ WF_vars(SetUpDatabase /\ step # "not_called")
    /\ \A k \in Clients :
        /\ WF_vars(Closed(k) /\ (mainCtxDone \/ ~Accepting))
        /\ WF_vars(reconnect(k))
        /\ SF_vars(Opened(k))

-----------------------------------------------------------------------------
(* Properties *)

TypeOK ==
    /\ step \in DOMAIN After \cup {"not_called", "begin_check", "check",
                                   "close_read", "close_write", "panicked"}
    /\ held \in [Pool -> BOOLEAN]
    /\ schemaFailed \in BOOLEAN
    /\ main \in {"starting", "waiting", "exited"}
    /\ serve \in {"idle", "accepting", "failed", "closed"}
    /\ metricsLogger \in {"idle", "logging", "ended"}
    /\ mainCtxDone \in BOOLEAN
    /\ stopper \in {"idle", "waiting", "returned"}
    /\ socket \in [Clients -> {"connecting", "open", "closed"}]
    /\ timer \in [Clients -> {0, 3, 6, 12, 24, maxReconnectInterval}]
    /\ reconnectInterval \in [Clients -> {3, 6, 12, 24, maxReconnectInterval}]

(* Whatever fails, InitializePostgres comes to its end, the panic, and      *)
(* leaves no pool open that its deferred calls would wait for, unless the   *)
(* failure was a statement of the schema or the process ends first.         *)
SetupEnds ==
    step = "test_write" ~> step = "panicked" \/ schemaFailed \/ main = "exited"

(* The deferred Close of a pool waits for ever exactly when a statement of  *)
(* the schema has failed: every other way to fail has given its connection  *)
(* back before the pools are closed, and that one never does, so that       *)
(* InitializePostgres has no end, not even its panic (initializeDatabase-   *)
(* Schema, isDatabaseSetupCorrectly).                                       *)
HangsIffSchemaFailed ==
    /\ step \in {"close_read", "close_write", "panicked"} /\ ~schemaFailed =>
            \A p \in Pool : ~held[p]
    /\ schemaFailed => step \in {"close_read", "close_write"} /\ \E p \in Pool : held[p]

(* An error of Serve, or a shutdown, ends the process: the logger is told   *)
(* by the group's context and not by the signal's alone (runWebsocketServer).*)
ServeEndEndsProcess == serve \in {"failed", "closed"} ~> main = "exited"

(* Whatever closes a browser's connection, it is open again later, as long  *)
(* as the server accepts (onclose, reconnect).                              *)
ComesBack ==
    \A k \in Clients : socket[k] = "closed" ~> socket[k] = "open" \/ ~Accepting
=============================================================================
