------------------------------ MODULE Lifecycle ------------------------------
(***************************************************************************)
(* The goroutines of the uit-api process and how they stop (main.go,       *)
(* webserver/webserver.go, background-processes.go): the servers, the      *)
(* background group, the root context, and rootErrChan, which main and the *)
(* background group's listener both receive from.                          *)
(***************************************************************************)
EXTENDS Naturals, FiniteSets

CONSTANTS Servers,  \* pprof, HTTP file server, HTTPS server
          Workers,  \* the periodic background processes
          ErrCap,   \* capacity of rootErrChan, 10
          MaxConns  \* bound on the database connections handlers hold

ASSUME CapAssumption == ErrCap \in Nat \ {0} /\ MaxConns \in Nat

VARIABLES main,     \* how far main() is
          rootDone, \* rootCtx is cancelled
          bgDone,   \* the background group's own context is cancelled
          servers,  \* servers[s]: what startWebServer is doing
          alive,    \* background goroutines that have not returned
          errs,     \* number of errors in rootErrChan
          conns     \* database connections lent to handlers

lvars == <<main, rootDone, bgDone, servers, alive, errs, conns>>

MainSteps == {"down", "select", "flush", "drain", "close"}
Group     == Workers \cup {"listener"}

LTypeOK ==
    /\ main \in MainSteps
    /\ rootDone \in BOOLEAN /\ bgDone \in BOOLEAN
    /\ servers \in [Servers -> {"up", "failed", "draining", "down"}]
    /\ alive \subseteq Group
    /\ errs \in 0..ErrCap
    /\ conns \in 0..MaxConns

-----------------------------------------------------------------------------
\* errgroup.WithContext(rootCtx): done when either is cancelled.
errCtxDone == rootDone \/ bgDone

\* Every sender uses select with a default: a full channel drops the error.
Send == errs' = IF errs < ErrCap THEN errs + 1 ELSE errs

\* main starts everything, after the application state was initialised.
Start ==
    /\ main = "down"
    /\ main' = "select"
    /\ servers' = [s \in Servers |-> "up"]
    /\ alive' = Group
    /\ UNCHANGED <<rootDone, bgDone, errs, conns>>

\* SIGHUP, SIGINT, SIGQUIT, SIGABRT or SIGTERM.
Signal ==
    /\ main # "down"
    /\ rootDone' = TRUE
    /\ UNCHANGED <<main, bgDone, servers, alive, errs, conns>>

\* main's select; an error cancels the root context as a signal does.
MainWakes ==
    /\ main = "select"
    /\ \/ rootDone /\ UNCHANGED <<rootDone, errs>>
       \/ errs > 0 /\ errs' = errs - 1 /\ rootDone' = TRUE
    /\ main' = "flush"
    /\ UNCHANGED <<bgDone, servers, alive, conns>>

\* The final writeLastHeardToDB has returned.
FlushDone ==
    /\ main = "flush"
    /\ main' = "drain"
    /\ UNCHANGED <<rootDone, bgDone, servers, alive, errs, conns>>

ProcessGone ==
    /\ main' = "down"
    /\ rootDone' = FALSE /\ bgDone' = FALSE
    /\ servers' = [s \in Servers |-> "down"]
    /\ alive' = {}
    /\ errs' = 0
    /\ conns' = 0

\* All goroutines have returned, or 20 seconds have passed.
Drained ==
    /\ main = "drain"
    /\ main' = "close"
    /\ UNCHANGED <<rootDone, bgDone, servers, alive, errs, conns>>

\* main's deferred pgxPool.Close and dbPool.Close come last; they lend nothing
\* more and wait, without a timeout, for what is lent.
MainExits ==
    /\ main = "close"
    /\ conns = 0
    /\ ProcessGone

Crash ==
    /\ main # "down"
    /\ ProcessGone

-----------------------------------------------------------------------------
\* A request takes a connection from a pool that is not closed.
Borrow ==
    /\ main \in {"select", "flush", "drain"}
    /\ conns < MaxConns
    /\ conns' = conns + 1
    /\ UNCHANGED <<main, rootDone, bgDone, servers, alive, errs>>

\* Its transaction ends; the deadline of APITimeoutMiddleware sees to that.
GiveBack ==
    /\ conns > 0
    /\ conns' = conns - 1
    /\ UNCHANGED <<main, rootDone, bgDone, servers, alive, errs>>

-----------------------------------------------------------------------------
\* startWebServer.

\* Listening fails: the error goes to rootErrChan and the goroutine returns.
ServerFails(s) ==
    /\ servers[s] = "up"
    /\ servers' = [servers EXCEPT ![s] = "failed"]
    /\ Send
    /\ UNCHANGED <<main, rootDone, bgDone, alive, conns>>

\* The parent context is done: http.Server.Shutdown begins.
ServerDrains(s) ==
    /\ servers[s] = "up"
    /\ rootDone
    /\ servers' = [servers EXCEPT ![s] = "draining"]
    /\ UNCHANGED <<main, rootDone, bgDone, alive, errs, conns>>

\* Shutdown returns, or runs into its timeout and reports that.
ServerStops(s) ==
    /\ servers[s] = "draining"
    /\ servers' = [servers EXCEPT ![s] = "down"]
    /\ Send \/ UNCHANGED errs
    /\ UNCHANGED <<main, rootDone, bgDone, alive, conns>>

-----------------------------------------------------------------------------
\* initBackgroundProcesses.

\* Fault: the listener takes the error and stops nothing.
ListenerSwallows ==
    /\ "listener" \in alive
    /\ errs > 0
    /\ errs' = errs - 1
    /\ UNCHANGED <<main, rootDone, bgDone, servers, alive, conns>>

\* The listener takes an error out of the channel main waits on; returning it
\* cancels the group.
ListenerTakesError ==
    /\ "listener" \in alive
    /\ errs > 0
    /\ errs' = errs - 1
    /\ bgDone' = TRUE
    /\ alive' = alive \ {"listener"}
    /\ UNCHANGED <<main, rootDone, servers, conns>>

\* A goroutine of the group sees its context done and returns.
WorkerStops(w) ==
    /\ w \in alive
    /\ errCtxDone
    /\ alive' = alive \ {w}
    /\ UNCHANGED <<main, rootDone, bgDone, servers, errs, conns>>

\* Before the first start.
LInit ==
    /\ main = "down"
    /\ rootDone = FALSE /\ bgDone = FALSE
    /\ servers = [s \in Servers |-> "down"]
    /\ alive = {}
    /\ errs = 0
    /\ conns = 0
=============================================================================
