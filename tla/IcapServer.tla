---------------------------- MODULE IcapServer ----------------------------
(***************************************************************************)
(* Lifecycle of one ICAP server (internal/server/server.go): Start, the    *)
(* accept loop with its connection limit, one handler goroutine per        *)
(* admitted connection, and Stop with its graceful and forced phases.      *)
(*                                                                         *)
(* The processes are the accept loop, the handlers, the background         *)
(* monitors, the caller of Start and the caller of Stop; each action is a  *)
(* stretch of one goroutine between two points where another one can       *)
(* observe the shared state (the semaphore channel, ConnectionPool, the    *)
(* WaitGroup, the stop channel, a socket).  What a handler does inside a   *)
(* request is the state "busy" here and is detailed in ConnHandler.        *)
(***************************************************************************)
EXTENDS Integers, FiniteSets

CONSTANTS
    Conns,           \* client connections that may be dialled, each once
    MaxConnections,  \* config.MaxConnections, the capacity of s.semaphore
    MaxRequests,     \* bound: requests one connection carries
    MaxStarts,       \* bound: calls of Start
    TLSEnabled,      \* config.TLS.Enabled, with a certificate file to monitor
    HasWaitDeadline  \* waitReadTimeout > 0 (read or idle timeout configured)

ASSUME ServerAssumption ==
    /\ IsFiniteSet(Conns)
    /\ MaxConnections \in Nat
    /\ MaxRequests \in Nat
    /\ MaxStarts \in Nat
    /\ TLSEnabled \in BOOLEAN
    /\ HasWaitDeadline \in BOOLEAN

VARIABLES
    running,     \* s.running
    startPc,     \* "idle" or "listening": inside Start, after running was set
    starts,      \* number of Start calls so far
    ctxDone,     \* the context given to Start has been cancelled
    stopChan,    \* s.stopChan has been closed
    listener,    \* "none", "open" or "closed"
    accPc,       \* accept loop: "off", "select", "accepting", "holding", "exited"
    monitors,    \* background goroutines alive: "goroutines", "tls"
    tlsStopped,  \* TLSCertificateMonitor.stopChan closed
    wg,          \* counter of s.wg
    sem,         \* len(s.semaphore)
    pool,        \* s.pool.connections; its WaitGroup counts this set
    active,      \* gauge of active connections
    rejected,    \* counter of connections refused with "max_connections"
    pc,          \* per connection: where it is
    sock,        \* per connection: "open" or "closed"
    abort,       \* per connection: abortConnection of its handler
    reason,      \* per connection: closeReason of its handler
    reqs,        \* per connection: requestCount
    stopPc,      \* Stop: "idle", "closing", "waiting", "forcing", "poolwait", "flag", "returned"
    stopExpired, \* the context given to Stop is done
    forceList,   \* connections forceCloseAllConnections still has to abort
    forced,      \* Stop took its ctx.Done() branch
    killed       \* history: aborted by Stop while their handler was still working

startVars == <<running, startPc, starts, ctxDone>>
accVars   == <<listener, accPc, monitors, tlsStopped>>
countVars == <<wg, sem, pool, active, rejected>>
connVars  == <<pc, sock, abort, reason, reqs>>
stopVars  == <<stopChan, stopPc, stopExpired, forceList, forced, killed>>
vars == <<startVars, accVars, countVars, connVars, stopVars>>

-----------------------------------------------------------------------------
(* The places a connection can be in.  The accept loop moves it along      *)
(* AcceptPath, its handler along HandlerPath.                              *)

AcceptPath  == {"accepted", "slotted", "pooled", "counted"}
Working     == {"loop", "wait", "busy", "defer"}
Unwinding   == {"closing", "remove", "uncount", "release", "waitdone"}
Outside     == {"client", "dialled", "rejected", "gone"}
PCs == AcceptPath \cup Working \cup Unwinding \cup Outside

Reasons == {"handler_exit", "shutdown", "panic", "other"}

\* Who holds what, read off the program counters.
HoldsSlot == {"slotted", "pooled", "counted"} \cup Working
                \cup {"closing", "remove", "uncount", "release"}
InPool    == {"pooled", "counted"} \cup Working \cup {"closing", "remove"}
Counted   == {"counted"} \cup Working \cup {"closing", "remove", "uncount"}
InWg      == Working \cup Unwinding

At(S) == {c \in Conns : pc[c] \in S}

-----------------------------------------------------------------------------
Init ==
    /\ running = FALSE /\ startPc = "idle" /\ starts = 0 /\ ctxDone = FALSE
    /\ stopChan = FALSE /\ listener = "none" /\ accPc = "off"
    /\ monitors = {} /\ tlsStopped = FALSE
    /\ wg = 0 /\ sem = 0 /\ pool = {} /\ active = 0 /\ rejected = 0
    /\ pc = [c \in Conns |-> "client"]
    /\ sock = [c \in Conns |-> "open"]
    /\ abort = [c \in Conns |-> FALSE]
    /\ reason = [c \in Conns |-> "handler_exit"]
    /\ reqs = [c \in Conns |-> 0]
    /\ stopPc = "idle" /\ stopExpired = FALSE /\ forceList = {}
    /\ forced = FALSE /\ killed = {}

-----------------------------------------------------------------------------
(* Start.  A second call while running returns an error and changes        *)
(* nothing, so only the calls that find running = FALSE are actions.  The  *)
(* caller calls Start and Stop one after the other (CLIExecutor.Run), and  *)
(* restarts only once the background goroutines of the earlier Start ended.*)

StartClaim ==
    /\ ~running /\ startPc = "idle" /\ starts < MaxStarts
    /\ accPc \in {"off", "exited"} /\ monitors = {} /\ stopPc \in {"idle", "returned"}
    /\ running' = TRUE /\ startPc' = "listening" /\ starts' = starts + 1
    /\ UNCHANGED <<ctxDone, accVars, countVars, connVars, stopVars>>

\* Resolving, listening or loading the TLS material failed; a listener that
\* was already open is closed again.
StartFail ==
    /\ startPc = "listening"
    /\ running' = FALSE /\ startPc' = "idle"
    /\ UNCHANGED <<starts, ctxDone, accVars, countVars, connVars, stopVars>>

\* The listener is up: the accept loop, the goroutine monitor and, with TLS,
\* the certificate monitor are started and counted in wg.
StartServe ==
    /\ startPc = "listening"
    /\ startPc' = "idle"
    /\ listener' = "open" /\ accPc' = "select" /\ tlsStopped' = FALSE
    /\ monitors' = IF TLSEnabled THEN {"goroutines", "tls"} ELSE {"goroutines"}
    /\ wg' = wg + (IF TLSEnabled THEN 3 ELSE 2)
    /\ UNCHANGED <<running, starts, ctxDone, sem, pool, active, rejected,
                   connVars, stopVars>>

\* The signal context of the process, handed to Start, is cancelled.
CancelServerCtx ==
    /\ ~ctxDone /\ ctxDone' = TRUE
    /\ UNCHANGED <<running, startPc, starts, accVars, countVars, connVars, stopVars>>

-----------------------------------------------------------------------------
(* acceptLoop *)

\* A client connects while the socket listens: it sits in the backlog.
Dial(c) ==
    /\ pc[c] = "client" /\ listener = "open"
    /\ pc' = [pc EXCEPT ![c] = "dialled"]
    /\ UNCHANGED <<startVars, accVars, countVars, sock, abort, reason, reqs, stopVars>>

\* Top of the loop: leave when stopped or cancelled, else call Accept.
AcceptSelect ==
    /\ accPc = "select"
    /\ IF stopChan \/ ctxDone
       THEN accPc' = "exited" /\ wg' = wg - 1
       ELSE accPc' = "accepting" /\ wg' = wg
    /\ UNCHANGED <<startVars, listener, monitors, tlsStopped, sem, pool, active,
                   rejected, connVars, stopVars>>

AcceptConn(c) ==
    /\ accPc = "accepting" /\ listener = "open" /\ pc[c] = "dialled"
    /\ accPc' = "holding"
    /\ pc' = [pc EXCEPT ![c] = "accepted"]
    /\ UNCHANGED <<startVars, listener, monitors, tlsStopped, countVars,
                   sock, abort, reason, reqs, stopVars>>

\* The 100ms accept deadline passed, or the listener was closed: every
\* net.Error goes back to the top of the loop; any other error leaves the
\* loop when the server is stopping.
AcceptError ==
    /\ accPc = "accepting"
    /\ \/ accPc' = "select" /\ wg' = wg
       \/ stopChan /\ accPc' = "exited" /\ wg' = wg - 1
    /\ UNCHANGED <<startVars, listener, monitors, tlsStopped, sem, pool, active,
                   rejected, connVars, stopVars>>

\* Mutant: an off-by-one in the capacity of the semaphore.
AcquireSlotOneTooMany(c) ==
    /\ pc[c] = "accepted" /\ sem <= MaxConnections
    /\ sem' = sem + 1
    /\ pc' = [pc EXCEPT ![c] = "slotted"]
    /\ UNCHANGED <<startVars, accVars, wg, pool, active, rejected,
                   sock, abort, reason, reqs, stopVars>>

\* The non-blocking send on the semaphore succeeds.
AcquireSlot(c) ==
    /\ pc[c] = "accepted" /\ sem < MaxConnections
    /\ sem' = sem + 1
    /\ pc' = [pc EXCEPT ![c] = "slotted"]
    /\ UNCHANGED <<startVars, accVars, wg, pool, active, rejected,
                   sock, abort, reason, reqs, stopVars>>

\* Mutant: the refusal gives back a slot it does not have.
RejectFreesSlot(c) ==
    /\ pc[c] = "accepted" /\ sem >= MaxConnections
    /\ rejected' = rejected + 1 /\ sem' = sem - 1
    /\ pc' = [pc EXCEPT ![c] = "rejected"]
    /\ sock' = [sock EXCEPT ![c] = "closed"]
    /\ accPc' = "select"
    /\ UNCHANGED <<startVars, listener, monitors, tlsStopped, wg, pool, active,
                   abort, reason, reqs, stopVars>>

\* The semaphore is full: the connection is counted as rejected and closed.
Reject(c) ==
    /\ pc[c] = "accepted" /\ sem >= MaxConnections
    /\ rejected' = rejected + 1
    /\ pc' = [pc EXCEPT ![c] = "rejected"]
    /\ sock' = [sock EXCEPT ![c] = "closed"]
    /\ accPc' = "select"
    /\ UNCHANGED <<startVars, listener, monitors, tlsStopped, wg, sem, pool, active,
                   abort, reason, reqs, stopVars>>

\* newConnection and ConnectionPool.Add.
PoolAdd(c) ==
    /\ pc[c] = "slotted"
    /\ pool' = pool \cup {c}
    /\ pc' = [pc EXCEPT ![c] = "pooled"]
    /\ UNCHANGED <<startVars, accVars, wg, sem, active, rejected,
                   sock, abort, reason, reqs, stopVars>>

IncActive(c) ==
    /\ pc[c] = "pooled"
    /\ active' = active + 1
    /\ pc' = [pc EXCEPT ![c] = "counted"]
    /\ UNCHANGED <<startVars, accVars, wg, sem, pool, rejected,
                   sock, abort, reason, reqs, stopVars>>

\* Mutant: the handler is not added to the WaitGroup.
SpawnHandlerUncounted(c) ==
    /\ pc[c] = "counted"
    /\ pc' = [pc EXCEPT ![c] = "loop"]
    /\ accPc' = "select"
    /\ UNCHANGED <<startVars, listener, monitors, tlsStopped, countVars,
                   sock, abort, reason, reqs, stopVars>>

SpawnHandler(c) ==
    /\ pc[c] = "counted"
    /\ wg' = wg + 1
    /\ pc' = [pc EXCEPT ![c] = "loop"]
    /\ accPc' = "select"
    /\ UNCHANGED <<startVars, listener, monitors, tlsStopped, sem, pool, active,
                   rejected, sock, abort, reason, reqs, stopVars>>

-----------------------------------------------------------------------------
(* handleConnection, without the inside of a request *)

handlerKeeps == <<startVars, accVars, countVars, stopVars>>

\* Mutant: the loop does not look at the stop channel and the context.
LoopTopWithoutStop(c) ==
    /\ pc[c] = "loop"
    /\ IF sock[c] = "closed"
       THEN /\ pc' = [pc EXCEPT ![c] = "defer"]
            /\ reason' = [reason EXCEPT ![c] = "other"]
       ELSE /\ pc' = [pc EXCEPT ![c] = "wait"]
            /\ UNCHANGED reason
    /\ UNCHANGED <<handlerKeeps, sock, abort, reqs>>

\* Top of the request loop: leave when stopping or cancelled; else set the
\* wait deadline, which fails on a closed socket.
LoopTop(c) ==
    /\ pc[c] = "loop"
    /\ IF stopChan \/ ctxDone
       THEN /\ pc' = [pc EXCEPT ![c] = "defer"]
            /\ reason' = [reason EXCEPT ![c] = "shutdown"]
       ELSE IF sock[c] = "closed"
       THEN /\ pc' = [pc EXCEPT ![c] = "defer"]
            /\ reason' = [reason EXCEPT ![c] = "other"]
       ELSE /\ pc' = [pc EXCEPT ![c] = "wait"]
            /\ UNCHANGED reason
    /\ UNCHANGED <<handlerKeeps, sock, abort, reqs>>

\* The first byte of a request arrived: from here on every read and write
\* carries a deadline.
RequestBegins(c) ==
    /\ pc[c] = "wait" /\ reqs[c] < MaxRequests
    /\ pc' = [pc EXCEPT ![c] = "busy"]
    /\ UNCHANGED <<handlerKeeps, sock, abort, reason, reqs>>

\* Waiting ends without a request: the client closed, the deadline passed,
\* or Stop aborted the socket.
WaitFails(c) ==
    /\ pc[c] = "wait"
    /\ pc' = [pc EXCEPT ![c] = "defer"]
    /\ reason' = [reason EXCEPT ![c] = "other"]
    /\ UNCHANGED <<handlerKeeps, sock, abort, reqs>>

\* The response is written and the connection stays open for the next request.
RequestDone(c) ==
    /\ pc[c] = "busy"
    /\ pc' = [pc EXCEPT ![c] = "loop"]
    /\ reqs' = [reqs EXCEPT ![c] = @ + 1]
    /\ UNCHANGED <<handlerKeeps, sock, abort, reason>>

\* The request ends the connection: parse, body or drain error, close asked
\* for by either side, a stream ended by FIN (which closes the socket here),
\* or a failed response write (which asks for Abort).
RequestEndsConn(c) ==
    /\ pc[c] = "busy"
    /\ pc' = [pc EXCEPT ![c] = "defer"]
    /\ reason' = [reason EXCEPT ![c] = "other"]
    /\ \/ UNCHANGED <<sock, abort>>
       \/ sock' = [sock EXCEPT ![c] = "closed"] /\ UNCHANGED abort
       \/ abort' = [abort EXCEPT ![c] = TRUE] /\ UNCHANGED sock
    /\ UNCHANGED <<handlerKeeps, reqs>>

\* Code called from the request loop panics; the deferred function recovers.
Panic(c) ==
    /\ pc[c] = "busy"
    /\ pc' = [pc EXCEPT ![c] = "defer"]
    /\ reason' = [reason EXCEPT ![c] = "panic"]
    /\ abort' = [abort EXCEPT ![c] = TRUE]
    /\ UNCHANGED <<handlerKeeps, sock, reqs>>

\* Mutant: the reason is not reconsidered when the server is stopping.
DeferReasonAsIs(c) ==
    /\ pc[c] = "defer"
    /\ pc' = [pc EXCEPT ![c] = "closing"]
    /\ UNCHANGED <<handlerKeeps, sock, abort, reason, reqs>>

\* Deferred function: a stop that has begun overrides every reason but "panic".
DeferReason(c) ==
    /\ pc[c] = "defer"
    /\ pc' = [pc EXCEPT ![c] = "closing"]
    /\ reason' = [reason EXCEPT ![c] =
                    IF stopChan /\ @ # "panic" THEN "shutdown" ELSE @]
    /\ UNCHANGED <<handlerKeeps, sock, abort, reqs>>

\* conn.Abort or conn.Close: either way the socket is closed afterwards.
DeferClose(c) ==
    /\ pc[c] = "closing"
    /\ sock' = [sock EXCEPT ![c] = "closed"]
    /\ pc' = [pc EXCEPT ![c] = "remove"]
    /\ UNCHANGED <<handlerKeeps, abort, reason, reqs>>

\* Mutant: an aborted connection stays in the pool.
DeferRemoveUnlessAborted(c) ==
    /\ pc[c] = "remove"
    /\ pool' = IF abort[c] THEN pool ELSE pool \ {c}
    /\ pc' = [pc EXCEPT ![c] = "uncount"]
    /\ UNCHANGED <<startVars, accVars, wg, sem, active, rejected,
                   sock, abort, reason, reqs, stopVars>>

DeferRemove(c) ==
    /\ pc[c] = "remove"
    /\ pool' = pool \ {c}
    /\ pc' = [pc EXCEPT ![c] = "uncount"]
    /\ UNCHANGED <<startVars, accVars, wg, sem, active, rejected,
                   sock, abort, reason, reqs, stopVars>>

DeferDecActive(c) ==
    /\ pc[c] = "uncount"
    /\ active' = active - 1
    /\ pc' = [pc EXCEPT ![c] = "release"]
    /\ UNCHANGED <<startVars, accVars, wg, sem, pool, rejected,
                   sock, abort, reason, reqs, stopVars>>

\* Mutant: a handler that panicked does not give its slot back.
DeferReleaseUnlessPanic(c) ==
    /\ pc[c] = "release"
    /\ sem' = IF reason[c] = "panic" THEN sem ELSE sem - 1
    /\ pc' = [pc EXCEPT ![c] = "waitdone"]
    /\ UNCHANGED <<startVars, accVars, wg, pool, active, rejected,
                   sock, abort, reason, reqs, stopVars>>

DeferRelease(c) ==
    /\ pc[c] = "release"
    /\ sem' = sem - 1
    /\ pc' = [pc EXCEPT ![c] = "waitdone"]
    /\ UNCHANGED <<startVars, accVars, wg, pool, active, rejected,
                   sock, abort, reason, reqs, stopVars>>

DeferDone(c) ==
    /\ pc[c] = "waitdone"
    /\ wg' = wg - 1
    /\ pc' = [pc EXCEPT ![c] = "gone"]
    /\ UNCHANGED <<startVars, accVars, sem, pool, active, rejected,
                   sock, abort, reason, reqs, stopVars>>

-----------------------------------------------------------------------------
(* Background monitors *)

MonitorExit(m) ==
    /\ m \in monitors
    /\ IF m = "tls" THEN tlsStopped ELSE stopChan
    /\ monitors' = monitors \ {m}
    /\ wg' = wg - 1
    /\ UNCHANGED <<startVars, listener, accPc, tlsStopped, sem, pool, active,
                   rejected, connVars, stopVars>>

-----------------------------------------------------------------------------
(* Stop.  stopOnce lets one call run the body; later calls only wait for it.*)

\* Stop the TLS monitor and close the stop channel, whether or not the server
\* was ever started.
StopSignal ==
    /\ stopPc = "idle" /\ startPc = "idle"
    /\ tlsStopped' = TRUE
    /\ stopChan' = TRUE
    /\ stopPc' = "closing"
    /\ UNCHANGED <<startVars, listener, accPc, monitors, countVars, connVars,
                   stopExpired, forceList, forced, killed>>

StopCloseListener ==
    /\ stopPc = "closing"
    /\ listener' = IF listener = "none" THEN "none" ELSE "closed"
    /\ stopPc' = "waiting"
    /\ UNCHANGED <<startVars, accPc, monitors, tlsStopped, countVars, connVars,
                   stopChan, stopExpired, forceList, forced, killed>>

\* The deadline of the context given to Stop passes.
StopCtxExpires ==
    /\ stopPc \notin {"idle", "returned"} /\ ~stopExpired
    /\ stopExpired' = TRUE
    /\ UNCHANGED <<startVars, accVars, countVars, connVars,
                   stopChan, stopPc, forceList, forced, killed>>

\* s.wg reached zero: everything ended gracefully.
StopAllDone ==
    /\ stopPc = "waiting" /\ wg = 0
    /\ stopPc' = "poolwait"
    /\ UNCHANGED <<startVars, accVars, countVars, connVars,
                   stopChan, stopExpired, forceList, forced, killed>>

\* The context is done first: forceCloseAllConnections takes the pool's list.
StopForce ==
    /\ stopPc = "waiting" /\ stopExpired
    /\ forced' = TRUE
    /\ forceList' = pool
    /\ stopPc' = "forcing"
    /\ UNCHANGED <<startVars, accVars, countVars, connVars,
                   stopChan, stopExpired, killed>>

\* conn.Abort on one connection of the list.
StopAbort(c) ==
    /\ stopPc = "forcing" /\ c \in forceList
    /\ forceList' = forceList \ {c}
    /\ sock' = [sock EXCEPT ![c] = "closed"]
    /\ killed' = IF pc[c] \in Working /\ sock[c] = "open" THEN killed \cup {c} ELSE killed
    /\ UNCHANGED <<startVars, accVars, countVars, pc, abort, reason, reqs,
                   stopChan, stopPc, stopExpired, forced>>

StopForceDone ==
    /\ stopPc = "forcing" /\ forceList = {}
    /\ stopPc' = "poolwait"
    /\ UNCHANGED <<startVars, accVars, countVars, connVars,
                   stopChan, stopExpired, forceList, forced, killed>>

\* pool.Wait(ctx): the pool is empty, or the context is done.
StopPoolWait ==
    /\ stopPc = "poolwait" /\ (pool = {} \/ stopExpired)
    /\ stopPc' = "flag"
    /\ UNCHANGED <<startVars, accVars, countVars, connVars,
                   stopChan, stopExpired, forceList, forced, killed>>

StopReturn ==
    /\ stopPc = "flag"
    /\ running' = FALSE
    /\ stopPc' = "returned"
    /\ UNCHANGED <<startPc, starts, ctxDone, accVars, countVars, connVars,
                   stopChan, stopExpired, forceList, forced, killed>>

-----------------------------------------------------------------------------
AcceptStep(c) == AcceptConn(c) \/ AcquireSlot(c) \/ Reject(c) \/ PoolAdd(c)
                    \/ IncActive(c) \/ SpawnHandler(c)
RequestStep(c) == RequestBegins(c) \/ WaitFails(c) \/ RequestDone(c)
                    \/ RequestEndsConn(c) \/ Panic(c)
DeferStep(c) == DeferReason(c) \/ DeferClose(c) \/ DeferRemove(c)
                    \/ DeferDecActive(c) \/ DeferRelease(c) \/ DeferDone(c)
StopStep == StopSignal \/ StopCloseListener \/ StopAllDone \/ StopForce
                    \/ StopForceDone \/ StopPoolWait \/ StopReturn

Next ==
    \/ StartClaim \/ StartFail \/ StartServe \/ CancelServerCtx
    \/ AcceptSelect \/ AcceptError
    \/ \E c \in Conns : \/ Dial(c) \/ AcceptStep(c) \/ LoopTop(c)
                        \/ RequestStep(c) \/ DeferStep(c) \/ StopAbort(c)
    \/ \E m \in {"goroutines", "tls"} : MonitorExit(m)
    \/ StopStep \/ StopCtxExpires

Spec == Init /\ [][Next]_vars

(* Goroutines that can run do run.  A handler inside a request is only     *)
(* assumed to leave it once its socket is closed: reads and writes then    *)
(* fail and the request context bounds everything else, whereas a body     *)
(* read needs no deadline.  Waiting for a first byte is bounded if a wait  *)
(* deadline is configured or the socket has been closed.  The context that *)
(* Run gives to Stop has a deadline.                                       *)
Fairness ==
    /\ WF_vars(StartFail \/ StartServe)
    /\ WF_vars(AcceptSelect) /\ WF_vars(AcceptError)
    /\ \A c \in Conns :
        /\ WF_vars(AcquireSlot(c) \/ Reject(c) \/ PoolAdd(c) \/ IncActive(c) \/ SpawnHandler(c))
        /\ WF_vars(LoopTop(c))
        /\ WF_vars(DeferStep(c))
        /\ WF_vars(sock[c] = "closed" /\ (RequestDone(c) \/ RequestEndsConn(c) \/ Panic(c)))
        /\ WF_vars((HasWaitDeadline \/ sock[c] = "closed") /\ WaitFails(c))
        /\ WF_vars(StopAbort(c))
    /\ \A m \in {"goroutines", "tls"} : WF_vars(MonitorExit(m))
    /\ WF_vars(StopCtxExpires)
    /\ WF_vars(StopCloseListener \/ StopAllDone \/ StopForce \/ StopForceDone
                 \/ StopPoolWait \/ StopReturn)

FairSpec == Spec /\ Fairness

-----------------------------------------------------------------------------
(* Properties *)

TypeOK ==
    /\ running \in BOOLEAN /\ startPc \in {"idle", "listening"}
    /\ starts \in 0..MaxStarts /\ ctxDone \in BOOLEAN
    /\ stopChan \in BOOLEAN /\ listener \in {"none", "open", "closed"}
    /\ accPc \in {"off", "select", "accepting", "holding", "exited"}
    /\ monitors \in SUBSET {"goroutines", "tls"} /\ tlsStopped \in BOOLEAN
    /\ wg \in Nat /\ sem \in Nat /\ pool \in SUBSET Conns
    /\ active \in Nat /\ rejected \in Nat
    /\ pc \in [Conns -> PCs]
    /\ sock \in [Conns -> {"open", "closed"}]
    /\ abort \in [Conns -> BOOLEAN]
    /\ reason \in [Conns -> Reasons]
    /\ reqs \in [Conns -> 0..MaxRequests]
    /\ stopPc \in {"idle", "closing", "waiting", "forcing", "poolwait", "flag", "returned"}
    /\ stopExpired \in BOOLEAN /\ forceList \in SUBSET Conns
    /\ forced \in BOOLEAN /\ killed \in SUBSET Conns

\* The semaphore counts exactly the connections between admission and release,
\* on every path out of a handler (error, panic, forced close): a slot is
\* neither leaked nor returned twice, and the limit is never exceeded.
SlotsBalanced ==
    /\ sem = Cardinality(At(HoldsSlot))
    /\ sem <= MaxConnections

\* ConnectionPool holds exactly the admitted connections until their handler
\* removes them, the gauge counts them, and neither ever exceeds the limit:
\* removal and the gauge come before the slot is given back.
PoolAndGaugeMatch ==
    /\ pool = At(InPool)
    /\ active = Cardinality(At(Counted))
    /\ Cardinality(pool) <= MaxConnections
    /\ active <= MaxConnections

\* When Stop comes back from the graceful branch nothing of the server is left:
\* no handler, no accept loop, no pooled connection, no held slot.
GracefulStopIsComplete ==
    (stopPc \in {"poolwait", "flag"} /\ ~forced) =>
        /\ At(AcceptPath \cup InWg) = {}
        /\ accPc \in {"off", "exited"} /\ monitors = {}
        /\ pool = {} /\ sem = 0 /\ active = 0

\* A connection whose socket the forced stop closed under a working handler is
\* reported as closed by "shutdown" (or "panic"), never as a client error.
ForcedCloseIsReportedAsShutdown ==
    \A c \in killed : pc[c] \notin Working => reason[c] \in {"shutdown", "panic"}

\* After Stop has begun it returns, and every admitted connection is closed,
\* removed and released, those the forced close did not list included.
StopReleasesEverything ==
    stopChan ~> (/\ stopPc = "returned"
                 /\ At(AcceptPath \cup InWg) = {}
                 /\ pool = {} /\ sem = 0 /\ active = 0)

\* The semaphore, the pool and the accept loop together implement the abstract
\* admission control: a slot is a held place, a refusal happens only when all
\* places are taken, no connection is admitted or released twice.
Admission == INSTANCE AdmissionControl WITH
    Clients <- Conns, Limit <- MaxConnections,
    held <- At(HoldsSlot), refused <- At({"rejected"}), past <- At({"waitdone", "gone"})
AdmissionSpec == Admission!Spec
=============================================================================
