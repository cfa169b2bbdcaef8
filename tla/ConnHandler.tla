---------------------------- MODULE ConnHandler ----------------------------
(***************************************************************************)
(* handleConnection (internal/server/server.go): the request loop of one   *)
(* keep-alive connection.  A request is parsed, its body is received or    *)
(* its preview is, it is routed, the response is written under a request   *)
(* context, what is left of the body is drained, and the connection is     *)
(* reused or closed.  terminalAccounting (terminal.go) records each        *)
(* request exactly once on all of those paths.                             *)
(*                                                                         *)
(* Beside the handler run the context timer, the callbacks that            *)
(* context.AfterFunc started (each in a goroutine of its own, which the    *)
(* stop function does not wait for), and a forced stop that may close the  *)
(* socket at any time.                                                     *)
(***************************************************************************)
EXTENDS Integers, FiniteSets

CONSTANT
    MaxRequests       \* bound: requests the client sends on this connection

ASSUME HandlerAssumption == MaxRequests \in Nat

VARIABLES
    pc,
    n,            \* number of the current request, requestCount + 1
    writeTimeout, \* config.WriteTimeout > 0
    stopping,     \* stopChan closed
    parentDone,   \* context given to Start cancelled
    sock,         \* "open" or "closed"
    abort,        \* abortConnection
    panicked,     \* recover() will return a value
    reason,       \* closeReason
    req,          \* attributes of the current request
    wire,         \* what is unread of the request: "clean", "body", "rest" (after a preview),
                  \* "stray" (a body nobody reads)
    loaded,       \* bodies loaded: "http" (embedded message), "icap" (raw body);
                  \* "materialised": a deferred preview body was read to its end
    bodies,       \* body memory of request and response: "none", "held", "released"
    resp,         \* attributes of the response
    ctx,          \* request context: "none", "live", "done"
    armed,        \* the AfterFunc of the response write is registered
    late,         \* requests whose AfterFunc callback has started and not yet run
    wdl,          \* 0, or the request whose callback moved the write deadline to the past
    acct,         \* terminalAccounting: "none", "pending", "timed", "finished"
    stream,       \* terminalAccounting.streamingActive
    outRec,       \* requestOutcomeRecorded
    inFlight,     \* gauge of requests in flight
    streaming,    \* gauge of active streams
    recorded,     \* requests counted with an outcome
    samples,      \* response durations observed
    received,     \* history: requests parsed
    routed,       \* history: requests the router answered without error
    cut           \* history: <<m, k>>: callback of request m made the write of k fail

envVars  == <<writeTimeout, stopping, parentDone>>
connVars == <<n, sock, abort, panicked, reason>>
bodyVars == <<req, wire, loaded, bodies, resp>>
ctxVars  == <<ctx, armed, late, wdl, cut>>
acctVars == <<acct, stream, inFlight, streaming, recorded, samples>>
histVars == <<received, routed>>
vars == <<pc, envVars, connVars, bodyVars, ctxVars, acctVars, outRec, histVars>>

\* Who reads the body that the Encapsulated header announces: the embedded message
\* the parser attached it to ("http"), or, when no message was parsed, the raw
\* reader ("icap").  A body without a header section of its own, as in
\* "req-hdr=0, res-body=N", is attached to nothing and is not raw either ("stray").
Requests  == [preview : BOOLEAN, close : BOOLEAN, body : {"none", "http", "icap", "stray"}]
Responses == [fin : BOOLEAN, close : BOOLEAN]
NoRequest  == [preview |-> FALSE, close |-> FALSE, body |-> "none"]
NoResponse == [fin |-> FALSE, close |-> FALSE]

InRequest == {"receive", "route", "serve", "write", "writing", "flushed", "drain", "next"}
PCs == InRequest \cup {"loop", "parse", "defer", "closing", "settle", "gone"}

-----------------------------------------------------------------------------
Init ==
    /\ writeTimeout \in BOOLEAN
    /\ pc = "loop" /\ n = 1 /\ stopping = FALSE /\ parentDone = FALSE
    /\ sock = "open" /\ abort = FALSE /\ panicked = FALSE /\ reason = "handler_exit"
    /\ req = NoRequest /\ wire = "clean" /\ loaded = {} /\ bodies = "none"
    /\ resp = NoResponse /\ ctx = "none" /\ armed = FALSE /\ late = {} /\ wdl = 0
    /\ acct = "none" /\ stream = FALSE /\ outRec = FALSE
    /\ inFlight = 0 /\ streaming = 0 /\ recorded = 0 /\ samples = 0
    /\ received = 0 /\ routed = 0 /\ cut = {}

-----------------------------------------------------------------------------
(* terminalAccounting *)

\* Mutant: finalize without the claim that makes it run once.
FinalizeEveryTime ==
    /\ acct' = "finished" /\ stream' = FALSE
    /\ inFlight' = inFlight - 1
    /\ streaming' = streaming - (IF stream THEN 1 ELSE 0)
    /\ recorded' = recorded + 1
    /\ samples' = samples + (IF acct = "timed" THEN 1 ELSE 0)

\* finalize: only the first claim counts; gauges go down, the outcome is
\* recorded, and a duration too if timing has started.
Finalize ==
    IF acct \in {"pending", "timed"}
    THEN /\ acct' = "finished" /\ stream' = FALSE
         /\ inFlight' = inFlight - 1
         /\ streaming' = streaming - (IF stream THEN 1 ELSE 0)
         /\ recorded' = recorded + 1
         /\ samples' = samples + (IF acct = "timed" THEN 1 ELSE 0)
    ELSE UNCHANGED acctVars

\* startAt: starts timing once, and never after finalize.
StartAt == acct' = IF acct = "pending" THEN "timed" ELSE acct

-----------------------------------------------------------------------------
(* The request loop *)

Leave(why) == pc' = "defer" /\ reason' = why

\* Top of the loop: stop and cancellation are looked at, the per-request
\* variables are reset, and the wait deadline is set (an error on a closed socket).
LoopTop ==
    /\ pc = "loop"
    /\ IF stopping \/ parentDone
       THEN Leave("shutdown") /\ UNCHANGED <<bodyVars, ctx, acct, outRec>>
       ELSE /\ IF sock = "closed" THEN Leave("read_error")
                                  ELSE pc' = "parse" /\ UNCHANGED reason
            /\ req' = NoRequest /\ resp' = NoResponse /\ loaded' = {}
            /\ bodies' = "none" /\ ctx' = "none" /\ acct' = "none" /\ outRec' = FALSE
            /\ UNCHANGED wire
    /\ UNCHANGED <<envVars, n, sock, abort, panicked, armed, late, wdl, cut,
                   stream, inFlight, streaming, recorded, samples, histVars>>

\* A stray body that was left unread begins with a chunk size, which is no request line.
ParseRequest ==
    /\ pc = "parse" /\ received < MaxRequests /\ wire # "stray"
    /\ \E r \in Requests :
        /\ req' = r
        /\ wire' = CASE r.body = "none" -> "clean" [] r.body = "stray" -> "stray" [] OTHER -> "body"
    /\ bodies' = "held" /\ received' = received + 1
    /\ pc' = "receive"
    /\ UNCHANGED <<envVars, connVars, loaded, resp, ctxVars, acctVars, outRec, routed>>

\* End of the connection, a timeout or a malformed request.
ParseFails ==
    /\ pc = "parse"
    /\ Leave("read_error")
    /\ UNCHANGED <<envVars, n, sock, abort, panicked, bodyVars, ctxVars, acctVars,
                   outRec, histVars>>

\* receiveRequestBodies: without Preview the whole body is loaded, as the body
\* of the embedded message or as the raw ICAP body.  With Preview only the
\* preview of the message's body is read; "0; ieof" means that it was the whole
\* body.  A stray body, and a raw body behind a preview, are not touched.
ReceiveBodies ==
    /\ pc = "receive"
    /\ IF req.body \in {"none", "stray"} \/ (req.preview /\ req.body = "icap") THEN UNCHANGED <<wire, loaded>>
       ELSE IF ~req.preview THEN wire' = "clean" /\ loaded' = {req.body}
       ELSE \/ wire' = "clean" /\ loaded' = {"http"}
            \/ wire' = "rest" /\ UNCHANGED loaded
    /\ pc' = "route"
    /\ UNCHANGED <<envVars, connVars, req, bodies, resp, ctxVars, acctVars, outRec, histVars>>

\* A read error, a timeout or a body over the limit: the request is recorded
\* before any accounting exists, and its bodies are released.
ReceiveFails ==
    /\ pc = "receive"
    /\ Leave("body_receive_error")
    /\ outRec' = TRUE /\ recorded' = recorded + 1
    /\ bodies' = "released"
    /\ UNCHANGED <<envVars, n, sock, abort, panicked, req, wire, loaded, resp, ctxVars,
                   acct, stream, inFlight, streaming, samples, histVars>>

\* The request context and the accounting are created; timing starts now
\* unless a preview leaves the start to the processor.
BeginRoute ==
    /\ pc = "route"
    /\ ctx' = IF parentDone THEN "done" ELSE "live"
    /\ acct' = IF req.preview THEN "pending" ELSE "timed"
    /\ inFlight' = inFlight + 1
    /\ pc' = "serve"
    /\ UNCHANGED <<envVars, connVars, bodyVars, armed, late, wdl, cut, stream,
                   streaming, recorded, samples, outRec, histVars>>

\* The handler reads the body through the preview continuation to its end.
ReadContinuation ==
    /\ pc = "serve" /\ wire = "rest" /\ sock = "open"
    /\ wire' = "clean" /\ loaded' = loaded \cup {"http", "materialised"}
    /\ UNCHANGED <<pc, envVars, connVars, req, bodies, resp, ctxVars, acctVars, outRec, histVars>>

\* A processor marks the timing boundary of a preview request.
ProcessorStartsTiming ==
    /\ pc = "serve" /\ acct = "pending"
    /\ StartAt
    /\ UNCHANGED <<pc, envVars, connVars, bodyVars, ctxVars, stream, inFlight,
                   streaming, recorded, samples, outRec, histVars>>

\* Mutant: no fallback start of the timing.
ServeOkWithoutFallback ==
    /\ pc = "serve"
    /\ resp' \in Responses
    /\ routed' = routed + 1
    /\ pc' = "write"
    /\ UNCHANGED <<envVars, connVars, req, wire, loaded, bodies, ctxVars, acctVars,
                   outRec, received>>

\* router.Serve answers; the fallback start covers handlers without a boundary.
ServeOk ==
    /\ pc = "serve"
    /\ StartAt
    /\ resp' \in Responses
    /\ routed' = routed + 1
    /\ pc' = "write"
    /\ UNCHANGED <<envVars, connVars, req, wire, loaded, bodies, ctxVars, stream, inFlight,
                   streaming, recorded, samples, outRec, received>>

\* router.Serve fails: a 500 response is sent instead; timing starts only if
\* the deferred body had been materialised.
ServeErr ==
    /\ pc = "serve"
    /\ IF "materialised" \in loaded THEN StartAt ELSE UNCHANGED acct
    /\ resp' = NoResponse
    /\ pc' = "write"
    /\ UNCHANGED <<envVars, connVars, req, wire, loaded, bodies, ctxVars, stream, inFlight,
                   streaming, recorded, samples, outRec, histVars>>

-----------------------------------------------------------------------------
(* Writing the response *)

\* Mutant: the end of the context does not interrupt the write.
ArmWriteWithoutCallback ==
    /\ pc = "write" /\ (writeTimeout => sock = "open")
    /\ wdl' = IF writeTimeout THEN 0 ELSE wdl
    /\ pc' = "writing"
    /\ UNCHANGED <<envVars, connVars, bodyVars, ctx, armed, late, cut, acctVars, outRec, histVars>>

\* The write deadline is renewed, if one is configured, and the callback that
\* cancels the write is registered; on a context that is already done it
\* starts at once.
ArmWrite ==
    /\ pc = "write" /\ (writeTimeout => sock = "open")
    /\ wdl' = IF writeTimeout THEN 0 ELSE wdl
    /\ IF ctx = "done" THEN late' = late \cup {n} /\ UNCHANGED armed
                       ELSE armed' = TRUE /\ UNCHANGED late
    /\ pc' = "writing"
    /\ UNCHANGED <<envVars, connVars, bodyVars, ctx, cut, acctVars, outRec, histVars>>

\* Setting the deadline fails on a closed socket.
WriteDeadlineFails ==
    /\ pc = "write" /\ writeTimeout /\ sock = "closed"
    /\ Leave("write_error") /\ Finalize
    /\ ctx' = "none" /\ bodies' = "released"
    /\ UNCHANGED <<envVars, n, sock, abort, panicked, req, wire, loaded, resp,
                   armed, late, wdl, cut, outRec, histVars>>

\* OnStreamingStart: the stream source of the response has been opened.
StreamStarts ==
    /\ pc = "writing" /\ acct # "finished" /\ ~stream
    /\ stream' = TRUE /\ streaming' = streaming + 1
    /\ UNCHANGED <<pc, envVars, connVars, bodyVars, ctxVars, acct, inFlight,
                   recorded, samples, outRec, histVars>>

\* The last flush passed its context check and reached the socket.
WriteFlushed ==
    /\ pc = "writing" /\ ctx = "live" /\ wdl = 0 /\ sock = "open"
    /\ pc' = "flushed"
    /\ UNCHANGED <<envVars, connVars, bodyVars, ctxVars, acctVars, outRec, histVars>>

\* Mutant: the error path of the write forgets the accounting.
WriteFailsUnaccounted ==
    /\ pc = "writing"
    /\ Leave("write_error")
    /\ abort' = TRUE /\ armed' = FALSE /\ ctx' = "none"
    /\ bodies' = "released"
    /\ UNCHANGED <<envVars, n, sock, panicked, req, wire, loaded, resp, late, wdl, cut,
                   acctVars, outRec, histVars>>

\* The write fails: closed socket, done context, deadline, or the client.
WriteFails ==
    /\ pc = "writing"
    /\ Leave("write_error") /\ Finalize
    /\ abort' = TRUE /\ armed' = FALSE /\ ctx' = "none"
    /\ bodies' = "released"
    /\ cut' = IF wdl # 0 THEN cut \cup {<<wdl, n>>} ELSE cut
    /\ UNCHANGED <<envVars, n, sock, panicked, req, wire, loaded, resp, late, wdl, outRec, histVars>>

\* Without Preview, or when every body of the request is loaded, the rest of the
\* body is drained.  A preview request loads the body of the embedded message
\* and never the raw ICAP body, so its connection is closed instead.
shouldDrainAfterResponse == ~req.preview \/ {"http", "icap"} \subseteq loaded

\* The write has returned nil: the callback is unregistered, which does not
\* wait for one that has started.  A stream ended by FIN closes the
\* connection here; every other response is finalized.
WriteReturns ==
    /\ pc = "flushed"
    /\ armed' = FALSE
    /\ Finalize
    /\ IF resp.fin
       THEN /\ Leave("stream_fin")
            /\ sock' = "closed" /\ ctx' = "none" /\ bodies' = "released"
       ELSE /\ pc' = IF shouldDrainAfterResponse THEN "drain" ELSE "next"
            /\ UNCHANGED <<reason, sock, ctx, bodies>>
    /\ UNCHANGED <<envVars, n, abort, panicked, req, wire, loaded, resp, late, wdl,
                   cut, outRec, histVars>>

\* drainRequestBodies reads what is left of a body that has a reader.
DrainBodies ==
    /\ pc = "drain"
    /\ wire' = IF req.body = "stray" THEN wire ELSE "clean"
    /\ pc' = "next"
    /\ UNCHANGED <<envVars, connVars, req, loaded, bodies, resp, ctxVars, acctVars, outRec, histVars>>

\* Mutant: the error path of the drain keeps the bodies.
DrainFailsKeepsBodies ==
    /\ pc = "drain"
    /\ Leave("body_drain_error")
    /\ UNCHANGED <<envVars, n, sock, abort, panicked, bodyVars, ctxVars,
                   acctVars, outRec, histVars>>

DrainFails ==
    /\ pc = "drain"
    /\ Leave("body_drain_error")
    /\ bodies' = "released"
    /\ UNCHANGED <<envVars, n, sock, abort, panicked, req, wire, loaded, resp, ctxVars,
                   acctVars, outRec, histVars>>

\* Mutant: the connection is kept although a preview body may be unread.
NextRequestAfterPreview ==
    /\ pc = "next"
    /\ bodies' = "released" /\ ctx' = "none"
    /\ IF req.close \/ resp.close THEN Leave("client_requested") /\ UNCHANGED n
       ELSE pc' = "loop" /\ n' = n + 1 /\ UNCHANGED reason
    /\ UNCHANGED <<envVars, sock, abort, panicked, req, wire, loaded, resp, armed, late,
                   wdl, cut, acctVars, outRec, histVars>>

\* Mutant: the request is counted when it is answered and when it is over.
NextRequestCountsTwice ==
    /\ pc = "next"
    /\ bodies' = "released" /\ ctx' = "none"
    /\ n' = n + 2
    /\ IF req.close \/ ~(~req.preview \/ {"http", "icap"} \subseteq loaded) \/ resp.close
       THEN Leave("client_requested") ELSE pc' = "loop" /\ UNCHANGED reason
    /\ UNCHANGED <<envVars, sock, abort, panicked, req, wire, loaded, resp, armed, late,
                   wdl, cut, acctVars, outRec, histVars>>

\* Bodies are released, the context is cancelled, and the connection is closed
\* or kept: closed when the client asked, when a preview body may be unread,
\* or when the response says so.
NextRequest ==
    /\ pc = "next"
    /\ bodies' = "released" /\ ctx' = "none"
    /\ IF req.close THEN Leave("client_requested") /\ UNCHANGED n
       ELSE IF ~shouldDrainAfterResponse THEN Leave("preview_body_unread") /\ UNCHANGED n
       ELSE IF resp.close THEN Leave("response_connection_close") /\ UNCHANGED n
       ELSE pc' = "loop" /\ n' = n + 1 /\ UNCHANGED reason
    /\ UNCHANGED <<envVars, sock, abort, panicked, req, wire, loaded, resp, armed, late,
                   wdl, cut, acctVars, outRec, histVars>>

-----------------------------------------------------------------------------
(* Panics and the deferred function *)

\* Parsers, handlers, body readers and stream sources may panic.
Panic ==
    /\ pc \in {"parse", "receive", "serve", "writing", "drain"}
    /\ Leave("panic")
    /\ panicked' = TRUE /\ abort' = TRUE
    /\ UNCHANGED <<envVars, n, sock, bodyVars, ctxVars, acctVars, outRec, histVars>>

\* The close reason is settled and the contexts are cancelled, which starts a
\* callback that a panic left registered.
DeferCancel ==
    /\ pc = "defer"
    /\ reason' = IF stopping /\ reason # "panic" THEN "shutdown" ELSE reason
    /\ ctx' = "none" /\ armed' = FALSE
    /\ late' = IF armed THEN late \cup {n} ELSE late
    /\ pc' = "closing"
    /\ UNCHANGED <<envVars, n, sock, abort, panicked, bodyVars, wdl, cut, acctVars,
                   outRec, histVars>>

DeferClose ==
    /\ pc = "closing"
    /\ sock' = "closed" /\ pc' = "settle"
    /\ UNCHANGED <<envVars, n, abort, panicked, reason, bodyVars, ctxVars, acctVars,
                   outRec, histVars>>

\* After a panic the request is finalized, or recorded if it had no accounting
\* yet, and its bodies are released.
DeferSettle ==
    /\ pc = "settle"
    /\ IF ~panicked THEN UNCHANGED <<acctVars, outRec, bodies>>
       ELSE /\ bodies' = IF bodies = "held" THEN "released" ELSE bodies
            /\ IF acct # "none" THEN Finalize /\ UNCHANGED outRec
               ELSE /\ IF bodies # "none" /\ ~outRec
                       THEN recorded' = recorded + 1 /\ outRec' = TRUE
                       ELSE UNCHANGED <<recorded, outRec>>
                    /\ UNCHANGED <<acct, stream, inFlight, streaming, samples>>
    /\ pc' = "gone"
    /\ UNCHANGED <<envVars, connVars, req, wire, loaded, resp, ctxVars, histVars>>

-----------------------------------------------------------------------------
(* The environment of the handler *)

\* Stop closes the stop channel; the forced phase aborts the connection.
ServerStops ==
    /\ ~stopping /\ stopping' = TRUE
    /\ UNCHANGED <<pc, writeTimeout, parentDone, connVars, bodyVars, ctxVars, acctVars, outRec, histVars>>

ForceClose ==
    /\ stopping /\ sock = "open" /\ sock' = "closed"
    /\ UNCHANGED <<pc, envVars, n, abort, panicked, reason, bodyVars, ctxVars, acctVars,
                   outRec, histVars>>

ContextEnds ==
    /\ ctx' = "done"
    /\ armed' = FALSE
    /\ late' = IF armed THEN late \cup {n} ELSE late

\* The request context times out.
CtxExpires ==
    /\ ctx = "live"
    /\ ContextEnds
    /\ UNCHANGED <<pc, envVars, connVars, bodyVars, wdl, cut, acctVars, outRec, histVars>>

\* The context given to Start is cancelled, and a live request context with it.
ParentCancelled ==
    /\ ~parentDone /\ parentDone' = TRUE
    /\ IF ctx = "live" THEN ContextEnds ELSE UNCHANGED <<ctx, armed, late>>
    /\ UNCHANGED <<pc, writeTimeout, stopping, connVars, bodyVars, wdl, cut, acctVars, outRec, histVars>>

\* A started callback runs: SetWriteDeadline(now), an error on a closed socket.
CallbackRuns(k) ==
    /\ k \in late
    /\ late' = late \ {k}
    /\ wdl' = IF sock = "open" THEN k ELSE wdl
    /\ UNCHANGED <<pc, envVars, connVars, bodyVars, ctx, armed, cut, acctVars, outRec, histVars>>

-----------------------------------------------------------------------------
HandlerStep ==
    \/ LoopTop \/ ReceiveBodies \/ ReceiveFails \/ BeginRoute \/ ServeOk \/ ServeErr
    \/ ArmWrite \/ WriteDeadlineFails \/ WriteReturns \/ DrainBodies \/ DrainFails
    \/ NextRequest \/ DeferCancel \/ DeferClose \/ DeferSettle

Next ==
    \/ HandlerStep \/ ParseRequest \/ ParseFails \/ Panic
    \/ ReadContinuation \/ ProcessorStartsTiming \/ StreamStarts \/ WriteFlushed \/ WriteFails
    \/ ServerStops \/ ForceClose \/ CtxExpires \/ ParentCancelled
    \/ \E k \in 1..MaxRequests : CallbackRuns(k)

Spec == Init /\ [][Next]_vars

(* A runnable handler runs; reads of a body and handler calls are bounded   *)
(* by deadlines and by the context.  A client that does not read keeps a    *)
(* response write blocked until the socket is closed or a write deadline    *)
(* passes: the configured one, or the one a callback sets.  Timers fire.    *)
Fairness ==
    /\ WF_vars(HandlerStep)
    /\ WF_vars((writeTimeout \/ wdl # 0 \/ sock = "closed") /\ WriteFails)
    /\ WF_vars(CtxExpires)
    /\ \A k \in 1..MaxRequests : WF_vars(CallbackRuns(k))

FairSpec == Spec /\ Fairness

-----------------------------------------------------------------------------
(* Properties *)

TypeOK ==
    /\ pc \in PCs /\ n \in 1..(MaxRequests + 1)
    /\ writeTimeout \in BOOLEAN /\ stopping \in BOOLEAN /\ parentDone \in BOOLEAN
    /\ sock \in {"open", "closed"} /\ abort \in BOOLEAN /\ panicked \in BOOLEAN
    /\ req \in Requests /\ resp \in Responses
    /\ wire \in {"clean", "body", "rest", "stray"}
    /\ loaded \in SUBSET {"http", "icap", "materialised"}
    /\ bodies \in {"none", "held", "released"}
    /\ ctx \in {"none", "live", "done"} /\ armed \in BOOLEAN
    /\ late \in SUBSET (1..MaxRequests) /\ wdl \in 0..MaxRequests
    /\ acct \in {"none", "pending", "timed", "finished"}
    /\ stream \in BOOLEAN /\ outRec \in BOOLEAN
    /\ inFlight \in Int /\ streaming \in Int
    /\ recorded \in Nat /\ samples \in Nat
    /\ received \in 0..MaxRequests /\ routed \in 0..MaxRequests
    /\ cut \in SUBSET ((1..MaxRequests) \X (1..MaxRequests))

AtRest == pc \in {"loop", "gone"}

\* Every parsed request is counted with exactly one outcome: never twice, and
\* by the time the handler is back at the top of the loop or gone, once,
\* whichever of the return paths or panics it took.
RecordedExactlyOnce ==
    /\ recorded <= received
    /\ AtRest => recorded = received

\* The gauges of requests in flight and of active streams return to zero with
\* every request, on every path.
GaugesReturnToZero == AtRest => inFlight = 0 /\ streaming = 0

\* Every request the router answered has a duration sample once it is over,
\* previews whose processor never marked a boundary included.
AnsweredRequestsAreTimed == AtRest => samples >= routed

\* Body memory of a request is released on every way out of it.
BodiesReleased == AtRest => bodies # "held"

\* A connection is reused only when the body of the previous request has been read
\* to its end, as far as the parser gave it a reader: not behind a preview whose
\* rest the client may hold back, nor after a receive or a drain that failed.  The
\* one body that stays on a reused connection is the stray one of a request
\* without Preview (lifecycle.go shouldDrainAfterResponse and shouldDrainRawBody).
ReuseOnlyOnCleanWire ==
    /\ pc \in {"loop", "parse"} => wire \in {"clean", "stray"}
    /\ pc = "loop" /\ wire = "stray" => req.body = "stray" /\ ~req.preview

\* A request that has been parsed is over at some time: the client cannot hold
\* the handler by not reading the response, with or without a write timeout.
RequestEnds == pc \in InRequest ~> AtRest

\* server.go on handleConnection: "It creates a request-scoped context for
\* proper cancellation and timeout handling."  The end of one request's
\* context does not cancel the response of another.
CancellationIsRequestScoped == \A p \in cut : p[1] = p[2]
=============================================================================
