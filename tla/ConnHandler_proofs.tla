------------------------- MODULE ConnHandler_proofs -------------------------
(***************************************************************************)
(* Proofs about ConnHandler for any number of requests on the connection.  *)
(* The checked invariants speak of the handler at rest; the inductive      *)
(* invariant says at every step what the request at hand still owes: one   *)
(* outcome, one decrement of each gauge, one duration sample, the release  *)
(* of its bodies.                                                          *)
(***************************************************************************)
EXTENDS ConnHandler, TLAPS

-----------------------------------------------------------------------------
(* The inductive invariant *)

Leaving == {"defer", "closing", "settle"}

\* Numbering: where n stands against the requests parsed, so that a callback is
\* registered, and a router answer counted, at most once for each of them.
Numbering ==
    /\ n \in {received, received + 1}
    /\ pc \in {"loop", "parse"} => n = received + 1
    /\ pc \in InRequest => n = received
    /\ armed => pc \in {"writing", "flushed", "defer"} /\ n = received
    /\ routed <= received
    /\ pc \in {"receive", "route", "serve"} => routed < received
    /\ panicked => pc \in Leaving \cup {"gone"}

\* Bodies are held during a request; only a panic carries them into the
\* deferred function.
Memory ==
    /\ pc \in InRequest => bodies = "held"
    /\ pc = "parse" => bodies = "none"
    /\ pc \in {"loop", "gone"} => bodies # "held"
    /\ pc \in Leaving /\ ~panicked => bodies # "held"

\* When the connection may be reused, the wire is clean before it is, or holds
\* the stray body that belongs to the request at hand; behind a preview the raw
\* body is never loaded, so that connection is not reused at all.
Wire ==
    /\ pc \in {"loop", "parse"} => wire \in {"clean", "stray"}
    /\ pc = "next" /\ shouldDrainAfterResponse => wire \in {"clean", "stray"}
    /\ pc \in InRequest \cup {"loop"} /\ wire = "stray" => req.body = "stray"
    /\ pc \in InRequest /\ req.body = "stray" => wire = "stray"
    /\ pc \in InRequest /\ req.preview => "icap" \notin loaded
    /\ pc = "parse" => loaded = {}
    /\ pc = "loop" /\ wire = "stray" => ~req.preview

Open == acct \in {"pending", "timed"}

\* Where the accounting of a request is open.
Claim ==
    /\ pc \in {"serve", "write", "writing", "flushed"} => Open
    /\ pc \in {"drain", "next"} => acct = "finished"
    /\ pc \in {"loop", "gone"} => ~Open
    /\ pc \in {"parse", "receive", "route"} => acct = "none" /\ ~outRec
    /\ pc \in Leaving /\ ~panicked => ~Open
    /\ stream => Open

\* A request still owes its outcome: before the accounting exists, while it is
\* open, or after a panic that came before it.
OwesOutcome ==
    \/ Open
    \/ pc \in {"receive", "route"}
    \/ pc \in Leaving /\ panicked /\ acct = "none" /\ bodies # "none" /\ ~outRec

Balance ==
    /\ inFlight = IF Open THEN 1 ELSE 0
    /\ streaming = IF stream THEN 1 ELSE 0
    /\ received = recorded + IF OwesOutcome THEN 1 ELSE 0
    /\ samples + (IF acct = "timed" THEN 1 ELSE 0) >= routed
    /\ pc = "serve" => samples >= routed

(* TypeOK in three parts, for proofs of their own *)

Flags ==
    /\ writeTimeout \in BOOLEAN /\ stopping \in BOOLEAN /\ parentDone \in BOOLEAN
    /\ abort \in BOOLEAN /\ panicked \in BOOLEAN /\ armed \in BOOLEAN
    /\ stream \in BOOLEAN /\ outRec \in BOOLEAN

Places ==
    /\ pc \in PCs /\ sock \in {"open", "closed"}
    /\ req \in Requests /\ resp \in Responses
    /\ wire \in {"clean", "body", "rest", "stray"}
    /\ loaded \in SUBSET {"http", "icap", "materialised"}
    /\ bodies \in {"none", "held", "released"} /\ ctx \in {"none", "live", "done"}
    /\ acct \in {"none", "pending", "timed", "finished"}

Numbers ==
    /\ n \in 1..(MaxRequests + 1)
    /\ late \in SUBSET (1..MaxRequests) /\ wdl \in 0..MaxRequests
    /\ inFlight \in Int /\ streaming \in Int /\ recorded \in Nat /\ samples \in Nat
    /\ received \in 0..MaxRequests /\ routed \in 0..MaxRequests
    /\ cut \in SUBSET ((1..MaxRequests) \X (1..MaxRequests))

IndInv == TypeOK /\ Numbering /\ Memory /\ Wire /\ Claim /\ Balance

-----------------------------------------------------------------------------
(* Every step keeps each part *)

\* Every step keeps the flags Boolean.
LEMMA FlagsStep ==
    ASSUME Flags, Next
    PROVE  Flags'
<1> USE DEF Flags, envVars, connVars, bodyVars, ctxVars, acctVars, histVars
<1>1. CASE LoopTop  BY <1>1 DEF LoopTop, Leave
<1>2. CASE ReceiveBodies  BY <1>2 DEF ReceiveBodies
<1>3. CASE ReceiveFails  BY <1>3 DEF ReceiveFails, Leave
<1>4. CASE BeginRoute  BY <1>4 DEF BeginRoute
<1>5. CASE ServeOk  BY <1>5 DEF ServeOk, StartAt
<1>6. CASE ServeErr  BY <1>6 DEF ServeErr, StartAt
<1>7. CASE ArmWrite  BY <1>7 DEF ArmWrite
<1>8. CASE WriteDeadlineFails  BY <1>8 DEF WriteDeadlineFails, Finalize, Leave
<1>9. CASE WriteReturns  BY <1>9 DEF WriteReturns, Finalize, Leave, shouldDrainAfterResponse
<1>10. CASE DrainBodies  BY <1>10 DEF DrainBodies
<1>11. CASE DrainFails  BY <1>11 DEF DrainFails, Leave
<1>12. CASE NextRequest  BY <1>12 DEF NextRequest, Leave, shouldDrainAfterResponse
<1>13. CASE DeferCancel  BY <1>13 DEF DeferCancel
<1>14. CASE DeferClose  BY <1>14 DEF DeferClose
<1>15. CASE DeferSettle  BY <1>15 DEF DeferSettle, Finalize
<1>16. CASE ParseRequest  BY <1>16 DEF ParseRequest
<1>17. CASE ParseFails  BY <1>17 DEF ParseFails, Leave
<1>18. CASE Panic  BY <1>18 DEF Panic, Leave
<1>19. CASE ReadContinuation  BY <1>19 DEF ReadContinuation
<1>20. CASE ProcessorStartsTiming  BY <1>20 DEF ProcessorStartsTiming, StartAt
<1>21. CASE StreamStarts  BY <1>21 DEF StreamStarts
<1>22. CASE WriteFlushed  BY <1>22 DEF WriteFlushed
<1>23. CASE WriteFails  BY <1>23 DEF WriteFails, Finalize, Leave
<1>24. CASE ServerStops  BY <1>24 DEF ServerStops
<1>25. CASE ForceClose  BY <1>25 DEF ForceClose
<1>26. CASE CtxExpires  BY <1>26 DEF CtxExpires, ContextEnds
<1>27. CASE ParentCancelled  BY <1>27 DEF ParentCancelled, ContextEnds
<1>28. ASSUME NEW k \in 1..MaxRequests, CallbackRuns(k)  PROVE Flags'
  BY <1>28 DEF CallbackRuns
<1> QED
  BY <1>1, <1>2, <1>3, <1>4, <1>5, <1>6, <1>7, <1>8, <1>9, <1>10, <1>11, <1>12, <1>13,
     <1>14, <1>15, <1>16, <1>17, <1>18, <1>19, <1>20, <1>21, <1>22, <1>23, <1>24, <1>25,
     <1>26, <1>27, <1>28
     DEF Next, HandlerStep

\* Every step keeps the enumerated states.
LEMMA PlacesStep ==
    ASSUME Places, Next
    PROVE  Places'
<1> USE DEF Places, PCs, InRequest, Requests, Responses, NoRequest, NoResponse, envVars, connVars, bodyVars, ctxVars, acctVars, histVars
<1>1. CASE LoopTop
  <2>1. NoRequest \in Requests /\ NoResponse \in Responses  BY DEF NoRequest, NoResponse, Requests, Responses
  <2>2. CASE stopping \/ parentDone  BY <1>1, <2>2 DEF LoopTop, Leave
  <2>3. CASE ~(stopping \/ parentDone)
    <3>1. /\ pc' \in PCs /\ req' = NoRequest /\ resp' = NoResponse /\ loaded' = {}
          /\ bodies' = "none" /\ ctx' = "none" /\ acct' = "none" /\ UNCHANGED <<wire, sock>>
      BY <1>1, <2>3 DEF LoopTop, Leave
    <3> QED  BY <2>1, <3>1
  <2> QED  BY <2>2, <2>3
<1>2. CASE ReceiveBodies
  <2>1. wire' \in {"clean", "body", "rest", "stray"}  BY <1>2 DEF ReceiveBodies
  <2>2. loaded' = loaded \/ loaded' = {"http"} \/ loaded' = {"icap"}
    BY <1>2 DEF ReceiveBodies, Requests, TypeOK
  <2>3. pc' = "route" /\ UNCHANGED <<sock, req, bodies, resp, ctx, acct>>  BY <1>2 DEF ReceiveBodies
  <2>4. loaded' \in SUBSET {"http", "icap", "materialised"}  BY <2>2
  <2> QED  BY <2>1, <2>3, <2>4
<1>3. CASE ReceiveFails  BY <1>3 DEF ReceiveFails, Leave
<1>4. CASE BeginRoute  BY <1>4 DEF BeginRoute
<1>5. CASE ServeOk  BY <1>5 DEF ServeOk, StartAt
<1>6. CASE ServeErr  BY <1>6 DEF ServeErr, StartAt
<1>7. CASE ArmWrite  BY <1>7 DEF ArmWrite
<1>8. CASE WriteDeadlineFails  BY <1>8 DEF WriteDeadlineFails, Finalize, Leave
<1>9. CASE WriteReturns  BY <1>9 DEF WriteReturns, Finalize, Leave, shouldDrainAfterResponse
<1>10. CASE DrainBodies  BY <1>10 DEF DrainBodies
<1>11. CASE DrainFails  BY <1>11 DEF DrainFails, Leave
<1>12. CASE NextRequest  BY <1>12 DEF NextRequest, Leave, shouldDrainAfterResponse
<1>13. CASE DeferCancel  BY <1>13 DEF DeferCancel
<1>14. CASE DeferClose  BY <1>14 DEF DeferClose
<1>15. CASE DeferSettle  BY <1>15 DEF DeferSettle, Finalize
<1>16. CASE ParseRequest  BY <1>16 DEF ParseRequest
<1>17. CASE ParseFails  BY <1>17 DEF ParseFails, Leave
<1>18. CASE Panic  BY <1>18 DEF Panic, Leave
<1>19. CASE ReadContinuation  BY <1>19 DEF ReadContinuation
<1>20. CASE ProcessorStartsTiming  BY <1>20 DEF ProcessorStartsTiming, StartAt
<1>21. CASE StreamStarts  BY <1>21 DEF StreamStarts
<1>22. CASE WriteFlushed  BY <1>22 DEF WriteFlushed
<1>23. CASE WriteFails  BY <1>23 DEF WriteFails, Finalize, Leave
<1>24. CASE ServerStops  BY <1>24 DEF ServerStops
<1>25. CASE ForceClose  BY <1>25 DEF ForceClose
<1>26. CASE CtxExpires  BY <1>26 DEF CtxExpires, ContextEnds
<1>27. CASE ParentCancelled  BY <1>27 DEF ParentCancelled, ContextEnds
<1>28. ASSUME NEW k \in 1..MaxRequests, CallbackRuns(k)  PROVE Places'
  BY <1>28 DEF CallbackRuns
<1> QED
  BY <1>1, <1>2, <1>3, <1>4, <1>5, <1>6, <1>7, <1>8, <1>9, <1>10, <1>11, <1>12, <1>13,
     <1>14, <1>15, <1>16, <1>17, <1>18, <1>19, <1>20, <1>21, <1>22, <1>23, <1>24, <1>25,
     <1>26, <1>27, <1>28
     DEF Next, HandlerStep

\* Every step keeps the counters and request numbers in range: a callback or an
\* answer belongs to a request that was parsed.
LEMMA NumbersStep ==
    ASSUME Numbers, Numbering, Next
    PROVE  Numbers'
<1> USE DEF Numbers, Numbering, InRequest, envVars, connVars, bodyVars, ctxVars, acctVars, histVars
<1>1. CASE LoopTop  BY <1>1, HandlerAssumption DEF LoopTop, Leave
<1>2. CASE ReceiveBodies  BY <1>2, HandlerAssumption DEF ReceiveBodies
<1>3. CASE ReceiveFails  BY <1>3, HandlerAssumption DEF ReceiveFails, Leave
<1>4. CASE BeginRoute  BY <1>4, HandlerAssumption DEF BeginRoute
<1>5. CASE ServeOk  BY <1>5, HandlerAssumption DEF ServeOk, StartAt
<1>6. CASE ServeErr  BY <1>6, HandlerAssumption DEF ServeErr, StartAt
<1>7. CASE ArmWrite
  <2>1. n \in 1..MaxRequests  BY <1>7, HandlerAssumption DEF ArmWrite
  <2>2. late' \in SUBSET (1..MaxRequests)  BY <1>7, <2>1 DEF ArmWrite
  <2>3. wdl' \in 0..MaxRequests  BY <1>7, HandlerAssumption DEF ArmWrite
  <2>4. UNCHANGED <<n, cut, inFlight, streaming, recorded, samples, received, routed>>
    BY <1>7 DEF ArmWrite
  <2> QED  BY <2>2, <2>3, <2>4
<1>8. CASE WriteDeadlineFails  BY <1>8, HandlerAssumption DEF WriteDeadlineFails, Finalize, Leave
<1>9. CASE WriteReturns  BY <1>9, HandlerAssumption DEF WriteReturns, Finalize, Leave, shouldDrainAfterResponse
<1>10. CASE DrainBodies  BY <1>10, HandlerAssumption DEF DrainBodies
<1>11. CASE DrainFails  BY <1>11, HandlerAssumption DEF DrainFails, Leave
<1>12. CASE NextRequest  BY <1>12, HandlerAssumption DEF NextRequest, Leave, shouldDrainAfterResponse
<1>13. CASE DeferCancel  BY <1>13, HandlerAssumption DEF DeferCancel
<1>14. CASE DeferClose  BY <1>14, HandlerAssumption DEF DeferClose
<1>15. CASE DeferSettle  BY <1>15, HandlerAssumption DEF DeferSettle, Finalize
<1>16. CASE ParseRequest  BY <1>16, HandlerAssumption DEF ParseRequest
<1>17. CASE ParseFails  BY <1>17, HandlerAssumption DEF ParseFails, Leave
<1>18. CASE Panic  BY <1>18, HandlerAssumption DEF Panic, Leave
<1>19. CASE ReadContinuation  BY <1>19, HandlerAssumption DEF ReadContinuation
<1>20. CASE ProcessorStartsTiming  BY <1>20, HandlerAssumption DEF ProcessorStartsTiming, StartAt
<1>21. CASE StreamStarts  BY <1>21, HandlerAssumption DEF StreamStarts
<1>22. CASE WriteFlushed  BY <1>22, HandlerAssumption DEF WriteFlushed
<1>23. CASE WriteFails  BY <1>23, HandlerAssumption DEF WriteFails, Finalize, Leave
<1>24. CASE ServerStops  BY <1>24, HandlerAssumption DEF ServerStops
<1>25. CASE ForceClose  BY <1>25, HandlerAssumption DEF ForceClose
<1>26. CASE CtxExpires  BY <1>26, HandlerAssumption DEF CtxExpires, ContextEnds
<1>27. CASE ParentCancelled
  <2>1. armed => n \in 1..MaxRequests  BY HandlerAssumption
  <2>2. late' = late \/ (armed /\ late' = late \cup {n})  BY <1>27 DEF ParentCancelled, ContextEnds
  <2>3. late' \in SUBSET (1..MaxRequests)  BY <2>1, <2>2
  <2>4. UNCHANGED <<n, wdl, cut, inFlight, streaming, recorded, samples, received, routed>>
    BY <1>27 DEF ParentCancelled
  <2> QED  BY <2>3, <2>4
<1>28. ASSUME NEW k \in 1..MaxRequests, CallbackRuns(k)  PROVE Numbers'
  BY <1>28, HandlerAssumption DEF CallbackRuns
<1> QED
  BY <1>1, <1>2, <1>3, <1>4, <1>5, <1>6, <1>7, <1>8, <1>9, <1>10, <1>11, <1>12, <1>13,
     <1>14, <1>15, <1>16, <1>17, <1>18, <1>19, <1>20, <1>21, <1>22, <1>23, <1>24, <1>25,
     <1>26, <1>27, <1>28
     DEF Next, HandlerStep

\* Every step keeps the numbering of the requests.
LEMMA NumberingStep ==
    ASSUME TypeOK, Numbering, Next
    PROVE  Numbering'
<1> USE DEF TypeOK, Numbering, PCs, InRequest, Leaving, envVars, connVars, bodyVars, ctxVars, acctVars, histVars
<1>1. CASE LoopTop  BY <1>1 DEF LoopTop, Leave
<1>2. CASE ReceiveBodies  BY <1>2 DEF ReceiveBodies
<1>3. CASE ReceiveFails  BY <1>3 DEF ReceiveFails, Leave
<1>4. CASE BeginRoute  BY <1>4 DEF BeginRoute
<1>5. CASE ServeOk  BY <1>5 DEF ServeOk, StartAt
<1>6. CASE ServeErr  BY <1>6 DEF ServeErr, StartAt
<1>7. CASE ArmWrite  BY <1>7 DEF ArmWrite
<1>8. CASE WriteDeadlineFails  BY <1>8 DEF WriteDeadlineFails, Finalize, Leave
<1>9. CASE WriteReturns  BY <1>9 DEF WriteReturns, Finalize, Leave, shouldDrainAfterResponse
<1>10. CASE DrainBodies  BY <1>10 DEF DrainBodies
<1>11. CASE DrainFails  BY <1>11 DEF DrainFails, Leave
<1>12. CASE NextRequest  BY <1>12 DEF NextRequest, Leave, shouldDrainAfterResponse
<1>13. CASE DeferCancel  BY <1>13 DEF DeferCancel
<1>14. CASE DeferClose  BY <1>14 DEF DeferClose
<1>15. CASE DeferSettle  BY <1>15 DEF DeferSettle, Finalize
<1>16. CASE ParseRequest  BY <1>16 DEF ParseRequest
<1>17. CASE ParseFails  BY <1>17 DEF ParseFails, Leave
<1>18. CASE Panic  BY <1>18 DEF Panic, Leave
<1>19. CASE ReadContinuation  BY <1>19 DEF ReadContinuation
<1>20. CASE ProcessorStartsTiming  BY <1>20 DEF ProcessorStartsTiming, StartAt
<1>21. CASE StreamStarts  BY <1>21 DEF StreamStarts
<1>22. CASE WriteFlushed  BY <1>22 DEF WriteFlushed
<1>23. CASE WriteFails  BY <1>23 DEF WriteFails, Finalize, Leave
<1>24. CASE ServerStops  BY <1>24 DEF ServerStops
<1>25. CASE ForceClose  BY <1>25 DEF ForceClose
<1>26. CASE CtxExpires  BY <1>26 DEF CtxExpires, ContextEnds
<1>27. CASE ParentCancelled  BY <1>27 DEF ParentCancelled, ContextEnds
<1>28. ASSUME NEW k \in 1..MaxRequests, CallbackRuns(k)  PROVE Numbering'
  BY <1>28 DEF CallbackRuns
<1> QED
  BY <1>1, <1>2, <1>3, <1>4, <1>5, <1>6, <1>7, <1>8, <1>9, <1>10, <1>11, <1>12, <1>13,
     <1>14, <1>15, <1>16, <1>17, <1>18, <1>19, <1>20, <1>21, <1>22, <1>23, <1>24, <1>25,
     <1>26, <1>27, <1>28
     DEF Next, HandlerStep

\* Every step keeps what is known of the bodies.
LEMMA MemoryStep ==
    ASSUME TypeOK, Numbering, Memory, Next
    PROVE  Memory'
<1> USE DEF TypeOK, Numbering, Memory, PCs, InRequest, Leaving, envVars, connVars, bodyVars, ctxVars, acctVars, histVars
<1>1. CASE LoopTop  BY <1>1 DEF LoopTop, Leave
<1>2. CASE ReceiveBodies  BY <1>2 DEF ReceiveBodies
<1>3. CASE ReceiveFails  BY <1>3 DEF ReceiveFails, Leave
<1>4. CASE BeginRoute  BY <1>4 DEF BeginRoute
<1>5. CASE ServeOk  BY <1>5 DEF ServeOk, StartAt
<1>6. CASE ServeErr  BY <1>6 DEF ServeErr, StartAt
<1>7. CASE ArmWrite  BY <1>7 DEF ArmWrite
<1>8. CASE WriteDeadlineFails  BY <1>8 DEF WriteDeadlineFails, Finalize, Leave
<1>9. CASE WriteReturns  BY <1>9 DEF WriteReturns, Finalize, Leave, shouldDrainAfterResponse
<1>10. CASE DrainBodies  BY <1>10 DEF DrainBodies
<1>11. CASE DrainFails  BY <1>11 DEF DrainFails, Leave
<1>12. CASE NextRequest  BY <1>12 DEF NextRequest, Leave, shouldDrainAfterResponse
<1>13. CASE DeferCancel  BY <1>13 DEF DeferCancel
<1>14. CASE DeferClose  BY <1>14 DEF DeferClose
<1>15. CASE DeferSettle  BY <1>15 DEF DeferSettle, Finalize
<1>16. CASE ParseRequest  BY <1>16 DEF ParseRequest
<1>17. CASE ParseFails  BY <1>17 DEF ParseFails, Leave
<1>18. CASE Panic  BY <1>18 DEF Panic, Leave
<1>19. CASE ReadContinuation  BY <1>19 DEF ReadContinuation
<1>20. CASE ProcessorStartsTiming  BY <1>20 DEF ProcessorStartsTiming, StartAt
<1>21. CASE StreamStarts  BY <1>21 DEF StreamStarts
<1>22. CASE WriteFlushed  BY <1>22 DEF WriteFlushed
<1>23. CASE WriteFails  BY <1>23 DEF WriteFails, Finalize, Leave
<1>24. CASE ServerStops  BY <1>24 DEF ServerStops
<1>25. CASE ForceClose  BY <1>25 DEF ForceClose
<1>26. CASE CtxExpires  BY <1>26 DEF CtxExpires, ContextEnds
<1>27. CASE ParentCancelled  BY <1>27 DEF ParentCancelled, ContextEnds
<1>28. ASSUME NEW k \in 1..MaxRequests, CallbackRuns(k)  PROVE Memory'
  BY <1>28 DEF CallbackRuns
<1> QED
  BY <1>1, <1>2, <1>3, <1>4, <1>5, <1>6, <1>7, <1>8, <1>9, <1>10, <1>11, <1>12, <1>13,
     <1>14, <1>15, <1>16, <1>17, <1>18, <1>19, <1>20, <1>21, <1>22, <1>23, <1>24, <1>25,
     <1>26, <1>27, <1>28
     DEF Next, HandlerStep

\* Every step keeps what is known of the wire.
LEMMA WireStep ==
    ASSUME TypeOK, Wire, Next
    PROVE  Wire'
<1> USE DEF TypeOK, Wire, PCs, InRequest, Requests, Responses, shouldDrainAfterResponse, envVars, connVars, bodyVars, ctxVars, acctVars, histVars
<1>1. CASE LoopTop  BY <1>1 DEF LoopTop, Leave
<1>2. CASE ReceiveBodies  BY <1>2 DEF ReceiveBodies
<1>3. CASE ReceiveFails  BY <1>3 DEF ReceiveFails, Leave
<1>4. CASE BeginRoute  BY <1>4 DEF BeginRoute
<1>5. CASE ServeOk  BY <1>5 DEF ServeOk, StartAt
<1>6. CASE ServeErr  BY <1>6 DEF ServeErr, StartAt
<1>7. CASE ArmWrite  BY <1>7 DEF ArmWrite
<1>8. CASE WriteDeadlineFails  BY <1>8 DEF WriteDeadlineFails, Finalize, Leave
<1>9. CASE WriteReturns
  <2>1. pc = "flushed" /\ UNCHANGED <<req, wire, loaded>>  BY <1>9 DEF WriteReturns
  <2>2. pc' \in {"defer", "drain", "next"}  BY <1>9 DEF WriteReturns, Leave
  <2>3. pc' = "next" => ~shouldDrainAfterResponse  BY <1>9 DEF WriteReturns, Leave
  <2>4. shouldDrainAfterResponse' <=> shouldDrainAfterResponse  BY <2>1 DEF shouldDrainAfterResponse
  <2> HIDE DEF shouldDrainAfterResponse
  <2> QED  BY <2>1, <2>2, <2>3, <2>4
<1>10. CASE DrainBodies  BY <1>10 DEF DrainBodies
<1>11. CASE DrainFails  BY <1>11 DEF DrainFails, Leave
<1>12. CASE NextRequest  BY <1>12 DEF NextRequest, Leave, shouldDrainAfterResponse
<1>13. CASE DeferCancel  BY <1>13 DEF DeferCancel
<1>14. CASE DeferClose  BY <1>14 DEF DeferClose
<1>15. CASE DeferSettle  BY <1>15 DEF DeferSettle, Finalize
<1>16. CASE ParseRequest  BY <1>16 DEF ParseRequest
<1>17. CASE ParseFails  BY <1>17 DEF ParseFails, Leave
<1>18. CASE Panic  BY <1>18 DEF Panic, Leave
<1>19. CASE ReadContinuation  BY <1>19 DEF ReadContinuation
<1>20. CASE ProcessorStartsTiming  BY <1>20 DEF ProcessorStartsTiming, StartAt
<1>21. CASE StreamStarts  BY <1>21 DEF StreamStarts
<1>22. CASE WriteFlushed  BY <1>22 DEF WriteFlushed
<1>23. CASE WriteFails  BY <1>23 DEF WriteFails, Finalize, Leave
<1>24. CASE ServerStops  BY <1>24 DEF ServerStops
<1>25. CASE ForceClose  BY <1>25 DEF ForceClose
<1>26. CASE CtxExpires  BY <1>26 DEF CtxExpires, ContextEnds
<1>27. CASE ParentCancelled  BY <1>27 DEF ParentCancelled, ContextEnds
<1>28. ASSUME NEW k \in 1..MaxRequests, CallbackRuns(k)  PROVE Wire'
  BY <1>28 DEF CallbackRuns
<1> QED
  BY <1>1, <1>2, <1>3, <1>4, <1>5, <1>6, <1>7, <1>8, <1>9, <1>10, <1>11, <1>12, <1>13,
     <1>14, <1>15, <1>16, <1>17, <1>18, <1>19, <1>20, <1>21, <1>22, <1>23, <1>24, <1>25,
     <1>26, <1>27, <1>28
     DEF Next, HandlerStep

\* Every step keeps the accounting open exactly where it should be.
LEMMA ClaimStep ==
    ASSUME TypeOK, Numbering, Claim, Next
    PROVE  Claim'
<1> USE DEF TypeOK, Numbering, Claim, Open, PCs, InRequest, Leaving, envVars, connVars, bodyVars, ctxVars, acctVars, histVars
<1>1. CASE LoopTop  BY <1>1 DEF LoopTop, Leave
<1>2. CASE ReceiveBodies  BY <1>2 DEF ReceiveBodies
<1>3. CASE ReceiveFails  BY <1>3 DEF ReceiveFails, Leave
<1>4. CASE BeginRoute  BY <1>4 DEF BeginRoute
<1>5. CASE ServeOk  BY <1>5 DEF ServeOk, StartAt
<1>6. CASE ServeErr  BY <1>6 DEF ServeErr, StartAt
<1>7. CASE ArmWrite  BY <1>7 DEF ArmWrite
<1>8. CASE WriteDeadlineFails  BY <1>8 DEF WriteDeadlineFails, Finalize, Leave
<1>9. CASE WriteReturns  BY <1>9 DEF WriteReturns, Finalize, Leave, shouldDrainAfterResponse
<1>10. CASE DrainBodies  BY <1>10 DEF DrainBodies
<1>11. CASE DrainFails  BY <1>11 DEF DrainFails, Leave
<1>12. CASE NextRequest  BY <1>12 DEF NextRequest, Leave, shouldDrainAfterResponse
<1>13. CASE DeferCancel  BY <1>13 DEF DeferCancel
<1>14. CASE DeferClose  BY <1>14 DEF DeferClose
<1>15. CASE DeferSettle  BY <1>15 DEF DeferSettle, Finalize
<1>16. CASE ParseRequest  BY <1>16 DEF ParseRequest
<1>17. CASE ParseFails  BY <1>17 DEF ParseFails, Leave
<1>18. CASE Panic  BY <1>18 DEF Panic, Leave
<1>19. CASE ReadContinuation  BY <1>19 DEF ReadContinuation
<1>20. CASE ProcessorStartsTiming  BY <1>20 DEF ProcessorStartsTiming, StartAt
<1>21. CASE StreamStarts  BY <1>21 DEF StreamStarts
<1>22. CASE WriteFlushed  BY <1>22 DEF WriteFlushed
<1>23. CASE WriteFails  BY <1>23 DEF WriteFails, Finalize, Leave
<1>24. CASE ServerStops  BY <1>24 DEF ServerStops
<1>25. CASE ForceClose  BY <1>25 DEF ForceClose
<1>26. CASE CtxExpires  BY <1>26 DEF CtxExpires, ContextEnds
<1>27. CASE ParentCancelled  BY <1>27 DEF ParentCancelled, ContextEnds
<1>28. ASSUME NEW k \in 1..MaxRequests, CallbackRuns(k)  PROVE Claim'
  BY <1>28 DEF CallbackRuns
<1> QED
  BY <1>1, <1>2, <1>3, <1>4, <1>5, <1>6, <1>7, <1>8, <1>9, <1>10, <1>11, <1>12, <1>13,
     <1>14, <1>15, <1>16, <1>17, <1>18, <1>19, <1>20, <1>21, <1>22, <1>23, <1>24, <1>25,
     <1>26, <1>27, <1>28
     DEF Next, HandlerStep

\* Every step keeps the books: what is counted and what is still owed make up
\* the requests that were parsed.
LEMMA BalanceStep ==
    ASSUME TypeOK, Numbering, Memory, Claim, Balance, Next
    PROVE  Balance'
<1> USE DEF TypeOK, Numbering, Memory, Claim, Open, OwesOutcome, Balance, PCs, InRequest, Leaving, envVars, connVars, bodyVars, ctxVars, acctVars, histVars
<1>1. CASE LoopTop  BY <1>1 DEF LoopTop, Leave
<1>2. CASE ReceiveBodies  BY <1>2 DEF ReceiveBodies
<1>3. CASE ReceiveFails  BY <1>3 DEF ReceiveFails, Leave
<1>4. CASE BeginRoute  BY <1>4 DEF BeginRoute
<1>5. CASE ServeOk  BY <1>5 DEF ServeOk, StartAt
<1>6. CASE ServeErr  BY <1>6 DEF ServeErr, StartAt
<1>7. CASE ArmWrite  BY <1>7 DEF ArmWrite
<1>8. CASE WriteDeadlineFails  BY <1>8 DEF WriteDeadlineFails, Finalize, Leave
<1>9. CASE WriteReturns  BY <1>9 DEF WriteReturns, Finalize, Leave, shouldDrainAfterResponse
<1>10. CASE DrainBodies  BY <1>10 DEF DrainBodies
<1>11. CASE DrainFails  BY <1>11 DEF DrainFails, Leave
<1>12. CASE NextRequest  BY <1>12 DEF NextRequest, Leave, shouldDrainAfterResponse
<1>13. CASE DeferCancel  BY <1>13 DEF DeferCancel
<1>14. CASE DeferClose  BY <1>14 DEF DeferClose
<1>15. CASE DeferSettle  BY <1>15 DEF DeferSettle, Finalize
<1>16. CASE ParseRequest  BY <1>16 DEF ParseRequest
<1>17. CASE ParseFails  BY <1>17 DEF ParseFails, Leave
<1>18. CASE Panic
  <2>1. /\ pc \in {"parse", "receive", "serve", "writing", "drain"} /\ pc' = "defer" /\ panicked'
        /\ UNCHANGED <<bodies, acct, stream, inFlight, streaming, recorded, samples, outRec, received, routed>>
    BY <1>18 DEF Panic, Leave
  <2>2. Open' <=> Open  BY <2>1
  <2>3. OwesOutcome' <=> OwesOutcome
    <3>1. CASE pc = "parse"  BY <2>1, <3>1
    <3>2. CASE pc = "receive"  BY <2>1, <3>2
    <3>3. CASE pc \in {"serve", "writing", "drain"}  BY <2>1, <3>3
    <3> QED  BY <2>1, <3>1, <3>2, <3>3
  <2> QED  BY <2>1, <2>2, <2>3
<1>19. CASE ReadContinuation  BY <1>19 DEF ReadContinuation
<1>20. CASE ProcessorStartsTiming  BY <1>20 DEF ProcessorStartsTiming, StartAt
<1>21. CASE StreamStarts  BY <1>21 DEF StreamStarts
<1>22. CASE WriteFlushed  BY <1>22 DEF WriteFlushed
<1>23. CASE WriteFails  BY <1>23 DEF WriteFails, Finalize, Leave
<1>24. CASE ServerStops  BY <1>24 DEF ServerStops
<1>25. CASE ForceClose  BY <1>25 DEF ForceClose
<1>26. CASE CtxExpires  BY <1>26 DEF CtxExpires, ContextEnds
<1>27. CASE ParentCancelled  BY <1>27 DEF ParentCancelled, ContextEnds
<1>28. ASSUME NEW k \in 1..MaxRequests, CallbackRuns(k)  PROVE Balance'
  BY <1>28 DEF CallbackRuns
<1> QED
  BY <1>1, <1>2, <1>3, <1>4, <1>5, <1>6, <1>7, <1>8, <1>9, <1>10, <1>11, <1>12, <1>13,
     <1>14, <1>15, <1>16, <1>17, <1>18, <1>19, <1>20, <1>21, <1>22, <1>23, <1>24, <1>25,
     <1>26, <1>27, <1>28
     DEF Next, HandlerStep

-----------------------------------------------------------------------------
(* The theorems *)

\* The three parts make up TypeOK.
LEMMA TypeParts == TypeOK <=> Flags /\ Places /\ Numbers
BY DEF TypeOK, Flags, Places, Numbers

\* Every step keeps the types.
LEMMA TypeStep ==
    ASSUME TypeOK, Numbering, Next
    PROVE  TypeOK'
<1>1. Flags' /\ Places' /\ Numbers'  BY TypeParts, FlagsStep, PlacesStep, NumbersStep
<1> QED  BY <1>1 DEF TypeOK, Flags, Places, Numbers

\* The inductive invariant holds in every reachable state, for every number of
\* requests.
THEOREM Invariance == Spec => []IndInv
<1>1. Init => IndInv
  <2> SUFFICES ASSUME Init  PROVE IndInv  OBVIOUS
  <2>1. Flags  BY DEF Init, Flags
  <2>2. Places  BY DEF Init, Places, PCs, InRequest, Requests, Responses, NoRequest, NoResponse
  <2>3. Numbers  BY HandlerAssumption DEF Init, Numbers
  <2>4. Numbering /\ Memory /\ Wire
    BY DEF Init, Numbering, Memory, Wire, InRequest, Leaving
  <2>5. Claim /\ Balance  BY DEF Init, Claim, Balance, Open, OwesOutcome, Leaving
  <2> QED  BY <2>1, <2>2, <2>3, <2>4, <2>5, TypeParts DEF IndInv
<1>2. IndInv /\ [Next]_vars => IndInv'
  <2>1. ASSUME IndInv, Next  PROVE IndInv'
    BY <2>1, TypeStep, NumberingStep, MemoryStep, WireStep, ClaimStep, BalanceStep DEF IndInv
  <2>2. ASSUME IndInv, UNCHANGED vars  PROVE IndInv'
    BY <2>2 DEF IndInv, TypeOK, Numbering, Memory, Wire, Claim, Balance, Open, OwesOutcome,
        shouldDrainAfterResponse, vars, envVars, connVars, bodyVars, ctxVars, acctVars, histVars
  <2> QED  BY <2>1, <2>2
<1> QED  BY <1>1, <1>2, PTL DEF Spec

\* The types of ConnHandler.
THEOREM TypeCorrectness == Spec => []TypeOK
BY Invariance, PTL DEF IndInv

\* Of every request that was parsed exactly one outcome is recorded, whichever
\* return path of handleConnection or panic ends it.
THEOREM OutcomeTheorem == Spec => []RecordedExactlyOnce
<1>1. IndInv => RecordedExactlyOnce
  BY DEF IndInv, TypeOK, Balance, Claim, OwesOutcome, Leaving, RecordedExactlyOnce, AtRest
<1> QED  BY <1>1, Invariance, PTL

\* Both gauges are back at zero whenever the handler is between requests or gone.
THEOREM GaugeTheorem == Spec => []GaugesReturnToZero
<1>1. IndInv => GaugesReturnToZero
  BY DEF IndInv, TypeOK, Balance, Claim, GaugesReturnToZero, AtRest
<1> QED  BY <1>1, Invariance, PTL

\* Every answer of the router has its duration sample when the request is over.
THEOREM TimingTheorem == Spec => []AnsweredRequestsAreTimed
<1>1. IndInv => AnsweredRequestsAreTimed
  BY DEF IndInv, TypeOK, Balance, Claim, Open, AnsweredRequestsAreTimed, AtRest
<1> QED  BY <1>1, Invariance, PTL

\* No request leaves its body memory behind.
THEOREM MemoryTheorem == Spec => []BodiesReleased
<1>1. IndInv => BodiesReleased  BY DEF IndInv, Memory, BodiesReleased, AtRest
<1> QED  BY <1>1, Invariance, PTL

\* Nothing of a body that has a reader is on the wire when the connection is reused;
\* a stray body is, and only that of a request without Preview.
THEOREM ReuseTheorem == Spec => []ReuseOnlyOnCleanWire
<1>1. IndInv => ReuseOnlyOnCleanWire  BY DEF IndInv, Wire, ReuseOnlyOnCleanWire
<1> QED  BY <1>1, Invariance, PTL
=============================================================================
