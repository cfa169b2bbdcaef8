------------------------------ MODULE Exchange ------------------------------
(***************************************************************************)
(* One request and its response on a connection, from the first byte of    *)
(* the body to the return of the connection's buffers: the chunked reader  *)
(* and the ICAP preview (pkg/icap/encoding.go, server/lifecycle.go), the   *)
(* processor with its delay and its deferred body, the paced delivery of   *)
(* the response (pkg/icap/streaming.go, response_write.go) through the     *)
(* buffered writer, and Close and Abort of the connection, where a forced  *)
(* stop may come in at any step (server/connection.go).                    *)
(*                                                                         *)
(* The client sends tokens: a chunk with its bytes, "zero" and "ieof"      *)
(* terminators, "eof" for a connection closed between chunks, and "broken" *)
(* for any error inside one.  The server writes tokens <<kind, value>>; a  *)
(* token counts as one byte of the writer's buffer.                        *)
(***************************************************************************)
EXTENDS ResponseBuild

CONSTANTS
    Requests,      \* the requests a client may send
    Templates,     \* the scenario matched: <<>>, or <<[base, variants]>>
    BufferSize,    \* capacity of the writer's buffer
    MaxTime,       \* model bound: ticks of the clock
    MaxEdits       \* model bound: changes of open files

\* What the client sends, and the request it belongs to; preview is -1 without a Preview header.
ClientToken == [kind : {"chunk", "zero", "ieof", "eof", "broken"}, data : Seq(Int)]
Request ==
    [method : {"REQMOD", "RESPMOD"}, enc : SUBSET STRING, preview : Int, close : BOOLEAN,
     now : Seq(ClientToken), later : Seq(ClientToken), asked : Seq(Int), cl : Int, parts : Seq(BodyPart)]

\* What follows the end of a body belongs to the next request, and later is the part of a body
\* that a client holds back for 100 Continue: it does so only behind a preview that ends with a zero chunk.
Delimited(toks) == \A i \in DOMAIN toks : toks[i].kind # "chunk" => i = Len(toks) /\ toks[i].data = <<>>
WellSent(q) ==
    /\ Delimited(q.now) /\ Delimited(q.later)
    /\ q.later # <<>> => q.preview >= 0 /\ q.now # <<>> /\ Last(q.now).kind = "zero"

ASSUME ExchangeAssumption ==
    /\ BufferSize \in Nat \ {0} /\ MaxTime \in Nat /\ MaxEdits \in Nat
    /\ Requests \subseteq Request /\ \A q \in Requests : WellSent(q)
    /\ \A choice \in Templates : choice # <<>> =>
          /\ choice[1].base \in Template
          /\ choice[1].variants \in Seq(ToSet(choice[1].variants))
          /\ \A v \in ToSet(choice[1].variants) : v.weight \in Nat /\ v.sets @@ choice[1].base \in Template

VARIABLES
    req, tmpl,     \* the request and what its match selects
    wire,          \* what the client has still to send: [now, later], later follows 100 Continue
    got,           \* bytes read of the adapted body
    msgs,          \* the encapsulated messages of ResponseBuild
    pc, io,        \* where the handler is; the socket operation it is blocked in
    ctx,           \* the request's context
    resp, todo,    \* the response, and what remains to be done to write it
    src, edited,   \* what remains of each piece of the payload; how often its files were changed, and how
    opened, now,   \* whether delivery of the stream has begun, and the time since
    held, dropped, \* open files of the response, and those of a response that was thrown away
    wbuf, net, after,  \* the writer's buffer; the tokens being written to the socket; those that follow
    sent,          \* what the client received
    sock, wclosed, rclosed, returned, \* the socket, the buffers, and how often each went back to its pool
    once, closer   \* Connection.once; the goroutines that close the connection

reading  == <<wire, got, msgs>>
serving  == <<ctx, resp, todo, src, edited, opened, held, dropped>>
writing  == <<wbuf, net, after, sent>>
closing  == <<sock, wclosed, rclosed, returned, once, closer>>
vars == <<req, tmpl, now, pc, io, reading, serving, writing, closing>>

Closers == {"handler", "stop"}

-----------------------------------------------------------------------------
(* The parsed request *)

\* parseEmbeddedHTTP: which messages are parsed, from the sections of the Encapsulated header.
Parsed(q) ==
    IF "req-hdr" \notin q.enc THEN {}
    ELSE IF q.method = "RESPMOD" /\ "res-hdr" \in q.enc THEN {"req", "res"} ELSE {"req"}

HasBody(q, name) == (IF name = "req" THEN "req-body" ELSE "res-body") \in q.enc

\* The message whose body follows on the wire; a request body before res-hdr was buffered.
OnTheWire(q) == IF q.method = "RESPMOD" /\ "res" \in Parsed(q) THEN "res" ELSE "req"

ParsedMessage(q, name) ==
    [data |-> IF name # OnTheWire(q) /\ HasBody(q, name) THEN q.asked ELSE <<>>,
     reader |-> HasBody(q, name), loaded |-> FALSE, failed |-> FALSE,
     cl |-> IF name = OnTheWire(q) THEN q.cl ELSE -1,
     parts |-> IF name = OnTheWire(q) THEN q.parts ELSE <<>>]

Preview(q) == q.preview >= 0

\* What the processor sees of the request.
Query == [method |-> req.method, preview |-> Preview(req), msgs |-> msgs]

\* Where receiving begins: a preview of the adapted message, a body, or none.
ReceiveFrom(q) ==
    IF Preview(q)
    THEN (IF Adapted(q) \in Parsed(q) /\ HasBody(q, Adapted(q)) THEN "preview" ELSE "serve")
    ELSE IF Parsed(q) = {} THEN (IF {"req-body", "res-body"} \cap q.enc # {} THEN "body" ELSE "serve")
    ELSE IF HasBody(q, OnTheWire(q)) THEN "body" ELSE "serve"

NoEdits == [append |-> 0, truncate |-> 0, overwrite |-> 0]

Init ==
    /\ req \in Requests /\ tmpl \in Templates
    /\ wire = [now |-> req.now, later |-> req.later] /\ got = <<>>
    /\ msgs = [name \in Parsed(req) |->
                 LET m == ParsedMessage(req, name)
                 IN  IF ~Preview(req) /\ name # OnTheWire(req) /\ m.reader
                     THEN [m EXCEPT !.loaded = TRUE, !.reader = FALSE] ELSE m]
    /\ pc = ReceiveFrom(req) /\ io = "none" /\ ctx = "live"
    /\ resp = ErrorResponse /\ todo = <<>> /\ src = <<>> /\ edited = NoEdits /\ opened = FALSE /\ now = 0
    /\ held = {} /\ dropped = {}
    /\ wbuf = <<>> /\ net = <<>> /\ after = <<>> /\ sent = <<>>
    /\ sock = "open" /\ wclosed = FALSE /\ rclosed = FALSE /\ returned = [reader |-> 0, writer |-> 0]
    /\ once = "free" /\ closer = [c \in Closers |-> [mode |-> "none", at |-> "idle"]]

-----------------------------------------------------------------------------
(* Leaving the request loop *)

\* The handler returns and its deferred Close or Abort runs; the bodies are released.
Leave(mode) ==
    /\ pc' = "close" /\ io' = "none" /\ todo' = <<>> /\ held' = {}
    /\ closer' = [closer EXCEPT !["handler"] =
                    [mode |-> mode, at |-> IF mode = "abort" THEN "socket" ELSE "once"]]
    /\ UNCHANGED <<sock, wclosed, rclosed, returned, once>>

\* The processor or the handler returned an error.
ProcessFails ==
    /\ pc' = "respond" /\ io' = "none" /\ resp' = ErrorResponse
    /\ UNCHANGED <<closing, held, todo>>

-----------------------------------------------------------------------------
(* Reading the body *)

\* Mutant: the limit reader's probe byte is taken for part of the body.
TooLongWithProbe(n) == (pc = "preview" /\ n > req.preview + 1) \/ TooLarge(n - 1)

\* More bytes than the preview or the configured limit allows.
TooLong(n) == (pc = "preview" /\ n > req.preview) \/ TooLarge(n)

\* A read error ends the connection while a request is awaited or received, and fails it afterwards.
ReadError ==
    /\ IF pc = "rest" THEN ProcessFails ELSE Leave("close") /\ UNCHANGED resp
    /\ UNCHANGED <<req, tmpl, now, wire, got, ctx, src, edited, opened, dropped, writing>>
    /\ msgs' = IF pc = "rest" THEN [msgs EXCEPT ![Adapted(req)].failed = TRUE] ELSE msgs

\* The read takes the reader's lock; the continuation looks at the context first.
ReadBegins ==
    /\ pc \in {"preview", "body", "rest", "next"} /\ io = "none"
    /\ IF rclosed \/ (pc = "rest" /\ ctx = "ended") THEN ReadError
       ELSE io' = "in" /\ UNCHANGED <<req, tmpl, now, pc, reading, serving, writing, closing>>

\* A deadline, the peer or a closed socket ends the read.
ReadFails == io = "in" /\ ReadError

Incoming == IF pc = "rest" THEN wire.later ELSE wire.now

\* The body is complete; a preview that is not is left to the continuation.
BodyEnds(kind) ==
    LET name == OnTheWire(req)
        whole == [msgs[name] EXCEPT !.data = got, !.loaded = TRUE, !.reader = FALSE]
    IN  /\ pc' = IF pc = "rest" THEN "delay" ELSE "serve"
        /\ io' = "none"
        /\ msgs' = IF name \notin DOMAIN msgs THEN msgs
                   ELSE [msgs EXCEPT ![name] = IF pc = "preview" /\ kind = "zero" THEN @ ELSE whole]
        /\ UNCHANGED <<req, tmpl, now, got, serving, writing, closing>>

\* ChunkedReader.Read; an EOF between chunks ends an ordinary body as a terminator does.
ReadToken ==
    /\ pc \in {"preview", "body", "rest"} /\ io = "in" /\ Incoming # <<>>
    /\ LET tok == Head(Incoming)
       IN  \/ /\ tok.kind = "chunk" /\ ~TooLong(Len(got \o tok.data))
              /\ got' = got \o tok.data /\ io' = "none"
              /\ wire' = IF pc = "rest" THEN [wire EXCEPT !.later = Tail(@)] ELSE [wire EXCEPT !.now = Tail(@)]
              /\ UNCHANGED <<req, tmpl, now, pc, msgs, serving, writing, closing>>
           \/ /\ \/ tok.kind = "broken" \/ (tok.kind = "eof" /\ pc = "preview")
                 \/ tok.kind = "chunk" /\ TooLong(Len(got \o tok.data))
              /\ ReadError
           \/ /\ tok.kind \in {"zero", "ieof"} \/ (tok.kind = "eof" /\ pc # "preview")
              /\ BodyEnds(tok.kind) /\ UNCHANGED wire

-----------------------------------------------------------------------------
(* Processing *)

Selections == IF tmpl = <<>> THEN {} ELSE SelectedResponses(tmpl[1].base, tmpl[1].variants)

\* The context is looked at, the scenario matched and a response selected; Echo answers the rest.
Serve ==
    /\ pc = "serve"
    /\ IF ctx = "ended" THEN ProcessFails /\ UNCHANGED <<req, tmpl, now, reading, ctx, src, edited, opened, dropped, writing>>
       ELSE /\ \/ /\ Selections = {} /\ pc' = "post" /\ resp' = Response(204, "none", <<>>, -1) /\ UNCHANGED tmpl
               \/ \E t \in Selections :
                     /\ tmpl' = <<[base |-> t, variants |-> <<>>]>>
                     /\ resp' = ErrorResponse
                     /\ pc' = IF ~SelectedPreviewNeedsIncomingBody(Query, t) THEN "delay"
                              ELSE IF Adapted(req) \notin DOMAIN msgs THEN "respond"
                              ELSE IF Live(Adapted(req), Query) THEN "continue" ELSE "delay"
            /\ UNCHANGED <<req, now, io, reading, ctx, todo, src, edited, opened, held, dropped, writing, closing>>

\* continueBody: 100 Continue is written and flushed.
Continue ==
    /\ pc = "continue" /\ io = "none"
    /\ IF ctx = "ended" \/ wclosed
       THEN ProcessFails /\ UNCHANGED <<req, tmpl, now, reading, ctx, src, edited, opened, dropped, writing>>
       ELSE /\ io' = "out" /\ net' = Append(wbuf, <<"continue", 100>>) /\ after' = <<>>
            /\ UNCHANGED <<req, tmpl, now, pc, reading, serving, wbuf, sent, closing>>

\* The wait before the response is cut short.
DelayCancelled ==
    /\ pc = "delay" /\ tmpl[1].base.delay > 0 /\ ctx = "ended"
    /\ ProcessFails /\ UNCHANGED <<req, tmpl, now, reading, ctx, src, edited, opened, dropped, writing>>

\* The wait is over; files stay open until the response is delivered or released.
Build ==
    /\ pc = "delay"
    /\ \E r \in IF tmpl[1].base.error THEN {BuildFailed({})} ELSE BuildResponse(tmpl[1].base, Query) :
          IF r.ok THEN /\ pc' = "post" /\ resp' = r /\ held' = r.opened /\ src' = r.pieces /\ io' = "none"
                       /\ UNCHANGED <<closing, todo>>
          ELSE ProcessFails /\ UNCHANGED src
    /\ UNCHANGED <<req, tmpl, now, reading, ctx, edited, opened, dropped, writing>>

\* resolvePreviewResponse: an answer to a preview that modifies nothing is a 204.
Resolved204(r) == Preview(req) /\ r.status # 204 /\ r.target = "none" /\ r.icap = <<>>

\* The handler looks at the context again and throws the response away.
Post ==
    /\ pc = "post" /\ pc' = "respond"
    /\ resp' = IF ctx = "ended" THEN ErrorResponse
               ELSE IF Resolved204(resp) THEN Response(204, "none", <<>>, -1) ELSE resp
    /\ IF ctx = "ended" THEN dropped' = held /\ held' = {} ELSE UNCHANGED <<dropped, held>>
    /\ UNCHANGED <<req, tmpl, now, io, reading, ctx, todo, src, edited, opened, writing, closing>>

\* The deadline of the request, or the server's shutdown.
CtxEnds ==
    /\ ctx = "live" /\ pc \notin {"preview", "body", "close", "next", "over"}
    /\ ctx' = "ended"
    /\ UNCHANGED <<req, tmpl, now, pc, io, reading, resp, todo, src, edited, opened, held, dropped, writing, closing>>

-----------------------------------------------------------------------------
(* What writing a response does, one operation after the other *)

Op(op, toks, n) == [op |-> op, toks |-> toks, n |-> n]
Put(toks)  == Op("put", toks, 0)
Flush      == Op("flush", <<>>, 0)
Bytes(kind, data) == [i \in DOMAIN data |-> <<kind, data[i]>>]

\* writeChunk: a chunk waits for its time and is flushed on its own.
ChunkOps(plan, i) ==
    <<Op("wait", <<>>, i), Put(<<<<"size", ChunkSize(plan, i)>>>>), Op("data", <<>>, ChunkSize(plan, i)),
      Put(<<<<"crlf", 0>>>>), Flush>>

\* deliver: a FIN ends without the last chunk.
StreamOps(plan) ==
    <<Op("open", <<>>, 0)>> \o FlattenSeq([i \in 1..plan.count |-> ChunkOps(plan, i - 1)])
    \o <<Op("verify", <<>>, 0), Op("release", <<>>, 0)>>
    \o IF plan.mode = "fin" THEN <<>> ELSE <<Put(<<<<"zero", 0>>>>), Flush>>

\* WriteChunkedBody
BodyOps(body) ==
    IF body = <<>> THEN <<>>
    ELSE <<Put(<<<<"size", Len(body)>>>>), Put(Bytes("byte", body)), Put(<<<<"crlf", 0>>>>), Put(<<<<"zero", 0>>>>)>>

\* writeResponseParts; a body of the ICAP response itself is written as it is.
ResponseOps(r) ==
    <<Put(<<<<"head", r.status>>>>)>>
    \o (IF r.target = "none" THEN <<>>
        ELSE <<Put(<<<<"msg", r.length>>>>)>> \o (IF r.stream THEN StreamOps(r.plan) ELSE BodyOps(r.body)))
    \o (IF r.icap = <<>> THEN <<>> ELSE <<Put(Bytes("raw", r.icap))>>)
    \o <<Flush>>

Respond ==
    /\ pc = "respond" /\ pc' = "write" /\ todo' = ResponseOps(resp)
    /\ UNCHANGED <<req, tmpl, now, io, reading, ctx, resp, src, edited, opened, held, dropped, writing, closing>>

-----------------------------------------------------------------------------
(* Writing it *)

At(op) == pc = "write" /\ io = "none" /\ todo # <<>> /\ Head(todo).op = op

\* A write error aborts the connection.
WriteFails ==
    /\ Leave("abort")
    /\ UNCHANGED <<req, tmpl, now, reading, ctx, resp, src, edited, opened, dropped>>

Refused == ctx = "ended" \/ wclosed

\* One operation done in memory.
Done(rest) ==
    /\ todo' = rest
    /\ UNCHANGED <<req, tmpl, now, pc, io, reading, ctx, resp, edited, dropped, net, after, sent, closing>>

\* bufferedWriter.Write: what does not fit is written after the buffer was flushed.
WritePut ==
    /\ At("put")
    /\ LET toks == Head(todo).toks
       IN  IF Refused THEN WriteFails /\ UNCHANGED writing
           ELSE IF Len(wbuf) + Len(toks) <= BufferSize
           THEN wbuf' = wbuf \o toks /\ Done(Tail(todo)) /\ UNCHANGED <<src, opened, held>>
           ELSE /\ io' = "out" /\ net' = wbuf /\ after' = toks
                /\ UNCHANGED <<req, tmpl, now, pc, reading, serving, wbuf, sent, closing>>

WriteFlush ==
    /\ At("flush")
    /\ IF Refused THEN WriteFails /\ UNCHANGED writing
       ELSE IF wbuf = <<>> THEN Done(Tail(todo)) /\ UNCHANGED <<src, opened, held, wbuf>>
       ELSE /\ io' = "out" /\ net' = wbuf /\ after' = <<>>
            /\ UNCHANGED <<req, tmpl, now, pc, reading, serving, wbuf, sent, closing>>

\* The socket took it all; a write as large as the buffer goes to the socket itself.
NetDone ==
    /\ io = "out" /\ sock = "open" /\ sent' = sent \o net
    /\ IF Len(after) >= BufferSize
       THEN net' = after /\ after' = <<>> /\ wbuf' = <<>> /\ UNCHANGED <<pc, io, todo>>
       ELSE /\ net' = <<>> /\ after' = <<>> /\ wbuf' = after /\ io' = "none"
            /\ IF pc = "continue" THEN pc' = "rest" /\ UNCHANGED todo
               ELSE todo' = Tail(todo) /\ UNCHANGED pc
    /\ UNCHANGED <<req, tmpl, now, wire, msgs, ctx, resp, src, edited, opened, held, dropped, closing>>
    /\ UNCHANGED got

\* The deadline, the peer or a closed socket; part of it may have arrived.
NetFails ==
    /\ io = "out"
    /\ \E n \in 0..Len(net) : sent' = sent \o SubSeq(net, 1, n)
    /\ net' = <<>> /\ after' = <<>> /\ wbuf' = <<>>
    /\ IF pc = "continue"
       THEN ProcessFails /\ UNCHANGED <<req, tmpl, now, reading, ctx, src, edited, opened, dropped>>
       ELSE WriteFails

\* The time of the stream starts.
Open ==
    /\ At("open")
    /\ IF ctx = "ended" THEN WriteFails /\ UNCHANGED writing
       ELSE opened' = TRUE /\ Done(Tail(todo)) /\ UNCHANGED <<src, held, wbuf>>

DeadlinePassed == Partial(resp.plan.mode) /\ resp.plan.duration > 0 /\ now >= resp.plan.duration

\* The chunks that remain are not written, and the end of the source is not looked for.
Stopped == SubSeq(todo, CHOOSE i \in DOMAIN todo : todo[i].op = "release", Len(todo))

Wait ==
    /\ At("wait")
    /\ IF ctx = "ended" THEN WriteFails /\ UNCHANGED writing
       ELSE /\ Done(IF DeadlinePassed THEN Stopped ELSE <<[Head(todo) EXCEPT !.op = "sleep"]>> \o Tail(todo))
            /\ UNCHANGED <<src, opened, held, wbuf>>

Sleep ==
    /\ At("sleep")
    /\ LET offset == ChunkOffset(resp.plan, Head(todo).n)
       IN  \/ /\ ctx = "ended" /\ now < offset
              /\ WriteFails /\ UNCHANGED writing
           \/ /\ now >= offset
              /\ Done(IF DeadlinePassed /\ offset < resp.plan.duration THEN Stopped ELSE Tail(todo))
              /\ UNCHANGED <<src, opened, held, wbuf>>

\* n bytes further: a reader that ran into the next piece does not come back.
Remaining(n) ==
    LET before(i) == Len(PiecesBytes(SubSeq(src, 1, i - 1)))
        at == CHOOSE i \in DOMAIN src : (i = Len(src) \/ before(i + 1) >= n)
                                        /\ \A j \in 1..i - 1 : before(j + 1) < n
    IN  [i \in 1..Len(src) - at + 1 |->
            IF i = 1 THEN [src[at] EXCEPT !.data = SubSeq(@, n - before(at) + 1, Len(@))] ELSE src[i + at - 1]]

\* writeChunkData: a source that is short is written as far as it goes, then fails.
Data ==
    /\ At("data")
    /\ LET n == Head(todo).n
           read == SubSeq(PiecesBytes(src), 1, LeastOf(n, Len(PiecesBytes(src))))
       IN  /\ src' = Remaining(n)
           /\ Done((IF read = <<>> THEN <<>> ELSE <<Put(Bytes("byte", read))>>)
                   \o (IF Len(read) < n THEN <<Op("fail", <<>>, 0)>> ELSE Tail(todo)))
    /\ UNCHANGED <<opened, held, wbuf>>

\* Mutant: the end of the source is never looked for.
VerifyNever == At("verify") /\ Done(Tail(todo)) /\ UNCHANGED <<src, opened, held, wbuf>>

\* verifyCompletedSource
Verify ==
    /\ At("verify")
    /\ IF resp.plan.bytes = resp.plan.source /\ (ctx = "ended" \/ PiecesBytes(src) # <<>>)
       THEN WriteFails /\ UNCHANGED writing
       ELSE Done(Tail(todo)) /\ UNCHANGED <<src, opened, held, wbuf>>

SourceShort == At("fail") /\ WriteFails /\ UNCHANGED writing

CloseReader ==
    /\ At("release") /\ held' = {}
    /\ Done(Tail(todo)) /\ UNCHANGED <<src, opened, wbuf>>

\* The response is written: the connection is closed or waits for the next request.
Written ==
    /\ pc = "write" /\ io = "none" /\ todo = <<>>
    /\ IF resp.close \/ req.close \/ Preview(req) THEN Leave("close")
       ELSE pc' = "next" /\ io' = "none" /\ held' = {} /\ UNCHANGED <<todo, closing>>
    /\ UNCHANGED <<req, tmpl, now, reading, ctx, resp, src, edited, opened, dropped, writing>>

Tick ==
    /\ opened /\ pc = "write" /\ now < MaxTime /\ resp.plan.duration + resp.plan.every > 0
    /\ now' = now + 1
    /\ UNCHANGED <<req, tmpl, pc, io, reading, serving, writing, closing>>

\* Other processes write to an open file as often as they like: it grows by a byte, loses its
\* last one, or has another byte where one is still to be read.
FileChanges ==
    /\ edited.append + edited.truncate + edited.overwrite < MaxEdits
    /\ \E i \in DOMAIN src :
          /\ src[i].file \in held
          /\ \/ /\ src' = [src EXCEPT ![i].data = Append(@, 99)]
                /\ edited' = [edited EXCEPT !.append = @ + 1]
             \/ /\ src[i].data # <<>> /\ src' = [src EXCEPT ![i].data = Front(@)]
                /\ edited' = [edited EXCEPT !.truncate = @ + 1]
             \/ /\ \E j \in DOMAIN src[i].data : src' = [src EXCEPT ![i].data = [@ EXCEPT ![j] = 99]]
                /\ edited' = [edited EXCEPT !.overwrite = @ + 1]
    /\ UNCHANGED <<req, tmpl, now, pc, io, reading, ctx, resp, todo, opened, held, dropped, writing, closing>>

-----------------------------------------------------------------------------
(* Closing the connection *)

Step(c, at) == closer' = [closer EXCEPT ![c].at = at]
handling == <<req, tmpl, now, pc, io, reading, serving>>

\* The forced stop of the server aborts the connection.
StopBegins ==
    /\ closer["stop"].at = "idle"
    /\ closer' = [closer EXCEPT !["stop"] = [mode |-> "abort", at |-> "socket"]]
    /\ UNCHANGED <<handling, writing, sock, wclosed, rclosed, returned, once>>

\* Mutant: Abort closes the socket under the writer's lock.
CloseSocketLocked(c) ==
    /\ closer[c].at = "socket" /\ io # "out" /\ sock' = "closed"
    /\ Step(c, IF closer[c].mode = "abort" THEN "once" ELSE "reader")
    /\ UNCHANGED <<handling, writing, wclosed, rclosed, returned, once>>

\* Abort closes the socket before it waits for anything.
CloseSocket(c) ==
    /\ closer[c].at = "socket" /\ sock' = "closed"
    /\ Step(c, IF closer[c].mode = "abort" THEN "once" ELSE "reader")
    /\ UNCHANGED <<handling, writing, wclosed, rclosed, returned, once>>

\* once.Do: the first runs it, the second waits for it.
EnterOnce(c) ==
    /\ closer[c].at = "once" /\ once # "busy"
    /\ IF once = "free" THEN once' = "busy" /\ Step(c, "writer") ELSE Step(c, "done") /\ UNCHANGED once
    /\ UNCHANGED <<handling, writing, sock, wclosed, rclosed, returned>>

\* Mutant: the buffer is returned without the writer's lock.
CloseWriterUnlocked(c) ==
    /\ closer[c].at = "writer"
    /\ wclosed' = TRUE /\ wbuf' = <<>>
    /\ returned' = IF wclosed THEN returned ELSE [returned EXCEPT !.writer = @ + 1]
    /\ Step(c, IF closer[c].mode = "abort" THEN "reader" ELSE "socket")
    /\ UNCHANGED <<handling, net, after, sent, sock, rclosed, once>>

\* closeDiscard, or close: the writer's buffer goes back to the pool; close has nothing left
\* to flush, which NothingLeftToFlush states.
CloseWriter(c) ==
    /\ closer[c].at = "writer" /\ io # "out"
    /\ wclosed' = TRUE /\ wbuf' = <<>>
    /\ returned' = IF wclosed THEN returned ELSE [returned EXCEPT !.writer = @ + 1]
    /\ Step(c, IF closer[c].mode = "abort" THEN "reader" ELSE "socket")
    /\ UNCHANGED <<handling, net, after, sent, sock, rclosed, once>>

CloseReaderBuffer(c) ==
    /\ closer[c].at = "reader" /\ io # "in"
    /\ rclosed' = TRUE /\ returned' = IF rclosed THEN returned ELSE [returned EXCEPT !.reader = @ + 1]
    /\ once' = "done" /\ Step(c, "done")
    /\ UNCHANGED <<handling, writing, sock, wclosed>>

Over ==
    /\ pc = "close" /\ closer["handler"].at = "done" /\ pc' = "over"
    /\ UNCHANGED <<req, tmpl, now, io, reading, serving, writing, closing>>

\* Nothing is left to do.
Finished == pc = "over" /\ closer["stop"].at \in {"idle", "done"} /\ UNCHANGED vars

Handle ==
    \/ ReadBegins \/ ReadToken \/ Serve \/ Continue \/ DelayCancelled \/ Build \/ Post \/ Respond
    \/ WritePut \/ WriteFlush \/ Open \/ Wait \/ Sleep \/ Data \/ Verify \/ SourceShort \/ CloseReader
    \/ Written \/ Over

Close(c) == CloseSocket(c) \/ EnterOnce(c) \/ CloseWriter(c) \/ CloseReaderBuffer(c)

Environment == ReadFails \/ NetDone \/ NetFails \/ CtxEnds \/ Tick \/ FileChanges \/ StopBegins

Next == Handle \/ Environment \/ (\E c \in Closers : Close(c)) \/ Finished

Spec == Init /\ [][Next]_vars

\* Goroutines run and time passes; a socket operation returns once the socket is closed.
FairSpec ==
    /\ Spec /\ WF_vars(Handle) /\ WF_vars(Tick)
    /\ WF_vars(sock = "closed" /\ (ReadFails \/ NetFails))
    /\ \A c \in Closers : WF_vars(Close(c))

-----------------------------------------------------------------------------
(* Properties *)

TypeOK ==
    /\ pc \in {"preview", "body", "rest", "serve", "continue", "delay", "post", "respond", "write",
               "close", "next", "over"}
    /\ io \in {"none", "in", "out"} /\ ctx \in {"live", "ended"}
    /\ Len(wbuf) <= BufferSize /\ ~TooLarge(Len(got))
    /\ once \in {"free", "busy", "done"} /\ now \in 0..MaxTime
    /\ \A c \in Closers : closer[c].at \in {"idle", "socket", "once", "writer", "reader", "done"}

\* What a client finds in the tokens it received.
Positions(toks, kind) == {i \in DOMAIN toks : toks[i][1] = kind}
AtMostOnce(toks, kind) == \A i, j \in Positions(toks, kind) : i = j
Payload(toks) == FlattenSeq([i \in DOMAIN toks |-> IF toks[i][1] = "byte" THEN <<toks[i][2]>> ELSE <<>>])
Terminated == Positions(sent, "zero") # {}

\* A size is not zero, which would end the body, and is followed by as many bytes and a CRLF,
\* as far as the client received them.
WellFramed(toks) ==
    \A i \in Positions(toks, "size") :
        /\ toks[i][2] > 0 /\ \A k \in i + 1..LeastOf(i + toks[i][2], Len(toks)) : toks[k][1] = "byte"
        /\ i + toks[i][2] < Len(toks) => toks[i + toks[i][2] + 1][1] = "crlf"

\* The client's body, when the client ended it and the scenario puts nothing in its place.
ClientBody == PiecesBytes(req.now \o req.later)
ClientEnded == \A tok \in ToSet(req.now \o req.later) : tok.kind \in {"chunk", "zero", "ieof"}
Unmodified ==
    /\ resp.status # 500 /\ ~resp.stream /\ resp.target = OnTheWire(req) /\ tmpl # <<>> /\ ClientEnded
    /\ tmpl[1].base.httpBody = <<>> /\ tmpl[1].base.httpFile = "" /\ tmpl[1].base.httpStatus = 0

\* The bytes a terminated body must hold.  The delivery counts the bytes of its files and does
\* not look at them: a whole body has its length whatever happens to the files, and its bytes
\* unless one was overwritten or both lost bytes and grew.
Declared(data) ==
    IF resp.stream
    THEN LET whole == PiecesBytes(resp.pieces)
         IN  IF resp.plan.mode = "complete"
             THEN /\ Len(data) = Len(whole)
                  /\ edited.overwrite = 0 /\ (edited.append = 0 \/ edited.truncate = 0) => data = whole
             ELSE /\ edited = NoEdits => IsPrefix(data, whole)
                  /\ resp.plan.duration = 0 => Len(data) = resp.plan.bytes
    ELSE data = resp.body /\ (Unmodified => data = ClientBody)

\* The last token of a response that has no body of its own behind the HTTP message: where the
\* client knows that the response is over.
Boundary ==
    IF resp.target = "none" THEN "head" ELSE IF resp.stream \/ resp.body # <<>> THEN "zero" ELSE "msg"

\* What the client decodes is what the response declares: chunks are framed to their size
\* whatever was written in between; a body that is terminated is whole, although the client's
\* body came in two halves around a preview, and although files grow or shrink while they are
\* delivered; and on a connection that is kept the body is terminated and a response without an
\* ICAP body of its own ends where the client knows that it does.  An ICAP body is written
\* without framing behind the message, where no client can find its end
\* (streaming.go writeChunks and verifySourceEnd, lifecycle.go previewContinuationReader,
\* response.go BuildEncapsulatedHeader, response_write.go writeICAPBodyDirect).
DeliveredAsDeclared ==
    /\ WellFramed(sent) /\ AtMostOnce(sent, "head") /\ AtMostOnce(sent, "continue")
    /\ Terminated => Declared(Payload(sent))
    /\ pc = "next" => /\ Positions(sent, "head") # {} /\ wbuf = <<>>
                      /\ resp.target # "none" /\ (resp.stream \/ resp.body # <<>>) => Terminated
                      /\ resp.icap = <<>> => Last(sent)[1] = Boundary

NothingLeftToFlush == \A c \in Closers : closer[c].mode = "close" /\ closer[c].at = "writer" => wbuf = <<>>

\* Close, Abort and the handler's own reads and writes run in any order, yet each pooled buffer
\* goes back to its pool once, never while a read or a write uses it, and when the handler is
\* gone the socket is closed, the buffers are back and the files of the response it held are
\* closed; no byte of a response is left to Close, which would wait for the client
\* (connection.go Close, Abort and close, release.go ReleaseBodies).
ResourcesReturned ==
    /\ NothingLeftToFlush
    /\ returned.reader <= 1 /\ returned.writer <= 1
    /\ io = "in" => returned.reader = 0
    /\ io = "out" => returned.writer = 0
    /\ pc = "over" => sock = "closed" /\ returned = [reader |-> 1, writer |-> 1] /\ held = {}

\* A forced stop ends: whatever the handler is blocked in, and whoever came first to close the
\* connection, Abort returns and the handler leaves (connection.go Abort closes the socket first).
ForcedStopEnds == closer["stop"].at # "idle" ~> (closer["stop"].at = "done" /\ pc = "over")
=============================================================================
