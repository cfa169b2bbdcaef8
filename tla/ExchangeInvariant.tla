-------------------------- MODULE ExchangeInvariant --------------------------
(***************************************************************************)
(* The inductive invariants of Exchange that Exchange_proofs establishes:  *)
(* what the handler and the closers hold of the connection, and how far    *)
(* the delivery of a response has come.                                    *)
(***************************************************************************)
EXTENDS Exchange

-----------------------------------------------------------------------------
(* The inductive invariant *)

Token == {"continue", "head", "msg", "size", "byte", "crlf", "zero", "raw"} \X Int
OpRecord ==
    [op : {"put", "flush", "open", "wait", "sleep", "data", "verify", "release", "fail"},
     toks : Seq(Token), n : Nat]
PieceRecord == [file : STRING \cup {""}, data : Seq(Int)]
Pieces == Seq(PieceRecord)
Modes == {"complete", "fin", "term"}
Plan == [mode : Modes, source : Nat, bytes : Nat, duration : Nat, every : Nat, count : Nat]
ResponseRecord ==
    [ok : BOOLEAN, status : Int, target : {"none", "req", "res"}, body : Seq(Int), length : Int, stream : BOOLEAN,
     pieces : Pieces, plan : Plan, opened : SUBSET STRING, icap : Seq(Int), close : BOOLEAN]
Messages(m) ==
    /\ DOMAIN m \subseteq {"req", "res"} /\ m = [name \in DOMAIN m |-> m[name]]
    /\ \A name \in DOMAIN m : m[name] \in Message

\* The request and its messages.
Receiving ==
    /\ req \in Request
    /\ wire \in [now : Seq(ClientToken), later : Seq(ClientToken)]
    /\ got \in Seq(Int) /\ ~TooLarge(Len(got))
    /\ Messages(msgs)

\* The scenario matched; once its response is selected there is one template.
Selecting ==
    /\ pc \in {"preview", "body", "serve"} => tmpl \in Templates
    /\ pc \in {"continue", "rest", "delay"} => tmpl # <<>> /\ tmpl[1].base \in Template

\* A response can be written: what is streamed has a plan, and a source when the plan has chunks.
Answering ==
    /\ resp \in ResponseRecord /\ src \in Pieces
    /\ resp.stream /\ resp.plan.count > 0 => src # <<>>

Dataless(q) == \A i \in DOMAIN q : q[i].op # "data"
Waitless(q) == \A i \in DOMAIN q : q[i].op \notin {"wait", "sleep"}
Releases(q) ==
    \A i \in DOMAIN q :
        q[i].op \in {"wait", "sleep"} => \E j \in DOMAIN q : i < j /\ q[j].op = "release"
Ends(q) == q # <<>> => Last(q).op \in {"flush", "fail"}

\* What is still to be written ends with a flush or fails, and the source of the chunks that
\* are still to come is there and is released after them.
Writing ==
    /\ todo \in Seq(OpRecord) /\ Ends(todo) /\ Releases(todo)
    /\ pc # "write" => todo = <<>>
    /\ Dataless(todo) \/ src # <<>>

\* The writer's buffer, and what the socket operation in progress is for.
Buffering ==
    /\ wbuf \in Seq(Token) /\ Len(wbuf) <= BufferSize /\ after \in Seq(Token)
    /\ io = "in" => pc \in {"preview", "body", "rest", "next"}
    /\ io = "out" => \/ pc = "continue" /\ after = <<>>
                     \/ /\ pc = "write" /\ todo # <<>>
                        /\ \/ Head(todo).op = "put"
                           \/ Head(todo).op = "flush" /\ after = <<>>
    /\ (pc \notin {"write", "close", "over"} \/ (pc = "write" /\ todo = <<>>)) => wbuf = <<>>

\* The closers: who is inside once.Do, and what has been done by then.
Inside(c) ==
    closer[c].at \in {"writer", "reader"} \/ (closer[c].mode = "close" /\ closer[c].at = "socket")
PastWriter(c) == Inside(c) /\ closer[c].at # "writer"

Closed ==
    /\ closer \in [Closers -> [mode : {"none", "close", "abort"},
                               at : {"idle", "socket", "once", "writer", "reader", "done"}]]
    /\ \A c \in Closers :
          /\ closer[c].mode = "none" <=> closer[c].at = "idle"
          /\ closer[c].mode = "abort" /\ closer[c].at # "socket" => sock = "closed"
          /\ closer[c].mode = "close" /\ closer[c].at = "reader" => sock = "closed"
          /\ closer[c].at = "done" => once = "done"
          /\ Inside(c) => once = "busy" /\ \A d \in Closers : Inside(d) => d = c
    /\ once \in {"free", "busy", "done"} /\ (once = "done" => sock = "closed")
    /\ once = "busy" => \E c \in Closers : Inside(c)
    /\ wclosed \in BOOLEAN /\ (wclosed <=> once = "done" \/ \E c \in Closers : PastWriter(c))
    /\ rclosed = (once = "done")
    /\ returned = [reader |-> IF rclosed THEN 1 ELSE 0, writer |-> IF wclosed THEN 1 ELSE 0]

\* How the handler and the closers meet: the handler closes when it has left, and only a
\* failed write leaves anything in the buffer; a buffer in use is not closed.
Meeting ==
    /\ pc \in {"preview", "body", "rest", "serve", "continue", "delay", "post", "respond", "write",
               "close", "next", "over"}
    /\ io \in {"none", "in", "out"} /\ ctx \in {"live", "ended"} /\ now \in 0..MaxTime
    /\ closer["stop"].mode # "close"
    /\ closer["handler"].mode = "none" <=> pc \notin {"close", "over"}
    /\ closer["handler"].mode = "close" => wbuf = <<>>
    /\ pc = "over" => closer["handler"].at = "done"
    /\ pc \in {"close", "over"} => held = {}
    /\ io = "in" => ~rclosed
    /\ io = "out" => ~wclosed

IndInv == Receiving /\ Selecting /\ Answering /\ Writing /\ Buffering /\ Closed /\ Meeting

-----------------------------------------------------------------------------
(* The invariant of the delivery *)

\* What the client has received or will receive of what was written so far, and the operation
\* of the response that comes next.
Ops == ResponseOps(resp)
Committed == IF io = "out" THEN (sent \o net) \o after ELSE sent \o wbuf
Place == Len(Ops) - Len(todo) + 1
Reached == IF io = "out" THEN Place + 1 ELSE Place

\* What an operation writes, and the bytes of the current chunk that are missing before it;
\* -1 when it is not inside a chunk.
KindOf(x) == IF x.op = "put" THEN x.toks[1][1] ELSE x.op
Debt(x) == IF KindOf(x) = "data" THEN x.n ELSE IF KindOf(x) = "byte" THEN Len(x.toks)
           ELSE IF KindOf(x) = "crlf" THEN 0 ELSE -1
DebtAt(q, e) == IF e \in DOMAIN q THEN Debt(q[e]) ELSE -1

\* Every chunk is whole, except that the last one may have m bytes to come.
Framed(toks, m) ==
    \A i \in Positions(toks, "size") :
        /\ toks[i][2] > 0
        /\ \/ /\ i + toks[i][2] < Len(toks) /\ toks[i + toks[i][2] + 1][1] = "crlf"
              /\ \A k \in i + 1..i + toks[i][2] : toks[k][1] = "byte"
           \/ /\ m >= 0 /\ i + toks[i][2] = Len(toks) + m
              /\ \A k \in i + 1..Len(toks) : toks[k][1] = "byte"

LastZero(toks) == \A i \in Positions(toks, "zero"), j \in Positions(toks, "byte") : j < i

\* A client that received any part of it is told nothing wrong.
Fine(toks, m) ==
    /\ Framed(toks, m) /\ AtMostOnce(toks, "head") /\ AtMostOnce(toks, "continue") /\ LastZero(toks)
    /\ Positions(toks, "zero") # {} => Declared(Payload(toks))

Sound(toks) ==
    /\ WellFramed(toks) /\ AtMostOnce(toks, "head") /\ AtMostOnce(toks, "continue")
    /\ Positions(toks, "zero") # {} => Declared(Payload(toks))

EditCounts == [append : Nat, truncate : Nat, overwrite : Nat]

\* What was drawn from the source and what is left of it: together the whole, and as long as it
\* but for the bytes that files gained and lost.
Drawn(data) ==
    LET whole == PiecesBytes(resp.pieces)
    IN  /\ edited = NoEdits => data \o PiecesBytes(src) = whole
        /\ Len(data) + Len(PiecesBytes(src)) + edited.truncate = Len(whole) + edited.append

\* The bytes before chunk i, and the place of the operation that looks for the end of the source.
BytesBefore(plan, i) == i * (plan.bytes \div plan.count) + LeastOf(i, plan.bytes % plan.count)
VerifyPlace == 4 + 5 * resp.plan.count

\* The bytes of the payload before place e.
Counted(plan, n, e) ==
    /\ e <= 3 => n = 0
    /\ \A i \in 0..plan.count - 1 :
          /\ e \in 4 + 5 * i..6 + 5 * i => n = BytesBefore(plan, i)
          /\ e \in 7 + 5 * i..8 + 5 * i => n = BytesBefore(plan, i + 1)
    /\ e = 4 + 5 * plan.count => n = plan.bytes

\* The payload written before place e; data was read and is about to be written.
Accounted(toks, e, data) ==
    IF resp.stream
    THEN /\ Counted(resp.plan, Len(Payload(toks)), e)
         /\ e <= VerifyPlace => Drawn(Payload(toks) \o data)
         /\ e > VerifyPlace => Declared(Payload(toks))
    ELSE /\ e <= 4 => Payload(toks) = <<>>
         /\ e > 4 /\ resp.body # <<>> /\ resp.target # "none" => Payload(toks) = resp.body

\* The response has begun once its head was written, and ends with its last chunk.
Passed(q, toks, e) ==
    /\ (e > 1) = (Positions(toks, "head") # {})
    /\ \A k \in DOMAIN q : KindOf(q[k]) = "zero" /\ k < e => Positions(toks, "zero") # {}
    /\ Positions(toks, "zero") # {} =>
          \A k \in DOMAIN q : k >= e => KindOf(q[k]) \notin {"zero", "data", "byte"}

\* The last token is that of the operation that wrote last, when that is one a response can end with.
Latest(q, toks, e) ==
    \A k \in DOMAIN q :
        /\ k < e /\ KindOf(q[k]) \in {"head", "msg", "zero"}
        /\ \A j \in k + 1..e - 1 : q[j].op \notin {"put", "data"}
        => Last(toks)[1] = KindOf(q[k])

Course(toks, e, data) ==
    Fine(toks, DebtAt(Ops, e)) /\ Passed(Ops, toks, e) /\ Latest(Ops, toks, e) /\ Accounted(toks, e, data)

\* The first operation may have been begun: a chunk sleeps, or its bytes have been read.
Begun(x, y) ==
    \/ x = y
    \/ y.op = "wait" /\ x = [y EXCEPT !.op = "sleep"]
    \/ y.op = "data" /\ x.op = "put" /\ Len(x.toks) = y.n /\ \A i \in DOMAIN x.toks : x.toks[i][1] = "byte"

Aligned ==
    /\ Len(todo) <= Len(Ops)
    /\ \A j \in 2..Len(todo) : todo[j] = Ops[Place + j - 1]
    /\ todo # <<>> => Begun(todo[1], Ops[Place])

Pending ==
    IF io # "out" /\ todo # <<>> /\ Ops[Place].op = "data" /\ todo[1].op = "put" THEN Payload(todo[1].toks) ELSE <<>>

OnCourse == Aligned /\ Course(Committed, Reached, Pending)

\* The source was short: its last bytes are written and the connection is aborted.
Lame ==
    /\ todo # <<>> /\ Last(todo).op = "fail" /\ Len(todo) <= 2
    /\ Positions(Committed, "zero") = {}
    /\ \E m \in Nat :
          /\ Fine(Committed, m)
          /\ Len(todo) = 2 /\ io # "out" =>
                /\ todo[1].op = "put" /\ Len(todo[1].toks) <= m
                /\ \A i \in DOMAIN todo[1].toks : todo[1].toks[i][1] = "byte"

\* A response that can be delivered.
Fitting(r) ==
    r.stream =>
        /\ r.target # "none" /\ r.plan.source = Len(PiecesBytes(r.pieces)) /\ r.plan.bytes <= r.plan.source
        /\ r.plan.mode = "complete" => r.plan.bytes = r.plan.source
        /\ r.plan.count <= r.plan.bytes /\ (r.plan.bytes > 0 => r.plan.count > 0)
        /\ r.plan.mode = "fin" => r.close

\* What is still to be read of the client's body.
Unread ==
    /\ got \o (PiecesBytes(wire.now) \o PiecesBytes(wire.later)) = ClientBody /\ wire.later = req.later
    /\ Delimited(wire.now) /\ (wire.now # <<>> => Last(wire.now) = Last(req.now))

\* A body that passes through is the client's.
Echoed ==
    /\ req \in Requests /\ DOMAIN msgs = Parsed(req) /\ Fitting(resp)
    /\ resp.body # <<>> /\ Unmodified => resp.body = ClientBody
    /\ OnTheWire(req) \in Parsed(req) => msgs[OnTheWire(req)].data \in {<<>>, ClientBody}
    /\ pc = "body" => ~Preview(req) /\ Unread
    /\ pc = "preview" => Preview(req) /\ Adapted(req) \in Parsed(req) /\ Unread
    /\ pc \in {"continue", "rest"} \/ (pc = "serve" /\ Live(Adapted(req), Query)) =>
          got \o PiecesBytes(wire.later) = ClientBody /\ Delimited(wire.later)

Announced == <<<<"continue", 100>>>>

\* Before the response, 100 Continue may have been sent.
Announcing ==
    /\ pc \in {"preview", "body", "serve", "continue"} => sent = <<>>
    /\ pc \in {"rest", "delay", "post", "respond"} => sent \in {<<>>, Announced}
    /\ pc = "continue" /\ io = "out" => net = Announced

\* No file is open before the response is built; its source is whole when it is.
Sourcing ==
    /\ edited \in EditCounts
    /\ pc \in {"preview", "body", "serve", "continue", "rest", "delay"} => src = <<>> /\ edited = NoEdits
    /\ pc \in {"post", "respond"} /\ resp.stream => Drawn(<<>>)

\* A response that can still be written is on course.
Travelling == pc = "write" /\ (~wclosed \/ todo = <<>>) => OnCourse \/ Lame

\* What arrived is sound, and whole when the connection is kept.
Arriving ==
    /\ pc \in {"write", "close", "next", "over"} => Sound(sent)
    /\ pc = "next" => /\ Positions(sent, "head") # {}
                      /\ resp.target # "none" /\ (resp.stream \/ resp.body # <<>>) => Terminated
                      /\ resp.icap = <<>> => Last(sent)[1] = Boundary

Delivering == sent \in Seq(Token) /\ net \in Seq(Token) /\ Announcing /\ Sourcing /\ Travelling /\ Arriving


\* Where the operations of a response are: a chunk takes five places.
Trailer(r, x) == x = Flush \/ (r.icap # <<>> /\ x = Put(Bytes("raw", r.icap)))

ChunkLaid(q, plan, i) ==
    /\ q[4 + 5 * i] = Op("wait", <<>>, i) /\ q[5 + 5 * i] = Put(<<<<"size", ChunkSize(plan, i)>>>>)
    /\ q[6 + 5 * i] = Op("data", <<>>, ChunkSize(plan, i)) /\ q[7 + 5 * i] = Put(<<<<"crlf", 0>>>>)
    /\ q[8 + 5 * i] = Flush

StreamLaid(q, r) ==
    /\ q[2] = Put(<<<<"msg", r.length>>>>) /\ q[3] = Op("open", <<>>, 0)
    /\ \A i \in 0..r.plan.count - 1 : ChunkLaid(q, r.plan, i)
    /\ q[4 + 5 * r.plan.count] = Op("verify", <<>>, 0) /\ q[5 + 5 * r.plan.count] = Op("release", <<>>, 0)
    /\ Len(q) >= 6 + 5 * r.plan.count
    /\ r.plan.mode = "fin" => \A k \in DOMAIN q : k > 5 + 5 * r.plan.count => Trailer(r, q[k])
    /\ r.plan.mode # "fin" =>
          /\ Len(q) >= 8 + 5 * r.plan.count
          /\ q[6 + 5 * r.plan.count] = Put(<<<<"zero", 0>>>>) /\ q[7 + 5 * r.plan.count] = Flush
          /\ \A k \in DOMAIN q : k > 7 + 5 * r.plan.count => Trailer(r, q[k])

BodyLaid(q, r) ==
    /\ q[2] = Put(<<<<"msg", r.length>>>>) /\ q[3] = Put(<<<<"size", Len(r.body)>>>>)
    /\ q[4] = Put(Bytes("byte", r.body)) /\ q[5] = Put(<<<<"crlf", 0>>>>) /\ q[6] = Put(<<<<"zero", 0>>>>)
    /\ Len(q) >= 7 /\ \A k \in DOMAIN q : k > 6 => Trailer(r, q[k])

BareLaid(q, r) ==
    \A k \in DOMAIN q : k > 1 =>
        IF k = 2 /\ r.target # "none" THEN q[k] = Put(<<<<"msg", r.length>>>>) ELSE Trailer(r, q[k])

Laid(q, r) ==
    /\ q \in Seq(OpRecord) /\ Len(q) >= 2 /\ q[1] = Put(<<<<"head", r.status>>>>)
    /\ IF r.target # "none" /\ r.stream THEN StreamLaid(q, r)
       ELSE IF r.target # "none" /\ r.body # <<>> THEN BodyLaid(q, r) ELSE BareLaid(q, r)

\* The order of the operations: a size is followed by its bytes and a CRLF, and nothing but the
\* end of the response by the last chunk.
Orderly(q, k) ==
    /\ q[k].op = "put" => q[k].toks # <<>> /\ \A i \in DOMAIN q[k].toks : q[k].toks[i][1] = q[k].toks[1][1]
    /\ KindOf(q[k]) \in {"head", "zero", "size", "crlf"} => Len(q[k].toks) = 1
    /\ KindOf(q[k]) \notin {"continue", "sleep", "fail"} /\ (KindOf(q[k]) = "head" => k = 1)
    /\ KindOf(q[k]) = "size" =>
          k + 1 \in DOMAIN q /\ q[k].toks[1][2] > 0 /\ Debt(q[k + 1]) = q[k].toks[1][2]
    /\ KindOf(q[k]) \in {"data", "byte"} => k + 1 \in DOMAIN q /\ KindOf(q[k + 1]) = "crlf"
    /\ KindOf(q[k]) \notin {"size", "data", "byte"} /\ k + 1 \in DOMAIN q => Debt(q[k + 1]) = -1
    /\ KindOf(q[k]) = "zero" => \A j \in DOMAIN q : j > k => KindOf(q[j]) \notin {"zero", "data", "byte"}

Grammatical(q) == q # <<>> /\ KindOf(q[1]) = "head" /\ \A k \in DOMAIN q : Orderly(q, k)
=============================================================================
