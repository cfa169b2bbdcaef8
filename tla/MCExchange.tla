----------------------------- MODULE MCExchange -----------------------------
(***************************************************************************)
(* Requests and scenarios of one exchange.  The bytes of a body begin with *)
(* the digit of their source: 1 the request, 2 the response, 3 and 4 the   *)
(* files, 5 a request body that came before the response, 6 the scenario.  *)
(***************************************************************************)
EXTENDS Exchange

Chunk(data) == [kind |-> "chunk", data |-> data]
End(kind) == [kind |-> kind, data |-> <<>>]

MCFiles == "f" :> <<31, 32>> @@ "g" :> <<41>>

Reqmod == [method |-> "REQMOD", enc |-> {"req-hdr", "req-body"}, preview |-> -1, close |-> FALSE,
           now |-> <<Chunk(<<11>>), Chunk(<<12>>), End("zero")>>, later |-> <<>>, asked |-> <<>>, cl |-> -1,
           parts |-> <<>>]
Respmod == [Reqmod EXCEPT !.method = "RESPMOD", !.enc = {"req-hdr", "req-body", "res-hdr", "res-body"},
                          !.asked = <<51>>, !.now = <<Chunk(<<21, 22>>), End("zero")>>]
Part(name, filename, data) == [name |-> name, filename |-> filename, data |-> data]

MCRequests ==
    {Reqmod,
     [Reqmod EXCEPT !.preview = 1, !.now = <<Chunk(<<11>>), End("zero")>>, !.later = <<Chunk(<<12>>), End("zero")>>],
     [Reqmod EXCEPT !.preview = 2, !.now = <<Chunk(<<11>>), End("ieof")>>],
     [Reqmod EXCEPT !.now = <<Chunk(<<11, 12, 13, 14, 15>>), End("zero")>>],
     [Reqmod EXCEPT !.enc = {"req-hdr", "null-body"}, !.now = <<>>, !.close = TRUE],
     [Reqmod EXCEPT !.enc = {"req-body"}, !.now = <<Chunk(<<11>>), End("eof")>>],
     [Reqmod EXCEPT !.now = <<Chunk(<<11, 12>>), End("zero")>>,
                    !.parts = <<Part("a", "", <<11>>), Part("b", "x", <<12>>)>>],
     [Respmod EXCEPT !.preview = 1, !.now = <<Chunk(<<21>>), End("zero")>>, !.later = <<Chunk(<<22>>), End("eof")>>],
     [Respmod EXCEPT !.preview = 0, !.now = <<End("eof")>>],
     [Respmod EXCEPT !.enc = {"res-hdr", "res-body"}, !.now = <<End("broken")>>]}

Streaming(parts, controls) == [NoStream EXCEPT !.kind = "parts", !.parts = parts, !.controls = controls]
From(from) == [from |-> from, file |-> "", bytes |-> <<>>]
File(name) == [from |-> "body_file", file |-> name, bytes |-> <<>>]
Text(bytes) == [from |-> "body", file |-> "", bytes |-> bytes]
Base(t) == <<[base |-> t, variants |-> <<>>]>>

MCTemplates ==
    {<<>>,
     Base(NoTemplate),
     Base([NoTemplate EXCEPT !.httpBody = <<61, 62, 63, 64>>, !.close = TRUE]),
     Base([NoTemplate EXCEPT !.httpStatus = 403, !.httpFile = "g", !.body = <<71>>, !.delay = 1]),
     Base([NoTemplate EXCEPT !.stream = Streaming(<<File("f")>>,
             [NoControls EXCEPT !.direct = TRUE, !.durations = {2}, !.chunks = 2, !.mode = "term"])]),
     Base([NoTemplate EXCEPT !.stream = Streaming(<<File("g"), From("adapted_http_body")>>,
             [NoControls EXCEPT !.direct = TRUE, !.sizes = {2}, !.everys = {1}])]),
     Base([NoTemplate EXCEPT !.stream = Streaming(<<File("f"), Text(<<65>>)>>,
             [NoControls EXCEPT !.finish = "weighted", !.completePercent = 50, !.legacySizes = {2}, !.finBytes = {1}])]),
     Base([NoTemplate EXCEPT !.stream = Streaming(<<From("request_http_body"), From("request_http_body")>>,
             [NoControls EXCEPT !.finish = "fin", !.legacySizes = {1}, !.legacyDurations = {2}, !.finTimes = {1}])]),
     Base([NoTemplate EXCEPT !.stream = [NoStream EXCEPT !.kind = "multipart", !.fields = {"b"},
             !.parts = <<From("adapted_http_body")>>, !.fallback = <<From("raw")>>]]),
     <<[base |-> NoTemplate,
        variants |-> <<[weight |-> 3, sets |-> [error |-> TRUE]],
                       [weight |-> 1, sets |-> [httpFile |-> "missing"]],
                       [weight |-> 0, sets |-> [status |-> 204]]>>]>>}
=============================================================================
