---------------------------- MODULE ResponseBuild ----------------------------
(***************************************************************************)
(* What MockProcessor makes of a matched response template and a request:  *)
(* the selected variant, the bodies and files it needs, and the ICAP       *)
(* response with its encapsulated message, body or stream                  *)
(* (internal/processor).  A body is the sequence of its bytes.  A request  *)
(* is [method, preview, msgs] where msgs maps the encapsulated messages    *)
(* that were parsed, "req" and "res", to [data, reader, loaded, failed,    *)
(* cl, parts]: the bytes, whether a body reader is attached, whether the   *)
(* body is in memory, whether reading it fails, the Content-Length header  *)
(* (-1: none) and, of a multipart body, its parts.  A template field that  *)
(* is not set has the value NoTemplate gives it.                           *)
(***************************************************************************)
EXTENDS StreamPlan, SequencesExt

CONSTANTS
    Files,        \* the files scenarios name: path -> contents
    BodyLimit,    \* maxStreamBodySize; 0 is no limit
    WeightUnits   \* weight.TotalUnits

ASSUME BuildAssumption ==
    /\ BodyLimit \in Nat /\ WeightUnits \in Nat \ {0}
    /\ \A f \in DOMAIN Files : Files[f] \in Seq(Int)

NoControls ==
    [direct |-> FALSE, percents |-> {}, durations |-> {}, sizes |-> {}, chunks |-> 0, everys |-> {},
     mode |-> "", finish |-> "", completePercent |-> 0, legacySizes |-> {}, legacyDelays |-> {},
     legacyDurations |-> {}, finTimes |-> {}, finBytes |-> {}]
NoStream == [kind |-> "none", parts |-> <<>>, fields |-> {}, filenames |-> {}, allowEmpty |-> FALSE,
             fallback |-> <<>>, controls |-> NoControls]
NoTemplate == [status |-> 200, httpStatus |-> 0, body |-> <<>>, httpBody |-> <<>>, httpFile |-> "",
               userLength |-> "none", stream |-> NoStream, error |-> FALSE, delay |-> 0, close |-> FALSE]

\* The values of these records: what scenarios may set, and the messages of a request.
Controls ==
    [direct : BOOLEAN, percents : SUBSET Nat, durations : SUBSET Nat, sizes : SUBSET Nat, chunks : Nat,
     everys : SUBSET Nat, mode : STRING, finish : STRING, completePercent : Nat, legacySizes : SUBSET Nat,
     legacyDelays : SUBSET Nat, legacyDurations : SUBSET Nat, finTimes : SUBSET Nat, finBytes : SUBSET Nat]
Source == [from : STRING, file : STRING, bytes : Seq(Int)]
Stream == [kind : STRING, parts : Seq(Source), fields : SUBSET STRING, filenames : SUBSET STRING,
           allowEmpty : BOOLEAN, fallback : Seq(Source), controls : Controls]
Template == [status : Int, httpStatus : Int, body : Seq(Int), httpBody : Seq(Int), httpFile : STRING,
             userLength : STRING, stream : Stream, error : BOOLEAN, delay : Nat, close : BOOLEAN]
BodyPart == [name : STRING, filename : STRING, data : Seq(Int)]
Message == [data : Seq(Int), reader : BOOLEAN, loaded : BOOLEAN, failed : BOOLEAN, cl : Int, parts : Seq(BodyPart)]

TooLarge(n) == BodyLimit > 0 /\ n > BodyLimit

-----------------------------------------------------------------------------
(* Selecting the response *)

\* selectWeightedResponseAt; the draw is 0..WeightUnits - 1, or an index if nothing is weighted.
SelectedAt(variants, draw) ==
    IF variants[1].weight = 0 THEN variants[draw + 1]
    ELSE LET upTo(i) == MapThenSumSet(LAMBDA j : variants[j].weight, 1..i)
             hits == {i \in DOMAIN variants : draw < upTo(i)}
         IN  IF hits = {} THEN Last(variants) ELSE variants[Min(hits)]

Draws(variants) == IF variants[1].weight = 0 THEN 0..Len(variants) - 1 ELSE 0..WeightUnits - 1

\* A variant holds the fields it sets; they replace those of the base.
SelectedResponses(base, variants) ==
    IF variants = <<>> THEN {base}
    ELSE {SelectedAt(variants, n).sets @@ base : n \in Draws(variants)}

-----------------------------------------------------------------------------
(* Sources *)

Adapted(q) == IF q.method = "REQMOD" THEN "req" ELSE "res"

\* canonicalRawHTTPBodySource and rawHTTPBodyMessage; "" is not a message.
MessageOf(from, q) ==
    CASE from = "request_http_body" -> "req"
      [] from = "response_http_body" -> "res"
      [] from = "adapted_http_body" -> Adapted(q)
      [] OTHER -> ""

IncomingSource(from) == from \in {"request_http_body", "response_http_body", "adapted_http_body"}

\* httpMessageBody: the header is believed before the body is read.
MessageBodyFails(name, q) ==
    \/ name \notin DOMAIN q.msgs
    \/ TooLarge(q.msgs[name].cl) \/ q.msgs[name].failed \/ TooLarge(Len(q.msgs[name].data))

SourceFails(p, q) ==
    IF IncomingSource(p.from) THEN MessageBodyFails(MessageOf(p.from, q), q)
    ELSE IF p.from = "body_file" THEN p.file \notin DOMAIN Files \/ TooLarge(Len(Files[p.file]))
    ELSE TooLarge(Len(p.bytes))

SourceBytes(p, q) ==
    IF IncomingSource(p.from) THEN q.msgs[MessageOf(p.from, q)].data
    ELSE IF p.from = "body_file" THEN Files[p.file] ELSE p.bytes

\* A source as a piece of the payload; a file is kept open until delivery.
Piece(p, q) == [file |-> IF p.from = "body_file" THEN p.file ELSE "", data |-> SourceBytes(p, q)]

Live(name, q) == name \in DOMAIN q.msgs /\ q.msgs[name].reader /\ ~q.msgs[name].loaded

RepeatsLiveBody(parts, q) ==
    \E i, j \in DOMAIN parts :
        /\ i < j /\ IncomingSource(parts[i].from)
        /\ MessageOf(parts[i].from, q) = MessageOf(parts[j].from, q)
        /\ Live(MessageOf(parts[i].from, q), q) \/ MessageOf(parts[i].from, q) \notin DOMAIN q.msgs

OpenedBy(parts) ==
    {p.file : p \in {x \in ToSet(parts) : x.from = "body_file" /\ x.file \in DOMAIN Files}}

Unresolved(opened) == [ok |-> FALSE, pieces |-> <<>>, opened |-> opened]
Resolved(pieces, opened) == [ok |-> TRUE, pieces |-> pieces, opened |-> opened]

PiecesBytes(pieces) == FlattenSeq([i \in DOMAIN pieces |-> pieces[i].data])

\* One source after the other; the first that fails ends it.
PartsPayload(parts, q) ==
    LET failing == {i \in DOMAIN parts : SourceFails(parts[i], q)}
        pieces  == [i \in DOMAIN parts |-> Piece(parts[i], q)]
    IN  IF RepeatsLiveBody(parts, q) THEN Unresolved({})
        ELSE IF failing # {} THEN Unresolved(OpenedBy(SubSeq(parts, 1, Min(failing))))
        ELSE IF TooLarge(Len(PiecesBytes(pieces))) THEN Unresolved(OpenedBy(parts))
        ELSE Resolved(pieces, OpenedBy(parts))

-----------------------------------------------------------------------------
(* Multipart selection *)

\* A part is selected by its field name, or by its file name when files are enabled.
PartSelected(part, s) == part.name \in s.fields \/ (part.filename # "" /\ part.filename \in s.filenames)

SelectedParts(m, s) ==
    FlattenSeq([i \in DOMAIN m.parts |-> IF PartSelected(m.parts[i], s) THEN m.parts[i].data ELSE <<>>])

\* resolveStreamFallback; "raw" takes the whole body of a message that is not multipart.
Fallen(s, q, m) ==
    LET f == s.fallback[1]
    IN  IF f.from = "raw" THEN (IF m.parts = <<>> THEN Resolved(<<[file |-> "", data |-> m.data]>>, {}) ELSE Unresolved({}))
        ELSE IF SourceFails(f, q) THEN Unresolved({})
        ELSE Resolved(<<[file |-> "", data |-> SourceBytes(f, q)]>>, {})

\* A body without parts is an error of the reader, one whose parts are all refused a miss.
MultipartPayload(s, q) ==
    LET name == MessageOf(s.parts[1].from, q)
        m    == q.msgs[name]
        hit  == SelectedParts(m, s)
    IN  IF name = "" \/ MessageBodyFails(name, q) THEN Unresolved({})
        ELSE IF m.parts = <<>> THEN (IF s.fallback # <<>> THEN Fallen(s, q, m) ELSE Unresolved({}))
        ELSE IF TooLarge(Len(hit)) THEN (IF s.fallback # <<>> THEN Fallen(s, q, m) ELSE Unresolved({}))
        ELSE IF hit # <<>> THEN Resolved(<<[file |-> "", data |-> hit]>>, {})
        ELSE IF s.fallback # <<>> /\ s.fallback[1].from # "raw" THEN Fallen(s, q, m)
        ELSE IF s.allowEmpty THEN Resolved(<<[file |-> "", data |-> <<>>]>>, {})
        ELSE Unresolved({})

ResolveStreamPayload(s, q) == IF s.kind = "multipart" THEN MultipartPayload(s, q) ELSE PartsPayload(s.parts, q)

-----------------------------------------------------------------------------
(* The preview *)

\* Whether the selected response needs more of the body than the preview holds.
SelectedPreviewNeedsIncomingBody(q, t) ==
    /\ q.preview /\ ~t.error /\ t.status # 204
    /\ IF t.stream.kind # "none"
       THEN t.stream.kind = "multipart" \/ \E p \in ToSet(t.stream.parts) : IncomingSource(p.from)
       ELSE /\ t.httpBody = <<>> /\ t.httpFile = "" /\ ~(q.method = "REQMOD" /\ t.httpStatus > 0)
            /\ Adapted(q) \in DOMAIN q.msgs
            /\ LET m == q.msgs[Adapted(q)] IN m.reader \/ (m.loaded /\ m.data # <<>>)

-----------------------------------------------------------------------------
(* Building the response *)

NoPlan == [mode |-> "complete", source |-> 0, bytes |-> 0, duration |-> 0, every |-> 0, count |-> 0]

\* target: the encapsulated message; length: its Content-Length (-1 none, -2 the scenario's own).
Response(status, target, body, length) ==
    [ok |-> TRUE, status |-> status, target |-> target, body |-> body, length |-> length,
     stream |-> FALSE, pieces |-> <<>>, plan |-> NoPlan, opened |-> {}, icap |-> <<>>, close |-> FALSE]
BuildFailed(opened) == [Response(500, "none", <<>>, -1) EXCEPT !.ok = FALSE, !.opened = opened]

\* NewResponseError: the message as a framed body; 90 stands for its text.
ErrorResponse == Response(500, "res", <<90>>, 1)

HttpBodyFails(t) == t.httpBody = <<>> /\ t.httpFile # "" /\ t.httpFile \notin DOMAIN Files
HttpBody(t) == IF t.httpBody # <<>> THEN t.httpBody ELSE IF t.httpFile # "" THEN Files[t.httpFile] ELSE <<>>

\* setBodyContentLength after http_set was applied; carried is the value of a cloned header.
LengthFor(t, body, carried) ==
    IF t.userLength = "set" THEN -2
    ELSE IF body # <<>> THEN Len(body)
    ELSE IF t.userLength = "auto" THEN -2 ELSE carried

SkipsOriginalBody(t) == t.stream.kind # "none" \/ HttpBody(t) # <<>>

\* The clone of the encapsulated message with its own body or the one that replaces it.
Adaptation(t, q) ==
    LET m == q.msgs[Adapted(q)]
        body == IF SkipsOriginalBody(t) THEN HttpBody(t) ELSE m.data
    IN  IF ~SkipsOriginalBody(t) /\ (m.failed \/ TooLarge(Len(m.data))) THEN BuildFailed({})
        ELSE Response(t.status, Adapted(q), body, LengthFor(t, HttpBody(t), m.cl))

BaseResponse(t, q) ==
    IF HttpBodyFails(t) THEN BuildFailed({})
    ELSE IF Adapted(q) \notin DOMAIN q.msgs THEN Response(t.status, "none", <<>>, -1)
    ELSE IF q.method = "REQMOD" /\ t.httpStatus > 0
    THEN Response(t.status, "res", HttpBody(t), LengthFor(t, HttpBody(t), -1))
    ELSE Adaptation(t, q)

\* attachStream: a payload that is not kept is cleaned up; a FIN closes the connection.
AttachStream(r, t, q) ==
    LET payload == ResolveStreamPayload(t.stream, q)
        bytes == PiecesBytes(payload.pieces)
        options == {o \in SelectBodyStreamPlanOptions(t.stream.controls, Len(bytes)) : OptionsValid(o) /\ CadenceInRange(o)}
    IN  IF ~payload.ok \/ r.target = "none" THEN {BuildFailed(payload.opened)}
        ELSE {[r EXCEPT !.body = <<>>, !.stream = TRUE, !.pieces = payload.pieces, !.opened = payload.opened,
                        !.length = Len(bytes), !.plan = PlanBodyStream(o), !.close = @ \/ o.mode = "fin"] : o \in options}
             \cup (IF options = SelectBodyStreamPlanOptions(t.stream.controls, Len(bytes)) THEN {}
                   ELSE {BuildFailed(payload.opened)})

\* buildResponse: the set of results; a 204 carries nothing.
BuildResponse(t, q) ==
    LET r == [BaseResponse(t, q) EXCEPT !.icap = t.body, !.close = t.close]
    IN  IF t.status = 204 THEN {[Response(204, "none", <<>>, -1) EXCEPT !.close = t.close]}
        ELSE IF ~r.ok \/ t.stream.kind = "none" THEN {r}
        ELSE AttachStream(r, t, q)
=============================================================================
