--------------------------- MODULE Exchange_proofs ---------------------------
(***************************************************************************)
(* Proofs about Exchange: for every request, scenario, buffer size and     *)
(* body limit, the handler, a forced stop and the closers of a connection  *)
(* return its buffers once and leave nothing open; and what the client     *)
(* decodes is what the response declares.                                  *)
(*                                                                         *)
(* What makes the resource property inductive is spread over the whole     *)
(* exchange: Close finds nothing to flush because every response ends with *)
(* a flush, which is a property of the operations a response is made of;   *)
(* those are only well formed for a response that was built from a typed   *)
(* template and request.                                                   *)
(*                                                                         *)
(* The delivery rests on where the handler is in the operations of the     *)
(* response: what the client received, what is in the socket and what is   *)
(* in the buffer are together what the operations before that place wrote, *)
(* with the chunk that is open short of exactly what the next operation    *)
(* writes, and with what is left of the source they make the whole, as     *)
(* long as it but for the bytes that files gained and lost on the way.     *)
(***************************************************************************)
EXTENDS ExchangeInvariant, FiniteSetTheorems, FunctionTheorems, SequenceTheorems, TLAPS

-----------------------------------------------------------------------------
(* Sequences *)

\* Induction up to m, for a set of numbers: if S had 0 and every successor but
\* not m, adding one would map the part of S below m into itself without 0,
\* injectively, which no finite set allows.
LEMMA UpTo ==
    ASSUME NEW m \in Nat, NEW S, 0 \in S, \A n \in Nat : n < m /\ n \in S => n + 1 \in S
    PROVE  m \in S
<1> DEFINE T == {n \in 0..m : n \in S}
<1> SUFFICES ASSUME m \notin S  PROVE FALSE OBVIOUS
<1>1. IsFiniteSet(0..m) BY FS_Interval
<1>2. IsFiniteSet(T) /\ 0 \in T BY <1>1, FS_Subset
<1>3. IsFiniteSet(T \ {0}) /\ Cardinality(T \ {0}) = Cardinality(T) - 1 /\ Cardinality(T) \in Nat
  BY <1>2, FS_RemoveElement, FS_CardinalityType
<1>4. [n \in T |-> n + 1] \in Injection(T, T \ {0})
  <2>1. \A n \in T : n + 1 \in T \ {0} OBVIOUS
  <2> QED BY <2>1 DEF Injection, IsInjective
<1>5. Cardinality(T) <= Cardinality(T \ {0}) BY <1>3, <1>4, FS_Injection
<1> QED BY <1>3, <1>5

\* A set of numbers that is not empty has a least element.
LEMMA Least ==
    ASSUME NEW S \in SUBSET Nat, S # {}
    PROVE  Min(S) \in S /\ \A n \in S : Min(S) <= n
<1> DEFINE L == {n \in Nat : \A k \in S : n <= k}
<1>1. ASSUME \A x \in S : \E y \in S : ~(x <= y)  PROVE FALSE
  <2>1. PICK m : m \in S OBVIOUS
  <2>2. 0 \in L OBVIOUS
  <2>3. ASSUME NEW n \in Nat, n \in L  PROVE n + 1 \in L
    <3>1. n \notin S BY <1>1, <2>3
    <3> QED BY <2>3, <3>1
  <2>4. m + 1 \in L
    <3> HIDE DEF L
    <3> QED BY <2>1, <2>2, <2>3, UpTo
  <2> QED BY <2>1, <2>4
<1> QED BY <1>1 DEF Min

\* A function on 1..n is a sequence.
LEMMA IsSeq ==
    ASSUME NEW S, NEW n \in Nat, NEW f \in [1..n -> S]
    PROVE  f \in Seq(S) /\ Len(f) = n
OBVIOUS

\* The recursion of FlattenSeq defines a function.
LEMMA Flattening ==
    ASSUME NEW S, NEW q \in Seq(Seq(S)), q # <<>>
    PROVE  \E g : g = [i \in 1..Len(q) |-> IF i = 1 THEN q[i] ELSE g[i - 1] \o q[i]]
<1> DEFINE Value(f, i) == IF i = 1 THEN q[i] ELSE f[i - 1] \o q[i]
           Good(n) == \E g : g = [i \in 1..n |-> Value(g, i)]
           T == {n \in Nat : Good(n)}
<1>1. 0 \in T
  <2> DEFINE z == [i \in 1..0 |-> q[i]]
  <2>1. z = [i \in 1..0 |-> Value(z, i)] OBVIOUS
  <2> QED BY <2>1
<1>2. ASSUME NEW n \in Nat, n \in T  PROVE n + 1 \in T
  <2>1. PICK g : g = [i \in 1..n |-> Value(g, i)] BY <1>2
  <2> DEFINE h == [i \in 1..(n + 1) |-> IF i = n + 1 THEN Value(g, n + 1) ELSE g[i]]
  <2>2. ASSUME NEW i \in 1..(n + 1)  PROVE h[i] = Value(h, i)
    <3>1. i # 1 => h[i - 1] = g[i - 1] OBVIOUS
    <3>2. Value(h, i) = Value(g, i) BY <3>1
    <3> HIDE DEF Value
    <3> QED BY <2>1, <3>2
  <2>3. h = [i \in 1..(n + 1) |-> Value(h, i)]
    <3> HIDE DEF Value
    <3> QED BY <2>2
  <2>4. Good(n + 1)
    <3> HIDE DEF h, Value
    <3> QED BY <2>3
  <2> HIDE DEF Good
  <2> QED BY <2>4
<1>3. Len(q) \in T
  <2> HIDE DEF T
  <2> QED BY <1>1, <1>2, UpTo
<1> QED BY <1>3

\* What is flattened is a sequence of the same elements; nothing makes nothing.
LEMMA Flattened ==
    ASSUME NEW S, NEW q \in Seq(Seq(S))
    PROVE  FlattenSeq(q) \in Seq(S) /\ (q = <<>> => FlattenSeq(q) = <<>>)
<1>1. CASE q = <<>> BY <1>1 DEF FlattenSeq
<1>2. CASE q # <<>>
  <2> DEFINE Value(f, i) == IF i = 1 THEN q[i] ELSE f[i - 1] \o q[i]
             p == CHOOSE g : g = [i \in 1..Len(q) |-> Value(g, i)]
             T == {n \in Nat : n \in 1..Len(q) => p[n] \in Seq(S)}
  <2>1. FlattenSeq(q) = p[Len(q)] /\ Len(q) \in 1..Len(q) BY <1>2 DEF FlattenSeq
  <2>2. p = [i \in 1..Len(q) |-> Value(p, i)] BY <1>2, Flattening
  <2> HIDE DEF p
  <2>3. \A i \in 1..Len(q) : p[i] = Value(p, i)
    <3> HIDE DEF Value
    <3> QED BY <2>2
  <2>4. 0 \in T OBVIOUS
  <2>5. ASSUME NEW n \in Nat, n \in T  PROVE n + 1 \in T
    <3> SUFFICES ASSUME n + 1 \in 1..Len(q)  PROVE p[n + 1] \in Seq(S) OBVIOUS
    <3>1. q[n + 1] \in Seq(S) OBVIOUS
    <3>2. CASE n = 0 BY <2>3, <3>1, <3>2
    <3>3. CASE n > 0
      <4>1. (n + 1) - 1 = n /\ n + 1 # 1 /\ p[n] \in Seq(S) BY <2>5, <3>3
      <4>2. Value(p, n + 1) = p[n] \o q[n + 1] BY <4>1
      <4>3. p[n] \o q[n + 1] \in Seq(S)
        <5> HIDE DEF T
        <5> QED BY <3>1, <4>1
      <4> HIDE DEF Value
      <4> QED BY <2>3, <4>2, <4>3
    <3> QED BY <3>2, <3>3
  <2>6. Len(q) \in T
    <3> HIDE DEF T
    <3> QED BY <2>4, <2>5, UpTo
  <2> QED BY <1>2, <2>1, <2>6
<1> QED BY <1>1, <1>2

-----------------------------------------------------------------------------
(* The response that is built *)

\* A plan has as many chunks as its bytes allow, and none without bytes.
LEMMA Planned ==
    ASSUME NEW o, o.source \in Nat, o.duration \in Nat, o.every \in Nat, o.target \in Nat,
           o.chunks \in Nat, o.bytes \in Nat, o.mode \in Modes
    PROVE  PlanBodyStream(o) \in Plan /\ (PlanBodyStream(o).count > 0 => o.bytes > 0)
<1>1. MaxStreamChunks \in Nat \ {0} /\ DefaultStreamChunkSize \in Nat \ {0} /\ AutomaticCadence \in Nat \ {0}
  BY StreamPlanAssumption DEF StreamPlanAssumption
<1>2. \A v \in Nat, d \in Nat \ {0} : CeilPositive(v, d) \in Nat BY DEF CeilPositive
<1>3. PreferredChunkCount(o) \in Nat
  <2>1. o.target > 0 => CeilPositive(o.bytes, o.target) \in Nat BY <1>2
  <2>2. CeilPositive(o.duration, AutomaticCadence) \in Nat /\ CeilPositive(o.bytes, DefaultStreamChunkSize) \in Nat
    BY <1>1, <1>2
  <2> QED BY <2>1, <2>2 DEF PreferredChunkCount
<1>4. \A d \in Nat, e \in Nat \ {0} : CadenceSlots(d, e) \in Nat BY <1>1 DEF CadenceSlots
<1>5. \A a, b \in Nat : LeastOf(a, b) \in Nat BY DEF LeastOf
<1>6. PlannedChunkCount(o) \in Nat /\ (o.bytes = 0 => PlannedChunkCount(o) = 0)
  <2> DEFINE preferred == LeastOf(LeastOf(PreferredChunkCount(o), o.bytes), MaxStreamChunks)
             paced == IF o.duration > 0 /\ o.every > 0
                      THEN LeastOf(preferred, CadenceSlots(o.duration, o.every)) ELSE preferred
  <2>1. LeastOf(PreferredChunkCount(o), o.bytes) \in Nat BY <1>3, <1>5
  <2>2. preferred \in Nat BY <1>1, <1>5, <2>1
  <2>3. o.every > 0 => CadenceSlots(o.duration, o.every) \in Nat BY <1>4
  <2> HIDE DEF preferred
  <2>4. paced \in Nat BY <1>5, <2>2, <2>3
  <2>5. PlannedChunkCount(o) = IF o.bytes = 0 THEN 0 ELSE IF paced < 1 THEN 1 ELSE paced
    BY DEF PlannedChunkCount, preferred
  <2> HIDE DEF paced
  <2> QED BY <2>4, <2>5
<1> QED BY <1>6 DEF PlanBodyStream, Plan

\* The options a stream block selects are numbers; a complete delivery takes the whole source.
LEMMA Optional ==
    ASSUME NEW c \in Controls, NEW size \in Nat, NEW o \in SelectBodyStreamPlanOptions(c, size), OptionsValid(o)
    PROVE  /\ o.source = size /\ o.duration \in Nat /\ o.every \in Nat /\ o.target \in Nat
           /\ o.chunks \in Nat /\ o.bytes \in 0..size /\ o.mode \in Modes
           /\ o.mode = "complete" => o.bytes = size
<1>1. \A r \in SUBSET Nat : Chosen(r) \in SUBSET Nat BY DEF Chosen
<1>2. ASSUME NEW mode, NEW set \in BOOLEAN, NEW bytes, NEW target \in Nat, NEW chunks \in Nat,
             NEW duration \in Nat, NEW every \in Nat,
             o = Options(mode, size, set, bytes, target, chunks, duration, every)
      PROVE  /\ o.source = size /\ o.duration \in Nat /\ o.every \in Nat /\ o.target \in Nat
             /\ o.chunks \in Nat /\ o.bytes \in 0..size /\ o.mode \in Modes
             /\ o.mode = "complete" => o.bytes = size
  <2>1. /\ o.source = size /\ o.duration = duration /\ o.every = every /\ o.target = target
        /\ o.chunks = chunks /\ (set => o.set) /\ (~set => o.bytes = size)
    BY <1>2 DEF Options
  <2>2. o.mode \in Modes BY DEF OptionsValid, Modes
  <2>3. CASE set BY <2>1, <2>2, <2>3 DEF OptionsValid
  <2>4. CASE ~set BY <2>1, <2>2, <2>4
  <2> QED BY <2>3, <2>4
<1>3. CASE UsesDirectStreamControls(c)
  <2>1. o \in SelectDirectPlanOptions(c, size) BY <1>3 DEF SelectBodyStreamPlanOptions
  <2>2. PICK p \in Chosen(c.percents), t \in Chosen(c.sizes), d \in Chosen(c.durations), e \in Chosen(c.everys) :
              o = Options(c.mode, size, c.percents # {}, PercentOf(size, p), t, c.chunks, d, e)
    BY <2>1 DEF SelectDirectPlanOptions
  <2>3. t \in Nat /\ d \in Nat /\ e \in Nat /\ c.chunks \in Nat /\ (c.percents # {}) \in BOOLEAN
    BY <1>1, <2>2 DEF Controls
  <2> QED BY <1>2, <2>2, <2>3
<1>4. CASE ~UsesDirectStreamControls(c)
  <2>1. o \in SelectLegacyPlanOptions(c, size) BY <1>4 DEF SelectBodyStreamPlanOptions
  <2>2. PICK mode \in LegacyFinishModes(c), t \in Chosen(c.legacySizes), e \in Chosen(c.legacyDelays),
             b \in Chosen(c.finBytes), d \in Chosen(c.legacyDurations), x \in Chosen(c.finTimes) :
              o = LegacyPlanOptions(c, size, mode, t, e, b, d, x)
    BY <2>1 DEF SelectLegacyPlanOptions
  <2>3. t \in Nat /\ d \in Nat /\ e \in Nat /\ x \in Nat BY <1>1, <2>2 DEF Controls
  <2>4. LegacyDuration(c, mode, d, x) \in Nat BY <2>3 DEF LegacyDuration
  <2>5. (Partial(mode) /\ c.finBytes # {}) \in BOOLEAN BY DEF Partial
  <2> QED BY <1>2, <2>2, <2>3, <2>4, <2>5 DEF LegacyPlanOptions
<1> QED BY <1>3, <1>4

\* Plain responses.
LEMMA PlainResponse ==
    ASSUME NEW s \in Int, NEW t \in {"none", "req", "res"}, NEW b \in Seq(Int), NEW l \in Int
    PROVE  /\ Response(s, t, b, l) \in ResponseRecord
           /\ Response(s, t, b, l).stream = FALSE /\ Response(s, t, b, l).ok = TRUE
<1>1. <<>> \in Pieces /\ NoPlan \in Plan BY DEF Pieces, NoPlan, Plan, Modes
<1> QED BY <1>1 DEF Response, ResponseRecord

\* A response without an adapted message.
LEMMA NothingToSend ==
    ASSUME NEW s \in Int
    PROVE  /\ Response(s, "none", <<>>, -1) \in ResponseRecord
           /\ Response(s, "none", <<>>, -1).stream = FALSE
<1>1. <<>> \in Seq(Int) /\ -1 \in Int /\ "none" \in {"none", "req", "res"} OBVIOUS
<1> QED BY <1>1, PlainResponse, Zenon

\* The error response and a failed build are responses.
LEMMA Failures ==
    /\ ErrorResponse \in ResponseRecord /\ ErrorResponse.stream = FALSE
    /\ \A f \in SUBSET STRING :
          BuildFailed(f) \in ResponseRecord /\ BuildFailed(f).ok = FALSE /\ BuildFailed(f).stream = FALSE
<1>1. ErrorResponse \in ResponseRecord /\ ErrorResponse.stream = FALSE
  <2>1. <<>> \in Pieces /\ NoPlan \in Plan BY DEF Pieces, NoPlan, Plan, Modes
  <2>2. <<90>> \in Seq(Int) OBVIOUS
  <2> QED BY <2>1, <2>2 DEF ErrorResponse, Response, ResponseRecord
<1>2. ASSUME NEW f \in SUBSET STRING
      PROVE  BuildFailed(f) \in ResponseRecord /\ BuildFailed(f).ok = FALSE /\ BuildFailed(f).stream = FALSE
  <2>1. ASSUME NEW x \in ResponseRecord
        PROVE  /\ [x EXCEPT !.ok = FALSE, !.opened = f] \in ResponseRecord
               /\ [x EXCEPT !.ok = FALSE, !.opened = f].ok = FALSE
               /\ [x EXCEPT !.ok = FALSE, !.opened = f].stream = x.stream
    BY DEF ResponseRecord
  <2>2. PICK n \in Int : n = 500 OBVIOUS
  <2>3. BuildFailed(f) = [Response(n, "none", <<>>, -1) EXCEPT !.ok = FALSE, !.opened = f]
    BY <2>2 DEF BuildFailed
  <2> QED BY <2>1, <2>3, NothingToSend, Zenon
<1> QED BY <1>1, <1>2

\* Bytes of pieces.
LEMMA BytesOf ==
    ASSUME NEW p \in Pieces
    PROVE  PiecesBytes(p) \in Seq(Int) /\ (p = <<>> => PiecesBytes(p) = <<>>)
<1>1. [i \in DOMAIN p |-> p[i].data] \in Seq(Seq(Int))
  <2>1. Len(p) \in Nat /\ DOMAIN p = 1..Len(p) /\ \A i \in 1..Len(p) : p[i].data \in Seq(Int)
    <3>1. \A x \in PieceRecord : x.data \in Seq(Int) BY DEF PieceRecord
    <3> QED BY <3>1 DEF Pieces
  <2>2. [i \in DOMAIN p |-> p[i].data] \in [1..Len(p) -> Seq(Int)] BY <2>1
  <2> QED BY <2>1, <2>2, IsSeq
<1>2. p = <<>> => [i \in DOMAIN p |-> p[i].data] = <<>> OBVIOUS
<1> QED BY <1>1, <1>2, Flattened DEF PiecesBytes

\* The sources of a stream resolve to pieces.
LEMMA Resolving ==
    ASSUME NEW s \in Stream, NEW q, Messages(q.msgs)
    PROVE  LET p == ResolveStreamPayload(s, q)
           IN  p.pieces \in Pieces /\ p.opened \in SUBSET STRING
<1> DEFINE Good(p) == p.pieces \in Pieces /\ p.opened \in SUBSET STRING
<1>1. \A f \in SUBSET STRING : Good(Unresolved(f)) BY DEF Unresolved, Pieces
<1>2. ASSUME NEW d \in Seq(Int)  PROVE Good(Resolved(<<[file |-> "", data |-> d]>>, {}))
  <2>1. [file |-> "", data |-> d] \in PieceRecord BY DEF PieceRecord
  <2>2. ASSUME NEW x \in PieceRecord  PROVE Good(Resolved(<<x>>, {})) BY DEF Resolved, Pieces
  <2> QED BY <2>1, <2>2
<1>3. ASSUME NEW f \in Source, ~SourceFails(f, q)  PROVE SourceBytes(f, q) \in Seq(Int)
  <2>1. CASE IncomingSource(f.from)
    <3>1. MessageOf(f.from, q) \in DOMAIN q.msgs BY <1>3, <2>1 DEF SourceFails, MessageBodyFails
    <3>2. q.msgs[MessageOf(f.from, q)] \in Message BY <3>1 DEF Messages
    <3> QED BY <2>1, <3>2 DEF SourceBytes, Message
  <2>2. CASE ~IncomingSource(f.from) /\ f.from = "body_file"
    <3>1. f.file \in DOMAIN Files BY <1>3, <2>2 DEF SourceFails
    <3> QED BY <2>2, <3>1, BuildAssumption DEF SourceBytes, BuildAssumption
  <2>3. CASE ~IncomingSource(f.from) /\ f.from # "body_file" BY <2>3 DEF SourceBytes, Source
  <2> QED BY <2>1, <2>2, <2>3
<1>4. CASE s.kind = "multipart"
  <2> DEFINE name == MessageOf(s.parts[1].from, q)
             m == q.msgs[name]
             hit == SelectedParts(m, s)
  <2>1. CASE name = "" \/ MessageBodyFails(name, q)
    BY <1>1, <1>4, <2>1 DEF ResolveStreamPayload, MultipartPayload
  <2>2. CASE ~(name = "" \/ MessageBodyFails(name, q))
    <3>1. m \in Message
      <4>1. name \in DOMAIN q.msgs BY <2>2 DEF MessageBodyFails
      <4> QED BY <4>1 DEF Messages
    <3> HIDE DEF m, name
    <3>2. hit \in Seq(Int)
      <4>1. m.parts \in Seq(BodyPart) BY <3>1 DEF Message
      <4>2. ASSUME NEW i \in DOMAIN m.parts
            PROVE  (IF PartSelected(m.parts[i], s) THEN m.parts[i].data ELSE <<>>) \in Seq(Int)
        <5>1. m.parts[i] \in BodyPart BY <4>1
        <5> QED BY <5>1 DEF BodyPart
      <4>3. [i \in DOMAIN m.parts |-> IF PartSelected(m.parts[i], s) THEN m.parts[i].data ELSE <<>>]
              \in Seq(Seq(Int))
        <5>1. Len(m.parts) \in Nat /\ DOMAIN m.parts = 1..Len(m.parts) BY <4>1
        <5> QED BY <4>2, <5>1, IsSeq
      <4> QED BY <4>3, Flattened DEF SelectedParts
    <3> HIDE DEF hit
    <3>3. ASSUME s.fallback # <<>>  PROVE Good(Fallen(s, q, m))
      <4>1. s.fallback[1] \in Source BY <3>3 DEF Stream
      <4>2. m.data \in Seq(Int) BY <3>1 DEF Message
      <4> HIDE DEF Good
      <4> QED BY <1>1, <1>2, <1>3, <4>1, <4>2 DEF Fallen
    <3>4. <<>> \in Seq(Int) OBVIOUS
    <3>5. Good(MultipartPayload(s, q))
      <4> HIDE DEF Good
      <4> QED BY <1>1, <1>2, <2>2, <3>2, <3>3, <3>4 DEF MultipartPayload, hit, m, name
    <3> QED BY <1>4, <3>5 DEF ResolveStreamPayload
  <2> QED BY <2>1, <2>2
<1>5. CASE s.kind # "multipart"
  <2>1. s.parts \in Seq(Source) BY DEF Stream
  <2>2. ASSUME NEW parts \in Seq(Source)  PROVE OpenedBy(parts) \in SUBSET STRING
    <3>1. \A i \in DOMAIN parts : parts[i] \in Source OBVIOUS
    <3>2. \A x \in ToSet(parts) : x \in Source BY <3>1 DEF ToSet
    <3> QED BY <3>2 DEF OpenedBy, Source
  <2>3. ASSUME NEW F \in SUBSET DOMAIN s.parts, F # {}
        PROVE  OpenedBy(SubSeq(s.parts, 1, Min(F))) \in SUBSET STRING
    <3>1. F \in SUBSET Nat BY <2>1
    <3>2. Min(F) \in 1..Len(s.parts) BY <2>1, <2>3, <3>1, Least
    <3>3. SubSeq(s.parts, 1, Min(F)) \in Seq(Source) BY <2>1, <3>2
    <3> QED BY <2>2, <3>3
  <2>4. ASSUME {i \in DOMAIN s.parts : SourceFails(s.parts[i], q)} = {}
        PROVE  [i \in DOMAIN s.parts |-> Piece(s.parts[i], q)] \in Pieces
    <3>1. ASSUME NEW i \in DOMAIN s.parts
          PROVE  Piece(s.parts[i], q) \in PieceRecord
      <4>1. s.parts[i] \in Source /\ ~SourceFails(s.parts[i], q) BY <2>1, <2>4
      <4>2. SourceBytes(s.parts[i], q) \in Seq(Int) BY <1>3, <4>1
      <4> QED BY <4>1, <4>2 DEF Piece, PieceRecord, Source
    <3>2. Len(s.parts) \in Nat /\ DOMAIN s.parts = 1..Len(s.parts) BY <2>1
    <3> QED BY <3>1, <3>2, IsSeq DEF Pieces
  <2>5. Good(PartsPayload(s.parts, q))
    <3> QED BY <1>1, <2>1, <2>2, <2>3, <2>4 DEF PartsPayload, Resolved, Unresolved
  <2> QED BY <1>5, <2>5 DEF ResolveStreamPayload
<1> QED BY <1>4, <1>5

\* The encapsulated message of the response, before a stream is attached.
LEMMA BaseBuilt ==
    ASSUME NEW t \in Template, NEW q, Messages(q.msgs)
    PROVE  BaseResponse(t, q) \in ResponseRecord /\ BaseResponse(t, q).stream = FALSE
<1>1. CASE HttpBodyFails(t) BY <1>1, Failures DEF BaseResponse
<1>2. CASE ~HttpBodyFails(t)
  <2>1. HttpBody(t) \in Seq(Int)
    <3>1. t.httpBody \in Seq(Int) BY DEF Template
    <3>2. t.httpBody = <<>> /\ t.httpFile # "" => Files[t.httpFile] \in Seq(Int)
      BY <1>2, BuildAssumption DEF HttpBodyFails, BuildAssumption
    <3>3. <<>> \in Seq(Int) OBVIOUS
    <3> QED BY <3>1, <3>2, <3>3 DEF HttpBody
  <2>2. ASSUME NEW b \in Seq(Int), NEW c \in Int  PROVE LengthFor(t, b, c) \in Int BY DEF LengthFor
  <2>3. t.status \in Int BY DEF Template
  <2>4. CASE Adapted(q) \notin DOMAIN q.msgs
    BY <1>2, <2>3, <2>4, NothingToSend DEF BaseResponse
  <2>5. CASE Adapted(q) \in DOMAIN q.msgs /\ q.method = "REQMOD" /\ t.httpStatus > 0
    <3>1. LengthFor(t, HttpBody(t), -1) \in Int
      <4>1. -1 \in Int OBVIOUS
      <4> QED BY <2>1, <2>2, <4>1
    <3>2. "res" \in {"none", "req", "res"} OBVIOUS
    <3> QED BY <1>2, <2>1, <2>3, <2>5, <3>1, <3>2, PlainResponse, Zenon DEF BaseResponse
  <2>6. CASE Adapted(q) \in DOMAIN q.msgs /\ ~(q.method = "REQMOD" /\ t.httpStatus > 0)
    <3> DEFINE m == q.msgs[Adapted(q)]
               body == IF SkipsOriginalBody(t) THEN HttpBody(t) ELSE m.data
    <3>1. m \in Message BY <2>6 DEF Messages
    <3>2. m.data \in Seq(Int) /\ m.cl \in Int BY <3>1 DEF Message
    <3>3. body \in Seq(Int) BY <2>1, <3>2
    <3>4. LengthFor(t, HttpBody(t), m.cl) \in Int BY <2>1, <2>2, <3>2
    <3>5. Adapted(q) \in {"none", "req", "res"} BY DEF Adapted
    <3>6. BaseResponse(t, q) = Adaptation(t, q) BY <1>2, <2>6 DEF BaseResponse
    <3>7. \/ Adaptation(t, q) = BuildFailed({})
          \/ Adaptation(t, q) = Response(t.status, Adapted(q), body, LengthFor(t, HttpBody(t), m.cl))
      BY Zenon DEF Adaptation
    <3> HIDE DEF m, body
    <3>8. {} \in SUBSET STRING OBVIOUS
    <3>9. CASE Adaptation(t, q) = BuildFailed({}) BY <3>6, <3>8, <3>9, Failures
    <3>10. CASE Adaptation(t, q) = Response(t.status, Adapted(q), body, LengthFor(t, HttpBody(t), m.cl))
      <4>1. PICK n, a, l : n = t.status /\ a = Adapted(q) /\ l = LengthFor(t, HttpBody(t), m.cl) OBVIOUS
      <4>2. n \in Int /\ a \in {"none", "req", "res"} /\ l \in Int BY <2>3, <3>4, <3>5, <4>1
      <4>3. Response(n, a, body, l) \in ResponseRecord /\ Response(n, a, body, l).stream = FALSE
        BY <3>3, <4>2, PlainResponse
      <4> QED BY <3>6, <3>10, <4>1, <4>3
    <3> QED BY <3>7, <3>9, <3>10
  <2> QED BY <2>4, <2>5, <2>6
<1> QED BY <1>1, <1>2

\* A response is what it is said to be, and a stream with chunks has a source.
LEMMA Built ==
    ASSUME NEW t \in Template, NEW q, Messages(q.msgs), NEW r \in BuildResponse(t, q)
    PROVE  r \in ResponseRecord /\ (r.stream /\ r.plan.count > 0 => r.pieces # <<>>)
<1> DEFINE base == [BaseResponse(t, q) EXCEPT !.icap = t.body, !.close = t.close]
<1>1. t.body \in Seq(Int) /\ t.close \in BOOLEAN /\ t.stream \in Stream BY DEF Template
<1>2. ASSUME NEW x \in ResponseRecord, x.stream = FALSE
      PROVE  /\ [x EXCEPT !.icap = t.body, !.close = t.close] \in ResponseRecord
             /\ [x EXCEPT !.icap = t.body, !.close = t.close].stream = FALSE
             /\ [x EXCEPT !.close = t.close] \in ResponseRecord
             /\ [x EXCEPT !.close = t.close].stream = FALSE
  BY <1>1, <1>2 DEF ResponseRecord
<1>3. base \in ResponseRecord /\ base.stream = FALSE BY <1>2, BaseBuilt, Zenon
<1>4. CASE t.status = 204
  <2>1. PICK n \in Int : n = 204 OBVIOUS
  <2>2. r = [Response(n, "none", <<>>, -1) EXCEPT !.close = t.close] BY <1>4, <2>1 DEF BuildResponse
  <2>3. r \in ResponseRecord /\ r.stream = FALSE BY <1>2, <2>2, NothingToSend, Zenon
  <2> QED BY <2>3
<1>5. CASE t.status # 204 /\ (~base.ok \/ t.stream.kind = "none")
  <2>1. r = base BY <1>5 DEF BuildResponse
  <2> HIDE DEF base
  <2> QED BY <1>3, <2>1
<1>6. CASE t.status # 204 /\ ~(~base.ok \/ t.stream.kind = "none")
  <2>1. r \in AttachStream(base, t, q) BY <1>6 DEF BuildResponse
  <2> DEFINE payload == ResolveStreamPayload(t.stream, q)
             bytes == PiecesBytes(payload.pieces)
             chosen == SelectBodyStreamPlanOptions(t.stream.controls, Len(bytes))
  <2>2. payload.pieces \in Pieces /\ payload.opened \in SUBSET STRING BY <1>1, Resolving
  <2> HIDE DEF base, payload
  <2>3. bytes \in Seq(Int) /\ (payload.pieces = <<>> => bytes = <<>>) BY <2>2, BytesOf
  <2> HIDE DEF bytes
  <2>4. Len(bytes) \in Nat /\ (payload.pieces = <<>> => Len(bytes) = 0) BY <2>3
  <2>5. CASE r = BuildFailed(payload.opened) BY <2>2, <2>5, Failures
  <2>6. CASE \E o \in chosen :
               /\ OptionsValid(o)
               /\ r = [base EXCEPT !.body = <<>>, !.stream = TRUE, !.pieces = payload.pieces,
                         !.opened = payload.opened, !.length = Len(bytes), !.plan = PlanBodyStream(o),
                         !.close = @ \/ o.mode = "fin"]
    <3>1. PICK o \in chosen :
               /\ OptionsValid(o)
               /\ r = [base EXCEPT !.body = <<>>, !.stream = TRUE, !.pieces = payload.pieces,
                         !.opened = payload.opened, !.length = Len(bytes), !.plan = PlanBodyStream(o),
                         !.close = @ \/ o.mode = "fin"]
      BY <2>6
    <3>2. t.stream.controls \in Controls BY <1>1 DEF Stream
    <3>3. /\ o.source = Len(bytes) /\ o.duration \in Nat /\ o.every \in Nat /\ o.target \in Nat
          /\ o.chunks \in Nat /\ o.bytes \in 0..Len(bytes) /\ o.mode \in Modes
      BY <2>4, <3>1, <3>2, Optional
    <3>4. PlanBodyStream(o) \in Plan /\ (PlanBodyStream(o).count > 0 => o.bytes > 0)
      BY <2>4, <3>3, Planned
    <3>5. (base.close \/ o.mode = "fin") \in BOOLEAN OBVIOUS
    <3>6. <<>> \in Seq(Int) /\ TRUE \in BOOLEAN OBVIOUS
    <3>7. r \in ResponseRecord /\ r.plan = PlanBodyStream(o) /\ r.pieces = payload.pieces
      <4>1. Len(bytes) \in Int BY <2>4
      <4>2. PICK c \in BOOLEAN : c = (base.close \/ o.mode = "fin") BY <3>5
      <4>3. r = [base EXCEPT !.body = <<>>, !.stream = TRUE, !.pieces = payload.pieces,
                   !.opened = payload.opened, !.length = Len(bytes), !.plan = PlanBodyStream(o),
                   !.close = c]
        BY <3>1, <4>2
      <4>4. PICK e, s, l : e = <<>> /\ s = TRUE /\ l = Len(bytes) OBVIOUS
      <4>5. e \in Seq(Int) /\ s \in BOOLEAN /\ l \in Int BY <3>6, <4>1, <4>4
      <4>6. r = [base EXCEPT !.body = e, !.stream = s, !.pieces = payload.pieces, !.opened = payload.opened,
                             !.length = l, !.plan = PlanBodyStream(o), !.close = c]
        BY <4>3, <4>4
      <4>7. PICK x, p, f, plan : x = base /\ p = payload.pieces /\ f = payload.opened /\ plan = PlanBodyStream(o)
        OBVIOUS
      <4>8. x \in ResponseRecord /\ p \in Pieces /\ f \in SUBSET STRING /\ plan \in Plan
        BY <1>3, <2>2, <3>4, <4>7
      <4>9. r = [x EXCEPT !.body = e, !.stream = s, !.pieces = p, !.opened = f, !.length = l,
                          !.plan = plan, !.close = c]
        BY <4>6, <4>7
      <4>10. r \in ResponseRecord /\ r.plan = plan /\ r.pieces = p
        BY <4>2, <4>5, <4>8, <4>9 DEF ResponseRecord
      <4> QED BY <4>7, <4>10
    <3>8. r.plan.count > 0 => payload.pieces # <<>> BY <2>4, <3>3, <3>4, <3>7
    <3> QED BY <3>7, <3>8
  <2>7. r = BuildFailed(payload.opened) \/
        \E o \in chosen :
               /\ OptionsValid(o)
               /\ r = [base EXCEPT !.body = <<>>, !.stream = TRUE, !.pieces = payload.pieces,
                         !.opened = payload.opened, !.length = Len(bytes), !.plan = PlanBodyStream(o),
                         !.close = @ \/ o.mode = "fin"]
    BY <2>1, Zenon DEF AttachStream, payload, bytes
  <2> QED BY <2>5, <2>6, <2>7
<1> QED BY <1>4, <1>5, <1>6

\* A response is selected among the templates of the scenario.
LEMMA Selected ==
    ASSUME NEW choice \in Templates, choice # <<>>,
           NEW x \in SelectedResponses(choice[1].base, choice[1].variants)
    PROVE  x \in Template
<1> DEFINE base == choice[1].base
           v == choice[1].variants
<1>1. /\ base \in Template /\ v \in Seq(ToSet(v))
      /\ \A w \in ToSet(v) : w.weight \in Nat /\ w.sets @@ base \in Template
  BY ExchangeAssumption DEF ExchangeAssumption
<1>2. CASE v = <<>> BY <1>1, <1>2 DEF SelectedResponses
<1>3. CASE v # <<>>
  <2>1. PICK n \in Draws(v) : x = SelectedAt(v, n).sets @@ base BY <1>3 DEF SelectedResponses
  <2> HIDE DEF base, v
  <2>2. Len(v) \in Nat \ {0} /\ DOMAIN v = 1..Len(v) /\ \A i \in 1..Len(v) : v[i] \in ToSet(v)
    BY <1>1, <1>3
  <2>3. \E i \in 1..Len(v) : SelectedAt(v, n) = v[i]
    <3>1. CASE v[1].weight = 0
      <4>1. n \in 0..(Len(v) - 1) BY <2>1, <3>1 DEF Draws
      <4>2. n + 1 \in 1..Len(v) BY <2>2, <4>1
      <4> QED BY <3>1, <4>2 DEF SelectedAt
    <3>2. CASE v[1].weight # 0
      <4> DEFINE hits == {i \in DOMAIN v : n < MapThenSumSet(LAMBDA j : v[j].weight, 1..i)}
      <4>1. CASE hits = {}
        <5>1. SelectedAt(v, n) = v[Len(v)] BY <3>2, <4>1, Zenon DEF SelectedAt, Last
        <5> QED BY <2>2, <5>1
      <4>2. CASE hits # {}
        <5>1. hits \in SUBSET Nat
          <6>1. hits \subseteq DOMAIN v BY Zenon
          <6> HIDE DEF hits
          <6> QED BY <2>2, <6>1
        <5>2. Min(hits) \in DOMAIN v BY <4>2, <5>1, Least
        <5>3. SelectedAt(v, n) = v[Min(hits)] BY <3>2, <4>2, Zenon DEF SelectedAt
        <5> QED BY <2>2, <5>2, <5>3
      <4> QED BY <4>1, <4>2
    <3> QED BY <3>1, <3>2
  <2> QED BY <1>1, <2>1, <2>2, <2>3
<1> QED BY <1>2, <1>3

-----------------------------------------------------------------------------
(* What writing a response does *)

\* Putting operations one after the other.
LEMMA Concatenated ==
    ASSUME NEW a \in Seq(OpRecord), NEW b \in Seq(OpRecord)
    PROVE  /\ a \o b \in Seq(OpRecord) /\ (b # <<>> => a \o b # <<>> /\ Last(a \o b) = Last(b))
           /\ Releases(a) /\ Releases(b) => Releases(a \o b)
           /\ Waitless(b) /\ (\E j \in DOMAIN b : b[j].op = "release") => Releases(a \o b)
           /\ Dataless(a) /\ Dataless(b) => Dataless(a \o b)
           /\ Waitless(a) => Releases(a)
<1>1. /\ a \o b \in Seq(OpRecord) /\ Len(a \o b) = Len(a) + Len(b) /\ Len(a) \in Nat /\ Len(b) \in Nat
      /\ DOMAIN (a \o b) = 1..(Len(a) + Len(b)) /\ DOMAIN a = 1..Len(a) /\ DOMAIN b = 1..Len(b)
  OBVIOUS
<1>2. /\ \A i \in 1..Len(a) : (a \o b)[i] = a[i]
      /\ \A j \in 1..Len(b) : (a \o b)[Len(a) + j] = b[j]
  OBVIOUS
<1>3. \A i \in DOMAIN (a \o b) : i \in 1..Len(a) \/ \E j \in 1..Len(b) : i = Len(a) + j
  <2> SUFFICES ASSUME NEW i \in DOMAIN (a \o b), i \notin 1..Len(a)
               PROVE  \E j \in 1..Len(b) : i = Len(a) + j
    OBVIOUS
  <2>1. i - Len(a) \in 1..Len(b) /\ i = Len(a) + (i - Len(a)) BY <1>1
  <2> QED BY <2>1
<1> DEFINE ab == a \o b
<1>4. ab = a \o b OBVIOUS
<1> HIDE DEF ab
<1>5. ASSUME b # <<>>  PROVE ab # <<>> /\ Last(ab) = Last(b)
  <2>1. Len(b) > 0 /\ Len(b) \in 1..Len(b) BY <1>1, <1>5
  <2> QED BY <1>1, <1>2, <1>4, <2>1 DEF Last
<1>6. ASSUME Releases(a), Releases(b)  PROVE Releases(ab)
  <2> SUFFICES ASSUME NEW i \in DOMAIN ab, ab[i].op \in {"wait", "sleep"}
               PROVE  \E j \in DOMAIN ab : i < j /\ ab[j].op = "release"
    BY DEF Releases
  <2>1. CASE i \in 1..Len(a)
    <3>1. PICK j \in DOMAIN a : i < j /\ a[j].op = "release" BY <1>1, <1>2, <1>4, <1>6, <2>1 DEF Releases
    <3>2. j \in DOMAIN ab /\ ab[j] = a[j] BY <1>1, <1>2, <1>4, <3>1
    <3> QED BY <3>1, <3>2
  <2>2. CASE \E k \in 1..Len(b) : i = Len(a) + k
    <3>1. PICK k \in 1..Len(b) : i = Len(a) + k BY <2>2
    <3>2. PICK j \in DOMAIN b : k < j /\ b[j].op = "release" BY <1>1, <1>2, <1>4, <1>6, <3>1 DEF Releases
    <3>3. Len(a) + j \in DOMAIN ab /\ ab[Len(a) + j] = b[j] /\ i < Len(a) + j BY <1>1, <1>2, <1>4, <3>1, <3>2
    <3> QED BY <3>2, <3>3
  <2> QED BY <1>3, <1>4, <2>1, <2>2
<1>7. ASSUME Waitless(b), NEW j \in DOMAIN b, b[j].op = "release"  PROVE Releases(ab)
  <2> SUFFICES ASSUME NEW i \in DOMAIN ab, ab[i].op \in {"wait", "sleep"}
               PROVE  \E k \in DOMAIN ab : i < k /\ ab[k].op = "release"
    BY DEF Releases
  <2>1. i \in 1..Len(a) BY <1>1, <1>2, <1>3, <1>4, <1>7 DEF Waitless
  <2>2. Len(a) + j \in DOMAIN ab /\ ab[Len(a) + j] = b[j] /\ i < Len(a) + j BY <1>1, <1>2, <1>4, <1>7, <2>1
  <2> QED BY <1>7, <2>2
<1>8. ASSUME Dataless(a), Dataless(b)  PROVE Dataless(ab)
  BY <1>1, <1>2, <1>3, <1>4, <1>8 DEF Dataless
<1>9. ASSUME Waitless(a)  PROVE Releases(a) BY <1>9 DEF Waitless, Releases
<1> QED BY <1>1, <1>4, <1>5, <1>6, <1>7, <1>8, <1>9

\* The operations the response is made of.
LEMMA Operations ==
    /\ \A k \in {"continue", "head", "msg", "size", "byte", "crlf", "zero", "raw"}, n \in Int :
          Put(<<<<k, n>>>>) \in OpRecord /\ Put(<<<<k, n>>>>).op = "put"
    /\ \A toks \in Seq(Token) : Put(toks) \in OpRecord /\ Put(toks).op = "put"
    /\ Flush \in OpRecord /\ Flush.op = "flush"
    /\ \A op \in {"open", "wait", "data", "verify", "release", "fail"}, n \in Nat :
          Op(op, <<>>, n) \in OpRecord /\ Op(op, <<>>, n).op = op
<1>1. ASSUME NEW op \in {"put", "flush", "open", "wait", "data", "verify", "release", "fail"},
             NEW toks \in Seq(Token), NEW n \in Nat
      PROVE  Op(op, toks, n) \in OpRecord /\ Op(op, toks, n).op = op
  BY DEF Op, OpRecord
<1>2. PICK none \in Seq(Token) : none = <<>>
  <2>1. <<>> \in Seq(Token) OBVIOUS
  <2> QED BY <2>1, Zenon
<1>3. \A toks \in Seq(Token) : Put(toks) \in OpRecord /\ Put(toks).op = "put"
  BY <1>1 DEF Put
<1>4. Flush \in OpRecord /\ Flush.op = "flush"
  <2>1. Flush = Op("flush", none, 0) BY <1>2 DEF Flush
  <2> QED BY <1>1, <2>1
<1>5. ASSUME NEW op \in {"open", "wait", "data", "verify", "release", "fail"}, NEW n \in Nat
      PROVE  Op(op, <<>>, n) \in OpRecord /\ Op(op, <<>>, n).op = op
  <2>1. Op(op, <<>>, n) = Op(op, none, n) BY <1>2
  <2> QED BY <1>1, <2>1
<1>6. ASSUME NEW k \in {"continue", "head", "msg", "size", "byte", "crlf", "zero", "raw"}, NEW n \in Int
      PROVE  Put(<<<<k, n>>>>) \in OpRecord /\ Put(<<<<k, n>>>>).op = "put"
  <2>1. <<k, n>> \in Token BY DEF Token
  <2>2. \A x \in Token : <<x>> \in Seq(Token) OBVIOUS
  <2>3. <<<<k, n>>>> \in Seq(Token) BY <2>1, <2>2
  <2> QED BY <1>3, <2>3, Zenon
<1> QED BY <1>3, <1>4, <1>5, <1>6

\* A sequence of operations of one or two elements.
LEMMA Short ==
    ASSUME NEW x \in OpRecord, NEW y \in OpRecord
    PROVE  /\ <<x>> \in Seq(OpRecord) /\ <<x, y>> \in Seq(OpRecord)
           /\ <<x>> # <<>> /\ Last(<<x>>) = x /\ <<x, y>> # <<>> /\ Last(<<x, y>>) = y
           /\ x.op \notin {"wait", "sleep"} => Waitless(<<x>>)
           /\ x.op # "data" => Dataless(<<x>>)
           /\ x.op \notin {"wait", "sleep"} /\ y.op \notin {"wait", "sleep"} => Waitless(<<x, y>>)
           /\ x.op # "data" /\ y.op # "data" => Dataless(<<x, y>>)
           /\ y.op = "release" => \E j \in DOMAIN <<x, y>> : <<x, y>>[j].op = "release"
BY DEF Last, Waitless, Dataless

\* The tokens of a body.
LEMMA BytesTyped ==
    ASSUME NEW kind \in {"byte", "raw"}, NEW data \in Seq(Int)
    PROVE  Bytes(kind, data) \in Seq(Token)
<1>1. DOMAIN data = 1..Len(data) /\ Len(data) \in Nat /\ \A i \in 1..Len(data) : data[i] \in Int OBVIOUS
<1>2. \A i \in 1..Len(data) : <<kind, data[i]>> \in Token BY <1>1 DEF Token
<1>3. [i \in 1..Len(data) |-> <<kind, data[i]>>] \in [1..Len(data) -> Token] BY <1>2
<1>4. [i \in 1..Len(data) |-> <<kind, data[i]>>] \in Seq(Token) BY <1>1, <1>3, IsSeq
<1> QED BY <1>1, <1>4 DEF Bytes

\* A chunk is five operations.
LEMMA Chunks ==
    ASSUME NEW plan \in Plan, NEW i \in 0..(plan.count - 1)
    PROVE  ChunkSize(plan, i) \in Nat /\ ChunkOps(plan, i) \in Seq(OpRecord)
<1>1. plan.count \in Nat \ {0} /\ plan.bytes \in Nat /\ i \in Nat BY DEF Plan
<1>2. ChunkSize(plan, i) \in Nat BY <1>1 DEF ChunkSize
<1>3. PICK n \in Nat : n = ChunkSize(plan, i) BY <1>2
<1>4. /\ Op("wait", <<>>, i) \in OpRecord /\ Put(<<<<"size", n>>>>) \in OpRecord /\ Op("data", <<>>, n) \in OpRecord
      /\ Put(<<<<"crlf", 0>>>>) \in OpRecord /\ Flush \in OpRecord
  BY <1>1, Operations
<1>5. ASSUME NEW a \in OpRecord, NEW b \in OpRecord, NEW c \in OpRecord, NEW d \in OpRecord, NEW e \in OpRecord
      PROVE  <<a, b, c, d, e>> \in Seq(OpRecord)
  OBVIOUS
<1>6. <<Op("wait", <<>>, i), Put(<<<<"size", n>>>>), Op("data", <<>>, n), Put(<<<<"crlf", 0>>>>), Flush>>
         \in Seq(OpRecord)
  BY <1>4, <1>5
<1> QED BY <1>2, <1>3, <1>6 DEF ChunkOps

\* The operations of a stream: the source is released after the last chunk.
LEMMA Streamed ==
    ASSUME NEW plan \in Plan
    PROVE  /\ StreamOps(plan) \in Seq(OpRecord) /\ Releases(StreamOps(plan))
           /\ plan.count = 0 => Dataless(StreamOps(plan))
<1> DEFINE chunks == [i \in 1..plan.count |-> ChunkOps(plan, i - 1)]
           start  == <<Op("open", <<>>, 0)>>
           middle == FlattenSeq(chunks)
           end    == <<Op("verify", <<>>, 0), Op("release", <<>>, 0)>>
           last   == IF plan.mode = "fin" THEN <<>> ELSE <<Put(<<<<"zero", 0>>>>), Flush>>
<1>1. plan.count \in Nat BY DEF Plan
<1>2. chunks \in Seq(Seq(OpRecord)) /\ (plan.count = 0 => chunks = <<>>)
  <2>1. ASSUME NEW i \in 1..plan.count  PROVE ChunkOps(plan, i - 1) \in Seq(OpRecord)
    <3>1. i - 1 \in 0..(plan.count - 1) BY <1>1
    <3> QED BY <3>1, Chunks
  <2>2. chunks \in [1..plan.count -> Seq(OpRecord)] BY <2>1
  <2>3. chunks \in Seq(Seq(OpRecord)) /\ Len(chunks) = plan.count
    <3> HIDE DEF chunks
    <3> QED BY <1>1, <2>2, IsSeq
  <2> HIDE DEF chunks
  <2> QED BY <2>3
<1> HIDE DEF chunks
<1>3. middle \in Seq(OpRecord) /\ (plan.count = 0 => middle = <<>>) BY <1>2, Flattened
<1> HIDE DEF middle
<1>4. start \in Seq(OpRecord) /\ Dataless(start)
  <2>1. Op("open", <<>>, 0) \in OpRecord /\ Op("open", <<>>, 0).op = "open" BY Operations
  <2> QED BY <2>1, Short
<1>5. /\ end \in Seq(OpRecord) /\ Waitless(end) /\ Dataless(end)
      /\ \E j \in DOMAIN end : end[j].op = "release"
  <2>1. /\ Op("verify", <<>>, 0) \in OpRecord /\ Op("verify", <<>>, 0).op = "verify"
        /\ Op("release", <<>>, 0) \in OpRecord /\ Op("release", <<>>, 0).op = "release"
    BY Operations
  <2> QED BY <2>1, Short
<1>6. last \in Seq(OpRecord) /\ Waitless(last) /\ Dataless(last)
  <2>1. <<>> \in Seq(OpRecord) /\ Waitless(<<>>) /\ Dataless(<<>>) BY DEF Waitless, Dataless
  <2>2. Put(<<<<"zero", 0>>>>) \in OpRecord /\ Put(<<<<"zero", 0>>>>).op = "put" /\ Flush \in OpRecord /\ Flush.op = "flush"
    BY Operations
  <2>3. /\ <<Put(<<<<"zero", 0>>>>), Flush>> \in Seq(OpRecord) /\ Waitless(<<Put(<<<<"zero", 0>>>>), Flush>>)
        /\ Dataless(<<Put(<<<<"zero", 0>>>>), Flush>>)
    BY <2>2, Short
  <2> QED BY <2>1, <2>3
<1> HIDE DEF start, end, last
<1>7. start \o middle \in Seq(OpRecord) /\ (plan.count = 0 => Dataless(start \o middle))
  <2>1. middle = <<>> => Dataless(middle) BY DEF Dataless
  <2> QED BY <1>3, <1>4, <2>1, Concatenated
<1>8. PICK a \in Seq(OpRecord) : a = start \o middle BY <1>7
<1>9. /\ a \o end \in Seq(OpRecord) /\ Releases(a \o end)
      /\ plan.count = 0 => Dataless(a \o end)
  BY <1>5, <1>7, <1>8, Concatenated
<1>10. PICK b \in Seq(OpRecord) : b = a \o end BY <1>9
<1>11. /\ b \o last \in Seq(OpRecord) /\ Releases(b \o last)
       /\ plan.count = 0 => Dataless(b \o last)
  BY <1>6, <1>9, <1>10, Concatenated
<1>12. StreamOps(plan) = b \o last
  BY <1>8, <1>10 DEF StreamOps, start, middle, chunks, end, last
<1> QED BY <1>11, <1>12

\* The operations of a response end with a flush.
LEMMA Responded ==
    ASSUME NEW r \in ResponseRecord
    PROVE  /\ ResponseOps(r) \in Seq(OpRecord) /\ ResponseOps(r) # <<>>
           /\ Last(ResponseOps(r)).op = "flush" /\ Releases(ResponseOps(r))
           /\ ~(r.stream /\ r.plan.count > 0) => Dataless(ResponseOps(r))
<1> DEFINE head == <<Put(<<<<"head", r.status>>>>)>>
           part == IF r.stream THEN StreamOps(r.plan) ELSE BodyOps(r.body)
           msg  == <<Put(<<<<"msg", r.length>>>>)>>
           body == IF r.target = "none" THEN <<>> ELSE msg \o part
           raw  == IF r.icap = <<>> THEN <<>> ELSE <<Put(Bytes("raw", r.icap))>>
           end  == <<Flush>>
           Releasing(q) == q \in Seq(OpRecord) /\ Releases(q)
           Quiet == ~(r.stream /\ r.plan.count > 0)
<1>1. /\ r.status \in Int /\ r.length \in Int /\ r.body \in Seq(Int) /\ r.icap \in Seq(Int)
      /\ r.plan \in Plan /\ r.stream \in BOOLEAN
  BY DEF ResponseRecord
<1>2. ASSUME NEW x \in OpRecord, x.op \in {"put", "flush"}  PROVE Releasing(<<x>>) /\ Dataless(<<x>>)
  <2>1. <<x>> \in Seq(OpRecord) /\ Waitless(<<x>>) /\ Dataless(<<x>>) BY <1>2, Short
  <2> QED BY <2>1, Concatenated
<1>3. <<>> \in Seq(OpRecord) /\ Releases(<<>>) /\ Dataless(<<>>) BY DEF Releases, Dataless
<1>4. Releasing(head) /\ Dataless(head)
  <2>1. Put(<<<<"head", r.status>>>>) \in OpRecord /\ Put(<<<<"head", r.status>>>>).op = "put"
    BY <1>1, Operations
  <2> HIDE DEF Releasing
  <2> QED BY <1>2, <2>1
<1>5. Releasing(msg) /\ Dataless(msg)
  <2>1. Put(<<<<"msg", r.length>>>>) \in OpRecord /\ Put(<<<<"msg", r.length>>>>).op = "put"
    BY <1>1, Operations
  <2> HIDE DEF Releasing
  <2> QED BY <1>2, <2>1
<1>6. Releasing(end) /\ Dataless(end) /\ end # <<>> /\ Last(end).op = "flush"
  BY <1>2, Operations, Short
<1>7. Releasing(raw) /\ Dataless(raw)
  <2>1. Bytes("raw", r.icap) \in Seq(Token) BY <1>1, BytesTyped
  <2>2. Put(Bytes("raw", r.icap)) \in OpRecord /\ Put(Bytes("raw", r.icap)).op = "put" BY <2>1, Operations
  <2>3. Releasing(<<Put(Bytes("raw", r.icap))>>) /\ Dataless(<<Put(Bytes("raw", r.icap))>>)
    <3> HIDE DEF Releasing
    <3> QED BY <1>2, <2>2
  <2> QED BY <1>3, <2>3
<1>8. Releasing(BodyOps(r.body)) /\ Dataless(BodyOps(r.body))
  <2>1. CASE r.body = <<>> BY <1>3, <2>1 DEF BodyOps
  <2>2. CASE r.body # <<>>
    <3>1. Bytes("byte", r.body) \in Seq(Token) /\ Len(r.body) \in Int BY <1>1, BytesTyped
    <3>2. PICK a, b, c, d : /\ a = Put(<<<<"size", Len(r.body)>>>>) /\ b = Put(Bytes("byte", r.body))
                            /\ c = Put(<<<<"crlf", 0>>>>) /\ d = Put(<<<<"zero", 0>>>>)
      OBVIOUS
    <3>3. /\ a \in OpRecord /\ b \in OpRecord /\ c \in OpRecord /\ d \in OpRecord
          /\ a.op = "put" /\ b.op = "put" /\ c.op = "put" /\ d.op = "put"
      BY <3>1, <3>2, Operations
    <3>4. BodyOps(r.body) = <<a, b, c, d>> BY <2>2, <3>2 DEF BodyOps
    <3>5. /\ <<a, b, c, d>> \in Seq(OpRecord) /\ DOMAIN <<a, b, c, d>> = 1..4
          /\ \A i \in 1..4 : <<a, b, c, d>>[i].op = "put"
      BY <3>3
    <3> QED BY <3>4, <3>5 DEF Releases, Dataless
  <2> QED BY <2>1, <2>2
<1>9. Releasing(part) /\ (Quiet => Dataless(part))
  <2>1. r.plan.count \in Nat BY <1>1 DEF Plan
  <2> QED BY <1>1, <1>8, <2>1, Streamed
<1> HIDE DEF head, part, msg, raw, end
<1>10. Releasing(body) /\ (Quiet => Dataless(body))
  <2>1. Releasing(msg \o part) /\ (Quiet => Dataless(msg \o part)) BY <1>5, <1>9, Concatenated
  <2> QED BY <1>3, <2>1
<1> HIDE DEF body
<1>11. Releasing(head \o body) /\ (Quiet => Dataless(head \o body)) BY <1>4, <1>10, Concatenated
<1>12. PICK a : a = head \o body OBVIOUS
<1>13. Releasing(a \o raw) /\ (Quiet => Dataless(a \o raw)) BY <1>7, <1>11, <1>12, Concatenated
<1>14. PICK b : b = a \o raw OBVIOUS
<1>15. /\ Releasing(b \o end) /\ (Quiet => Dataless(b \o end))
       /\ b \o end # <<>> /\ Last(b \o end) = Last(end)
  BY <1>6, <1>13, <1>14, Concatenated
<1>16. ResponseOps(r) = b \o end
  BY <1>12, <1>14 DEF ResponseOps, head, body, msg, part, raw, end
<1> QED BY <1>6, <1>15, <1>16

-----------------------------------------------------------------------------
(* Closing the connection *)

\* The handler and its environment leave the closers alone until the handler leaves.
LEMMA LeaveOrKeep ==
    ASSUME Meeting, Buffering, Handle \/ ReadFails \/ NetDone \/ NetFails \/ CtxEnds \/ Tick \/ FileChanges
    PROVE  \/ UNCHANGED closing
           \/ pc \notin {"close", "over"} /\ \E mode \in {"close", "abort"} : Leave(mode)
<1> USE DEF closing, At, ReadError, ProcessFails, WriteFails, Done
<1>1. CASE ReadBegins BY <1>1 DEF ReadBegins
<1>2. CASE ReadToken BY <1>2 DEF ReadToken, BodyEnds
<1>3. CASE Serve BY <1>3 DEF Serve
<1>4. CASE Continue BY <1>4 DEF Continue
<1>5. CASE DelayCancelled BY <1>5 DEF DelayCancelled
<1>6. CASE Build BY <1>6 DEF Build
<1>7. CASE Post BY <1>7 DEF Post
<1>8. CASE Respond BY <1>8 DEF Respond
<1>9. CASE WritePut BY <1>9 DEF WritePut
<1>10. CASE WriteFlush BY <1>10 DEF WriteFlush
<1>11. CASE Open BY <1>11 DEF Open
<1>12. CASE Wait BY <1>12 DEF Wait
<1>13. CASE Sleep BY <1>13 DEF Sleep
<1>14. CASE Data BY <1>14 DEF Data
<1>15. CASE Verify BY <1>15 DEF Verify
<1>16. CASE SourceShort BY <1>16 DEF SourceShort
<1>17. CASE CloseReader BY <1>17 DEF CloseReader
<1>18. CASE Written BY <1>18 DEF Written
<1>19. CASE Over BY <1>19 DEF Over
<1>20. CASE ReadFails BY <1>20 DEF ReadFails, Buffering
<1>21. CASE NetDone BY <1>21 DEF NetDone
<1>22. CASE NetFails BY <1>22 DEF NetFails, Buffering
<1>23. CASE CtxEnds BY <1>23 DEF CtxEnds
<1>24. CASE Tick BY <1>24 DEF Tick
<1>25. CASE FileChanges BY <1>25 DEF FileChanges
<1> QED
  BY <1>1, <1>2, <1>3, <1>4, <1>5, <1>6, <1>7, <1>8, <1>9, <1>10, <1>11, <1>12, <1>13,
     <1>14, <1>15, <1>16, <1>17, <1>18, <1>19, <1>20, <1>21, <1>22, <1>23, <1>24, <1>25 DEF Handle

\* Closing keeps its order: whoever is inside once.Do is there alone, the socket is closed
\* before the reader's buffer, and nobody returns before all of it is done.
LEMMA StepClosed ==
    ASSUME Closed, Meeting, Buffering, Next
    PROVE  Closed'
<1> USE DEF Closed, Inside, PastWriter, Closers
<1>1. ASSUME UNCHANGED closing  PROVE Closed' BY <1>1 DEF closing
<1>2. ASSUME pc \notin {"close", "over"}, NEW mode \in {"close", "abort"}, Leave(mode)  PROVE Closed'
  BY <1>2 DEF Leave, Meeting
<1>3. CASE StopBegins BY <1>3 DEF StopBegins
<1>4. ASSUME NEW c \in Closers, CloseSocket(c)  PROVE Closed' BY <1>4 DEF CloseSocket, Step
<1>5. ASSUME NEW c \in Closers, EnterOnce(c)  PROVE Closed' BY <1>5 DEF EnterOnce, Step
<1>6. ASSUME NEW c \in Closers, CloseWriter(c)  PROVE Closed' BY <1>6 DEF CloseWriter, Step
<1>7. ASSUME NEW c \in Closers, CloseReaderBuffer(c)  PROVE Closed'
  <2>1. /\ Inside(c) /\ PastWriter(c) /\ once = "busy" /\ sock = "closed" /\ wclosed = TRUE /\ rclosed = FALSE
        /\ \A d \in Closers : d # c => ~Inside(d)
    BY <1>7 DEF CloseReaderBuffer
  <2>2. /\ closer' = [closer EXCEPT ![c].at = "done"] /\ once' = "done" /\ sock' = sock /\ wclosed' = TRUE
        /\ rclosed' = TRUE /\ returned' = [returned EXCEPT !.reader = @ + 1]
    BY <1>7, <2>1 DEF CloseReaderBuffer, Step
  <2>3. returned' = [reader |-> 1, writer |-> 1]
    <3>1. returned = [reader |-> 0, writer |-> 1] BY <2>1
    <3> QED BY <2>2, <3>1
  <2>4. \A d \in Closers : (d # c => closer'[d] = closer[d]) /\ closer'[d].mode = closer[d].mode /\ ~Inside(d)'
    BY <2>1, <2>2
  <2>5. closer'[c].at = "done" /\ closer[c].mode # "none" BY <1>7, <2>2 DEF CloseReaderBuffer
  <2>6. closer' \in [Closers -> [mode : {"none", "close", "abort"},
                                 at : {"idle", "socket", "once", "writer", "reader", "done"}]]
    BY <2>2
  <2>7. ASSUME NEW d \in Closers
        PROVE  /\ closer'[d].mode = "none" <=> closer'[d].at = "idle"
               /\ closer'[d].mode = "abort" /\ closer'[d].at # "socket" => sock' = "closed"
               /\ closer'[d].mode = "close" /\ closer'[d].at = "reader" => sock' = "closed"
               /\ closer'[d].at = "done" => once' = "done"
    BY <2>1, <2>2, <2>4, <2>5
  <2>8. (once' = "done" => sock' = "closed") /\ once' # "busy" /\ once' \in {"free", "busy", "done"}
    BY <2>1, <2>2
  <2>9. wclosed' \in BOOLEAN /\ (wclosed' <=> once' = "done" \/ \E d \in Closers : PastWriter(d)')
    BY <2>2
  <2>10. /\ rclosed' = (once' = "done")
         /\ returned' = [reader |-> IF rclosed' THEN 1 ELSE 0, writer |-> IF wclosed' THEN 1 ELSE 0]
    BY <2>2, <2>3
  <2> HIDE DEF Inside, PastWriter, Closers
  <2> QED BY <2>4, <2>6, <2>7, <2>8, <2>9, <2>10
<1>8. CASE Finished BY <1>1, <1>8 DEF Finished, vars
<1> QED
  BY <1>1, <1>2, <1>3, <1>4, <1>5, <1>6, <1>7, <1>8, LeaveOrKeep DEF Next, Environment, Close

\* The handler and the closers.
LEMMA StepMeeting ==
    ASSUME Closed, Meeting, Buffering, Writing, Next
    PROVE  Meeting'
<1>0. ASSUME pc \notin {"close", "over"}, NEW mode \in {"close", "abort"}, Leave(mode), UNCHANGED <<ctx, now>>,
             mode = "close" => wbuf' = <<>>
      PROVE  Meeting'
  BY <1>0 DEF Leave, Meeting, Closed, Closers
<1> USE DEF Meeting, At, ReadError, ProcessFails, WriteFails, Done, BodyEnds, Step, reading,
     serving, writing, closing, handling
<1>1. CASE ReadBegins BY <1>0, <1>1 DEF ReadBegins, Buffering
<1>2. CASE ReadToken BY <1>0, <1>2 DEF ReadToken, Buffering
<1>3. CASE Serve BY <1>0, <1>3 DEF Serve
<1>4. CASE Continue BY <1>0, <1>4 DEF Continue
<1>5. CASE DelayCancelled BY <1>0, <1>5 DEF DelayCancelled
<1>6. CASE Build BY <1>0, <1>6 DEF Build
<1>7. CASE Post BY <1>0, <1>7 DEF Post
<1>8. CASE Respond BY <1>0, <1>8 DEF Respond
<1>9. CASE WritePut BY <1>0, <1>9 DEF WritePut, Refused
<1>10. CASE WriteFlush BY <1>0, <1>10 DEF WriteFlush, Refused
<1>11. CASE Open BY <1>0, <1>11 DEF Open
<1>12. CASE Wait BY <1>0, <1>12 DEF Wait
<1>13. CASE Sleep BY <1>0, <1>13 DEF Sleep
<1>14. CASE Data BY <1>0, <1>14 DEF Data
<1>15. CASE Verify BY <1>0, <1>15 DEF Verify
<1>16. CASE SourceShort BY <1>0, <1>16 DEF SourceShort
<1>17. CASE CloseReader BY <1>0, <1>17 DEF CloseReader
<1>18. CASE Written BY <1>0, <1>18 DEF Written, Buffering
<1>19. CASE Over BY <1>0, <1>19 DEF Over
<1>20. CASE ReadFails BY <1>0, <1>20 DEF ReadFails, Buffering
<1>21. CASE NetDone BY <1>0, <1>21 DEF NetDone, Buffering
<1>22. CASE NetFails BY <1>0, <1>22 DEF NetFails, Buffering
<1>23. CASE CtxEnds BY <1>0, <1>23 DEF CtxEnds
<1>24. CASE Tick
  BY <1>24, ExchangeAssumption DEF Tick, ExchangeAssumption
<1>25. CASE FileChanges BY <1>0, <1>25 DEF FileChanges
<1>26. CASE StopBegins BY <1>0, <1>26 DEF StopBegins, Closed, Closers
<1>27. ASSUME NEW c \in Closers, CloseSocket(c)  PROVE Meeting' BY <1>27 DEF CloseSocket, Closers
<1>28. ASSUME NEW c \in Closers, EnterOnce(c)  PROVE Meeting'
  BY <1>28 DEF EnterOnce, Closed, Closers, Inside, PastWriter
<1>29. ASSUME NEW c \in Closers, CloseWriter(c)  PROVE Meeting'
  BY <1>29 DEF CloseWriter, Closed, Closers, Inside, PastWriter
<1>30. ASSUME NEW c \in Closers, CloseReaderBuffer(c)  PROVE Meeting'
  BY <1>30 DEF CloseReaderBuffer, Closed, Closers, Inside, PastWriter
<1>31. CASE Finished BY <1>31 DEF Finished, vars
<1> QED
  BY <1>1, <1>2, <1>3, <1>4, <1>5, <1>6, <1>7, <1>8, <1>9, <1>10, <1>11, <1>12, <1>13,
     <1>14, <1>15, <1>16, <1>17, <1>18, <1>19, <1>20, <1>21, <1>22, <1>23, <1>24, <1>25,
     <1>26, <1>27, <1>28, <1>29, <1>30, <1>31
     DEF Next, Handle, Environment, Close

-----------------------------------------------------------------------------
(* Writing the response *)

\* What is left after the first operation, or from a later one on.
LEMMA Suffix ==
    ASSUME NEW q \in Seq(OpRecord), NEW k \in 1..Len(q)
    PROVE  LET r == SubSeq(q, k, Len(q))
           IN  /\ r \in Seq(OpRecord) /\ r # <<>> /\ Last(r) = Last(q)
               /\ Releases(q) => Releases(r)
               /\ Dataless(q) => Dataless(r)
<1> DEFINE r == SubSeq(q, k, Len(q))
           d == Len(q) - k + 1
<1>1. Len(q) \in Nat /\ k \in Nat /\ d \in Nat \ {0} /\ Len(q) = d + k - 1 OBVIOUS
<1>2. r \in Seq(OpRecord) /\ Len(r) = d /\ \A i \in 1..d : r[i] = q[i + k - 1] BY <1>1
<1>3. DOMAIN r = 1..d /\ DOMAIN q = 1..Len(q) BY <1>2
<1> HIDE DEF r, d
<1>4. r # <<>> /\ Last(r) = Last(q)
  <2>1. r # <<>> BY <1>1, <1>2
  <2>2. r[d] = q[d + k - 1] BY <1>1, <1>2
  <2> QED BY <1>1, <1>2, <2>1, <2>2 DEF Last
<1>5. ASSUME Releases(q), NEW i \in DOMAIN r, r[i].op \in {"wait", "sleep"}
      PROVE  \E j \in DOMAIN r : i < j /\ r[j].op = "release"
  <2>1. i + k - 1 \in DOMAIN q /\ r[i] = q[i + k - 1] BY <1>1, <1>2, <1>3
  <2>2. PICK j \in DOMAIN q : i + k - 1 < j /\ q[j].op = "release" BY <1>5, <2>1 DEF Releases
  <2>3. j - k + 1 \in 1..d /\ i < j - k + 1 /\ (j - k + 1) + k - 1 = j BY <1>1, <1>3, <2>2
  <2>4. r[j - k + 1] = q[j] BY <1>2, <2>3
  <2> QED BY <1>3, <2>2, <2>3, <2>4
<1>6. ASSUME Dataless(q)  PROVE Dataless(r)
  <2> SUFFICES ASSUME NEW i \in DOMAIN r  PROVE r[i].op # "data" BY DEF Dataless
  <2>1. i + k - 1 \in DOMAIN q /\ r[i] = q[i + k - 1] BY <1>1, <1>2, <1>3
  <2> QED BY <1>6, <2>1 DEF Dataless
<1>7. Releases(q) => Releases(r) BY <1>5 DEF Releases
<1> QED BY <1>2, <1>4, <1>6, <1>7 DEF r, d

\* What remains to be done after the next operation.
LEMMA Rest ==
    ASSUME NEW q \in Seq(OpRecord), q # <<>>
    PROVE  /\ Head(q) \in OpRecord /\ Head(q) = q[1]
           /\ Tail(q) \in Seq(OpRecord) /\ (Ends(q) => Ends(Tail(q)))
           /\ Releases(q) => Releases(Tail(q))
           /\ Dataless(q) => Dataless(Tail(q))
           /\ Ends(q) /\ Tail(q) = <<>> => Head(q).op \in {"flush", "fail"}
<1>1. Len(q) \in Nat \ {0} /\ Head(q) = q[1] /\ q[1] \in OpRecord OBVIOUS
<1>2. CASE Len(q) = 1
  <2>1. Tail(q) \in Seq(OpRecord) /\ Len(Tail(q)) = 0 /\ Last(q) = q[1] BY <1>2 DEF Last
  <2>2. \A t \in Seq(OpRecord) : Len(t) = 0 => t = <<>> OBVIOUS
  <2>3. Tail(q) = <<>> BY <2>1, <2>2
  <2> QED BY <1>1, <2>1, <2>3 DEF Ends, Releases, Dataless
<1>3. CASE Len(q) > 1
  <2>1. Tail(q) = SubSeq(q, 2, Len(q)) /\ 2 \in 1..Len(q) BY <1>1, <1>3
  <2> QED BY <1>1, <2>1, Suffix DEF Ends
<1>4. Len(q) = 1 \/ Len(q) > 1
  <2>1. PICK n \in Nat : n = Len(q) /\ n # 0 BY <1>1
  <2>2. n = 1 \/ n > 1 BY <2>1
  <2> QED BY <2>1, <2>2
<1> QED BY <1>2, <1>3, <1>4

\* A chunk that waits goes on to sleep.
LEMMA Asleep ==
    ASSUME NEW q \in Seq(OpRecord), q # <<>>, Head(q).op = "wait", Ends(q), Releases(q)
    PROVE  LET r == <<[Head(q) EXCEPT !.op = "sleep"]>> \o Tail(q)
           IN  /\ r \in Seq(OpRecord) /\ r # <<>> /\ Ends(r) /\ Releases(r)
               /\ Dataless(q) => Dataless(r)
<1> DEFINE x == [Head(q) EXCEPT !.op = "sleep"]
           r == <<x>> \o Tail(q)
<1>1. Len(q) \in Nat \ {0} /\ DOMAIN q = 1..Len(q) /\ Head(q) = q[1] /\ 1 \in DOMAIN q OBVIOUS
<1>2. x \in OpRecord /\ x.op = "sleep"
  <2>1. Head(q) \in OpRecord BY Rest
  <2> QED BY <2>1 DEF OpRecord
<1> HIDE DEF x
<1>3. /\ <<x>> \in Seq(OpRecord) /\ Tail(q) \in Seq(OpRecord) /\ Len(Tail(q)) = Len(q) - 1
      /\ \A i \in 1..(Len(q) - 1) : Tail(q)[i] = q[i + 1]
  BY <1>1, <1>2
<1>4. r \in Seq(OpRecord) /\ Len(r) = Len(q) /\ r[1] = x /\ \A i \in 2..Len(q) : r[i] = q[i]
  <2>1. PICK t : t = Tail(q) OBVIOUS
  <2>2. <<x>> \o t \in Seq(OpRecord) /\ Len(<<x>> \o t) = 1 + Len(t) /\ (<<x>> \o t)[1] = x
        /\ \A i \in 1..Len(t) : (<<x>> \o t)[1 + i] = t[i]
    BY <1>3, <2>1
  <2>3. ASSUME NEW i \in 2..Len(q)  PROVE r[i] = q[i]
    <3>1. i - 1 \in 1..(Len(q) - 1) /\ 1 + (i - 1) = i /\ (i - 1) + 1 = i BY <1>1
    <3> QED BY <1>3, <2>1, <2>2, <3>1
  <2> QED BY <1>1, <1>3, <2>1, <2>2, <2>3
<1> HIDE DEF r
<1>5. PICK j \in DOMAIN q : 1 < j /\ q[j].op = "release" BY <1>1 DEF Releases
<1>6. DOMAIN r = 1..Len(q) /\ r # <<>> /\ Last(r) = Last(q) BY <1>1, <1>4, <1>5 DEF Last
<1>7. Releases(r)
  <2> SUFFICES ASSUME NEW i \in DOMAIN r, r[i].op \in {"wait", "sleep"}
               PROVE  \E k \in DOMAIN r : i < k /\ r[k].op = "release"
    BY DEF Releases
  <2>1. CASE i = 1 BY <1>1, <1>4, <1>5, <1>6, <2>1
  <2>2. CASE i # 1
    <3>1. i \in 2..Len(q) /\ r[i] = q[i] BY <1>1, <1>4, <1>6, <2>2
    <3>2. PICK k \in DOMAIN q : i < k /\ q[k].op = "release" BY <1>1, <3>1 DEF Releases
    <3>3. k \in DOMAIN r /\ r[k] = q[k] BY <1>1, <1>4, <1>6, <3>1, <3>2
    <3> QED BY <3>2, <3>3
  <2> QED BY <2>1, <2>2
<1>8. ASSUME Dataless(q)  PROVE Dataless(r)
  <2> SUFFICES ASSUME NEW i \in DOMAIN r  PROVE r[i].op # "data" BY DEF Dataless
  <2>1. CASE i = 1 BY <1>2, <1>4, <2>1
  <2>2. CASE i # 1
    <3>1. i \in DOMAIN q /\ i \in 2..Len(q) BY <1>1, <1>6, <2>2
    <3> QED BY <1>4, <1>8, <3>1 DEF Dataless
  <2> QED BY <2>1, <2>2
<1> QED BY <1>4, <1>6, <1>7, <1>8 DEF r, x, Ends

\* Reading on in the source leaves pieces, at least one.
LEMMA Remains ==
    ASSUME src \in Pieces, src # <<>>, NEW n \in Nat
    PROVE  Remaining(n) \in Pieces /\ Remaining(n) # <<>>
<1> DEFINE before(i) == Len(PiecesBytes(SubSeq(src, 1, i - 1)))
           Far(i) == i = Len(src) \/ before(i + 1) >= n
           S == {i \in 1..Len(src) : Far(i)}
           at == CHOOSE i \in DOMAIN src : Far(i) /\ \A j \in 1..i - 1 : before(j + 1) < n
<1>1. Len(src) \in Nat \ {0} /\ DOMAIN src = 1..Len(src) /\ \A i \in 1..Len(src) : src[i] \in PieceRecord
  BY DEF Pieces
<1>2. ASSUME NEW i \in 1..(Len(src) + 1)  PROVE before(i) \in Nat /\ (i = 1 => before(i) = 0)
  <2>1. SubSeq(src, 1, i - 1) \in Pieces /\ (i = 1 => SubSeq(src, 1, i - 1) = <<>>) BY <1>1 DEF Pieces
  <2>2. PiecesBytes(SubSeq(src, 1, i - 1)) \in Seq(Int) /\ (i = 1 => PiecesBytes(SubSeq(src, 1, i - 1)) = <<>>)
    BY <2>1, BytesOf
  <2> QED BY <2>2
<1> HIDE DEF before
<1>3. at \in DOMAIN src /\ Far(at) /\ \A j \in 1..at - 1 : before(j + 1) < n
  <2>1. S \in SUBSET Nat /\ S # {} BY <1>1
  <2>2. Min(S) \in S /\ \A k \in S : Min(S) <= k BY <2>1, Least
  <2>3. PICK i \in 1..Len(src) : Far(i) /\ \A k \in S : i <= k BY <2>2
  <2>4. ASSUME NEW j \in 1..(i - 1)  PROVE before(j + 1) < n
    <3>0. Len(src) \in Nat /\ i \in 1..Len(src) /\ j \in 1..(i - 1) BY <1>1
    <3>1. j \in 1..Len(src) /\ j + 1 \in 1..(Len(src) + 1) /\ j < i /\ j # Len(src)
      <4> HIDE DEF Far, S
      <4> QED BY <3>0
    <3>2. j \notin S BY <2>3, <3>1
    <3>3. ~(before(j + 1) >= n) BY <3>1, <3>2
    <3> QED BY <1>2, <3>1, <3>3
  <2> HIDE DEF Far
  <2> QED BY <1>1, <2>3, <2>4
<1> HIDE DEF at
<1>4. n - before(at) + 1 \in Nat \ {0}
  <2>1. CASE at = 1 BY <1>1, <1>2, <1>3, <2>1
  <2>2. CASE at # 1
    <3>1. at - 1 \in 1..(at - 1) /\ (at - 1) + 1 = at /\ at \in 1..(Len(src) + 1) BY <1>1, <1>3, <2>2
    <3>2. before(at) < n BY <1>3, <3>1
    <3> QED BY <1>2, <3>1, <3>2
  <2> QED BY <2>1, <2>2
<1> DEFINE first == [src[at] EXCEPT !.data = SubSeq(@, n - before(at) + 1, Len(@))]
           rest == [i \in 1..Len(src) - at + 1 |-> IF i = 1 THEN first ELSE src[i + at - 1]]
<1>5. Remaining(n) = rest BY Zenon DEF Remaining, at, before
<1>6. first \in PieceRecord
  <2>1. PICK k \in Nat \ {0} : k = n - before(at) + 1 BY <1>4
  <2>2. src[at] \in PieceRecord /\ src[at].data \in Seq(Int) BY <1>1, <1>3 DEF PieceRecord
  <2>3. ASSUME NEW d \in Seq(Int)  PROVE SubSeq(d, k, Len(d)) \in Seq(Int) BY <2>1
  <2>4. first = [src[at] EXCEPT !.data = SubSeq(src[at].data, k, Len(src[at].data))] BY <2>1, <2>2
  <2>5. ASSUME NEW p \in PieceRecord, NEW d \in Seq(Int)  PROVE [p EXCEPT !.data = d] \in PieceRecord
    BY DEF PieceRecord
  <2> QED BY <2>2, <2>3, <2>4, <2>5
<1> HIDE DEF first
<1>7. Len(src) - at + 1 \in Nat \ {0} BY <1>1, <1>3
<1>8. rest \in [1..(Len(src) - at + 1) -> PieceRecord]
  <2>1. ASSUME NEW i \in 1..(Len(src) - at + 1), i # 1  PROVE src[i + at - 1] \in PieceRecord
    <3>1. i + at - 1 \in 1..Len(src) BY <1>1, <1>3, <2>1
    <3> QED BY <1>1, <3>1
  <2> QED BY <1>6, <2>1
<1>9. rest \in Seq(PieceRecord) /\ Len(rest) = Len(src) - at + 1
  <2> HIDE DEF rest
  <2> QED BY <1>7, <1>8, IsSeq
<1> HIDE DEF rest
<1> QED BY <1>5, <1>7, <1>9 DEF Pieces

\* When the time of a partial delivery is over, what remains begins with the release.
LEMMA Stopping ==
    ASSUME Writing, pc = "write", todo # <<>>, Head(todo).op \in {"wait", "sleep"}
    PROVE  /\ Stopped \in Seq(OpRecord) /\ Stopped # <<>> /\ Ends(Stopped) /\ Releases(Stopped)
           /\ Dataless(Stopped) \/ src # <<>>
<1>1. todo \in Seq(OpRecord) /\ Ends(todo) /\ Releases(todo) /\ (Dataless(todo) \/ src # <<>>) BY DEF Writing
<1>2. Head(todo) = todo[1] /\ 1 \in DOMAIN todo BY <1>1
<1>3. \E i \in DOMAIN todo : todo[i].op = "release" BY <1>1, <1>2 DEF Releases
<1>4. PICK k \in DOMAIN todo : k = CHOOSE i \in DOMAIN todo : todo[i].op = "release" BY <1>3
<1>5. Stopped = SubSeq(todo, k, Len(todo)) /\ k \in 1..Len(todo) BY <1>1, <1>4 DEF Stopped
<1> QED BY <1>1, <1>5, Suffix DEF Ends

\* Data of a chunk is put in front of what remains, which then fails if the source was short.
LEMMA Sending ==
    ASSUME Writing, Answering, Data
    PROVE  /\ pc = "write" /\ pc' = pc /\ src' \in Pieces /\ src' # <<>>
           /\ todo' \in Seq(OpRecord) /\ todo' # <<>> /\ Ends(todo') /\ Releases(todo')
<1> DEFINE n == Head(todo).n
           read == SubSeq(PiecesBytes(src), 1, LeastOf(n, Len(PiecesBytes(src))))
           put == IF read = <<>> THEN <<>> ELSE <<Put(Bytes("byte", read))>>
           next == IF Len(read) < n THEN <<Op("fail", <<>>, 0)>> ELSE Tail(todo)
<1>1. /\ pc = "write" /\ todo # <<>> /\ Head(todo).op = "data" /\ pc' = pc /\ src' = Remaining(n)
      /\ todo' = put \o next
  BY DEF Data, At, Done
<1>2. todo \in Seq(OpRecord) /\ Ends(todo) /\ Releases(todo) /\ (Dataless(todo) \/ src # <<>>) /\ src \in Pieces
  BY DEF Writing, Answering
<1>3. /\ Head(todo) \in OpRecord /\ Head(todo) = todo[1] /\ 1 \in DOMAIN todo
      /\ Tail(todo) \in Seq(OpRecord) /\ Ends(Tail(todo)) /\ Releases(Tail(todo)) /\ Tail(todo) # <<>>
  <2>1. 1 \in DOMAIN todo BY <1>1, <1>2
  <2> QED BY <1>1, <1>2, <2>1, Rest
<1>4. n \in Nat /\ src # <<>> BY <1>1, <1>2, <1>3 DEF OpRecord, Dataless
<1>5. src' \in Pieces /\ src' # <<>> BY <1>1, <1>2, <1>4, Remains
<1>6. read \in Seq(Int)
  <2>1. PICK b \in Seq(Int) : b = PiecesBytes(src) BY <1>2, BytesOf
  <2>2. LeastOf(n, Len(b)) \in 0..Len(b) BY <1>4 DEF LeastOf
  <2>3. SubSeq(b, 1, LeastOf(n, Len(b))) \in Seq(Int) BY <2>2
  <2> QED BY <2>1, <2>3
<1> HIDE DEF read, n
<1>7. put \in Seq(OpRecord) /\ Waitless(put)
  <2>1. <<>> \in Seq(OpRecord) /\ Waitless(<<>>) BY DEF Waitless
  <2>2. Bytes("byte", read) \in Seq(Token) BY <1>6, BytesTyped
  <2>3. Put(Bytes("byte", read)) \in OpRecord /\ Put(Bytes("byte", read)).op = "put" BY <2>2, Operations
  <2>4. <<Put(Bytes("byte", read))>> \in Seq(OpRecord) /\ Waitless(<<Put(Bytes("byte", read))>>)
    BY <2>3, Short
  <2> QED BY <2>1, <2>4
<1>8. next \in Seq(OpRecord) /\ next # <<>> /\ Ends(next) /\ Releases(next)
  <2>1. Op("fail", <<>>, 0) \in OpRecord /\ Op("fail", <<>>, 0).op = "fail" BY Operations
  <2>2. /\ <<Op("fail", <<>>, 0)>> \in Seq(OpRecord) /\ <<Op("fail", <<>>, 0)>> # <<>>
        /\ Last(<<Op("fail", <<>>, 0)>>) = Op("fail", <<>>, 0) /\ Waitless(<<Op("fail", <<>>, 0)>>)
    BY <2>1, Short
  <2>3. Releases(<<Op("fail", <<>>, 0)>>) BY <2>2, Concatenated
  <2>4. Ends(<<Op("fail", <<>>, 0)>>) BY <2>1, <2>2 DEF Ends
  <2> QED BY <1>3, <2>2, <2>3, <2>4
<1> HIDE DEF put, next
<1>9. todo' \in Seq(OpRecord) /\ todo' # <<>> /\ Ends(todo') /\ Releases(todo')
  BY <1>1, <1>7, <1>8, Concatenated DEF Ends
<1> QED BY <1>1, <1>5, <1>9

\* A change of a file: one piece has other bytes, and the counts say how many more or fewer.
LEMMA Edits ==
    ASSUME src \in Pieces, FileChanges
    PROVE  \E i \in DOMAIN src, d \in Seq(Int) :
              /\ src' = [src EXCEPT ![i].data = d]
              /\ \/ Len(d) = Len(src[i].data) + 1 /\ edited' = [edited EXCEPT !.append = @ + 1]
                 \/ Len(d) + 1 = Len(src[i].data) /\ edited' = [edited EXCEPT !.truncate = @ + 1]
                 \/ Len(d) = Len(src[i].data) /\ edited' = [edited EXCEPT !.overwrite = @ + 1]
<1>1. PICK i \in DOMAIN src :
          \/ /\ src' = [src EXCEPT ![i].data = Append(src[i].data, 99)]
             /\ edited' = [edited EXCEPT !.append = @ + 1]
          \/ /\ src[i].data # <<>> /\ src' = [src EXCEPT ![i].data = Front(src[i].data)]
             /\ edited' = [edited EXCEPT !.truncate = @ + 1]
          \/ /\ \E j \in DOMAIN src[i].data : src' = [src EXCEPT ![i].data = [src[i].data EXCEPT ![j] = 99]]
             /\ edited' = [edited EXCEPT !.overwrite = @ + 1]
  BY DEF FileChanges
<1>2. PICK old \in Seq(Int) : old = src[i].data
  <2>1. src[i] \in PieceRecord BY DEF Pieces
  <2> QED BY <2>1 DEF PieceRecord
<1>3. Append(old, 99) \in Seq(Int) /\ Len(Append(old, 99)) = Len(old) + 1 OBVIOUS
<1>4. ASSUME old # <<>>  PROVE Front(old) \in Seq(Int) /\ Len(Front(old)) + 1 = Len(old)
  <2>1. PICK k \in Nat : k = Len(old) - 1 /\ k + 1 = Len(old) BY <1>4
  <2>2. \A j \in 1..k : old[j] \in Int BY <2>1
  <2>3. SubSeq(old, 1, k) \in Seq(Int) /\ Len(SubSeq(old, 1, k)) = IF 1 <= k THEN k - 1 + 1 ELSE 0
    BY <2>2, SubSeqProperties
  <2> QED BY <2>1, <2>3 DEF Front
<1>5. \A j \in DOMAIN old : [old EXCEPT ![j] = 99] \in Seq(Int) /\ Len([old EXCEPT ![j] = 99]) = Len(old) OBVIOUS
<1>6. CASE src' = [src EXCEPT ![i].data = Append(old, 99)] /\ edited' = [edited EXCEPT !.append = @ + 1]
  BY <1>2, <1>3, <1>6
<1>7. CASE old # <<>> /\ src' = [src EXCEPT ![i].data = Front(old)] /\ edited' = [edited EXCEPT !.truncate = @ + 1]
  BY <1>2, <1>4, <1>7
<1>8. ASSUME NEW j \in DOMAIN old, src' = [src EXCEPT ![i].data = [old EXCEPT ![j] = 99]],
             edited' = [edited EXCEPT !.overwrite = @ + 1]
      PROVE  \E d \in Seq(Int) : Len(d) = Len(old) /\ src' = [src EXCEPT ![i].data = d]
  BY <1>5, <1>8
<1> QED BY <1>1, <1>2, <1>6, <1>7, <1>8

\* What is left to write stays well formed.
LEMMA StepWriting ==
    ASSUME Writing, Answering, Buffering, Next
    PROVE  Writing'
<1>none. ASSUME todo' = <<>>  PROVE Writing'
  BY <1>none DEF Writing, Ends, Releases, Dataless
<1>same. ASSUME todo' = todo, src' = src, pc' # "write" => todo = <<>>  PROVE Writing'
  BY <1>same DEF Writing, Ends, Releases, Dataless
<1>tail. ASSUME todo # <<>>, pc = "write", todo' = Tail(todo), pc' = pc, src' = src  PROVE Writing'
  <2>1. /\ Tail(todo) \in Seq(OpRecord) /\ Ends(Tail(todo)) /\ Releases(Tail(todo))
        /\ Dataless(Tail(todo)) \/ src # <<>>
    BY <1>tail, Rest DEF Writing
  <2> QED BY <1>tail, <2>1 DEF Writing, Ends, Releases, Dataless
<1>left. ASSUME Leave("close") \/ Leave("abort")  PROVE Writing'
  BY <1>left, <1>none DEF Leave
<1> USE DEF At, ReadError, ProcessFails, WriteFails, Done, BodyEnds, Step, reading, serving,
     writing, closing, handling
<1>1. CASE ReadBegins BY <1>none, <1>same, <1>tail, <1>left, <1>1 DEF ReadBegins, Writing
<1>2. CASE ReadToken BY <1>none, <1>same, <1>tail, <1>left, <1>2 DEF ReadToken, Writing
<1>3. CASE Serve BY <1>none, <1>same, <1>tail, <1>left, <1>3 DEF Serve, Writing
<1>4. CASE Continue BY <1>none, <1>same, <1>tail, <1>left, <1>4 DEF Continue, Writing
<1>5. CASE DelayCancelled BY <1>none, <1>same, <1>tail, <1>left, <1>5 DEF DelayCancelled, Writing
<1>6. CASE Build BY <1>none, <1>same, <1>tail, <1>left, <1>6 DEF Build, Writing
<1>7. CASE Post BY <1>none, <1>same, <1>tail, <1>left, <1>7 DEF Post, Writing
<1>8. CASE Respond
  <2>1. resp \in ResponseRecord /\ (resp.stream /\ resp.plan.count > 0 => src # <<>>) BY DEF Answering
  <2>2. todo' = ResponseOps(resp) /\ src' = src /\ pc' = "write" BY <1>8 DEF Respond
  <2>3. /\ ResponseOps(resp) \in Seq(OpRecord) /\ Last(ResponseOps(resp)).op = "flush"
        /\ Releases(ResponseOps(resp)) /\ (Dataless(ResponseOps(resp)) \/ src # <<>>)
    BY <2>1, Responded
  <2> QED BY <2>2, <2>3 DEF Writing, Ends, Releases, Dataless
<1>9. CASE WritePut BY <1>none, <1>same, <1>tail, <1>left, <1>9 DEF WritePut, Refused
<1>10. CASE WriteFlush BY <1>none, <1>same, <1>tail, <1>left, <1>10 DEF WriteFlush, Refused
<1>11. CASE Open BY <1>none, <1>same, <1>tail, <1>left, <1>11 DEF Open
<1>12. CASE Wait
  <2>1. CASE ctx = "ended" BY <1>12, <1>left, <2>1 DEF Wait
  <2>2. CASE ctx # "ended"
    <3>1. /\ pc = "write" /\ todo # <<>> /\ Head(todo).op = "wait" /\ src' = src /\ pc' = pc
          /\ todo' = IF DeadlinePassed THEN Stopped
                     ELSE <<[Head(todo) EXCEPT !.op = "sleep"]>> \o Tail(todo)
      BY <1>12, <2>2 DEF Wait
    <3>2. todo \in Seq(OpRecord) /\ Ends(todo) /\ Releases(todo) /\ (Dataless(todo) \/ src # <<>>)
      BY DEF Writing
    <3>3. /\ todo' \in Seq(OpRecord) /\ Ends(todo') /\ Releases(todo')
          /\ Dataless(todo') \/ src # <<>>
      <4>1. CASE DeadlinePassed BY Stopping, <3>1, <3>2, <4>1
      <4>2. CASE ~DeadlinePassed BY <3>1, <3>2, <4>2, Asleep
      <4> QED BY <4>1, <4>2
    <3> QED BY <3>1, <3>3 DEF Writing, Ends, Releases, Dataless
  <2> QED BY <2>1, <2>2
<1>13. CASE Sleep
  <2>1. CASE Leave("abort") BY <1>left, <2>1
  <2>2. CASE Done(Tail(todo)) /\ src' = src BY <1>13, <1>tail, <2>2 DEF Sleep
  <2>3. CASE Done(Stopped) /\ src' = src
    <3>1. /\ pc = "write" /\ todo # <<>> /\ Head(todo).op = "sleep" /\ src' = src /\ pc' = pc /\ todo' = Stopped
      BY <1>13, <2>3 DEF Sleep
    <3>2. /\ todo' \in Seq(OpRecord) /\ Ends(todo') /\ Releases(todo') /\ (Dataless(todo') \/ src # <<>>)
      BY Stopping, <3>1
    <3> QED BY <3>1, <3>2 DEF Writing, Ends, Releases, Dataless
  <2> QED BY <1>13, <2>1, <2>2, <2>3 DEF Sleep
<1>14. CASE Data
  <2>1. /\ pc = "write" /\ pc' = pc /\ src' # <<>>
        /\ todo' \in Seq(OpRecord) /\ todo' # <<>> /\ Ends(todo') /\ Releases(todo')
    BY <1>14, Sending
  <2> QED BY <2>1 DEF Writing, Ends, Releases, Dataless
<1>15. CASE Verify BY <1>none, <1>same, <1>tail, <1>left, <1>15 DEF Verify
<1>16. CASE SourceShort BY <1>none, <1>same, <1>tail, <1>left, <1>16 DEF SourceShort
<1>17. CASE CloseReader BY <1>none, <1>same, <1>tail, <1>left, <1>17 DEF CloseReader
<1>18. CASE Written BY <1>none, <1>same, <1>tail, <1>left, <1>18 DEF Written
<1>19. CASE Over BY <1>none, <1>same, <1>tail, <1>left, <1>19 DEF Over, Writing
<1>20. CASE ReadFails BY <1>none, <1>same, <1>tail, <1>left, <1>20 DEF ReadFails, Writing, Buffering
<1>21. CASE NetDone BY <1>none, <1>same, <1>tail, <1>left, <1>21 DEF NetDone, Writing, Buffering
<1>22. CASE NetFails BY <1>none, <1>same, <1>tail, <1>left, <1>22 DEF NetFails, Writing
<1>23. CASE CtxEnds BY <1>none, <1>same, <1>tail, <1>left, <1>23 DEF CtxEnds, Writing
<1>24. CASE Tick BY <1>none, <1>same, <1>tail, <1>left, <1>24 DEF Tick
<1>25. CASE FileChanges
  <2>1. src \in Pieces /\ todo' = todo /\ pc' = pc BY <1>25 DEF FileChanges, Answering
  <2>2. PICK i \in DOMAIN src : \E d : src' = [src EXCEPT ![i].data = d] BY <1>25, <2>1, Edits
  <2>3. src' # <<>>
    <3>1. PICK d : src' = [src EXCEPT ![i].data = d] BY <2>2
    <3>2. DOMAIN src' = DOMAIN src /\ i \in DOMAIN src' BY <2>1, <3>1 DEF Pieces
    <3> QED BY <3>2
  <2> QED BY <2>1, <2>3 DEF Writing, Ends, Releases, Dataless
<1>26. CASE StopBegins BY <1>none, <1>same, <1>tail, <1>left, <1>26 DEF StopBegins, Writing
<1>27. ASSUME NEW c \in Closers, CloseSocket(c)  PROVE Writing' BY <1>same, <1>27 DEF CloseSocket, Writing
<1>28. ASSUME NEW c \in Closers, EnterOnce(c)  PROVE Writing' BY <1>same, <1>28 DEF EnterOnce, Writing
<1>29. ASSUME NEW c \in Closers, CloseWriter(c)  PROVE Writing' BY <1>same, <1>29 DEF CloseWriter, Writing
<1>30. ASSUME NEW c \in Closers, CloseReaderBuffer(c)  PROVE Writing'
  BY <1>same, <1>30 DEF CloseReaderBuffer, Writing
<1>31. CASE Finished BY <1>same, <1>31 DEF Finished, vars, Writing
<1> QED
  BY <1>1, <1>2, <1>3, <1>4, <1>5, <1>6, <1>7, <1>8, <1>9, <1>10, <1>11, <1>12, <1>13,
     <1>14, <1>15, <1>16, <1>17, <1>18, <1>19, <1>20, <1>21, <1>22, <1>23, <1>24, <1>25,
     <1>26, <1>27, <1>28, <1>29, <1>30, <1>31
     DEF Next, Handle, Environment, Close

\* The writer's buffer is empty again when the response is written.
LEMMA StepBuffering ==
    ASSUME Buffering, Writing, Answering, Meeting, Next
    PROVE  Buffering'
<1>same. ASSUME UNCHANGED <<wbuf, after, io, pc, todo>>  PROVE Buffering'
  BY <1>same DEF Buffering
<1>none. ASSUME io' = "none", UNCHANGED <<wbuf, after>>, pc' # "write", pc \notin {"write", "close", "over"}
         PROVE  Buffering'
  BY <1>none DEF Buffering
<1>left. ASSUME Leave("close") \/ Leave("abort"), UNCHANGED <<wbuf, after>>  PROVE Buffering'
  BY <1>left DEF Buffering, Leave
<1>more. ASSUME pc = "write", pc' = "write", io' = "none", todo' # <<>>, UNCHANGED <<wbuf, after>>
         PROVE  Buffering'
  BY <1>more DEF Buffering
<1>fits. ASSUME NEW a \in Seq(Token), NEW b \in Seq(Token)
         PROVE  a \o b \in Seq(Token) /\ Len(a \o b) = Len(a) + Len(b)
  OBVIOUS
<1> USE DEF At, ReadError, ProcessFails, WriteFails, Done, BodyEnds, Step, reading, serving,
     writing, closing, handling
<1>1. CASE ReadBegins BY <1>same, <1>none, <1>left, <1>more, <1>1 DEF ReadBegins, Buffering
<1>2. CASE ReadToken BY <1>same, <1>none, <1>left, <1>more, <1>2 DEF ReadToken, Buffering
<1>3. CASE Serve BY <1>same, <1>none, <1>left, <1>more, <1>3 DEF Serve, Buffering
<1>4. CASE Continue
  <2>1. CASE ProcessFails /\ UNCHANGED writing BY <1>4, <1>none, <2>1 DEF Continue
  <2>2. CASE io' = "out" /\ after' = <<>> /\ UNCHANGED <<pc, todo, wbuf>>
    BY <1>4, <2>2 DEF Continue, Buffering
  <2> QED BY <1>4, <2>1, <2>2 DEF Continue
<1>5. CASE DelayCancelled BY <1>same, <1>none, <1>left, <1>more, <1>5 DEF DelayCancelled, Buffering
<1>6. CASE Build BY <1>same, <1>none, <1>left, <1>more, <1>6 DEF Build, Buffering
<1>7. CASE Post BY <1>same, <1>none, <1>left, <1>more, <1>7 DEF Post, Buffering
<1>8. CASE Respond
  <2>1. pc = "respond" /\ UNCHANGED <<wbuf, after, io>> BY <1>8 DEF Respond
  <2> QED BY <1>8, <2>1 DEF Buffering, Respond
<1>9. CASE WritePut
  <2>1. todo # <<>> /\ pc = "write" /\ io = "none" /\ Head(todo).op = "put" BY <1>9 DEF WritePut
  <2>2. todo \in Seq(OpRecord) /\ Ends(todo) /\ wbuf \in Seq(Token) /\ after \in Seq(Token)
    BY DEF Writing, Buffering
  <2>3. Head(todo) \in OpRecord /\ Tail(todo) # <<>> BY <2>1, <2>2, Rest
  <2>4. PICK toks \in Seq(Token) : toks = Head(todo).toks BY <2>3 DEF OpRecord
  <2>5. CASE WriteFails /\ UNCHANGED writing BY <1>left, <2>5
  <2>6. CASE Len(wbuf) + Len(toks) <= BufferSize /\ wbuf' = wbuf \o toks /\ Done(Tail(todo))
    <3>1. wbuf \o toks \in Seq(Token) /\ Len(wbuf \o toks) = Len(wbuf) + Len(toks) BY <1>fits, <2>2, <2>4
    <3>2. wbuf' \in Seq(Token) /\ Len(wbuf') <= BufferSize BY <2>6, <3>1
    <3> QED BY <2>1, <2>2, <2>3, <2>6, <3>2 DEF Buffering
  <2>7. CASE io' = "out" /\ after' = toks /\ UNCHANGED <<pc, todo, wbuf>>
    BY <2>1, <2>4, <2>7 DEF Buffering
  <2> QED BY <1>9, <2>4, <2>5, <2>6, <2>7 DEF WritePut
<1>10. CASE WriteFlush
  <2>1. todo # <<>> /\ pc = "write" /\ io = "none" /\ Head(todo).op = "flush" BY <1>10 DEF WriteFlush
  <2>2. CASE WriteFails /\ UNCHANGED writing BY <1>left, <2>2
  <2>3. CASE wbuf = <<>> /\ Done(Tail(todo)) /\ UNCHANGED wbuf BY <2>1, <2>3 DEF Buffering
  <2>4. CASE io' = "out" /\ after' = <<>> /\ UNCHANGED <<pc, todo, wbuf>> BY <2>1, <2>4 DEF Buffering
  <2> QED BY <1>10, <2>2, <2>3, <2>4 DEF WriteFlush
<1>11. CASE Open
  <2>1. CASE WriteFails /\ UNCHANGED writing BY <1>11, <1>left, <2>1
  <2>2. CASE Done(Tail(todo)) /\ UNCHANGED wbuf
    <3>1. At("open") BY <1>11 DEF Open
    <3>2. todo # <<>> /\ pc = "write" /\ io = "none" /\ Head(todo).op = "open" BY <3>1
    <3>3. Tail(todo) # <<>> BY <3>2, Rest DEF Writing
    <3> QED BY <1>more, <2>2, <3>2, <3>3
  <2> QED BY <1>11, <2>1, <2>2 DEF Open
<1>12. CASE Wait
  <2>1. CASE WriteFails /\ UNCHANGED writing BY <1>left, <2>1
  <2>2. CASE ctx # "ended"
    <3>1. /\ pc = "write" /\ io = "none" /\ todo # <<>> /\ Head(todo).op = "wait"
          /\ UNCHANGED <<pc, io, wbuf, after>>
          /\ todo' = IF DeadlinePassed THEN Stopped
                     ELSE <<[Head(todo) EXCEPT !.op = "sleep"]>> \o Tail(todo)
      BY <1>12, <2>2 DEF Wait
    <3>2. todo' # <<>>
      <4>1. CASE DeadlinePassed BY <3>1, <4>1, Stopping
      <4>2. CASE ~DeadlinePassed BY <3>1, <4>2, Asleep DEF Writing
      <4> QED BY <4>1, <4>2
    <3> QED BY <1>more, <3>1, <3>2
  <2> QED BY <1>12, <2>1, <2>2 DEF Wait
<1>13. CASE Sleep
  <2>1. todo # <<>> /\ pc = "write" /\ io = "none" /\ Head(todo).op = "sleep" BY <1>13 DEF Sleep
  <2>2. CASE WriteFails /\ UNCHANGED writing BY <1>left, <2>2
  <2>3. CASE UNCHANGED <<pc, io, wbuf, after>> /\ todo' \in {Stopped, Tail(todo)}
    <3>1. Stopped # <<>> BY <2>1, Stopping
    <3>2. Tail(todo) # <<>> BY <2>1, Rest DEF Writing
    <3> QED BY <1>more, <2>1, <2>3, <3>1, <3>2
  <2> QED BY <1>13, <2>2, <2>3 DEF Sleep
<1>14. CASE Data
  <2>1. todo' # <<>> /\ pc = "write" BY <1>14, Sending
  <2>2. io = "none" /\ UNCHANGED <<pc, io, wbuf, after>> BY <1>14 DEF Data
  <2> QED BY <1>more, <2>1, <2>2
<1>15. CASE Verify
  <2>1. CASE WriteFails /\ UNCHANGED writing BY <1>15, <1>left, <2>1
  <2>2. CASE Done(Tail(todo)) /\ UNCHANGED wbuf
    <3>1. At("verify") BY <1>15 DEF Verify
    <3>2. todo # <<>> /\ pc = "write" /\ io = "none" /\ Head(todo).op = "verify" BY <3>1
    <3>3. Tail(todo) # <<>> BY <3>2, Rest DEF Writing
    <3> QED BY <1>more, <2>2, <3>2, <3>3
  <2> QED BY <1>15, <2>1, <2>2 DEF Verify
<1>16. CASE SourceShort BY <1>same, <1>none, <1>left, <1>more, <1>16 DEF SourceShort, Buffering
<1>17. CASE CloseReader
  <2>1. CASE WriteFails /\ UNCHANGED writing BY <1>17, <1>left, <2>1
  <2>2. CASE Done(Tail(todo)) /\ UNCHANGED wbuf
    <3>1. At("release") BY <1>17 DEF CloseReader
    <3>2. todo # <<>> /\ pc = "write" /\ io = "none" /\ Head(todo).op = "release" BY <3>1
    <3>3. Tail(todo) # <<>> BY <3>2, Rest DEF Writing
    <3> QED BY <1>more, <2>2, <3>2, <3>3
  <2> QED BY <1>17, <2>1, <2>2 DEF CloseReader
<1>18. CASE Written BY <1>same, <1>none, <1>left, <1>more, <1>18 DEF Written, Buffering
<1>19. CASE Over BY <1>same, <1>none, <1>left, <1>more, <1>19 DEF Over, Buffering
<1>20. CASE ReadFails BY <1>same, <1>none, <1>left, <1>more, <1>20 DEF ReadFails, Buffering
<1>21. CASE NetDone
  <2>1. /\ wbuf \in Seq(Token) /\ Len(wbuf) <= BufferSize /\ after \in Seq(Token) /\ BufferSize \in Nat \ {0}
        /\ \/ pc = "continue" /\ after = <<>>
           \/ pc = "write" /\ todo # <<>> /\ Head(todo).op = "put"
           \/ pc = "write" /\ todo # <<>> /\ Head(todo).op = "flush" /\ after = <<>>
    BY <1>21, ExchangeAssumption DEF NetDone, Buffering, ExchangeAssumption
  <2>2. <<>> \in Seq(Token) /\ Len(<<>>) = 0 OBVIOUS
  <2>3. CASE Len(after) >= BufferSize
    <3>1. after' = <<>> /\ wbuf' = <<>> /\ UNCHANGED <<pc, io, todo>> BY <1>21, <2>3 DEF NetDone
    <3> QED BY <1>21, <2>1, <2>2, <2>3, <3>1 DEF Buffering, NetDone
  <2>4. CASE ~(Len(after) >= BufferSize)
    <3>1. after' = <<>> /\ wbuf' = after /\ io' = "none" BY <1>21, <2>4 DEF NetDone
    <3>2. Len(after) \in Nat BY <2>1
    <3>3. wbuf' \in Seq(Token) /\ Len(wbuf') <= BufferSize /\ after' \in Seq(Token)
      BY <2>1, <2>2, <2>4, <3>1, <3>2
    <3>4. CASE pc = "continue"
      <4>1. pc' = "rest" BY <1>21, <2>4, <3>4 DEF NetDone
      <4> QED BY <2>1, <3>1, <3>3, <3>4, <4>1 DEF Buffering
    <3>5. CASE pc = "write"
      <4>1. pc' = pc /\ todo' = Tail(todo) BY <1>21, <2>4, <3>5 DEF NetDone
      <4>2. Head(todo).op = "put" => Tail(todo) # <<>> BY <2>1, <3>5, Rest DEF Writing
      <4> QED BY <2>1, <3>1, <3>3, <3>5, <4>1, <4>2 DEF Buffering
    <3> QED BY <2>1, <3>4, <3>5
  <2> QED BY <2>3, <2>4
<1>22. CASE NetFails
  <2>1. wbuf' = <<>> /\ after' = <<>> BY <1>22 DEF NetFails
  <2>2. <<>> \in Seq(Token) /\ Len(<<>>) = 0 /\ 0 <= BufferSize
    BY ExchangeAssumption DEF ExchangeAssumption
  <2>3. pc' # "write" /\ io' = "none" BY <1>22 DEF NetFails, Leave
  <2> QED BY <2>1, <2>2, <2>3 DEF Buffering
<1>23. CASE CtxEnds BY <1>same, <1>none, <1>left, <1>more, <1>23 DEF CtxEnds, Buffering
<1>24. CASE Tick BY <1>same, <1>none, <1>left, <1>more, <1>24 DEF Tick, Buffering
<1>25. CASE FileChanges BY <1>same, <1>none, <1>left, <1>more, <1>25 DEF FileChanges, Buffering
<1>26. CASE StopBegins BY <1>same, <1>none, <1>left, <1>more, <1>26 DEF StopBegins, Buffering
<1>27. ASSUME NEW c \in Closers, CloseSocket(c)  PROVE Buffering'
  BY <1>same, <1>27 DEF CloseSocket, Buffering
<1>28. ASSUME NEW c \in Closers, EnterOnce(c)  PROVE Buffering' BY <1>same, <1>28 DEF EnterOnce, Buffering
<1>29. ASSUME NEW c \in Closers, CloseWriter(c)  PROVE Buffering'
  <2>1. wbuf' = <<>> /\ UNCHANGED <<after, io, pc, todo>> BY <1>29 DEF CloseWriter
  <2>2. <<>> \in Seq(Token) /\ Len(<<>>) = 0 /\ 0 <= BufferSize
    BY ExchangeAssumption DEF ExchangeAssumption
  <2> QED BY <2>1, <2>2 DEF Buffering
<1>30. ASSUME NEW c \in Closers, CloseReaderBuffer(c)  PROVE Buffering'
  BY <1>same, <1>30 DEF CloseReaderBuffer, Buffering
<1>31. CASE Finished BY <1>same, <1>31 DEF Finished, vars, Buffering
<1> QED
  BY <1>1, <1>2, <1>3, <1>4, <1>5, <1>6, <1>7, <1>8, <1>9, <1>10, <1>11, <1>12, <1>13,
     <1>14, <1>15, <1>16, <1>17, <1>18, <1>19, <1>20, <1>21, <1>22, <1>23, <1>24, <1>25,
     <1>26, <1>27, <1>28, <1>29, <1>30, <1>31
     DEF Next, Handle, Environment, Close

\* A response can be written, whatever ended its processing.
LEMMA StepAnswering ==
    ASSUME Answering, Writing, Receiving, Selecting, Next
    PROVE  Answering'
<1>same. ASSUME UNCHANGED <<resp, src>>  PROVE Answering' BY <1>same DEF Answering
<1>error. ASSUME resp' = ErrorResponse, src' = src  PROVE Answering'
  BY <1>error, Failures DEF Answering
<1> USE DEF At, ReadError, ProcessFails, WriteFails, Done, BodyEnds, Step, reading, serving,
     writing, closing, handling
<1>1. CASE ReadBegins BY <1>same, <1>error, <1>1 DEF ReadBegins, Leave
<1>2. CASE ReadToken BY <1>same, <1>error, <1>2 DEF ReadToken, Leave
<1>3. CASE Serve
  <2>1. CASE resp' = ErrorResponse /\ src' = src BY <1>error, <2>1
  <2>2. CASE resp' = Response(204, "none", <<>>, -1) /\ src' = src
    <3>1. PICK n \in Int : n = 204 OBVIOUS
    <3>2. Response(n, "none", <<>>, -1) \in ResponseRecord /\ Response(n, "none", <<>>, -1).stream = FALSE
      BY NothingToSend
    <3>3. resp' \in ResponseRecord /\ resp'.stream = FALSE BY <2>2, <3>1, <3>2
    <3> QED BY <2>2, <3>3 DEF Answering
  <2> QED BY <1>3, <2>1, <2>2 DEF Serve
<1>4. CASE Continue BY <1>same, <1>error, <1>4 DEF Continue
<1>5. CASE DelayCancelled BY <1>same, <1>error, <1>5 DEF DelayCancelled
<1>6. CASE Build
  <2>1. CASE resp' = ErrorResponse /\ src' = src BY <1>error, <2>1
  <2>2. ASSUME NEW r \in IF tmpl[1].base.error THEN {BuildFailed({})} ELSE BuildResponse(tmpl[1].base, Query),
               r.ok, resp' = r, src' = r.pieces
        PROVE  Answering'
    <3>1. tmpl[1].base \in Template BY <1>6 DEF Build, Selecting
    <3>2. Messages(Query.msgs) BY DEF Receiving, Query
    <3>3. BuildFailed({}).ok = FALSE BY Failures
    <3>4. r \in BuildResponse(tmpl[1].base, Query) BY <2>2, <3>3
    <3>5. r \in ResponseRecord /\ (r.stream /\ r.plan.count > 0 => r.pieces # <<>>)
      BY <3>1, <3>2, <3>4, Built
    <3>6. r.pieces \in Pieces BY <3>5 DEF ResponseRecord
    <3> QED BY <2>2, <3>5, <3>6 DEF Answering
  <2> QED BY <1>6, <2>1, <2>2 DEF Build
<1>7. CASE Post
  <2>1. CASE resp' = ErrorResponse /\ src' = src BY <1>error, <2>1
  <2>2. CASE resp' = Response(204, "none", <<>>, -1) /\ src' = src
    <3>1. PICK n \in Int : n = 204 OBVIOUS
    <3>2. Response(n, "none", <<>>, -1) \in ResponseRecord /\ Response(n, "none", <<>>, -1).stream = FALSE
      BY NothingToSend
    <3>3. resp' \in ResponseRecord /\ resp'.stream = FALSE BY <2>2, <3>1, <3>2
    <3> QED BY <2>2, <3>3 DEF Answering
  <2> QED BY <1>7, <1>same, <2>1, <2>2 DEF Post
<1>8. CASE Respond BY <1>same, <1>error, <1>8 DEF Respond
<1>9. CASE WritePut BY <1>same, <1>error, <1>9 DEF WritePut, Refused
<1>10. CASE WriteFlush BY <1>same, <1>error, <1>10 DEF WriteFlush
<1>11. CASE Open BY <1>same, <1>error, <1>11 DEF Open, Leave
<1>12. CASE Wait BY <1>same, <1>error, <1>12 DEF Wait, Leave
<1>13. CASE Sleep BY <1>same, <1>error, <1>13 DEF Sleep, Leave
<1>14. CASE Data
  <2>1. src' \in Pieces /\ src' # <<>> BY <1>14, Sending
  <2>2. resp' = resp BY <1>14 DEF Data
  <2> QED BY <2>1, <2>2 DEF Answering
<1>15. CASE Verify BY <1>same, <1>error, <1>15 DEF Verify, Leave
<1>16. CASE SourceShort BY <1>same, <1>error, <1>16 DEF SourceShort, Leave
<1>17. CASE CloseReader BY <1>same, <1>error, <1>17 DEF CloseReader
<1>18. CASE Written BY <1>same, <1>error, <1>18 DEF Written
<1>19. CASE Over BY <1>same, <1>error, <1>19 DEF Over
<1>20. CASE ReadFails BY <1>same, <1>error, <1>20 DEF ReadFails, Leave
<1>21. CASE NetDone BY <1>same, <1>error, <1>21 DEF NetDone
<1>22. CASE NetFails BY <1>same, <1>error, <1>22 DEF NetFails, Leave
<1>23. CASE CtxEnds BY <1>same, <1>error, <1>23 DEF CtxEnds
<1>24. CASE Tick BY <1>same, <1>error, <1>24 DEF Tick
<1>25. CASE FileChanges
  <2>1. src \in Pieces /\ resp' = resp BY <1>25 DEF FileChanges, Answering
  <2>2. PICK i \in DOMAIN src, d \in Seq(Int) : src' = [src EXCEPT ![i].data = d] BY <1>25, <2>1, Edits
  <2>3. src \in Seq(PieceRecord) /\ src[i] \in PieceRecord BY <2>1 DEF Pieces
  <2>8. ASSUME NEW x \in PieceRecord  PROVE [x EXCEPT !.data = d] \in PieceRecord BY DEF PieceRecord
  <2>9. src' = [src EXCEPT ![i] = [src[i] EXCEPT !.data = d]] BY <2>2
  <2>10. src' \in Seq(PieceRecord) /\ Len(src') = Len(src) BY <2>3, <2>8, <2>9
  <2>11. src' # <<>> BY <2>3, <2>10
  <2> QED BY <2>1, <2>10, <2>11 DEF Answering, Pieces
<1>26. CASE StopBegins BY <1>same, <1>error, <1>26 DEF StopBegins
<1>27. ASSUME NEW c \in Closers, CloseSocket(c)  PROVE Answering' BY <1>same, <1>27 DEF CloseSocket
<1>28. ASSUME NEW c \in Closers, EnterOnce(c)  PROVE Answering' BY <1>same, <1>28 DEF EnterOnce
<1>29. ASSUME NEW c \in Closers, CloseWriter(c)  PROVE Answering' BY <1>same, <1>29 DEF CloseWriter
<1>30. ASSUME NEW c \in Closers, CloseReaderBuffer(c)  PROVE Answering'
  BY <1>same, <1>30 DEF CloseReaderBuffer
<1>31. CASE Finished BY <1>same, <1>31 DEF Finished, vars
<1> QED
  BY <1>1, <1>2, <1>3, <1>4, <1>5, <1>6, <1>7, <1>8, <1>9, <1>10, <1>11, <1>12, <1>13,
     <1>14, <1>15, <1>16, <1>17, <1>18, <1>19, <1>20, <1>21, <1>22, <1>23, <1>24, <1>25,
     <1>26, <1>27, <1>28, <1>29, <1>30, <1>31
     DEF Next, Handle, Environment, Close

\* A delayed or continued request has its one template.
LEMMA StepSelecting ==
    ASSUME Selecting, Writing, Meeting, Buffering, Next
    PROVE  Selecting'
<1>same. ASSUME UNCHANGED <<pc, tmpl>>  PROVE Selecting' BY <1>same DEF Selecting
<1>past. ASSUME pc' \notin {"preview", "body", "serve", "continue", "rest", "delay"}  PROVE Selecting'
  BY <1>past DEF Selecting
<1>next. ASSUME tmpl' = tmpl, \/ pc \in {"preview", "body"} /\ pc' = "serve"
                              \/ pc = "continue" /\ pc' = "rest"
                              \/ pc = "rest" /\ pc' = "delay"
         PROVE  Selecting'
  BY <1>next DEF Selecting
<1> USE DEF At, ReadError, ProcessFails, WriteFails, Done, BodyEnds, Step, reading, serving,
     writing, closing, handling
<1>1. CASE ReadBegins BY <1>same, <1>past, <1>next, <1>1 DEF ReadBegins, Leave
<1>2. CASE ReadToken BY <1>same, <1>past, <1>next, <1>2 DEF ReadToken, Leave
<1>3. CASE Serve
  <2>1. CASE pc' \in {"respond", "post"} BY <1>past, <2>1
  <2>2. ASSUME NEW t \in Selections, tmpl' = <<[base |-> t, variants |-> <<>>]>>, pc' \in {"continue", "delay"}
        PROVE  Selecting'
    <3>1. tmpl \in Templates /\ tmpl # <<>> BY <1>3, <2>2 DEF Serve, Selecting, Selections
    <3>2. t \in Template BY <2>2, <3>1, Selected DEF Selections
    <3>3. tmpl' # <<>> /\ tmpl'[1].base = t BY <2>2
    <3> QED BY <2>2, <3>2, <3>3 DEF Selecting
  <2> QED BY <1>3, <2>1, <2>2 DEF Serve
<1>4. CASE Continue BY <1>same, <1>past, <1>next, <1>4 DEF Continue, Selecting
<1>5. CASE DelayCancelled BY <1>same, <1>past, <1>next, <1>5 DEF DelayCancelled, Selecting
<1>6. CASE Build BY <1>same, <1>past, <1>next, <1>6 DEF Build, Selecting
<1>7. CASE Post BY <1>same, <1>past, <1>next, <1>7 DEF Post, Selecting
<1>8. CASE Respond BY <1>same, <1>past, <1>next, <1>8 DEF Respond, Selecting
<1>9. CASE WritePut BY <1>same, <1>past, <1>next, <1>9 DEF WritePut, Leave, Refused
<1>10. CASE WriteFlush BY <1>same, <1>past, <1>next, <1>10 DEF WriteFlush, Leave, Refused
<1>11. CASE Open BY <1>same, <1>past, <1>next, <1>11 DEF Open, Leave
<1>12. CASE Wait BY <1>same, <1>past, <1>next, <1>12 DEF Wait, Leave
<1>13. CASE Sleep BY <1>same, <1>past, <1>next, <1>13 DEF Sleep, Leave
<1>14. CASE Data BY <1>same, <1>past, <1>next, <1>14 DEF Data
<1>15. CASE Verify BY <1>same, <1>past, <1>next, <1>15 DEF Verify, Leave
<1>16. CASE SourceShort BY <1>same, <1>past, <1>next, <1>16 DEF SourceShort, Leave
<1>17. CASE CloseReader BY <1>same, <1>past, <1>next, <1>17 DEF CloseReader
<1>18. CASE Written BY <1>same, <1>past, <1>next, <1>18 DEF Written, Leave
<1>19. CASE Over BY <1>same, <1>past, <1>next, <1>19 DEF Over, Selecting
<1>20. CASE ReadFails BY <1>same, <1>past, <1>next, <1>20 DEF ReadFails, Leave, Buffering
<1>21. CASE NetDone BY <1>same, <1>past, <1>next, <1>21 DEF NetDone, Buffering
<1>22. CASE NetFails BY <1>same, <1>past, <1>next, <1>22 DEF NetFails, Leave, Buffering
<1>23. CASE CtxEnds BY <1>same, <1>past, <1>next, <1>23 DEF CtxEnds
<1>24. CASE Tick BY <1>same, <1>past, <1>next, <1>24 DEF Tick
<1>25. CASE FileChanges BY <1>same, <1>past, <1>next, <1>25 DEF FileChanges
<1>26. CASE StopBegins BY <1>same, <1>past, <1>next, <1>26 DEF StopBegins
<1>27. ASSUME NEW c \in Closers, CloseSocket(c)  PROVE Selecting' BY <1>same, <1>27 DEF CloseSocket
<1>28. ASSUME NEW c \in Closers, EnterOnce(c)  PROVE Selecting' BY <1>same, <1>28 DEF EnterOnce
<1>29. ASSUME NEW c \in Closers, CloseWriter(c)  PROVE Selecting' BY <1>same, <1>29 DEF CloseWriter
<1>30. ASSUME NEW c \in Closers, CloseReaderBuffer(c)  PROVE Selecting'
  BY <1>same, <1>30 DEF CloseReaderBuffer
<1>31. CASE Finished BY <1>same, <1>31 DEF Finished, vars
<1> QED
  BY <1>1, <1>2, <1>3, <1>4, <1>5, <1>6, <1>7, <1>8, <1>9, <1>10, <1>11, <1>12, <1>13,
     <1>14, <1>15, <1>16, <1>17, <1>18, <1>19, <1>20, <1>21, <1>22, <1>23, <1>24, <1>25,
     <1>26, <1>27, <1>28, <1>29, <1>30, <1>31
     DEF Next, Handle, Environment, Close

-----------------------------------------------------------------------------
(* Receiving the request *)

\* A message is replaced by another one, or marked.
LEMMA Marked ==
    ASSUME NEW m, Messages(m), NEW name, NEW x \in Message, NEW d \in Seq(Int)
    PROVE  /\ Messages([m EXCEPT ![name] = x])
           /\ [x EXCEPT !.failed = TRUE] \in Message
           /\ [x EXCEPT !.data = d, !.loaded = TRUE, !.reader = FALSE] \in Message
           /\ [x EXCEPT !.loaded = TRUE, !.reader = FALSE] \in Message
BY DEF Messages, Message

\* What was read stays within the limit, whatever comes.
LEMMA StepReceiving ==
    ASSUME Receiving, Next
    PROVE  Receiving'
<1>same. ASSUME UNCHANGED <<req, wire, got, msgs>>  PROVE Receiving'
  BY <1>same DEF Receiving, Messages
<1>error. ASSUME UNCHANGED <<req, wire, got>>,
                 msgs' = msgs \/ msgs' = [msgs EXCEPT ![Adapted(req)].failed = TRUE]
          PROVE  Receiving'
  <2>1. CASE msgs' = msgs BY <1>same, <1>error, <2>1
  <2>2. CASE msgs' = [msgs EXCEPT ![Adapted(req)].failed = TRUE]
    <3>1. CASE Adapted(req) \notin DOMAIN msgs
      <4>1. msgs' = msgs BY <2>2, <3>1 DEF Receiving, Messages
      <4> QED BY <1>same, <1>error, <4>1
    <3>2. CASE Adapted(req) \in DOMAIN msgs
      <4>1. msgs[Adapted(req)] \in Message BY <3>2 DEF Receiving, Messages
      <4>2. PICK x \in Message : x = [msgs[Adapted(req)] EXCEPT !.failed = TRUE] BY <4>1 DEF Message
      <4>3. msgs' = [msgs EXCEPT ![Adapted(req)] = x] BY <2>2, <4>2
      <4>4. PICK m : m = msgs' OBVIOUS
      <4>5. Messages([msgs EXCEPT ![Adapted(req)] = x]) BY <4>2, Marked DEF Receiving
      <4> QED BY <1>error, <4>3, <4>5 DEF Receiving, Messages
    <3> QED BY <3>1, <3>2
  <2> QED BY <1>error, <2>1, <2>2
<1> USE DEF At, ReadError, ProcessFails, WriteFails, Done, BodyEnds, Step, reading, serving,
     writing, closing, handling
<1>1. CASE ReadBegins
  <2>1. UNCHANGED <<req, wire, got>> /\ (msgs' = msgs \/ msgs' = [msgs EXCEPT ![Adapted(req)].failed = TRUE])
    BY <1>1 DEF ReadBegins
  <2> QED BY <1>error, <2>1
<1>2. CASE ReadToken
  <2> DEFINE tok == Head(Incoming)
  <2>1. Incoming \in Seq(ClientToken) /\ Incoming # <<>> BY <1>2 DEF ReadToken, Receiving, Incoming
  <2>2. tok \in ClientToken /\ Tail(Incoming) \in Seq(ClientToken) BY <2>1
  <2>3. PICK d \in Seq(Int) : d = tok.data BY <2>2 DEF ClientToken
  <2> HIDE DEF tok
  <2>4. CASE ReadError
    <3>1. UNCHANGED <<req, wire, got>> /\ (msgs' = msgs \/ msgs' = [msgs EXCEPT ![Adapted(req)].failed = TRUE])
      BY <2>4
    <3> QED BY <1>error, <3>1
  <2>5. CASE /\ ~TooLong(Len(got \o d)) /\ got' = got \o d /\ UNCHANGED <<req, msgs>>
             /\ wire' = IF pc = "rest" THEN [wire EXCEPT !.later = Tail(Incoming)]
                        ELSE [wire EXCEPT !.now = Tail(Incoming)]
    <3>1. got' \in Seq(Int) /\ ~TooLarge(Len(got')) BY <2>3, <2>5 DEF Receiving, TooLong
    <3>2. wire' \in [now : Seq(ClientToken), later : Seq(ClientToken)]
      <4>1. ASSUME NEW w \in [now : Seq(ClientToken), later : Seq(ClientToken)], NEW t \in Seq(ClientToken)
            PROVE  /\ [w EXCEPT !.later = t] \in [now : Seq(ClientToken), later : Seq(ClientToken)]
                   /\ [w EXCEPT !.now = t] \in [now : Seq(ClientToken), later : Seq(ClientToken)]
        OBVIOUS
      <4> QED BY <2>2, <2>5, <4>1 DEF Receiving
    <3> QED BY <2>5, <3>1, <3>2 DEF Receiving, Messages
  <2>6. ASSUME NEW kind, BodyEnds(kind), UNCHANGED wire  PROVE Receiving'
    <3> DEFINE name == OnTheWire(req)
               whole == [msgs[name] EXCEPT !.data = got, !.loaded = TRUE, !.reader = FALSE]
    <3>1. UNCHANGED <<req, wire, got>> BY <2>6
    <3>2. CASE msgs' = msgs BY <1>same, <3>1, <3>2
    <3>3. CASE name \in DOMAIN msgs /\ msgs' = [msgs EXCEPT ![name] = whole]
      <4>1. msgs[name] \in Message /\ got \in Seq(Int) BY <3>3 DEF Receiving, Messages
      <4>2. whole \in Message BY <4>1, Marked DEF Receiving
      <4> HIDE DEF whole, name
      <4>3. Messages([msgs EXCEPT ![name] = whole]) BY <4>1, <4>2, Marked DEF Receiving
      <4> QED BY <3>1, <3>3, <4>3 DEF Receiving, Messages
    <3>4. msgs' = msgs \/ (name \in DOMAIN msgs /\ msgs' = [msgs EXCEPT ![name] = whole])
      <4>1. msgs = [n \in DOMAIN msgs |-> msgs[n]] BY DEF Receiving, Messages
      <4>2. msgs' = IF name \notin DOMAIN msgs THEN msgs
                    ELSE [msgs EXCEPT ![name] = IF pc = "preview" /\ kind = "zero" THEN msgs[name] ELSE whole]
        BY <2>6
      <4> HIDE DEF whole, name
      <4>3. name \in DOMAIN msgs => [msgs EXCEPT ![name] = msgs[name]] = msgs BY <4>1
      <4> QED BY <4>2, <4>3
    <3> HIDE DEF whole
    <3> QED BY <3>2, <3>3, <3>4
  <2>7. \/ ReadError \/ (BodyEnds(tok.kind) /\ UNCHANGED wire)
        \/ /\ ~TooLong(Len(got \o d)) /\ got' = got \o d /\ UNCHANGED <<req, msgs>>
           /\ wire' = IF pc = "rest" THEN [wire EXCEPT !.later = Tail(wire.later)] ELSE [wire EXCEPT !.now = Tail(wire.now)]
    <3> HIDE DEF ReadError, BodyEnds, TooLong
    <3> QED BY <1>2, <2>3 DEF ReadToken, tok
  <2>8. /\ pc = "rest" => [wire EXCEPT !.later = Tail(wire.later)] = [wire EXCEPT !.later = Tail(Incoming)]
        /\ pc # "rest" => [wire EXCEPT !.now = Tail(wire.now)] = [wire EXCEPT !.now = Tail(Incoming)]
    BY DEF Incoming
  <2> HIDE DEF ReadError, BodyEnds
  <2> QED BY <2>4, <2>5, <2>6, <2>7, <2>8
<1>3. CASE Serve BY <1>same, <1>3 DEF Serve
<1>4. CASE Continue BY <1>same, <1>4 DEF Continue
<1>5. CASE DelayCancelled BY <1>same, <1>5 DEF DelayCancelled
<1>6. CASE Build BY <1>same, <1>6 DEF Build
<1>7. CASE Post BY <1>same, <1>7 DEF Post
<1>8. CASE Respond BY <1>same, <1>8 DEF Respond
<1>9. CASE WritePut BY <1>same, <1>9 DEF WritePut, Refused
<1>10. CASE WriteFlush BY <1>same, <1>10 DEF WriteFlush
<1>11. CASE Open BY <1>same, <1>11 DEF Open
<1>12. CASE Wait BY <1>same, <1>12 DEF Wait
<1>13. CASE Sleep BY <1>same, <1>13 DEF Sleep
<1>14. CASE Data BY <1>same, <1>14 DEF Data
<1>15. CASE Verify BY <1>same, <1>15 DEF Verify
<1>16. CASE SourceShort BY <1>same, <1>16 DEF SourceShort
<1>17. CASE CloseReader BY <1>same, <1>17 DEF CloseReader
<1>18. CASE Written BY <1>same, <1>18 DEF Written
<1>19. CASE Over BY <1>same, <1>19 DEF Over
<1>20. CASE ReadFails
  <2>1. UNCHANGED <<req, wire, got>> /\ (msgs' = msgs \/ msgs' = [msgs EXCEPT ![Adapted(req)].failed = TRUE])
    BY <1>20 DEF ReadFails
  <2> QED BY <1>error, <2>1
<1>21. CASE NetDone BY <1>same, <1>21 DEF NetDone
<1>22. CASE NetFails BY <1>same, <1>22 DEF NetFails
<1>23. CASE CtxEnds BY <1>same, <1>23 DEF CtxEnds
<1>24. CASE Tick BY <1>same, <1>24 DEF Tick
<1>25. CASE FileChanges BY <1>same, <1>25 DEF FileChanges
<1>26. CASE StopBegins BY <1>same, <1>26 DEF StopBegins
<1>27. ASSUME NEW c \in Closers, CloseSocket(c)  PROVE Receiving' BY <1>same, <1>27 DEF CloseSocket
<1>28. ASSUME NEW c \in Closers, EnterOnce(c)  PROVE Receiving' BY <1>same, <1>28 DEF EnterOnce
<1>29. ASSUME NEW c \in Closers, CloseWriter(c)  PROVE Receiving' BY <1>same, <1>29 DEF CloseWriter
<1>30. ASSUME NEW c \in Closers, CloseReaderBuffer(c)  PROVE Receiving'
  BY <1>same, <1>30 DEF CloseReaderBuffer
<1>31. CASE Finished BY <1>same, <1>31 DEF Finished, vars
<1> QED
  BY <1>1, <1>2, <1>3, <1>4, <1>5, <1>6, <1>7, <1>8, <1>9, <1>10, <1>11, <1>12, <1>13,
     <1>14, <1>15, <1>16, <1>17, <1>18, <1>19, <1>20, <1>21, <1>22, <1>23, <1>24, <1>25,
     <1>26, <1>27, <1>28, <1>29, <1>30, <1>31
     DEF Next, Handle, Environment, Close

-----------------------------------------------------------------------------
(* The theorems about types and resources *)

\* A request that was parsed.
LEMMA Arrived ==
    ASSUME Init
    PROVE  Receiving
<1>1. req \in Request /\ BodyLimit \in Nat
  BY ExchangeAssumption, BuildAssumption DEF Init, ExchangeAssumption, BuildAssumption
<1>2. wire \in [now : Seq(ClientToken), later : Seq(ClientToken)]
  BY <1>1 DEF Init, Request
<1>3. got \in Seq(Int) /\ ~TooLarge(Len(got))
  <2>1. got = <<>> BY DEF Init
  <2> QED BY <1>1, <2>1 DEF TooLarge
<1>4. ASSUME NEW name  PROVE ParsedMessage(req, name) \in Message
  BY <1>1 DEF ParsedMessage, Message, Request, HasBody
<1>5. ASSUME NEW name
      PROVE  [ParsedMessage(req, name) EXCEPT !.loaded = TRUE, !.reader = FALSE] \in Message
  <2>1. PICK x \in Message : x = ParsedMessage(req, name) BY <1>4
  <2>2. [x EXCEPT !.loaded = TRUE, !.reader = FALSE] \in Message BY DEF Message
  <2> QED BY <2>1, <2>2
<1>6. DOMAIN msgs = Parsed(req) /\ Parsed(req) \subseteq {"req", "res"} /\ msgs = [name \in DOMAIN msgs |-> msgs[name]]
  BY DEF Init, Parsed
<1>7. \A name \in Parsed(req) : msgs[name] \in Message
  <2> TAKE name \in Parsed(req)
  <2>1. msgs[name] \in {ParsedMessage(req, name),
                        [ParsedMessage(req, name) EXCEPT !.loaded = TRUE, !.reader = FALSE]}
    BY DEF Init
  <2> QED BY <1>4, <1>5, <2>1
<1> QED BY <1>1, <1>2, <1>3, <1>6, <1>7 DEF Receiving, Messages

\* The invariant holds from the first byte of the body on.
THEOREM Invariance == Spec => []IndInv
<1>1. Init => IndInv
  <2> SUFFICES ASSUME Init  PROVE IndInv OBVIOUS
  <2>1. Receiving BY Arrived
  <2>2. Selecting BY DEF Init, Selecting, ReceiveFrom
  <2>3. Answering
    <3>1. src = <<>> /\ resp = ErrorResponse BY DEF Init
    <3>2. <<>> \in Pieces BY DEF Pieces
    <3> QED BY <3>1, <3>2, Failures DEF Answering
  <2>4. Writing
    <3>1. todo = <<>> BY DEF Init
    <3> QED BY <3>1 DEF Writing, Ends, Releases, Dataless
  <2>5. Buffering
    <3>1. wbuf = <<>> /\ after = <<>> /\ io = "none" BY DEF Init
    <3>2. <<>> \in Seq(Token) /\ Len(<<>>) = 0 /\ 0 <= BufferSize
      BY ExchangeAssumption DEF ExchangeAssumption
    <3> QED BY <3>1, <3>2 DEF Buffering
  <2>6. Closed BY DEF Init, Closed, Closers, Inside, PastWriter
  <2>7. Meeting
    <3>1. pc \in {"preview", "body", "serve"} BY DEF Init, ReceiveFrom
    <3>2. io = "none" /\ ctx = "live" /\ now = 0 /\ MaxTime \in Nat
      BY ExchangeAssumption DEF Init, ExchangeAssumption
    <3>3. closer["stop"].mode = "none" /\ closer["handler"].mode = "none" BY DEF Init, Closers
    <3> QED BY <3>1, <3>2, <3>3 DEF Meeting
  <2> QED BY <2>1, <2>2, <2>3, <2>4, <2>5, <2>6, <2>7 DEF IndInv
<1>2. IndInv /\ [Next]_vars => IndInv'
  <2> SUFFICES ASSUME IndInv, [Next]_vars  PROVE IndInv' OBVIOUS
  <2>1. CASE Next
    BY <2>1, StepReceiving, StepSelecting, StepAnswering, StepWriting, StepBuffering, StepClosed, StepMeeting
       DEF IndInv
  <2>2. CASE UNCHANGED vars
    <3> USE <2>2 DEF vars, reading, serving, writing, closing
    <3>1. Receiving' /\ Selecting' BY DEF IndInv, Receiving, Messages, Selecting
    <3>2. Answering' /\ Writing' BY DEF IndInv, Answering, Writing, Ends, Releases, Dataless
    <3>3. Buffering' BY DEF IndInv, Buffering
    <3>4. Closed' BY DEF IndInv, Closed, Inside, PastWriter
    <3>5. Meeting' BY DEF IndInv, Meeting
    <3> QED BY <3>1, <3>2, <3>3, <3>4, <3>5 DEF IndInv
  <2> QED BY <2>1, <2>2
<1> QED BY <1>1, <1>2, PTL DEF Spec

\* Neither the writer's buffer nor a body outgrows its limit, and the handler, the clock and
\* the goroutines that close the connection are where the code can be.
THEOREM TypeCorrectness == Spec => []TypeOK
<1>1. IndInv => TypeOK
  <2> SUFFICES ASSUME IndInv  PROVE TypeOK OBVIOUS
  <2>1. /\ Meeting /\ once \in {"free", "busy", "done"} /\ Len(wbuf) <= BufferSize /\ ~TooLarge(Len(got))
    BY DEF IndInv, Closed, Buffering, Receiving
  <2>2. \A c \in Closers : closer[c].at \in {"idle", "socket", "once", "writer", "reader", "done"}
    BY DEF IndInv, Closed
  <2> QED BY <2>1, <2>2 DEF Meeting, TypeOK
<1> QED BY <1>1, Invariance, PTL

\* Close, Abort and the handler's reads and writes may interleave as they like: each pooled
\* buffer is returned once, never under a read or a write, Close has nothing to flush, and a
\* handler that is gone has left the socket closed and no file open.
THEOREM ResourceTheorem == Spec => []ResourcesReturned
<1>1. IndInv => ResourcesReturned
  <2> SUFFICES ASSUME IndInv  PROVE ResourcesReturned OBVIOUS
  <2> USE DEF IndInv, Closers
  <2>1. NothingLeftToFlush BY DEF Meeting, NothingLeftToFlush
  <2>2. returned.reader = (IF rclosed THEN 1 ELSE 0) /\ returned.writer = (IF wclosed THEN 1 ELSE 0)
    BY DEF Closed
  <2>3. pc = "over" => once = "done" /\ sock = "closed" /\ held = {} BY DEF Meeting, Closed
  <2>4. once = "done" => returned = [reader |-> 1, writer |-> 1] BY DEF Closed
  <2>5. (io = "in" => ~rclosed) /\ (io = "out" => ~wclosed) BY DEF Meeting
  <2> QED BY <2>1, <2>2, <2>3, <2>4, <2>5 DEF ResourcesReturned
<1> QED BY <1>1, Invariance, PTL

-----------------------------------------------------------------------------
(* Flattening *)

\* One sequence more is put at the end.
LEMMA FlattenedLast ==
    ASSUME NEW S, NEW q \in Seq(Seq(S)), NEW x \in Seq(S)
    PROVE  FlattenSeq(Append(q, x)) = FlattenSeq(q) \o x
<1> DEFINE n == Len(q)
           qx == Append(q, x)
           Value(s, f, i) == IF i = 1 THEN s[i] ELSE f[i - 1] \o s[i]
           px == CHOOSE g : g = [i \in 1..Len(qx) |-> Value(qx, g, i)]
           p == CHOOSE g : g = [i \in 1..Len(q) |-> Value(q, g, i)]
<1>1. /\ n \in Nat /\ qx \in Seq(Seq(S)) /\ Len(qx) = n + 1 /\ qx # <<>> /\ qx[n + 1] = x
      /\ \A i \in 1..n : qx[i] = q[i]
  BY AppendProperties
<1>2. FlattenSeq(qx) = px[n + 1]
  <2>1. Len(qx) # 0 /\ Len(qx) = n + 1 BY <1>1
  <2> HIDE DEF qx, n
  <2>2. FlattenSeq(qx) = px[Len(qx)] BY <2>1 DEF FlattenSeq
  <2> QED BY <2>1, <2>2
<1>3. px = [i \in 1..Len(qx) |-> Value(qx, px, i)]
  <2> HIDE DEF qx
  <2> QED BY <1>1, Flattening
<1> HIDE DEF px
<1>4. \A i \in 1..(n + 1) : px[i] = Value(qx, px, i)
  <2> HIDE DEF Value, qx
  <2> QED BY <1>1, <1>3
<1>5. CASE q = <<>>
  <2>1. n = 0 /\ px[1] = x /\ FlattenSeq(q) = <<>> BY <1>1, <1>4, <1>5 DEF FlattenSeq
  <2> QED BY <1>2, <2>1
<1>6. CASE q # <<>>
  <2>1. FlattenSeq(q) = p[n] /\ n # 0 BY <1>6 DEF FlattenSeq
  <2>2. p = [i \in 1..n |-> Value(q, p, i)] BY <1>6, Flattening
  <2> HIDE DEF p
  <2>3. \A i \in 1..n : p[i] = Value(q, p, i)
    <3> HIDE DEF Value
    <3> QED BY <1>1, <2>2
  <2> DEFINE T == {m \in Nat : m \in 1..n => px[m] = p[m]}
  <2>4. 0 \in T OBVIOUS
  <2>5. ASSUME NEW m \in Nat, m < n, m \in T  PROVE m + 1 \in T
    <3>1. m + 1 \in 1..n /\ m + 1 \in 1..(n + 1) /\ qx[m + 1] = q[m + 1] BY <1>1, <2>5
    <3>2. m # 0 => px[(m + 1) - 1] = p[(m + 1) - 1] BY <1>1, <2>5
    <3>3. Value(qx, px, m + 1) = Value(q, p, m + 1) BY <3>1, <3>2
    <3>4. px[m + 1] = p[m + 1]
      <4> HIDE DEF Value
      <4> QED BY <1>4, <2>3, <3>1, <3>3
    <3> QED BY <3>4
  <2>6. n \in T
    <3> HIDE DEF T, n
    <3> QED BY <1>1, <2>4, <2>5, UpTo
  <2>7. px[n] = p[n] BY <1>1, <2>1, <2>6
  <2>8. px[n + 1] = px[n] \o x
    <3>1. Value(qx, px, n + 1) = px[(n + 1) - 1] \o qx[n + 1] /\ (n + 1) - 1 = n /\ n + 1 \in 1..(n + 1)
      BY <1>1, <2>1
    <3> HIDE DEF Value, qx
    <3> QED BY <1>1, <1>4, <3>1
  <2> QED BY <1>2, <2>1, <2>7, <2>8
<1> QED BY <1>5, <1>6

\* What is flattened in two parts.
LEMMA FlattenedParts ==
    ASSUME NEW S, NEW a \in Seq(Seq(S)), NEW b \in Seq(Seq(S))
    PROVE  FlattenSeq(a \o b) = FlattenSeq(a) \o FlattenSeq(b)
<1> DEFINE part(n) == SubSeq(b, 1, n)
           T == {n \in Nat : n <= Len(b) => FlattenSeq(a \o part(n)) = FlattenSeq(a) \o FlattenSeq(part(n))}
<1>1. FlattenSeq(a) \in Seq(S) /\ FlattenSeq(b) \in Seq(S) BY Flattened
<1>2. Len(b) \in Nat OBVIOUS
<1>3. 0 \in T
  <2>1. part(0) = <<>> /\ a \o <<>> = a BY SubSeqEmpty
  <2>2. PICK e : e = <<>> OBVIOUS
  <2>3. e \in Seq(Seq(S)) /\ e \in Seq(S) BY <2>2
  <2>4. FlattenSeq(e) = <<>> BY <2>2, <2>3, Flattened
  <2>5. FlattenSeq(a) \o <<>> = FlattenSeq(a) BY <1>1, ConcatEmptySeq
  <2>6. FlattenSeq(a \o part(0)) = FlattenSeq(a) \o FlattenSeq(part(0))
    <3>1. a \o part(0) = a /\ part(0) = e BY <2>1, <2>2
    <3> HIDE DEF part
    <3> QED BY <2>4, <2>5, <3>1
  <2> QED BY <2>6
<1>4. ASSUME NEW n \in Nat, n < Len(b), n \in T  PROVE n + 1 \in T
  <2>1. part(n) \in Seq(Seq(S)) /\ b[n + 1] \in Seq(S) BY <1>4
  <2>2. part(n + 1) = Append(part(n), b[n + 1])
    <3>1. n + 1 \in 1..Len(b) BY <1>4
    <3>2. part(n + 1) = part((n + 1) - 1) \o <<b[n + 1]>> BY <3>1, SubSeqRecursiveSecond
    <3>3. (n + 1) - 1 = n OBVIOUS
    <3>4. Append(part(n), b[n + 1]) = part(n) \o <<b[n + 1]>>
      <4> HIDE DEF part
      <4> QED BY <2>1, AppendIsConcat
    <3> QED BY <3>2, <3>3, <3>4
  <2>3. FlattenSeq(a \o part(n)) = FlattenSeq(a) \o FlattenSeq(part(n)) BY <1>4
  <2> HIDE DEF part
  <2>4. PICK c, x : c = part(n) /\ x = b[n + 1] OBVIOUS
  <2>5. a \o Append(c, x) = Append(a \o c, x) /\ a \o c \in Seq(Seq(S)) BY <2>1, <2>4
  <2>6. FlattenSeq(Append(a \o c, x)) = FlattenSeq(a \o c) \o x /\ FlattenSeq(Append(c, x)) = FlattenSeq(c) \o x
    BY <2>1, <2>4, <2>5, FlattenedLast
  <2>7. (FlattenSeq(a) \o FlattenSeq(c)) \o x = FlattenSeq(a) \o (FlattenSeq(c) \o x)
    <3>1. FlattenSeq(c) \in Seq(S) /\ x \in Seq(S) BY <2>1, <2>4, Flattened
    <3> QED BY <1>1, <3>1, ConcatAssociative
  <2>8. FlattenSeq(a \o part(n + 1)) = FlattenSeq(a) \o FlattenSeq(part(n + 1))
    BY <2>2, <2>3, <2>4, <2>5, <2>6, <2>7
  <2> QED BY <2>8
<1>5. Len(b) \in T
  <2> HIDE DEF T
  <2> QED BY <1>2, <1>3, <1>4, UpTo
<1>6. part(Len(b)) = b BY SubSeqFull
<1> HIDE DEF part
<1> QED BY <1>2, <1>5, <1>6

\* A sequence of one sequence.
LEMMA FlattenedOne ==
    ASSUME NEW S, NEW x \in Seq(S)
    PROVE  FlattenSeq(<<x>>) = x
<1>1. PICK e : e = <<>> OBVIOUS
<1>2. e \in Seq(Seq(S)) /\ Append(e, x) = <<x>> BY <1>1
<1>3. FlattenSeq(Append(e, x)) = FlattenSeq(e) \o x BY <1>2, FlattenedLast
<1>4. FlattenSeq(e) = <<>> BY <1>1, <1>2, Flattened
<1>5. <<>> \o x = x BY ConcatEmptySeq
<1> QED BY <1>2, <1>3, <1>4, <1>5

-----------------------------------------------------------------------------
(* Bytes of pieces and of tokens *)

\* The bytes of anything that has data: pieces of a payload, or the tokens of a client.
LEMMA DataTyped ==
    ASSUME NEW P, \A x \in P : x.data \in Seq(Int), NEW q \in Seq(P)
    PROVE  /\ [i \in DOMAIN q |-> q[i].data] \in Seq(Seq(Int)) /\ Len([i \in DOMAIN q |-> q[i].data]) = Len(q)
           /\ PiecesBytes(q) \in Seq(Int) /\ (q = <<>> => PiecesBytes(q) = <<>>)
<1>1. Len(q) \in Nat /\ DOMAIN q = 1..Len(q) /\ \A i \in 1..Len(q) : q[i].data \in Seq(Int) OBVIOUS
<1>2. PICK f : f = [i \in DOMAIN q |-> q[i].data] OBVIOUS
<1>3. f \in [1..Len(q) -> Seq(Int)] BY <1>1, <1>2
<1>4. f \in Seq(Seq(Int)) /\ Len(f) = Len(q) BY <1>1, <1>3, IsSeq
<1>5. FlattenSeq(f) \in Seq(Int) /\ (f = <<>> => FlattenSeq(f) = <<>>) BY <1>4, Flattened
<1>6. q = <<>> => f = <<>> BY <1>4
<1> QED BY <1>2, <1>4, <1>5, <1>6 DEF PiecesBytes

\* The bytes of two runs of pieces, one after the other.
LEMMA DataParts ==
    ASSUME NEW P, \A x \in P : x.data \in Seq(Int), NEW a \in Seq(P), NEW b \in Seq(P)
    PROVE  PiecesBytes(a \o b) = PiecesBytes(a) \o PiecesBytes(b)
<1> DEFINE D(q) == [i \in DOMAIN q |-> q[i].data]
<1>1. /\ D(a) \in Seq(Seq(Int)) /\ Len(D(a)) = Len(a) /\ D(b) \in Seq(Seq(Int)) /\ Len(D(b)) = Len(b)
  BY DataTyped
<1>2. /\ a \o b \in Seq(P) /\ Len(a \o b) = Len(a) + Len(b) /\ Len(a) \in Nat /\ Len(b) \in Nat
      /\ \A i \in 1..Len(a) : (a \o b)[i] = a[i]
      /\ \A j \in 1..Len(b) : (a \o b)[Len(a) + j] = b[j]
  OBVIOUS
<1>3. D(a \o b) \in Seq(Seq(Int)) /\ Len(D(a \o b)) = Len(a) + Len(b)
  <2>1. PICK ab \in Seq(P) : ab = a \o b BY <1>2
  <2>2. D(ab) \in Seq(Seq(Int)) /\ Len(D(ab)) = Len(ab) BY DataTyped
  <2> QED BY <1>2, <2>1, <2>2
<1>4. D(a) \o D(b) \in Seq(Seq(Int)) /\ Len(D(a) \o D(b)) = Len(a) + Len(b)
  <2>1. PICK u \in Seq(Seq(Int)), v \in Seq(Seq(Int)) : u = D(a) /\ v = D(b) BY <1>1
  <2>2. u \o v \in Seq(Seq(Int)) /\ Len(u \o v) = Len(u) + Len(v) BY ConcatProperties
  <2> HIDE DEF D
  <2> QED BY <1>1, <2>1, <2>2
<1>5. ASSUME NEW i \in 1..(Len(a) + Len(b))  PROVE D(a \o b)[i] = (D(a) \o D(b))[i]
  <2>1. CASE i \in 1..Len(a)
    <3>1. D(a \o b)[i] = (a \o b)[i].data /\ D(a)[i] = a[i].data BY <1>2, <2>1
    <3>2. (D(a) \o D(b))[i] = D(a)[i]
      <4> HIDE DEF D
      <4> QED BY <1>1, <2>1
    <3> QED BY <1>2, <2>1, <3>1, <3>2
  <2>2. CASE i \notin 1..Len(a)
    <3>1. PICK j \in 1..Len(b) : i = Len(a) + j
      <4>1. i - Len(a) \in 1..Len(b) /\ i = Len(a) + (i - Len(a)) BY <1>2, <2>2
      <4> QED BY <4>1
    <3>2. D(a \o b)[i] = (a \o b)[i].data /\ D(b)[j] = b[j].data BY <1>2, <3>1
    <3>3. (D(a) \o D(b))[Len(a) + j] = D(b)[j]
      <4> HIDE DEF D
      <4> QED BY <1>1, <3>1
    <3> QED BY <1>2, <3>1, <3>2, <3>3
  <2> QED BY <2>1, <2>2
<1>6. D(a \o b) = D(a) \o D(b)
  <2> HIDE DEF D
  <2> QED BY <1>3, <1>4, <1>5, SeqEqual
<1>7. FlattenSeq(D(a) \o D(b)) = FlattenSeq(D(a)) \o FlattenSeq(D(b))
  <2> HIDE DEF D
  <2> QED BY <1>1, FlattenedParts
<1>8. \A q : PiecesBytes(q) = FlattenSeq(D(q)) BY DEF PiecesBytes
<1> HIDE DEF D
<1> QED BY <1>6, <1>7, <1>8

\* The bytes of a single piece or token.
LEMMA DataOne ==
    ASSUME NEW x, x.data \in Seq(Int)
    PROVE  PiecesBytes(<<x>>) = x.data
<1>1. [i \in DOMAIN <<x>> |-> <<x>>[i].data] = <<x.data>> OBVIOUS
<1>2. FlattenSeq(<<x.data>>) = x.data BY FlattenedOne
<1> QED BY <1>1, <1>2 DEF PiecesBytes

\* The bytes of a sequence of tokens are those of its parts.
LEMMA PayloadTyped ==
    ASSUME NEW a \in Seq(Token)
    PROVE  LET f == [i \in DOMAIN a |-> IF a[i][1] = "byte" THEN <<a[i][2]>> ELSE <<>>]
           IN  f \in Seq(Seq(Int)) /\ Len(f) = Len(a) /\ Payload(a) \in Seq(Int) /\ (a = <<>> => Payload(a) = <<>>)
<1>1. Len(a) \in Nat /\ DOMAIN a = 1..Len(a) /\ \A i \in 1..Len(a) : a[i][2] \in Int BY DEF Token
<1>2. PICK f : f = [i \in DOMAIN a |-> IF a[i][1] = "byte" THEN <<a[i][2]>> ELSE <<>>] OBVIOUS
<1>3. \A n \in Int : <<n>> \in Seq(Int) OBVIOUS
<1>4. <<>> \in Seq(Int) OBVIOUS
<1>5. ASSUME NEW i \in 1..Len(a)  PROVE f[i] \in Seq(Int)
  <2>1. f[i] = IF a[i][1] = "byte" THEN <<a[i][2]>> ELSE <<>> BY <1>1, <1>2
  <2> QED BY <1>1, <1>3, <1>4, <2>1
<1>6. f \in [1..Len(a) -> Seq(Int)] BY <1>1, <1>2, <1>5
<1>7. f \in Seq(Seq(Int)) /\ Len(f) = Len(a) BY <1>1, <1>6, IsSeq
<1>8. FlattenSeq(f) \in Seq(Int) /\ (f = <<>> => FlattenSeq(f) = <<>>) BY <1>7, Flattened
<1>9. a = <<>> => f = <<>> BY <1>7
<1> QED BY <1>2, <1>7, <1>8, <1>9 DEF Payload

\* The payload of two runs of tokens, one after the other.
LEMMA PayloadParts ==
    ASSUME NEW a \in Seq(Token), NEW b \in Seq(Token)
    PROVE  Payload(a \o b) = Payload(a) \o Payload(b)
<1> DEFINE V(t) == IF t[1] = "byte" THEN <<t[2]>> ELSE <<>>
           D(q) == [i \in DOMAIN q |-> V(q[i])]
<1>1. /\ D(a) \in Seq(Seq(Int)) /\ Len(D(a)) = Len(a) /\ D(b) \in Seq(Seq(Int)) /\ Len(D(b)) = Len(b)
  BY PayloadTyped
<1>2. /\ a \o b \in Seq(Token) /\ Len(a \o b) = Len(a) + Len(b) /\ Len(a) \in Nat /\ Len(b) \in Nat
      /\ \A i \in 1..Len(a) : (a \o b)[i] = a[i]
      /\ \A j \in 1..Len(b) : (a \o b)[Len(a) + j] = b[j]
  OBVIOUS
<1>3. D(a \o b) \in Seq(Seq(Int)) /\ Len(D(a \o b)) = Len(a) + Len(b)
  <2>1. PICK ab \in Seq(Token) : ab = a \o b BY <1>2
  <2>2. D(ab) \in Seq(Seq(Int)) /\ Len(D(ab)) = Len(ab) BY PayloadTyped
  <2> QED BY <1>2, <2>1, <2>2
<1>4. D(a) \o D(b) \in Seq(Seq(Int)) /\ Len(D(a) \o D(b)) = Len(a) + Len(b)
  <2>1. PICK u \in Seq(Seq(Int)), v \in Seq(Seq(Int)) : u = D(a) /\ v = D(b) BY <1>1
  <2>2. u \o v \in Seq(Seq(Int)) /\ Len(u \o v) = Len(u) + Len(v) BY ConcatProperties
  <2> HIDE DEF D
  <2> QED BY <1>1, <2>1, <2>2
<1> HIDE DEF V
<1>5. ASSUME NEW i \in 1..(Len(a) + Len(b))  PROVE D(a \o b)[i] = (D(a) \o D(b))[i]
  <2>1. CASE i \in 1..Len(a)
    <3>1. D(a \o b)[i] = V((a \o b)[i]) /\ D(a)[i] = V(a[i]) BY <1>2, <2>1
    <3>2. (D(a) \o D(b))[i] = D(a)[i]
      <4> HIDE DEF D
      <4> QED BY <1>1, <2>1
    <3> QED BY <1>2, <2>1, <3>1, <3>2
  <2>2. CASE i \notin 1..Len(a)
    <3>1. PICK j \in 1..Len(b) : i = Len(a) + j
      <4>1. i - Len(a) \in 1..Len(b) /\ i = Len(a) + (i - Len(a)) BY <1>2, <2>2
      <4> QED BY <4>1
    <3>2. D(a \o b)[i] = V((a \o b)[i]) /\ D(b)[j] = V(b[j]) BY <1>2, <3>1
    <3>3. (D(a) \o D(b))[Len(a) + j] = D(b)[j]
      <4> HIDE DEF D
      <4> QED BY <1>1, <3>1
    <3> QED BY <1>2, <3>1, <3>2, <3>3
  <2> QED BY <2>1, <2>2
<1>6. D(a \o b) = D(a) \o D(b)
  <2> HIDE DEF D
  <2> QED BY <1>3, <1>4, <1>5, SeqEqual
<1>7. FlattenSeq(D(a) \o D(b)) = FlattenSeq(D(a)) \o FlattenSeq(D(b))
  <2> HIDE DEF D
  <2> QED BY <1>1, FlattenedParts
<1>8. \A q : Payload(q) = FlattenSeq(D(q)) BY DEF Payload, V
<1> HIDE DEF D
<1> QED BY <1>6, <1>7, <1>8

\* The payload of a single token.
LEMMA PayloadOne ==
    ASSUME NEW t \in Token
    PROVE  Payload(<<t>>) = IF t[1] = "byte" THEN <<t[2]>> ELSE <<>>
<1>1. PICK v : v = IF t[1] = "byte" THEN <<t[2]>> ELSE <<>> OBVIOUS
<1>2. v \in Seq(Int) BY <1>1 DEF Token
<1>3. [i \in DOMAIN <<t>> |-> IF <<t>>[i][1] = "byte" THEN <<<<t>>[i][2]>> ELSE <<>>] = <<v>> BY <1>1
<1>4. FlattenSeq(<<v>>) = v BY <1>2, FlattenedOne
<1> QED BY <1>1, <1>3, <1>4 DEF Payload

\* Tokens that are not bytes add nothing, and tokens that are add themselves.
LEMMA PayloadNone ==
    ASSUME NEW a \in Seq(Token), \A i \in DOMAIN a : a[i][1] # "byte"
    PROVE  Payload(a) = <<>>
<1> DEFINE part(n) == SubSeq(a, 1, n)
           T == {n \in Nat : n <= Len(a) => Payload(part(n)) = <<>>}
<1>1. Len(a) \in Nat /\ DOMAIN a = 1..Len(a) OBVIOUS
<1>2. 0 \in T
  <2>1. part(0) = <<>> BY SubSeqEmpty
  <2>2. PICK e \in Seq(Token) : e = <<>>
    <3>1. <<>> \in Seq(Token) OBVIOUS
    <3> QED BY <3>1
  <2>3. Payload(e) = <<>> BY <2>2, PayloadTyped
  <2> QED BY <2>1, <2>2, <2>3
<1>3. ASSUME NEW n \in Nat, n < Len(a), n \in T  PROVE n + 1 \in T
  <2>1. part(n) \in Seq(Token) /\ n + 1 \in 1..Len(a) /\ a[n + 1] \in Token /\ <<a[n + 1]>> \in Seq(Token) BY <1>3
  <2>2. part(n + 1) = part(n) \o <<a[n + 1]>>
    <3>1. part(n + 1) = part((n + 1) - 1) \o <<a[n + 1]>> BY <2>1, SubSeqRecursiveSecond
    <3>2. (n + 1) - 1 = n OBVIOUS
    <3> QED BY <3>1, <3>2
  <2>3. Payload(part(n)) = <<>> BY <1>3
  <2> HIDE DEF part
  <2>4. Payload(part(n + 1)) = Payload(part(n)) \o Payload(<<a[n + 1]>>) BY <2>1, <2>2, PayloadParts
  <2>5. Payload(<<a[n + 1]>>) = <<>> BY <1>1, <2>1, PayloadOne
  <2>6. Payload(part(n + 1)) = <<>> BY <2>3, <2>4, <2>5
  <2> QED BY <2>6
<1>4. Len(a) \in T
  <2> HIDE DEF T
  <2> QED BY <1>1, <1>2, <1>3, UpTo
<1>5. part(Len(a)) = a BY SubSeqFull
<1> HIDE DEF part
<1> QED BY <1>1, <1>4, <1>5

\* Tokens that are all bytes are their own payload.
LEMMA PayloadBytes ==
    ASSUME NEW a \in Seq(Token), \A i \in DOMAIN a : a[i][1] = "byte"
    PROVE  Payload(a) = [i \in 1..Len(a) |-> a[i][2]] /\ Len(Payload(a)) = Len(a)
<1> DEFINE part(n) == SubSeq(a, 1, n)
           val(n) == [i \in 1..n |-> a[i][2]]
           T == {n \in Nat : n <= Len(a) => Payload(part(n)) = val(n)}
<1>1. Len(a) \in Nat /\ DOMAIN a = 1..Len(a) /\ \A i \in 1..Len(a) : a[i][2] \in Int BY DEF Token
<1>2. 0 \in T
  <2>1. part(0) = <<>> BY SubSeqEmpty
  <2>2. PICK e \in Seq(Token) : e = <<>>
    <3>1. <<>> \in Seq(Token) OBVIOUS
    <3> QED BY <3>1
  <2>3. Payload(e) = <<>> BY <2>2, PayloadTyped
  <2>4. val(0) = <<>> OBVIOUS
  <2> QED BY <2>1, <2>2, <2>3, <2>4
<1>3. ASSUME NEW n \in Nat, n < Len(a), n \in T  PROVE n + 1 \in T
  <2>1. part(n) \in Seq(Token) /\ n + 1 \in 1..Len(a) /\ a[n + 1] \in Token /\ <<a[n + 1]>> \in Seq(Token) BY <1>3
  <2>2. part(n + 1) = part(n) \o <<a[n + 1]>>
    <3>1. part(n + 1) = part((n + 1) - 1) \o <<a[n + 1]>> BY <2>1, SubSeqRecursiveSecond
    <3>2. (n + 1) - 1 = n OBVIOUS
    <3> QED BY <3>1, <3>2
  <2>3. Payload(part(n)) = val(n) BY <1>3
  <2>4. val(n) \o <<a[n + 1][2]>> = val(n + 1)
    <3>1. val(n) \in [1..n -> Int] BY <1>1, <1>3
    <3>2. val(n) \in Seq(Int) /\ Len(val(n)) = n
      <4> HIDE DEF val
      <4> QED BY <3>1, IsSeq
    <3>3. val(n + 1) \in [1..(n + 1) -> Int] BY <1>1, <1>3
    <3>4. val(n + 1) \in Seq(Int) /\ Len(val(n + 1)) = n + 1
      <4>1. n + 1 \in Nat OBVIOUS
      <4> HIDE DEF val
      <4> QED BY <3>3, <4>1, IsSeq
    <3>5. PICK x \in Int : x = a[n + 1][2] BY <1>1, <2>1
    <3>6. PICK c \in Seq(Int) : c = val(n) BY <3>2
    <3>7. c \o <<x>> \in Seq(Int) /\ Len(c \o <<x>>) = n + 1 BY <3>2, <3>6
    <3>8. ASSUME NEW i \in 1..(n + 1)  PROVE (c \o <<x>>)[i] = val(n + 1)[i]
      <4>1. val(n + 1)[i] = a[i][2] OBVIOUS
      <4>2. CASE i \in 1..n
        <5>1. c[i] = a[i][2] BY <3>6, <4>2
        <5>2. (c \o <<x>>)[i] = c[i] BY <3>2, <3>6, <4>2
        <5> QED BY <4>1, <5>1, <5>2
      <4>3. CASE i = n + 1
        <5>1. (c \o <<x>>)[i] = x BY <3>2, <3>6, <4>3
        <5> QED BY <3>5, <4>1, <4>3, <5>1
      <4>4. i \in 1..n \/ i = n + 1 OBVIOUS
      <4> HIDE DEF val
      <4> QED BY <4>2, <4>3, <4>4
    <3>9. c \o <<x>> = val(n + 1)
      <4> HIDE DEF val
      <4> QED BY <3>4, <3>7, <3>8, SeqEqual
    <3> QED BY <3>5, <3>6, <3>9
  <2> HIDE DEF part, val
  <2>5. Payload(part(n + 1)) = Payload(part(n)) \o Payload(<<a[n + 1]>>) BY <2>1, <2>2, PayloadParts
  <2>6. Payload(<<a[n + 1]>>) = <<a[n + 1][2]>> BY <1>1, <2>1, PayloadOne
  <2>7. Payload(part(n + 1)) = val(n + 1) BY <2>3, <2>4, <2>5, <2>6
  <2> QED BY <2>7
<1>4. Len(a) \in T
  <2> HIDE DEF T
  <2> QED BY <1>1, <1>2, <1>3, UpTo
<1>5. part(Len(a)) = a BY SubSeqFull
<1>6. Len(val(Len(a))) = Len(a)
  <2>1. val(Len(a)) \in [1..Len(a) -> Int] BY <1>1
  <2> HIDE DEF val
  <2> QED BY <1>1, <2>1, IsSeq
<1>7. Payload(a) = val(Len(a))
  <2> HIDE DEF part, val
  <2> QED BY <1>1, <1>4, <1>5
<1>8. Len(Payload(a)) = Len(a)
  <2> HIDE DEF val
  <2> QED BY <1>6, <1>7
<1> QED BY <1>7, <1>8

-----------------------------------------------------------------------------
(* The schedule of a stream *)

\* The chunks of a plan hold a byte or more, and together what is planned.
LEMMA ChunkSums ==
    ASSUME NEW plan \in Plan, plan.count > 0, plan.count <= plan.bytes
    PROVE  /\ \A i \in 0..(plan.count - 1) :
                 /\ ChunkSize(plan, i) \in Nat \ {0}
                 /\ BytesBefore(plan, i) \in Nat
                 /\ BytesBefore(plan, i + 1) = BytesBefore(plan, i) + ChunkSize(plan, i)
           /\ BytesBefore(plan, 0) = 0 /\ BytesBefore(plan, plan.count) = plan.bytes
<1>1. PICK b \in Nat, c \in Nat \ {0} : b = plan.bytes /\ c = plan.count /\ c <= b BY DEF Plan
<1>2. PICK q, r : q = b \div c /\ r = b % c OBVIOUS
<1>3. q \in Nat /\ r \in 0..(c - 1) /\ b = c * q + r BY <1>2
<1>4. q # 0 BY <1>1, <1>3
<1>5. ASSUME NEW i \in 0..(c - 1)
      PROVE  /\ ChunkSize(plan, i) \in Nat \ {0} /\ BytesBefore(plan, i) \in Nat
             /\ BytesBefore(plan, i + 1) = BytesBefore(plan, i) + ChunkSize(plan, i)
  <2>1. ChunkSize(plan, i) = q + (IF i < r THEN 1 ELSE 0) BY <1>1, <1>2 DEF ChunkSize
  <2>2. BytesBefore(plan, i) = i * q + LeastOf(i, r) /\ BytesBefore(plan, i + 1) = (i + 1) * q + LeastOf(i + 1, r)
    BY <1>1, <1>2 DEF BytesBefore
  <2>3. LeastOf(i, r) \in Nat /\ LeastOf(i + 1, r) = LeastOf(i, r) + (IF i < r THEN 1 ELSE 0)
    BY <1>3 DEF LeastOf
  <2>4. (i + 1) * q = i * q + q /\ i * q \in Nat BY <1>3
  <2>5. PICK u \in Nat, v \in Nat, w \in {0, 1} :
           u = i * q /\ v = LeastOf(i, r) /\ w = (IF i < r THEN 1 ELSE 0)
    BY <2>3, <2>4
  <2> QED BY <1>3, <1>4, <2>1, <2>2, <2>3, <2>4, <2>5
<1>6. BytesBefore(plan, 0) = 0 BY <1>1, <1>2, <1>3 DEF BytesBefore, LeastOf
<1>7. BytesBefore(plan, plan.count) = plan.bytes
  <2>1. BytesBefore(plan, c) = c * q + LeastOf(c, r) BY <1>1, <1>2 DEF BytesBefore
  <2>2. LeastOf(c, r) = r BY <1>3 DEF LeastOf
  <2> QED BY <1>1, <1>3, <2>1, <2>2
<1> QED BY <1>1, <1>5, <1>6, <1>7

\* A plan has no more chunks than bytes and than the limit, and one at least if it has bytes.
LEMMA CountBounds ==
    ASSUME NEW o, o.duration \in Nat, o.every \in Nat, o.target \in Nat, o.chunks \in Nat, o.bytes \in Nat
    PROVE  /\ PlannedChunkCount(o) \in Nat /\ PlannedChunkCount(o) <= o.bytes
           /\ PlannedChunkCount(o) <= MaxStreamChunks
           /\ o.bytes > 0 => PlannedChunkCount(o) > 0
<1>1. MaxStreamChunks \in Nat \ {0} /\ DefaultStreamChunkSize \in Nat \ {0} /\ AutomaticCadence \in Nat \ {0}
  BY StreamPlanAssumption DEF StreamPlanAssumption
<1>2. \A v \in Nat, d \in Nat \ {0} : CeilPositive(v, d) \in Nat BY DEF CeilPositive
<1>3. PreferredChunkCount(o) \in Nat
  <2>1. o.target > 0 => CeilPositive(o.bytes, o.target) \in Nat BY <1>2
  <2>2. CeilPositive(o.duration, AutomaticCadence) \in Nat /\ CeilPositive(o.bytes, DefaultStreamChunkSize) \in Nat
    BY <1>1, <1>2
  <2> QED BY <2>1, <2>2 DEF PreferredChunkCount
<1>4. \A d \in Nat, e \in Nat \ {0} : CadenceSlots(d, e) \in Nat BY <1>1 DEF CadenceSlots
<1>5. \A a, b \in Nat : LeastOf(a, b) \in Nat /\ LeastOf(a, b) <= a /\ LeastOf(a, b) <= b BY DEF LeastOf
<1> DEFINE preferred == LeastOf(LeastOf(PreferredChunkCount(o), o.bytes), MaxStreamChunks)
           paced == IF o.duration > 0 /\ o.every > 0
                    THEN LeastOf(preferred, CadenceSlots(o.duration, o.every)) ELSE preferred
<1>6. LeastOf(PreferredChunkCount(o), o.bytes) \in Nat /\ LeastOf(PreferredChunkCount(o), o.bytes) <= o.bytes
  BY <1>3, <1>5
<1>7. preferred \in Nat /\ preferred <= o.bytes /\ preferred <= MaxStreamChunks
  <2>1. PICK l \in Nat : l = LeastOf(PreferredChunkCount(o), o.bytes) BY <1>6
  <2>2. LeastOf(l, MaxStreamChunks) \in Nat /\ LeastOf(l, MaxStreamChunks) <= l /\ LeastOf(l, MaxStreamChunks) <= MaxStreamChunks
    BY <1>1, <1>5
  <2> QED BY <1>1, <1>6, <2>1, <2>2
<1>8. o.every > 0 => CadenceSlots(o.duration, o.every) \in Nat BY <1>4
<1> HIDE DEF preferred
<1>9. paced \in Nat /\ paced <= preferred
  <2>1. CASE o.duration > 0 /\ o.every > 0
    <3>1. PICK z \in Nat : z = CadenceSlots(o.duration, o.every) BY <1>8, <2>1
    <3> QED BY <1>5, <1>7, <2>1, <3>1
  <2>2. CASE ~(o.duration > 0 /\ o.every > 0) BY <1>7, <2>2
  <2> QED BY <2>1, <2>2
<1>10. PlannedChunkCount(o) = IF o.bytes = 0 THEN 0 ELSE IF paced < 1 THEN 1 ELSE paced
  BY DEF PlannedChunkCount, preferred
<1> HIDE DEF paced
<1> QED BY <1>1, <1>7, <1>9, <1>10

-----------------------------------------------------------------------------
(* The places of the operations *)

\* The parts of a concatenation.
LEMMA Places ==
    ASSUME NEW a \in Seq(OpRecord), NEW b \in Seq(OpRecord)
    PROVE  /\ a \o b \in Seq(OpRecord) /\ Len(a \o b) = Len(a) + Len(b) /\ Len(a) \in Nat /\ Len(b) \in Nat
           /\ \A i \in 1..Len(a) : (a \o b)[i] = a[i]
           /\ \A j \in 1..Len(b) : (a \o b)[Len(a) + j] = b[j]
OBVIOUS

\* The operations of chunk i stand at places 5i + 1 to 5i + 5 of the chunks.
LEMMA ChunkPlaces ==
    ASSUME NEW plan \in Plan
    PROVE  LET m == FlattenSeq([i \in 1..plan.count |-> ChunkOps(plan, i - 1)])
           IN  /\ m \in Seq(OpRecord) /\ Len(m) = 5 * plan.count
               /\ \A i \in 0..(plan.count - 1), p \in 1..5 : m[5 * i + p] = ChunkOps(plan, i)[p]
<1> DEFINE f(n) == [i \in 1..n |-> ChunkOps(plan, i - 1)]
           Good(n) == /\ f(n) \in Seq(Seq(OpRecord)) /\ Len(f(n)) = n /\ FlattenSeq(f(n)) \in Seq(OpRecord)
                      /\ Len(FlattenSeq(f(n))) = 5 * n
                      /\ \A i \in 0..(n - 1), p \in 1..5 : FlattenSeq(f(n))[5 * i + p] = ChunkOps(plan, i)[p]
           T == {n \in Nat : n <= plan.count => Good(n)}
<1>1. plan.count \in Nat BY DEF Plan
<1>2. \A i \in 0..(plan.count - 1) : ChunkOps(plan, i) \in Seq(OpRecord) /\ Len(ChunkOps(plan, i)) = 5
  <2> TAKE i \in 0..(plan.count - 1)
  <2>1. ChunkOps(plan, i) \in Seq(OpRecord) BY Chunks
  <2>2. Len(ChunkOps(plan, i)) = 5 BY DEF ChunkOps
  <2> QED BY <2>1, <2>2
<1>typed. ASSUME NEW n \in Nat, n <= plan.count  PROVE f(n) \in Seq(Seq(OpRecord)) /\ Len(f(n)) = n
  <2>1. \A i \in 1..n : i - 1 \in 0..(plan.count - 1) BY <1>1, <1>typed
  <2>2. f(n) \in [1..n -> Seq(OpRecord)] BY <1>2, <2>1
  <2> HIDE DEF f
  <2> QED BY <2>2, IsSeq
<1>3. 0 \in T
  <2>1. f(0) \in Seq(Seq(OpRecord)) /\ Len(f(0)) = 0 BY <1>1, <1>typed
  <2>2. f(0) = <<>>
    <3> HIDE DEF f
    <3> QED BY <2>1, EmptySeq
  <2>3. FlattenSeq(f(0)) = <<>>
    <3> HIDE DEF f
    <3> QED BY <2>1, <2>2, Flattened
  <2>4. <<>> \in Seq(OpRecord) /\ Len(<<>>) = 0 OBVIOUS
  <2>5. Good(0)
    <3> HIDE DEF f
    <3> QED BY <2>1, <2>3, <2>4
  <2> HIDE DEF Good
  <2> QED BY <2>5
<1>4. ASSUME NEW n \in Nat, n < plan.count, n \in T  PROVE n + 1 \in T
  <2>1. Good(n) /\ n \in 0..(plan.count - 1)
    <3> HIDE DEF Good
    <3> QED BY <1>1, <1>4
  <2>2. f(n + 1) \in Seq(Seq(OpRecord)) /\ Len(f(n + 1)) = n + 1
    <3>1. n + 1 \in Nat /\ n + 1 <= plan.count BY <1>1, <1>4
    <3> HIDE DEF f
    <3> QED BY <1>typed, <3>1
  <2>3. PICK x \in Seq(OpRecord) : x = ChunkOps(plan, n) /\ Len(x) = 5 BY <1>2, <2>1
  <2>4. f(n + 1) = Append(f(n), x)
    <3>1. PICK c \in Seq(Seq(OpRecord)) : c = f(n) /\ Len(c) = n BY <2>1
    <3>2. /\ Append(c, x) \in Seq(Seq(OpRecord)) /\ Len(Append(c, x)) = n + 1 /\ Append(c, x)[n + 1] = x
          /\ \A i \in 1..n : Append(c, x)[i] = c[i]
      BY <3>1, AppendProperties
    <3>3. ASSUME NEW i \in 1..(n + 1)  PROVE f(n + 1)[i] = Append(c, x)[i]
      <4>1. f(n + 1)[i] = ChunkOps(plan, i - 1) OBVIOUS
      <4>2. CASE i = n + 1
        <5>1. i - 1 = n BY <4>2
        <5> HIDE DEF f
        <5> QED BY <2>3, <3>2, <4>1, <4>2, <5>1
      <4>3. CASE i \in 1..n
        <5>1. c[i] = ChunkOps(plan, i - 1) BY <3>1, <4>3
        <5> HIDE DEF f
        <5> QED BY <3>2, <4>1, <4>3, <5>1
      <4>4. i = n + 1 \/ i \in 1..n OBVIOUS
      <4> HIDE DEF f, Good, T
      <4> QED BY <4>2, <4>3, <4>4
    <3>4. f(n + 1) = Append(c, x)
      <4> HIDE DEF f
      <4> QED BY <2>2, <3>2, <3>3, SeqEqual
    <3> QED BY <3>1, <3>4
  <2>5. FlattenSeq(f(n + 1)) = FlattenSeq(f(n)) \o x
    <3> HIDE DEF f
    <3> QED BY <2>1, <2>4, FlattenedLast
  <2>6. PICK m \in Seq(OpRecord) : /\ m = FlattenSeq(f(n)) /\ Len(m) = 5 * n
                                   /\ \A i \in 0..(n - 1), p \in 1..5 : m[5 * i + p] = ChunkOps(plan, i)[p]
    <3> HIDE DEF f
    <3> QED BY <2>1
  <2>7. /\ m \o x \in Seq(OpRecord) /\ Len(m \o x) = 5 * n + 5
        /\ \A i \in 1..(5 * n) : (m \o x)[i] = m[i]
        /\ \A p \in 1..5 : (m \o x)[5 * n + p] = x[p]
    <3>1. /\ m \o x \in Seq(OpRecord) /\ Len(m \o x) = Len(m) + Len(x)
          /\ \A i \in 1..Len(m) : (m \o x)[i] = m[i]
          /\ \A j \in 1..Len(x) : (m \o x)[Len(m) + j] = x[j]
      BY Places
    <3> QED BY <2>3, <2>6, <3>1
  <2>8. ASSUME NEW i \in 0..n, NEW p \in 1..5  PROVE (m \o x)[5 * i + p] = ChunkOps(plan, i)[p]
    <3>1. CASE i = n BY <2>3, <2>7, <3>1
    <3>2. CASE i # n
      <4>1. i \in 0..(n - 1) /\ 5 * i + p \in 1..(5 * n) BY <3>2
      <4> QED BY <2>6, <2>7, <4>1
    <3> QED BY <3>1, <3>2
  <2>9. Good(n + 1)
    <3>1. (n + 1) - 1 = n /\ 5 * (n + 1) = 5 * n + 5 OBVIOUS
    <3> HIDE DEF f
    <3> QED BY <2>2, <2>5, <2>6, <2>7, <2>8, <3>1
  <2> HIDE DEF Good
  <2> QED BY <2>9
<1>5. plan.count \in T
  <2> HIDE DEF T
  <2> QED BY <1>1, <1>3, <1>4, UpTo
<1>6. Good(plan.count)
  <2> HIDE DEF Good
  <2> QED BY <1>1, <1>5
<1> QED BY <1>6

\* A chunk as it stands in the list.
LEMMA ChunkAt ==
    ASSUME NEW plan, NEW i
    PROVE  /\ ChunkOps(plan, i)[1] = Op("wait", <<>>, i) /\ ChunkOps(plan, i)[2] = Put(<<<<"size", ChunkSize(plan, i)>>>>)
           /\ ChunkOps(plan, i)[3] = Op("data", <<>>, ChunkSize(plan, i))
           /\ ChunkOps(plan, i)[4] = Put(<<<<"crlf", 0>>>>) /\ ChunkOps(plan, i)[5] = Flush
<1>1. PICK a, b, c, d, e : /\ a = Op("wait", <<>>, i) /\ b = Put(<<<<"size", ChunkSize(plan, i)>>>>)
                           /\ c = Op("data", <<>>, ChunkSize(plan, i)) /\ d = Put(<<<<"crlf", 0>>>>) /\ e = Flush
  OBVIOUS
<1>2. ChunkOps(plan, i) = <<a, b, c, d, e>> BY <1>1 DEF ChunkOps
<1>3. /\ <<a, b, c, d, e>>[1] = a /\ <<a, b, c, d, e>>[2] = b /\ <<a, b, c, d, e>>[3] = c
      /\ <<a, b, c, d, e>>[4] = d /\ <<a, b, c, d, e>>[5] = e
  OBVIOUS
<1> QED BY <1>1, <1>2, <1>3

\* The operations of a stream.
LEMMA StreamPlaces ==
    ASSUME NEW plan \in Plan
    PROVE  LET s == StreamOps(plan)
               c == plan.count
           IN  /\ s \in Seq(OpRecord) /\ s[1] = Op("open", <<>>, 0)
               /\ Len(s) = IF plan.mode = "fin" THEN 5 * c + 3 ELSE 5 * c + 5
               /\ \A i \in 0..(c - 1), p \in 1..5 : s[5 * i + p + 1] = ChunkOps(plan, i)[p]
               /\ s[5 * c + 2] = Op("verify", <<>>, 0) /\ s[5 * c + 3] = Op("release", <<>>, 0)
               /\ plan.mode # "fin" => s[5 * c + 4] = Put(<<<<"zero", 0>>>>) /\ s[5 * c + 5] = Flush
<1> DEFINE middle == FlattenSeq([i \in 1..plan.count |-> ChunkOps(plan, i - 1)])
           last == IF plan.mode = "fin" THEN <<>> ELSE <<Put(<<<<"zero", 0>>>>), Flush>>
<1>1. PICK c \in Nat : c = plan.count BY DEF Plan
<1>2. PICK m : m = middle OBVIOUS
<1>3. /\ m \in Seq(OpRecord) /\ Len(m) = 5 * c
      /\ \A i \in 0..(c - 1), p \in 1..5 : m[5 * i + p] = ChunkOps(plan, i)[p]
  BY <1>1, <1>2, ChunkPlaces
<1>4. PICK o, v, r, z, w : /\ o = Op("open", <<>>, 0) /\ v = Op("verify", <<>>, 0) /\ r = Op("release", <<>>, 0)
                           /\ z = Put(<<<<"zero", 0>>>>) /\ w = Flush
  OBVIOUS
<1>5. o \in OpRecord /\ v \in OpRecord /\ r \in OpRecord /\ z \in OpRecord /\ w \in OpRecord
  BY <1>4, Operations
<1>6. PICK l : l = last OBVIOUS
<1>7. StreamOps(plan) = ((<<o>> \o m) \o <<v, r>>) \o l BY <1>2, <1>4, <1>6, Zenon DEF StreamOps
<1>8. /\ l \in Seq(OpRecord) /\ Len(l) = IF plan.mode = "fin" THEN 0 ELSE 2
      /\ plan.mode # "fin" => l[1] = z /\ l[2] = w
  <2>1. CASE plan.mode = "fin"
    <3>1. l = <<>> BY <1>6, <2>1
    <3> QED BY <2>1, <3>1
  <2>2. CASE plan.mode # "fin"
    <3>1. l = <<z, w>> BY <1>4, <1>6, <2>2
    <3>2. <<z, w>> \in Seq(OpRecord) /\ Len(<<z, w>>) = 2 /\ <<z, w>>[1] = z /\ <<z, w>>[2] = w BY <1>5
    <3> QED BY <2>2, <3>1, <3>2
  <2> QED BY <2>1, <2>2
<1> HIDE DEF middle, last
<1>9. PICK a : a = <<o>> \o m OBVIOUS
<1>10. a \in Seq(OpRecord) /\ Len(a) = 5 * c + 1 /\ a[1] = o /\ \A j \in 1..(5 * c) : a[1 + j] = m[j]
  <2>1. <<o>> \in Seq(OpRecord) /\ Len(<<o>>) = 1 /\ <<o>>[1] = o BY <1>5
  <2>2. PICK x \in Seq(OpRecord) : x = <<o>> /\ Len(x) = 1 /\ x[1] = o BY <2>1
  <2>3. /\ x \o m \in Seq(OpRecord) /\ Len(x \o m) = 1 + Len(m) /\ (x \o m)[1] = o
        /\ \A j \in 1..Len(m) : (x \o m)[1 + j] = m[j]
    <3>0. m \in Seq(OpRecord) BY <1>3
    <3>1. /\ x \o m \in Seq(OpRecord) /\ Len(x \o m) = Len(x) + Len(m)
          /\ \A i \in 1..Len(x) : (x \o m)[i] = x[i]
          /\ \A j \in 1..Len(m) : (x \o m)[Len(x) + j] = m[j]
      BY <3>0, Places
    <3> QED BY <2>2, <3>1
  <2> QED BY <1>3, <1>9, <2>2, <2>3
<1>11. PICK b : b = a \o <<v, r>> OBVIOUS
<1>12. /\ b \in Seq(OpRecord) /\ Len(b) = 5 * c + 3 /\ \A j \in 1..(5 * c + 1) : b[j] = a[j]
       /\ b[5 * c + 2] = v /\ b[5 * c + 3] = r
  <2>1. <<v, r>> \in Seq(OpRecord) /\ Len(<<v, r>>) = 2 /\ <<v, r>>[1] = v /\ <<v, r>>[2] = r BY <1>5
  <2>2. PICK x \in Seq(OpRecord) : x = <<v, r>> /\ Len(x) = 2 /\ x[1] = v /\ x[2] = r BY <2>1
  <2>3. /\ a \o x \in Seq(OpRecord) /\ Len(a \o x) = Len(a) + 2 /\ \A j \in 1..Len(a) : (a \o x)[j] = a[j]
        /\ (a \o x)[Len(a) + 1] = v /\ (a \o x)[Len(a) + 2] = r
    <3>0. a \in Seq(OpRecord) BY <1>10
    <3>1. /\ a \o x \in Seq(OpRecord) /\ Len(a \o x) = Len(a) + Len(x)
          /\ \A i \in 1..Len(a) : (a \o x)[i] = a[i]
          /\ \A j \in 1..Len(x) : (a \o x)[Len(a) + j] = x[j]
      BY <3>0, Places
    <3> QED BY <2>2, <3>1
  <2>4. (5 * c + 1) + 1 = 5 * c + 2 /\ (5 * c + 1) + 2 = 5 * c + 3 OBVIOUS
  <2> QED BY <1>10, <1>11, <2>2, <2>3, <2>4
<1>13. PICK s : s = b \o l OBVIOUS
<1>14. /\ s \in Seq(OpRecord) /\ Len(s) = 5 * c + 3 + Len(l) /\ \A j \in 1..(5 * c + 3) : s[j] = b[j]
       /\ \A j \in 1..Len(l) : s[(5 * c + 3) + j] = l[j]
  <2>0. b \in Seq(OpRecord) /\ l \in Seq(OpRecord) BY <1>8, <1>12
  <2>1. /\ b \o l \in Seq(OpRecord) /\ Len(b \o l) = Len(b) + Len(l)
        /\ \A i \in 1..Len(b) : (b \o l)[i] = b[i]
        /\ \A j \in 1..Len(l) : (b \o l)[Len(b) + j] = l[j]
    BY <2>0, Places
  <2> QED BY <1>12, <1>13, <2>1
<1>15. StreamOps(plan) = s BY <1>7, <1>9, <1>11, <1>13
<1>16. ASSUME NEW i \in 0..(c - 1), NEW p \in 1..5  PROVE s[5 * i + p + 1] = ChunkOps(plan, i)[p]
  <2>1. 5 * i + p \in 1..(5 * c) /\ 5 * i + p + 1 \in 1..(5 * c + 1) /\ 5 * i + p + 1 \in 1..(5 * c + 3)
        /\ 1 + (5 * i + p) = 5 * i + p + 1
    OBVIOUS
  <2>2. PICK n \in 1..(5 * c) : n = 5 * i + p BY <2>1
  <2>3. s[1 + n] = b[1 + n] BY <1>14, <2>1, <2>2
  <2>4. b[1 + n] = a[1 + n] BY <1>12, <2>1, <2>2
  <2>5. a[1 + n] = m[n] BY <1>10
  <2>6. m[n] = ChunkOps(plan, i)[p] BY <1>3, <2>2
  <2> QED BY <2>1, <2>2, <2>3, <2>4, <2>5, <2>6
<1>17. s[1] = o /\ s[5 * c + 2] = v /\ s[5 * c + 3] = r
  <2>1. 1 \in 1..(5 * c + 1) /\ 1 \in 1..(5 * c + 3) /\ 5 * c + 2 \in 1..(5 * c + 3) /\ 5 * c + 3 \in 1..(5 * c + 3)
    OBVIOUS
  <2> QED BY <1>10, <1>12, <1>14, <2>1
<1>18. ASSUME plan.mode # "fin"  PROVE s[5 * c + 4] = z /\ s[5 * c + 5] = w
  <2>1. (5 * c + 3) + 1 = 5 * c + 4 /\ (5 * c + 3) + 2 = 5 * c + 5 OBVIOUS
  <2> QED BY <1>8, <1>14, <1>18, <2>1
<1>19. Len(s) = IF plan.mode = "fin" THEN 5 * c + 3 ELSE 5 * c + 5 BY <1>8, <1>14
<1> QED BY <1>1, <1>4, <1>14, <1>15, <1>16, <1>17, <1>18, <1>19

\* One operation in front of others.
LEMMA FirstPlace ==
    ASSUME NEW x \in OpRecord, NEW b \in Seq(OpRecord)
    PROVE  /\ <<x>> \o b \in Seq(OpRecord) /\ Len(<<x>> \o b) = 1 + Len(b) /\ Len(b) \in Nat
           /\ (<<x>> \o b)[1] = x /\ \A j \in 1..Len(b) : (<<x>> \o b)[1 + j] = b[j]
<1>1. PICK a \in Seq(OpRecord) : a = <<x>> /\ Len(a) = 1 /\ a[1] = x
  <2>1. <<x>> \in Seq(OpRecord) /\ Len(<<x>>) = 1 /\ <<x>>[1] = x OBVIOUS
  <2> QED BY <2>1
<1>2. /\ a \o b \in Seq(OpRecord) /\ Len(a \o b) = Len(a) + Len(b)
      /\ \A i \in 1..Len(a) : (a \o b)[i] = a[i]
      /\ \A j \in 1..Len(b) : (a \o b)[Len(a) + j] = b[j]
  BY Places
<1> QED BY <1>1, <1>2

\* The head of a response, what it carries, and its end.
LEMMA ResponsePlaces ==
    ASSUME NEW r \in ResponseRecord
    PROVE  LET q == ResponseOps(r)
               b == IF r.target = "none" THEN <<>>
                    ELSE <<Put(<<<<"msg", r.length>>>>)>> \o (IF r.stream THEN StreamOps(r.plan) ELSE BodyOps(r.body))
           IN  b \in Seq(OpRecord) =>
               /\ q \in Seq(OpRecord) /\ q[1] = Put(<<<<"head", r.status>>>>) /\ Len(b) \in Nat
               /\ \A j \in 1..Len(b) : q[1 + j] = b[j]
               /\ Len(q) >= 2 + Len(b) /\ \A k \in DOMAIN q : k > 1 + Len(b) => Trailer(r, q[k])
<1> DEFINE body == IF r.target = "none" THEN <<>>
                   ELSE <<Put(<<<<"msg", r.length>>>>)>> \o (IF r.stream THEN StreamOps(r.plan) ELSE BodyOps(r.body))
           raw == IF r.icap = <<>> THEN <<>> ELSE <<Put(Bytes("raw", r.icap))>>
<1>1. PICK b : b = body OBVIOUS
<1>2. SUFFICES ASSUME b \in Seq(OpRecord)
               PROVE  LET q == ResponseOps(r)
                      IN  /\ q \in Seq(OpRecord) /\ q[1] = Put(<<<<"head", r.status>>>>) /\ Len(b) \in Nat
                          /\ \A j \in 1..Len(b) : q[1 + j] = b[j]
                          /\ Len(q) >= 2 + Len(b) /\ \A k \in DOMAIN q : k > 1 + Len(b) => Trailer(r, q[k])
  BY <1>1
<1>3. PICK h, w, u : h = Put(<<<<"head", r.status>>>>) /\ w = Flush /\ u = raw OBVIOUS
<1>4. ResponseOps(r) = ((<<h>> \o b) \o u) \o <<w>> BY <1>1, <1>3, Zenon DEF ResponseOps
<1>5. h \in OpRecord /\ w \in OpRecord /\ Trailer(r, w)
  <2>1. r.status \in Int BY DEF ResponseRecord
  <2> QED BY <1>3, <2>1, Operations DEF Trailer
<1>6. u \in Seq(OpRecord) /\ Len(u) \in Nat /\ \A i \in 1..Len(u) : Trailer(r, u[i])
  <2>1. CASE r.icap = <<>>
    <3>1. u = <<>> BY <1>3, <2>1
    <3> QED BY <3>1
  <2>2. CASE r.icap # <<>>
    <3>1. PICK x : x = Put(Bytes("raw", r.icap)) OBVIOUS
    <3>2. x \in OpRecord
      <4>1. Bytes("raw", r.icap) \in Seq(Token) BY BytesTyped DEF ResponseRecord
      <4> QED BY <3>1, <4>1, Operations
    <3>3. u = <<x>> BY <1>3, <2>2, <3>1
    <3>4. Trailer(r, x) BY <2>2, <3>1 DEF Trailer
    <3>5. <<x>> \in Seq(OpRecord) /\ Len(<<x>>) = 1 /\ <<x>>[1] = x BY <3>2
    <3> QED BY <3>3, <3>4, <3>5
  <2> QED BY <2>1, <2>2
<1> HIDE DEF body, raw
<1>7. PICK a : a = <<h>> \o b OBVIOUS
<1>8. a \in Seq(OpRecord) /\ Len(a) = 1 + Len(b) /\ Len(b) \in Nat /\ a[1] = h /\ \A j \in 1..Len(b) : a[1 + j] = b[j]
  BY <1>2, <1>5, <1>7, FirstPlace
<1>9. PICK c : c = a \o u OBVIOUS
<1>10. /\ c \in Seq(OpRecord) /\ Len(c) = Len(a) + Len(u) /\ \A i \in 1..Len(a) : c[i] = a[i]
       /\ \A j \in 1..Len(u) : c[Len(a) + j] = u[j]
  BY <1>6, <1>8, <1>9, Places
<1>11. PICK t \in Seq(OpRecord) : t = <<w>> /\ Len(t) = 1 /\ t[1] = w
  <2>1. <<w>> \in Seq(OpRecord) /\ Len(<<w>>) = 1 /\ <<w>>[1] = w BY <1>5
  <2> QED BY <2>1
<1>12. PICK q : q = c \o t OBVIOUS
<1>13. /\ q \in Seq(OpRecord) /\ Len(q) = Len(c) + Len(t) /\ \A i \in 1..Len(c) : q[i] = c[i]
       /\ \A j \in 1..Len(t) : q[Len(c) + j] = t[j]
  BY <1>10, <1>12, Places
<1>14. PICK n \in Nat, m \in Nat : n = Len(b) /\ m = Len(u) BY <1>6, <1>8
<1>15. Len(a) = 1 + n /\ Len(c) = 1 + n + m /\ Len(q) = 2 + n + m /\ DOMAIN q = 1..(2 + n + m)
  BY <1>8, <1>10, <1>11, <1>13, <1>14
<1>16. q[1] = h
  <2>1. 1 \in 1..(1 + n) /\ 1 \in 1..(1 + n + m) OBVIOUS
  <2> QED BY <1>8, <1>10, <1>13, <1>15, <2>1
<1>17. ASSUME NEW j \in 1..n  PROVE q[1 + j] = b[j]
  <2>1. 1 + j \in 1..(1 + n) /\ 1 + j \in 1..(1 + n + m) OBVIOUS
  <2> QED BY <1>8, <1>10, <1>13, <1>14, <1>15, <2>1
<1>18. ASSUME NEW k \in DOMAIN q, k > 1 + n  PROVE Trailer(r, q[k])
  <2>1. CASE k = 2 + n + m
    <3>1. k = Len(c) + 1 /\ 1 \in 1..Len(t) BY <1>11, <1>15, <2>1
    <3> QED BY <1>5, <1>11, <1>13, <3>1
  <2>2. CASE k # 2 + n + m
    <3>1. PICK j \in 1..m : k = (1 + n) + j
      <4>1. k - (1 + n) \in 1..m /\ k = (1 + n) + (k - (1 + n)) BY <1>15, <1>18, <2>2
      <4> QED BY <4>1
    <3>2. k \in 1..(1 + n + m) BY <3>1
    <3>3. q[k] = c[k] BY <1>13, <1>15, <3>2
    <3>4. c[k] = u[j] BY <1>10, <1>14, <1>15, <3>1
    <3> QED BY <1>6, <1>14, <3>3, <3>4
  <2> QED BY <2>1, <2>2
<1>19. ResponseOps(r) = q BY <1>4, <1>7, <1>9, <1>11, <1>12
<1> QED BY <1>3, <1>13, <1>14, <1>15, <1>16, <1>17, <1>18, <1>19

\* Where the operations of a response are.
LEMMA Layout ==
    ASSUME NEW r \in ResponseRecord
    PROVE  Laid(ResponseOps(r), r)
<1>1. /\ r.length \in Int /\ r.plan \in Plan /\ r.body \in Seq(Int) /\ r.stream \in BOOLEAN /\ r.status \in Int
  BY DEF ResponseRecord
<1>2. PICK q : q = ResponseOps(r) OBVIOUS
<1>3. PICK g : g = Put(<<<<"msg", r.length>>>>) OBVIOUS
<1>4. g \in OpRecord BY <1>1, <1>3, Operations
<1>5. CASE r.target = "none"
  <2>1. PICK b : b = <<>> OBVIOUS
  <2>2. b \in Seq(OpRecord) /\ Len(b) = 0 BY <2>1
  <2>3. /\ q \in Seq(OpRecord) /\ q[1] = Put(<<<<"head", r.status>>>>)
        /\ Len(q) >= 2 + Len(b) /\ \A k \in DOMAIN q : k > 1 + Len(b) => Trailer(r, q[k])
    BY <1>2, <1>5, <2>1, <2>2, ResponsePlaces
  <2>4. Len(q) >= 2 /\ BareLaid(q, r) BY <1>5, <2>2, <2>3 DEF BareLaid
  <2> QED BY <1>2, <1>5, <2>3, <2>4 DEF Laid
<1>6. CASE r.target # "none" /\ r.stream
  <2>1. PICK s : s = StreamOps(r.plan) OBVIOUS
  <2>2. PICK c \in Nat : c = r.plan.count BY <1>1 DEF Plan
  <2>3. /\ s \in Seq(OpRecord) /\ s[1] = Op("open", <<>>, 0)
        /\ Len(s) = IF r.plan.mode = "fin" THEN 5 * c + 3 ELSE 5 * c + 5
        /\ \A i \in 0..(c - 1), p \in 1..5 : s[5 * i + p + 1] = ChunkOps(r.plan, i)[p]
        /\ s[5 * c + 2] = Op("verify", <<>>, 0) /\ s[5 * c + 3] = Op("release", <<>>, 0)
        /\ r.plan.mode # "fin" => s[5 * c + 4] = Put(<<<<"zero", 0>>>>) /\ s[5 * c + 5] = Flush
    BY <1>1, <2>1, <2>2, StreamPlaces
  <2>4. PICK b : b = <<g>> \o s OBVIOUS
  <2>5. b \in Seq(OpRecord) /\ Len(b) = 1 + Len(s) /\ Len(s) \in Nat /\ b[1] = g /\ \A j \in 1..Len(s) : b[1 + j] = s[j]
    BY <1>4, <2>3, <2>4, FirstPlace
  <2>6. b = IF r.target = "none" THEN <<>>
            ELSE <<Put(<<<<"msg", r.length>>>>)>> \o (IF r.stream THEN StreamOps(r.plan) ELSE BodyOps(r.body))
    BY <1>3, <1>6, <2>1, <2>4
  <2>7. /\ q \in Seq(OpRecord) /\ q[1] = Put(<<<<"head", r.status>>>>) /\ \A j \in 1..Len(b) : q[1 + j] = b[j]
        /\ Len(q) >= 2 + Len(b) /\ \A k \in DOMAIN q : k > 1 + Len(b) => Trailer(r, q[k])
    BY <1>2, <2>5, <2>6, ResponsePlaces
  <2>8. q[2] = g /\ \A j \in 1..Len(s) : q[2 + j] = s[j]
    <3>1. q[2] = g
      <4>1. 1 \in 1..Len(b) /\ 1 + 1 = 2 BY <2>5
      <4> QED BY <2>5, <2>7, <4>1
    <3>2. ASSUME NEW j \in 1..Len(s)  PROVE q[2 + j] = s[j]
      <4>1. 1 + j \in 1..Len(b) /\ 1 + (1 + j) = 2 + j BY <2>5
      <4> QED BY <2>5, <2>7, <4>1
    <3> QED BY <3>1, <3>2
  <2>9. Len(s) >= 5 * c + 3 /\ (r.plan.mode # "fin" => Len(s) = 5 * c + 5) BY <2>3
  <2>10. q[3] = Op("open", <<>>, 0)
    <3>1. 1 \in 1..Len(s) /\ 2 + 1 = 3 BY <2>5, <2>9
    <3> QED BY <2>3, <2>8, <3>1
  <2>11. ASSUME NEW i \in 0..(c - 1)  PROVE ChunkLaid(q, r.plan, i)
    <3>1. ASSUME NEW p \in 1..5  PROVE q[5 * i + p + 3] = ChunkOps(r.plan, i)[p]
      <4>1. PICK n \in 1..Len(s) : n = 5 * i + p + 1 BY <2>5, <2>9
      <4>2. 2 + n = 5 * i + p + 3 BY <4>1
      <4> QED BY <2>3, <2>8, <4>1, <4>2
    <3>2. /\ q[5 * i + 1 + 3] = ChunkOps(r.plan, i)[1] /\ q[5 * i + 2 + 3] = ChunkOps(r.plan, i)[2]
          /\ q[5 * i + 3 + 3] = ChunkOps(r.plan, i)[3] /\ q[5 * i + 4 + 3] = ChunkOps(r.plan, i)[4]
          /\ q[5 * i + 5 + 3] = ChunkOps(r.plan, i)[5]
      BY <3>1
    <3>3. /\ 5 * i + 1 + 3 = 4 + 5 * i /\ 5 * i + 2 + 3 = 5 + 5 * i /\ 5 * i + 3 + 3 = 6 + 5 * i
          /\ 5 * i + 4 + 3 = 7 + 5 * i /\ 5 * i + 5 + 3 = 8 + 5 * i
      OBVIOUS
    <3>4. PICK u, v, w, y, z : /\ u = Op("wait", <<>>, i) /\ v = Put(<<<<"size", ChunkSize(r.plan, i)>>>>)
                               /\ w = Op("data", <<>>, ChunkSize(r.plan, i)) /\ y = Put(<<<<"crlf", 0>>>>) /\ z = Flush
      OBVIOUS
    <3>5. /\ ChunkOps(r.plan, i)[1] = u /\ ChunkOps(r.plan, i)[2] = v /\ ChunkOps(r.plan, i)[3] = w
          /\ ChunkOps(r.plan, i)[4] = y /\ ChunkOps(r.plan, i)[5] = z
      BY <3>4, ChunkAt
    <3>6. q[4 + 5 * i] = u /\ q[5 + 5 * i] = v /\ q[6 + 5 * i] = w /\ q[7 + 5 * i] = y /\ q[8 + 5 * i] = z
      BY <3>2, <3>3, <3>5
    <3> QED BY <3>4, <3>6, Zenon DEF ChunkLaid
  <2>12. q[4 + 5 * c] = Op("verify", <<>>, 0) /\ q[5 + 5 * c] = Op("release", <<>>, 0)
    <3>1. PICK n \in 1..Len(s), m \in 1..Len(s) : n = 5 * c + 2 /\ m = 5 * c + 3 BY <2>5, <2>9
    <3>2. 2 + n = 4 + 5 * c /\ 2 + m = 5 + 5 * c BY <3>1
    <3> QED BY <2>3, <2>8, <3>1, <3>2
  <2>13. ASSUME r.plan.mode # "fin"
         PROVE  q[6 + 5 * c] = Put(<<<<"zero", 0>>>>) /\ q[7 + 5 * c] = Flush
    <3>1. PICK n \in 1..Len(s), m \in 1..Len(s) : n = 5 * c + 4 /\ m = 5 * c + 5 BY <2>5, <2>9, <2>13
    <3>2. 2 + n = 6 + 5 * c /\ 2 + m = 7 + 5 * c BY <3>1
    <3> QED BY <2>3, <2>8, <2>13, <3>1, <3>2
  <2>14. PICK l \in Nat : l = Len(q) BY <2>7
  <2>15. l >= 6 + 5 * c /\ (r.plan.mode # "fin" => l >= 8 + 5 * c) BY <2>5, <2>7, <2>9, <2>14
  <2>16. ASSUME NEW k \in DOMAIN q, k > (IF r.plan.mode = "fin" THEN 5 + 5 * c ELSE 7 + 5 * c)
         PROVE  Trailer(r, q[k])
    <3>1. k \in Nat BY <2>7
    <3>2. k > 1 + Len(b) BY <2>3, <2>5, <2>16, <3>1
    <3> QED BY <2>7, <3>2
  <2>17. StreamLaid(q, r)
    BY <1>3, <2>2, <2>8, <2>10, <2>11, <2>12, <2>13, <2>14, <2>15, <2>16 DEF StreamLaid
  <2>18. Len(q) >= 2 BY <2>14, <2>15
  <2> QED BY <1>2, <1>6, <2>7, <2>17, <2>18 DEF Laid
<1>7. CASE r.target # "none" /\ ~r.stream
  <2>1. PICK s : s = BodyOps(r.body) OBVIOUS
  <2>2. PICK x, y, v, z : /\ x = Put(<<<<"size", Len(r.body)>>>>) /\ y = Put(Bytes("byte", r.body))
                          /\ v = Put(<<<<"crlf", 0>>>>) /\ z = Put(<<<<"zero", 0>>>>)
    OBVIOUS
  <2>3. x \in OpRecord /\ y \in OpRecord /\ v \in OpRecord /\ z \in OpRecord
    <3>1. Bytes("byte", r.body) \in Seq(Token) /\ Len(r.body) \in Int BY <1>1, BytesTyped
    <3> QED BY <2>2, <3>1, Operations
  <2>4. s = IF r.body = <<>> THEN <<>> ELSE <<x, y, v, z>> BY <2>1, <2>2 DEF BodyOps
  <2>5. s \in Seq(OpRecord)
    <3>1. <<x, y, v, z>> \in Seq(OpRecord) /\ <<>> \in Seq(OpRecord) BY <2>3
    <3> QED BY <2>4, <3>1
  <2>6. PICK b : b = <<g>> \o s OBVIOUS
  <2>7. b \in Seq(OpRecord) /\ Len(b) = 1 + Len(s) /\ Len(s) \in Nat /\ b[1] = g /\ \A j \in 1..Len(s) : b[1 + j] = s[j]
    BY <1>4, <2>5, <2>6, FirstPlace
  <2>8. b = IF r.target = "none" THEN <<>>
            ELSE <<Put(<<<<"msg", r.length>>>>)>> \o (IF r.stream THEN StreamOps(r.plan) ELSE BodyOps(r.body))
    BY <1>3, <1>7, <2>1, <2>6
  <2>9. /\ q \in Seq(OpRecord) /\ q[1] = Put(<<<<"head", r.status>>>>) /\ \A j \in 1..Len(b) : q[1 + j] = b[j]
        /\ Len(q) >= 2 + Len(b) /\ \A k \in DOMAIN q : k > 1 + Len(b) => Trailer(r, q[k])
    BY <1>2, <2>7, <2>8, ResponsePlaces
  <2>10. q[2] = g /\ \A j \in 1..Len(s) : q[2 + j] = s[j]
    <3>1. q[2] = g
      <4>1. 1 \in 1..Len(b) /\ 1 + 1 = 2 BY <2>7
      <4> QED BY <2>7, <2>9, <4>1
    <3>2. ASSUME NEW j \in 1..Len(s)  PROVE q[2 + j] = s[j]
      <4>1. 1 + j \in 1..Len(b) /\ 1 + (1 + j) = 2 + j BY <2>7
      <4> QED BY <2>7, <2>9, <4>1
    <3> QED BY <3>1, <3>2
  <2>11. PICK l \in Nat : l = Len(q) BY <2>9
  <2>12. CASE r.body = <<>>
    <3>1. Len(s) = 0 /\ Len(b) = 1
      <4>1. s = <<>> BY <2>4, <2>12
      <4>2. Len(s) = 0 BY <4>1
      <4> QED BY <2>7, <4>2
    <3>2. ASSUME NEW k \in DOMAIN q, k > 1  PROVE IF k = 2 THEN q[k] = g ELSE Trailer(r, q[k])
      <4>1. k \in Nat BY <2>9
      <4>2. k = 2 \/ k > 1 + Len(b) BY <3>1, <3>2, <4>1
      <4> QED BY <2>9, <2>10, <4>2
    <3>3. BareLaid(q, r) BY <1>3, <1>7, <3>2 DEF BareLaid
    <3>4. Len(q) >= 2 BY <2>9, <2>11, <3>1
    <3> QED BY <1>2, <1>7, <2>9, <2>12, <3>3, <3>4 DEF Laid
  <2>13. CASE r.body # <<>>
    <3>1. Len(s) = 4 /\ Len(b) = 5 /\ s[1] = x /\ s[2] = y /\ s[3] = v /\ s[4] = z
      <4>1. s = <<x, y, v, z>> BY <2>4, <2>13
      <4>2. Len(s) = 4 /\ s[1] = x /\ s[2] = y /\ s[3] = v /\ s[4] = z BY <4>1
      <4> QED BY <2>7, <4>2
    <3>2. q[3] = x /\ q[4] = y /\ q[5] = v /\ q[6] = z
      <4>1. q[2 + 1] = s[1] /\ q[2 + 2] = s[2] /\ q[2 + 3] = s[3] /\ q[2 + 4] = s[4] BY <2>10, <3>1
      <4> QED BY <3>1, <4>1
    <3>3. l >= 7 BY <2>9, <2>11, <3>1
    <3>4. ASSUME NEW k \in DOMAIN q, k > 6  PROVE Trailer(r, q[k])
      <4>1. k > 1 + Len(b) BY <3>1, <3>4
      <4> QED BY <2>9, <4>1
    <3>5. BodyLaid(q, r) BY <1>3, <2>2, <2>10, <2>11, <3>2, <3>3, <3>4 DEF BodyLaid
    <3>6. Len(q) >= 2 BY <2>11, <3>3
    <3> QED BY <1>2, <1>7, <2>9, <2>13, <3>5, <3>6 DEF Laid
  <2> QED BY <2>12, <2>13
<1> QED BY <1>1, <1>5, <1>6, <1>7

-----------------------------------------------------------------------------
(* The order of the operations *)

\* Operations that write no part of a chunk and do not end the body.
CalmKinds == {"msg", "raw", "flush", "open", "wait", "verify", "release"}
Uniform(x) == x.op = "put" => x.toks # <<>> /\ \A i \in DOMAIN x.toks : x.toks[i][1] = x.toks[1][1]
Calm(x) == Uniform(x) /\ KindOf(x) \in CalmKinds

\* The kinds of the operations: one token, no token, or bytes.
LEMMA OneTokenKind ==
    ASSUME NEW kind \in {"head", "msg", "size", "crlf", "zero"}, NEW v, NEW x, x = Put(<<<<kind, v>>>>)
    PROVE  /\ x.op = "put" /\ Len(x.toks) = 1 /\ x.toks[1][1] = kind /\ x.toks[1][2] = v /\ x.toks # <<>>
           /\ Uniform(x) /\ KindOf(x) = kind /\ Debt(x) = IF kind = "crlf" THEN 0 ELSE -1
           /\ (kind = "msg" => Calm(x))
<1>1. PICK t : t = <<kind, v>> OBVIOUS
<1>2. t[1] = kind /\ t[2] = v BY <1>1
<1>3. PICK s : s = <<t>> OBVIOUS
<1>4. Len(s) = 1 /\ s[1] = t /\ DOMAIN s = 1..1 /\ s # <<>> BY <1>3
<1>5. x.op = "put" /\ x.toks = s BY <1>1, <1>3 DEF Put, Op
<1>6. KindOf(x) = kind BY <1>2, <1>4, <1>5 DEF KindOf
<1>7. Uniform(x) BY <1>4, <1>5 DEF Uniform
<1>8. Debt(x) = IF kind = "crlf" THEN 0 ELSE -1 BY <1>6 DEF Debt
<1> QED BY <1>2, <1>4, <1>5, <1>6, <1>7, <1>8 DEF Calm, CalmKinds

\* An operation that writes no token, and what is owed before it.
LEMMA NoTokenKind ==
    ASSUME NEW o \in {"flush", "open", "wait", "data", "verify", "release"}, NEW n, NEW x, x = Op(o, <<>>, n)
    PROVE  /\ x.op = o /\ x.n = n /\ x.toks = <<>> /\ Uniform(x) /\ KindOf(x) = o
           /\ Debt(x) = IF o = "data" THEN n ELSE -1
           /\ (o # "data" => Calm(x))
<1>1. x.op = o /\ x.n = n /\ x.toks = <<>> /\ o # "put" BY DEF Op
<1>2. KindOf(x) = o BY <1>1 DEF KindOf
<1>3. Uniform(x) BY <1>1 DEF Uniform
<1>4. Debt(x) = IF o = "data" THEN n ELSE -1 BY <1>1, <1>2 DEF Debt
<1> QED BY <1>1, <1>2, <1>3, <1>4 DEF Calm, CalmKinds

\* A flush owes nothing.
LEMMA FlushKind ==
    ASSUME NEW x, x = Flush
    PROVE  x.op = "flush" /\ Calm(x) /\ KindOf(x) = "flush" /\ Debt(x) = -1
<1>1. PICK o : o = "flush" OBVIOUS
<1>2. x = Op(o, <<>>, 0) BY <1>1 DEF Flush
<1>3. x.op = o /\ KindOf(x) = o /\ Debt(x) = (IF o = "data" THEN 0 ELSE -1) /\ (o # "data" => Calm(x))
  BY <1>1, <1>2, NoTokenKind
<1> QED BY <1>1, <1>3

\* An operation that writes bytes, and what is owed before it.
LEMMA BytesKind ==
    ASSUME NEW kind \in {"byte", "raw"}, NEW data \in Seq(Int), data # <<>>, NEW x, x = Put(Bytes(kind, data))
    PROVE  /\ x.op = "put" /\ x.toks = Bytes(kind, data) /\ Len(x.toks) = Len(data) /\ x.toks # <<>> /\ Uniform(x) /\ KindOf(x) = kind
           /\ Debt(x) = (IF kind = "byte" THEN Len(data) ELSE -1)
           /\ (kind = "raw" => Calm(x))
           /\ \A i \in DOMAIN x.toks : x.toks[i][1] = kind /\ x.toks[i][2] = data[i]
<1>1. PICK s : s = Bytes(kind, data) OBVIOUS
<1>2. x.op = "put" /\ x.toks = s BY <1>1 DEF Put, Op
<1>3. DOMAIN s = DOMAIN data /\ \A i \in DOMAIN s : s[i] = <<kind, data[i]>> BY <1>1 DEF Bytes
<1>4. \A i \in DOMAIN s : s[i][1] = kind /\ s[i][2] = data[i]
  <2> TAKE i \in DOMAIN s
  <2>1. PICK t : t = <<kind, data[i]>> OBVIOUS
  <2>2. t[1] = kind /\ t[2] = data[i] BY <2>1
  <2> QED BY <1>3, <2>1, <2>2
<1>5. 1 \in DOMAIN data /\ DOMAIN data = 1..Len(data) /\ Len(data) \in Nat
  <2>1. Len(data) \in Nat /\ Len(data) # 0 /\ DOMAIN data = 1..Len(data) OBVIOUS
  <2> QED BY <2>1
<1>6. Len(s) = Len(data) /\ s # <<>>
  <2>1. s \in Seq(Token) BY <1>1, BytesTyped
  <2>2. DOMAIN s = 1..Len(s) /\ Len(s) \in Nat BY <2>1
  <2>3. DOMAIN <<>> = {} OBVIOUS
  <2> QED BY <1>3, <1>5, <2>2, <2>3
<1>7. KindOf(x) = kind BY <1>2, <1>3, <1>4, <1>5 DEF KindOf
<1>8. Uniform(x) BY <1>2, <1>3, <1>4, <1>5, <1>6 DEF Uniform
<1>9. Debt(x) = (IF kind = "byte" THEN Len(data) ELSE -1) BY <1>2, <1>6, <1>7 DEF Debt
<1> QED BY <1>1, <1>2, <1>4, <1>6, <1>7, <1>8, <1>9 DEF Calm, CalmKinds

\* The end of a response is calm, and what is calm owes nothing.
LEMMA CalmTrailer ==
    ASSUME NEW r \in ResponseRecord, NEW x, Trailer(r, x)
    PROVE  Calm(x)
<1>1. CASE x = Flush BY <1>1, FlushKind
<1>2. CASE r.icap # <<>> /\ x = Put(Bytes("raw", r.icap))
  <2>1. PICK kind, data : kind = "raw" /\ data = r.icap OBVIOUS
  <2>2. kind \in {"byte", "raw"} /\ data \in Seq(Int) /\ data # <<>> /\ x = Put(Bytes(kind, data))
    BY <1>2, <2>1 DEF ResponseRecord
  <2>3. kind = "raw" => Calm(x) BY <2>2, BytesKind
  <2> QED BY <2>1, <2>3
<1> QED BY <1>1, <1>2 DEF Trailer

\* Nothing is owed before an operation outside the chunks.
LEMMA CalmDebt ==
    ASSUME NEW x, Calm(x)
    PROVE  Debt(x) = -1
BY DEF Calm, CalmKinds, Debt

\* What stands at a place, and before what, makes the place orderly.
LEMMA OrderlyCalm ==
    ASSUME NEW q, NEW k, Calm(q[k]), k + 1 \in DOMAIN q => Debt(q[k + 1]) = -1
    PROVE  Orderly(q, k)
BY DEF Calm, CalmKinds, Uniform, Orderly

\* A head, a CRLF, a size or a last chunk is in order when what follows it is.
LEMMA OrderlyToken ==
    ASSUME NEW q, NEW k, Uniform(q[k]), Len(q[k].toks) = 1,
           \/ KindOf(q[k]) = "head" /\ k = 1 /\ (k + 1 \in DOMAIN q => Debt(q[k + 1]) = -1)
           \/ KindOf(q[k]) = "crlf" /\ (k + 1 \in DOMAIN q => Debt(q[k + 1]) = -1)
           \/ KindOf(q[k]) = "size" /\ k + 1 \in DOMAIN q /\ q[k].toks[1][2] > 0 /\ Debt(q[k + 1]) = q[k].toks[1][2]
           \/ /\ KindOf(q[k]) = "zero" /\ (k + 1 \in DOMAIN q => Debt(q[k + 1]) = -1)
              /\ \A j \in DOMAIN q : j > k => Calm(q[j])
    PROVE  Orderly(q, k)
BY DEF Uniform, Orderly, Calm, CalmKinds

\* The bytes of a chunk are in order when a CRLF follows them.
LEMMA OrderlyBytes ==
    ASSUME NEW q, NEW k, Uniform(q[k]), KindOf(q[k]) \in {"data", "byte"}, k + 1 \in DOMAIN q, KindOf(q[k + 1]) = "crlf"
    PROVE  Orderly(q, k)
BY DEF Uniform, Orderly

\* A place of a stream is before its chunks, in one of them, or after them.
LEMMA PlaceIn ==
    ASSUME NEW c \in Nat, NEW k \in Nat, k >= 4, k < 4 + 5 * c
    PROVE  \E i \in 0..(c - 1) : k \in {4 + 5 * i, 5 + 5 * i, 6 + 5 * i, 7 + 5 * i, 8 + 5 * i}
<1>1. PICK a \in Nat : a = k - 4 OBVIOUS
<1>2. PICK i, p : i = a \div 5 /\ p = a % 5 OBVIOUS
<1>3. i \in Nat /\ p \in 0..4 /\ a = 5 * i + p BY <1>2
<1>4. i < c BY <1>1, <1>3
<1>5. i \in 0..(c - 1) /\ k \in {4 + 5 * i, 5 + 5 * i, 6 + 5 * i, 7 + 5 * i, 8 + 5 * i} BY <1>1, <1>3, <1>4
<1> QED BY <1>5

\* A response without a body.
LEMMA BareGrammar ==
    ASSUME NEW r \in ResponseRecord, NEW q, Laid(q, r), BareLaid(q, r)
    PROVE  Grammatical(q)
<1>1. q \in Seq(OpRecord) /\ Len(q) >= 2 /\ q[1] = Put(<<<<"head", r.status>>>>) BY DEF Laid
<1>2. q # <<>> /\ 1 \in DOMAIN q /\ DOMAIN q \subseteq Nat \ {0} BY <1>1
<1>3. PICK h : h = "head" OBVIOUS
<1>4. KindOf(q[1]) = h /\ Uniform(q[1]) /\ Len(q[1].toks) = 1 BY <1>1, <1>3, OneTokenKind
<1>5. ASSUME NEW k \in DOMAIN q, k > 1  PROVE Calm(q[k])
  <2>1. CASE Trailer(r, q[k]) BY <2>1, CalmTrailer
  <2>2. CASE q[k] = Put(<<<<"msg", r.length>>>>)
    <3>1. PICK m : m = "msg" OBVIOUS
    <3>2. m = "msg" => Calm(q[k]) BY <2>2, <3>1, OneTokenKind
    <3> QED BY <3>1, <3>2
  <2> QED BY <1>5, <2>1, <2>2 DEF BareLaid
<1>6. ASSUME NEW k \in DOMAIN q  PROVE Orderly(q, k)
  <2>1. k + 1 \in DOMAIN q => Debt(q[k + 1]) = -1
    <3>1. k + 1 > 1 BY <1>2
    <3> QED BY <1>5, <3>1, CalmDebt
  <2>2. CASE k = 1 BY <1>3, <1>4, <2>1, <2>2, OrderlyToken
  <2>3. CASE k > 1 BY <1>5, <2>1, <2>3, OrderlyCalm
  <2> QED BY <1>2, <2>2, <2>3
<1> QED BY <1>2, <1>3, <1>4, <1>6 DEF Grammatical

\* A response with its body in memory.
LEMMA BodyGrammar ==
    ASSUME NEW r \in ResponseRecord, NEW q, Laid(q, r), BodyLaid(q, r), r.body # <<>>
    PROVE  Grammatical(q)
<1>1. q \in Seq(OpRecord) /\ Len(q) >= 7 /\ q[1] = Put(<<<<"head", r.status>>>>) BY DEF Laid, BodyLaid
<1>2. q # <<>> /\ DOMAIN q \subseteq Nat \ {0} /\ {1, 2, 3, 4, 5, 6, 7} \subseteq DOMAIN q BY <1>1
<1>3. PICK h, g, s, c, z, b : h = "head" /\ g = "msg" /\ s = "size" /\ c = "crlf" /\ z = "zero" /\ b = "byte" OBVIOUS
<1>4. PICK l : l = Len(r.body) OBVIOUS
<1>5. r.body \in Seq(Int) BY DEF ResponseRecord
<1>6. l \in Nat /\ l > 0 BY <1>4, <1>5
<1>7. KindOf(q[1]) = h /\ Uniform(q[1]) /\ Len(q[1].toks) = 1 BY <1>1, <1>3, OneTokenKind
<1>8. Calm(q[2])
  <2>1. q[2] = Put(<<<<g, r.length>>>>) /\ g \in {"head", "msg", "size", "crlf", "zero"} BY <1>3 DEF BodyLaid
  <2>2. g = "msg" => Calm(q[2]) BY <2>1, OneTokenKind
  <2> QED BY <1>3, <2>2
<1>9. KindOf(q[3]) = s /\ Uniform(q[3]) /\ Len(q[3].toks) = 1 /\ q[3].toks[1][2] = l /\ Debt(q[3]) = -1
  <2>1. q[3] = Put(<<<<s, l>>>>) /\ s \in {"head", "msg", "size", "crlf", "zero"} BY <1>3, <1>4 DEF BodyLaid
  <2>2. /\ KindOf(q[3]) = s /\ Uniform(q[3]) /\ Len(q[3].toks) = 1 /\ q[3].toks[1][2] = l
        /\ Debt(q[3]) = IF s = "crlf" THEN 0 ELSE -1
    BY <2>1, OneTokenKind
  <2> QED BY <1>3, <2>2
<1>10. KindOf(q[4]) = b /\ Uniform(q[4]) /\ Debt(q[4]) = l
  <2>1. q[4] = Put(Bytes(b, r.body)) /\ b \in {"byte", "raw"} BY <1>3 DEF BodyLaid
  <2>2. KindOf(q[4]) = b /\ Uniform(q[4]) /\ Debt(q[4]) = (IF b = "byte" THEN Len(r.body) ELSE -1)
    BY <1>5, <2>1, BytesKind
  <2> QED BY <1>3, <1>4, <2>2
<1>11. KindOf(q[5]) = c /\ Uniform(q[5]) /\ Len(q[5].toks) = 1
  <2>1. q[5] = Put(<<<<c, 0>>>>) /\ c \in {"head", "msg", "size", "crlf", "zero"} BY <1>3 DEF BodyLaid
  <2> QED BY <2>1, OneTokenKind
<1>12. KindOf(q[6]) = z /\ Uniform(q[6]) /\ Len(q[6].toks) = 1 /\ Debt(q[6]) = -1
  <2>1. q[6] = Put(<<<<z, 0>>>>) /\ z \in {"head", "msg", "size", "crlf", "zero"} BY <1>3 DEF BodyLaid
  <2>2. KindOf(q[6]) = z /\ Uniform(q[6]) /\ Len(q[6].toks) = 1 /\ Debt(q[6]) = IF z = "crlf" THEN 0 ELSE -1
    BY <2>1, OneTokenKind
  <2> QED BY <1>3, <2>2
<1>13. ASSUME NEW k \in DOMAIN q, k > 6  PROVE Calm(q[k]) /\ Debt(q[k]) = -1
  <2>1. Trailer(r, q[k]) BY <1>13 DEF BodyLaid
  <2> QED BY <2>1, CalmTrailer, CalmDebt
<1>14. Orderly(q, 1)
  <2>1. 1 + 1 = 2 /\ Debt(q[2]) = -1 BY <1>8, CalmDebt
  <2> QED BY <1>3, <1>7, <2>1, OrderlyToken
<1>15. Orderly(q, 2)
  <2>1. 2 + 1 = 3 /\ Debt(q[3]) = -1 BY <1>9
  <2> QED BY <1>8, <2>1, OrderlyCalm
<1>16. Orderly(q, 3)
  <2>1. 3 + 1 = 4 /\ 4 \in DOMAIN q BY <1>2
  <2> QED BY <1>3, <1>6, <1>9, <1>10, <2>1, OrderlyToken
<1>17. Orderly(q, 4)
  <2>1. 4 + 1 = 5 /\ 5 \in DOMAIN q BY <1>2
  <2> QED BY <1>3, <1>10, <1>11, <2>1, OrderlyBytes
<1>18. Orderly(q, 5)
  <2>1. 5 + 1 = 6 /\ Debt(q[6]) = -1 BY <1>12
  <2> QED BY <1>3, <1>11, <2>1, OrderlyToken
<1>19. Orderly(q, 6)
  <2>1. 6 + 1 = 7 /\ 7 \in DOMAIN q /\ 7 > 6 BY <1>2
  <2>2. Debt(q[7]) = -1 BY <1>13, <2>1
  <2> QED BY <1>3, <1>12, <1>13, <2>1, <2>2, OrderlyToken
<1>20. ASSUME NEW k \in DOMAIN q, k > 6  PROVE Orderly(q, k)
  <2>1. k + 1 > 6 BY <1>2, <1>20
  <2>2. k + 1 \in DOMAIN q => Debt(q[k + 1]) = -1 BY <1>13, <2>1
  <2> QED BY <1>13, <1>20, <2>2, OrderlyCalm
<1>21. ASSUME NEW k \in DOMAIN q  PROVE Orderly(q, k)
  <2>1. k \in {1, 2, 3, 4, 5, 6} \/ k > 6 BY <1>2
  <2> QED BY <1>14, <1>15, <1>16, <1>17, <1>18, <1>19, <1>20, <2>1
<1> QED BY <1>2, <1>3, <1>7, <1>21 DEF Grammatical

\* One chunk of a stream.
LEMMA ChunkKinds ==
    ASSUME NEW q, NEW plan, NEW i \in Nat, ChunkLaid(q, plan, i)
    PROVE  /\ Calm(q[4 + 5 * i]) /\ q[4 + 5 * i].op = "wait"
           /\ q[5 + 5 * i].op = "put" /\ KindOf(q[5 + 5 * i]) = "size" /\ Uniform(q[5 + 5 * i]) /\ Len(q[5 + 5 * i].toks) = 1
           /\ q[5 + 5 * i].toks[1][2] = ChunkSize(plan, i) /\ Debt(q[5 + 5 * i]) = -1
           /\ q[6 + 5 * i].op = "data" /\ KindOf(q[6 + 5 * i]) = "data" /\ Uniform(q[6 + 5 * i]) /\ Debt(q[6 + 5 * i]) = ChunkSize(plan, i)
           /\ q[7 + 5 * i].op = "put" /\ KindOf(q[7 + 5 * i]) = "crlf" /\ Uniform(q[7 + 5 * i]) /\ Len(q[7 + 5 * i].toks) = 1
           /\ q[8 + 5 * i].op = "flush" /\ Calm(q[8 + 5 * i])
<1>1. PICK w, s, d, c : w = "wait" /\ s = "size" /\ d = "data" /\ c = "crlf" OBVIOUS
<1>2. PICK x1, x2, x3, x4, x5 : /\ x1 = q[4 + 5 * i] /\ x2 = q[5 + 5 * i] /\ x3 = q[6 + 5 * i]
                                /\ x4 = q[7 + 5 * i] /\ x5 = q[8 + 5 * i]
  OBVIOUS
<1>3. PICK n : n = ChunkSize(plan, i) OBVIOUS
<1>4. /\ x1 = Op(w, <<>>, i) /\ x2 = Put(<<<<s, n>>>>) /\ x3 = Op(d, <<>>, n) /\ x4 = Put(<<<<c, 0>>>>)
      /\ x5 = Flush
  BY <1>1, <1>2, <1>3 DEF ChunkLaid
<1>5. x1.op = w /\ (w # "data" => Calm(x1)) BY <1>1, <1>4, NoTokenKind
<1>6. /\ x2.op = "put" /\ KindOf(x2) = s /\ Uniform(x2) /\ Len(x2.toks) = 1 /\ x2.toks[1][2] = n
      /\ Debt(x2) = IF s = "crlf" THEN 0 ELSE -1
  BY <1>1, <1>4, OneTokenKind
<1>7. x3.op = d /\ KindOf(x3) = d /\ Uniform(x3) /\ Debt(x3) = IF d = "data" THEN n ELSE -1 BY <1>1, <1>4, NoTokenKind
<1>8. x4.op = "put" /\ KindOf(x4) = c /\ Uniform(x4) /\ Len(x4.toks) = 1 BY <1>1, <1>4, OneTokenKind
<1>9. x5.op = "flush" /\ Calm(x5) BY <1>4, FlushKind
<1>10. Debt(x2) = -1 /\ Debt(x3) = n /\ Calm(x1) BY <1>1, <1>5, <1>6, <1>7
<1> QED BY <1>1, <1>2, <1>3, <1>5, <1>6, <1>7, <1>8, <1>9, <1>10

\* What surrounds the chunks of a stream.
LEMMA StreamKinds ==
    ASSUME NEW r \in ResponseRecord, NEW q, Laid(q, r), StreamLaid(q, r), NEW c \in Nat, c = r.plan.count
    PROVE  /\ Calm(q[2]) /\ Calm(q[3]) /\ Calm(q[4 + 5 * c]) /\ Calm(q[5 + 5 * c])
           /\ r.plan.mode # "fin" =>
                 /\ KindOf(q[6 + 5 * c]) = "zero" /\ Uniform(q[6 + 5 * c]) /\ Len(q[6 + 5 * c].toks) = 1
                 /\ Debt(q[6 + 5 * c]) = -1 /\ q[6 + 5 * c].op = "put"
           /\ \A k \in DOMAIN q : k > 5 + 5 * c /\ (r.plan.mode # "fin" => k # 6 + 5 * c) => Calm(q[k])
<1>1. PICK g, o, v, w, z : g = "msg" /\ o = "open" /\ v = "verify" /\ w = "release" /\ z = "zero" OBVIOUS
<1>2. Calm(q[2])
  <2>1. q[2] = Put(<<<<g, r.length>>>>) BY <1>1 DEF StreamLaid
  <2>2. g = "msg" => Calm(q[2]) BY <1>1, <2>1, OneTokenKind
  <2> QED BY <1>1, <2>2
<1>3. Calm(q[3])
  <2>1. q[3] = Op(o, <<>>, 0) BY <1>1 DEF StreamLaid
  <2>2. o # "data" => Calm(q[3]) BY <1>1, <2>1, NoTokenKind
  <2> QED BY <1>1, <2>2
<1>4. Calm(q[4 + 5 * c])
  <2>1. q[4 + 5 * c] = Op(v, <<>>, 0) BY <1>1 DEF StreamLaid
  <2>2. v # "data" => Calm(q[4 + 5 * c]) BY <1>1, <2>1, NoTokenKind
  <2> QED BY <1>1, <2>2
<1>5. Calm(q[5 + 5 * c])
  <2>1. q[5 + 5 * c] = Op(w, <<>>, 0) BY <1>1 DEF StreamLaid
  <2>2. w # "data" => Calm(q[5 + 5 * c]) BY <1>1, <2>1, NoTokenKind
  <2> QED BY <1>1, <2>2
<1>6. ASSUME r.plan.mode # "fin"
      PROVE  /\ KindOf(q[6 + 5 * c]) = "zero" /\ Uniform(q[6 + 5 * c]) /\ Len(q[6 + 5 * c].toks) = 1
             /\ Debt(q[6 + 5 * c]) = -1 /\ q[6 + 5 * c].op = "put" /\ Calm(q[7 + 5 * c])
  <2>1. q[6 + 5 * c] = Put(<<<<z, 0>>>>) /\ q[7 + 5 * c] = Flush BY <1>1, <1>6 DEF StreamLaid
  <2>2. PICK x : x = q[6 + 5 * c] OBVIOUS
  <2>3. /\ x.op = "put" /\ KindOf(x) = z /\ Uniform(x) /\ Len(x.toks) = 1 /\ Debt(x) = IF z = "crlf" THEN 0 ELSE -1
    BY <1>1, <2>1, <2>2, OneTokenKind
  <2> QED BY <1>1, <2>1, <2>2, <2>3, FlushKind
<1>7. ASSUME NEW k \in DOMAIN q, k > 5 + 5 * c, r.plan.mode # "fin" => k # 6 + 5 * c  PROVE Calm(q[k])
  <2>1. k \in Nat
    <3>1. q \in Seq(OpRecord) BY DEF Laid
    <3> QED BY <3>1
  <2>2. CASE r.plan.mode = "fin"
    <3>1. Trailer(r, q[k]) BY <1>7, <2>2 DEF StreamLaid
    <3> QED BY <3>1, CalmTrailer
  <2>3. CASE r.plan.mode # "fin"
    <3>1. k = 7 + 5 * c \/ k > 7 + 5 * c
      <4>1. k > 5 + 5 * c /\ k # 6 + 5 * c BY <1>7, <2>3
      <4>2. PICK n \in Nat : n = 5 * c OBVIOUS
      <4>3. k > 5 + n /\ k # 6 + n BY <4>1, <4>2
      <4>4. k = 7 + n \/ k > 7 + n BY <2>1, <4>3
      <4> QED BY <4>2, <4>4
    <3>2. CASE k = 7 + 5 * c BY <1>6, <2>3, <3>2
    <3>3. CASE k > 7 + 5 * c
      <4>1. Trailer(r, q[k]) BY <2>3, <3>3 DEF StreamLaid
      <4> QED BY <4>1, CalmTrailer
    <3> QED BY <3>1, <3>2, <3>3
  <2> QED BY <2>2, <2>3
<1> QED BY <1>2, <1>3, <1>4, <1>5, <1>6, <1>7

\* A streamed response.
LEMMA StreamGrammar ==
    ASSUME NEW r \in ResponseRecord, NEW q, Laid(q, r), StreamLaid(q, r), r.plan.count <= r.plan.bytes
    PROVE  Grammatical(q)
<1>1. q \in Seq(OpRecord) /\ q[1] = Put(<<<<"head", r.status>>>>) /\ r.plan \in Plan BY DEF Laid, ResponseRecord
<1>2. PICK c \in Nat : c = r.plan.count BY <1>1 DEF Plan
<1>3. PICK l \in Nat : l = Len(q) /\ DOMAIN q = 1..l BY <1>1
<1>4. l >= 6 + 5 * c /\ (r.plan.mode # "fin" => l >= 8 + 5 * c) BY <1>2, <1>3 DEF StreamLaid
<1>5. PICK h : h = "head" OBVIOUS
<1>6. KindOf(q[1]) = h /\ Uniform(q[1]) /\ Len(q[1].toks) = 1 BY <1>1, <1>5, OneTokenKind
<1>7. /\ Calm(q[2]) /\ Calm(q[3]) /\ Calm(q[4 + 5 * c]) /\ Calm(q[5 + 5 * c])
      /\ r.plan.mode # "fin" =>
            /\ KindOf(q[6 + 5 * c]) = "zero" /\ Uniform(q[6 + 5 * c]) /\ Len(q[6 + 5 * c].toks) = 1
            /\ Debt(q[6 + 5 * c]) = -1
      /\ \A k \in DOMAIN q : k > 5 + 5 * c /\ (r.plan.mode # "fin" => k # 6 + 5 * c) => Calm(q[k])
  BY <1>2, StreamKinds
<1>8. ASSUME NEW k \in DOMAIN q, k > 5 + 5 * c  PROVE Debt(q[k]) = -1 BY <1>7, <1>8, CalmDebt
<1>9. \A i \in 0..(c - 1) : ChunkLaid(q, r.plan, i) /\ ChunkSize(r.plan, i) \in Nat \ {0}
  <2> SUFFICES ASSUME NEW i \in 0..(c - 1)  PROVE ChunkLaid(q, r.plan, i) /\ ChunkSize(r.plan, i) \in Nat \ {0}
    OBVIOUS
  <2>1. c > 0 OBVIOUS
  <2>2. ChunkSize(r.plan, i) \in Nat \ {0} BY <1>1, <1>2, <2>1, ChunkSums
  <2> QED BY <1>2, <2>2 DEF StreamLaid
<1>10. Debt(q[4]) = -1
  <2>1. CASE c = 0
    <3>1. 4 + 5 * c = 4 BY <2>1
    <3> QED BY <1>7, <3>1, CalmDebt
  <2>2. CASE c > 0
    <3>1. PICK i \in 0..(c - 1) : i = 0 BY <2>2
    <3>2. i \in Nat /\ ChunkLaid(q, r.plan, i) BY <1>9
    <3>20. Calm(q[4 + 5 * i]) BY <3>2, ChunkKinds
    <3>3. 4 + 5 * i = 4 BY <3>1
    <3> QED BY <3>20, <3>3, CalmDebt
  <2> QED BY <2>1, <2>2
<1>11. Orderly(q, 1)
  <2>1. 1 + 1 = 2 /\ Debt(q[2]) = -1 BY <1>7, CalmDebt
  <2> QED BY <1>5, <1>6, <2>1, OrderlyToken
<1>12. Orderly(q, 2)
  <2>1. 2 + 1 = 3 /\ Debt(q[3]) = -1 BY <1>7, CalmDebt
  <2> QED BY <1>7, <2>1, OrderlyCalm
<1>13. Orderly(q, 3)
  <2>1. 3 + 1 = 4 OBVIOUS
  <2> QED BY <1>7, <1>10, <2>1, OrderlyCalm
<1>14. ASSUME NEW i \in 0..(c - 1)
       PROVE  /\ Orderly(q, 4 + 5 * i) /\ Orderly(q, 5 + 5 * i) /\ Orderly(q, 6 + 5 * i)
              /\ Orderly(q, 7 + 5 * i) /\ Orderly(q, 8 + 5 * i)
  <2>1. i \in Nat /\ i < c OBVIOUS
  <2>2. /\ Calm(q[4 + 5 * i])
        /\ KindOf(q[5 + 5 * i]) = "size" /\ Uniform(q[5 + 5 * i]) /\ Len(q[5 + 5 * i].toks) = 1
        /\ q[5 + 5 * i].toks[1][2] = ChunkSize(r.plan, i) /\ Debt(q[5 + 5 * i]) = -1
        /\ KindOf(q[6 + 5 * i]) = "data" /\ Uniform(q[6 + 5 * i]) /\ Debt(q[6 + 5 * i]) = ChunkSize(r.plan, i)
        /\ KindOf(q[7 + 5 * i]) = "crlf" /\ Uniform(q[7 + 5 * i]) /\ Len(q[7 + 5 * i].toks) = 1
        /\ Calm(q[8 + 5 * i])
    BY <1>9, <2>1, ChunkKinds
  <2>3. PICK a \in Nat : a = 4 + 5 * i BY <2>1
  <2>4. 5 + 5 * i = a + 1 /\ 6 + 5 * i = a + 2 /\ 7 + 5 * i = a + 3 /\ 8 + 5 * i = a + 4 BY <2>1, <2>3
  <2>5. {a + 1, a + 2, a + 3, a + 4, a + 5} \subseteq DOMAIN q BY <1>3, <1>4, <2>1, <2>3
  <2>6. Debt(q[a + 5]) = -1
    <3>1. CASE i = c - 1
      <4>1. a + 5 = 4 + 5 * c BY <2>1, <2>3, <3>1
      <4> QED BY <1>7, <4>1, CalmDebt
    <3>2. CASE i # c - 1
      <4>1. PICK j \in 0..(c - 1) : j = i + 1 BY <2>1, <3>2
      <4>2. j \in Nat /\ ChunkLaid(q, r.plan, j) BY <1>9
      <4>20. Calm(q[4 + 5 * j]) BY <4>2, ChunkKinds
      <4>3. a + 5 = 4 + 5 * j BY <2>1, <2>3, <4>1
      <4> QED BY <4>20, <4>3, CalmDebt
    <3> QED BY <3>1, <3>2
  <2>7. PICK n \in Nat \ {0} : n = ChunkSize(r.plan, i) BY <1>9
  <2>8. /\ Calm(q[a]) /\ KindOf(q[a + 1]) = "size" /\ Uniform(q[a + 1]) /\ Len(q[a + 1].toks) = 1
        /\ q[a + 1].toks[1][2] = n /\ Debt(q[a + 1]) = -1
        /\ KindOf(q[a + 2]) = "data" /\ Uniform(q[a + 2]) /\ Debt(q[a + 2]) = n
        /\ KindOf(q[a + 3]) = "crlf" /\ Uniform(q[a + 3]) /\ Len(q[a + 3].toks) = 1
        /\ Calm(q[a + 4])
    BY <2>2, <2>3, <2>4, <2>7
  <2>9. (a + 1) + 1 = a + 2 /\ (a + 2) + 1 = a + 3 /\ (a + 3) + 1 = a + 4 /\ (a + 4) + 1 = a + 5 OBVIOUS
  <2>10. Orderly(q, a) BY <2>8, OrderlyCalm
  <2>11. Orderly(q, a + 1) BY <2>5, <2>7, <2>8, <2>9, OrderlyToken
  <2>12. Orderly(q, a + 2) BY <2>5, <2>8, <2>9, OrderlyBytes
  <2>13. Orderly(q, a + 3)
    <3>1. Debt(q[a + 4]) = -1 BY <2>8, CalmDebt
    <3> QED BY <2>8, <2>9, <3>1, OrderlyToken
  <2>14. Orderly(q, a + 4) BY <2>6, <2>8, <2>9, OrderlyCalm
  <2> QED BY <2>3, <2>4, <2>10, <2>11, <2>12, <2>13, <2>14
<1>15. Debt(q[6 + 5 * c]) = -1
  <2>1. 6 + 5 * c \in DOMAIN q /\ 6 + 5 * c > 5 + 5 * c BY <1>3, <1>4
  <2> QED BY <1>8, <2>1, <1>7
<1>16. Orderly(q, 4 + 5 * c) /\ Orderly(q, 5 + 5 * c)
  <2>1. (4 + 5 * c) + 1 = 5 + 5 * c /\ (5 + 5 * c) + 1 = 6 + 5 * c OBVIOUS
  <2>2. Debt(q[5 + 5 * c]) = -1 BY <1>7, CalmDebt
  <2> QED BY <1>7, <1>15, <2>1, <2>2, OrderlyCalm
<1>17. ASSUME NEW k \in DOMAIN q, k > 5 + 5 * c  PROVE Orderly(q, k)
  <2>1. k \in Nat /\ k + 1 > 5 + 5 * c BY <1>3, <1>17
  <2>2. k + 1 \in DOMAIN q => Debt(q[k + 1]) = -1
    <3> SUFFICES ASSUME k + 1 \in DOMAIN q  PROVE Debt(q[k + 1]) = -1 OBVIOUS
    <3>1. CASE k + 1 = 6 + 5 * c BY <1>15, <3>1
    <3>2. CASE k + 1 # 6 + 5 * c
      <4>1. Calm(q[k + 1]) BY <1>7, <2>1, <3>2
      <4> QED BY <4>1, CalmDebt
    <3> QED BY <3>1, <3>2
  <2>3. CASE r.plan.mode # "fin" /\ k = 6 + 5 * c
    <3>1. \A j \in DOMAIN q : j > k => Calm(q[j])
      <4> SUFFICES ASSUME NEW j \in DOMAIN q, j > k  PROVE Calm(q[j]) OBVIOUS
      <4>1. j > 5 + 5 * c /\ j # 6 + 5 * c BY <1>3, <2>3
      <4> QED BY <1>7, <4>1
    <3> QED BY <1>7, <2>2, <2>3, <3>1, OrderlyToken
  <2>4. CASE ~(r.plan.mode # "fin" /\ k = 6 + 5 * c)
    <3>1. Calm(q[k]) BY <1>7, <1>17, <2>4
    <3> QED BY <2>2, <3>1, OrderlyCalm
  <2> QED BY <2>3, <2>4
<1>18. ASSUME NEW k \in DOMAIN q  PROVE Orderly(q, k)
  <2>1. k \in Nat /\ k >= 1 BY <1>3
  <2>2. CASE k < 4
    <3>1. k \in {1, 2, 3} BY <2>1, <2>2
    <3> QED BY <1>11, <1>12, <1>13, <3>1
  <2>3. CASE k >= 4 /\ k < 4 + 5 * c
    <3>1. PICK i \in 0..(c - 1) : k \in {4 + 5 * i, 5 + 5 * i, 6 + 5 * i, 7 + 5 * i, 8 + 5 * i} BY <2>1, <2>3, PlaceIn
    <3> QED BY <1>14, <3>1
  <2>4. CASE k >= 4 + 5 * c
    <3>1. k = 4 + 5 * c \/ k = 5 + 5 * c \/ k > 5 + 5 * c BY <2>1, <2>4
    <3> QED BY <1>16, <1>17, <3>1
  <2> QED BY <2>1, <2>2, <2>3, <2>4
<1>19. q # <<>> /\ KindOf(q[1]) = "head"
  <2>1. l # 0 BY <1>4
  <2> QED BY <1>3, <1>5, <1>6, <2>1
<1> QED BY <1>18, <1>19 DEF Grammatical

\* Every response that can be delivered is written in an order a client can follow.
LEMMA Grammar ==
    ASSUME NEW r \in ResponseRecord, Fitting(r)
    PROVE  Grammatical(ResponseOps(r))
<1>1. PICK q : q = ResponseOps(r) OBVIOUS
<1>2. Laid(q, r) BY <1>1, Layout
<1>3. CASE r.target # "none" /\ r.stream
  <2>1. StreamLaid(q, r) BY <1>2, <1>3 DEF Laid
  <2>2. r.plan.count <= r.plan.bytes BY <1>3 DEF Fitting
  <2> QED BY <1>1, <1>2, <2>1, <2>2, StreamGrammar
<1>4. CASE ~(r.target # "none" /\ r.stream) /\ r.target # "none" /\ r.body # <<>>
  <2>1. BodyLaid(q, r) BY <1>2, <1>4 DEF Laid
  <2> QED BY <1>1, <1>2, <1>4, <2>1, BodyGrammar
<1>5. CASE ~(r.target # "none" /\ r.stream) /\ ~(r.target # "none" /\ r.body # <<>>)
  <2>1. BareLaid(q, r) BY <1>2, <1>5 DEF Laid
  <2> QED BY <1>1, <1>2, <2>1, BareGrammar
<1> QED BY <1>3, <1>4, <1>5

-----------------------------------------------------------------------------
(* Framing *)

\* Tokens after tokens.
LEMMA Joined ==
    ASSUME NEW a \in Seq(Token), NEW b \in Seq(Token)
    PROVE  /\ a \o b \in Seq(Token) /\ Len(a \o b) = Len(a) + Len(b) /\ Len(a) \in Nat /\ Len(b) \in Nat
           /\ DOMAIN a = 1..Len(a) /\ DOMAIN b = 1..Len(b) /\ DOMAIN (a \o b) = 1..(Len(a) + Len(b))
           /\ \A i \in 1..Len(a) : (a \o b)[i] = a[i]
           /\ \A j \in 1..Len(b) : (a \o b)[Len(a) + j] = b[j]
OBVIOUS

\* Where a kind of token is.
LEMMA JoinedPositions ==
    ASSUME NEW a \in Seq(Token), NEW b \in Seq(Token), NEW kind
    PROVE  /\ Positions(a, kind) \subseteq Positions(a \o b, kind)
           /\ \A i \in Positions(a \o b, kind) :
                 i \in Positions(a, kind) \/ (i - Len(a) \in Positions(b, kind) /\ i > Len(a))
           /\ \A j \in Positions(b, kind) : Len(a) + j \in Positions(a \o b, kind)
<1>1. PICK n \in Nat, m \in Nat, c \in {a \o b} : n = Len(a) /\ m = Len(b) /\ c = a \o b BY Joined
<1>2. /\ DOMAIN a = 1..n /\ DOMAIN b = 1..m /\ DOMAIN c = 1..(n + m) /\ \A i \in 1..n : c[i] = a[i]
      /\ \A j \in 1..m : c[n + j] = b[j]
  BY <1>1, Joined
<1>3. Positions(a, kind) \subseteq Positions(c, kind) BY <1>2 DEF Positions
<1>4. ASSUME NEW j \in Positions(b, kind)  PROVE n + j \in Positions(c, kind)
  <2>1. j \in 1..m /\ b[j][1] = kind BY <1>2 DEF Positions
  <2>2. n + j \in 1..(n + m) /\ c[n + j] = b[j] BY <1>2, <2>1
  <2> QED BY <1>2, <2>1, <2>2 DEF Positions
<1>5. ASSUME NEW i \in Positions(c, kind)  PROVE i \in Positions(a, kind) \/ (i - n \in Positions(b, kind) /\ i > n)
  <2>1. i \in 1..(n + m) /\ c[i][1] = kind BY <1>2 DEF Positions
  <2>2. CASE i <= n
    <3>1. i \in 1..n BY <2>1, <2>2
    <3>2. a[i] = c[i] BY <1>2, <3>1
    <3> QED BY <1>2, <2>1, <3>1, <3>2 DEF Positions
  <2>3. CASE i > n
    <3>1. PICK j \in 1..m : i = n + j
      <4>1. i - n \in 1..m /\ i = n + (i - n) BY <2>1, <2>3
      <4> QED BY <4>1
    <3>2. c[i] = b[j] /\ i - n = j BY <1>2, <3>1
    <3> QED BY <1>2, <2>1, <2>3, <3>2 DEF Positions
  <2> QED BY <2>1, <2>2, <2>3
<1> QED BY <1>1, <1>3, <1>4, <1>5

\* Tokens of other kinds leave the places of a kind as they were.
LEMMA JoinedNone ==
    ASSUME NEW a \in Seq(Token), NEW b \in Seq(Token), NEW kind, Positions(b, kind) = {}
    PROVE  Positions(a \o b, kind) = Positions(a, kind)
<1>1. /\ Positions(a, kind) \subseteq Positions(a \o b, kind)
      /\ \A i \in Positions(a \o b, kind) :
            i \in Positions(a, kind) \/ (i - Len(a) \in Positions(b, kind) /\ i > Len(a))
  BY JoinedPositions
<1>2. PICK c : c = Positions(a \o b, kind) OBVIOUS
<1>3. c \subseteq Positions(a, kind) BY <1>1, <1>2
<1> QED BY <1>1, <1>2, <1>3

\* Tokens of one kind are of no other.
LEMMA OnlyKind ==
    ASSUME NEW b, NEW kind, \A i \in DOMAIN b : b[i][1] = kind, NEW other, other # kind
    PROVE  Positions(b, other) = {}
BY DEF Positions

\* A chunk that was whole stays whole.
Whole(toks, i, s) ==
    /\ toks[i][2] = s /\ i + s < Len(toks) /\ toks[i + s + 1][1] = "crlf"
    /\ \A k \in i + 1..i + s : toks[k][1] = "byte"

\* A whole chunk stays whole when more is written.
LEMMA WholeChunk ==
    ASSUME NEW a \in Seq(Token), NEW b \in Seq(Token), NEW i \in DOMAIN a, NEW s \in Nat, Whole(a, i, s)
    PROVE  Whole(a \o b, i, s)
<1>1. PICK n \in Nat, m \in Nat, c \in {a \o b} : n = Len(a) /\ m = Len(b) /\ c = a \o b BY Joined
<1>2. DOMAIN a = 1..n /\ Len(c) = n + m /\ \A k \in 1..n : c[k] = a[k] BY <1>1, Joined
<1>3. i \in 1..n BY <1>2
<1>4. i + s + 1 \in 1..n /\ i + s < n BY <1>1, <1>3 DEF Whole
<1>5. ASSUME NEW k \in i + 1..i + s  PROVE c[k] = a[k]
  <2>1. k \in 1..n BY <1>1, <1>3, <1>4
  <2> QED BY <1>2, <2>1
<1>6. i + s < Len(c) BY <1>1, <1>2, <1>3, <1>4
<1> QED BY <1>1, <1>2, <1>3, <1>4, <1>5, <1>6 DEF Whole

\* One size of a framed sequence.
FramedAt(toks, m, i) ==
    /\ toks[i][2] > 0
    /\ \/ /\ i + toks[i][2] < Len(toks) /\ toks[i + toks[i][2] + 1][1] = "crlf"
          /\ \A k \in i + 1..i + toks[i][2] : toks[k][1] = "byte"
       \/ /\ m >= 0 /\ i + toks[i][2] = Len(toks) + m
          /\ \A k \in i + 1..Len(toks) : toks[k][1] = "byte"

\* Framing is a property of each size token.
LEMMA FramedByPlace ==
    ASSUME NEW toks, NEW m
    PROVE  Framed(toks, m) <=> \A i \in Positions(toks, "size") : FramedAt(toks, m, i)
BY DEF Framed, FramedAt

\* A chunk that is not the open one stays framed, whatever is written after it.
LEMMA WholeStays ==
    ASSUME NEW a \in Seq(Token), NEW b \in Seq(Token), NEW i \in Positions(a, "size"), NEW m \in Int, NEW n,
           FramedAt(a, m, i), m < 0 \/ i + a[i][2] # Len(a) + m
    PROVE  FramedAt(a \o b, n, i)
<1>1. i \in DOMAIN a /\ DOMAIN a = 1..Len(a) /\ Len(a) \in Nat BY DEF Positions
<1>2. a[i] \in Token BY <1>1
<1>3. a[i][2] \in Int BY <1>2 DEF Token
<1>4. PICK s \in Nat : s = a[i][2] /\ s > 0 BY <1>3 DEF FramedAt
<1>5. Whole(a, i, s) BY <1>4 DEF FramedAt, Whole
<1>6. PICK c : c = a \o b OBVIOUS
<1>7. Whole(c, i, s) BY <1>1, <1>4, <1>5, <1>6, WholeChunk
<1>8. FramedAt(c, n, i) BY <1>4, <1>7 DEF FramedAt, Whole
<1> QED BY <1>6, <1>8

\* What is not a size may follow whole chunks.
LEMMA FramedCalm ==
    ASSUME NEW a \in Seq(Token), NEW b \in Seq(Token), Framed(a, -1), Positions(b, "size") = {}
    PROVE  Framed(a \o b, -1)
<1>1. Positions(a \o b, "size") = Positions(a, "size") BY JoinedNone
<1>2. PICK m \in Int : m = -1 OBVIOUS
<1>3. ASSUME NEW i \in Positions(a, "size")  PROVE FramedAt(a \o b, m, i)
  <2>1. FramedAt(a, m, i) BY <1>2, FramedByPlace
  <2> QED BY <1>2, <2>1, WholeStays
<1> QED BY <1>1, <1>2, <1>3, FramedByPlace

\* A size begins a chunk.
LEMMA FramedSize ==
    ASSUME NEW a \in Seq(Token), NEW n \in Nat, n > 0, Framed(a, -1),
           NEW b \in Seq(Token), Len(b) = 1, b[1][1] = "size", b[1][2] = n
    PROVE  Framed(a \o b, n)
<1>1. PICK t : t = b[1] OBVIOUS
<1>2. t[2] = n BY <1>1
<1>3. b \in Seq(Token) /\ Len(b) = 1 /\ b[1] = t BY <1>1
<1>4. PICK l \in Nat : l = Len(a) BY <1>3, Joined
<1>5. PICK c : c = a \o b OBVIOUS
<1>6. Len(c) = l + 1 /\ c[l + 1] = t
  <2>1. Len(c) = Len(a) + Len(b) /\ \A j \in 1..Len(b) : c[Len(a) + j] = b[j] BY <1>3, <1>5, Joined
  <2> QED BY <1>3, <1>4, <2>1
<1>7. FramedAt(c, n, l + 1)
  <2>1. c[l + 1][2] = n BY <1>2, <1>6
  <2>2. (l + 1) + n = Len(c) + n BY <1>6
  <2>3. \A k \in (l + 1) + 1..Len(c) : c[k][1] = "byte" BY <1>6
  <2> QED BY <2>1, <2>2, <2>3 DEF FramedAt
<1>8. PICK m \in Int : m = -1 OBVIOUS
<1>9. ASSUME NEW i \in Positions(c, "size")  PROVE FramedAt(c, n, i)
  <2>1. CASE i \in Positions(a, "size")
    <3>1. FramedAt(a, m, i) BY <1>8, <2>1, FramedByPlace
    <3>2. m < 0 \/ i + a[i][2] # Len(a) + m BY <1>8
    <3>3. FramedAt(a \o b, n, i) BY <1>3, <2>1, <3>1, <3>2, WholeStays
    <3> QED BY <1>5, <3>3
  <2>2. CASE i - Len(a) \in Positions(b, "size") /\ i > Len(a)
    <3>1. i - l \in 1..1 BY <1>3, <1>4, <2>2 DEF Positions
    <3>2. i \in Int
      <4>1. c \in Seq(Token) BY <1>3, <1>5, Joined
      <4> QED BY <4>1 DEF Positions
    <3>3. i = l + 1 BY <3>1, <3>2
    <3> QED BY <1>7, <3>3
  <2> QED BY <1>3, <1>5, <2>1, <2>2, JoinedPositions
<1> QED BY <1>3, <1>5, <1>9, FramedByPlace

\* Bytes that were owed are paid.
LEMMA FramedBytes ==
    ASSUME NEW a \in Seq(Token), NEW b \in Seq(Token), NEW m \in Nat, Framed(a, m),
           \A i \in DOMAIN b : b[i][1] = "byte", Len(b) <= m
    PROVE  Framed(a \o b, m - Len(b))
<1>1. PICK l \in Nat, n \in Nat, c \in {a \o b} : l = Len(a) /\ n = Len(b) /\ c = a \o b BY Joined
<1>2. /\ Len(c) = l + n /\ DOMAIN a = 1..l /\ DOMAIN b = 1..n /\ \A i \in 1..l : c[i] = a[i]
      /\ \A j \in 1..n : c[l + j] = b[j]
  BY <1>1, Joined
<1>3. PICK size, byte : size = "size" /\ byte = "byte" OBVIOUS
<1>4. Positions(b, size) = {} BY <1>3, OnlyKind
<1>5. Positions(c, size) = Positions(a, size) BY <1>1, <1>4, JoinedNone
<1>6. ASSUME NEW i \in Positions(a, size)  PROVE FramedAt(c, m - n, i)
  <2>1. FramedAt(a, m, i) BY <1>3, FramedByPlace
  <2>2. CASE i + a[i][2] # Len(a) + m BY <1>1, <1>3, <2>1, <2>2, WholeStays
  <2>3. CASE i + a[i][2] = Len(a) + m
    <3>1. i \in 1..l /\ a[i] \in Token BY <1>2 DEF Positions
    <3>2. PICK s \in Int : s = a[i][2] BY <3>1 DEF Token
    <3>3. c[i][2] = s /\ s > 0 BY <1>2, <2>1, <3>1, <3>2 DEF FramedAt
    <3>4. i + s = Len(c) + (m - n) /\ m - n >= 0 BY <1>1, <1>2, <2>3, <3>2
    <3>5. \A k \in i + 1..l : a[k][1] = "byte"
      <4>1. CASE i + s < l /\ \A k \in i + 1..i + s : a[k][1] = "byte" BY <1>1, <2>3, <3>2, <4>1
      <4>2. CASE \A k \in i + 1..Len(a) : a[k][1] = "byte" BY <1>1, <4>2
      <4> QED BY <1>1, <2>1, <3>2, <4>1, <4>2 DEF FramedAt
    <3>6. ASSUME NEW k \in i + 1..Len(c)  PROVE c[k][1] = "byte"
      <4>1. CASE k <= l
        <5>1. k \in 1..l /\ k \in i + 1..l BY <3>1, <4>1
        <5> QED BY <1>2, <3>5, <5>1
      <4>2. CASE k > l
        <5>1. PICK j \in 1..n : k = l + j
          <6>1. k - l \in 1..n /\ k = l + (k - l) BY <1>2, <3>1, <4>2
          <6> QED BY <6>1
        <5>2. c[k] = b[j] /\ j \in DOMAIN b BY <1>2, <5>1
        <5> QED BY <5>2
      <4> QED BY <3>1, <4>1, <4>2
    <3> QED BY <3>3, <3>4, <3>6 DEF FramedAt
  <2> QED BY <2>2, <2>3
<1> QED BY <1>1, <1>3, <1>5, <1>6, FramedByPlace

\* A CRLF completes the chunk.
LEMMA FramedCrlf ==
    ASSUME NEW a \in Seq(Token), Framed(a, 0), NEW b \in Seq(Token), Len(b) = 1, b[1][1] = "crlf"
    PROVE  Framed(a \o b, -1)
<1>1. PICK t : t = b[1] OBVIOUS
<1>2. t[1] = "crlf" BY <1>1
<1>3. b \in Seq(Token) /\ Len(b) = 1 /\ b[1] = t BY <1>1
<1>4. PICK l \in Nat : l = Len(a) BY <1>3, Joined
<1>5. PICK c : c = a \o b OBVIOUS
<1>6. Len(c) = l + 1 /\ c[l + 1] = t /\ DOMAIN a = 1..l /\ \A i \in 1..l : c[i] = a[i]
  <2>1. /\ Len(c) = Len(a) + Len(b) /\ (\A j \in 1..Len(b) : c[Len(a) + j] = b[j])
        /\ DOMAIN a = 1..Len(a) /\ \A i \in 1..Len(a) : c[i] = a[i]
    BY <1>3, <1>5, Joined
  <2> QED BY <1>3, <1>4, <2>1
<1>7. PICK size, m, z : size = "size" /\ m = -1 /\ z = 0 /\ m \in Int /\ z \in Int OBVIOUS
<1>8. Positions(b, size) = {}
  <2>1. \A i \in DOMAIN b : b[i][1] = "crlf" BY <1>2, <1>3
  <2>2. PICK crlf : crlf = "crlf" OBVIOUS
  <2>3. size # crlf /\ \A i \in DOMAIN b : b[i][1] = crlf BY <1>7, <2>1, <2>2
  <2> QED BY <2>3, OnlyKind
<1>9. Positions(c, size) = Positions(a, size) BY <1>3, <1>5, <1>8, JoinedNone
<1>10. ASSUME NEW i \in Positions(a, size)  PROVE FramedAt(c, m, i)
  <2>1. FramedAt(a, z, i) BY <1>7, FramedByPlace
  <2>2. CASE i + a[i][2] # Len(a) + z BY <1>3, <1>5, <1>7, <2>1, <2>2, WholeStays
  <2>3. CASE i + a[i][2] = Len(a) + z
    <3>1. i \in 1..l /\ a[i] \in Token BY <1>6 DEF Positions
    <3>2. PICK s \in Int : s = a[i][2] BY <3>1 DEF Token
    <3>3. c[i][2] = s /\ s > 0 /\ i + s = l BY <1>4, <1>6, <1>7, <2>1, <2>3, <3>1, <3>2 DEF FramedAt
    <3>4. \A k \in i + 1..l : a[k][1] = "byte" BY <1>4, <2>1, <3>2, <3>3 DEF FramedAt
    <3>5. \A k \in i + 1..i + s : c[k][1] = "byte"
      <4> SUFFICES ASSUME NEW k \in i + 1..i + s  PROVE c[k][1] = "byte" OBVIOUS
      <4>1. k \in 1..l /\ k \in i + 1..l BY <3>1, <3>3
      <4> QED BY <1>6, <3>4, <4>1
    <3>6. i + s < Len(c) /\ i + s + 1 = l + 1 BY <1>6, <3>3
    <3> QED BY <1>2, <1>6, <3>3, <3>5, <3>6 DEF FramedAt
  <2> QED BY <2>2, <2>3
<1> QED BY <1>3, <1>5, <1>7, <1>9, <1>10, FramedByPlace

-----------------------------------------------------------------------------
(* What the client may have received *)

\* What a client is told besides the chunks.
Clean(toks) ==
    /\ AtMostOnce(toks, "head") /\ AtMostOnce(toks, "continue") /\ LastZero(toks)
    /\ Positions(toks, "zero") # {} => Declared(Payload(toks))

\* Fine is framing and everything else.
LEMMA FineParts ==
    ASSUME NEW toks, NEW m
    PROVE  Fine(toks, m) <=> Framed(toks, m) /\ Clean(toks)
BY DEF Fine, Clean

\* Tokens that are not bytes add nothing to the payload.
LEMMA SamePayload ==
    ASSUME NEW a \in Seq(Token), NEW b \in Seq(Token), Positions(b, "byte") = {}
    PROVE  Payload(a \o b) = Payload(a)
<1>1. \A i \in DOMAIN b : b[i][1] # "byte" BY DEF Positions
<1>2. Payload(b) = <<>> BY <1>1, PayloadNone
<1>3. Payload(a \o b) = Payload(a) \o Payload(b) BY PayloadParts
<1>4. Payload(a) \in Seq(Int) BY PayloadTyped
<1>5. Payload(a) \o <<>> = Payload(a) BY <1>4, ConcatEmptySeq
<1> QED BY <1>2, <1>3, <1>5

\* A token that comes at most once.
LEMMA JoinedOnce ==
    ASSUME NEW a \in Seq(Token), NEW b \in Seq(Token), NEW kind, AtMostOnce(a, kind),
           Positions(b, kind) = {} \/ (Positions(a, kind) = {} /\ Len(b) = 1)
    PROVE  AtMostOnce(a \o b, kind)
<1>1. CASE Positions(b, kind) = {}
  <2>1. Positions(a \o b, kind) = Positions(a, kind) BY <1>1, JoinedNone
  <2> QED BY <2>1 DEF AtMostOnce
<1>2. CASE Positions(a, kind) = {} /\ Len(b) = 1
  <2>1. ASSUME NEW i \in Positions(a \o b, kind)  PROVE i = Len(a) + 1
    <3>1. i - Len(a) \in Positions(b, kind) BY <1>2, JoinedPositions
    <3>2. i - Len(a) \in 1..1 BY <1>2, <3>1, Joined DEF Positions
    <3>3. i \in Int /\ Len(a) \in Nat BY Joined DEF Positions
    <3> QED BY <3>2, <3>3
  <2> QED BY <2>1 DEF AtMostOnce
<1> QED BY <1>1, <1>2

\* What neither ends the body nor belongs to it changes nothing a client is told.
LEMMA CleanCalm ==
    ASSUME NEW a \in Seq(Token), NEW b \in Seq(Token), Clean(a),
           Positions(b, "zero") = {}, Positions(b, "byte") = {}, Positions(b, "continue") = {},
           Positions(b, "head") = {} \/ (Positions(a, "head") = {} /\ Len(b) = 1)
    PROVE  Clean(a \o b) /\ Payload(a \o b) = Payload(a) /\ Positions(a \o b, "zero") = Positions(a, "zero")
<1>1. PICK z, y, c, h, p : z = "zero" /\ y = "byte" /\ c = "continue" /\ h = "head" /\ p = a \o b OBVIOUS
<1>2. Positions(p, z) = Positions(a, z) /\ Positions(p, y) = Positions(a, y) BY <1>1, JoinedNone
<1>3. AtMostOnce(p, h)
  <2>1. AtMostOnce(a, h) /\ (Positions(b, h) = {} \/ (Positions(a, h) = {} /\ Len(b) = 1)) BY <1>1 DEF Clean
  <2> QED BY <1>1, <2>1, JoinedOnce
<1>4. AtMostOnce(p, c)
  <2>1. AtMostOnce(a, c) /\ Positions(b, c) = {} BY <1>1 DEF Clean
  <2> QED BY <1>1, <2>1, JoinedOnce
<1>5. Payload(p) = Payload(a) BY <1>1, SamePayload
<1>6. LastZero(p) BY <1>1, <1>2 DEF Clean, LastZero
<1> QED BY <1>1, <1>2, <1>3, <1>4, <1>5, <1>6 DEF Clean

\* Bytes of a body that has not ended.
LEMMA CleanBytes ==
    ASSUME NEW a \in Seq(Token), NEW b \in Seq(Token), Clean(a), Positions(a, "zero") = {},
           \A i \in DOMAIN b : b[i][1] = "byte"
    PROVE  /\ Clean(a \o b) /\ Positions(a \o b, "zero") = {} /\ Payload(a \o b) = Payload(a) \o Payload(b)
           /\ Positions(a \o b, "head") = Positions(a, "head")
<1>1. PICK z, y, c, h, p : z = "zero" /\ y = "byte" /\ c = "continue" /\ h = "head" /\ p = a \o b OBVIOUS
<1>2. Positions(b, z) = {} /\ Positions(b, c) = {} /\ Positions(b, h) = {} BY <1>1, OnlyKind
<1>3. Positions(p, z) = Positions(a, z) /\ Positions(p, h) = Positions(a, h) BY <1>1, <1>2, JoinedNone
<1>4. AtMostOnce(p, h) /\ AtMostOnce(p, c)
  <2>1. AtMostOnce(a, h) /\ AtMostOnce(a, c) BY <1>1 DEF Clean
  <2> QED BY <1>1, <1>2, <2>1, JoinedOnce
<1>5. Payload(p) = Payload(a) \o Payload(b) BY <1>1, PayloadParts
<1>6. LastZero(p) BY <1>1, <1>3 DEF LastZero
<1> QED BY <1>1, <1>3, <1>4, <1>5, <1>6 DEF Clean

\* The last chunk ends a body that is what was declared.
LEMMA CleanZero ==
    ASSUME NEW a \in Seq(Token), NEW b \in Seq(Token), Len(b) = 1, b[1][1] = "zero",
           Clean(a), Positions(a, "zero") = {}, Declared(Payload(a))
    PROVE  /\ Clean(a \o b) /\ Positions(a \o b, "zero") # {}
           /\ Positions(a \o b, "head") = Positions(a, "head")
<1>1. PICK z, y, c, h, p : z = "zero" /\ y = "byte" /\ c = "continue" /\ h = "head" /\ p = a \o b OBVIOUS
<1>2. b \in Seq(Token) /\ Len(b) = 1 /\ \A i \in DOMAIN b : b[i][1] = z
  BY <1>1
<1>3. y # z /\ c # z /\ h # z BY <1>1
<1>4. Positions(b, y) = {} /\ Positions(b, c) = {} /\ Positions(b, h) = {} BY <1>2, <1>3, OnlyKind
<1>5. Positions(p, y) = Positions(a, y) /\ Positions(p, h) = Positions(a, h) BY <1>1, <1>2, <1>4, JoinedNone
<1>6. AtMostOnce(p, h) /\ AtMostOnce(p, c)
  <2>1. AtMostOnce(a, h) /\ AtMostOnce(a, c) BY <1>1 DEF Clean
  <2> QED BY <1>1, <1>2, <1>4, <2>1, JoinedOnce
<1>7. Payload(p) = Payload(a)
  <2>1. Positions(b, "byte") = {} BY <1>1, <1>4
  <2> QED BY <1>1, <1>2, <2>1, SamePayload
<1>8. ASSUME NEW i \in Positions(p, z), NEW j \in Positions(p, y)  PROVE j < i
  <2>1. i \notin Positions(a, z) BY <1>1
  <2>2. i > Len(a) BY <1>1, <1>2, <2>1, JoinedPositions
  <2>3. j \in 1..Len(a) /\ Len(a) \in Nat BY <1>2, <1>5, Joined DEF Positions
  <2>4. i \in Int
    <3>1. p \in Seq(Token) BY <1>1, <1>2, Joined
    <3> QED BY <3>1 DEF Positions
  <2> QED BY <2>2, <2>3, <2>4
<1>9. Positions(p, z) # {}
  <2>1. 1 \in Positions(b, z) BY <1>2 DEF Positions
  <2>2. Len(a) + 1 \in Positions(p, z) BY <1>1, <1>2, <2>1, JoinedPositions
  <2> QED BY <2>2
<1>10. LastZero(p) BY <1>1, <1>8 DEF LastZero
<1> QED BY <1>1, <1>2, <1>5, <1>6, <1>7, <1>9, <1>10 DEF Clean

\* A client that received a part is told nothing wrong.
LEMMA PrefixSound ==
    ASSUME NEW p \in Seq(Token), NEW w \in Seq(Token), NEW m \in Int, Fine(p \o w, m)
    PROVE  Sound(p)
<1>1. PICK n \in Nat, l \in Nat, t \in {p \o w} : t = p \o w /\ n = Len(p) /\ l = Len(w) BY Joined
<1>2. /\ t \in Seq(Token) /\ Len(t) = n + l /\ DOMAIN p = 1..n /\ DOMAIN t = 1..(n + l)
      /\ \A i \in 1..n : t[i] = p[i]
  BY <1>1, Joined
<1>3. Framed(t, m) /\ Clean(t) BY <1>1, FineParts
<1>4. \A kind : Positions(p, kind) \subseteq Positions(t, kind) BY <1>1, JoinedPositions
<1>5. AtMostOnce(p, "head") /\ AtMostOnce(p, "continue") BY <1>3, <1>4 DEF Clean, AtMostOnce
<1>6. ASSUME Positions(p, "zero") # {}  PROVE Declared(Payload(p))
  <2>1. PICK z : z \in Positions(p, "zero") BY <1>6
  <2>2. z \in 1..n /\ z \in Positions(t, "zero") BY <1>2, <1>4, <2>1 DEF Positions
  <2>3. Positions(w, "byte") = {}
    <3> SUFFICES ASSUME NEW j \in Positions(w, "byte")  PROVE FALSE OBVIOUS
    <3>1. n + j \in Positions(t, "byte") BY <1>1, JoinedPositions
    <3>2. n + j < z BY <1>3, <2>2, <3>1 DEF Clean, LastZero
    <3>3. j \in 1..l BY <1>1, Joined DEF Positions
    <3> QED BY <2>2, <3>2, <3>3
  <2>4. Payload(t) = Payload(p) BY <1>1, <2>3, SamePayload
  <2>5. Declared(Payload(t)) BY <1>3, <2>2 DEF Clean
  <2> QED BY <2>4, <2>5
<1>7. ASSUME NEW i \in Positions(p, "size")
      PROVE  /\ p[i][2] > 0 /\ \A k \in i + 1..LeastOf(i + p[i][2], Len(p)) : p[k][1] = "byte"
             /\ i + p[i][2] < Len(p) => p[i + p[i][2] + 1][1] = "crlf"
  <2>1. i \in 1..n /\ i \in Positions(t, "size") /\ t[i] = p[i] BY <1>2, <1>4 DEF Positions
  <2>2. p[i] \in Token BY <1>2, <2>1
  <2>3. PICK s \in Int : s = p[i][2] BY <2>2 DEF Token
  <2>4. FramedAt(t, m, i) BY <1>3, <2>1, FramedByPlace
  <2>5. s > 0 BY <2>1, <2>3, <2>4 DEF FramedAt
  <2>6. ASSUME NEW k \in i + 1..LeastOf(i + s, n)  PROVE p[k][1] = "byte"
    <3>1. k \in Int /\ k > i /\ k <= i + s /\ k <= n BY <2>1, <2>3 DEF LeastOf
    <3>2. k \in 1..n /\ k \in i + 1..i + s /\ k \in i + 1..(n + l) BY <2>1, <2>3, <3>1
    <3>3. t[k][1] = "byte" BY <1>2, <2>1, <2>3, <2>4, <3>2 DEF FramedAt
    <3> QED BY <1>2, <3>2, <3>3
  <2>7. ASSUME i + s < n  PROVE p[i + s + 1][1] = "crlf"
    <3>1. i + s + 1 \in 1..n BY <2>1, <2>5, <2>7
    <3>2. ~(m >= 0 /\ i + s = Len(t) + m) BY <1>2, <2>1, <2>7
    <3>3. t[i + s + 1][1] = "crlf" BY <2>1, <2>3, <2>4, <3>2 DEF FramedAt
    <3> QED BY <1>2, <3>1, <3>3
  <2> QED BY <1>1, <2>3, <2>5, <2>6, <2>7
<1>8. WellFramed(p) BY <1>7 DEF WellFramed
<1> QED BY <1>5, <1>6, <1>8 DEF Sound

-----------------------------------------------------------------------------
(* Writing one operation *)

\* The operation that is done is the next one, or the bytes that it read.
LEMMA PutBegun ==
    ASSUME NEW x, NEW y, Begun(x, y), x.op = "put"
    PROVE  x = y \/ (y.op = "data" /\ Len(x.toks) = y.n /\ \A i \in DOMAIN x.toks : x.toks[i][1] = "byte")
<1>1. ASSUME y.op = "wait", x = [y EXCEPT !.op = "sleep"]  PROVE x = y
  <2>1. CASE "op" \in DOMAIN y
    <3>1. x.op = "sleep" BY <1>1, <2>1
    <3> QED BY <3>1
  <2>2. CASE "op" \notin DOMAIN y BY <1>1, <2>2
  <2> QED BY <2>1, <2>2
<1> QED BY <1>1 DEF Begun

\* The next debt.
LEMMA NextDebt ==
    ASSUME NEW q \in Seq(OpRecord), Grammatical(q), NEW e \in DOMAIN q
    PROVE  /\ e \in Nat \ {0} /\ e + 1 \in Nat /\ Orderly(q, e) /\ DebtAt(q, e) = Debt(q[e])
           /\ KindOf(q[e]) \notin {"size", "data", "byte"} => DebtAt(q, e + 1) = -1
           /\ KindOf(q[e]) \in {"data", "byte"} => DebtAt(q, e + 1) = 0
           /\ KindOf(q[e]) = "size" => DebtAt(q, e + 1) = q[e].toks[1][2] /\ q[e].toks[1][2] > 0
           /\ KindOf(q[e]) \notin {"crlf", "data", "byte"} => Debt(q[e]) = -1
<1>1. e \in Nat \ {0} OBVIOUS
<1>2. Orderly(q, e) BY DEF Grammatical
<1>3. KindOf(q[e]) \in {"data", "byte"} => DebtAt(q, e + 1) = 0
  <2> SUFFICES ASSUME KindOf(q[e]) \in {"data", "byte"}  PROVE DebtAt(q, e + 1) = 0 OBVIOUS
  <2>1. e + 1 \in DOMAIN q /\ KindOf(q[e + 1]) = "crlf" BY <1>2 DEF Orderly
  <2> QED BY <2>1 DEF DebtAt, Debt
<1>4. KindOf(q[e]) \notin {"size", "data", "byte"} => DebtAt(q, e + 1) = -1 BY <1>2 DEF Orderly, DebtAt
<1>5. KindOf(q[e]) = "size" => DebtAt(q, e + 1) = q[e].toks[1][2] /\ q[e].toks[1][2] > 0 BY <1>2 DEF Orderly, DebtAt
<1>6. KindOf(q[e]) \notin {"crlf", "data", "byte"} => Debt(q[e]) = -1 BY DEF Debt
<1>7. DebtAt(q, e) = Debt(q[e]) BY DEF DebtAt
<1> QED BY <1>1, <1>2, <1>3, <1>4, <1>5, <1>6, <1>7

\* What an operation writes leaves the client well informed.
LEMMA PutFine ==
    ASSUME NEW q \in Seq(OpRecord), Grammatical(q), NEW e \in DOMAIN q, NEW x \in OpRecord, x.op = "put", Begun(x, q[e]),
           NEW T \in Seq(Token), Fine(T, DebtAt(q, e)), Passed(q, T, e),
           KindOf(q[e]) = "zero" => Declared(Payload(T))
    PROVE  Fine(T \o x.toks, DebtAt(q, e + 1)) /\ Passed(q, T \o x.toks, e + 1)
<1>1. PICK u \in Seq(Token) : u = x.toks BY DEF OpRecord
<1>2. PICK y \in OpRecord : y = q[e] OBVIOUS
<1>3. PICK p : p = T \o u OBVIOUS
<1>4. /\ e \in Nat \ {0} /\ e + 1 \in Nat /\ Orderly(q, e) /\ DebtAt(q, e) = Debt(y)
      /\ KindOf(y) \notin {"size", "data", "byte"} => DebtAt(q, e + 1) = -1
      /\ KindOf(y) \in {"data", "byte"} => DebtAt(q, e + 1) = 0
      /\ KindOf(y) = "size" => DebtAt(q, e + 1) = y.toks[1][2] /\ y.toks[1][2] > 0
      /\ KindOf(y) \notin {"crlf", "data", "byte"} => Debt(y) = -1
  BY <1>2, NextDebt
<1>5. Clean(T) /\ Framed(T, Debt(y)) BY <1>4, FineParts
<1>6. KindOf(q[1]) = "head" BY DEF Grammatical
<1>7. CASE KindOf(y) \in {"data", "byte"}
  <2>1. \A i \in DOMAIN u : u[i][1] = "byte"
    <3>1. CASE x = y
      <4>1. KindOf(y) = u[1][1] /\ y.op = "put" BY <1>1, <3>1 DEF KindOf
      <4>2. u # <<>> /\ \A i \in DOMAIN u : u[i][1] = u[1][1] BY <1>1, <1>2, <1>4, <3>1, <4>1 DEF Orderly
      <4>3. 1 \in DOMAIN u BY <4>2
      <4>4. u[1][1] # "data"
        <5>1. u[1] \in Token BY <4>3
        <5> QED BY <5>1 DEF Token
      <4> QED BY <1>7, <4>1, <4>2, <4>4
    <3>2. CASE x # y BY <1>1, <1>2, <3>2, PutBegun
    <3> QED BY <3>1, <3>2
  <2>2. Debt(y) = Len(u) /\ Len(u) \in Nat
    <3>1. CASE x = y
      <4>1. KindOf(y) = u[1][1] /\ y.op = "put" BY <1>1, <3>1 DEF KindOf
      <4>2. u # <<>> BY <1>1, <1>2, <1>4, <3>1, <4>1 DEF Orderly
      <4>3. 1 \in DOMAIN u BY <4>2
      <4>4. KindOf(y) = "byte" BY <2>1, <4>1, <4>3
      <4> QED BY <1>1, <3>1, <4>4 DEF Debt
    <3>2. CASE x # y
      <4>1. y.op = "data" /\ Len(u) = y.n BY <1>1, <1>2, <3>2, PutBegun
      <4>2. KindOf(y) = "data" BY <4>1 DEF KindOf
      <4> QED BY <4>1, <4>2 DEF Debt
    <3> QED BY <3>1, <3>2
  <2>3. PICK m \in Nat : m = Len(u) BY <2>2
  <2>4. Framed(p, m - m)
    <3>1. Framed(T, m) /\ Len(u) <= m BY <1>5, <2>2, <2>3
    <3>2. Framed(T \o u, m - Len(u)) BY <2>1, <3>1, FramedBytes
    <3> QED BY <1>3, <2>3, <3>2
  <2>5. Positions(T, "zero") = {} BY <1>2, <1>4, <1>7 DEF Passed
  <2>6. /\ Clean(p) /\ Positions(p, "zero") = {} /\ Positions(p, "head") = Positions(T, "head")
    BY <1>3, <1>5, <2>1, <2>5, CleanBytes
  <2>7. e # 1 BY <1>2, <1>6, <1>7
  <2>8. Positions(T, "head") # {} BY <1>4, <2>7 DEF Passed
  <2>9. ASSUME NEW k \in DOMAIN q, KindOf(q[k]) = "zero", k < e + 1  PROVE FALSE
    <3>1. k \in Nat OBVIOUS
    <3>2. k < e \/ k = e BY <1>4, <2>9, <3>1
    <3> QED BY <1>2, <1>7, <2>5, <2>9, <3>2 DEF Passed
  <2>10. Passed(q, p, e + 1)
    <3>1. (e + 1 > 1) = TRUE BY <1>4
    <3> QED BY <2>6, <2>8, <2>9, <3>1 DEF Passed
  <2>11. Fine(p, 0)
    <3>1. m - m = 0 OBVIOUS
    <3>2. Framed(p, 0) BY <2>4, <3>1
    <3> QED BY <2>6, <3>2, FineParts
  <2> QED BY <1>1, <1>3, <1>4, <1>7, <2>10, <2>11
<1>8. CASE KindOf(y) \notin {"data", "byte"}
  <2>1. x = y /\ y.op = "put"
    <3>1. y.op = "data" => KindOf(y) = "data" BY DEF KindOf
    <3> QED BY <1>2, <1>8, <3>1, PutBegun
  <2>2. PICK kind : kind = KindOf(y) OBVIOUS
  <2>3. u # <<>> /\ \A i \in DOMAIN u : u[i][1] = kind
    BY <1>1, <1>2, <1>4, <2>1, <2>2 DEF Orderly, KindOf
  <2>4. 1 \in DOMAIN u BY <2>3
  <2>5. kind \notin {"byte", "continue"} BY <1>2, <1>4, <1>8, <2>2 DEF Orderly
  <2>6. kind \in {"head", "zero", "size", "crlf"} => Len(u) = 1 BY <1>1, <1>2, <1>4, <2>1, <2>2 DEF Orderly
  <2>7. kind = "head" => e = 1 BY <1>2, <1>4, <2>2 DEF Orderly
  <2>8. CASE kind = "zero"
    <3>1. Positions(T, "zero") = {}
      <4>1. e >= e /\ KindOf(q[e]) = "zero" BY <1>2, <1>4, <2>2, <2>8
      <4> QED BY <4>1 DEF Passed
    <3>2. Len(u) = 1 /\ u[1][1] = "zero" BY <2>3, <2>4, <2>6, <2>8
    <3>3. Declared(Payload(T)) BY <1>2, <2>2, <2>8
    <3>4. Clean(p) /\ Positions(p, "zero") # {} /\ Positions(p, "head") = Positions(T, "head")
      BY <1>3, <1>5, <3>1, <3>2, <3>3, CleanZero
    <3>5. Debt(y) = -1 /\ DebtAt(q, e + 1) = -1 BY <1>4, <2>2, <2>8
    <3>6. Framed(p, -1)
      <4>1. PICK size : size = "size" OBVIOUS
      <4>2. Positions(u, size) = {} BY <2>3, <2>8, <4>1, OnlyKind
      <4>3. Positions(u, "size") = {} /\ Framed(T, -1) BY <1>5, <3>5, <4>1, <4>2
      <4> QED BY <1>3, <4>3, FramedCalm
    <3>7. e # 1 BY <1>2, <1>6, <2>2, <2>8
    <3>8. Positions(T, "head") # {} BY <1>4, <3>7 DEF Passed
    <3>9. ASSUME NEW k \in DOMAIN q, k >= e + 1  PROVE KindOf(q[k]) \notin {"zero", "data", "byte"}
      <4>1. k > e BY <1>4, <3>9
      <4> QED BY <1>2, <1>4, <2>2, <2>8, <4>1 DEF Orderly
    <3>10. Passed(q, p, e + 1)
      <4>1. (e + 1 > 1) = TRUE BY <1>4
      <4> QED BY <3>4, <3>8, <3>9, <4>1 DEF Passed
    <3>11. Fine(p, -1) BY <3>4, <3>6, FineParts
    <3> QED BY <1>1, <1>3, <3>5, <3>10, <3>11
  <2>9. CASE kind # "zero"
    <3>1. PICK zero, byte, cont : zero = "zero" /\ byte = "byte" /\ cont = "continue" OBVIOUS
    <3>2. zero # kind /\ byte # kind /\ cont # kind BY <2>5, <2>9, <3>1
    <3>3. Positions(u, zero) = {} /\ Positions(u, byte) = {} /\ Positions(u, cont) = {} BY <2>3, <3>2, OnlyKind
    <3>4. Positions(u, "head") = {} \/ (Positions(T, "head") = {} /\ Len(u) = 1)
      <4>1. CASE kind = "head"
        <5>1. e = 1 BY <2>7, <4>1
        <5>2. (e > 1) = FALSE BY <5>1
        <5> QED BY <2>6, <4>1, <5>2 DEF Passed
      <4>2. CASE kind # "head"
        <5>1. PICK head : head = "head" OBVIOUS
        <5>2. head # kind BY <4>2, <5>1
        <5>3. Positions(u, head) = {} BY <2>3, <5>2, OnlyKind
        <5> QED BY <5>1, <5>3
      <4> QED BY <4>1, <4>2
    <3>5. Clean(p) /\ Positions(p, "zero") = Positions(T, "zero") BY <1>3, <1>5, <3>1, <3>3, <3>4, CleanCalm
    <3>6. Framed(p, DebtAt(q, e + 1))
      <4>1. CASE kind = "size"
        <5>1. PICK n : n = y.toks[1][2] OBVIOUS
        <5>2. u[1] \in Token BY <2>4
        <5>3. n \in Nat /\ n > 0 /\ DebtAt(q, e + 1) = n /\ u[1][2] = n /\ u[1][1] = "size"
          BY <1>1, <1>4, <2>1, <2>2, <2>3, <2>4, <4>1, <5>1, <5>2 DEF Token
        <5>4. Framed(T, -1) /\ Len(u) = 1 BY <1>4, <1>5, <2>2, <2>6, <4>1
        <5>5. Framed(T \o u, n) BY <5>3, <5>4, FramedSize
        <5> QED BY <1>3, <5>3, <5>5
      <4>2. CASE kind = "crlf"
        <5>1. Debt(y) = 0 /\ DebtAt(q, e + 1) = -1 BY <1>4, <2>2, <4>2 DEF Debt
        <5>2. Framed(T, 0) /\ Len(u) = 1 /\ u[1][1] = "crlf" BY <1>5, <2>3, <2>4, <2>6, <4>2, <5>1
        <5>3. Framed(T \o u, -1) BY <5>2, FramedCrlf
        <5> QED BY <1>3, <5>1, <5>3
      <4>3. CASE kind \notin {"size", "crlf"}
        <5>1. PICK size : size = "size" OBVIOUS
        <5>2. size # kind BY <4>3, <5>1
        <5>3. Positions(u, size) = {} BY <2>3, <5>2, OnlyKind
        <5>4. Debt(y) = -1 /\ DebtAt(q, e + 1) = -1 BY <1>4, <1>8, <2>2, <4>3
        <5>5. Framed(T, -1) /\ Positions(u, "size") = {} BY <1>5, <5>1, <5>3, <5>4
        <5>6. Framed(T \o u, -1) BY <5>5, FramedCalm
        <5> QED BY <1>3, <5>4, <5>6
      <4> QED BY <4>1, <4>2, <4>3
    <3>7. Positions(p, "head") # {}
      <4>1. CASE e = 1
        <5>1. kind = "head" BY <1>2, <1>6, <2>2, <4>1
        <5>2. 1 \in Positions(u, kind) BY <2>3, <2>4 DEF Positions
        <5>3. Len(T) + 1 \in Positions(p, kind) BY <1>3, <5>2, JoinedPositions
        <5> QED BY <5>1, <5>3
      <4>2. CASE e # 1
        <5>1. (e > 1) = TRUE BY <1>4, <4>2
        <5>2. Positions(T, "head") # {} BY <5>1 DEF Passed
        <5>3. Positions(T, "head") \subseteq Positions(p, "head") BY <1>3, JoinedPositions
        <5> QED BY <5>2, <5>3
      <4> QED BY <4>1, <4>2
    <3>8. ASSUME NEW k \in DOMAIN q, KindOf(q[k]) = "zero", k < e + 1  PROVE Positions(p, "zero") # {}
      <4>1. k \in Nat OBVIOUS
      <4>2. k < e \/ k = e BY <1>4, <3>8, <4>1
      <4>3. k # e BY <1>2, <2>2, <2>9, <3>8
      <4> QED BY <3>5, <3>8, <4>2, <4>3 DEF Passed
    <3>9. ASSUME Positions(p, "zero") # {}, NEW k \in DOMAIN q, k >= e + 1  PROVE KindOf(q[k]) \notin {"zero", "data", "byte"}
      <4>1. k \in Nat /\ k >= e BY <1>4, <3>9
      <4> QED BY <3>5, <3>9, <4>1 DEF Passed
    <3>10. Passed(q, p, e + 1)
      <4>1. (e + 1 > 1) = TRUE BY <1>4
      <4> QED BY <3>7, <3>8, <3>9, <4>1 DEF Passed
    <3>11. Fine(p, DebtAt(q, e + 1)) BY <3>5, <3>6, FineParts
    <3> QED BY <1>1, <1>3, <3>10, <3>11
  <2> QED BY <2>8, <2>9
<1> QED BY <1>7, <1>8

\* Operations that are skipped, or that write nothing.
LEMMA SkipFine ==
    ASSUME NEW q \in Seq(OpRecord), Grammatical(q), NEW e \in DOMAIN q, NEW f \in Nat, e < f,
           NEW T \in Seq(Token), Fine(T, DebtAt(q, e)), Passed(q, T, e), DebtAt(q, e) = -1, DebtAt(q, f) = -1,
           KindOf(q[e]) # "head", \A k \in DOMAIN q : e <= k /\ k < f => KindOf(q[k]) # "zero"
    PROVE  Fine(T, DebtAt(q, f)) /\ Passed(q, T, f)
<1>1. e \in Nat /\ e > 0 /\ e # 1 BY DEF Grammatical
<1>2. (e > 1) = TRUE /\ (f > 1) = TRUE BY <1>1
<1>3. Positions(T, "head") # {} BY <1>2 DEF Passed
<1>4. ASSUME NEW k \in DOMAIN q, KindOf(q[k]) = "zero", k < f  PROVE Positions(T, "zero") # {}
  <2>1. k < e BY <1>1, <1>4
  <2> QED BY <1>4, <2>1 DEF Passed
<1>5. ASSUME Positions(T, "zero") # {}, NEW k \in DOMAIN q, k >= f  PROVE KindOf(q[k]) \notin {"zero", "data", "byte"}
  <2>1. k >= e BY <1>1, <1>5
  <2> QED BY <1>5, <2>1 DEF Passed
<1> QED BY <1>2, <1>3, <1>4, <1>5 DEF Passed

\* The last token of what an operation writes.
LEMMA PutLatest ==
    ASSUME NEW q \in Seq(OpRecord), Grammatical(q), NEW e \in DOMAIN q, NEW x \in OpRecord, x.op = "put", Begun(x, q[e]),
           NEW T \in Seq(Token)
    PROVE  Latest(q, T \o x.toks, e + 1)
<1>1. SUFFICES ASSUME NEW k \in DOMAIN q, k < e + 1, KindOf(q[k]) \in {"head", "msg", "zero"},
                      \A j \in k + 1..(e + 1) - 1 : q[j].op \notin {"put", "data"}
               PROVE  Last(T \o x.toks)[1] = KindOf(q[k])
  BY DEF Latest
<1>2. e \in Nat /\ k \in Nat /\ q[e] \in OpRecord OBVIOUS
<1>3. q[e].op \in {"put", "data"} BY <1>2 DEF Begun, OpRecord
<1>4. k = e
  <2>1. k < e => e \in k + 1..(e + 1) - 1 BY <1>2
  <2> QED BY <1>1, <1>2, <1>3, <2>1
<1>5. x = q[e] BY <1>1, <1>4 DEF Begun, KindOf
<1>6. PICK u \in Seq(Token) : u = x.toks /\ u # <<>> /\ \A i \in DOMAIN u : u[i][1] = u[1][1]
  <2>1. Orderly(q, e) BY DEF Grammatical
  <2>2. x.toks \in Seq(Token) BY DEF OpRecord
  <2> QED BY <1>5, <2>1, <2>2 DEF Orderly
<1>7. Last(T \o u) = u[Len(u)] /\ Len(u) \in DOMAIN u
  <2>1. Len(T \o u) = Len(T) + Len(u) /\ Len(T) \in Nat /\ Len(u) \in Nat \ {0} BY <1>6, ConcatProperties
  <2>2. (T \o u)[Len(T) + Len(u)] = u[Len(u)] BY <2>1
  <2> QED BY <2>1, <2>2 DEF Last
<1>8. KindOf(q[e]) = u[1][1] BY <1>5, <1>6 DEF KindOf
<1> QED BY <1>4, <1>6, <1>7, <1>8

LEMMA SkipLatest ==
    ASSUME NEW q \in Seq(OpRecord), NEW e \in Nat, NEW f \in Nat, e < f, NEW T, Latest(q, T, e),
           \A k \in DOMAIN q : e <= k /\ k < f => KindOf(q[k]) \notin {"head", "msg", "zero"}
    PROVE  Latest(q, T, f)
<1>1. SUFFICES ASSUME NEW k \in DOMAIN q, k < f, KindOf(q[k]) \in {"head", "msg", "zero"},
                      \A j \in k + 1..f - 1 : q[j].op \notin {"put", "data"}
               PROVE  Last(T)[1] = KindOf(q[k])
  BY DEF Latest
<1>2. k \in Nat OBVIOUS
<1>3. k < e BY <1>1, <1>2
<1>4. \A j \in k + 1..e - 1 : j \in k + 1..f - 1 BY <1>2
<1> QED BY <1>1, <1>3, <1>4 DEF Latest

-----------------------------------------------------------------------------
(* Counting the payload *)

\* The end of a response is a flush or a body of the ICAP response itself.
LEMMA TrailerOp ==
    ASSUME NEW r \in ResponseRecord, NEW x, Trailer(r, x)
    PROVE  x.op \in {"put", "flush"} /\ KindOf(x) \in {"flush", "raw"}
<1>1. CASE x = Flush
  <2>1. x.op = "flush" /\ KindOf(x) = "flush" BY <1>1, FlushKind
  <2> QED BY <2>1
<1>2. CASE r.icap # <<>> /\ x = Put(Bytes("raw", r.icap))
  <2>1. PICK kind, data : kind = "raw" /\ data = r.icap OBVIOUS
  <2>2. kind \in {"byte", "raw"} /\ data \in Seq(Int) /\ data # <<>> /\ x = Put(Bytes(kind, data))
    BY <1>2, <2>1 DEF ResponseRecord
  <2>3. x.op = "put" /\ KindOf(x) = kind BY <2>2, BytesKind
  <2> QED BY <2>1, <2>3
<1> QED BY <1>1, <1>2 DEF Trailer

\* What stands at each place of a stream.
ChunkTable(q, plan, i) ==
    /\ q[4 + 5 * i].op = "wait" /\ KindOf(q[4 + 5 * i]) = "wait" /\ q[4 + 5 * i].n = i
    /\ q[5 + 5 * i].op = "put" /\ KindOf(q[5 + 5 * i]) = "size"
    /\ q[6 + 5 * i].op = "data" /\ KindOf(q[6 + 5 * i]) = "data" /\ q[6 + 5 * i].n = ChunkSize(plan, i)
    /\ q[7 + 5 * i].op = "put" /\ KindOf(q[7 + 5 * i]) = "crlf"
    /\ q[8 + 5 * i].op = "flush" /\ KindOf(q[8 + 5 * i]) = "flush"

\* The operations of a chunk and their kinds, by place.
LEMMA ChunkTabled ==
    ASSUME NEW q, NEW plan, NEW i \in Nat, ChunkLaid(q, plan, i)
    PROVE  ChunkTable(q, plan, i)
<1>1. PICK w, s, d, c : w = "wait" /\ s = "size" /\ d = "data" /\ c = "crlf" OBVIOUS
<1>2. PICK x1, x2, x3, x4, x5 : /\ x1 = q[4 + 5 * i] /\ x2 = q[5 + 5 * i] /\ x3 = q[6 + 5 * i]
                                /\ x4 = q[7 + 5 * i] /\ x5 = q[8 + 5 * i]
  OBVIOUS
<1>3. PICK n : n = ChunkSize(plan, i) OBVIOUS
<1>4. /\ x1 = Op(w, <<>>, i) /\ x2 = Put(<<<<s, n>>>>) /\ x3 = Op(d, <<>>, n) /\ x4 = Put(<<<<c, 0>>>>)
      /\ x5 = Flush
  BY <1>1, <1>2, <1>3 DEF ChunkLaid
<1>5. x1.op = w /\ KindOf(x1) = w /\ x1.n = i BY <1>1, <1>4, NoTokenKind
<1>6. x2.op = "put" /\ KindOf(x2) = s BY <1>1, <1>4, OneTokenKind
<1>7. x3.op = d /\ KindOf(x3) = d /\ x3.n = n BY <1>1, <1>4, NoTokenKind
<1>8. x4.op = "put" /\ KindOf(x4) = c BY <1>1, <1>4, OneTokenKind
<1>9. x5.op = "flush" /\ KindOf(x5) = "flush" BY <1>4, FlushKind
<1> QED BY <1>1, <1>2, <1>3, <1>5, <1>6, <1>7, <1>8, <1>9 DEF ChunkTable

StreamTabled(q, r, c) ==
    /\ q \in Seq(OpRecord) /\ Len(q) >= 6 + 5 * c
    /\ q[1].op = "put" /\ KindOf(q[1]) = "head" /\ q[2].op = "put" /\ KindOf(q[2]) = "msg"
    /\ q[3].op = "open" /\ KindOf(q[3]) = "open"
    /\ \A i \in 0..(c - 1) : ChunkTable(q, r.plan, i)
    /\ q[4 + 5 * c].op = "verify" /\ KindOf(q[4 + 5 * c]) = "verify"
    /\ q[5 + 5 * c].op = "release" /\ KindOf(q[5 + 5 * c]) = "release"
    /\ \A k \in DOMAIN q : k > 5 + 5 * c => q[k].op \in {"put", "flush"} /\ KindOf(q[k]) \in {"zero", "flush", "raw"}
    /\ r.plan.mode # "fin" => Len(q) >= 6 + 5 * c /\ KindOf(q[6 + 5 * c]) = "zero"

\* The operations of a streamed response and their kinds, by place.
LEMMA StreamTable ==
    ASSUME NEW r \in ResponseRecord, r.stream, r.target # "none", NEW q, q = ResponseOps(r), NEW c \in Nat, c = r.plan.count
    PROVE  StreamTabled(q, r, c)
<1>1. Laid(q, r) BY Layout
<1>2. StreamLaid(q, r) /\ q \in Seq(OpRecord) /\ q[1] = Put(<<<<"head", r.status>>>>) BY <1>1 DEF Laid
<1>3. PICK h, g, o, v, w, z : h = "head" /\ g = "msg" /\ o = "open" /\ v = "verify" /\ w = "release" /\ z = "zero"
  OBVIOUS
<1>4. q[1].op = "put" /\ KindOf(q[1]) = h BY <1>2, <1>3, OneTokenKind
<1>5. q[2].op = "put" /\ KindOf(q[2]) = g
  <2>1. q[2] = Put(<<<<g, r.length>>>>) BY <1>2, <1>3 DEF StreamLaid
  <2> QED BY <1>3, <2>1, OneTokenKind
<1>6. q[3].op = o /\ KindOf(q[3]) = o
  <2>1. q[3] = Op(o, <<>>, 0) BY <1>2, <1>3 DEF StreamLaid
  <2> QED BY <1>3, <2>1, NoTokenKind
<1>7. ASSUME NEW i \in 0..(c - 1)  PROVE ChunkTable(q, r.plan, i)
  <2>1. i \in Nat /\ ChunkLaid(q, r.plan, i) BY <1>2 DEF StreamLaid
  <2> QED BY <2>1, ChunkTabled
<1>8. q[4 + 5 * c].op = v /\ KindOf(q[4 + 5 * c]) = v
  <2>1. q[4 + 5 * c] = Op(v, <<>>, 0) BY <1>2, <1>3 DEF StreamLaid
  <2> QED BY <1>3, <2>1, NoTokenKind
<1>9. q[5 + 5 * c].op = w /\ KindOf(q[5 + 5 * c]) = w
  <2>1. q[5 + 5 * c] = Op(w, <<>>, 0) BY <1>2, <1>3 DEF StreamLaid
  <2> QED BY <1>3, <2>1, NoTokenKind
<1>10. ASSUME r.plan.mode # "fin"  PROVE q[6 + 5 * c].op = "put" /\ KindOf(q[6 + 5 * c]) = z /\ q[7 + 5 * c] = Flush
  <2>1. q[6 + 5 * c] = Put(<<<<z, 0>>>>) /\ q[7 + 5 * c] = Flush BY <1>2, <1>3, <1>10 DEF StreamLaid
  <2> QED BY <1>3, <2>1, OneTokenKind
<1>11. ASSUME NEW k \in DOMAIN q, k > 5 + 5 * c
       PROVE  q[k].op \in {"put", "flush"} /\ KindOf(q[k]) \in {"zero", "flush", "raw"}
  <2>1. k \in Nat BY <1>2
  <2>2. CASE r.plan.mode = "fin"
    <3>1. Trailer(r, q[k]) BY <1>2, <1>11, <2>2 DEF StreamLaid
    <3> QED BY <3>1, TrailerOp
  <2>3. CASE r.plan.mode # "fin"
    <3>1. PICK n \in Nat : n = 5 * c OBVIOUS
    <3>2. k > 5 + n BY <1>11, <3>1
    <3>3. k = 6 + n \/ k = 7 + n \/ k > 7 + n BY <2>1, <3>2
    <3>4. CASE k = 6 + n BY <1>3, <1>10, <2>3, <3>1, <3>4
    <3>5. CASE k = 7 + n
      <4>1. q[k] = Flush BY <1>10, <2>3, <3>1, <3>5
      <4>2. q[k].op = "flush" /\ KindOf(q[k]) = "flush" BY <4>1, FlushKind
      <4> QED BY <4>2
    <3>6. CASE k > 7 + n
      <4>1. Trailer(r, q[k]) BY <1>2, <2>3, <3>1, <3>6 DEF StreamLaid
      <4> QED BY <4>1, TrailerOp
    <3> QED BY <3>3, <3>4, <3>5, <3>6
  <2> QED BY <2>2, <2>3
<1>12. Len(q) >= 6 + 5 * c BY <1>2 DEF StreamLaid
<1> QED BY <1>2, <1>3, <1>4, <1>5, <1>6, <1>7, <1>8, <1>9, <1>10, <1>11, <1>12 DEF StreamTabled

\* The places of a stream.
InChunk(c, e, p) == \E i \in 0..(c - 1) : e = p + 5 * i

\* At which places of a streamed response an operation can stand.
LEMMA StreamWhere ==
    ASSUME NEW r \in ResponseRecord, r.stream, r.target # "none", NEW q, q = ResponseOps(r), NEW c \in Nat, c = r.plan.count,
           NEW e \in DOMAIN q
    PROVE  /\ e \in Nat \ {0} /\ KindOf(q[e]) # "byte"
           /\ q[e].op = "data" => InChunk(c, e, 6)
           /\ KindOf(q[e]) = "data" => q[e].op = "data"
           /\ q[e].op = "wait" => InChunk(c, e, 4)
           /\ \A i \in 0..(c - 1) : (e = 6 + 5 * i => q[e].op = "data" /\ q[e].n = ChunkSize(r.plan, i))
           /\ KindOf(q[e]) = "zero" => e > 4 + 5 * c
           /\ KindOf(q[e]) \in {"head", "msg"} => e < 4
           /\ q[e].op = "verify" => e = 4 + 5 * c
           /\ e = 4 + 5 * c => q[e].op = "verify"
           /\ q[e].op = "release" => e = 5 + 5 * c
           /\ q[e].op \notin {"sleep", "fail"}
<1>0. StreamTabled(q, r, c) BY StreamTable
<1>1. /\ q \in Seq(OpRecord) /\ Len(q) >= 6 + 5 * c
      /\ q[1].op = "put" /\ KindOf(q[1]) = "head" /\ q[2].op = "put" /\ KindOf(q[2]) = "msg"
      /\ q[3].op = "open" /\ KindOf(q[3]) = "open"
      /\ \A i \in 0..(c - 1) : ChunkTable(q, r.plan, i)
      /\ q[4 + 5 * c].op = "verify" /\ KindOf(q[4 + 5 * c]) = "verify"
      /\ q[5 + 5 * c].op = "release" /\ KindOf(q[5 + 5 * c]) = "release"
      /\ \A k \in DOMAIN q : k > 5 + 5 * c => q[k].op \in {"put", "flush"} /\ KindOf(q[k]) \in {"zero", "flush", "raw"}
  BY <1>0 DEF StreamTabled
<1>2. e \in Nat \ {0} BY <1>1
<1>3. PICK n \in Nat : n = 5 * c OBVIOUS
<1>4. CASE e < 4
  <2>1. e \in {1, 2, 3} BY <1>2, <1>4
  <2>2. \A i \in 0..(c - 1) : e # 6 + 5 * i BY <1>2, <1>4
  <2>3. q[e].op \in {"put", "open"} /\ KindOf(q[e]) \in {"head", "msg", "open"} BY <1>1, <2>1
  <2>4. e # 4 + 5 * c BY <1>2, <1>4
  <2> QED BY <1>2, <1>4, <2>2, <2>3, <2>4
<1>5. CASE e >= 4 /\ e < 4 + 5 * c
  <2>1. PICK i \in 0..(c - 1) : e \in {4 + 5 * i, 5 + 5 * i, 6 + 5 * i, 7 + 5 * i, 8 + 5 * i} BY <1>2, <1>5, PlaceIn
  <2>2. ChunkTable(q, r.plan, i) BY <1>1
  <2>3. e # 4 + 5 * c BY <1>2, <1>5
  <2>4. CASE e = 6 + 5 * i
    <3>1. q[e].op = "data" /\ KindOf(q[e]) = "data" /\ q[e].n = ChunkSize(r.plan, i) BY <2>2, <2>4 DEF ChunkTable
    <3>2. \A j \in 0..(c - 1) : e = 6 + 5 * j => j = i BY <2>4
    <3>3. InChunk(c, e, 6) BY <2>4 DEF InChunk
    <3> QED BY <1>2, <2>3, <3>1, <3>2, <3>3
  <2>5. CASE e \in {4 + 5 * i, 5 + 5 * i, 7 + 5 * i, 8 + 5 * i}
    <3>1. q[e].op \in {"wait", "put", "flush"} /\ KindOf(q[e]) \in {"wait", "size", "crlf", "flush"}
      BY <2>2, <2>5 DEF ChunkTable
    <3>2. \A j \in 0..(c - 1) : e # 6 + 5 * j BY <2>5
    <3>3. q[e].op = "wait" => InChunk(c, e, 4)
      <4>1. q[e].op = "wait" => e = 4 + 5 * i BY <2>2, <2>5 DEF ChunkTable
      <4> QED BY <4>1 DEF InChunk
    <3> QED BY <1>2, <2>3, <3>1, <3>2, <3>3
  <2> QED BY <2>1, <2>4, <2>5
<1>6. CASE e >= 4 + 5 * c
  <2>1. \A i \in 0..(c - 1) : e # 6 + 5 * i
    <3> SUFFICES ASSUME NEW i \in 0..(c - 1)  PROVE e # 6 + 5 * i OBVIOUS
    <3>1. i <= c - 1 OBVIOUS
    <3> QED BY <1>2, <1>6, <3>1
  <2>2. CASE e = 4 + 5 * c BY <1>1, <1>2, <2>1, <2>2
  <2>3. CASE e = 5 + 5 * c
    <3>1. q[e].op = "release" /\ KindOf(q[e]) = "release" BY <1>1, <2>3
    <3>2. e # 4 + 5 * c BY <2>3
    <3> QED BY <1>2, <2>1, <2>3, <3>1, <3>2
  <2>4. CASE e > 5 + 5 * c
    <3>1. q[e].op \in {"put", "flush"} /\ KindOf(q[e]) \in {"zero", "flush", "raw"} BY <1>1, <2>4
    <3>2. e # 4 + 5 * c /\ e > 4 + 5 * c BY <1>2, <2>4
    <3> QED BY <1>2, <2>1, <3>1, <3>2
  <2>5. e = 4 + 5 * c \/ e = 5 + 5 * c \/ e > 5 + 5 * c
    <3>0. e >= 4 + n BY <1>3, <1>6
    <3>1. e = 4 + n \/ e = 5 + n \/ e > 5 + n BY <1>2, <3>0
    <3> QED BY <1>3, <3>1
  <2> QED BY <2>2, <2>3, <2>4, <2>5
<1>7. e < 4 \/ (e >= 4 /\ e < 4 + 5 * c) \/ e >= 4 + 5 * c BY <1>2
<1> QED BY <1>4, <1>5, <1>6, <1>7

\* What stands at each place of a response that is not streamed.
PlainTabled(q, r) ==
    \A e \in DOMAIN q :
        /\ q[e].op \in {"put", "flush"}
        /\ KindOf(q[e]) \in {"byte", "zero"} => r.target # "none" /\ r.body # <<>>
        /\ r.target # "none" /\ r.body # <<>> =>
              /\ (e = 4) = (KindOf(q[e]) = "byte") /\ (e = 6) = (KindOf(q[e]) = "zero")
              /\ e = 4 => q[e] = Put(Bytes("byte", r.body))

\* At which places of a response with a body in memory an operation can stand.
LEMMA PlainWhere ==
    ASSUME NEW r \in ResponseRecord, r.stream = FALSE \/ r.target = "none", NEW q, q = ResponseOps(r)
    PROVE  PlainTabled(q, r)
<1>1. Laid(q, r) BY Layout
<1>2. q \in Seq(OpRecord) /\ q[1] = Put(<<<<"head", r.status>>>>) BY <1>1 DEF Laid
<1>3. PICK h, g, s, c, z, b : h = "head" /\ g = "msg" /\ s = "size" /\ c = "crlf" /\ z = "zero" /\ b = "byte" OBVIOUS
<1>4. q[1].op = "put" /\ KindOf(q[1]) = h BY <1>2, <1>3, OneTokenKind
<1>5. CASE r.target # "none" /\ r.body # <<>>
  <2>1. BodyLaid(q, r) BY <1>1, <1>5 DEF Laid
  <2>2. q[2].op = "put" /\ KindOf(q[2]) = g
    <3>1. q[2] = Put(<<<<g, r.length>>>>) BY <1>3, <2>1 DEF BodyLaid
    <3> QED BY <1>3, <3>1, OneTokenKind
  <2>3. q[3].op = "put" /\ KindOf(q[3]) = s
    <3>1. q[3] = Put(<<<<s, Len(r.body)>>>>) BY <1>3, <2>1 DEF BodyLaid
    <3> QED BY <1>3, <3>1, OneTokenKind
  <2>4. q[4].op = "put" /\ KindOf(q[4]) = b /\ q[4] = Put(Bytes("byte", r.body))
    <3>1. q[4] = Put(Bytes(b, r.body)) /\ r.body \in Seq(Int) BY <1>3, <2>1 DEF BodyLaid, ResponseRecord
    <3>2. q[4].op = "put" /\ KindOf(q[4]) = b BY <1>3, <1>5, <3>1, BytesKind
    <3> QED BY <1>3, <3>1, <3>2
  <2>5. q[5].op = "put" /\ KindOf(q[5]) = c
    <3>1. q[5] = Put(<<<<c, 0>>>>) BY <1>3, <2>1 DEF BodyLaid
    <3> QED BY <1>3, <3>1, OneTokenKind
  <2>6. q[6].op = "put" /\ KindOf(q[6]) = z
    <3>1. q[6] = Put(<<<<z, 0>>>>) BY <1>3, <2>1 DEF BodyLaid
    <3> QED BY <1>3, <3>1, OneTokenKind
  <2>7. ASSUME NEW e \in DOMAIN q
        PROVE  /\ q[e].op \in {"put", "flush"} /\ (e = 4) = (KindOf(q[e]) = "byte") /\ (e = 6) = (KindOf(q[e]) = "zero")
               /\ e = 4 => q[e] = Put(Bytes("byte", r.body))
    <3>1. e \in Nat \ {0} BY <1>2
    <3>2. CASE e > 6
      <4>1. Trailer(r, q[e]) BY <2>1, <3>2 DEF BodyLaid
      <4>2. q[e].op \in {"put", "flush"} /\ KindOf(q[e]) \in {"flush", "raw"} BY <4>1, TrailerOp
      <4> QED BY <3>2, <4>2
    <3>3. CASE e \in {1, 2, 3, 5}
      <4>1. q[e].op = "put" /\ KindOf(q[e]) \in {"head", "msg", "size", "crlf"} BY <1>3, <1>4, <2>2, <2>3, <2>5, <3>3
      <4> QED BY <3>3, <4>1
    <3>4. CASE e = 4 BY <1>3, <2>4, <3>4
    <3>5. CASE e = 6 BY <1>3, <2>6, <3>5
    <3>6. e > 6 \/ e \in {1, 2, 3, 5} \/ e = 4 \/ e = 6 BY <3>1
    <3> QED BY <3>2, <3>3, <3>4, <3>5, <3>6
  <2> QED BY <1>5, <2>7 DEF PlainTabled
<1>6. CASE ~(r.target # "none" /\ r.body # <<>>)
  <2>1. BareLaid(q, r) BY <1>1, <1>6 DEF Laid
  <2>2. ASSUME NEW e \in DOMAIN q  PROVE q[e].op \in {"put", "flush"} /\ KindOf(q[e]) \notin {"byte", "zero"}
    <3>1. e \in Nat \ {0} BY <1>2
    <3>2. CASE e = 1 BY <1>3, <1>4, <3>2
    <3>3. CASE e > 1 /\ Trailer(r, q[e])
      <4>1. q[e].op \in {"put", "flush"} /\ KindOf(q[e]) \in {"flush", "raw"} BY <3>3, TrailerOp
      <4> QED BY <4>1
    <3>4. CASE q[e] = Put(<<<<"msg", r.length>>>>)
      <4>1. q[e] = Put(<<<<g, r.length>>>>) BY <1>3, <3>4
      <4>2. q[e].op = "put" /\ KindOf(q[e]) = g BY <1>3, <4>1, OneTokenKind
      <4> QED BY <1>3, <4>2
    <3> QED BY <2>1, <3>1, <3>2, <3>3, <3>4 DEF BareLaid
  <2> QED BY <1>6, <2>2 DEF PlainTabled
<1> QED BY <1>5, <1>6

\* Counting the bytes of the chunks: only a chunk's data adds any.
LEMMA CountSame ==
    ASSUME NEW plan \in Plan, NEW c \in Nat, c = plan.count, c <= plan.bytes, plan.bytes > 0 => c > 0,
           NEW n, NEW e \in Nat \ {0}, Counted(plan, n, e), \A i \in 0..(c - 1) : e # 6 + 5 * i
    PROVE  Counted(plan, n, e + 1)
<1>1. plan.bytes \in Nat BY DEF Plan
<1>2. c > 0 => BytesBefore(plan, 0) = 0 /\ BytesBefore(plan, c) = plan.bytes BY ChunkSums
<1>3. ASSUME e + 1 <= 3  PROVE n = 0
  <2>1. e <= 3 BY <1>3
  <2> QED BY <2>1 DEF Counted
<1>4. ASSUME NEW i \in 0..(c - 1), e + 1 \in 4 + 5 * i..6 + 5 * i  PROVE n = BytesBefore(plan, i)
  <2>1. i \in Nat /\ i < c OBVIOUS
  <2>2. CASE e = 3 + 5 * i
    <3>1. CASE i = 0
      <4>1. e <= 3 BY <2>2, <3>1
      <4>2. n = 0 BY <4>1 DEF Counted
      <4> QED BY <1>2, <2>1, <3>1, <4>2
    <3>2. CASE i > 0
      <4>1. PICK j \in 0..(c - 1) : j = i - 1 /\ i = j + 1 BY <2>1, <3>2
      <4>2. e \in 7 + 5 * j..8 + 5 * j BY <2>1, <2>2, <4>1
      <4> QED BY <4>1, <4>2 DEF Counted
    <3> QED BY <2>1, <3>1, <3>2
  <2>3. CASE e # 3 + 5 * i
    <3>1. e \in 4 + 5 * i..6 + 5 * i BY <1>4, <2>1, <2>3
    <3> QED BY <3>1 DEF Counted
  <2> QED BY <2>2, <2>3
<1>5. ASSUME NEW i \in 0..(c - 1), e + 1 \in 7 + 5 * i..8 + 5 * i  PROVE n = BytesBefore(plan, i + 1)
  <2>1. e # 6 + 5 * i /\ i \in Nat OBVIOUS
  <2>2. e \in 7 + 5 * i..8 + 5 * i BY <1>5, <2>1
  <2> QED BY <2>2 DEF Counted
<1>6. ASSUME e + 1 = 4 + 5 * c  PROVE n = plan.bytes
  <2>1. CASE c = 0
    <3>1. e <= 3 BY <1>6, <2>1
    <3>2. n = 0 BY <3>1 DEF Counted
    <3> QED BY <1>1, <2>1, <3>2
  <2>2. CASE c > 0
    <3>1. PICK j \in 0..(c - 1) : j = c - 1 /\ c = j + 1 BY <2>2
    <3>2. e \in 7 + 5 * j..8 + 5 * j BY <1>6, <3>1
    <3>3. n = BytesBefore(plan, j + 1) BY <3>2 DEF Counted
    <3> QED BY <1>2, <2>2, <3>1, <3>3
  <2> QED BY <2>1, <2>2
<1> QED BY <1>3, <1>4, <1>5, <1>6 DEF Counted

\* After the bytes of a chunk the count is that of the next chunk.
LEMMA CountChunk ==
    ASSUME NEW plan \in Plan, NEW c \in Nat, c = plan.count, c <= plan.bytes,
           NEW n, NEW i \in 0..(c - 1), Counted(plan, n, 6 + 5 * i)
    PROVE  Counted(plan, n + ChunkSize(plan, i), (6 + 5 * i) + 1)
<1>1. i \in Nat /\ i < c /\ c > 0 OBVIOUS
<1>2. 6 + 5 * i \in 4 + 5 * i..6 + 5 * i BY <1>1
<1>3. n = BytesBefore(plan, i) BY <1>2 DEF Counted
<1>4. BytesBefore(plan, i + 1) = BytesBefore(plan, i) + ChunkSize(plan, i) BY <1>1, ChunkSums
<1>5. PICK f \in Nat : f = (6 + 5 * i) + 1 /\ f = 7 + 5 * i BY <1>1
<1>6. ASSUME NEW j \in 0..(c - 1), f \in 4 + 5 * j..6 + 5 * j  PROVE FALSE BY <1>1, <1>5, <1>6
<1>7. ASSUME NEW j \in 0..(c - 1), f \in 7 + 5 * j..8 + 5 * j  PROVE j = i BY <1>1, <1>5, <1>7
<1>8. f > 3 /\ f # 4 + 5 * c BY <1>1, <1>5
<1>9. PICK m : m = n + ChunkSize(plan, i) OBVIOUS
<1>10. Counted(plan, m, f) BY <1>3, <1>4, <1>6, <1>7, <1>8, <1>9 DEF Counted
<1> QED BY <1>5, <1>9, <1>10

\* The count says nothing behind the end of the source.
LEMMA CountPast ==
    ASSUME NEW plan, NEW c \in Nat, c = plan.count, NEW n, NEW e \in Nat, e > 4 + 5 * c
    PROVE  Counted(plan, n, e)
<1>1. ASSUME NEW i \in 0..(c - 1)  PROVE e \notin 4 + 5 * i..6 + 5 * i /\ e \notin 7 + 5 * i..8 + 5 * i
  <2>1. i <= c - 1 OBVIOUS
  <2> QED BY <2>1
<1> QED BY <1>1 DEF Counted

-----------------------------------------------------------------------------
(* The course of a response *)

\* A response whose delivery can be reasoned about.
Ready ==
    /\ resp \in ResponseRecord /\ Fitting(resp)
    /\ resp.body # <<>> /\ Unmodified => resp.body = ClientBody

\* The operations of a response that is ready are typed and in order, and its stream has a plan.
LEMMA ReadyOps ==
    ASSUME Ready
    PROVE  /\ Ops \in Seq(OpRecord) /\ Grammatical(Ops) /\ Ops = ResponseOps(resp) /\ resp \in ResponseRecord
           /\ resp.stream => /\ resp.target # "none" /\ resp.plan \in Plan /\ resp.plan.count \in Nat
                             /\ resp.plan.count <= resp.plan.bytes /\ (resp.plan.bytes > 0 => resp.plan.count > 0)
<1>1. resp \in ResponseRecord /\ Fitting(resp) BY DEF Ready
<1>2. Grammatical(ResponseOps(resp)) /\ Laid(ResponseOps(resp), resp) BY <1>1, Grammar, Layout
<1>3. resp.plan \in Plan BY <1>1 DEF ResponseRecord
<1> QED BY <1>1, <1>2, <1>3 DEF Ops, Laid, Fitting, Plan

\* The tokens of an operation that is not data hold bytes only where the body is.
LEMMA PutKind ==
    ASSUME NEW q \in Seq(OpRecord), Grammatical(q), NEW e \in DOMAIN q, NEW x \in OpRecord, x.op = "put", Begun(x, q[e])
    PROVE  IF q[e].op = "data"
           THEN Len(x.toks) = q[e].n /\ \A i \in DOMAIN x.toks : x.toks[i][1] = "byte"
           ELSE x = q[e] /\ x.toks # <<>> /\ \A i \in DOMAIN x.toks : x.toks[i][1] = KindOf(q[e])
<1>1. Orderly(q, e) BY DEF Grammatical
<1>2. CASE q[e].op = "data"
  <2>1. x # q[e] BY <1>2
  <2> QED BY <1>2, <2>1, PutBegun
<1>3. CASE q[e].op # "data"
  <2>1. x = q[e] BY <1>3, PutBegun
  <2> QED BY <1>1, <1>3, <2>1 DEF Orderly, KindOf
<1> QED BY <1>2, <1>3

\* Writing an operation keeps the account, and the last chunk is written when it is settled.
LEMMA PutStreamed ==
    ASSUME Ready, resp.stream, NEW e \in DOMAIN Ops, NEW x \in OpRecord, x.op = "put", Begun(x, Ops[e]),
           NEW T \in Seq(Token), NEW data, data = (IF Ops[e].op = "data" THEN Payload(x.toks) ELSE <<>>),
           Accounted(T, e, data)
    PROVE  Accounted(T \o x.toks, e + 1, <<>>) /\ (KindOf(Ops[e]) = "zero" => Declared(Payload(T)))
<1>1. PICK q : q = Ops OBVIOUS
<1>2. PICK c \in Nat : c = resp.plan.count BY ReadyOps
<1>3. /\ q \in Seq(OpRecord) /\ Grammatical(q) /\ q = ResponseOps(resp) /\ resp \in ResponseRecord
      /\ resp.target # "none" /\ resp.plan \in Plan /\ c <= resp.plan.bytes /\ (resp.plan.bytes > 0 => c > 0)
  BY <1>1, <1>2, ReadyOps
<1>4. /\ e \in Nat \ {0} /\ KindOf(q[e]) # "byte"
      /\ q[e].op = "data" => InChunk(c, e, 6)
      /\ KindOf(q[e]) = "data" => q[e].op = "data"
      /\ \A i \in 0..(c - 1) : (e = 6 + 5 * i => q[e].op = "data" /\ q[e].n = ChunkSize(resp.plan, i))
      /\ KindOf(q[e]) = "zero" => e > 4 + 5 * c
      /\ e = 4 + 5 * c => q[e].op = "verify"
  BY <1>1, <1>2, <1>3, StreamWhere
<1>5. PICK u \in Seq(Token) : u = x.toks BY DEF OpRecord
<1>6. PICK t, w : t = Payload(T) /\ w = Payload(T \o u) OBVIOUS
<1>7. t \in Seq(Int) /\ Payload(u) \in Seq(Int) /\ w = t \o Payload(u) /\ w \in Seq(Int)
  <2>1. T \o u \in Seq(Token) BY Joined
  <2> QED BY <1>6, <2>1, PayloadTyped, PayloadParts
<1>8. /\ Counted(resp.plan, Len(t), e)
      /\ e <= 4 + 5 * c => Drawn(t \o data)
  BY <1>2, <1>6 DEF Accounted, VerifyPlace
<1>9. KindOf(q[e]) = "zero" => Declared(t)
  <2>1. e > 4 + 5 * c => Declared(t) BY <1>2, <1>6 DEF Accounted, VerifyPlace
  <2> QED BY <1>4, <2>1
<1>10. CASE q[e].op = "data"
  <2>1. PICK i \in 0..(c - 1) : e = 6 + 5 * i BY <1>4, <1>10 DEF InChunk
  <2>2. Len(u) = ChunkSize(resp.plan, i) /\ \A k \in DOMAIN u : u[k][1] = "byte"
    <3>1. Len(x.toks) = q[e].n /\ \A k \in DOMAIN x.toks : x.toks[k][1] = "byte" BY <1>1, <1>3, <1>10, PutKind
    <3> QED BY <1>4, <1>5, <2>1, <3>1
  <2>3. Len(Payload(u)) = ChunkSize(resp.plan, i) BY <2>2, PayloadBytes
  <2>4. Len(w) = Len(t) + ChunkSize(resp.plan, i)
    <3>1. PICK v \in Seq(Int) : v = Payload(u) BY <1>7
    <3>2. Len(t \o v) = Len(t) + Len(v) BY <1>7, <3>1
    <3> QED BY <1>7, <2>3, <3>1, <3>2
  <2>5. PICK n : n = Len(t) OBVIOUS
  <2>6. Counted(resp.plan, n, 6 + 5 * i) BY <1>8, <2>1, <2>5
  <2>7. Counted(resp.plan, n + ChunkSize(resp.plan, i), (6 + 5 * i) + 1) BY <1>2, <1>3, <2>6, CountChunk
  <2>8. Counted(resp.plan, Len(w), e + 1) BY <2>1, <2>4, <2>5, <2>7
  <2>9. e <= 4 + 5 * c /\ ~(e + 1 > 4 + 5 * c) BY <2>1
  <2>10. Drawn(w \o <<>>)
    <3>1. Drawn(t \o data) /\ data = Payload(u) BY <1>1, <1>5, <1>8, <1>10, <2>9
    <3>2. w \o <<>> = w BY <1>7, ConcatEmptySeq
    <3> QED BY <1>7, <3>1, <3>2
  <2>11. Accounted(T \o u, e + 1, <<>>) BY <1>2, <1>6, <2>8, <2>9, <2>10 DEF Accounted, VerifyPlace
  <2> QED BY <1>1, <1>5, <1>6, <1>9, <2>11
<1>11. CASE q[e].op # "data"
  <2>1. x = q[e] /\ \A k \in DOMAIN u : u[k][1] = KindOf(q[e])
    <3>1. x = q[e] /\ \A k \in DOMAIN x.toks : x.toks[k][1] = KindOf(q[e]) BY <1>1, <1>3, <1>11, PutKind
    <3> QED BY <1>5, <3>1
  <2>2. Positions(u, "byte") = {} BY <1>4, <2>1 DEF Positions
  <2>3. w = t BY <1>6, <2>2, SamePayload
  <2>4. data = <<>> BY <1>1, <1>11
  <2>5. \A i \in 0..(c - 1) : e # 6 + 5 * i BY <1>4, <1>11
  <2>6. PICK n : n = Len(t) OBVIOUS
  <2>7. Counted(resp.plan, n, e) BY <1>8, <2>6
  <2>8. Counted(resp.plan, n, e + 1) BY <1>2, <1>3, <1>4, <2>5, <2>7, CountSame
  <2>9. e # 4 + 5 * c BY <1>4, <2>1
  <2>10. ASSUME e + 1 <= 4 + 5 * c  PROVE Drawn(w \o <<>>)
    <3>1. e <= 4 + 5 * c BY <1>4, <2>10
    <3> QED BY <1>8, <2>3, <2>4, <3>1
  <2>11. ASSUME e + 1 > 4 + 5 * c  PROVE Declared(w)
    <3>1. e > 4 + 5 * c BY <1>4, <2>9, <2>11
    <3>2. Declared(t) BY <1>2, <1>6, <3>1 DEF Accounted, VerifyPlace
    <3> QED BY <2>3, <3>2
  <2>12. Accounted(T \o u, e + 1, <<>>) BY <1>2, <1>6, <2>3, <2>6, <2>8, <2>10, <2>11 DEF Accounted, VerifyPlace
  <2> QED BY <1>1, <1>5, <1>6, <1>9, <2>12
<1> QED BY <1>10, <1>11

\* Writing the next operation of a body in memory keeps the account of its payload.
LEMMA PutPlain ==
    ASSUME Ready, resp.stream = FALSE, NEW e \in DOMAIN Ops, NEW x \in OpRecord, x.op = "put", Begun(x, Ops[e]),
           NEW T \in Seq(Token), NEW data, Accounted(T, e, data)
    PROVE  Accounted(T \o x.toks, e + 1, <<>>) /\ (KindOf(Ops[e]) = "zero" => Declared(Payload(T)))
<1>1. PICK q : q = Ops OBVIOUS
<1>2. q \in Seq(OpRecord) /\ Grammatical(q) /\ q = ResponseOps(resp) /\ resp \in ResponseRecord BY <1>1, ReadyOps
<1>3. PlainTabled(q, resp) BY <1>2, PlainWhere
<1>4. e \in Nat \ {0} BY <1>1, <1>2
<1>5. PICK u \in Seq(Token) : u = x.toks BY DEF OpRecord
<1>6. PICK t, w : t = Payload(T) /\ w = Payload(T \o u) OBVIOUS
<1>7. t \in Seq(Int) /\ Payload(u) \in Seq(Int) /\ w = t \o Payload(u) /\ w \in Seq(Int)
  <2>1. T \o u \in Seq(Token) BY Joined
  <2> QED BY <1>6, <2>1, PayloadTyped, PayloadParts
<1>8. (e <= 4 => t = <<>>) /\ (e > 4 /\ resp.body # <<>> /\ resp.target # "none" => t = resp.body)
  BY <1>6 DEF Accounted
<1>9. q[e].op # "data" /\ (KindOf(q[e]) \in {"byte", "zero"} => resp.target # "none" /\ resp.body # <<>>)
  BY <1>1, <1>3 DEF PlainTabled
<1>10. x = q[e] /\ u # <<>> /\ \A k \in DOMAIN u : u[k][1] = KindOf(q[e])
  <2>1. x = q[e] /\ x.toks # <<>> /\ \A k \in DOMAIN x.toks : x.toks[k][1] = KindOf(q[e]) BY <1>1, <1>2, <1>9, PutKind
  <2> QED BY <1>5, <2>1
<1>11. KindOf(q[e]) = "zero" => Declared(t)
  <2> SUFFICES ASSUME KindOf(q[e]) = "zero"  PROVE Declared(t) OBVIOUS
  <2>1. resp.target # "none" /\ resp.body # <<>> BY <1>9
  <2>2. e = 6 BY <1>1, <1>3, <2>1 DEF PlainTabled
  <2>3. t = resp.body BY <1>8, <2>1, <2>2
  <2> QED BY <2>1, <2>3 DEF Declared, Ready
<1>12. CASE resp.target # "none" /\ resp.body # <<>> /\ e = 4
  <2>1. x = Put(Bytes("byte", resp.body)) BY <1>1, <1>3, <1>10, <1>12 DEF PlainTabled
  <2>2. PICK kind, b : kind = "byte" /\ b = resp.body OBVIOUS
  <2>3. kind \in {"byte", "raw"} /\ b \in Seq(Int) /\ b # <<>> /\ x = Put(Bytes(kind, b))
    BY <1>2, <1>12, <2>1, <2>2 DEF ResponseRecord
  <2>4. Len(u) = Len(b) /\ \A i \in DOMAIN u : u[i][1] = kind /\ u[i][2] = b[i] BY <1>5, <2>3, BytesKind
  <2>5. Payload(u) = [i \in 1..Len(u) |-> u[i][2]] BY <2>2, <2>4, PayloadBytes
  <2>6. Payload(u) = b
    <3>1. DOMAIN u = 1..Len(u) /\ b = [i \in 1..Len(b) |-> b[i]] BY <2>3
    <3> QED BY <2>4, <2>5, <3>1
  <2>7. w = b
    <3>1. t = <<>> BY <1>8, <1>12
    <3>2. <<>> \o b = b BY <2>3, ConcatEmptySeq
    <3> QED BY <1>7, <2>6, <3>1, <3>2
  <2>8. Accounted(T \o u, e + 1, <<>>)
    <3>1. ~(e + 1 <= 4) BY <1>12
    <3> QED BY <1>6, <2>2, <2>7, <3>1 DEF Accounted
  <2> QED BY <1>1, <1>5, <1>6, <1>11, <2>8
<1>13. CASE ~(resp.target # "none" /\ resp.body # <<>> /\ e = 4)
  <2>1. KindOf(q[e]) # "byte" BY <1>1, <1>3, <1>9, <1>13 DEF PlainTabled
  <2>2. Positions(u, "byte") = {} BY <1>10, <2>1 DEF Positions
  <2>3. w = t BY <1>6, <2>2, SamePayload
  <2>4. ASSUME e + 1 <= 4  PROVE w = <<>>
    <3>1. e <= 4 BY <1>4, <2>4
    <3> QED BY <1>8, <2>3, <3>1
  <2>5. ASSUME e + 1 > 4, resp.body # <<>>, resp.target # "none"  PROVE w = resp.body
    <3>1. e > 4 BY <1>4, <1>13, <2>5
    <3> QED BY <1>8, <2>3, <2>5, <3>1
  <2>6. Accounted(T \o u, e + 1, <<>>) BY <1>6, <2>4, <2>5 DEF Accounted
  <2> QED BY <1>1, <1>5, <1>6, <1>11, <2>6
<1> QED BY <1>12, <1>13

\* Writing an operation stays on course.
LEMMA PutCourse ==
    ASSUME Ready, NEW e \in DOMAIN Ops, NEW x \in OpRecord, x.op = "put", Begun(x, Ops[e]),
           NEW T \in Seq(Token), NEW data, data = (IF Ops[e].op = "data" THEN Payload(x.toks) ELSE <<>>),
           Course(T, e, data)
    PROVE  Course(T \o x.toks, e + 1, <<>>)
<1>1. Ops \in Seq(OpRecord) /\ Grammatical(Ops) /\ resp \in ResponseRecord BY ReadyOps
<1>2. Fine(T, DebtAt(Ops, e)) /\ Passed(Ops, T, e) /\ Accounted(T, e, data) BY DEF Course
<1>3. Accounted(T \o x.toks, e + 1, <<>>) /\ (KindOf(Ops[e]) = "zero" => Declared(Payload(T)))
  <2>1. CASE resp.stream BY <1>2, <2>1, PutStreamed
  <2>2. CASE resp.stream = FALSE BY <1>2, <2>2, PutPlain
  <2> QED BY <1>1, <2>1, <2>2 DEF ResponseRecord
<1>4. Fine(T \o x.toks, DebtAt(Ops, e + 1)) /\ Passed(Ops, T \o x.toks, e + 1)
  <2>1. PICK q \in Seq(OpRecord) : q = Ops BY <1>1
  <2>2. Fine(T \o x.toks, DebtAt(q, e + 1)) /\ Passed(q, T \o x.toks, e + 1) BY <1>1, <1>2, <1>3, <2>1, PutFine
  <2> QED BY <2>1, <2>2
<1>5. Latest(Ops, T \o x.toks, e + 1)
  <2>1. PICK q \in Seq(OpRecord) : q = Ops BY <1>1
  <2>2. Latest(q, T \o x.toks, e + 1) BY <1>1, <2>1, PutLatest
  <2> QED BY <2>1, <2>2
<1> QED BY <1>3, <1>4, <1>5 DEF Course

\* A first part is a prefix.
LEMMA FirstPart ==
    ASSUME NEW a \in Seq(Int), NEW b \in Seq(Int)
    PROVE  IsPrefix(a, a \o b)
<1>0. a \o b \in Seq(Int) /\ Len(a) \in Nat OBVIOUS
<1>1. PICK n \in Nat, c \in Seq(Int) : n = Len(a) /\ c = a \o b BY <1>0
<1>2. Len(c) >= n /\ \A i \in 1..n : c[i] = a[i] BY <1>1
<1>3. SubSeq(a, 1, n) = SubSeq(c, 1, n)
  <2>1. SubSeq(a, 1, n) = [i \in 1..n |-> a[i]] /\ SubSeq(c, 1, n) = [i \in 1..n |-> c[i]]
    BY <1>1
  <2> QED BY <1>2, <2>1
<1> QED BY <1>1, <1>2, <1>3 DEF IsPrefix

\* The payload that was drawn so far is a part of the source that was not changed.
LEMMA DrawnPart ==
    ASSUME NEW d \in Seq(Int), PiecesBytes(src) \in Seq(Int), Drawn(d), edited = NoEdits
    PROVE  d \o PiecesBytes(src) = PiecesBytes(resp.pieces) /\ IsPrefix(d, PiecesBytes(resp.pieces))
<1>1. d \o PiecesBytes(src) = PiecesBytes(resp.pieces) BY DEF Drawn
<1> QED BY <1>1, FirstPart

\* Operations that write nothing stay on course.
LEMMA SkipCourse ==
    ASSUME Ready, NEW e \in DOMAIN Ops, Ops[e].op \in {"flush", "open", "wait", "release"},
           NEW T \in Seq(Token), Course(T, e, <<>>)
    PROVE  Course(T, e + 1, <<>>)
<1>1. PICK q : q = Ops OBVIOUS
<1>2. q \in Seq(OpRecord) /\ Grammatical(q) /\ q = ResponseOps(resp) /\ resp \in ResponseRecord BY <1>1, ReadyOps
<1>3. Fine(T, DebtAt(q, e)) /\ Passed(q, T, e) /\ Accounted(T, e, <<>>) BY <1>1 DEF Course
<1>4. KindOf(q[e]) \in {"flush", "open", "wait", "release"} BY <1>1 DEF KindOf
<1>5. e \in Nat \ {0} /\ e + 1 \in Nat /\ DebtAt(q, e) = -1 /\ DebtAt(q, e + 1) = -1
  <2>1. /\ e \in Nat \ {0} /\ e + 1 \in Nat /\ DebtAt(q, e) = Debt(q[e])
        /\ KindOf(q[e]) \notin {"size", "data", "byte"} => DebtAt(q, e + 1) = -1
        /\ KindOf(q[e]) \notin {"crlf", "data", "byte"} => Debt(q[e]) = -1
    BY <1>1, <1>2, NextDebt
  <2> QED BY <1>4, <2>1
<1>6. Fine(T, DebtAt(q, e + 1)) /\ Passed(q, T, e + 1)
  <2>1. e < e + 1 /\ KindOf(q[e]) # "head" BY <1>4, <1>5
  <2>2. \A k \in DOMAIN q : e <= k /\ k < e + 1 => KindOf(q[k]) # "zero"
    <3> SUFFICES ASSUME NEW k \in DOMAIN q, e <= k, k < e + 1  PROVE KindOf(q[k]) # "zero" OBVIOUS
    <3>1. k \in Nat BY <1>2
    <3>2. k = e BY <1>5, <3>1
    <3> QED BY <1>4, <3>2
  <2> QED BY <1>1, <1>2, <1>3, <1>5, <2>1, <2>2, SkipFine
<1>7. Accounted(T, e + 1, <<>>)
  <2>1. CASE resp.stream
    <3>1. PICK c \in Nat : c = resp.plan.count BY <2>1, ReadyOps
    <3>2. /\ resp.target # "none" /\ resp.plan \in Plan /\ c <= resp.plan.bytes /\ (resp.plan.bytes > 0 => c > 0)
      BY <2>1, <3>1, ReadyOps
    <3>3. /\ \A i \in 0..(c - 1) : (e = 6 + 5 * i => q[e].op = "data" /\ q[e].n = ChunkSize(resp.plan, i))
          /\ e = 4 + 5 * c => q[e].op = "verify"
      BY <1>1, <1>2, <2>1, <3>1, <3>2, StreamWhere
    <3>4. (\A i \in 0..(c - 1) : e # 6 + 5 * i) /\ e # 4 + 5 * c BY <1>1, <3>3
    <3>5. PICK n : n = Len(Payload(T)) OBVIOUS
    <3>6. Counted(resp.plan, n, e) BY <1>3, <2>1, <3>5 DEF Accounted
    <3>7. Counted(resp.plan, n, e + 1) BY <1>5, <3>1, <3>2, <3>4, <3>6, CountSame
    <3>8. (e + 1 <= 4 + 5 * c => e <= 4 + 5 * c) /\ (e + 1 > 4 + 5 * c => e > 4 + 5 * c) BY <1>5, <3>4
    <3> QED BY <1>3, <2>1, <3>1, <3>5, <3>7, <3>8 DEF Accounted, VerifyPlace
  <2>2. CASE resp.stream = FALSE
    <3>1. PlainTabled(q, resp) BY <1>2, <2>2, PlainWhere
    <3>2. resp.target # "none" /\ resp.body # <<>> => e # 4 BY <1>1, <1>4, <3>1 DEF PlainTabled
    <3>3. (e + 1 <= 4 => e <= 4) /\ (e + 1 > 4 /\ e # 4 => e > 4) BY <1>5
    <3> QED BY <1>3, <2>2, <3>2, <3>3 DEF Accounted
  <2> QED BY <1>2, <2>1, <2>2 DEF ResponseRecord
<1>8. Latest(q, T, e + 1)
  <2>1. Latest(q, T, e) BY <1>1 DEF Course
  <2>2. \A k \in DOMAIN q : e <= k /\ k < e + 1 => k = e BY <1>2, <1>5
  <2>3. e < e + 1 /\ \A k \in DOMAIN q : e <= k /\ k < e + 1 => KindOf(q[k]) \notin {"head", "msg", "zero"} BY <1>4, <1>5, <2>2
  <2> QED BY <1>2, <1>5, <2>1, <2>3, SkipLatest
<1> QED BY <1>1, <1>6, <1>7, <1>8 DEF Course

\* The rest of the stream is passed over once its payload may be ended.
LEMMA EndCourse ==
    ASSUME Ready, resp.stream, NEW e \in DOMAIN Ops, Ops[e].op \in {"wait", "verify"},
           NEW T \in Seq(Token), Course(T, e, <<>>), Declared(Payload(T))
    PROVE  Course(T, VerifyPlace + 1, <<>>)
<1>1. PICK q : q = Ops OBVIOUS
<1>2. PICK c \in Nat : c = resp.plan.count BY ReadyOps
<1>3. q \in Seq(OpRecord) /\ Grammatical(q) /\ q = ResponseOps(resp) /\ resp \in ResponseRecord /\ resp.target # "none"
  BY <1>1, ReadyOps
<1>4. Fine(T, DebtAt(q, e)) /\ Passed(q, T, e) BY <1>1 DEF Course
<1>5. PICK f \in Nat : f = 5 + 5 * c OBVIOUS
<1>6. VerifyPlace + 1 = f BY <1>2, <1>5 DEF VerifyPlace
<1>7. KindOf(q[e]) \in {"wait", "verify"} BY <1>1 DEF KindOf
<1>8. e \in Nat \ {0} /\ DebtAt(q, e) = -1
  <2>1. /\ e \in Nat \ {0} /\ DebtAt(q, e) = Debt(q[e]) /\ (KindOf(q[e]) \notin {"crlf", "data", "byte"} => Debt(q[e]) = -1)
    BY <1>1, <1>3, NextDebt
  <2> QED BY <1>7, <2>1
<1>9. e < f
  <2>1. (q[e].op = "wait" => InChunk(c, e, 4)) /\ (q[e].op = "verify" => e = 4 + 5 * c)
    BY <1>1, <1>2, <1>3, StreamWhere
  <2>2. CASE q[e].op = "wait"
    <3>1. PICK i \in 0..(c - 1) : e = 4 + 5 * i BY <2>1, <2>2 DEF InChunk
    <3> QED BY <1>5, <3>1
  <2>3. CASE q[e].op = "verify" BY <1>5, <2>1, <2>3
  <2> QED BY <1>1, <2>2, <2>3
<1>10. DebtAt(q, f) = -1
  <2>1. StreamTabled(q, resp, c) BY <1>2, <1>3, StreamTable
  <2>2. KindOf(q[f]) = "release" BY <1>5, <2>1 DEF StreamTabled
  <2>3. Debt(q[f]) = -1 BY <2>2 DEF Debt
  <2> QED BY <2>3 DEF DebtAt
<1>11. \A k \in DOMAIN q : e <= k /\ k < f => KindOf(q[k]) # "zero"
  <2> SUFFICES ASSUME NEW k \in DOMAIN q, e <= k, k < f  PROVE KindOf(q[k]) # "zero" OBVIOUS
  <2>1. k \in Nat /\ (KindOf(q[k]) = "zero" => k > 4 + 5 * c) BY <1>2, <1>3, StreamWhere
  <2> QED BY <1>5, <2>1
<1>12. Fine(T, DebtAt(q, f)) /\ Passed(q, T, f)
  <2>1. KindOf(q[e]) # "head" BY <1>7
  <2> QED BY <1>1, <1>3, <1>4, <1>8, <1>9, <1>10, <1>11, <2>1, SkipFine
<1>13. Accounted(T, f, <<>>)
  <2>1. f > 4 + 5 * c /\ ~(f <= 4 + 5 * c) BY <1>5
  <2>2. Counted(resp.plan, Len(Payload(T)), f) BY <1>2, <2>1, CountPast
  <2> QED BY <1>2, <2>1, <2>2 DEF Accounted, VerifyPlace
<1>14. Latest(q, T, f)
  <2>1. Latest(q, T, e) BY <1>1 DEF Course
  <2>2. (q[e].op = "wait" => InChunk(c, e, 4)) /\ (q[e].op = "verify" => e = 4 + 5 * c)
    BY <1>1, <1>2, <1>3, StreamWhere
  <2>3. e >= 4
    <3>1. CASE q[e].op = "wait"
      <4>1. PICK i \in 0..(c - 1) : e = 4 + 5 * i BY <2>2, <3>1 DEF InChunk
      <4> QED BY <4>1
    <3>2. CASE q[e].op = "verify" BY <2>2, <3>2
    <3> QED BY <1>1, <3>1, <3>2
  <2>4. ASSUME NEW k \in DOMAIN q, e <= k, k < f  PROVE KindOf(q[k]) \notin {"head", "msg", "zero"}
    <3>1. k \in Nat /\ (KindOf(q[k]) \in {"head", "msg"} => k < 4) BY <1>2, <1>3, StreamWhere
    <3>2. ~(k < 4) BY <1>8, <2>3, <2>4, <3>1
    <3> QED BY <1>11, <2>4, <3>1, <3>2
  <2> QED BY <1>3, <1>8, <1>9, <2>1, <2>4, SkipLatest
<1> QED BY <1>1, <1>6, <1>12, <1>13, <1>14 DEF Course

\* The end of the source was found where it must be.
LEMMA VerifiedDeclared ==
    ASSUME Ready, resp.stream, src \in Pieces, edited \in EditCounts,
           NEW e \in DOMAIN Ops, Ops[e].op = "verify", NEW T \in Seq(Token), Course(T, e, <<>>),
           resp.plan.bytes = resp.plan.source => PiecesBytes(src) = <<>>
    PROVE  Declared(Payload(T)) /\ e = VerifyPlace
<1>1. PICK q : q = Ops OBVIOUS
<1>2. PICK c \in Nat : c = resp.plan.count BY ReadyOps
<1>3. q \in Seq(OpRecord) /\ q = ResponseOps(resp) /\ resp \in ResponseRecord /\ resp.target # "none"
  BY <1>1, ReadyOps
<1>4. e = 4 + 5 * c BY <1>1, <1>2, <1>3, StreamWhere
<1>5. e = VerifyPlace BY <1>2, <1>4 DEF VerifyPlace
<1>6. PICK t : t = Payload(T) OBVIOUS
<1>7. t \in Seq(Int) /\ t \o <<>> = t BY <1>6, PayloadTyped, ConcatEmptySeq
<1>8. Len(t) = resp.plan.bytes /\ Drawn(t)
  <2>1. Counted(resp.plan, Len(t), e) /\ (e <= VerifyPlace => Drawn(t \o <<>>)) BY <1>6 DEF Course, Accounted
  <2>2. Len(t) = resp.plan.bytes BY <1>2, <1>4, <2>1 DEF Counted
  <2>3. e <= VerifyPlace BY <1>2, <1>4 DEF VerifyPlace
  <2> QED BY <1>7, <2>1, <2>2, <2>3
<1>9. PICK s \in Seq(Int), w \in Seq(Int) : s = PiecesBytes(src) /\ w = PiecesBytes(resp.pieces)
  <2>1. \A x \in PieceRecord : x.data \in Seq(Int) BY DEF PieceRecord
  <2>2. PICK a \in Seq(PieceRecord), b \in Seq(PieceRecord) : a = src /\ b = resp.pieces
    BY <1>3 DEF ResponseRecord, Pieces
  <2>3. PiecesBytes(a) \in Seq(Int) /\ PiecesBytes(b) \in Seq(Int) BY <2>1, DataTyped
  <2> QED BY <2>2, <2>3
<1>10. resp.plan.source = Len(w) /\ (resp.plan.mode = "complete" => resp.plan.bytes = resp.plan.source)
  BY <1>9 DEF Ready, Fitting
<1>11. edited = NoEdits => t \o s = w /\ IsPrefix(t, w) BY <1>7, <1>8, <1>9, DrawnPart
<1>12. CASE resp.plan.mode = "complete"
  <2>1. s = <<>> /\ Len(t) = Len(w) BY <1>8, <1>9, <1>10, <1>12
  <2>2. Len(s) = 0 BY <2>1
  <2>3. edited.truncate = edited.append
    <3>1. Len(t) + Len(s) + edited.truncate = Len(w) + edited.append BY <1>8, <1>9 DEF Drawn
    <3>2. PICK n \in Nat, x \in Nat, y \in Nat : n = Len(t) /\ x = edited.truncate /\ y = edited.append
      BY <1>7 DEF EditCounts
    <3>3. n + 0 + x = n + y BY <2>1, <2>2, <3>1, <3>2
    <3> QED BY <3>2, <3>3
  <2>4. ASSUME edited.overwrite = 0, edited.append = 0 \/ edited.truncate = 0  PROVE t = w
    <3>1. edited = NoEdits BY <2>3, <2>4 DEF EditCounts, NoEdits
    <3> QED BY <1>7, <1>11, <2>1, <3>1
  <2> QED BY <1>5, <1>6, <1>9, <1>12, <2>1, <2>4 DEF Declared
<1>13. CASE resp.plan.mode # "complete"
  <2>1. (edited = NoEdits => IsPrefix(t, w)) /\ (resp.plan.duration = 0 => Len(t) = resp.plan.bytes) BY <1>8, <1>11
  <2> QED BY <1>5, <1>6, <1>9, <1>13, <2>1 DEF Declared
<1> QED BY <1>12, <1>13

\* A partial stream whose time is over ends where it is.
LEMMA StoppedDeclared ==
    ASSUME Ready, resp.stream, src \in Pieces, edited \in EditCounts, Partial(resp.plan.mode), resp.plan.duration > 0,
           NEW e \in DOMAIN Ops, Ops[e].op = "wait", NEW T \in Seq(Token), Course(T, e, <<>>)
    PROVE  Declared(Payload(T))
<1>1. PICK q : q = Ops OBVIOUS
<1>2. PICK c \in Nat : c = resp.plan.count BY ReadyOps
<1>3. q \in Seq(OpRecord) /\ q = ResponseOps(resp) /\ resp \in ResponseRecord /\ resp.target # "none"
  BY <1>1, ReadyOps
<1>4. PICK i \in 0..(c - 1) : e = 4 + 5 * i
  <2>1. InChunk(c, e, 4) BY <1>1, <1>2, <1>3, StreamWhere
  <2> QED BY <2>1 DEF InChunk
<1>5. e <= VerifyPlace BY <1>2, <1>4 DEF VerifyPlace
<1>6. PICK t : t = Payload(T) OBVIOUS
<1>7. t \in Seq(Int) /\ t \o <<>> = t BY <1>6, PayloadTyped, ConcatEmptySeq
<1>8. Drawn(t) BY <1>5, <1>6, <1>7 DEF Course, Accounted
<1>9. PICK s \in Seq(Int) : s = PiecesBytes(src)
  <2>1. \A x \in PieceRecord : x.data \in Seq(Int) BY DEF PieceRecord
  <2>2. PICK a \in Seq(PieceRecord) : a = src BY DEF Pieces
  <2>3. PiecesBytes(a) \in Seq(Int) BY <2>1, DataTyped
  <2> QED BY <2>2, <2>3
<1>10. edited = NoEdits => IsPrefix(t, PiecesBytes(resp.pieces)) BY <1>7, <1>8, <1>9, DrawnPart
<1>11. resp.plan.mode # "complete" /\ resp.plan.duration # 0
  <2>1. resp.plan \in Plan BY <1>3 DEF ResponseRecord
  <2> QED BY <2>1 DEF Partial, Plan
<1> QED BY <1>6, <1>10, <1>11 DEF Declared

-----------------------------------------------------------------------------
(* The source *)

\* A sequence cut in two.
LEMMA CutInTwo ==
    ASSUME NEW S, NEW d \in Seq(S), NEW k \in 0..Len(d)
    PROVE  /\ SubSeq(d, 1, k) \in Seq(S) /\ Len(SubSeq(d, 1, k)) = k
           /\ SubSeq(d, k + 1, Len(d)) \in Seq(S) /\ Len(SubSeq(d, k + 1, Len(d))) = Len(d) - k
           /\ SubSeq(d, 1, k) \o SubSeq(d, k + 1, Len(d)) = d
<1>1. PICK l \in Nat : l = Len(d) OBVIOUS
<1>2. \A i \in 1..l : d[i] \in S BY <1>1
<1>3. SubSeq(d, 1, k) \in Seq(S) /\ Len(SubSeq(d, 1, k)) = k
  <2>1. \A i \in 1..k : d[i] \in S BY <1>1, <1>2
  <2>2. SubSeq(d, 1, k) \in Seq(S) /\ Len(SubSeq(d, 1, k)) = IF 1 <= k THEN k - 1 + 1 ELSE 0 BY <2>1, SubSeqProperties
  <2> QED BY <1>1, <2>2
<1>4. SubSeq(d, k + 1, l) \in Seq(S) /\ Len(SubSeq(d, k + 1, l)) = l - k
  <2>1. PICK j \in Int : j = k + 1 BY <1>1
  <2>2. \A i \in j..l : d[i] \in S BY <1>1, <1>2, <2>1
  <2>3. SubSeq(d, j, l) \in Seq(S) /\ Len(SubSeq(d, j, l)) = IF j <= l THEN l - j + 1 ELSE 0 BY <2>2, SubSeqProperties
  <2>4. (IF j <= l THEN l - j + 1 ELSE 0) = l - k BY <1>1, <2>1
  <2> QED BY <2>1, <2>3, <2>4
<1>5. SubSeq(d, 1, k) \o SubSeq(d, k + 1, l) = SubSeq(d, 1, l)
  <2>1. PICK m \in 1..(Len(d) + 1), n \in k..Len(d) : m = 1 /\ n = l BY <1>1
  <2>2. k \in m - 1..Len(d) BY <1>1, <2>1
  <2>3. SubSeq(d, m, k) \o SubSeq(d, k + 1, n) = SubSeq(d, m, n) BY <2>1, <2>2, ConcatAdjacentSubSeq
  <2> QED BY <2>1, <2>3
<1>6. SubSeq(d, 1, l) = d BY <1>1, SubSeqFull
<1> QED BY <1>1, <1>3, <1>4, <1>5, <1>6

\* Pieces after pieces.
LEMMA PiecesJoined ==
    ASSUME NEW a \in Seq(PieceRecord), NEW b \in Seq(PieceRecord)
    PROVE  /\ a \o b \in Seq(PieceRecord) /\ Len(a \o b) = Len(a) + Len(b) /\ Len(a) \in Nat /\ Len(b) \in Nat
           /\ \A i \in 1..Len(a) : (a \o b)[i] = a[i]
           /\ \A j \in 1..Len(b) : (a \o b)[Len(a) + j] = b[j]
OBVIOUS

\* One of several pieces.
LEMMA PieceAt ==
    ASSUME NEW s \in Seq(PieceRecord), NEW i \in DOMAIN s, NEW p \in PieceRecord
    PROVE  LET a == SubSeq(s, 1, i - 1)
               b == SubSeq(s, i + 1, Len(s))
           IN  /\ a \in Seq(PieceRecord) /\ Len(a) = i - 1 /\ b \in Seq(PieceRecord) /\ Len(b) = Len(s) - i
               /\ s = a \o (<<s[i]>> \o b) /\ [s EXCEPT ![i] = p] = a \o (<<p>> \o b)
<1>1. PICK l \in Nat : l = Len(s) /\ DOMAIN s = 1..l OBVIOUS
<1>2. PICK a, b : a = SubSeq(s, 1, i - 1) /\ b = SubSeq(s, i + 1, l) OBVIOUS
<1>3. PICK k \in 0..Len(s) : k = i - 1 /\ k + 1 = i BY <1>1
<1>4. /\ a \in Seq(PieceRecord) /\ Len(a) = k /\ SubSeq(s, i, l) \in Seq(PieceRecord)
      /\ a \o SubSeq(s, i, l) = s
  <2>1. /\ SubSeq(s, 1, k) \in Seq(PieceRecord) /\ Len(SubSeq(s, 1, k)) = k
        /\ SubSeq(s, k + 1, Len(s)) \in Seq(PieceRecord)
        /\ SubSeq(s, 1, k) \o SubSeq(s, k + 1, Len(s)) = s
    BY CutInTwo
  <2> QED BY <1>1, <1>2, <1>3, <2>1
<1>5. i \in 0..Len(s) BY <1>1
<1>6. b \in Seq(PieceRecord) /\ Len(b) = l - i
  <2>1. SubSeq(s, i + 1, Len(s)) \in Seq(PieceRecord) /\ Len(SubSeq(s, i + 1, Len(s))) = Len(s) - i BY <1>5, CutInTwo
  <2> QED BY <1>1, <1>2, <2>1
<1>7. SubSeq(s, i, l) = <<s[i]>> \o b
  <2>1. PICK n \in i..Len(s) : n = l BY <1>1
  <2>2. SubSeq(s, i, n) = <<s[i]>> \o SubSeq(s, i + 1, n) BY <1>1, <2>1, SubSeqRecursiveFirst
  <2> QED BY <1>2, <2>1, <2>2
<1>8. s = a \o (<<s[i]>> \o b) BY <1>4, <1>7
<1>9. [s EXCEPT ![i] = p] = a \o (<<p>> \o b)
  <2>1. PICK w : w = [s EXCEPT ![i] = p] OBVIOUS
  <2>2. w \in Seq(PieceRecord) /\ Len(w) = l /\ DOMAIN w = 1..l /\ w[i] = p /\ \A j \in 1..l : j # i => w[j] = s[j]
    <3>1. w \in [1..l -> PieceRecord] BY <1>1, <2>1
    <3>2. w \in Seq(PieceRecord) /\ Len(w) = l BY <3>1, IsSeq
    <3> QED BY <1>1, <2>1, <3>1, <3>2
  <2>3. PICK v : v = <<p>> \o b OBVIOUS
  <2>4. PICK o \in Seq(PieceRecord) : o = <<p>> /\ Len(o) = 1 /\ o[1] = p
    <3>1. <<p>> \in Seq(PieceRecord) /\ Len(<<p>>) = 1 /\ <<p>>[1] = p OBVIOUS
    <3> QED BY <3>1
  <2>5. /\ v \in Seq(PieceRecord) /\ Len(v) = 1 + (l - i) /\ v[1] = p
        /\ \A j \in 1..(l - i) : v[1 + j] = b[j]
    <3>1. /\ o \o b \in Seq(PieceRecord) /\ Len(o \o b) = Len(o) + Len(b)
          /\ (\A j \in 1..Len(o) : (o \o b)[j] = o[j]) /\ \A j \in 1..Len(b) : (o \o b)[Len(o) + j] = b[j]
      BY <1>6, PiecesJoined
    <3> QED BY <1>6, <2>3, <2>4, <3>1
  <2>6. /\ a \o v \in Seq(PieceRecord) /\ Len(a \o v) = k + Len(v)
        /\ (\A j \in 1..k : (a \o v)[j] = a[j]) /\ \A j \in 1..Len(v) : (a \o v)[k + j] = v[j]
    <3>1. /\ a \o v \in Seq(PieceRecord) /\ Len(a \o v) = Len(a) + Len(v)
          /\ (\A j \in 1..Len(a) : (a \o v)[j] = a[j]) /\ \A j \in 1..Len(v) : (a \o v)[Len(a) + j] = v[j]
      BY <1>4, <2>5, PiecesJoined
    <3> QED BY <1>4, <3>1
  <2>0. i \in 1..l /\ k = i - 1 BY <1>1, <1>3
  <2>7. Len(a \o v) = l
    <3>1. k + (1 + (l - i)) = l BY <2>0
    <3> QED BY <2>5, <2>6, <3>1
  <2>8. ASSUME NEW j \in 1..l  PROVE w[j] = (a \o v)[j]
    <3>1. CASE j < i
      <4>1. j \in 1..k /\ j # i BY <1>1, <1>3, <3>1
      <4>2. (a \o v)[j] = a[j] BY <2>6, <4>1
      <4>3. a[j] = s[j]
        <5>1. \A x \in 1..(k - 1 + 1) : SubSeq(s, 1, k)[x] = s[1 + x - 1]
          <6>1. \A x \in 1..k : s[x] \in PieceRecord BY <1>1, <1>3
          <6> QED BY <6>1, SubSeqProperties
        <5>2. j \in 1..(k - 1 + 1) /\ 1 + j - 1 = j BY <1>1, <1>3, <4>1
        <5> QED BY <1>2, <1>3, <5>1, <5>2
      <4> QED BY <2>2, <4>1, <4>2, <4>3
    <3>2. CASE j = i
      <4>1. 1 \in 1..Len(v) /\ j = k + 1 BY <1>1, <1>3, <2>5, <3>2
      <4> QED BY <2>2, <2>5, <2>6, <3>2, <4>1
    <3>3. CASE j > i
      <4>1. PICK x \in 1..(l - i) : j = i + x
        <5>1. j - i \in 1..(l - i) /\ j = i + (j - i) BY <1>1, <3>3
        <5> QED BY <5>1
      <4>2. 1 + x \in 1..Len(v) /\ j = k + (1 + x)
        <5>1. 1 + x \in 1..(1 + (l - i)) /\ j = k + (1 + x) BY <2>0, <4>1
        <5> QED BY <2>5, <5>1
      <4>3. (a \o v)[j] = b[x] BY <2>5, <2>6, <4>1, <4>2
      <4>4. b[x] = s[j]
        <5>1. PICK m \in Int : m = i + 1 BY <1>1
        <5>2. \A y \in 1..(l - m + 1) : SubSeq(s, m, l)[y] = s[m + y - 1]
          <6>1. \A y \in m..l : s[y] \in PieceRecord BY <1>1, <5>1
          <6>2. SubSeq(s, m, l) \in Seq(PieceRecord) /\ \A y \in 1..(l - m + 1) : SubSeq(s, m, l)[y] = s[m + y - 1]
            BY <6>1, SubSeqProperties
          <6> QED BY <6>2
        <5>3. x \in 1..(l - m + 1) /\ m + x - 1 = j BY <1>1, <4>1, <5>1
        <5> QED BY <1>2, <5>1, <5>2, <5>3
      <4> QED BY <2>2, <3>3, <4>3, <4>4
    <3>4. j < i \/ j = i \/ j > i BY <2>0
    <3> QED BY <3>1, <3>2, <3>3, <3>4
  <2>9. w = a \o v
    <3>1. Len(w) = Len(a \o v) /\ \A j \in 1..Len(w) : w[j] = (a \o v)[j] BY <2>2, <2>7, <2>8
    <3> QED BY <2>2, <2>6, <3>1, SeqEqual
  <2> QED BY <2>1, <2>3, <2>9
<1> QED BY <1>1, <1>2, <1>3, <1>4, <1>6, <1>8, <1>9

\* The bytes around one piece.
LEMMA BytesAround ==
    ASSUME NEW a \in Seq(PieceRecord), NEW p \in PieceRecord, NEW b \in Seq(PieceRecord)
    PROVE  /\ PiecesBytes(a) \in Seq(Int) /\ PiecesBytes(b) \in Seq(Int) /\ p.data \in Seq(Int)
           /\ <<p>> \o b \in Seq(PieceRecord) /\ PiecesBytes(<<p>> \o b) = p.data \o PiecesBytes(b)
           /\ PiecesBytes(a \o (<<p>> \o b)) = PiecesBytes(a) \o (p.data \o PiecesBytes(b))
<1>1. \A x \in PieceRecord : x.data \in Seq(Int) BY DEF PieceRecord
<1>2. PiecesBytes(a) \in Seq(Int) /\ PiecesBytes(b) \in Seq(Int) BY <1>1, DataTyped
<1>3. PICK o \in Seq(PieceRecord) : o = <<p>>
  <2>1. <<p>> \in Seq(PieceRecord) OBVIOUS
  <2> QED BY <2>1
<1>4. PiecesBytes(o) = p.data BY <1>1, <1>3, DataOne
<1>5. o \o b \in Seq(PieceRecord) /\ PiecesBytes(o \o b) = PiecesBytes(o) \o PiecesBytes(b) BY <1>1, DataParts
<1>6. PICK v \in Seq(PieceRecord) : v = o \o b BY <1>5
<1>7. PiecesBytes(a \o v) = PiecesBytes(a) \o PiecesBytes(v) BY <1>1, DataParts
<1> QED BY <1>1, <1>2, <1>3, <1>4, <1>5, <1>6, <1>7

\* Joining bytes is associative.
LEMMA Regrouped ==
    ASSUME NEW a \in Seq(Int), NEW b \in Seq(Int), NEW c \in Seq(Int)
    PROVE  (a \o b) \o c = a \o (b \o c)
BY ConcatAssociative

\* Where reading on begins: in the first piece that is not behind.
LEMMA RemainsAt ==
    ASSUME src \in Pieces, src # <<>>, NEW n \in Nat
    PROVE  \E at \in DOMAIN src, b \in Nat, p \in PieceRecord :
               /\ b = Len(PiecesBytes(SubSeq(src, 1, at - 1))) /\ b <= n
               /\ at = Len(src) \/ Len(PiecesBytes(SubSeq(src, 1, (at + 1) - 1))) >= n
               /\ p.data = SubSeq(src[at].data, n - b + 1, Len(src[at].data))
               /\ Remaining(n) = <<p>> \o SubSeq(src, at + 1, Len(src))
<1> DEFINE before(i) == Len(PiecesBytes(SubSeq(src, 1, i - 1)))
           Far(i) == i = Len(src) \/ before(i + 1) >= n
           S == {i \in 1..Len(src) : Far(i)}
           at == CHOOSE i \in DOMAIN src : Far(i) /\ \A j \in 1..i - 1 : before(j + 1) < n
<1>1. Len(src) \in Nat \ {0} /\ DOMAIN src = 1..Len(src) /\ \A i \in 1..Len(src) : src[i] \in PieceRecord
  BY DEF Pieces
<1>2. ASSUME NEW i \in 1..(Len(src) + 1)  PROVE before(i) \in Nat /\ (i = 1 => before(i) = 0)
  <2>1. SubSeq(src, 1, i - 1) \in Pieces /\ (i = 1 => SubSeq(src, 1, i - 1) = <<>>) BY <1>1 DEF Pieces
  <2>2. PiecesBytes(SubSeq(src, 1, i - 1)) \in Seq(Int) /\ (i = 1 => PiecesBytes(SubSeq(src, 1, i - 1)) = <<>>)
    BY <2>1, BytesOf
  <2> QED BY <2>2
<1> HIDE DEF before
<1>3. at \in DOMAIN src /\ Far(at) /\ \A j \in 1..at - 1 : before(j + 1) < n
  <2>1. S \in SUBSET Nat /\ S # {} BY <1>1
  <2>2. Min(S) \in S /\ \A k \in S : Min(S) <= k BY <2>1, Least
  <2>3. PICK i \in 1..Len(src) : Far(i) /\ \A k \in S : i <= k BY <2>2
  <2>4. ASSUME NEW j \in 1..(i - 1)  PROVE before(j + 1) < n
    <3>0. Len(src) \in Nat /\ i \in 1..Len(src) /\ j \in 1..(i - 1) BY <1>1
    <3>1. j \in 1..Len(src) /\ j + 1 \in 1..(Len(src) + 1) /\ j < i /\ j # Len(src)
      <4> HIDE DEF Far, S
      <4> QED BY <3>0
    <3>2. j \notin S BY <2>3, <3>1
    <3>3. ~(before(j + 1) >= n) BY <3>1, <3>2
    <3> QED BY <1>2, <3>1, <3>3
  <2> HIDE DEF Far
  <2> QED BY <1>1, <2>3, <2>4
<1> HIDE DEF at
<1>4. before(at) \in Nat /\ before(at) <= n
  <2>1. CASE at = 1
    <3>1. before(at) = 0 BY <1>1, <1>2, <1>3, <2>1
    <3> QED BY <3>1
  <2>2. CASE at # 1
    <3>1. at - 1 \in 1..(at - 1) /\ (at - 1) + 1 = at /\ at \in 1..(Len(src) + 1) BY <1>1, <1>3, <2>2
    <3>2. before(at) < n BY <1>3, <3>1
    <3> QED BY <1>2, <3>1, <3>2
  <2> QED BY <2>1, <2>2
<1> DEFINE first == [src[at] EXCEPT !.data = SubSeq(@, n - before(at) + 1, Len(@))]
           rest == [i \in 1..Len(src) - at + 1 |-> IF i = 1 THEN first ELSE src[i + at - 1]]
<1>5. Remaining(n) = rest BY Zenon DEF Remaining, at, before
<1>6. first \in PieceRecord /\ first.data = SubSeq(src[at].data, n - before(at) + 1, Len(src[at].data))
  <2>1. PICK k \in Nat \ {0} : k = n - before(at) + 1 BY <1>4
  <2>2. src[at] \in PieceRecord /\ src[at].data \in Seq(Int) BY <1>1, <1>3 DEF PieceRecord
  <2>3. ASSUME NEW d \in Seq(Int)  PROVE SubSeq(d, k, Len(d)) \in Seq(Int) BY <2>1
  <2>4. first = [src[at] EXCEPT !.data = SubSeq(src[at].data, k, Len(src[at].data))] BY <2>1, <2>2
  <2>5. ASSUME NEW p \in PieceRecord, NEW d \in Seq(Int)  PROVE [p EXCEPT !.data = d] \in PieceRecord /\ [p EXCEPT !.data = d].data = d
    BY DEF PieceRecord
  <2> QED BY <2>1, <2>2, <2>3, <2>4, <2>5
<1> HIDE DEF first
<1>7. PICK l \in Nat, a \in Nat, p \in PieceRecord : l = Len(src) /\ a \in 1..l /\ a = at /\ p = first
  <2>1. at \in 1..Len(src) /\ at \in Nat BY <1>1, <1>3
  <2> QED BY <1>1, <1>6, <2>1
<1>8. rest = <<p>> \o SubSeq(src, a + 1, l)
  <2>1. PICK s \in Seq(PieceRecord) : s = src BY DEF Pieces
  <2>2. PICK b : b = SubSeq(s, a + 1, l) OBVIOUS
  <2>3. PICK m \in Int : m = a + 1 OBVIOUS
  <2>4. b \in Seq(PieceRecord) /\ Len(b) = l - a /\ \A y \in 1..(l - a) : b[y] = s[a + y]
    <3>1. \A y \in m..l : s[y] \in PieceRecord BY <1>7, <2>1, <2>3
    <3>2. /\ SubSeq(s, m, l) \in Seq(PieceRecord) /\ Len(SubSeq(s, m, l)) = IF m <= l THEN l - m + 1 ELSE 0
          /\ \A y \in 1..(l - m + 1) : SubSeq(s, m, l)[y] = s[m + y - 1]
      BY <3>1, SubSeqProperties
    <3>3. (IF m <= l THEN l - m + 1 ELSE 0) = l - a /\ l - m + 1 = l - a BY <1>7, <2>3
    <3>4. \A y \in 1..(l - a) : m + y - 1 = a + y BY <2>3
    <3> QED BY <2>2, <2>3, <3>2, <3>3, <3>4
  <2>5. PICK o \in Seq(PieceRecord) : o = <<p>> /\ Len(o) = 1 /\ o[1] = p
    <3>1. <<p>> \in Seq(PieceRecord) /\ Len(<<p>>) = 1 /\ <<p>>[1] = p OBVIOUS
    <3> QED BY <3>1
  <2>6. PICK v : v = o \o b OBVIOUS
  <2>7. /\ v \in Seq(PieceRecord) /\ Len(v) = Len(o) + Len(b) /\ (\A i \in 1..Len(o) : v[i] = o[i])
        /\ \A j \in 1..Len(b) : v[Len(o) + j] = b[j]
    BY <2>4, <2>5, <2>6, PiecesJoined
  <2>8. Len(v) = l - a + 1 /\ v[1] = p /\ \A j \in 1..(l - a) : v[1 + j] = s[a + j]
    <3>1. PICK d \in Nat : d = l - a /\ 1 + d = l - a + 1
      <4>1. l - a \in Nat /\ 1 + (l - a) = l - a + 1 BY <1>7
      <4> QED BY <4>1
    <3>2. Len(b) = d /\ \A y \in 1..d : b[y] = s[a + y] BY <2>4, <3>1
    <3>3. Len(v) = 1 + d /\ v[1] = o[1] /\ \A j \in 1..d : v[1 + j] = b[j] BY <2>5, <2>7, <3>2
    <3> QED BY <2>5, <3>1, <3>2, <3>3
  <2>9. rest = [i \in 1..(l - a + 1) |-> IF i = 1 THEN p ELSE s[i + a - 1]] BY <1>7, <2>1
  <2>10. v = [i \in 1..(l - a + 1) |-> v[i]] BY <2>7, <2>8
  <2>11. ASSUME NEW i \in 1..(l - a + 1)  PROVE v[i] = IF i = 1 THEN p ELSE s[i + a - 1]
    <3>1. CASE i = 1 BY <2>8, <3>1
    <3>2. CASE i # 1
      <4>1. PICK j \in 1..(l - a) : i = 1 + j /\ i + a - 1 = a + j
        <5>1. i - 1 \in 1..(l - a) /\ i = 1 + (i - 1) /\ i + a - 1 = a + (i - 1) BY <3>2
        <5> QED BY <5>1
      <4> QED BY <2>8, <3>2, <4>1
    <3> QED BY <3>1, <3>2
  <2>12. rest = v BY <2>9, <2>10, <2>11
  <2> QED BY <2>1, <2>2, <2>5, <2>6, <2>12
<1>9. /\ a \in DOMAIN src /\ before(a) \in Nat /\ before(a) <= n
      /\ a = Len(src) \/ before(a + 1) >= n
      /\ p.data = SubSeq(src[a].data, n - before(a) + 1, Len(src[a].data))
      /\ Remaining(n) = <<p>> \o SubSeq(src, a + 1, Len(src))
  BY <1>1, <1>3, <1>4, <1>5, <1>6, <1>7, <1>8
<1> USE DEF before
<1> QED BY <1>9

\* Reading n bytes that are there divides the source.
LEMMA Resumed ==
    ASSUME src \in Pieces, src # <<>>, NEW n \in Nat, n <= Len(PiecesBytes(src))
    PROVE  SubSeq(PiecesBytes(src), 1, n) \o PiecesBytes(Remaining(n)) = PiecesBytes(src)
<1>1. PICK s \in Seq(PieceRecord) : s = src BY DEF Pieces
<1>2. PICK at \in DOMAIN s, b \in Nat, p \in PieceRecord :
          /\ b = Len(PiecesBytes(SubSeq(s, 1, at - 1))) /\ b <= n
          /\ at = Len(s) \/ Len(PiecesBytes(SubSeq(s, 1, (at + 1) - 1))) >= n
          /\ p.data = SubSeq(s[at].data, n - b + 1, Len(s[at].data))
          /\ Remaining(n) = <<p>> \o SubSeq(s, at + 1, Len(s))
  BY <1>1, RemainsAt
<1>3. PICK f, h, g : f = SubSeq(s, 1, at - 1) /\ h = s[at] /\ g = SubSeq(s, at + 1, Len(s)) OBVIOUS
<1>4. /\ f \in Seq(PieceRecord) /\ Len(f) = at - 1 /\ g \in Seq(PieceRecord) /\ Len(g) = Len(s) - at
      /\ h \in PieceRecord /\ s = f \o (<<h>> \o g)
  <2>1. s[at] \in PieceRecord BY <1>2
  <2>2. LET a == SubSeq(s, 1, at - 1)
            c == SubSeq(s, at + 1, Len(s))
        IN  /\ a \in Seq(PieceRecord) /\ Len(a) = at - 1 /\ c \in Seq(PieceRecord) /\ Len(c) = Len(s) - at
            /\ s = a \o (<<s[at]>> \o c)
    BY <2>1, PieceAt
  <2> QED BY <1>3, <2>1, <2>2
<1>5. PICK B, D, R : B = PiecesBytes(f) /\ D = h.data /\ R = PiecesBytes(g) OBVIOUS
<1>6. B \in Seq(Int) /\ D \in Seq(Int) /\ R \in Seq(Int) /\ PiecesBytes(s) = B \o (D \o R)
  BY <1>4, <1>5, BytesAround
<1>7. PiecesBytes(Remaining(n)) = p.data \o R
  <2>1. PiecesBytes(<<p>> \o g) = p.data \o PiecesBytes(g) BY <1>4, BytesAround
  <2> QED BY <1>2, <1>3, <1>5, <2>1
<1>8. PICK k \in Nat, d \in Nat : k = n - b /\ d = Len(D) /\ b = Len(B)
  <2>1. n - b \in Nat BY <1>2
  <2>2. Len(D) \in Nat /\ b = Len(B) BY <1>2, <1>3, <1>5, <1>6
  <2> QED BY <2>1, <2>2
<1>9. k <= d
  <2>1. CASE at = Len(s)
    <3>1. g = <<>>
      <4>1. Len(g) = 0 BY <1>4, <2>1
      <4> QED BY <1>4, <4>1
    <3>2. R = <<>>
      <4>1. \A x \in PieceRecord : x.data \in Seq(Int) BY DEF PieceRecord
      <4> QED BY <1>4, <1>5, <3>1, <4>1, DataTyped
    <3>3. D \o R = D BY <1>6, <3>2, ConcatEmptySeq
    <3>4. Len(B \o D) = Len(B) + Len(D) BY <1>6
    <3>5. n <= b + d BY <1>1, <1>6, <1>8, <3>3, <3>4
    <3> QED BY <1>8, <3>5
  <2>2. CASE Len(PiecesBytes(SubSeq(s, 1, (at + 1) - 1))) >= n
    <3>1. SubSeq(s, 1, at) = f \o <<h>>
      <4>1. PICK m \in 1..Len(s), j \in Nat : m = 1 /\ j = at /\ j \in m..Len(s)
        <5>1. 1 \in 1..Len(s) /\ at \in 1..Len(s) /\ at \in Nat BY <1>2
        <5> QED BY <5>1
      <4>2. SubSeq(s, m, j) = SubSeq(s, m, j - 1) \o <<s[j]>> BY <4>1, SubSeqRecursiveSecond
      <4> QED BY <1>3, <4>1, <4>2
    <3>2. PiecesBytes(f \o <<h>>) = B \o D
      <4>1. \A x \in PieceRecord : x.data \in Seq(Int) BY DEF PieceRecord
      <4>2. PICK o \in Seq(PieceRecord) : o = <<h>>
        <5>1. <<h>> \in Seq(PieceRecord) BY <1>4
        <5> QED BY <5>1
      <4>3. PiecesBytes(o) = D BY <1>4, <1>5, <4>1, <4>2, DataOne
      <4>4. PiecesBytes(f \o o) = PiecesBytes(f) \o PiecesBytes(o) BY <1>4, <4>1, DataParts
      <4> QED BY <1>5, <4>2, <4>3, <4>4
    <3>3. Len(B \o D) = Len(B) + Len(D) BY <1>6
    <3>4. (at + 1) - 1 = at BY <1>2
    <3>5. b + d >= n BY <1>8, <2>2, <3>1, <3>2, <3>3, <3>4
    <3> QED BY <1>8, <3>5
  <2> QED BY <1>2, <2>1, <2>2
<1>10. PICK u, v : u = SubSeq(D, 1, k) /\ v = SubSeq(D, k + 1, Len(D)) OBVIOUS
<1>11. u \in Seq(Int) /\ v \in Seq(Int) /\ Len(u) = k /\ u \o v = D
  <2>1. k \in 0..Len(D) BY <1>8, <1>9
  <2> QED BY <1>6, <1>10, <2>1, CutInTwo
<1>12. p.data = v BY <1>2, <1>3, <1>5, <1>8, <1>10
<1>13. PiecesBytes(s) = (B \o u) \o (v \o R)
  <2>1. PICK B1 \in Seq(Int), u1 \in Seq(Int), v1 \in Seq(Int), R1 \in Seq(Int) : B1 = B /\ u1 = u /\ v1 = v /\ R1 = R
    BY <1>6, <1>11
  <2>2. (u1 \o v1) \o R1 = u1 \o (v1 \o R1) BY Regrouped
  <2>3. PICK w \in Seq(Int) : w = v1 \o R1
    <3>1. v1 \o R1 \in Seq(Int) BY ConcatProperties
    <3> QED BY <3>1
  <2>4. (B1 \o u1) \o w = B1 \o (u1 \o w) BY Regrouped
  <2> QED BY <1>6, <1>11, <2>1, <2>2, <2>3, <2>4
<1>14. PICK x \in Seq(Int), y \in Seq(Int) : x = B \o u /\ y = v \o R
  <2>1. B \o u \in Seq(Int) /\ v \o R \in Seq(Int) BY <1>6, <1>11, ConcatProperties
  <2> QED BY <2>1
<1>15. Len(x) = n
  <2>1. Len(B \o u) = Len(B) + Len(u) BY <1>6, <1>11, ConcatProperties
  <2>2. b + k = n BY <1>2, <1>8
  <2> QED BY <1>8, <1>11, <1>14, <2>1, <2>2
<1>16. SubSeq(x \o y, 1, n) = x
  <2>1. IsPrefix(x, x \o y) BY FirstPart
  <2>2. SubSeq(x, 1, Len(x)) = SubSeq(x \o y, 1, Len(x)) BY <2>1 DEF IsPrefix
  <2>3. SubSeq(x, 1, Len(x)) = x BY SubSeqFull
  <2> QED BY <1>15, <2>2, <2>3
<1> QED BY <1>1, <1>7, <1>12, <1>13, <1>14, <1>16

\* What a change of a piece does to the length of what is left of the source.
LEMMA SourceChanged ==
    ASSUME src \in Pieces, NEW i \in DOMAIN src, NEW E \in Seq(Int), src' = [src EXCEPT ![i].data = E]
    PROVE  Len(PiecesBytes(src')) + Len(src[i].data) = Len(PiecesBytes(src)) + Len(E)
<1>1. PICK s \in Seq(PieceRecord) : s = src BY DEF Pieces
<1>2. PICK h \in PieceRecord : h = s[i] BY <1>1
<1>3. PICK D \in Seq(Int) : D = h.data BY DEF PieceRecord
<1>4. src' = [s EXCEPT ![i] = [h EXCEPT !.data = E]] BY <1>1, <1>2
<1>5. PICK p \in PieceRecord : p = [h EXCEPT !.data = E] /\ p.data = E
  <2>1. [h EXCEPT !.data = E] \in PieceRecord /\ [h EXCEPT !.data = E].data = E BY DEF PieceRecord
  <2> QED BY <2>1
<1>6. PICK a, b : a = SubSeq(s, 1, i - 1) /\ b = SubSeq(s, i + 1, Len(s)) OBVIOUS
<1>7. /\ a \in Seq(PieceRecord) /\ b \in Seq(PieceRecord) /\ s = a \o (<<h>> \o b) /\ [s EXCEPT ![i] = p] = a \o (<<p>> \o b)
  <2>1. i \in DOMAIN s BY <1>1
  <2>2. LET e == SubSeq(s, 1, i - 1)
            c == SubSeq(s, i + 1, Len(s))
        IN  /\ e \in Seq(PieceRecord) /\ c \in Seq(PieceRecord)
            /\ s = e \o (<<s[i]>> \o c) /\ [s EXCEPT ![i] = p] = e \o (<<p>> \o c)
    BY <2>1, PieceAt
  <2> QED BY <1>2, <1>6, <2>2
<1>8. PICK A, B : A = PiecesBytes(a) /\ B = PiecesBytes(b) OBVIOUS
<1>9. A \in Seq(Int) /\ B \in Seq(Int) /\ PiecesBytes(s) = A \o (D \o B) BY <1>3, <1>7, <1>8, BytesAround
<1>10. PiecesBytes(a \o (<<p>> \o b)) = A \o (E \o B)
  <2>0. PICK a1 \in Seq(PieceRecord), b1 \in Seq(PieceRecord) : a1 = a /\ b1 = b BY <1>7
  <2>3. PiecesBytes(a1 \o (<<p>> \o b1)) = PiecesBytes(a1) \o (p.data \o PiecesBytes(b1)) BY BytesAround
  <2>1. PiecesBytes(a \o (<<p>> \o b)) = PiecesBytes(a) \o (p.data \o PiecesBytes(b)) BY <2>0, <2>3
  <2> QED BY <1>5, <1>8, <2>1
<1>11. /\ Len(A \o (D \o B)) = Len(A) + (Len(D) + Len(B)) /\ Len(A \o (E \o B)) = Len(A) + (Len(E) + Len(B))
  <2>1. D \o B \in Seq(Int) /\ E \o B \in Seq(Int) /\ Len(D \o B) = Len(D) + Len(B) /\ Len(E \o B) = Len(E) + Len(B)
    BY <1>9
  <2> QED BY <1>9, <2>1, ConcatProperties
<1>12. PICK w \in Nat, x \in Nat, y \in Nat, z \in Nat : w = Len(A) /\ x = Len(B) /\ y = Len(D) /\ z = Len(E)
  <2>1. Len(A) \in Nat /\ Len(B) \in Nat /\ Len(D) \in Nat /\ Len(E) \in Nat BY <1>9
  <2> QED BY <2>1
<1>13. (w + (z + x)) + y = (w + (y + x)) + z BY <1>12
<1>14. src' = a \o (<<p>> \o b) BY <1>4, <1>5, <1>7
<1>15. src[i].data = D BY <1>1, <1>2, <1>3
<1> QED BY <1>1, <1>9, <1>10, <1>11, <1>12, <1>13, <1>14, <1>15

-----------------------------------------------------------------------------
(* What changes and what stays *)

\* Changes of files are counted and never forgotten.
Growing ==
    /\ edited' = NoEdits => edited = NoEdits
    /\ \A kind \in {"append", "truncate", "overwrite"} : edited'[kind] = 0 => edited[kind] = 0

LEMMA Grows ==
    ASSUME edited' = edited \/ (edited \in EditCounts /\ src \in Pieces /\ FileChanges)
    PROVE  Growing /\ (edited \in EditCounts => edited' \in EditCounts)
<1>1. CASE edited' = edited BY <1>1 DEF Growing
<1>2. CASE edited \in EditCounts /\ src \in Pieces /\ FileChanges
  <2>1. \/ edited' = [edited EXCEPT !.append = @ + 1] \/ edited' = [edited EXCEPT !.truncate = @ + 1]
        \/ edited' = [edited EXCEPT !.overwrite = @ + 1]
    BY <1>2, Edits
  <2> QED BY <1>2, <2>1 DEF Growing, EditCounts, NoEdits
<1> QED BY <1>1, <1>2

\* What a body must hold does not change while the response stands, except that files that
\* changed excuse it.
LEMMA DeclaredKept ==
    ASSUME resp' = resp, req' = req, tmpl' = tmpl, Growing, NEW d, Declared(d)
    PROVE  Declared(d)'
<1>1. Unmodified' = Unmodified /\ ClientBody' = ClientBody
  BY DEF Unmodified, ClientEnded, ClientBody, OnTheWire, Parsed
<1>2. resp.stream => Declared(d)' BY DEF Declared, Growing
<1> QED BY <1>1, <1>2 DEF Declared

\* What is fine or sound stays so while the response stands.
LEMMA FineKept ==
    ASSUME resp' = resp, req' = req, tmpl' = tmpl, Growing, NEW T, NEW m
    PROVE  (Fine(T, m) => Fine(T, m)') /\ (Sound(T) => Sound(T)')
<1>1. PICK d : d = Payload(T) OBVIOUS
<1>2. Declared(d) => Declared(d)' BY DeclaredKept
<1>3. Fine(T, m) => Fine(T, m)'
  <2>1. Declared(Payload(T)) => Declared(Payload(T))' BY <1>1, <1>2
  <2>2. /\ Framed(T, m)' = Framed(T, m) /\ LastZero(T)' = LastZero(T)
        /\ AtMostOnce(T, "head")' = AtMostOnce(T, "head") /\ AtMostOnce(T, "continue")' = AtMostOnce(T, "continue")
        /\ Positions(T, "zero")' = Positions(T, "zero")
    OBVIOUS
  <2> QED BY <2>1, <2>2 DEF Fine
<1>4. Sound(T) => Sound(T)'
  <2>1. Declared(Payload(T)) => Declared(Payload(T))' BY <1>1, <1>2
  <2> QED BY <2>1 DEF Sound
<1> QED BY <1>3, <1>4

\* What was drawn and what is left does not change while the source stands.
LEMMA DrawnKept ==
    ASSUME resp' = resp, src' = src, edited' = edited, NEW d, Drawn(d)
    PROVE  Drawn(d)'
BY DEF Drawn

\* The course of a response whose source is the same, or was read on.
LEMMA CourseOn ==
    ASSUME resp' = resp, req' = req, tmpl' = tmpl, Growing, NEW T, NEW e, NEW data, NEW more,
           Course(T, e, data),
           resp.stream /\ e <= VerifyPlace /\ Drawn(Payload(T) \o data) => Drawn(Payload(T) \o more)'
    PROVE  Course(T, e, more)'
<1>1. Ops' = Ops /\ VerifyPlace' = VerifyPlace BY DEF Ops, VerifyPlace
<1>2. Fine(T, DebtAt(Ops, e))'
  <2>1. PICK m : m = DebtAt(Ops, e) OBVIOUS
  <2>2. DebtAt(Ops, e)' = m BY <1>1, <2>1 DEF DebtAt
  <2>3. Fine(T, m) BY <2>1 DEF Course
  <2>4. Fine(T, m)' BY <2>3, FineKept
  <2> QED BY <2>2, <2>4
<1>3. Passed(Ops, T, e)' /\ Latest(Ops, T, e)' BY <1>1 DEF Course, Passed, Latest
<1>4. Accounted(T, e, more)'
  <2>1. Accounted(T, e, data) BY DEF Course
  <2>2. resp.stream /\ e > VerifyPlace => Declared(Payload(T))'
    <3>1. PICK d : d = Payload(T) OBVIOUS
    <3>2. Declared(d) => Declared(d)' BY DeclaredKept
    <3> QED BY <2>1, <3>1, <3>2 DEF Accounted
  <2>3. resp.stream /\ e <= VerifyPlace => Drawn(Payload(T) \o more)' BY <2>1 DEF Accounted
  <2> QED BY <1>1, <2>1, <2>2, <2>3 DEF Accounted
<1> QED BY <1>2, <1>3, <1>4 DEF Course

\* A response stays on course while it and its source stand.
LEMMA CourseKept ==
    ASSUME resp' = resp, req' = req, tmpl' = tmpl, edited' = edited, src' = src, NEW T, NEW e, NEW data, Course(T, e, data)
    PROVE  Course(T, e, data)'
<1>1. PICK d : d = Payload(T) \o data OBVIOUS
<1>2. Drawn(d) => Drawn(d)' BY DrawnKept
<1>3. Drawn(Payload(T) \o data) => Drawn(Payload(T) \o data)' BY <1>1, <1>2
<1>4. Growing BY Grows
<1> QED BY <1>3, <1>4, CourseOn

\* A file that changes while it is delivered: the counts say how the length of the source changes.
LEMMA DrawnEdited ==
    ASSUME src \in Pieces, src' \in Pieces, resp.pieces \in Pieces, edited \in EditCounts, FileChanges,
           NEW d \in Seq(Int), Drawn(d)
    PROVE  Drawn(d)'
<1>1. PICK i \in DOMAIN src, E \in Seq(Int) :
          /\ src' = [src EXCEPT ![i].data = E]
          /\ \/ Len(E) = Len(src[i].data) + 1 /\ edited' = [edited EXCEPT !.append = @ + 1]
             \/ Len(E) + 1 = Len(src[i].data) /\ edited' = [edited EXCEPT !.truncate = @ + 1]
             \/ Len(E) = Len(src[i].data) /\ edited' = [edited EXCEPT !.overwrite = @ + 1]
  BY Edits
<1>2. PICK y \in Nat, z \in Nat, m \in Nat, n \in Nat :
          /\ y = Len(PiecesBytes(src)) /\ z = Len(PiecesBytes(src')) /\ m = Len(src[i].data) /\ n = Len(E)
          /\ z + m = y + n
  <2>1. src[i] \in PieceRecord BY DEF Pieces
  <2>2. src[i].data \in Seq(Int) BY <2>1 DEF PieceRecord
  <2>3. PICK t \in Pieces : t = src' OBVIOUS
  <2>4. PiecesBytes(src) \in Seq(Int) /\ PiecesBytes(t) \in Seq(Int) BY BytesOf
  <2>5. Len(PiecesBytes(src)) \in Nat /\ Len(PiecesBytes(src')) \in Nat /\ Len(src[i].data) \in Nat /\ Len(E) \in Nat
    BY <2>2, <2>3, <2>4
  <2> QED BY <1>1, <2>5, SourceChanged
<1>3. PICK x \in Nat, w \in Nat : x = Len(d) /\ w = Len(PiecesBytes(resp.pieces))
  <2>1. PICK t \in Pieces : t = resp.pieces OBVIOUS
  <2>2. PiecesBytes(t) \in Seq(Int) BY BytesOf
  <2> QED BY <2>1, <2>2
<1>4. PICK p \in Nat, o \in Nat : p = edited.append /\ o = edited.truncate BY DEF EditCounts
<1>5. x + y + o = w + p BY <1>2, <1>3, <1>4 DEF Drawn
<1>6. resp' = resp BY DEF FileChanges
<1>7. edited' # NoEdits BY <1>1 DEF EditCounts, NoEdits
<1>8. x + z + edited'.truncate = w + edited'.append
  <2>1. CASE n = m + 1 /\ edited' = [edited EXCEPT !.append = @ + 1]
    <3>1. edited'.truncate = o /\ edited'.append = p + 1 BY <1>4, <2>1 DEF EditCounts
    <3>2. z = y + 1 BY <1>2, <2>1
    <3> QED BY <1>5, <3>1, <3>2
  <2>2. CASE n + 1 = m /\ edited' = [edited EXCEPT !.truncate = @ + 1]
    <3>1. edited'.truncate = o + 1 /\ edited'.append = p BY <1>4, <2>2 DEF EditCounts
    <3>2. z + 1 = y BY <1>2, <2>2
    <3> QED BY <1>5, <3>1, <3>2
  <2>3. CASE n = m /\ edited' = [edited EXCEPT !.overwrite = @ + 1]
    <3>1. edited'.truncate = o /\ edited'.append = p BY <1>4, <2>3 DEF EditCounts
    <3>2. z = y BY <1>2, <2>3
    <3> QED BY <1>5, <3>1, <3>2
  <2> QED BY <1>1, <1>2, <2>1, <2>2, <2>3
<1>9. PiecesBytes(src)' = PiecesBytes(src') /\ PiecesBytes(resp.pieces)' = PiecesBytes(resp.pieces) BY <1>6
<1> QED BY <1>2, <1>3, <1>7, <1>8, <1>9 DEF Drawn

\* Bytes that were read of the source are drawn.
LEMMA DrawnOn ==
    ASSUME src \in Pieces, src # <<>>, src' \in Pieces, NEW n \in Nat, n <= Len(PiecesBytes(src)), src' = Remaining(n),
           resp' = resp, edited' = edited, NEW d \in Seq(Int), NEW read, read = SubSeq(PiecesBytes(src), 1, n), Drawn(d)
    PROVE  Drawn(d \o read)'
<1>1. PICK t \in Pieces : t = src' /\ t = Remaining(n) OBVIOUS
<1>2. PICK a \in Seq(Int), b \in Seq(Int), W \in {PiecesBytes(resp.pieces)} :
          a = PiecesBytes(src) /\ b = PiecesBytes(t) /\ W = PiecesBytes(resp.pieces)
  <2>1. PiecesBytes(src) \in Seq(Int) /\ PiecesBytes(t) \in Seq(Int) BY BytesOf
  <2> QED BY <2>1
<1>3. PICK r \in Seq(Int) : r = read
  <2>1. n \in 0..Len(a) BY <1>2
  <2>2. SubSeq(a, 1, n) \in Seq(Int) BY <2>1, CutInTwo
  <2> QED BY <1>2, <2>2
<1>4. r \o b = a BY <1>1, <1>2, <1>3, Resumed
<1>5. (d \o r) \o b = d \o (r \o b) BY Regrouped
<1>6. Len(d \o r) + Len(b) = Len(d) + Len(a)
  <2>1. Len(d \o r) = Len(d) + Len(r) /\ Len(r \o b) = Len(r) + Len(b) BY ConcatProperties
  <2>2. Len(d) \in Nat /\ Len(r) \in Nat /\ Len(b) \in Nat OBVIOUS
  <2>3. (Len(d) + Len(r)) + Len(b) = Len(d) + (Len(r) + Len(b)) BY <2>2
  <2> QED BY <1>4, <2>1, <2>3
<1>7. PiecesBytes(src)' = b /\ PiecesBytes(resp.pieces)' = W BY <1>1, <1>2
<1>8. PICK dr : dr = d \o r OBVIOUS
<1>9. (edited = NoEdits => d \o a = W) /\ Len(d) + Len(a) + edited.truncate = Len(W) + edited.append BY <1>2 DEF Drawn
<1>10. (edited = NoEdits => dr \o b = W) /\ Len(dr) + Len(b) + edited.truncate = Len(W) + edited.append
  BY <1>4, <1>5, <1>6, <1>8, <1>9
<1>11. Drawn(dr)' BY <1>7, <1>10 DEF Drawn
<1> QED BY <1>3, <1>8, <1>11

\* The first operation that is left has its place in the response.
LEMMA Placed ==
    ASSUME Ops \in Seq(OpRecord), todo \in Seq(OpRecord), todo # <<>>, Aligned
    PROVE  /\ Place \in DOMAIN Ops /\ Place \in Nat /\ Begun(todo[1], Ops[Place]) /\ todo[1] = Head(todo) /\ todo[1] \in OpRecord
           /\ Len(todo) \in Nat \ {0}
<1>1. Len(Ops) \in Nat /\ Len(todo) \in Nat \ {0} /\ Len(todo) <= Len(Ops) /\ DOMAIN Ops = 1..Len(Ops) BY DEF Aligned
<1>2. PICK l \in Nat, m \in Nat : l = Len(Ops) /\ m = Len(todo) /\ m # 0 /\ m <= l BY <1>1
<1>3. l - m + 1 \in 1..l /\ l - m + 1 \in Nat BY <1>2
<1>4. Place = l - m + 1 BY <1>2 DEF Place
<1>5. todo[1] = Head(todo) /\ todo[1] \in OpRecord BY <1>1
<1> QED BY <1>1, <1>2, <1>3, <1>4, <1>5 DEF Aligned

\* Operations that are done leave the next ones in their places.
LEMMA AlignedOn ==
    ASSUME Ops \in Seq(OpRecord), todo \in Seq(OpRecord), todo # <<>>, Aligned, Ops' = Ops,
           NEW i \in 2..(Len(todo) + 1), todo' = SubSeq(todo, i, Len(todo))
    PROVE  Aligned' /\ Place' = Place + (i - 1) /\ Pending' = <<>>
<1>1. PICK s \in Seq(OpRecord), q \in Seq(OpRecord), l \in Nat, m \in Nat :
          s = todo /\ q = Ops /\ l = Len(s) /\ m = Len(q) /\ l # 0 /\ l <= m
  <2>1. Len(todo) \in Nat /\ Len(Ops) \in Nat /\ Len(todo) # 0 /\ Len(todo) <= Len(Ops) BY DEF Aligned
  <2> QED BY <2>1
<1>2. PICK t : t = SubSeq(s, i, l) OBVIOUS
<1>3. t \in Seq(OpRecord) /\ Len(t) = l - i + 1 /\ \A y \in 1..(l - i + 1) : t[y] = s[i + y - 1]
  <2>1. i \in Int /\ i \in 2..(l + 1) BY <1>1
  <2>2. \A y \in i..l : s[y] \in OpRecord BY <1>1, <2>1
  <2>3. /\ SubSeq(s, i, l) \in Seq(OpRecord) /\ Len(SubSeq(s, i, l)) = IF i <= l THEN l - i + 1 ELSE 0
        /\ \A y \in 1..(l - i + 1) : SubSeq(s, i, l)[y] = s[i + y - 1]
    BY <2>1, <2>2, SubSeqProperties
  <2>4. (IF i <= l THEN l - i + 1 ELSE 0) = l - i + 1 BY <2>1
  <2> QED BY <1>2, <2>3, <2>4
<1>4. PICK k \in Nat, p \in Nat, r \in Nat : k = l - i + 1 /\ p = m - l + 1 /\ r = m - k + 1 /\ r = p + (i - 1) /\ k <= m
  <2>1. i \in 2..(l + 1) BY <1>1
  <2>2. l - i + 1 \in Nat /\ m - l + 1 \in Nat /\ m - (l - i + 1) + 1 \in Nat /\ l - i + 1 <= m
        /\ m - (l - i + 1) + 1 = (m - l + 1) + (i - 1)
    BY <1>1, <2>1
  <2> QED BY <2>2
<1>5. todo' = t /\ Ops' = q /\ Len(t) = k BY <1>1, <1>2, <1>3, <1>4
<1>6. Place' = r /\ Place = p BY <1>1, <1>4, <1>5 DEF Place
<1>7. \A j \in 2..l : s[j] = q[p + j - 1] BY <1>1, <1>6 DEF Aligned
<1>8. ASSUME NEW j \in 1..k  PROVE t[j] = q[r + j - 1]
  <2>1. i \in 2..(l + 1) BY <1>1
  <2>2. PICK y \in 2..l : y = i + j - 1 /\ p + y - 1 = r + j - 1
    <3>1. i + j - 1 \in 2..l /\ p + (i + j - 1) - 1 = r + j - 1 BY <1>4, <2>1
    <3> QED BY <3>1
  <2>3. t[j] = s[y] BY <1>3, <1>4, <2>2
  <2> QED BY <1>7, <2>2, <2>3
<1>9. t # <<>> => 1 \in 1..k /\ t[1] = q[r]
  <2>1. t # <<>> => 1 \in 1..k BY <1>3, <1>4, <1>5
  <2>2. r + 1 - 1 = r OBVIOUS
  <2> QED BY <1>8, <2>1, <2>2
<1>10. Aligned'
  <2>1. Len(t) <= Len(q) BY <1>1, <1>4, <1>5
  <2>2. \A j \in 2..Len(t) : t[j] = q[r + j - 1]
    <3>1. \A j \in 2..k : j \in 1..k OBVIOUS
    <3> QED BY <1>5, <1>8, <3>1
  <2>3. t # <<>> => Begun(t[1], q[r]) BY <1>9 DEF Begun
  <2>4. t # <<>> => Begun(todo[1], Ops[Place])' BY <1>5, <1>6, <2>3 DEF Begun
  <2>5. Len(todo') <= Len(Ops') /\ \A j \in 2..Len(todo') : todo'[j] = Ops'[Place' + j - 1] BY <1>5, <1>6, <2>1, <2>2
  <2> QED BY <1>5, <2>4, <2>5 DEF Aligned
<1>11. Pending' = <<>>
  <2>1. t # <<>> => t[1] = q[r] BY <1>9
  <2>2. ~(t # <<>> /\ q[r].op = "data" /\ t[1].op = "put") BY <2>1
  <2> QED BY <1>5, <1>6, <2>2 DEF Pending
<1> QED BY <1>4, <1>6, <1>10, <1>11

\* An operation that was begun keeps its place.
LEMMA AlignedBegun ==
    ASSUME Ops \in Seq(OpRecord), todo \in Seq(OpRecord), todo # <<>>, Aligned, Ops' = Ops,
           NEW x \in OpRecord, Begun(x, Ops[Place]), todo' = <<x>> \o Tail(todo)
    PROVE  /\ Aligned' /\ Place' = Place /\ todo' # <<>> /\ todo'[1] = x
<1>1. PICK s \in Seq(OpRecord), q \in Seq(OpRecord), l \in Nat, m \in Nat :
          s = todo /\ q = Ops /\ l = Len(s) /\ m = Len(q) /\ l # 0 /\ l <= m
  <2>1. Len(todo) \in Nat /\ Len(Ops) \in Nat /\ Len(todo) # 0 /\ Len(todo) <= Len(Ops) BY DEF Aligned
  <2> QED BY <2>1
<1>2. PICK t : t = <<x>> \o Tail(s) OBVIOUS
<1>3. Len(t) = l /\ t[1] = x /\ \A j \in 2..l : t[j] = s[j] BY <1>1, <1>2
<1>4. t # <<>>
  <2>1. Len(t) # 0 BY <1>1, <1>3
  <2> QED BY <2>1
<1>5. todo' = t /\ Ops' = q BY <1>1, <1>2
<1>6. Place' = Place BY <1>1, <1>3, <1>5 DEF Place
<1>7. Aligned'
  <2>1. \A j \in 2..l : s[j] = q[Place + j - 1] BY <1>1 DEF Aligned
  <2>2. Begun(todo[1], Ops[Place])' BY <1>3, <1>5, <1>6 DEF Begun
  <2> QED BY <1>1, <1>3, <1>5, <1>6, <2>1, <2>2 DEF Aligned
<1> QED BY <1>3, <1>4, <1>5, <1>6, <1>7

-----------------------------------------------------------------------------
(* Going on with the operations *)

\* A response that is being written, and a step that leaves the response and its source alone.
Underway ==
    /\ Ready /\ todo \in Seq(OpRecord) /\ todo # <<>> /\ sent \in Seq(Token) /\ net \in Seq(Token)
    /\ wbuf \in Seq(Token) /\ after \in Seq(Token) /\ src \in Pieces /\ edited \in EditCounts
Standing == resp' = resp /\ req' = req /\ tmpl' = tmpl /\ src' = src /\ edited' = edited
Onward == (io' # "out" /\ todo' = Tail(todo)) \/ (io' = "out" /\ todo' = todo)

\* What was written so far is a sequence of tokens.
LEMMA CommittedTyped ==
    ASSUME sent \in Seq(Token), net \in Seq(Token), wbuf \in Seq(Token), after \in Seq(Token)
    PROVE  Committed \in Seq(Token)
<1>1. sent \o net \in Seq(Token) /\ sent \o wbuf \in Seq(Token) BY Joined
<1>2. PICK a \in Seq(Token) : a = sent \o net BY <1>1
<1>3. a \o after \in Seq(Token) BY Joined
<1> QED BY <1>1, <1>2, <1>3 DEF Committed

\* The operation is done, or its tokens are with the socket: the next one is reached.
LEMMA Advance ==
    ASSUME Underway, Aligned, Standing, Onward, NEW T, Course(T, Place + 1, <<>>), Committed' = T
    PROVE  OnCourse'
<1>1. Ops' = Ops BY DEF Standing, Ops
<1>2. Ops \in Seq(OpRecord) BY ReadyOps DEF Underway
<1>3. PICK e : e = Place + 1 OBVIOUS
<1>4. PICK d : d = <<>> OBVIOUS
<1>5. Course(T, e, d)'
  <2>1. Course(T, e, d) BY <1>3, <1>4
  <2> QED BY <2>1, CourseKept DEF Standing
<1>6. Aligned' /\ Reached' = e /\ Pending' = d
  <2>1. CASE io' # "out" /\ todo' = Tail(todo)
    <3>1. PICK i \in 2..(Len(todo) + 1) : i = 2 /\ i - 1 = 1
      <4>1. Len(todo) \in Nat \ {0} BY DEF Underway
      <4>2. 2 \in 2..(Len(todo) + 1) BY <4>1
      <4> QED BY <4>2
    <3>2. todo' = SubSeq(todo, i, Len(todo)) BY <2>1, <3>1 DEF Underway
    <3>3. Aligned' /\ Place' = Place + (i - 1) /\ Pending' = <<>> BY <1>1, <1>2, <3>2, AlignedOn DEF Underway
    <3> QED BY <1>3, <1>4, <2>1, <3>1, <3>3 DEF Reached
  <2>2. CASE io' = "out" /\ todo' = todo
    <3>1. Place' = Place BY <1>1, <2>2 DEF Place
    <3>2. Aligned' BY <1>1, <2>2, <3>1 DEF Aligned, Begun
    <3> QED BY <1>3, <1>4, <2>2, <3>1, <3>2 DEF Reached, Pending
  <2> QED BY <2>1, <2>2 DEF Onward
<1> QED BY <1>5, <1>6 DEF OnCourse

\* What can be done first when the source was short.
LEMMA LameHead ==
    ASSUME todo \in Seq(OpRecord), Lame
    PROVE  /\ todo # <<>> /\ Len(todo) \in 1..2
           /\ Len(todo) = 1 => Head(todo).op = "fail"
           /\ Len(todo) = 2 /\ io # "out" => Head(todo).op = "put"
<1>1. todo # <<>> /\ todo[Len(todo)].op = "fail" /\ Len(todo) <= 2 BY DEF Lame, Last
<1>2. Len(todo) \in Nat \ {0} /\ Head(todo) = todo[1] BY <1>1
<1>3. Len(todo) \in 1..2
  <2>1. PICK l \in Nat : l = Len(todo) /\ l # 0 /\ l <= 2 BY <1>1, <1>2
  <2>2. l \in 1..2 BY <2>1
  <2> QED BY <2>1, <2>2
<1>4. Len(todo) = 2 /\ io # "out" => todo[1].op = "put" BY DEF Lame
<1> QED BY <1>1, <1>2, <1>3, <1>4

\* What follows the first of two operations.
LEMMA SecondOfTwo ==
    ASSUME NEW s \in Seq(OpRecord), Len(s) = 2
    PROVE  Tail(s) \in Seq(OpRecord) /\ Tail(s) # <<>> /\ Len(Tail(s)) = 1 /\ Tail(s)[1] = s[2]
<1>1. s # <<>> OBVIOUS
<1>2. PICK t : t = Tail(s) OBVIOUS
<1>3. t \in Seq(OpRecord) /\ Len(t) = Len(s) - 1 /\ \A i \in 1..Len(t) : t[i] = s[i + 1]
  BY <1>1, <1>2, HeadTailProperties
<1>4. Len(t) = 1 BY <1>3
<1>5. t[1] = s[2] /\ t # <<>> BY <1>3, <1>4
<1> QED BY <1>2, <1>3, <1>4, <1>5

\* Tokens are added to what was written.
LEMMA PutAlong ==
    ASSUME Underway, io # "out", Head(todo).op = "put", OnCourse \/ Lame, Standing, Onward,
           Committed' = Committed \o Head(todo).toks
    PROVE  OnCourse' \/ Lame'
<1>1. PICK T \in Seq(Token) : T = Committed BY CommittedTyped DEF Underway
<1>2. PICK x \in OpRecord : x = Head(todo) /\ x = todo[1] BY DEF Underway
<1>3. x.toks \in Seq(Token) /\ x.op = "put" BY <1>2 DEF OpRecord
<1>4. CASE OnCourse
  <2>1. Ops \in Seq(OpRecord) BY ReadyOps DEF Underway
  <2>2. Aligned /\ Course(T, Reached, Pending) BY <1>1, <1>4 DEF OnCourse
  <2>3. PICK e \in DOMAIN Ops : e = Place /\ Begun(x, Ops[e]) BY <1>2, <2>1, <2>2, Placed DEF Underway
  <2>4. Reached = e BY <2>3 DEF Reached
  <2>5. PICK data : data = (IF Ops[e].op = "data" THEN Payload(x.toks) ELSE <<>>) OBVIOUS
  <2>6. Pending = data BY <1>2, <1>3, <2>3, <2>5 DEF Pending, Underway
  <2>7. Course(T, e, data) BY <2>2, <2>4, <2>6
  <2>8. Course(T \o x.toks, e + 1, <<>>) BY <1>3, <2>3, <2>5, <2>7, PutCourse DEF Underway
  <2>9. PICK U : U = T \o x.toks OBVIOUS
  <2>10. Course(U, Place + 1, <<>>) /\ Committed' = U BY <1>1, <1>2, <2>3, <2>8, <2>9
  <2> QED BY <2>2, <2>10, Advance
<1>5. CASE Lame
  <2>1. Len(todo) = 2
    <3>1. Len(todo) \in 1..2 /\ (Len(todo) = 1 => Head(todo).op = "fail") BY <1>5, LameHead DEF Underway
    <3> QED BY <3>1
  <2>2. PICK m \in Nat : Fine(T, m) /\ Len(x.toks) <= m /\ \A i \in DOMAIN x.toks : x.toks[i][1] = "byte"
    <3>1. PICK m \in Nat :
              /\ Fine(Committed, m)
              /\ Len(todo) = 2 /\ io # "out" =>
                    /\ todo[1].op = "put" /\ Len(todo[1].toks) <= m
                    /\ \A i \in DOMAIN todo[1].toks : todo[1].toks[i][1] = "byte"
      BY <1>5 DEF Lame
    <3> QED BY <1>1, <1>2, <2>1, <3>1
  <2>3. Positions(T, "zero") = {} BY <1>1, <1>5 DEF Lame
  <2>4. PICK u \in Seq(Token) : u = x.toks BY <1>3
  <2>5. PICK n \in Nat, U \in {T \o u} : U = T \o u /\ n = m - Len(u)
    <3>1. Len(u) \in Nat /\ Len(u) <= m BY <2>2, <2>4
    <3>2. m - Len(u) \in Nat BY <3>1
    <3> QED BY <3>2
  <2>6. Fine(U, n) /\ Positions(U, "zero") = {}
    <3>1. Framed(T, m) /\ Clean(T) BY <2>2, FineParts
    <3>2. Framed(T \o u, m - Len(u)) BY <2>2, <2>4, <3>1, FramedBytes
    <3>3. Clean(T \o u) /\ Positions(T \o u, "zero") = {} BY <2>2, <2>3, <2>4, <3>1, CleanBytes
    <3> QED BY <2>5, <3>2, <3>3, FineParts
  <2>7. Fine(U, n)' BY <2>6, Grows, FineKept DEF Standing
  <2>8. Committed' = U BY <1>1, <1>2, <2>4, <2>5
  <2>9. Fine(Committed, n)' /\ (Positions(Committed, "zero") = {})' BY <2>6, <2>7, <2>8
  <2>10. todo' # <<>> /\ Last(todo').op = "fail" /\ Len(todo') <= 2 /\ ~(Len(todo') = 2 /\ io' # "out")
    <3>1. todo # <<>> /\ todo[2].op = "fail" BY <1>5, <2>1 DEF Lame, Last
    <3>2. CASE io' # "out" /\ todo' = Tail(todo)
      <4>1. PICK s \in Seq(OpRecord) : s = todo /\ Len(s) = 2 BY <2>1 DEF Underway
      <4>2. PICK t : t = Tail(s) OBVIOUS
      <4>3. Len(t) = 1 /\ t[1] = s[2] /\ t # <<>> BY <4>1, <4>2, SecondOfTwo
      <4>4. Len(t) = 1 /\ t[1].op = "fail" /\ t # <<>> /\ todo' = t BY <3>1, <3>2, <4>1, <4>2, <4>3
      <4>5. t # <<>> /\ Last(t).op = "fail" /\ Len(t) <= 2 /\ Len(t) # 2 BY <4>4 DEF Last
      <4> QED BY <4>4, <4>5
    <3>3. CASE io' = "out" /\ todo' = todo
      <4>1. PICK s \in Seq(OpRecord) : s = todo /\ Len(s) = 2 /\ s # <<>> /\ Last(s).op = "fail"
        BY <1>5, <2>1 DEF Underway, Lame
      <4>2. todo' = s BY <3>3, <4>1
      <4> QED BY <3>3, <4>1, <4>2
    <3> QED BY <3>2, <3>3 DEF Onward
  <2> QED BY <2>9, <2>10 DEF Lame
<1> QED BY <1>4, <1>5

\* An operation that writes nothing is done.
LEMMA PassAlong ==
    ASSUME Underway, io # "out", Head(todo).op \in {"flush", "open", "release", "sleep"}, OnCourse \/ Lame, Standing, Onward,
           Committed' = Committed
    PROVE  OnCourse'
<1>1. PICK T \in Seq(Token) : T = Committed BY CommittedTyped DEF Underway
<1>2. PICK x \in OpRecord : x = Head(todo) /\ x = todo[1] BY DEF Underway
<1>3. OnCourse
  <2>1. ~Lame BY LameHead DEF Underway
  <2> QED BY <2>1
<1>4. Ops \in Seq(OpRecord) /\ Grammatical(Ops) BY ReadyOps DEF Underway
<1>5. Aligned /\ Course(T, Reached, Pending) BY <1>1, <1>3 DEF OnCourse
<1>6. PICK e \in DOMAIN Ops : e = Place /\ Begun(x, Ops[e]) BY <1>2, <1>4, <1>5, Placed DEF Underway
<1>7. Reached = e BY <1>6 DEF Reached
<1>8. Ops[e].op \in {"flush", "open", "wait", "release"}
  <2>1. Orderly(Ops, e) BY <1>4 DEF Grammatical
  <2>2. Ops[e].op # "sleep" BY <2>1 DEF Orderly, KindOf
  <2> QED BY <1>2, <1>6, <2>2 DEF Begun
<1>9. Pending = <<>> BY <1>6, <1>8 DEF Pending
<1>10. Course(T, e, <<>>) BY <1>5, <1>7, <1>9
<1>11. Course(T, e + 1, <<>>) BY <1>8, <1>10, SkipCourse DEF Underway
<1>12. Course(T, Place + 1, <<>>) /\ Committed' = T BY <1>1, <1>6, <1>11
<1> QED BY <1>5, <1>12, Advance

\* Where the first operation is, and what was written before it.
LEMMA Here ==
    ASSUME Underway, io # "out", OnCourse \/ Lame, Head(todo).op \notin {"put", "fail"}
    PROVE  /\ Aligned /\ Ops \in Seq(OpRecord) /\ Grammatical(Ops) /\ Place \in DOMAIN Ops /\ Place \in Nat
           /\ Begun(Head(todo), Ops[Place]) /\ Head(todo) \in OpRecord /\ Head(todo) = todo[1]
           /\ Pending = <<>> /\ Course(Committed, Place, <<>>) /\ Committed \in Seq(Token)
           /\ Len(todo) \in Nat \ {0} /\ Ops[Place].op # "sleep"
<1>1. OnCourse
  <2>1. ~Lame BY LameHead DEF Underway
  <2> QED BY <2>1
<1>2. Ops \in Seq(OpRecord) /\ Grammatical(Ops) BY ReadyOps DEF Underway
<1>3. /\ Place \in DOMAIN Ops /\ Place \in Nat /\ Begun(Head(todo), Ops[Place]) /\ Head(todo) = todo[1] /\ Head(todo) \in OpRecord
      /\ Len(todo) \in Nat \ {0}
  BY <1>1, <1>2, Placed DEF Underway, OnCourse
<1>4. Reached = Place BY DEF Reached
<1>5. Pending = <<>> BY <1>3 DEF Pending
<1>6. Course(Committed, Place, <<>>) BY <1>1, <1>4, <1>5 DEF OnCourse
<1>7. Ops[Place].op # "sleep"
  <2>1. Orderly(Ops, Place) BY <1>2, <1>3 DEF Grammatical
  <2> QED BY <2>1 DEF Orderly, KindOf
<1> QED BY <1>1, <1>2, <1>3, <1>5, <1>6, <1>7, CommittedTyped DEF Underway, OnCourse

\* Only a stream has operations other than writing and flushing.
LEMMA StreamOnly ==
    ASSUME Ready, NEW e \in DOMAIN Ops, Ops[e].op \notin {"put", "flush"}
    PROVE  resp.stream /\ resp.target # "none"
<1>1. PICK q : q = Ops OBVIOUS
<1>2. q = ResponseOps(resp) /\ resp \in ResponseRecord /\ (resp.stream => resp.target # "none") BY <1>1, ReadyOps
<1>3. resp.stream \in BOOLEAN BY <1>2 DEF ResponseRecord
<1>4. resp.stream = FALSE => PlainTabled(q, resp) BY <1>2, PlainWhere
<1>5. resp.stream = FALSE => Ops[e].op \in {"put", "flush"} BY <1>1, <1>4 DEF PlainTabled
<1> QED BY <1>2, <1>3, <1>5

\* The time of a partial stream is over: what is left of it is passed over.
LEMMA StopAlong ==
    ASSUME Underway, io # "out", io' # "out", Head(todo).op \in {"wait", "sleep"}, DeadlinePassed, OnCourse \/ Lame,
           Standing, Committed' = Committed, Releases(todo), todo' = Stopped
    PROVE  OnCourse' /\ todo' # <<>>
<1>1. /\ Aligned /\ Ops \in Seq(OpRecord) /\ Place \in DOMAIN Ops /\ Place \in Nat
      /\ Begun(Head(todo), Ops[Place]) /\ Head(todo) = todo[1]
      /\ Course(Committed, Place, <<>>) /\ Committed \in Seq(Token) /\ Len(todo) \in Nat \ {0} /\ Ops[Place].op # "sleep"
  BY Here
<1>2. Ops[Place].op = "wait" BY <1>1 DEF Begun
<1>3. PICK T \in Seq(Token), e \in DOMAIN Ops : T = Committed /\ e = Place BY <1>1
<1>4. resp.stream /\ resp.target # "none" BY <1>2, <1>3, StreamOnly DEF Underway
<1>5. Declared(Payload(T))
  <2>1. Partial(resp.plan.mode) /\ resp.plan.duration > 0 BY DEF DeadlinePassed
  <2> QED BY <1>1, <1>2, <1>3, <1>4, <2>1, StoppedDeclared DEF Underway
<1>6. Course(T, VerifyPlace + 1, <<>>) BY <1>1, <1>2, <1>3, <1>4, <1>5, EndCourse DEF Underway
<1>7. PICK i \in DOMAIN todo : todo[i].op = "release" /\ todo' = SubSeq(todo, i, Len(todo))
  <2>1. 1 \in DOMAIN todo BY <1>1 DEF Underway
  <2>2. \E j \in DOMAIN todo : todo[j].op = "release" BY <1>1, <2>1 DEF Releases
  <2>3. (CHOOSE j \in DOMAIN todo : todo[j].op = "release") \in DOMAIN todo
        /\ todo[CHOOSE j \in DOMAIN todo : todo[j].op = "release"].op = "release"
    BY <2>2
  <2> QED BY <2>3 DEF Stopped
<1>8. i \in 2..(Len(todo) + 1) /\ i \in 2..Len(todo)
  <2>1. i # 1 BY <1>1, <1>7
  <2>2. PICK l \in Nat : l = Len(todo) BY <1>1
  <2>3. i \in 1..l BY <2>2 DEF Underway
  <2>4. i \in 2..l /\ i \in 2..(l + 1) BY <2>1, <2>3
  <2> QED BY <2>2, <2>4
<1>9. Ops' = Ops BY DEF Standing, Ops
<1>10. Aligned' /\ Place' = Place + (i - 1) /\ Pending' = <<>> BY <1>1, <1>7, <1>8, <1>9, AlignedOn DEF Underway
<1>11. Place + (i - 1) = VerifyPlace + 1
  <2>1. PICK c \in Nat : c = resp.plan.count BY <1>4, ReadyOps DEF Underway
  <2>2. PICK f : f = Place + i - 1 OBVIOUS
  <2>3. todo[i] = Ops[f] BY <1>1, <1>8, <2>2 DEF Aligned
  <2>4. f \in DOMAIN Ops
    <3>0. Len(todo) \in Nat /\ Len(Ops) \in Nat /\ Len(todo) <= Len(Ops) /\ DOMAIN Ops = 1..Len(Ops)
      BY <1>1 DEF Aligned
    <3>1. PICK l \in Nat, m \in Nat : l = Len(todo) /\ m = Len(Ops) /\ l <= m /\ DOMAIN Ops = 1..m BY <3>0
    <3>2. Place = m - l + 1 /\ i \in 2..l BY <1>8, <3>1 DEF Place
    <3>3. (m - l + 1) + i - 1 \in 1..m BY <3>1, <3>2
    <3> QED BY <2>2, <3>1, <3>2, <3>3
  <2>5. PICK q : q = Ops OBVIOUS
  <2>6. q = ResponseOps(resp) /\ resp \in ResponseRecord BY <2>5, ReadyOps DEF Underway
  <2>7. f = 5 + 5 * c BY <1>4, <1>7, <2>1, <2>3, <2>4, <2>5, <2>6, StreamWhere
  <2>8. VerifyPlace + 1 = 5 + 5 * c BY <2>1 DEF VerifyPlace
  <2>9. Place + (i - 1) = f BY <1>1, <1>8, <2>2
  <2> QED BY <2>7, <2>8, <2>9
<1>12. PICK g, d : g = VerifyPlace + 1 /\ d = <<>> OBVIOUS
<1>13. Course(T, g, d)'
  <2>1. Course(T, g, d) BY <1>6, <1>12
  <2> QED BY <2>1, CourseKept DEF Standing
<1>14. Committed' = T /\ Reached' = g /\ Pending' = d BY <1>3, <1>10, <1>11, <1>12 DEF Reached
<1>15. todo' # <<>>
  <2>1. PICK s \in Seq(OpRecord), l \in Nat : s = todo /\ l = Len(s) /\ i \in 2..l BY <1>1, <1>8 DEF Underway
  <2>2. \A y \in i..l : s[y] \in OpRecord BY <2>1
  <2>3. i \in Int /\ i <= l /\ l - i + 1 # 0 BY <2>1
  <2>4. Len(SubSeq(s, i, l)) = IF i <= l THEN l - i + 1 ELSE 0 BY <2>2, <2>3, SubSeqProperties
  <2>5. PICK t : t = SubSeq(s, i, l) OBVIOUS
  <2>6. Len(t) # 0 BY <2>3, <2>4, <2>5
  <2>7. t # <<>> BY <2>6
  <2> QED BY <1>7, <2>1, <2>5, <2>7
<1> QED BY <1>10, <1>13, <1>14, <1>15 DEF OnCourse

\* A chunk waits for its time.
LEMMA SleepAlong ==
    ASSUME Underway, io # "out", io' # "out", Head(todo).op = "wait", OnCourse \/ Lame, Standing, Committed' = Committed,
           todo' = <<[Head(todo) EXCEPT !.op = "sleep"]>> \o Tail(todo)
    PROVE  OnCourse'
<1>1. /\ Aligned /\ Ops \in Seq(OpRecord) /\ Place \in DOMAIN Ops
      /\ Begun(Head(todo), Ops[Place]) /\ Head(todo) \in OpRecord
      /\ Course(Committed, Place, <<>>)
  BY Here
<1>2. Head(todo) = Ops[Place]
  <2>1. Ops[Place] \in OpRecord BY <1>1
  <2> QED BY <1>1, <2>1 DEF Begun, OpRecord
<1>3. PICK x : x = [Head(todo) EXCEPT !.op = "sleep"] OBVIOUS
<1>4. x \in OpRecord /\ x.op = "sleep" BY <1>1, <1>3 DEF OpRecord
<1>5. Begun(x, Ops[Place]) BY <1>2, <1>3 DEF Begun
<1>6. Ops' = Ops BY DEF Standing, Ops
<1>7. Aligned' /\ Place' = Place /\ todo' # <<>> /\ todo'[1] = x
  BY <1>1, <1>3, <1>4, <1>5, <1>6, AlignedBegun DEF Underway
<1>8. Pending' = <<>> BY <1>4, <1>7 DEF Pending
<1>9. PICK T, e, d : T = Committed /\ e = Place /\ d = <<>> OBVIOUS
<1>10. Course(T, e, d)'
  <2>1. Course(T, e, d) BY <1>1, <1>9
  <2> QED BY <2>1, CourseKept DEF Standing
<1>11. Committed' = T /\ Reached' = e /\ Pending' = d BY <1>7, <1>8, <1>9 DEF Reached
<1> QED BY <1>7, <1>10, <1>11 DEF OnCourse

\* The end of the source was found.
LEMMA VerifyAlong ==
    ASSUME Underway, io # "out", io' # "out", Head(todo).op = "verify", OnCourse \/ Lame, Standing, Committed' = Committed,
           todo' = Tail(todo), resp.plan.bytes = resp.plan.source => PiecesBytes(src) = <<>>
    PROVE  OnCourse'
<1>1. /\ Aligned /\ Ops \in Seq(OpRecord) /\ Place \in DOMAIN Ops
      /\ Begun(Head(todo), Ops[Place]) /\ Course(Committed, Place, <<>>) /\ Committed \in Seq(Token)
  BY Here
<1>2. Ops[Place].op = "verify"
  <2>1. Ops[Place] \in OpRecord BY <1>1
  <2> QED BY <1>1, <2>1 DEF Begun, OpRecord
<1>3. PICK T \in Seq(Token), e \in DOMAIN Ops : T = Committed /\ e = Place BY <1>1
<1>4. resp.stream /\ resp.target # "none" BY <1>2, <1>3, StreamOnly DEF Underway
<1>5. Declared(Payload(T)) /\ e = VerifyPlace BY <1>1, <1>2, <1>3, <1>4, VerifiedDeclared DEF Underway
<1>6. Course(T, VerifyPlace + 1, <<>>) BY <1>1, <1>2, <1>3, <1>4, <1>5, EndCourse DEF Underway
<1>7. Course(T, Place + 1, <<>>) /\ Committed' = T BY <1>3, <1>5, <1>6
<1> QED BY <1>1, <1>7, Advance DEF Onward

\* Operations that have a length are there.
LEMMA NotEmpty ==
    ASSUME NEW s \in Seq(OpRecord), NEW n \in Nat \ {0}, Len(s) = n
    PROVE  s # <<>>
OBVIOUS

\* Nothing was done to the response: what is on course stays so.
LEMMA StandAlong ==
    ASSUME Standing, todo' = todo, io' = io, Committed' = Committed, OnCourse \/ Lame
    PROVE  OnCourse' \/ Lame'
<1>1. Ops' = Ops BY DEF Standing, Ops
<1>2. Place' = Place BY <1>1 DEF Place
<1>3. CASE OnCourse
  <2>1. Aligned' BY <1>1, <1>2, <1>3 DEF OnCourse, Aligned, Begun
  <2>2. PICK T, e, d : T = Committed /\ e = Reached /\ d = Pending OBVIOUS
  <2>3. Reached' = e BY <1>2, <2>2 DEF Reached
  <2>4. Pending' = d
    <3>1. Payload(todo[1].toks)' = Payload(todo[1].toks) OBVIOUS
    <3> QED BY <1>1, <1>2, <2>2, <3>1 DEF Pending
  <2>5. Course(T, e, d)'
    <3>1. Course(T, e, d) BY <1>3, <2>2 DEF OnCourse
    <3> QED BY <3>1, CourseKept DEF Standing
  <2> QED BY <2>1, <2>2, <2>3, <2>4, <2>5 DEF OnCourse
<1>4. CASE Lame
  <2>1. PICK m \in Nat :
            /\ Fine(Committed, m)
            /\ Len(todo) = 2 /\ io # "out" =>
                  /\ todo[1].op = "put" /\ Len(todo[1].toks) <= m
                  /\ \A i \in DOMAIN todo[1].toks : todo[1].toks[i][1] = "byte"
    BY <1>4 DEF Lame
  <2>2. PICK T : T = Committed OBVIOUS
  <2>3. Fine(T, m)'
    <3>1. Fine(T, m) BY <2>1, <2>2
    <3> QED BY <3>1, Grows, FineKept DEF Standing
  <2>4. Fine(Committed, m)' BY <2>2, <2>3
  <2>5. (Positions(Committed, "zero") = {})'
    <3>1. Positions(Committed, "zero") = {} BY <1>4 DEF Lame
    <3>2. Positions(Committed', "zero") = Positions(Committed, "zero") OBVIOUS
    <3> QED BY <3>1, <3>2 DEF Positions
  <2>6. todo # <<>> /\ Last(todo).op = "fail" /\ Len(todo) <= 2 BY <1>4 DEF Lame
  <2> QED BY <2>1, <2>4, <2>5, <2>6 DEF Lame, Last
<1> QED BY <1>3, <1>4

\* The socket took what the operation wrote: the operation is done.
LEMMA NetAlong ==
    ASSUME Underway, io = "out", io' # "out", todo' = Tail(todo), Standing, Committed' = Committed, OnCourse \/ Lame,
           Head(todo).op \in {"put", "flush"}
    PROVE  OnCourse' \/ Lame'
<1>1. PICK T : T = Committed OBVIOUS
<1>2. CASE OnCourse
  <2>1. Aligned /\ Course(T, Place + 1, <<>>)
    <3>1. Pending = <<>> /\ Reached = Place + 1 BY DEF Pending, Reached
    <3> QED BY <1>1, <1>2, <3>1 DEF OnCourse
  <2> QED BY <1>1, <2>1, Advance DEF Onward
<1>3. CASE Lame
  <2>1. Len(todo) = 2
    <3>1. Len(todo) \in 1..2 /\ (Len(todo) = 1 => Head(todo).op = "fail") BY <1>3, LameHead DEF Underway
    <3> QED BY <3>1
  <2>2. PICK m \in Nat : Fine(T, m) BY <1>1, <1>3 DEF Lame
  <2>3. Fine(T, m)' BY <2>2, Grows, FineKept DEF Standing
  <2>4. Fine(Committed, m)' BY <1>1, <2>3
  <2>5. (Positions(Committed, "zero") = {})'
    <3>1. Positions(Committed, "zero") = {} BY <1>3 DEF Lame
    <3>2. Positions(Committed', "zero") = Positions(Committed, "zero") OBVIOUS
    <3> QED BY <3>1, <3>2 DEF Positions
  <2>6. todo' # <<>> /\ Last(todo').op = "fail" /\ Len(todo') = 1
    <3>1. PICK s \in Seq(OpRecord) : s = todo /\ Len(s) = 2 /\ s[2].op = "fail" BY <1>3, <2>1 DEF Underway, Lame, Last
    <3>2. PICK t : t = Tail(s) OBVIOUS
    <3>3. Len(t) = 1 /\ t[1] = s[2] /\ t # <<>> BY <3>1, <3>2, SecondOfTwo
    <3>4. Last(t).op = "fail" BY <3>1, <3>3 DEF Last
    <3> QED BY <3>1, <3>2, <3>3, <3>4
  <2>7. Len(todo') <= 2 /\ Len(todo') # 2
    <3>1. PICK l \in Nat : l = 1 /\ l = Len(todo') BY <2>6
    <3>2. l <= 2 /\ l # 2 BY <3>1
    <3> QED BY <3>1, <3>2
  <2> QED BY <2>4, <2>5, <2>6, <2>7 DEF Lame
<1> QED BY <1>2, <1>3

\* A file of the response changes.
LEMMA EditAlong ==
    ASSUME FileChanges, Ready, src \in Pieces, src' \in Pieces, edited \in EditCounts, todo \in Seq(OpRecord),
           sent \in Seq(Token), net \in Seq(Token), wbuf \in Seq(Token), after \in Seq(Token), OnCourse \/ Lame
    PROVE  OnCourse' \/ Lame'
<1>0. /\ resp' = resp /\ req' = req /\ tmpl' = tmpl /\ Growing /\ todo' = todo /\ io' = io
      /\ sent' = sent /\ net' = net /\ wbuf' = wbuf /\ after' = after
  BY Grows DEF FileChanges, writing
<1>1. Ops' = Ops BY <1>0 DEF Ops
<1>2. Place' = Place /\ Committed' = Committed BY <1>0, <1>1 DEF Place, Committed
<1>3. CASE OnCourse
  <2>1. Aligned' BY <1>0, <1>1, <1>2, <1>3 DEF OnCourse, Aligned, Begun
  <2>2. PICK T \in Seq(Token), e \in {Reached}, d \in {Pending} : T = Committed /\ e = Reached /\ d = Pending
    BY CommittedTyped
  <2>3. Reached' = e BY <1>0, <1>2, <2>2 DEF Reached
  <2>4. Pending' = d
    <3>1. Payload(todo[1].toks)' = Payload(todo[1].toks) BY <1>0
    <3> QED BY <1>0, <1>1, <1>2, <2>2, <3>1 DEF Pending
  <2>5. d \in Seq(Int)
    <3>1. CASE todo # <<>> /\ todo[1].op = "put"
      <4>1. todo[1] \in OpRecord BY <3>1
      <4>2. todo[1].toks \in Seq(Token) BY <4>1 DEF OpRecord
      <4>3. Payload(todo[1].toks) \in Seq(Int) BY <4>2, PayloadTyped
      <4> QED BY <2>2, <4>3 DEF Pending
    <3>2. CASE ~(todo # <<>> /\ todo[1].op = "put") BY <2>2, <3>2 DEF Pending
    <3> QED BY <3>1, <3>2
  <2>6. PICK p \in Seq(Int) : p = Payload(T) \o d
    <3>1. PICK v \in Seq(Int), w \in Seq(Int) : v = Payload(T) /\ w = d BY <2>5, PayloadTyped
    <3>2. v \o w \in Seq(Int) BY ConcatProperties
    <3> QED BY <3>1, <3>2
  <2>7. Drawn(p) => Drawn(p)'
    <3>1. resp.pieces \in Pieces BY ReadyOps DEF ResponseRecord
    <3> QED BY <3>1, DrawnEdited
  <2>8. Course(T, e, d)'
    <3>1. Course(T, e, d) BY <1>3, <2>2 DEF OnCourse
    <3>2. Drawn(Payload(T) \o d) => Drawn(Payload(T) \o d)' BY <2>6, <2>7
    <3> QED BY <1>0, <3>1, <3>2, CourseOn
  <2> QED BY <1>2, <2>1, <2>2, <2>3, <2>4, <2>8 DEF OnCourse
<1>4. CASE Lame
  <2>1. PICK m \in Nat :
            /\ Fine(Committed, m)
            /\ Len(todo) = 2 /\ io # "out" =>
                  /\ todo[1].op = "put" /\ Len(todo[1].toks) <= m
                  /\ \A i \in DOMAIN todo[1].toks : todo[1].toks[i][1] = "byte"
    BY <1>4 DEF Lame
  <2>2. PICK T : T = Committed OBVIOUS
  <2>3. Fine(T, m)'
    <3>1. Fine(T, m) BY <2>1, <2>2
    <3> QED BY <1>0, <3>1, FineKept
  <2>4. Fine(Committed, m)' BY <1>2, <2>2, <2>3
  <2>5. (Positions(Committed, "zero") = {})'
    <3>1. Positions(Committed, "zero") = {} BY <1>4 DEF Lame
    <3>2. Positions(Committed', "zero") = Positions(Committed, "zero") BY <1>2
    <3> QED BY <3>1, <3>2 DEF Positions
  <2>6. todo # <<>> /\ Last(todo).op = "fail" /\ Len(todo) <= 2 BY <1>4 DEF Lame
  <2> QED BY <1>0, <2>1, <2>4, <2>5, <2>6 DEF Lame, Last
<1> QED BY <1>3, <1>4

\* The bytes of a chunk are read; when the source has fewer, they are the last that are written.
LEMMA DataAlong ==
    ASSUME Underway, io # "out", io' # "out", Head(todo).op = "data", OnCourse \/ Lame,
           resp' = resp, req' = req, tmpl' = tmpl, edited' = edited, Committed' = Committed, src # <<>>, src' \in Pieces,
           NEW n, n = Head(todo).n, src' = Remaining(n),
           NEW read, read = SubSeq(PiecesBytes(src), 1, LeastOf(n, Len(PiecesBytes(src)))),
           todo' = (IF read = <<>> THEN <<>> ELSE <<Put(Bytes("byte", read))>>)
                   \o (IF Len(read) < n THEN <<Op("fail", <<>>, 0)>> ELSE Tail(todo))
    PROVE  OnCourse' \/ Lame'
<1>1. /\ Aligned /\ Ops \in Seq(OpRecord) /\ Grammatical(Ops) /\ Place \in DOMAIN Ops
      /\ Begun(Head(todo), Ops[Place]) /\ Head(todo) \in OpRecord /\ Head(todo) = todo[1]
      /\ Course(Committed, Place, <<>>) /\ Committed \in Seq(Token) /\ Len(todo) \in Nat \ {0}
  BY Here
<1>2. PICK T \in Seq(Token), e \in DOMAIN Ops : T = Committed /\ e = Place BY <1>1
<1>3. Head(todo) = Ops[e]
  <2>1. Ops[e] \in OpRecord BY <1>1
  <2> QED BY <1>1, <1>2, <2>1 DEF Begun, OpRecord
<1>4. resp.stream /\ resp.target # "none" BY <1>3, StreamOnly DEF Underway
<1>5. n \in Nat \ {0} /\ e <= VerifyPlace
  <2>1. PICK q : q = Ops OBVIOUS
  <2>2. PICK c \in Nat : c = resp.plan.count BY <1>4, ReadyOps DEF Underway
  <2>3. q = ResponseOps(resp) /\ resp \in ResponseRecord /\ resp.plan \in Plan /\ c <= resp.plan.bytes
    BY <1>4, <2>1, <2>2, ReadyOps DEF Underway
  <2>4. /\ q[e].op = "data" => InChunk(c, e, 6)
        /\ \A i \in 0..(c - 1) : (e = 6 + 5 * i => q[e].op = "data" /\ q[e].n = ChunkSize(resp.plan, i))
    BY <1>4, <2>1, <2>2, <2>3, StreamWhere
  <2>5. PICK i \in 0..(c - 1) : e = 6 + 5 * i BY <1>3, <2>1, <2>4 DEF InChunk
  <2>6. c > 0 BY <2>5
  <2>7. ChunkSize(resp.plan, i) \in Nat \ {0} BY <2>2, <2>3, <2>6, ChunkSums
  <2>8. e <= 4 + 5 * c BY <2>5
  <2> QED BY <1>3, <2>1, <2>2, <2>4, <2>5, <2>7, <2>8 DEF VerifyPlace
<1>6. PICK b \in Seq(Int), l \in Nat : b = PiecesBytes(src) /\ l = Len(b)
  <2>1. PiecesBytes(src) \in Seq(Int) BY BytesOf DEF Underway
  <2>2. Len(PiecesBytes(src)) \in Nat BY <2>1
  <2> QED BY <2>1, <2>2
<1>7. PICK k \in 0..l : k = LeastOf(n, l) /\ (l >= n => k = n) /\ (l < n => k = l /\ k < n)
  <2>1. LeastOf(n, l) \in 0..l /\ (l >= n => LeastOf(n, l) = n) /\ (l < n => LeastOf(n, l) = l) BY <1>5 DEF LeastOf
  <2> QED BY <2>1
<1>8. read \in Seq(Int) /\ Len(read) = k
  <2>1. read = SubSeq(b, 1, k) /\ k \in 0..Len(b) BY <1>6, <1>7
  <2>2. SubSeq(b, 1, k) \in Seq(Int) /\ Len(SubSeq(b, 1, k)) = k BY <2>1, CutInTwo
  <2> QED BY <2>1, <2>2
<1>9. PICK r \in Seq(Int) : r = read /\ Len(r) = k BY <1>8
<1>10. PICK kind : kind = "byte" OBVIOUS
<1>11. PICK x : x = Put(Bytes(kind, r)) OBVIOUS
<1>12. x \in OpRecord
  <2>1. Bytes(kind, r) \in Seq(Token) BY <1>10, BytesTyped
  <2> QED BY <1>11, <2>1 DEF Put, Op, OpRecord
<1>13. r # <<>> => /\ x.op = "put" /\ Len(x.toks) = k /\ (\A i \in DOMAIN x.toks : x.toks[i][1] = "byte")
                   /\ Payload(x.toks) = r
  <2> SUFFICES ASSUME r # <<>>
               PROVE  /\ x.op = "put" /\ Len(x.toks) = k /\ (\A i \in DOMAIN x.toks : x.toks[i][1] = "byte")
                      /\ Payload(x.toks) = r
    OBVIOUS
  <2>1. kind \in {"byte", "raw"} BY <1>10
  <2>2. x.op = "put" /\ Len(x.toks) = Len(r) /\ \A i \in DOMAIN x.toks : x.toks[i][1] = kind /\ x.toks[i][2] = r[i]
    BY <1>11, <2>1, BytesKind
  <2>3. PICK u \in Seq(Token) : u = x.toks BY <1>12 DEF OpRecord
  <2>4. Payload(u) = [i \in 1..Len(u) |-> u[i][2]] BY <1>10, <2>2, <2>3, PayloadBytes
  <2>5. [i \in 1..Len(u) |-> u[i][2]] = r
    <3>0. Len(u) = k /\ DOMAIN u = 1..Len(u) BY <1>9, <2>2, <2>3
    <3>1. DOMAIN u = 1..k /\ Len(u) = k /\ \A i \in 1..k : u[i][2] = r[i] BY <2>2, <2>3, <3>0
    <3>2. r = [i \in 1..k |-> r[i]] BY <1>9
    <3> QED BY <3>1, <3>2
  <2> QED BY <1>9, <1>10, <2>2, <2>3, <2>4, <2>5
<1>14. Course(T, e, <<>>) BY <1>1, <1>2
<1>15. CASE l >= n
  <2>1. k = n /\ r # <<>>
    <3>1. k = n BY <1>7, <1>15
    <3>2. Len(r) # 0 BY <1>5, <1>9, <3>1
    <3> QED BY <3>1, <3>2
  <2>2. todo' = <<x>> \o Tail(todo)
    <3>1. ~(Len(read) < n) BY <1>5, <1>9, <2>1
    <3> QED BY <1>9, <1>10, <1>11, <2>1, <3>1
  <2>3. Begun(x, Ops[Place]) BY <1>2, <1>3, <1>13, <2>1 DEF Begun
  <2>4. Ops' = Ops BY DEF Ops
  <2>5. Aligned' /\ Place' = Place /\ todo' # <<>> /\ todo'[1] = x
    BY <1>1, <1>12, <2>2, <2>3, <2>4, AlignedBegun DEF Underway
  <2>6. Pending' = r
    <3>1. Pending' = Payload(x.toks)
      <4>1. Ops[Place]'.op = "data" BY <1>2, <1>3, <2>4, <2>5
      <4>2. x.op = "put" BY <1>13, <2>1
      <4> QED BY <2>5, <4>1, <4>2 DEF Pending
    <3> QED BY <1>13, <2>1, <3>1
  <2>7. Reached' = e BY <1>2, <2>5 DEF Reached
  <2>8. PICK p \in Seq(Int), d \in {<<>>} : p = Payload(T) /\ d = <<>> BY PayloadTyped
  <2>9. p \o d = p BY <2>8, ConcatEmptySeq
  <2>10. Drawn(p) => Drawn(p \o r)'
    <3>1. r = SubSeq(PiecesBytes(src), 1, n) /\ n <= Len(PiecesBytes(src)) /\ n \in Nat
      BY <1>5, <1>6, <1>7, <1>9, <1>15, <2>1
    <3> QED BY <3>1, DrawnOn DEF Underway
  <2>11. Course(T, e, d) BY <1>14, <2>8
  <2>12. Drawn(Payload(T) \o d) => Drawn(Payload(T) \o r)' BY <2>8, <2>9, <2>10
  <2>13. Course(T, e, r)' BY <2>11, <2>12, Grows, CourseOn
  <2> QED BY <1>2, <2>5, <2>6, <2>7, <2>13 DEF OnCourse
<1>16. CASE l < n
  <2>1. k < n BY <1>7, <1>16
  <2>2. PICK f \in OpRecord : f = Op("fail", <<>>, 0) /\ f.op = "fail"
    <3>1. <<>> \in Seq(Token) /\ 0 \in Nat OBVIOUS
    <3>2. Op("fail", <<>>, 0) \in OpRecord /\ Op("fail", <<>>, 0).op = "fail" BY <3>1 DEF Op, OpRecord
    <3> QED BY <3>2
  <2>3. todo' = (IF r = <<>> THEN <<>> ELSE <<x>>) \o <<f>> BY <1>9, <1>10, <1>11, <2>1, <2>2
  <2>4. PICK t : /\ todo' = t /\ t # <<>> /\ t[Len(t)] = f /\ Len(t) <= 2
                 /\ Len(t) = 2 => r # <<>> /\ t[1] = x
    <3>1. PICK o \in Seq(OpRecord), v \in Seq(OpRecord), w \in Seq(OpRecord) : o = <<f>> /\ v = <<x>> /\ w = <<>>
      <4>1. <<f>> \in Seq(OpRecord) /\ <<x>> \in Seq(OpRecord) /\ <<>> \in Seq(OpRecord) BY <1>12
      <4> QED BY <4>1
    <3>2. Len(o) = 1 /\ o[1] = f /\ Len(v) = 1 /\ v[1] = x BY <3>1
    <3>3. CASE r = <<>>
      <4>1. w \o o = o BY <3>1, ConcatEmptySeq
      <4>2. todo' = o /\ o # <<>> BY <2>3, <3>1, <3>2, <3>3, <4>1
      <4>3. o[Len(o)] = f /\ Len(o) <= 2 /\ Len(o) # 2 BY <3>2
      <4> QED BY <4>2, <4>3
    <3>4. CASE r # <<>>
      <4>1. PICK t : t = v \o o OBVIOUS
      <4>2. Len(t) = 2 /\ t[1] = x /\ t[2] = f
        <5>1. Len(t) = Len(v) + Len(o) /\ (\A i \in 1..Len(v) : t[i] = v[i]) /\ \A i \in 1..Len(o) : t[Len(v) + i] = o[i]
          BY <4>1, Places
        <5> QED BY <3>2, <5>1
      <4>3. todo' = t BY <2>3, <3>1, <3>4, <4>1
      <4>4. t # <<>>
        <5>1. t \in Seq(OpRecord) BY <4>1, Places
        <5>2. PICK two \in Nat \ {0} : two = 2 /\ Len(t) = two BY <4>2
        <5> QED BY <5>1, <5>2, NotEmpty
      <4>5. t[Len(t)] = f /\ Len(t) <= 2 BY <4>2
      <4> QED BY <3>4, <4>2, <4>3, <4>4, <4>5
    <3> QED BY <3>3, <3>4
  <2>5. PICK m \in Nat : m = n /\ k <= m BY <1>5, <2>1
  <2>6. Fine(T, m)
    <3>1. DebtAt(Ops, e) = n BY <1>3 DEF DebtAt, Debt, KindOf
    <3> QED BY <1>14, <2>5, <3>1 DEF Course
  <2>7. Fine(Committed, m)'
    <3>1. Fine(T, m)' BY <2>6, Grows, FineKept
    <3> QED BY <1>2, <3>1
  <2>8. Positions(T, "zero") = {}
    <3>1. KindOf(Ops[e]) = "data" BY <1>3 DEF KindOf
    <3>2. Passed(Ops, T, e) BY <1>14 DEF Course
    <3>3. e \in Nat BY <1>1
    <3>4. e >= e BY <3>3
    <3> QED BY <3>1, <3>2, <3>4 DEF Passed
  <2>9. (Positions(Committed, "zero") = {})' BY <1>2, <2>8
  <2>10. Last(t).op = "fail" BY <2>2, <2>4 DEF Last
  <2>11. Len(t) = 2 => x.op = "put" /\ Len(x.toks) <= m /\ \A i \in DOMAIN x.toks : x.toks[i][1] = "byte"
    BY <1>13, <2>4, <2>5
  <2>12. Len(t) = 2 => t[1] = x BY <2>4
  <2> QED BY <2>4, <2>7, <2>9, <2>10, <2>11, <2>12 DEF Lame
<1> QED BY <1>5, <1>15, <1>16

-----------------------------------------------------------------------------
(* Steps while the response is written *)

\* Where writing a response begins.
LEMMA BeginCourse ==
    ASSUME Ready, NEW T, T \in {<<>>, Announced}, resp.stream => Drawn(<<>>)
    PROVE  Course(T, 1, <<>>) /\ T \in Seq(Token)
<1>1. T \in Seq(Token) /\ Len(T) \in {0, 1} /\ DOMAIN T = 1..Len(T) /\ \A i \in DOMAIN T : T[i][1] = "continue"
  <2>1. PICK tok \in Token : tok = <<"continue", 100>>
    <3>1. \A k \in {"continue"}, n \in Int : <<k, n>> \in Token BY DEF Token
    <3>2. <<"continue", 100>> \in Token BY <3>1
    <3> QED BY <3>2
  <2>2. CASE T = <<>> BY <2>2
  <2>3. CASE T = Announced
    <3>1. T = <<tok>> /\ tok[1] = "continue" BY <2>1, <2>3 DEF Announced
    <3>2. <<tok>> \in Seq(Token) /\ Len(<<tok>>) = 1 /\ DOMAIN <<tok>> = 1..1 /\ \A i \in 1..1 : <<tok>>[i] = tok
      OBVIOUS
    <3> QED BY <3>1, <3>2
  <2> QED BY <2>2, <2>3
<1>2. /\ Positions(T, "size") = {} /\ Positions(T, "zero") = {} /\ Positions(T, "byte") = {}
      /\ Positions(T, "head") = {}
  BY <1>1 DEF Positions
<1>3. Payload(T) = <<>>
  <2>1. \A i \in DOMAIN T : T[i][1] # "byte" BY <1>1
  <2> QED BY <1>1, <2>1, PayloadNone
<1>4. AtMostOnce(T, "continue") /\ AtMostOnce(T, "head")
  <2>1. \A i, j \in DOMAIN T : i = j BY <1>1
  <2> QED BY <2>1 DEF AtMostOnce, Positions
<1>5. PICK m : m = DebtAt(Ops, 1) OBVIOUS
<1>6. Fine(T, m) BY <1>2, <1>4 DEF Fine, Framed, LastZero
<1>7. Ops \in Seq(OpRecord) BY ReadyOps
<1>8. Passed(Ops, T, 1)
  <2>1. \A k \in DOMAIN Ops : ~(k < 1) BY <1>7
  <2>2. (1 > 1) = FALSE OBVIOUS
  <2> QED BY <1>2, <2>1, <2>2 DEF Passed
<1>9. Accounted(T, 1, <<>>)
  <2>1. CASE resp.stream
    <3>1. PICK c \in Nat : c = resp.plan.count BY <2>1, ReadyOps
    <3>2. Len(Payload(T)) = 0 BY <1>3
    <3>3. Counted(resp.plan, 0, 1)
      <4>1. \A i \in 0..(c - 1) : ~(1 \in (4 + 5 * i)..(6 + 5 * i)) /\ ~(1 \in (7 + 5 * i)..(8 + 5 * i)) OBVIOUS
      <4>2. 1 # 4 + 5 * c OBVIOUS
      <4> QED BY <3>1, <4>1, <4>2 DEF Counted
    <3>4. 1 <= 4 + 5 * c /\ ~(1 > 4 + 5 * c) OBVIOUS
    <3>5. Payload(T) \o <<>> = <<>> BY <1>3
    <3> QED BY <2>1, <3>1, <3>2, <3>3, <3>4, <3>5 DEF Accounted, VerifyPlace
  <2>2. CASE resp.stream = FALSE
    <3>1. ~(1 > 4) OBVIOUS
    <3> QED BY <1>3, <2>2, <3>1 DEF Accounted
  <2>3. resp.stream \in BOOLEAN BY DEF Ready, ResponseRecord
  <2> QED BY <2>1, <2>2, <2>3
<1>10. Latest(Ops, T, 1) BY <1>7 DEF Latest
<1> QED BY <1>1, <1>5, <1>6, <1>8, <1>9, <1>10 DEF Course

\* What is known while a response is written.
LEMMA IsReady ==
    ASSUME IndInv, Echoed
    PROVE  Ready
BY DEF IndInv, Echoed, Answering, Ready

\* A response that is being written is underway: all its parts are typed.
LEMMA IsUnderway ==
    ASSUME IndInv, Echoed, Delivering, todo # <<>>
    PROVE  Underway
BY IsReady DEF IndInv, Writing, Buffering, Answering, Delivering, Sourcing, Underway

\* Writing begins.
LEMMA RespondTravels ==
    ASSUME IndInv, Echoed, Delivering, Respond
    PROVE  OnCourse'
<1>1. /\ pc = "respond" /\ pc' = "write" /\ todo' = Ops /\ io' = io /\ Standing /\ sent' = sent /\ wbuf' = wbuf
  BY DEF Respond, Ops, Standing, writing
<1>2. Ready /\ Ops \in Seq(OpRecord) BY IsReady, ReadyOps
<1>3. wbuf = <<>> /\ io # "out" BY <1>1 DEF IndInv, Buffering
<1>4. PICK T : T = sent /\ T \in {<<>>, Announced} BY <1>1 DEF Delivering, Announcing
<1>5. Course(T, 1, <<>>) /\ T \in Seq(Token)
  <2>1. resp.stream => Drawn(<<>>) BY <1>1 DEF Delivering, Sourcing
  <2> QED BY <1>2, <1>4, <2>1, BeginCourse
<1>6. Committed' = T
  <2>1. T \o <<>> = T BY <1>5, ConcatEmptySeq
  <2> QED BY <1>1, <1>3, <1>4, <2>1 DEF Committed
<1>7. Ops' = Ops BY <1>1 DEF Standing, Ops
<1>8. PICK q \in Seq(OpRecord) : q = Ops BY <1>2
<1>9. Place' = 1
  <2>1. Len(q) \in Nat /\ Len(q) - Len(q) + 1 = 1 BY <1>8
  <2> QED BY <1>1, <1>7, <1>8, <2>1 DEF Place
<1>10. Aligned'
  <2>1. \A j \in 2..Len(q) : q[j] = q[1 + j - 1]
    <3>1. \A j \in 2..Len(q) : 1 + j - 1 = j OBVIOUS
    <3> QED BY <3>1
  <2>2. Len(q) <= Len(q) OBVIOUS
  <2>3. Begun(todo[1], Ops[Place])' BY <1>1, <1>7, <1>8, <1>9 DEF Begun
  <2> QED BY <1>1, <1>7, <1>8, <1>9, <2>1, <2>2, <2>3 DEF Aligned
<1>11. Pending' = <<>> BY <1>1, <1>7, <1>8, <1>9 DEF Pending
<1>12. PICK e, d : e = 1 /\ d = <<>> OBVIOUS
<1>13. Course(T, e, d)'
  <2>1. Course(T, e, d) BY <1>5, <1>12
  <2> QED BY <1>1, <2>1, CourseKept DEF Standing
<1>14. Reached' = e BY <1>1, <1>3, <1>9, <1>12 DEF Reached
<1> QED BY <1>6, <1>10, <1>11, <1>12, <1>13, <1>14 DEF OnCourse

\* What an operation that is not the last one leaves.
LEMMA GoesOn ==
    ASSUME Writing, todo # <<>>, Head(todo).op \notin {"flush", "fail"}
    PROVE  Tail(todo) # <<>>
BY Rest DEF Writing

\* What is written stays the same when a buffer takes the place of another.
LEMMA SameTokens ==
    ASSUME NEW a \in Seq(Token), NEW b \in Seq(Token), NEW c \in Seq(Token)
    PROVE  (a \o b) \o c = a \o (b \o c) /\ (a \o b) \o <<>> = a \o b /\ ((a \o b) \o c) \o <<>> = (a \o b) \o c
<1>1. (a \o b) \o c = a \o (b \o c) BY ConcatAssociative
<1>2. PICK ab \in Seq(Token) : ab = a \o b BY ConcatProperties
<1>3. PICK abc \in Seq(Token) : abc = ab \o c BY ConcatProperties
<1>4. ab \o <<>> = ab /\ abc \o <<>> = abc BY ConcatEmptySeq
<1> QED BY <1>1, <1>2, <1>3, <1>4

\* A write of the response: the tokens are in the buffer, or on their way behind it.
LEMMA WritePutTravels ==
    ASSUME IndInv, Echoed, Delivering, WritePut, pc' = "write"
    PROVE  OnCourse' \/ Lame'
<1>1. /\ pc = "write" /\ io # "out" /\ todo # <<>> /\ Head(todo).op = "put" BY DEF WritePut, At
<1>2. ~Refused BY <1>1 DEF WritePut, WriteFails, Leave
<1>3. OnCourse \/ Lame BY <1>1, <1>2 DEF Delivering, Travelling, Refused
<1>4. Underway BY <1>1, IsUnderway
<1>5. PICK x \in OpRecord : x = Head(todo) BY <1>1, <1>4, Rest DEF Underway
<1>6. PICK t \in Seq(Token) : t = x.toks BY <1>5 DEF OpRecord
<1>7. Standing /\ Onward /\ Committed' = (sent \o wbuf) \o t
  <2>1. CASE Len(wbuf) + Len(Head(todo).toks) <= BufferSize
    <3>1. /\ wbuf' = wbuf \o t /\ todo' = Tail(todo) /\ io' = io /\ sent' = sent /\ Standing
      BY <1>2, <1>5, <1>6, <2>1 DEF WritePut, Done, Standing
    <3>2. (sent \o wbuf) \o t = sent \o (wbuf \o t) BY <1>4, SameTokens DEF Underway
    <3> QED BY <1>1, <3>1, <3>2 DEF Onward, Committed
  <2>2. CASE ~(Len(wbuf) + Len(Head(todo).toks) <= BufferSize)
    <3>1. /\ net' = wbuf /\ after' = t /\ todo' = todo /\ io' = "out" /\ sent' = sent /\ Standing
      BY <1>2, <1>5, <1>6, <2>2 DEF WritePut, Standing, serving
    <3> QED BY <3>1 DEF Onward, Committed
  <2> QED BY <2>1, <2>2
<1>8. Committed' = Committed \o Head(todo).toks BY <1>1, <1>5, <1>6, <1>7 DEF Committed
<1> QED BY <1>1, <1>3, <1>4, <1>7, <1>8, PutAlong

\* A flush.
LEMMA WriteFlushTravels ==
    ASSUME IndInv, Echoed, Delivering, WriteFlush, pc' = "write"
    PROVE  OnCourse' \/ Lame'
<1>1. /\ pc = "write" /\ io # "out" /\ todo # <<>> /\ Head(todo).op = "flush" BY DEF WriteFlush, At
<1>2. ~Refused BY <1>1 DEF WriteFlush, WriteFails, Leave
<1>3. OnCourse \/ Lame BY <1>1, <1>2 DEF Delivering, Travelling, Refused
<1>4. Underway BY <1>1, IsUnderway
<1>5. Standing /\ Onward /\ Committed' = sent \o wbuf
  <2>1. CASE wbuf = <<>>
    <3>1. /\ wbuf' = wbuf /\ todo' = Tail(todo) /\ io' = io /\ sent' = sent /\ Standing
      BY <1>2, <2>1 DEF WriteFlush, Done, Standing
    <3> QED BY <1>1, <3>1 DEF Onward, Committed
  <2>2. CASE wbuf # <<>>
    <3>1. /\ net' = wbuf /\ after' = <<>> /\ todo' = todo /\ io' = "out" /\ sent' = sent /\ Standing
      BY <1>2, <2>2 DEF WriteFlush, Standing, serving
    <3>2. (sent \o wbuf) \o <<>> = sent \o wbuf BY <1>4, SameTokens DEF Underway
    <3> QED BY <3>1, <3>2 DEF Onward, Committed
  <2> QED BY <2>1, <2>2
<1>6. Committed' = Committed BY <1>1, <1>5 DEF Committed
<1> QED BY <1>1, <1>3, <1>4, <1>5, <1>6, PassAlong

\* An operation done in memory that writes nothing.
LEMMA QuietTravels ==
    ASSUME IndInv, Echoed, Delivering, pc' = "write", Open \/ CloseReader \/ Wait \/ Sleep \/ Verify
    PROVE  todo' # <<>> /\ wclosed' = wclosed /\ (~wclosed => OnCourse' \/ Lame')
<1>1. /\ pc = "write" /\ io # "out" /\ todo # <<>> /\ Head(todo).op \in {"open", "release", "wait", "sleep", "verify"}
  BY DEF Open, CloseReader, Wait, Sleep, Verify, At
<1>2. Underway BY <1>1, IsUnderway
<1>3. \/ Done(Tail(todo)) /\ Head(todo).op # "wait"
      \/ Head(todo).op \in {"wait", "sleep"} /\ DeadlinePassed /\ Done(Stopped)
      \/ Head(todo).op = "wait" /\ Done(<<[Head(todo) EXCEPT !.op = "sleep"]>> \o Tail(todo))
  BY DEF Open, CloseReader, Wait, Sleep, Verify, At, WriteFails, Leave
<1>4. src' = src /\ wbuf' = wbuf
  <2>1. CASE Open BY <2>1 DEF Open, WriteFails, Leave
  <2>2. CASE CloseReader BY <2>2 DEF CloseReader
  <2>3. CASE Wait BY <2>3 DEF Wait, WriteFails, Leave
  <2>4. CASE Sleep BY <2>4 DEF Sleep, WriteFails, Leave
  <2>5. CASE Verify BY <2>5 DEF Verify, WriteFails, Leave
  <2> QED BY <2>1, <2>2, <2>3, <2>4, <2>5
<1>5. /\ io' = io /\ wclosed' = wclosed /\ sent' = sent /\ net' = net /\ after' = after
      /\ resp' = resp /\ req' = req /\ tmpl' = tmpl /\ edited' = edited
  BY <1>3 DEF Done, closing
<1>6. Standing /\ Committed' = Committed BY <1>4, <1>5 DEF Standing, Committed
<1>7. ~wclosed => OnCourse \/ Lame BY <1>1 DEF Delivering, Travelling
<1>8. Writing /\ Releases(todo) /\ Ends(todo) /\ todo \in Seq(OpRecord) BY DEF IndInv, Writing
<1>9. CASE Done(Tail(todo)) /\ Head(todo).op # "wait"
  <2>1. todo' = Tail(todo) BY <1>9 DEF Done
  <2>2. todo' # <<>> BY <1>1, <1>8, <2>1, GoesOn
  <2>3. Onward BY <1>1, <1>5, <2>1 DEF Onward
  <2>4. CASE Head(todo).op # "verify"
    <3>1. ~wclosed => OnCourse' BY <1>1, <1>2, <1>6, <1>7, <1>9, <2>3, <2>4, PassAlong
    <3> QED BY <1>5, <2>2, <3>1
  <2>5. CASE Head(todo).op = "verify"
    <3>1. Verify BY <2>5 DEF Open, CloseReader, Wait, Sleep, At
    <3>2. resp.plan.bytes = resp.plan.source => PiecesBytes(src) = <<>>
      BY <1>1, <3>1 DEF Verify, WriteFails, Leave
    <3>3. ~wclosed => OnCourse' BY <1>1, <1>2, <1>5, <1>6, <1>7, <2>1, <2>5, <3>2, VerifyAlong
    <3> QED BY <1>5, <2>2, <3>3
  <2> QED BY <2>4, <2>5
<1>10. CASE Head(todo).op \in {"wait", "sleep"} /\ DeadlinePassed /\ Done(Stopped)
  <2>1. todo' = Stopped BY <1>10 DEF Done
  <2>2. todo' # <<>> BY <1>1, <1>8, <1>10, <2>1, Stopping
  <2>3. ~wclosed => OnCourse' BY <1>1, <1>2, <1>5, <1>6, <1>7, <1>8, <1>10, <2>1, StopAlong
  <2> QED BY <1>5, <2>2, <2>3
<1>11. CASE Head(todo).op = "wait" /\ Done(<<[Head(todo) EXCEPT !.op = "sleep"]>> \o Tail(todo))
  <2>1. todo' = <<[Head(todo) EXCEPT !.op = "sleep"]>> \o Tail(todo) BY <1>11 DEF Done
  <2>2. todo' # <<>> BY <1>1, <1>8, <1>11, <2>1, Asleep
  <2>3. ~wclosed => OnCourse' BY <1>1, <1>2, <1>5, <1>6, <1>7, <1>11, <2>1, SleepAlong
  <2> QED BY <1>5, <2>2, <2>3
<1> QED BY <1>3, <1>9, <1>10, <1>11

\* Bytes are read from the source.
LEMMA DataTravels ==
    ASSUME IndInv, Echoed, Delivering, Data
    PROVE  todo' # <<>> /\ wclosed' = wclosed /\ (~wclosed => OnCourse' \/ Lame')
<1>1. /\ pc = "write" /\ io # "out" /\ todo # <<>> /\ Head(todo).op = "data" BY DEF Data, At
<1>2. Underway BY <1>1, IsUnderway
<1>3. Writing /\ Answering /\ todo \in Seq(OpRecord) BY DEF IndInv, Writing
<1>4. src' \in Pieces /\ todo' # <<>> BY <1>3, Sending
<1>5. PICK n : n = Head(todo).n OBVIOUS
<1>6. PICK read : read = SubSeq(PiecesBytes(src), 1, LeastOf(n, Len(PiecesBytes(src)))) OBVIOUS
<1>7. /\ src' = Remaining(n)
      /\ Done((IF read = <<>> THEN <<>> ELSE <<Put(Bytes("byte", read))>>)
              \o (IF Len(read) < n THEN <<Op("fail", <<>>, 0)>> ELSE Tail(todo)))
      /\ wbuf' = wbuf
  BY <1>5, <1>6 DEF Data
<1>8. /\ todo' = (IF read = <<>> THEN <<>> ELSE <<Put(Bytes("byte", read))>>)
              \o (IF Len(read) < n THEN <<Op("fail", <<>>, 0)>> ELSE Tail(todo))
      /\ io' = io /\ wclosed' = wclosed /\ sent' = sent /\ net' = net /\ after' = after
      /\ resp' = resp /\ req' = req /\ tmpl' = tmpl /\ edited' = edited
  BY <1>7 DEF Done, closing
<1>9. Committed' = Committed BY <1>7, <1>8 DEF Committed
<1>10. src # <<>>
  <2>1. Head(todo) = todo[1] /\ 1 \in DOMAIN todo BY <1>1, <1>3
  <2>2. ~Dataless(todo) BY <1>1, <2>1 DEF Dataless
  <2> QED BY <1>3, <2>2 DEF Writing
<1>11. ASSUME ~wclosed  PROVE OnCourse' \/ Lame'
  <2>1. OnCourse \/ Lame BY <1>1, <1>11 DEF Delivering, Travelling
  <2> QED BY <1>1, <1>2, <1>4, <1>5, <1>6, <1>7, <1>8, <1>9, <1>10, <2>1, DataAlong
<1> QED BY <1>4, <1>8, <1>11

\* A socket operation ends.
LEMMA NetDoneTravels ==
    ASSUME IndInv, Echoed, Delivering, NetDone, pc' = "write"
    PROVE  OnCourse' \/ Lame'
<1>1. io = "out" /\ pc = "write" BY DEF NetDone, IndInv, Buffering
<1>2. todo # <<>> /\ Head(todo).op \in {"put", "flush"} /\ ~wclosed BY <1>1 DEF IndInv, Buffering, Meeting
<1>3. OnCourse \/ Lame BY <1>1, <1>2 DEF Delivering, Travelling
<1>4. Underway BY <1>2, IsUnderway
<1>5. Standing /\ sent' = sent \o net BY DEF NetDone, Standing
<1>6. Committed = (sent \o net) \o after BY <1>1 DEF Committed
<1>7. CASE Len(after) >= BufferSize
  <2>1. net' = after /\ after' = <<>> /\ todo' = todo /\ io' = io BY <1>7 DEF NetDone
  <2>2. ((sent \o net) \o after) \o <<>> = (sent \o net) \o after BY <1>4, SameTokens DEF Underway
  <2>3. Committed' = Committed BY <1>1, <1>5, <1>6, <2>1, <2>2 DEF Committed
  <2> QED BY <1>3, <1>5, <2>1, <2>3, StandAlong
<1>8. CASE ~(Len(after) >= BufferSize)
  <2>1. wbuf' = after /\ todo' = Tail(todo) /\ io' = "none" BY <1>1, <1>8 DEF NetDone
  <2>2. Committed' = Committed BY <1>5, <1>6, <2>1 DEF Committed
  <2> QED BY <1>1, <1>2, <1>3, <1>4, <1>5, <2>1, <2>2, NetAlong
<1> QED BY <1>7, <1>8

\* What is written stays on course.
LEMMA StepTravelling ==
    ASSUME IndInv, IndInv', Echoed, Delivering, Next
    PROVE  Travelling'
<1>away. ASSUME pc' # "write"  PROVE Travelling' BY <1>away DEF Travelling
<1>along. ASSUME OnCourse' \/ Lame'  PROVE Travelling' BY <1>along DEF Travelling
<1>shut. ASSUME todo' # <<>>, wclosed' = wclosed, ~wclosed => OnCourse' \/ Lame'  PROVE Travelling'
  BY <1>shut DEF Travelling
<1>same. ASSUME pc' = pc, Standing, UNCHANGED <<todo, io, writing>>, wclosed' = wclosed  PROVE Travelling'
  <2>1. Committed' = Committed BY <1>same DEF Committed, writing
  <2>2. OnCourse \/ Lame => OnCourse' \/ Lame' BY <1>same, <2>1, StandAlong
  <2> QED BY <1>same, <2>2 DEF Delivering, Travelling
<1>1. CASE ReadBegins
  <2>1. pc' # "write" BY <1>1 DEF ReadBegins, ReadError, ProcessFails, Leave
  <2> QED BY <1>away, <2>1
<1>2. CASE ReadToken
  <2>1. pc' # "write" BY <1>2 DEF ReadToken, ReadError, ProcessFails, Leave, BodyEnds
  <2> QED BY <1>away, <2>1
<1>3. CASE Serve
  <2>1. pc' # "write" BY <1>3 DEF Serve, ProcessFails
  <2> QED BY <1>away, <2>1
<1>4. CASE Continue
  <2>1. pc' # "write" BY <1>4 DEF Continue, ProcessFails
  <2> QED BY <1>away, <2>1
<1>5. CASE DelayCancelled
  <2>1. pc' # "write" BY <1>5 DEF DelayCancelled, ProcessFails
  <2> QED BY <1>away, <2>1
<1>6. CASE Build
  <2>1. pc' # "write" BY <1>6 DEF Build, ProcessFails
  <2> QED BY <1>away, <2>1
<1>7. CASE Post
  <2>1. pc' # "write" BY <1>7 DEF Post
  <2> QED BY <1>away, <2>1
<1>8. CASE Respond BY <1>8, <1>along, RespondTravels
<1>9. CASE WritePut BY <1>9, <1>away, <1>along, WritePutTravels
<1>10. CASE WriteFlush BY <1>10, <1>away, <1>along, WriteFlushTravels
<1>11. CASE Open \/ CloseReader \/ Wait \/ Sleep \/ Verify BY <1>11, <1>away, <1>shut, QuietTravels
<1>12. CASE Data BY <1>12, <1>shut, DataTravels
<1>13. CASE SourceShort
  <2>1. pc' # "write" BY <1>13 DEF SourceShort, WriteFails, Leave
  <2> QED BY <1>away, <2>1
<1>14. CASE Written
  <2>1. pc' # "write" BY <1>14 DEF Written, Leave
  <2> QED BY <1>away, <2>1
<1>15. CASE Over
  <2>1. pc' # "write" BY <1>15 DEF Over
  <2> QED BY <1>away, <2>1
<1>16. CASE ReadFails
  <2>1. pc' # "write" BY <1>16 DEF ReadFails, ReadError, ProcessFails, Leave
  <2> QED BY <1>away, <2>1
<1>17. CASE NetDone BY <1>17, <1>away, <1>along, NetDoneTravels
<1>18. CASE NetFails
  <2>1. pc' # "write" BY <1>18 DEF NetFails, ProcessFails, WriteFails, Leave
  <2> QED BY <1>away, <2>1
<1>19. CASE CtxEnds
  <2>1. pc' = pc /\ Standing /\ UNCHANGED <<todo, io, writing>> /\ wclosed' = wclosed
    BY <1>19 DEF CtxEnds, Standing, closing
  <2> QED BY <1>same, <2>1
<1>20. CASE Tick
  <2>1. pc' = pc /\ Standing /\ UNCHANGED <<todo, io, writing>> /\ wclosed' = wclosed
    BY <1>20 DEF Tick, Standing, closing, serving
  <2> QED BY <1>same, <2>1
<1>21. CASE FileChanges
  <2>1. pc' = pc /\ todo' = todo /\ wclosed' = wclosed BY <1>21 DEF FileChanges, closing
  <2>2. /\ Ready /\ src \in Pieces /\ src' \in Pieces /\ edited \in EditCounts /\ todo \in Seq(OpRecord)
        /\ sent \in Seq(Token) /\ net \in Seq(Token) /\ wbuf \in Seq(Token) /\ after \in Seq(Token)
    BY IsReady DEF IndInv, Answering, Writing, Buffering, Delivering, Sourcing
  <2>3. OnCourse \/ Lame => OnCourse' \/ Lame' BY <1>21, <2>2, EditAlong
  <2> QED BY <2>1, <2>3 DEF Delivering, Travelling
<1>22. CASE StopBegins
  <2>1. pc' = pc /\ Standing /\ UNCHANGED <<todo, io, writing>> /\ wclosed' = wclosed
    BY <1>22 DEF StopBegins, Standing, handling, serving
  <2> QED BY <1>same, <2>1
<1>23. ASSUME NEW c \in Closers, CloseSocket(c) \/ EnterOnce(c) \/ CloseReaderBuffer(c)  PROVE Travelling'
  <2>1. pc' = pc /\ Standing /\ UNCHANGED <<todo, io, writing>> /\ wclosed' = wclosed
    BY <1>23 DEF CloseSocket, EnterOnce, CloseReaderBuffer, Standing, handling, serving
  <2> QED BY <1>same, <2>1
<1>24. ASSUME NEW c \in Closers, CloseWriter(c)  PROVE Travelling'
  <2>1. pc' = pc /\ Standing /\ todo' = todo /\ io' = io /\ wclosed' = TRUE /\ wbuf' = <<>> /\ sent' = sent
    BY <1>24 DEF CloseWriter, Standing, handling, serving
  <2>2. io # "out" BY <1>24 DEF CloseWriter
  <2>3. CASE pc = "write" /\ todo = <<>>
    <3>1. wbuf = <<>> BY <2>3 DEF IndInv, Buffering
    <3>2. Committed' = Committed BY <2>1, <2>2, <3>1 DEF Committed
    <3>3. OnCourse \/ Lame BY <2>3 DEF Delivering, Travelling
    <3>4. OnCourse' \/ Lame' BY <2>1, <3>2, <3>3, StandAlong
    <3> QED BY <1>along, <3>4
  <2>4. CASE ~(pc = "write" /\ todo = <<>>) BY <2>1, <2>4 DEF Travelling
  <2> QED BY <2>3, <2>4
<1>25. CASE Finished
  <2>1. pc' = pc /\ Standing /\ UNCHANGED <<todo, io, writing>> /\ wclosed' = wclosed
    BY <1>25 DEF Finished, vars, Standing, serving, closing
  <2> QED BY <1>same, <2>1
<1> QED
  BY <1>1, <1>2, <1>3, <1>4, <1>5, <1>6, <1>7, <1>8, <1>9, <1>10, <1>11, <1>12, <1>13, <1>14, <1>15, <1>16,
     <1>17, <1>18, <1>19, <1>20, <1>21, <1>22, <1>23, <1>24, <1>25
     DEF Next, Handle, Environment, Close

-----------------------------------------------------------------------------
(* Steps before and after *)

\* The tokens of 100 Continue.
LEMMA AnnouncedTyped ==
    /\ Announced \in Seq(Token) /\ <<>> \in Seq(Token) /\ Append(<<>>, <<"continue", 100>>) = Announced
    /\ <<>> \o Announced = Announced /\ Len(Announced) = 1
    /\ \A n \in 0..1 : <<>> \o SubSeq(Announced, 1, n) \in {<<>>, Announced}
<1>1. PICK tok \in Token : tok = <<"continue", 100>>
  <2>1. \A k \in {"continue"}, n \in Int : <<k, n>> \in Token BY DEF Token
  <2>2. <<"continue", 100>> \in Token BY <2>1
  <2> QED BY <2>2
<1>2. Announced = <<tok>> BY <1>1 DEF Announced
<1>3. <<tok>> \in Seq(Token) /\ <<>> \in Seq(Token) /\ Append(<<>>, tok) = <<tok>> /\ <<>> \o <<tok>> = <<tok>> /\ Len(<<tok>>) = 1
  OBVIOUS
<1>4. ASSUME NEW n \in 0..1  PROVE <<>> \o SubSeq(<<tok>>, 1, n) \in {<<>>, <<tok>>}
  <2>1. CASE n = 0
    <3>1. SubSeq(<<tok>>, 1, 0) = <<>> /\ <<>> \o <<>> = <<>> OBVIOUS
    <3> QED BY <2>1, <3>1
  <2>2. CASE n = 1
    <3>1. PICK s \in Seq(Token) : s = <<tok>> /\ Len(s) = 1 BY <1>3
    <3>2. SubSeq(s, 1, Len(s)) = s BY SubSeqFull
    <3>3. SubSeq(<<tok>>, 1, 1) = <<tok>> BY <3>1, <3>2
    <3> QED BY <1>3, <2>2, <3>3
  <2> QED BY <2>1, <2>2
<1> QED BY <1>1, <1>2, <1>3, <1>4

\* What happens to the tokens: only the socket brings some to the client.
LEMMA OnTheNet ==
    ASSUME Next
    PROVE  \/ sent' = sent /\ net' = net
           \/ Continue /\ io' = "out" /\ sent' = sent /\ net' = Append(wbuf, <<"continue", 100>>)
           \/ (WritePut \/ WriteFlush) /\ pc' = "write" /\ sent' = sent /\ net' = wbuf
           \/ NetDone \/ NetFails
<1> USE DEF At, ReadError, ProcessFails, WriteFails, Done, BodyEnds, Step, writing, handling
<1>1. CASE ReadBegins BY <1>1 DEF ReadBegins
<1>2. CASE ReadToken BY <1>2 DEF ReadToken
<1>3. CASE Serve BY <1>3 DEF Serve
<1>4. CASE Continue BY <1>4 DEF Continue
<1>5. CASE DelayCancelled BY <1>5 DEF DelayCancelled
<1>6. CASE Build BY <1>6 DEF Build
<1>7. CASE Post BY <1>7 DEF Post
<1>8. CASE Respond BY <1>8 DEF Respond
<1>9. CASE WritePut BY <1>9 DEF WritePut
<1>10. CASE WriteFlush BY <1>10 DEF WriteFlush
<1>11. CASE Open \/ CloseReader \/ Wait \/ Sleep \/ Verify BY <1>11 DEF Open, CloseReader, Wait, Sleep, Verify
<1>12. CASE Data BY <1>12 DEF Data
<1>13. CASE SourceShort \/ Written \/ Over BY <1>13 DEF SourceShort, Written, Over
<1>14. CASE ReadFails \/ CtxEnds \/ Tick \/ FileChanges \/ StopBegins
  BY <1>14 DEF ReadFails, CtxEnds, Tick, FileChanges, StopBegins
<1>15. ASSUME NEW c \in Closers, Close(c)  PROVE sent' = sent /\ net' = net
  BY <1>15 DEF Close, CloseSocket, EnterOnce, CloseWriter, CloseReaderBuffer
<1>16. CASE Finished BY <1>16 DEF Finished, vars
<1> QED
  BY <1>1, <1>2, <1>3, <1>4, <1>5, <1>6, <1>7, <1>8, <1>9, <1>10, <1>11, <1>12, <1>13, <1>14, <1>15, <1>16
     DEF Next, Handle, Environment

\* Where the handler goes before the response is written.
LEMMA Before ==
    ASSUME IndInv, Next
    PROVE  /\ pc' \in {"preview", "body", "serve", "continue"} => pc \in {"preview", "body", "serve", "continue"}
           /\ pc' \in {"rest", "delay", "post", "respond"} =>
                 pc \in {"preview", "body", "serve", "continue", "rest", "delay", "post", "respond"}
           /\ pc' = "continue" /\ io' = "out" => Continue \/ NetDone \/ (pc = "continue" /\ io = "out")
           /\ pc' \in {"preview", "body", "serve", "continue", "rest", "delay", "post"} => pc # "respond"
           /\ pc' \in {"preview", "body", "serve", "continue", "rest", "delay"} => pc # "post"
<1> USE DEF At, ReadError, ProcessFails, WriteFails, Done, BodyEnds, Step, handling, Leave
<1>1. CASE ReadBegins BY <1>1 DEF ReadBegins
<1>2. CASE ReadToken BY <1>2 DEF ReadToken
<1>3. CASE Serve BY <1>3 DEF Serve, IndInv, Buffering
<1>4. CASE Continue BY <1>4 DEF Continue
<1>5. CASE DelayCancelled BY <1>5 DEF DelayCancelled
<1>6. CASE Build BY <1>6 DEF Build
<1>7. CASE Post BY <1>7 DEF Post
<1>8. CASE Respond BY <1>8 DEF Respond
<1>9. CASE WritePut BY <1>9 DEF WritePut
<1>10. CASE WriteFlush BY <1>10 DEF WriteFlush
<1>11. CASE Open \/ CloseReader \/ Wait \/ Sleep \/ Verify BY <1>11 DEF Open, CloseReader, Wait, Sleep, Verify
<1>12. CASE Data BY <1>12 DEF Data
<1>13. CASE SourceShort \/ Written \/ Over BY <1>13 DEF SourceShort, Written, Over
<1>14. CASE ReadFails BY <1>14 DEF ReadFails, IndInv, Buffering
<1>15. CASE CtxEnds \/ Tick \/ FileChanges \/ StopBegins
  BY <1>15 DEF CtxEnds, Tick, FileChanges, StopBegins
<1>16. CASE NetDone BY <1>16 DEF NetDone, IndInv, Buffering
<1>17. CASE NetFails BY <1>17 DEF NetFails, IndInv, Buffering
<1>18. ASSUME NEW c \in Closers, Close(c)  PROVE pc' = pc /\ io' = io
  BY <1>18 DEF Close, CloseSocket, EnterOnce, CloseWriter, CloseReaderBuffer
<1>19. CASE Finished BY <1>19 DEF Finished, vars
<1> QED
  BY <1>1, <1>2, <1>3, <1>4, <1>5, <1>6, <1>7, <1>8, <1>9, <1>10, <1>11, <1>12, <1>13, <1>14, <1>15, <1>16,
     <1>17, <1>18, <1>19
     DEF Next, Handle, Environment

\* What was announced before the response is 100 Continue, once.
LEMMA StepAnnouncing ==
    ASSUME IndInv, Delivering, Next
    PROVE  Announcing' /\ sent' \in Seq(Token) /\ net' \in Seq(Token)
<1>1. /\ pc \in {"preview", "body", "serve", "continue"} => sent = <<>>
      /\ pc \in {"rest", "delay", "post", "respond"} => sent \in {<<>>, Announced}
      /\ pc = "continue" /\ io = "out" => net = Announced
      /\ sent \in Seq(Token) /\ net \in Seq(Token) /\ wbuf \in Seq(Token) /\ after \in Seq(Token)
  BY DEF Delivering, Announcing, IndInv, Buffering
<1>2. CASE sent' = sent /\ net' = net
  <2>1. CASE ~(Continue /\ io' = "out") /\ ~NetDone BY <1>1, <1>2, <2>1, Before DEF Announcing
  <2>2. CASE Continue /\ io' = "out"
    <3>1. net' = Append(wbuf, <<"continue", 100>>) /\ pc = "continue" BY <2>2 DEF Continue, ProcessFails
    <3>2. wbuf = <<>> BY <3>1 DEF IndInv, Buffering
    <3> QED BY <1>1, <1>2, <3>1, <3>2, AnnouncedTyped, Before DEF Announcing
  <2>3. CASE NetDone
    <3>1. pc' # "continue"
      <4>1. pc = "continue" => after = <<>> /\ BufferSize \in Nat \ {0}
        BY <2>3, ExchangeAssumption DEF NetDone, IndInv, Buffering, ExchangeAssumption
      <4>2. pc = "continue" => ~(Len(after) >= BufferSize) BY <4>1
      <4> QED BY <2>3, <4>2 DEF NetDone
    <3> QED BY <1>1, <1>2, <3>1, Before DEF Announcing
  <2> QED BY <2>1, <2>2, <2>3
<1>3. CASE Continue /\ io' = "out" /\ sent' = sent /\ net' = Append(wbuf, <<"continue", 100>>)
  <2>1. pc = "continue" BY <1>3 DEF Continue
  <2>2. wbuf = <<>> BY <2>1 DEF IndInv, Buffering
  <2>3. net' = Announced BY <1>3, <2>2, AnnouncedTyped
  <2> QED BY <1>1, <1>3, <2>3, AnnouncedTyped, Before DEF Announcing
<1>4. CASE (WritePut \/ WriteFlush) /\ pc' = "write" /\ sent' = sent /\ net' = wbuf
  BY <1>1, <1>4 DEF Announcing
<1>5. CASE NetDone
  <2>1. sent' = sent \o net /\ (net' = after \/ net' = <<>>) BY <1>5 DEF NetDone
  <2>2. sent' \in Seq(Token) /\ net' \in Seq(Token) BY <1>1, <2>1, AnnouncedTyped, ConcatProperties
  <2>3. CASE pc = "write"
    <3>1. pc' = "write" BY <1>5, <2>3 DEF NetDone
    <3> QED BY <2>2, <3>1 DEF Announcing
  <2>4. CASE pc # "write"
    <3>1. pc = "continue" /\ after = <<>> /\ io = "out" /\ BufferSize \in Nat \ {0}
      BY <1>5, <2>4, ExchangeAssumption DEF NetDone, IndInv, Buffering, ExchangeAssumption
    <3>2. ~(Len(after) >= BufferSize) BY <3>1
    <3>3. pc' = "rest" BY <1>5, <3>1, <3>2 DEF NetDone
    <3>4. sent' = Announced BY <1>1, <2>1, <3>1, AnnouncedTyped
    <3> QED BY <2>2, <3>3, <3>4 DEF Announcing
  <2> QED BY <2>3, <2>4
<1>6. CASE NetFails
  <2>1. PICK n \in 0..Len(net) : sent' = sent \o SubSeq(net, 1, n) BY <1>6 DEF NetFails
  <2>2. net' = <<>> BY <1>6 DEF NetFails
  <2>3. SubSeq(net, 1, n) \in Seq(Token) BY <1>1, <2>1, SubSeqProperties
  <2>4. sent' \in Seq(Token) /\ net' \in Seq(Token) BY <1>1, <2>1, <2>2, <2>3, AnnouncedTyped, ConcatProperties
  <2>5. CASE pc = "continue"
    <3>1. pc' = "respond" /\ io = "out" BY <1>6, <2>5 DEF NetFails, ProcessFails
    <3>2. net = Announced /\ sent = <<>> BY <1>1, <2>5, <3>1
    <3>3. sent' \in {<<>>, Announced} BY <2>1, <3>2, AnnouncedTyped
    <3> QED BY <2>4, <3>1, <3>3 DEF Announcing
  <2>6. CASE pc # "continue"
    <3>1. pc' = "close" BY <1>6, <2>6 DEF NetFails, WriteFails, Leave
    <3> QED BY <2>4, <3>1 DEF Announcing
  <2> QED BY <2>5, <2>6
<1> QED BY <1>2, <1>3, <1>4, <1>5, <1>6, OnTheNet

\* The request failed: an error is the response.
Failing == pc' = "respond" /\ resp' = ErrorResponse /\ src' = src /\ edited' = edited /\ req' = req /\ tmpl' = tmpl

\* What happens to the response and its source.
LEMMA OnTheResponse ==
    ASSUME Next
    PROVE  \/ Standing /\ (pc' \in {"post", "respond"} => pc' = pc)
           \/ Failing
           \/ Data \/ FileChanges \/ Serve \/ Build \/ Post
<1> USE DEF At, ReadError, ProcessFails, WriteFails, Done, BodyEnds, Step, serving, handling, Standing, Failing, Leave
<1>1. CASE ReadBegins BY <1>1 DEF ReadBegins
<1>2. CASE ReadToken BY <1>2 DEF ReadToken
<1>4. CASE Continue BY <1>4 DEF Continue
<1>5. CASE DelayCancelled BY <1>5 DEF DelayCancelled
<1>8. CASE Respond BY <1>8 DEF Respond
<1>9. CASE WritePut BY <1>9 DEF WritePut
<1>10. CASE WriteFlush BY <1>10 DEF WriteFlush
<1>11. CASE Open \/ CloseReader \/ Wait \/ Sleep \/ Verify BY <1>11 DEF Open, CloseReader, Wait, Sleep, Verify
<1>13. CASE SourceShort \/ Written \/ Over BY <1>13 DEF SourceShort, Written, Over
<1>14. CASE ReadFails \/ CtxEnds \/ Tick \/ StopBegins
  BY <1>14 DEF ReadFails, CtxEnds, Tick, StopBegins
<1>15. CASE NetDone BY <1>15 DEF NetDone
<1>16. CASE NetFails BY <1>16 DEF NetFails
<1>17. ASSUME NEW c \in Closers, Close(c)  PROVE Standing /\ pc' = pc
  BY <1>17 DEF Close, CloseSocket, EnterOnce, CloseWriter, CloseReaderBuffer
<1>18. CASE Finished BY <1>18 DEF Finished, vars
<1> HIDE DEF At, ReadError, ProcessFails, WriteFails, Done, BodyEnds, Step, serving, handling, Standing, Failing, Leave
<1> QED
  BY <1>1, <1>2, <1>4, <1>5, <1>8, <1>9, <1>10, <1>11, <1>13, <1>14, <1>15, <1>16, <1>17, <1>18
     DEF Next, Handle, Environment

\* A stream is whole when its response is built.
LEMMA DrawnWhole ==
    ASSUME NEW r, r.pieces \in Pieces, resp' = r, src' = r.pieces, edited' = NoEdits
    PROVE  Drawn(<<>>)'
<1>1. PICK b \in Seq(Int) : b = PiecesBytes(r.pieces) BY BytesOf
<1>2. <<>> \o b = b BY ConcatEmptySeq
<1>3. PiecesBytes(src)' = b /\ PiecesBytes(resp.pieces)' = b BY <1>1
<1>4. Len(<<>>) + Len(b) + 0 = Len(b) + 0 /\ NoEdits.append = 0 /\ NoEdits.truncate = 0 BY <1>1 DEF NoEdits
<1> QED BY <1>2, <1>3, <1>4 DEF Drawn

\* No file is open before the response is built.
LEMMA StepSourcing ==
    ASSUME IndInv, IndInv', Delivering, Next
    PROVE  Sourcing'
<1> DEFINE Early == {"preview", "body", "serve", "continue", "rest", "delay"}
<1>1. /\ edited \in EditCounts /\ (pc \in Early => src = <<>> /\ edited = NoEdits)
      /\ pc \in {"post", "respond"} /\ resp.stream => Drawn(<<>>)
  BY DEF Delivering, Sourcing
<1>2. pc' \in Early => pc \in Early BY Before
<1>3. CASE Standing /\ (pc' \in {"post", "respond"} => pc' = pc)
  <2>1. PICK d : d = <<>> OBVIOUS
  <2>2. Drawn(d) => Drawn(d)' BY <1>3, DrawnKept DEF Standing
  <2> QED BY <1>1, <1>2, <1>3, <2>1, <2>2 DEF Standing, Sourcing
<1>4. CASE Failing
  <2>1. resp'.stream = FALSE BY <1>4, Failures DEF Failing
  <2> QED BY <1>1, <1>4, <2>1 DEF Failing, Sourcing
<1>5. CASE Data
  <2>1. pc' = "write" /\ edited' = edited BY <1>5 DEF Data, At, Done
  <2> QED BY <1>1, <2>1 DEF Sourcing
<1>6. CASE FileChanges
  <2>1. pc' = pc /\ resp' = resp BY <1>6 DEF FileChanges
  <2>2. src # <<>>
    <3>1. DOMAIN src # {} BY <1>6 DEF FileChanges
    <3> QED BY <3>1
  <2>3. pc' \notin Early BY <1>1, <2>1, <2>2
  <2>4. PICK d \in Seq(Int) : d = <<>> BY EmptySeq
  <2>5. src \in Pieces /\ src' \in Pieces /\ resp.pieces \in Pieces BY DEF IndInv, Answering, ResponseRecord
  <2>6. Drawn(d) => Drawn(d)' BY <1>1, <1>6, <2>5, DrawnEdited
  <2>7. edited' \in EditCounts BY <1>1, <1>6, <2>5, Grows
  <2> QED BY <1>1, <2>1, <2>3, <2>4, <2>6, <2>7 DEF Sourcing
<1>7. CASE Serve
  <2>1. edited' = edited /\ src' = src /\ pc = "serve" BY <1>7 DEF Serve
  <2>2. resp' = ErrorResponse \/ resp' = Response(204, "none", <<>>, -1) BY <1>7 DEF Serve, ProcessFails
  <2>3. resp'.stream = FALSE
    <3>1. PICK n \in Int : n = 204 OBVIOUS
    <3> QED BY <2>2, <3>1, Failures, NothingToSend
  <2> QED BY <1>1, <2>1, <2>3 DEF Sourcing
<1>8. CASE Build
  <2>1. pc = "delay" /\ edited' = edited BY <1>8 DEF Build
  <2>2. PICK r : (r.ok /\ pc' = "post" /\ resp' = r /\ src' = r.pieces) \/ (pc' = "respond" /\ resp' = ErrorResponse)
    BY <1>8 DEF Build, ProcessFails
  <2>3. CASE r.ok /\ pc' = "post" /\ resp' = r /\ src' = r.pieces
    <3>1. r.pieces \in Pieces BY <2>3 DEF IndInv, Answering
    <3>2. edited' = NoEdits /\ edited' \in EditCounts BY <1>1, <2>1
    <3>3. Drawn(<<>>)' BY <2>3, <3>1, <3>2, DrawnWhole
    <3> QED BY <2>3, <3>2, <3>3 DEF Sourcing
  <2>4. CASE pc' = "respond" /\ resp' = ErrorResponse
    <3>1. resp'.stream = FALSE BY <2>4, Failures
    <3> QED BY <1>1, <2>1, <2>4, <3>1 DEF Sourcing
  <2> QED BY <2>2, <2>3, <2>4
<1>9. CASE Post
  <2>1. pc = "post" /\ pc' = "respond" /\ src' = src /\ edited' = edited BY <1>9 DEF Post
  <2>2. resp' = resp \/ resp' = ErrorResponse \/ resp' = Response(204, "none", <<>>, -1) BY <1>9 DEF Post
  <2>3. CASE resp' = resp
    <3>1. PICK d : d = <<>> OBVIOUS
    <3>2. Drawn(d) => Drawn(d)' BY <2>1, <2>3, DrawnKept
    <3> QED BY <1>1, <2>1, <2>3, <3>1, <3>2 DEF Sourcing
  <2>4. CASE resp' # resp
    <3>1. PICK n \in Int : n = 204 OBVIOUS
    <3>2. resp'.stream = FALSE BY <2>2, <2>4, <3>1, Failures, NothingToSend
    <3> QED BY <1>1, <2>1, <3>2 DEF Sourcing
  <2> QED BY <2>3, <2>4
<1> QED BY <1>3, <1>4, <1>5, <1>6, <1>7, <1>8, <1>9, OnTheResponse

\* What has not begun to be a response is sound, whatever the response is.
LEMMA SoundBefore ==
    ASSUME NEW T, T \in {<<>>, Announced}
    PROVE  Sound(T) /\ Sound(T)'
<1>1. Len(T) \in {0, 1} /\ DOMAIN T = 1..Len(T) /\ \A i \in DOMAIN T : T[i][1] = "continue"
  <2>1. CASE T = <<>> BY <2>1
  <2>2. CASE T = Announced
    <3>1. PICK k, n : k = "continue" /\ n = 100 OBVIOUS
    <3>2. PICK tok : tok = <<k, n>> OBVIOUS
    <3>3. T = <<tok>> BY <2>2, <3>1, <3>2 DEF Announced
    <3>4. tok[1] = k BY <3>2
    <3> QED BY <3>1, <3>3, <3>4
  <2> QED BY <2>1, <2>2
<1>2. Positions(T, "size") = {} /\ Positions(T, "zero") = {} /\ Positions(T, "head") = {} BY <1>1 DEF Positions
<1>3. AtMostOnce(T, "continue") /\ AtMostOnce(T, "head")
  <2>1. \A i, j \in DOMAIN T : i = j BY <1>1
  <2> QED BY <2>1 DEF AtMostOnce, Positions
<1> QED BY <1>2, <1>3 DEF Sound, WellFramed

\* What was written so far, as far as the client received it, is sound.
LEMMA SoundAhead ==
    ASSUME IndInv, Echoed, Delivering, io = "out", pc = "write", NEW p \in Seq(Token), NEW w \in Seq(Token),
           (sent \o net) \o after = p \o w
    PROVE  Sound(p)
<1>1. ~wclosed BY DEF IndInv, Meeting
<1>2. OnCourse \/ Lame BY <1>1 DEF Delivering, Travelling
<1>3. Committed = p \o w BY DEF Committed
<1>4. PICK m \in Int : Fine(Committed, m)
  <2>1. CASE OnCourse
    <3>1. Fine(Committed, DebtAt(Ops, Reached)) BY <2>1 DEF OnCourse, Course
    <3>2. Ops \in Seq(OpRecord) BY IsReady, ReadyOps
    <3>3. DebtAt(Ops, Reached) \in Int
      <4>1. ASSUME NEW x \in OpRecord  PROVE Debt(x) \in Int BY DEF Debt, OpRecord
      <4> QED BY <3>2, <4>1 DEF DebtAt
    <3> QED BY <3>1, <3>3
  <2>2. CASE Lame BY <2>2 DEF Lame
  <2> QED BY <1>2, <2>1, <2>2
<1> QED BY <1>3, <1>4, PrefixSound

\* A response that is written and does not close the connection is whole.
LEMMA WholeResponse ==
    ASSUME IndInv, Echoed, Delivering, pc = "write", io = "none", todo = <<>>, ~resp.close
    PROVE  /\ Positions(sent, "head") # {}
           /\ resp.target # "none" /\ (resp.stream \/ resp.body # <<>>) => Terminated
           /\ resp.icap = <<>> => Last(sent)[1] = Boundary
<1>1. OnCourse BY DEF Delivering, Travelling, Lame
<1>2. Ready /\ Ops \in Seq(OpRecord) /\ Laid(Ops, resp)
  <2>1. Ready BY IsReady
  <2> QED BY <2>1, ReadyOps, Layout
<1>3. Committed = sent
  <2>1. wbuf = <<>> /\ sent \in Seq(Token) BY DEF IndInv, Buffering, Delivering
  <2>2. sent \o <<>> = sent BY <2>1, ConcatEmptySeq
  <2> QED BY <2>1, <2>2 DEF Committed
<1>4. PICK l \in Nat, e \in Nat, q \in Seq(OpRecord) : q = Ops /\ l = Len(q) /\ e = l + 1 /\ DOMAIN q = 1..l BY <1>2
<1>5. Reached = e
  <2>1. Len(todo) = 0 OBVIOUS
  <2>2. l - 0 + 1 = e BY <1>4
  <2> QED BY <1>4, <2>1, <2>2 DEF Reached, Place
<1>6. Passed(q, sent, e) /\ Latest(q, sent, e) BY <1>1, <1>3, <1>4, <1>5 DEF OnCourse, Course
<1>7. l >= 2 /\ Laid(q, resp) BY <1>2, <1>4 DEF Laid
<1>8. Positions(sent, "head") # {}
  <2>1. e > 1 BY <1>4, <1>7
  <2> QED BY <1>6, <2>1 DEF Passed
<1>9. ASSUME NEW k \in DOMAIN q, KindOf(q[k]) = "zero"  PROVE Positions(sent, "zero") # {}
  <2>1. k < e BY <1>4
  <2> QED BY <1>6, <1>9, <2>1 DEF Passed
<1>10. KindOf(Put(<<<<"zero", 0>>>>)) = "zero" BY DEF KindOf, Put, Op
<1>ends. ASSUME NEW k \in DOMAIN q, KindOf(q[k]) = Boundary, \A j \in k + 1..l : q[j] = Flush \/ Trailer(resp, q[j]),
                resp.icap = <<>>
         PROVE  Last(sent)[1] = Boundary
  <2>1. Boundary \in {"head", "msg", "zero"} BY DEF Boundary
  <2>2. k < e /\ e - 1 = l BY <1>4
  <2>3. ASSUME NEW j \in k + 1..l  PROVE q[j].op \notin {"put", "data"}
    <3>1. q[j] = Flush BY <1>ends, <2>3 DEF Trailer
    <3> QED BY <3>1, FlushKind
  <2> QED BY <1>6, <1>ends, <2>1, <2>2, <2>3 DEF Latest
<1>11. CASE resp.target # "none" /\ resp.stream
  <2>1. resp.plan.mode # "fin" /\ resp.plan.count \in Nat
    BY <1>2, <1>11, ReadyOps DEF Ready, Fitting
  <2>2. StreamLaid(q, resp) BY <1>7, <1>11 DEF Laid
  <2>3. PICK c \in Nat, k \in Nat : c = resp.plan.count /\ k = 6 + 5 * c BY <2>1
  <2>4. q[k] = Put(<<<<"zero", 0>>>>) /\ l >= 8 + 5 * c BY <1>4, <2>1, <2>2, <2>3 DEF StreamLaid
  <2>5. k \in 1..l BY <1>4, <2>3, <2>4
  <2>6. ASSUME NEW j \in k + 1..l  PROVE q[j] = Flush \/ Trailer(resp, q[j])
    <3>0. PICK n \in Nat : n = 5 * c /\ k = 6 + n BY <2>3
    <3>1. j \in DOMAIN q /\ (j = 7 + n \/ j > 7 + n) BY <1>4, <2>6, <3>0
    <3> QED BY <2>1, <2>2, <2>3, <3>0, <3>1 DEF StreamLaid
  <2>7. Boundary = "zero" BY <1>11 DEF Boundary
  <2>8. resp.icap = <<>> => Last(sent)[1] = Boundary BY <1>4, <1>10, <1>ends, <2>4, <2>5, <2>6, <2>7
  <2> QED BY <1>4, <1>8, <1>9, <1>10, <2>4, <2>5, <2>8 DEF Terminated
<1>12. CASE resp.target # "none" /\ ~resp.stream /\ resp.body # <<>>
  <2>1. BodyLaid(q, resp) BY <1>7, <1>12 DEF Laid
  <2>2. q[6] = Put(<<<<"zero", 0>>>>) /\ l >= 7 BY <1>4, <2>1 DEF BodyLaid
  <2>3. 6 \in DOMAIN q BY <1>4, <2>2
  <2>4. \A j \in 6 + 1..l : j \in DOMAIN q /\ j > 6 BY <1>4
  <2>5. \A j \in 6 + 1..l : q[j] = Flush \/ Trailer(resp, q[j]) BY <2>1, <2>4 DEF BodyLaid
  <2>6. Boundary = "zero" BY <1>12 DEF Boundary
  <2>7. resp.icap = <<>> => Last(sent)[1] = Boundary BY <1>10, <1>ends, <2>2, <2>3, <2>5, <2>6
  <2> QED BY <1>8, <1>9, <1>10, <2>2, <2>3, <2>7 DEF Terminated
<1>13. CASE resp.target # "none" /\ ~resp.stream /\ resp.body = <<>>
  <2>1. BareLaid(q, resp) /\ 2 \in DOMAIN q BY <1>4, <1>7, <1>13 DEF Laid
  <2>2. q[2] = Put(<<<<"msg", resp.length>>>>) BY <1>13, <2>1 DEF BareLaid
  <2>3. KindOf(q[2]) = "msg" BY <2>2 DEF KindOf, Put, Op
  <2>4. \A j \in 2 + 1..l : j \in DOMAIN q /\ j > 1 /\ j # 2 BY <1>4
  <2>5. \A j \in 2 + 1..l : q[j] = Flush \/ Trailer(resp, q[j]) BY <2>1, <2>4 DEF BareLaid
  <2>6. Boundary = "msg" BY <1>13 DEF Boundary
  <2> QED BY <1>8, <1>13, <1>ends, <2>1, <2>3, <2>5, <2>6
<1>14. CASE resp.target = "none"
  <2>1. BareLaid(q, resp) /\ 1 \in DOMAIN q /\ q[1] = Put(<<<<"head", resp.status>>>>) BY <1>4, <1>7, <1>14 DEF Laid
  <2>2. KindOf(q[1]) = "head" BY <2>1 DEF KindOf, Put, Op
  <2>3. \A j \in 1 + 1..l : j \in DOMAIN q /\ j > 1 BY <1>4
  <2>4. \A j \in 1 + 1..l : q[j] = Flush \/ Trailer(resp, q[j]) BY <1>14, <2>1, <2>3 DEF BareLaid
  <2>5. Boundary = "head" BY <1>14 DEF Boundary
  <2> QED BY <1>8, <1>14, <1>ends, <2>1, <2>2, <2>4, <2>5
<1> QED BY <1>8, <1>11, <1>12, <1>13, <1>14

\* Tokens may be grouped either way.
LEMMA Grouped ==
    ASSUME NEW a \in Seq(Token), NEW b \in Seq(Token), NEW c \in Seq(Token)
    PROVE  (a \o b) \o c = a \o (b \o c)
BY ConcatAssociative

\* The first part of what follows.
LEMMA CutBehind ==
    ASSUME NEW s \in Seq(Token), NEW d \in Seq(Token), NEW n \in 0..Len(d)
    PROVE  \E p \in Seq(Token), b \in Seq(Token) : p = s \o SubSeq(d, 1, n) /\ s \o d = p \o b
<1>1. /\ SubSeq(d, 1, n) \in Seq(Token) /\ SubSeq(d, n + 1, Len(d)) \in Seq(Token)
      /\ SubSeq(d, 1, n) \o SubSeq(d, n + 1, Len(d)) = d
  BY CutInTwo
<1>2. PICK a \in Seq(Token), b \in Seq(Token) : a = SubSeq(d, 1, n) /\ a \o b = d BY <1>1
<1>3. (s \o a) \o b = s \o (a \o b) BY Grouped
<1>4. s \o a \in Seq(Token) BY ConcatProperties
<1> QED BY <1>2, <1>3, <1>4

\* A write that was cut off: what arrived, and what did not.
LEMMA CutOff ==
    ASSUME NEW s \in Seq(Token), NEW d \in Seq(Token), NEW t \in Seq(Token), NEW n \in 0..Len(d)
    PROVE  \E p \in Seq(Token), w \in Seq(Token) : p = s \o SubSeq(d, 1, n) /\ (s \o d) \o t = p \o w
<1>1. PICK p \in Seq(Token), b \in Seq(Token) : p = s \o SubSeq(d, 1, n) /\ s \o d = p \o b BY CutBehind
<1>2. (p \o b) \o t = p \o (b \o t) BY Grouped, Zenon
<1>3. b \o t \in Seq(Token) BY ConcatProperties
<1> QED BY <1>1, <1>2, <1>3

\* Only the end of a response that keeps the connection leads to the next request.
LEMMA Keeps ==
    ASSUME Next, pc' = "next", pc # "next"
    PROVE  Written /\ ~resp.close
<1> USE DEF At, ReadError, ProcessFails, WriteFails, Done, BodyEnds, Step, handling, Leave
<1>1. CASE ReadBegins BY <1>1 DEF ReadBegins
<1>2. CASE ReadToken BY <1>2 DEF ReadToken
<1>3. CASE Serve BY <1>3 DEF Serve
<1>4. CASE Continue \/ DelayCancelled BY <1>4 DEF Continue, DelayCancelled
<1>5. CASE Build BY <1>5 DEF Build
<1>6. CASE Post \/ Respond BY <1>6 DEF Post, Respond
<1>7. CASE WritePut BY <1>7 DEF WritePut
<1>8. CASE WriteFlush BY <1>8 DEF WriteFlush
<1>9. CASE Open \/ CloseReader \/ Wait \/ Sleep \/ Verify BY <1>9 DEF Open, CloseReader, Wait, Sleep, Verify
<1>10. CASE Data BY <1>10 DEF Data
<1>11. CASE SourceShort \/ Over BY <1>11 DEF SourceShort, Over
<1>12. CASE Written BY <1>12 DEF Written
<1>13. CASE ReadFails \/ CtxEnds \/ Tick \/ FileChanges \/ StopBegins
  BY <1>13 DEF ReadFails, CtxEnds, Tick, FileChanges, StopBegins
<1>14. CASE NetDone BY <1>14 DEF NetDone
<1>15. CASE NetFails BY <1>15 DEF NetFails
<1>16. ASSUME NEW c \in Closers, Close(c)  PROVE pc' = pc
  BY <1>16 DEF Close, CloseSocket, EnterOnce, CloseWriter, CloseReaderBuffer
<1>17. CASE Finished BY <1>17 DEF Finished, vars
<1> QED
  BY <1>1, <1>2, <1>3, <1>4, <1>5, <1>6, <1>7, <1>8, <1>9, <1>10, <1>11, <1>12, <1>13, <1>14, <1>15, <1>16, <1>17
     DEF Next, Handle, Environment

\* What arrives is sound, and whole when the connection is kept.
LEMMA StepArriving ==
    ASSUME IndInv, IndInv', Echoed, Delivering, Next
    PROVE  Arriving'
<1> DEFINE Late == {"write", "close", "next", "over"}
<1>away. ASSUME pc' \notin Late  PROVE Arriving' BY <1>away DEF Arriving
<1>0. SUFFICES ASSUME pc' \in Late  PROVE Arriving' BY <1>away
<1>1. sent \in Seq(Token) /\ net \in Seq(Token) /\ after \in Seq(Token) BY DEF Delivering, IndInv, Buffering
<1>2. Sound(sent)
  <2>1. CASE pc \in Late BY <2>1 DEF Delivering, Arriving
  <2>2. CASE pc \notin Late
    <3>1. sent \in {<<>>, Announced} BY <2>2 DEF Delivering, Announcing, IndInv, Meeting
    <3> QED BY <3>1, SoundBefore
  <2> QED BY <2>1, <2>2
<1>3. resp' = resp /\ req' = req /\ tmpl' = tmpl /\ Growing
  <2>1. ~Failing BY <1>0 DEF Failing
  <2>2. ~Serve
    <3>1. Serve => pc' \notin Late BY DEF Serve, ProcessFails
    <3> QED BY <1>0, <3>1
  <2>3. ~Build
    <3>1. Build => pc' \notin Late BY DEF Build, ProcessFails
    <3> QED BY <1>0, <3>1
  <2>4. ~Post BY <1>0 DEF Post
  <2>5. CASE Data BY <2>5, Grows DEF Data, Done
  <2>6. CASE FileChanges
    <3>1. edited \in EditCounts /\ src \in Pieces BY DEF Delivering, Sourcing, IndInv, Answering
    <3> QED BY <2>6, <3>1, Grows DEF FileChanges
  <2> QED BY <2>1, <2>2, <2>3, <2>4, <2>5, <2>6, OnTheResponse, Grows DEF Standing
<1>4. ASSUME NEW p, Sound(p), sent' = p  PROVE Sound(sent)'
  <2>1. PICK m : m = 0 OBVIOUS
  <2>2. Sound(p)' BY <1>3, <1>4, FineKept
  <2> QED BY <1>4, <2>2
<1>5. CASE NetDone
  <2>1. sent' = sent \o net /\ io = "out" BY <1>5 DEF NetDone
  <2>2. pc = "write"
    <3>1. pc = "continue" => after = <<>> /\ BufferSize \in Nat \ {0}
      BY <2>1, ExchangeAssumption DEF IndInv, Buffering, ExchangeAssumption
    <3>2. pc = "continue" => ~(Len(after) >= BufferSize) BY <3>1
    <3>3. pc # "continue" BY <1>0, <1>5, <3>2 DEF NetDone
    <3> QED BY <2>1, <3>3 DEF IndInv, Buffering
  <2>3. PICK p \in Seq(Token) : p = sent \o net BY <1>1, ConcatProperties
  <2>4. Sound(p) BY <1>1, <2>1, <2>2, <2>3, SoundAhead
  <2>5. pc' = "write" BY <1>5, <2>2 DEF NetDone
  <2>6. Sound(sent)' BY <1>4, <2>1, <2>3, <2>4
  <2> QED BY <2>5, <2>6 DEF Arriving
<1>6. CASE NetFails
  <2>1. PICK n \in 0..Len(net) : sent' = sent \o SubSeq(net, 1, n) BY <1>6 DEF NetFails
  <2>2. io = "out" /\ pc = "write" /\ pc' = "close"
    <3>1. pc # "continue" BY <1>0, <1>6 DEF NetFails, ProcessFails
    <3> QED BY <1>6, <3>1 DEF NetFails, IndInv, Buffering, WriteFails, Leave
  <2>3. PICK p \in Seq(Token), w \in Seq(Token) : p = sent \o SubSeq(net, 1, n) /\ (sent \o net) \o after = p \o w
    BY <1>1, CutOff
  <2>4. Sound(p) BY <2>2, <2>3, SoundAhead
  <2>5. Sound(sent)' BY <1>4, <2>1, <2>3, <2>4
  <2> QED BY <2>2, <2>5 DEF Arriving
<1>7. CASE ~NetDone /\ ~NetFails
  <2>1. sent' = sent BY <1>7, OnTheNet
  <2>2. Sound(sent)' BY <1>2, <1>4, <2>1
  <2>3. ASSUME pc' = "next"
        PROVE  /\ Positions(sent, "head") # {}
               /\ resp.target # "none" /\ (resp.stream \/ resp.body # <<>>) => Terminated
               /\ resp.icap = <<>> => Last(sent)[1] = Boundary
    <3>1. CASE pc = "next" BY <3>1 DEF Delivering, Arriving
    <3>2. CASE pc # "next"
      <4>1. Written /\ ~resp.close BY <2>3, <3>2, Keeps
      <4> QED BY <4>1, WholeResponse DEF Written
    <3> QED BY <3>1, <3>2
  <2>4. ASSUME pc' = "next"
        PROVE  /\ Positions(sent, "head")' # {}
               /\ resp'.target # "none" /\ (resp'.stream \/ resp'.body # <<>>) => Terminated'
               /\ resp'.icap = <<>> => (Last(sent)[1])' = Boundary'
    BY <1>3, <2>1, <2>3, <2>4 DEF Positions, Terminated, Boundary
  <2> QED BY <2>2, <2>4 DEF Arriving
<1> QED BY <1>5, <1>6, <1>7

-----------------------------------------------------------------------------
(* The responses that can be delivered *)

\* A response without a stream can be delivered.
LEMMA PlainFits ==
    /\ Fitting(ErrorResponse) /\ ErrorResponse.status = 500
    /\ \A s \in Int : Fitting(Response(s, "none", <<>>, -1)) /\ Response(s, "none", <<>>, -1).body = <<>>
    /\ \A f \in SUBSET STRING : Fitting(BuildFailed(f)) /\ BuildFailed(f).target = "none" /\ BuildFailed(f).ok = FALSE
<1>1. ErrorResponse.stream = FALSE /\ ErrorResponse.status = 500 BY DEF ErrorResponse, Response
<1>2. \A s : Response(s, "none", <<>>, -1).stream = FALSE /\ Response(s, "none", <<>>, -1).body = <<>> BY DEF Response
<1>3. ASSUME NEW f  PROVE BuildFailed(f).stream = FALSE /\ BuildFailed(f).target = "none" /\ BuildFailed(f).ok = FALSE
  BY DEF BuildFailed, Response
<1>4. \A x : x.stream = FALSE => Fitting(x) BY DEF Fitting
<1>5. ASSUME NEW f \in SUBSET STRING
      PROVE  Fitting(BuildFailed(f)) /\ BuildFailed(f).target = "none" /\ BuildFailed(f).ok = FALSE
  <2>1. BuildFailed(f).stream = FALSE BY <1>3
  <2> QED BY <1>3, <1>4, <2>1
<1>6. ASSUME NEW s \in Int
      PROVE  Fitting(Response(s, "none", <<>>, -1)) /\ Response(s, "none", <<>>, -1).body = <<>>
  <2>1. PICK x : x = Response(s, "none", <<>>, -1) OBVIOUS
  <2>2. x.stream = FALSE /\ x.body = <<>> BY <1>2, <2>1
  <2> QED BY <1>4, <2>1, <2>2
<1>7. Fitting(ErrorResponse) BY <1>1, <1>4
<1> QED BY <1>1, <1>5, <1>6, <1>7

\* What attaching a stream to a response makes of it.
LEMMA Attached ==
    ASSUME NEW t \in Template, NEW q, Messages(q.msgs), NEW base \in ResponseRecord, NEW r \in AttachStream(base, t, q)
    PROVE  Fitting(r) /\ (r.stream \/ r.target = "none")
<1> DEFINE payload == ResolveStreamPayload(t.stream, q)
           bytes == PiecesBytes(payload.pieces)
           chosen == SelectBodyStreamPlanOptions(t.stream.controls, Len(bytes))
<1>1. t.stream \in Stream BY DEF Template
<1>2. payload.pieces \in Pieces /\ payload.opened \in SUBSET STRING BY <1>1, Resolving
<1>3. \/ r = BuildFailed(payload.opened)
      \/ base.target # "none" /\ \E o \in chosen :
             /\ OptionsValid(o)
             /\ r = [base EXCEPT !.body = <<>>, !.stream = TRUE, !.pieces = payload.pieces,
                       !.opened = payload.opened, !.length = Len(bytes), !.plan = PlanBodyStream(o),
                       !.close = @ \/ o.mode = "fin"]
  BY Zenon DEF AttachStream
<1> HIDE DEF payload
<1>4. bytes \in Seq(Int) /\ Len(bytes) \in Nat
  <2>1. bytes \in Seq(Int) BY <1>2, BytesOf
  <2> HIDE DEF bytes
  <2> QED BY <2>1
<1>5. CASE r = BuildFailed(payload.opened) BY <1>2, <1>5, PlainFits
<1>6. ASSUME base.target # "none", NEW o \in chosen, OptionsValid(o),
             r = [base EXCEPT !.body = <<>>, !.stream = TRUE, !.pieces = payload.pieces,
                       !.opened = payload.opened, !.length = Len(bytes), !.plan = PlanBodyStream(o),
                       !.close = @ \/ o.mode = "fin"]
      PROVE  Fitting(r) /\ (r.stream \/ r.target = "none")
  <2>1. t.stream.controls \in Controls BY <1>1 DEF Stream
  <2>2. /\ o.source = Len(bytes) /\ o.duration \in Nat /\ o.every \in Nat /\ o.target \in Nat
        /\ o.chunks \in Nat /\ o.bytes \in 0..Len(bytes) /\ o.mode \in Modes /\ (o.mode = "complete" => o.bytes = Len(bytes))
    <3> HIDE DEF bytes
    <3> QED BY <1>4, <1>6, <2>1, Optional
  <2>3. PICK l \in Nat, b \in Nat, P \in {PlanBodyStream(o)} :
            l = Len(bytes) /\ b = o.bytes /\ b <= l /\ P = PlanBodyStream(o) BY <1>4, <2>2
  <2>4. P.count <= b /\ (b > 0 => P.count > 0)
    <3>1. PlannedChunkCount(o) <= o.bytes /\ (o.bytes > 0 => PlannedChunkCount(o) > 0) BY <2>2, <2>3, CountBounds
    <3>2. P.count = PlannedChunkCount(o) BY <2>3 DEF PlanBodyStream
    <3> QED BY <2>3, <3>1, <3>2
  <2>5. P.source = l /\ P.bytes = b /\ P.mode = o.mode BY <2>2, <2>3 DEF PlanBodyStream
  <2>6. PICK p, f, c : p = payload.pieces /\ f = payload.opened /\ c = (base.close \/ o.mode = "fin") OBVIOUS
  <2>7. r = [base EXCEPT !.body = <<>>, !.stream = TRUE, !.pieces = p, !.opened = f, !.length = l, !.plan = P, !.close = c]
    BY <1>6, <2>3, <2>6
  <2>8. r.stream = TRUE /\ r.pieces = p /\ r.plan = P /\ r.close = c /\ r.target = base.target
    <3>1. PICK e, s : e = <<>> /\ s = TRUE OBVIOUS
    <3>2. r = [base EXCEPT !.body = e, !.stream = s, !.pieces = p, !.opened = f, !.length = l, !.plan = P, !.close = c]
      BY <2>7, <3>1
    <3>3. r.stream = s /\ r.pieces = p /\ r.plan = P /\ r.close = c /\ r.target = base.target
      BY <3>2 DEF ResponseRecord
    <3> QED BY <3>1, <3>3
  <2>9. Len(PiecesBytes(r.pieces)) = l BY <2>3, <2>6, <2>8
  <2>10. o.mode = "fin" => c BY <2>6
  <2> QED BY <1>6, <2>2, <2>3, <2>4, <2>5, <2>8, <2>9, <2>10 DEF Fitting
<1> HIDE DEF bytes, chosen
<1> QED BY <1>3, <1>5, <1>6

\* Every response that is built can be delivered.
LEMMA BuiltFits ==
    ASSUME NEW t \in Template, NEW q, Messages(q.msgs), NEW r \in BuildResponse(t, q)
    PROVE  Fitting(r)
<1>1. PICK b : b = BaseResponse(t, q) OBVIOUS
<1>2. b \in ResponseRecord /\ b.stream = FALSE BY <1>1, BaseBuilt
<1>3. PICK base : base = [b EXCEPT !.icap = t.body, !.close = t.close] OBVIOUS
<1>4. base \in ResponseRecord /\ base.stream = FALSE
  <2>1. t.body \in Seq(Int) /\ t.close \in BOOLEAN BY DEF Template
  <2> QED BY <1>2, <1>3, <2>1 DEF ResponseRecord
<1>5. CASE t.status = 204
  <2>1. PICK n \in Int, x \in {Response(204, "none", <<>>, -1)} : n = 204 /\ x = Response(n, "none", <<>>, -1) OBVIOUS
  <2>2. x \in ResponseRecord /\ x.stream = FALSE BY <2>1, NothingToSend
  <2>3. r = [x EXCEPT !.close = t.close] BY <1>5, <2>1 DEF BuildResponse
  <2>4. r.stream = FALSE BY <2>2, <2>3 DEF ResponseRecord
  <2> QED BY <2>4 DEF Fitting
<1>6. CASE t.status # 204 /\ r = base BY <1>4, <1>6 DEF Fitting
<1>7. CASE t.status # 204 /\ r \in AttachStream(base, t, q) BY <1>4, <1>7, Attached
<1> QED BY <1>1, <1>3, <1>5, <1>6, <1>7 DEF BuildResponse

\* A status that is not set is not above zero.
LEMMA ZeroNotPositive == \A h : h = 0 => ~(h > 0) OBVIOUS

\* A body that nothing replaces is that of the adapted message.
LEMMA PassedThrough ==
    ASSUME NEW t \in Template, NEW q, Messages(q.msgs), NEW r \in BuildResponse(t, q), ~r.stream, r.target # "none",
           t.httpBody = <<>>, t.httpFile = "", t.httpStatus = 0
    PROVE  Adapted(q) \in DOMAIN q.msgs /\ r.target = Adapted(q) /\ r.body = q.msgs[Adapted(q)].data
<1>1. PICK b : b = BaseResponse(t, q) OBVIOUS
<1>2. b \in ResponseRecord /\ b.stream = FALSE BY <1>1, BaseBuilt
<1>3. PICK base : base = [b EXCEPT !.icap = t.body, !.close = t.close] OBVIOUS
<1>4. base \in ResponseRecord /\ base.target = b.target /\ base.body = b.body /\ base.ok = b.ok
  <2>1. t.body \in Seq(Int) /\ t.close \in BOOLEAN BY DEF Template
  <2> QED BY <1>2, <1>3, <2>1 DEF ResponseRecord
<1>5. t.status # 204
  <2> SUFFICES ASSUME t.status = 204  PROVE FALSE OBVIOUS
  <2>1. r = [Response(204, "none", <<>>, -1) EXCEPT !.close = t.close] BY DEF BuildResponse
  <2>2. r.target = "none" BY <2>1 DEF Response
  <2> QED BY <2>2
<1>6. r = base /\ (~base.ok \/ t.stream.kind = "none")
  <2>1. CASE ~base.ok \/ t.stream.kind = "none" BY <1>1, <1>3, <1>5, <2>1 DEF BuildResponse
  <2>2. CASE ~(~base.ok \/ t.stream.kind = "none")
    <3>1. r \in AttachStream(base, t, q) BY <1>1, <1>3, <1>5, <2>2 DEF BuildResponse
    <3> QED BY <1>4, <3>1, Attached
  <2> QED BY <2>1, <2>2
<1>7. {} \in SUBSET STRING OBVIOUS
<1>8. ~HttpBodyFails(t) /\ HttpBody(t) = <<>> BY DEF HttpBodyFails, HttpBody
<1>9. b = Adaptation(t, q) /\ Adapted(q) \in DOMAIN q.msgs
  <2>1. Adapted(q) \in DOMAIN q.msgs
    <3> SUFFICES ASSUME Adapted(q) \notin DOMAIN q.msgs  PROVE FALSE OBVIOUS
    <3>1. b = Response(t.status, "none", <<>>, -1) BY <1>1, <1>8 DEF BaseResponse
    <3>2. b.target = "none" BY <3>1 DEF Response
    <3> QED BY <1>4, <1>6, <3>2
  <2>2. ~(t.httpStatus > 0) BY ZeroNotPositive, Zenon
  <2> QED BY <1>1, <1>8, <2>1, <2>2 DEF BaseResponse
<1>10. b # BuildFailed({})
  <2>1. PICK f \in SUBSET STRING : f = {} BY <1>7
  <2>2. BuildFailed(f).target = "none" BY PlainFits
  <2> QED BY <1>4, <1>6, <2>1, <2>2
<1>11. PICK d, l : d = q.msgs[Adapted(q)].data /\ l = LengthFor(t, HttpBody(t), q.msgs[Adapted(q)].cl) OBVIOUS
<1>12. b.ok
  <2>1. \A body : Response(t.status, Adapted(q), body, l).ok = TRUE BY DEF Response
  <2> QED BY <1>9, <1>10, <1>11, <2>1 DEF Adaptation
<1>13. ~SkipsOriginalBody(t) BY <1>4, <1>6, <1>8, <1>12 DEF SkipsOriginalBody
<1>14. b = Response(t.status, Adapted(q), d, l) BY <1>9, <1>10, <1>11, <1>13 DEF Adaptation
<1>15. b.target = Adapted(q) /\ b.body = d BY <1>14 DEF Response
<1> QED BY <1>4, <1>6, <1>9, <1>11, <1>15

-----------------------------------------------------------------------------
(* The body of the client *)

\* The tokens of a client have data.
LEMMA ClientData == \A x \in ClientToken : x.data \in Seq(Int) BY DEF ClientToken

\* The next token of a client, and what comes after it: nothing when it ends the body.
LEMMA ReadOn ==
    ASSUME NEW q \in Seq(ClientToken), q # <<>>, Delimited(q)
    PROVE  /\ Tail(q) \in Seq(ClientToken) /\ Delimited(Tail(q)) /\ Head(q).data \in Seq(Int)
           /\ PiecesBytes(q) = Head(q).data \o PiecesBytes(Tail(q))
           /\ Tail(q) # <<>> => Last(Tail(q)) = Last(q)
           /\ Head(q).kind # "chunk" => PiecesBytes(q) = <<>> /\ Last(q) = Head(q)
<1>1. PICK t \in Seq(ClientToken), h \in ClientToken : t = Tail(q) /\ h = Head(q) BY HeadTailProperties
<1>2. Len(q) \in Nat /\ Len(q) >= 1 /\ Len(t) = Len(q) - 1 /\ h = q[1] /\ \A i \in 1..Len(t) : t[i] = q[i + 1]
  BY <1>1
<1>3. <<h>> \in Seq(ClientToken) /\ q = <<h>> \o t BY <1>1
<1>4. PiecesBytes(q) = PiecesBytes(<<h>>) \o PiecesBytes(t)
  <2>1. PICK o \in Seq(ClientToken) : o = <<h>> BY <1>3
  <2>2. PiecesBytes(o \o t) = PiecesBytes(o) \o PiecesBytes(t) BY ClientData, DataParts
  <2> QED BY <1>3, <2>1, <2>2
<1>5. h.data \in Seq(Int) /\ PiecesBytes(<<h>>) = h.data BY ClientData, DataOne
<1>6. Delimited(t)
  <2> SUFFICES ASSUME NEW i \in DOMAIN t, t[i].kind # "chunk"  PROVE i = Len(t) /\ t[i].data = <<>> BY DEF Delimited
  <2>1. i \in 1..Len(t) /\ i + 1 \in DOMAIN q /\ q[i + 1] = t[i] BY <1>1, <1>2
  <2>2. i + 1 = Len(q) /\ t[i].data = <<>> BY <2>1 DEF Delimited
  <2> QED BY <1>2, <2>1, <2>2
<1>7. t # <<>> => Last(t) = Last(q)
  <2> SUFFICES ASSUME t # <<>>  PROVE Last(t) = Last(q) OBVIOUS
  <2>1. Len(t) \in Nat /\ Len(t) >= 1 OBVIOUS
  <2> QED BY <1>2, <2>1 DEF Last
<1>8. h.kind # "chunk" => PiecesBytes(q) = <<>> /\ Last(q) = h
  <2> SUFFICES ASSUME h.kind # "chunk"  PROVE PiecesBytes(q) = <<>> /\ Last(q) = h OBVIOUS
  <2>1. 1 \in DOMAIN q BY <1>2
  <2>2. Len(q) = 1 /\ h.data = <<>> BY <1>2, <2>1 DEF Delimited
  <2>3. t = <<>> BY <1>2, <2>2
  <2>4. PiecesBytes(t) = <<>> BY <2>3, ClientData, DataTyped
  <2>5. <<>> \o <<>> = <<>> OBVIOUS
  <2> QED BY <1>2, <1>4, <1>5, <2>2, <2>4, <2>5 DEF Last
<1> QED BY <1>1, <1>4, <1>5, <1>6, <1>7, <1>8

\* The client's body comes in two halves, the second of which only follows a preview that
\* ends with a zero chunk.
LEMMA TwoHalves ==
    ASSUME req \in Requests
    PROVE  /\ req.now \in Seq(ClientToken) /\ req.later \in Seq(ClientToken)
           /\ Delimited(req.now) /\ Delimited(req.later)
           /\ ClientBody = PiecesBytes(req.now) \o PiecesBytes(req.later)
           /\ PiecesBytes(req.now) \in Seq(Int) /\ PiecesBytes(req.later) \in Seq(Int)
           /\ req.later # <<>> => Preview(req) /\ req.now # <<>> /\ Last(req.now).kind = "zero"
           /\ req.later = <<>> => PiecesBytes(req.later) = <<>>
<1>1. req \in Request /\ WellSent(req) BY ExchangeAssumption DEF ExchangeAssumption
<1>2. PICK a \in Seq(ClientToken), b \in Seq(ClientToken) : a = req.now /\ b = req.later BY <1>1 DEF Request
<1>3. PiecesBytes(a \o b) = PiecesBytes(a) \o PiecesBytes(b) BY ClientData, DataParts
<1>4. PiecesBytes(a) \in Seq(Int) /\ PiecesBytes(b) \in Seq(Int) /\ (b = <<>> => PiecesBytes(b) = <<>>)
  BY ClientData, DataTyped
<1> QED BY <1>1, <1>2, <1>3, <1>4 DEF WellSent, ClientBody, Preview

\* A chunk of the first half was read.
LEMMA ChunkRead ==
    ASSUME IndInv, Unread, wire.now # <<>>, got' = got \o Head(wire.now).data, req' = req,
           wire' = [wire EXCEPT !.now = Tail(wire.now)]
    PROVE  Unread'
<1>1. /\ wire \in [now : Seq(ClientToken), later : Seq(ClientToken)] /\ got \in Seq(Int)
      /\ wire.now \in Seq(ClientToken) /\ wire.later \in Seq(ClientToken)
  BY DEF IndInv, Receiving
<1>2. /\ Tail(wire.now) \in Seq(ClientToken) /\ Delimited(Tail(wire.now)) /\ Head(wire.now).data \in Seq(Int)
      /\ PiecesBytes(wire.now) = Head(wire.now).data \o PiecesBytes(Tail(wire.now))
      /\ Tail(wire.now) # <<>> => Last(Tail(wire.now)) = Last(wire.now)
  BY <1>1, ReadOn DEF Unread
<1>3. PiecesBytes(Tail(wire.now)) \in Seq(Int) /\ PiecesBytes(wire.later) \in Seq(Int)
  BY <1>1, <1>2, ClientData, DataTyped
<1>4. PICK g \in Seq(Int), d \in Seq(Int), x \in Seq(Int), y \in Seq(Int) :
          g = got /\ d = Head(wire.now).data /\ x = PiecesBytes(Tail(wire.now)) /\ y = PiecesBytes(wire.later)
  BY <1>1, <1>2, <1>3
<1>5. (g \o d) \o (x \o y) = g \o ((d \o x) \o y)
  <2>1. x \o y \in Seq(Int) BY ConcatProperties
  <2>2. PICK u \in Seq(Int) : u = x \o y BY <2>1
  <2>3. (g \o d) \o u = g \o (d \o u) BY Regrouped
  <2>4. (d \o x) \o y = d \o (x \o y) BY Regrouped
  <2> QED BY <2>2, <2>3, <2>4
<1>6. g \o ((d \o x) \o y) = ClientBody BY <1>2, <1>4 DEF Unread
<1>7. PICK t : t = Tail(wire.now) OBVIOUS
<1>8. wire'.now = t /\ wire'.later = wire.later BY <1>1, <1>7
<1>9. got' = g \o d /\ ClientBody' = ClientBody BY <1>4 DEF ClientBody
<1>10. got' \o (PiecesBytes(wire'.now) \o PiecesBytes(wire'.later)) = ClientBody'
  BY <1>4, <1>5, <1>6, <1>7, <1>8, <1>9
<1> QED BY <1>2, <1>7, <1>8, <1>10 DEF Unread

\* A chunk of the rest was read.
LEMMA RestRead ==
    ASSUME IndInv, got \o PiecesBytes(wire.later) = ClientBody, Delimited(wire.later), wire.later # <<>>,
           got' = got \o Head(wire.later).data, req' = req, wire' = [wire EXCEPT !.later = Tail(wire.later)]
    PROVE  got' \o PiecesBytes(wire'.later) = ClientBody' /\ Delimited(wire'.later)
<1>1. PICK l \in Seq(ClientToken), g \in Seq(Int) : l = wire.later /\ g = got
  BY DEF IndInv, Receiving
<1>2. PICK t \in Seq(ClientToken), d \in Seq(Int) : t = Tail(l) /\ d = Head(l).data BY <1>1, ReadOn
<1>3. wire'.later = t BY <1>1, <1>2 DEF IndInv, Receiving
<1>4. Delimited(t) /\ PiecesBytes(l) = d \o PiecesBytes(t) BY <1>1, <1>2, ReadOn
<1>5. PICK x \in Seq(Int) : x = PiecesBytes(t) BY ClientData, DataTyped
<1>6. g \o (d \o x) = ClientBody BY <1>1, <1>4, <1>5
<1>7. (g \o d) \o x = ClientBody BY <1>6, Regrouped
<1>8. got' = g \o d /\ ClientBody' = ClientBody BY <1>1, <1>2 DEF ClientBody
<1> QED BY <1>3, <1>4, <1>5, <1>7, <1>8

\* The first half is read: what was read and what is to come make the body, and nothing is to
\* come after a body without a preview or a preview that ends the body.
LEMMA HalfRead ==
    ASSUME IndInv, req \in Requests, Unread, wire.now # <<>>, Head(wire.now).kind # "chunk"
    PROVE  /\ got \o PiecesBytes(wire.later) = ClientBody /\ Delimited(wire.later)
           /\ ~Preview(req) \/ Head(wire.now).kind # "zero" => got = ClientBody
<1>1. PICK q \in Seq(ClientToken), l \in Seq(ClientToken), g \in Seq(Int) : q = wire.now /\ l = wire.later /\ g = got
  BY DEF IndInv, Receiving
<1>2. PiecesBytes(q) = <<>> /\ Last(q) = Head(q) BY <1>1, ReadOn DEF Unread
<1>3. PICK y \in Seq(Int) : y = PiecesBytes(l) BY ClientData, DataTyped
<1>4. g \o (<<>> \o y) = ClientBody BY <1>1, <1>2, <1>3 DEF Unread
<1>5. <<>> \o y = y /\ g \o <<>> = g BY ConcatEmptySeq
<1>6. l = req.later /\ Delimited(l) BY <1>1, TwoHalves DEF Unread
<1>7. ASSUME ~Preview(req) \/ Head(wire.now).kind # "zero"  PROVE y = <<>>
  <2>1. Last(req.now).kind # "zero" \/ ~Preview(req) BY <1>1, <1>2, <1>7 DEF Unread
  <2>2. l = <<>> BY <1>6, <2>1, TwoHalves
  <2> QED BY <1>3, <1>6, <2>2, TwoHalves
<1> QED BY <1>1, <1>3, <1>4, <1>5, <1>6, <1>7

\* The rest is read.
LEMMA AllRead ==
    ASSUME IndInv, got \o PiecesBytes(wire.later) = ClientBody, Delimited(wire.later), wire.later # <<>>,
           Head(wire.later).kind # "chunk"
    PROVE  got = ClientBody
<1>1. PICK l \in Seq(ClientToken), g \in Seq(Int) : l = wire.later /\ g = got BY DEF IndInv, Receiving
<1>2. PiecesBytes(l) = <<>> BY <1>1, ReadOn
<1>3. g \o <<>> = g BY ConcatEmptySeq
<1> QED BY <1>1, <1>2, <1>3

\* What the request and its messages are; what is still to be read of the body.
Held ==
    /\ req \in Requests /\ DOMAIN msgs = Parsed(req)
    /\ OnTheWire(req) \in Parsed(req) => msgs[OnTheWire(req)].data \in {<<>>, ClientBody}
Halved ==
    /\ pc = "body" => ~Preview(req) /\ Unread
    /\ pc = "preview" => Preview(req) /\ Adapted(req) \in Parsed(req) /\ Unread
ToCome == got \o PiecesBytes(wire.later) = ClientBody /\ Delimited(wire.later)
Continued == pc \in {"continue", "rest"} \/ (pc = "serve" /\ Live(Adapted(req), Query)) => ToCome

\* Nothing is read in this step.
Untouched ==
    /\ UNCHANGED <<req, wire, got, msgs>>
    /\ pc' \in {"body", "preview", "serve"} => pc' = pc
    /\ pc' \in {"continue", "rest"} => pc \in {"continue", "rest"} \/ (pc = "serve" /\ Live(Adapted(req), Query))

\* Only reading changes what was read.
LEMMA OnTheBody ==
    ASSUME Next
    PROVE  Untouched \/ ReadError \/ ReadToken
<1> USE DEF At, ProcessFails, WriteFails, Done, Step, reading, serving, handling, closing, Untouched, Leave
<1>1. CASE ReadBegins
  <2> HIDE DEF ReadError
  <2> QED BY <1>1 DEF ReadBegins
<1>3. CASE Serve BY <1>3 DEF Serve
<1>4. CASE Continue BY <1>4 DEF Continue
<1>5. CASE DelayCancelled BY <1>5 DEF DelayCancelled
<1>6. CASE Build BY <1>6 DEF Build
<1>7. CASE Post BY <1>7 DEF Post
<1>8. CASE Respond BY <1>8 DEF Respond
<1>9. CASE WritePut BY <1>9 DEF WritePut
<1>10. CASE WriteFlush BY <1>10 DEF WriteFlush
<1>11. CASE Open \/ CloseReader BY <1>11 DEF Open, CloseReader
<1>12. CASE Wait \/ Sleep BY <1>12 DEF Wait, Sleep
<1>13. CASE Data \/ Verify BY <1>13 DEF Data, Verify
<1>14. CASE SourceShort \/ Written \/ Over BY <1>14 DEF SourceShort, Written, Over
<1>15. CASE ReadFails BY <1>15 DEF ReadFails
<1>16. CASE CtxEnds \/ Tick \/ StopBegins \/ FileChanges
  BY <1>16 DEF CtxEnds, Tick, StopBegins, FileChanges
<1>17. CASE NetDone BY <1>17 DEF NetDone
<1>18. CASE NetFails BY <1>18 DEF NetFails
<1>19. ASSUME NEW c \in Closers, Close(c)  PROVE Untouched
  BY <1>19 DEF Close, CloseSocket, EnterOnce, CloseWriter, CloseReaderBuffer
<1>20. CASE Finished BY <1>20 DEF Finished, vars
<1> HIDE DEF At, ProcessFails, WriteFails, Done, Step, reading, serving, handling, closing, Untouched, Leave
<1> QED
  BY <1>1, <1>3, <1>4, <1>5, <1>6, <1>7, <1>8, <1>9, <1>10, <1>11, <1>12, <1>13, <1>14, <1>15, <1>16,
     <1>17, <1>18, <1>19, <1>20 DEF Next, Handle, Environment

\* What stays as it is when nothing is read.
LEMMA BodyKept ==
    ASSUME Held, Halved, Continued, Untouched
    PROVE  Held' /\ Halved' /\ Continued'
<1>1. UNCHANGED <<req, wire, got, msgs>> BY DEF Untouched
<1>2. /\ ClientBody' = ClientBody /\ Unread' = Unread /\ ToCome' = ToCome
      /\ Live(Adapted(req), Query)' = Live(Adapted(req), Query)
  BY <1>1 DEF ClientBody, Unread, ToCome, Query, Live
<1>3. Held' BY <1>1, <1>2 DEF Held
<1>4. Halved' BY <1>1, <1>2 DEF Halved, Untouched
<1>5. Continued'
  <2> SUFFICES ASSUME pc' \in {"continue", "rest"} \/ (pc' = "serve" /\ Live(Adapted(req), Query)')  PROVE ToCome'
    BY DEF Continued
  <2>1. pc \in {"continue", "rest"} \/ (pc = "serve" /\ Live(Adapted(req), Query)) BY <1>2 DEF Untouched
  <2> QED BY <1>2, <2>1 DEF Continued
<1> QED BY <1>3, <1>4, <1>5

\* A read that fails leaves the bodies alone.
LEMMA BodyFails ==
    ASSUME IndInv, Held, ReadError
    PROVE  Held' /\ Halved' /\ Continued'
<1>1. UNCHANGED <<req, wire, got>> /\ pc' \in {"respond", "close"} BY DEF ReadError, ProcessFails, Leave
<1>2. Halved' /\ Continued' BY <1>1 DEF Halved, Continued
<1>3. msgs' = msgs \/ msgs' = [msgs EXCEPT ![Adapted(req)].failed = TRUE] BY DEF ReadError
<1>4. DOMAIN msgs' = DOMAIN msgs /\ \A n \in DOMAIN msgs : msgs'[n].data = msgs[n].data
  <2>1. CASE msgs' = msgs BY <2>1
  <2>2. CASE msgs' = [msgs EXCEPT ![Adapted(req)].failed = TRUE]
    <3>1. PICK a : a = Adapted(req) OBVIOUS
    <3>2. PICK x : x = [msgs[a] EXCEPT !.failed = TRUE] OBVIOUS
    <3>3. msgs' = [msgs EXCEPT ![a] = x] BY <2>2, <3>1, <3>2
    <3>4. ASSUME NEW n \in DOMAIN msgs  PROVE msgs'[n].data = msgs[n].data
      <4>1. msgs[n] \in Message BY DEF IndInv, Receiving, Messages
      <4>2. CASE n = a
        <5>1. x.data = msgs[n].data BY <3>2, <4>1, <4>2 DEF Message
        <5> QED BY <3>3, <4>2, <5>1
      <4>3. CASE n # a BY <3>3, <4>3
      <4> QED BY <4>2, <4>3
    <3> QED BY <3>3, <3>4
  <2> QED BY <1>3, <2>1, <2>2
<1>5. ClientBody' = ClientBody BY <1>1 DEF ClientBody
<1>6. Held'
  <2>1. OnTheWire(req') = OnTheWire(req) /\ Parsed(req') = Parsed(req) BY <1>1
  <2>2. OnTheWire(req) \in Parsed(req) => msgs'[OnTheWire(req)].data = msgs[OnTheWire(req)].data
    BY <1>4 DEF Held
  <2> QED BY <1>1, <1>4, <1>5, <2>1, <2>2 DEF Held
<1> QED BY <1>2, <1>6

\* The body ends: it is the client's, unless it was a preview that is left to the continuation.
LEMMA BodyWhole ==
    ASSUME IndInv, Held, NEW kind, BodyEnds(kind), UNCHANGED wire, pc \in {"preview", "body", "rest"},
           pc # "rest" => ToCome, ~(pc = "preview" /\ kind = "zero") => got = ClientBody
    PROVE  Held' /\ Halved' /\ Continued'
<1> DEFINE name == OnTheWire(req)
           whole == [msgs[name] EXCEPT !.data = got, !.loaded = TRUE, !.reader = FALSE]
<1>1. UNCHANGED <<req, wire, got>> /\ pc' \in {"delay", "serve"} /\ (pc' = "serve" => pc # "rest") BY DEF BodyEnds
<1>2. ClientBody' = ClientBody /\ ToCome' = ToCome BY <1>1 DEF ClientBody, ToCome
<1>3. Halved' /\ Continued' BY <1>1, <1>2 DEF Halved, Continued
<1>4. PICK y : y = IF pc = "preview" /\ kind = "zero" THEN msgs[name] ELSE whole OBVIOUS
<1>5. msgs' = IF name \notin DOMAIN msgs THEN msgs ELSE [msgs EXCEPT ![name] = y] BY <1>4 DEF BodyEnds
<1>6. name \in DOMAIN msgs => y.data \in {<<>>, ClientBody}
  <2> SUFFICES ASSUME name \in DOMAIN msgs  PROVE y.data \in {<<>>, ClientBody} OBVIOUS
  <2>1. CASE pc = "preview" /\ kind = "zero" BY <1>4, <2>1 DEF Held
  <2>2. CASE ~(pc = "preview" /\ kind = "zero")
    <3>1. msgs[name] \in Message /\ got = ClientBody BY <2>2 DEF IndInv, Receiving, Messages
    <3>2. PICK x \in Message, g \in {got} : x = msgs[name] /\ g = got BY <3>1
    <3>3. y = [x EXCEPT !.data = g, !.loaded = TRUE, !.reader = FALSE] BY <1>4, <2>2, <3>2
    <3>4. y.data = g BY <3>3 DEF Message
    <3> QED BY <3>1, <3>2, <3>4
  <2> QED BY <2>1, <2>2
<1> HIDE DEF whole, name
<1>7. DOMAIN msgs' = DOMAIN msgs /\ (name \in DOMAIN msgs => msgs'[name] = y) BY <1>5
<1>8. Held'
  <2>1. OnTheWire(req') = name /\ Parsed(req') = Parsed(req) BY <1>1 DEF name
  <2> QED BY <1>1, <1>2, <1>6, <1>7, <2>1 DEF Held
<1> QED BY <1>3, <1>8

\* A token of the body is read.
LEMMA BodyRead ==
    ASSUME IndInv, Held, Halved, Continued, ReadToken
    PROVE  Held' /\ Halved' /\ Continued'
<1>1. PICK tok : tok = Head(Incoming) OBVIOUS
<1>2. pc \in {"preview", "body", "rest"} /\ Incoming # <<>> BY DEF ReadToken
<1>3. CASE ReadError BY <1>3, BodyFails
<1>4. CASE /\ tok.kind = "chunk" /\ got' = got \o tok.data /\ UNCHANGED <<req, pc, msgs>>
           /\ wire' = IF pc = "rest" THEN [wire EXCEPT !.later = Tail(@)] ELSE [wire EXCEPT !.now = Tail(@)]
  <2>1. ClientBody' = ClientBody BY <1>4 DEF ClientBody
  <2>2. Held' BY <1>4, <2>1 DEF Held
  <2>3. CASE pc = "rest"
    <3>1. Incoming = wire.later /\ ToCome BY <2>3 DEF Incoming, Continued
    <3>2. ToCome' BY <1>1, <1>2, <1>4, <2>3, <3>1, RestRead DEF ToCome
    <3> QED BY <1>4, <2>2, <2>3, <3>2 DEF Halved, Continued
  <2>4. CASE pc # "rest"
    <3>1. Incoming = wire.now /\ Unread BY <1>2, <2>4 DEF Incoming, Halved
    <3>2. Unread' BY <1>1, <1>2, <1>4, <2>4, <3>1, ChunkRead
    <3> QED BY <1>2, <1>4, <2>2, <2>4, <3>2 DEF Halved, Continued
  <2> QED BY <2>3, <2>4
<1>5. CASE /\ tok.kind \in {"zero", "ieof"} \/ (tok.kind = "eof" /\ pc # "preview")
           /\ BodyEnds(tok.kind) /\ UNCHANGED wire
  <2>1. tok.kind # "chunk" BY <1>5
  <2>2. CASE pc = "rest"
    <3>1. Incoming = wire.later /\ ToCome BY <2>2 DEF Incoming, Continued
    <3>2. got = ClientBody BY <1>1, <1>2, <2>1, <3>1, AllRead DEF ToCome
    <3>3. PICK k : k = tok.kind OBVIOUS
    <3> QED BY <1>2, <1>5, <2>2, <3>2, <3>3, BodyWhole
  <2>3. CASE pc # "rest"
    <3>1. Incoming = wire.now /\ Unread BY <1>2, <2>3 DEF Incoming, Halved
    <3>2. req \in Requests BY DEF Held
    <3>3. ToCome /\ (~Preview(req) \/ tok.kind # "zero" => got = ClientBody)
      BY <1>1, <1>2, <2>1, <3>1, <3>2, HalfRead DEF ToCome
    <3>4. ~(pc = "preview" /\ tok.kind = "zero") => got = ClientBody BY <1>2, <2>3, <3>3 DEF Halved
    <3>5. PICK k : k = tok.kind OBVIOUS
    <3> QED BY <1>2, <1>5, <2>3, <3>3, <3>4, <3>5, BodyWhole
  <2> QED BY <2>2, <2>3
<1> QED BY <1>1, <1>2, <1>3, <1>4, <1>5 DEF ReadToken

\* The client's body stays what it was, whatever part of it was read.
LEMMA StepReading ==
    ASSUME IndInv, Held, Halved, Continued, Next
    PROVE  Held' /\ Halved' /\ Continued'
BY OnTheBody, BodyKept, BodyFails, BodyRead

-----------------------------------------------------------------------------
(* The response and the body that passes through it *)

Faithful == Fitting(resp) /\ (resp.body # <<>> /\ Unmodified => resp.body = ClientBody)

\* The parts of what passes through.
LEMMA EchoedParts == Echoed <=> Held /\ Halved /\ Continued /\ Faithful
BY DEF Echoed, Held, Halved, Continued, Faithful, ToCome

\* A response without a body, or an error, is faithful.
LEMMA PlainFaithful ==
    ASSUME resp' = ErrorResponse \/ resp' = Response(204, "none", <<>>, -1)
    PROVE  Faithful'
<1>1. CASE resp' = ErrorResponse
  <2>1. Fitting(resp') /\ resp'.status = 500 BY <1>1, PlainFits
  <2> QED BY <2>1 DEF Faithful, Unmodified
<1>2. CASE resp' = Response(204, "none", <<>>, -1)
  <2>1. PICK s \in Int : s = 204 OBVIOUS
  <2>2. Fitting(resp') /\ resp'.body = <<>> BY <1>2, <2>1, PlainFits
  <2> QED BY <2>2 DEF Faithful
<1> QED BY <1>1, <1>2

\* A response that is built is faithful: the body of the adapted message is the client's.
LEMMA BuiltFaithful ==
    ASSUME IndInv, Held, Build
    PROVE  Faithful'
<1>1. pc = "delay" /\ UNCHANGED <<req, tmpl>> /\ tmpl[1].base \in Template /\ Messages(msgs)
  BY DEF Build, IndInv, Selecting, Receiving
<1>2. PICK t \in Template, q \in {Query} : t = tmpl[1].base /\ q = Query BY <1>1
<1>3. q.msgs = msgs /\ Messages(q.msgs) /\ Adapted(q) = Adapted(req) BY <1>1, <1>2 DEF Query, Adapted
<1>4. PICK r \in IF t.error THEN {BuildFailed({})} ELSE BuildResponse(t, q) :
          (r.ok /\ resp' = r) \/ (~r.ok /\ resp' = ErrorResponse)
  BY <1>2 DEF Build, ProcessFails
<1>5. CASE ~r.ok /\ resp' = ErrorResponse BY <1>5, PlainFaithful
<1>6. CASE r.ok /\ resp' = r
  <2>1. r \in BuildResponse(t, q)
    <3>1. PICK f \in SUBSET STRING : f = {} OBVIOUS
    <3>2. BuildFailed(f).ok = FALSE BY PlainFits
    <3>3. r # BuildFailed({}) BY <1>6, <3>1, <3>2
    <3> QED BY <1>4, <3>3
  <2>2. Fitting(r) BY <1>3, <2>1, BuiltFits
  <2>3. ASSUME r.body # <<>>, Unmodified'  PROVE r.body = ClientBody'
    <3>1. /\ ~r.stream /\ r.target = OnTheWire(req)
          /\ t.httpBody = <<>> /\ t.httpFile = "" /\ t.httpStatus = 0
      BY <1>1, <1>2, <1>6, <2>3 DEF Unmodified
    <3>2. r.target # "none" BY <3>1 DEF OnTheWire
    <3>3. Adapted(q) \in DOMAIN q.msgs /\ r.target = Adapted(q) /\ r.body = q.msgs[Adapted(q)].data
      BY <1>3, <2>1, <3>1, <3>2, PassedThrough
    <3>4. r.body = msgs[OnTheWire(req)].data /\ OnTheWire(req) \in DOMAIN msgs BY <1>3, <3>1, <3>3
    <3>5. r.body = ClientBody BY <2>3, <3>4 DEF Held
    <3> QED BY <1>1, <3>5 DEF ClientBody
  <2> QED BY <1>6, <2>2, <2>3 DEF Faithful
<1> QED BY <1>4, <1>5, <1>6

\* A response stays one that can be delivered.
LEMMA StepFaithful ==
    ASSUME IndInv, Held, Faithful, Next
    PROVE  Faithful'
<1>1. ASSUME resp' = resp, req' = req, tmpl' = tmpl  PROVE Faithful'
  <2>1. Unmodified' = Unmodified /\ ClientBody' = ClientBody
    BY <1>1 DEF Unmodified, ClientEnded, ClientBody, OnTheWire, Parsed
  <2> QED BY <1>1, <2>1 DEF Faithful
<1>2. CASE Standing BY <1>1, <1>2 DEF Standing
<1>3. CASE Failing BY <1>3, PlainFaithful DEF Failing
<1>4. CASE Data \/ FileChanges BY <1>1, <1>4 DEF Data, Done, FileChanges
<1>5. CASE Serve BY <1>5, PlainFaithful DEF Serve, ProcessFails
<1>6. CASE Build BY <1>6, BuiltFaithful
<1>7. CASE Post BY <1>1, <1>7, PlainFaithful DEF Post
<1> QED BY <1>2, <1>3, <1>4, <1>5, <1>6, <1>7, OnTheResponse

\* What passes through stays the client's.
LEMMA StepEchoed ==
    ASSUME IndInv, Echoed, Next
    PROVE  Echoed'
<1>1. Held /\ Halved /\ Continued /\ Faithful BY EchoedParts
<1>2. Held' /\ Halved' /\ Continued' /\ Faithful' BY <1>1, StepReading, StepFaithful
<1> QED BY <1>2 DEF Echoed, Held, Halved, Continued, Faithful, ToCome

\* Nothing was read yet.
LEMMA FirstEchoed ==
    ASSUME Init
    PROVE  Echoed
<1>1. /\ req \in Requests /\ got = <<>> /\ wire = [now |-> req.now, later |-> req.later] /\ pc = ReceiveFrom(req)
      /\ resp = ErrorResponse
  BY DEF Init
<1>2. wire.now = req.now /\ wire.later = req.later BY <1>1
<1>3. ASSUME NEW name \in Parsed(req)
      PROVE  msgs[name].data = ParsedMessage(req, name).data /\ (msgs[name].reader => HasBody(req, name))
  <2>1. PICK m : m = ParsedMessage(req, name) OBVIOUS
  <2>2. msgs[name] = m \/ msgs[name] = [m EXCEPT !.loaded = TRUE, !.reader = FALSE] BY <1>3, <2>1 DEF Init
  <2>3. m.reader = HasBody(req, name) BY <2>1 DEF ParsedMessage
  <2>4. [m EXCEPT !.loaded = TRUE, !.reader = FALSE].data = m.data
        /\ [m EXCEPT !.loaded = TRUE, !.reader = FALSE].reader = FALSE
    BY <2>1 DEF ParsedMessage
  <2> QED BY <2>1, <2>2, <2>3, <2>4
<1>4. DOMAIN msgs = Parsed(req) BY DEF Init
<1>5. Held
  <2>1. ParsedMessage(req, OnTheWire(req)).data = <<>> BY DEF ParsedMessage
  <2> QED BY <1>1, <1>3, <1>4, <2>1 DEF Held
<1>6. Unread
  <2>1. PICK x \in Seq(Int), y \in Seq(Int) : x = PiecesBytes(req.now) /\ y = PiecesBytes(req.later) BY <1>1, TwoHalves
  <2>2. ClientBody = x \o y BY <1>1, <2>1, TwoHalves
  <2>3. PICK z \in Seq(Int) : z = x \o y BY ConcatProperties
  <2>4. <<>> \o z = z BY ConcatEmptySeq
  <2>5. got \o (PiecesBytes(wire.now) \o PiecesBytes(wire.later)) = ClientBody BY <1>1, <1>2, <2>1, <2>2, <2>3, <2>4
  <2> QED BY <1>1, <1>2, <2>5, TwoHalves DEF Unread
<1>7. Halved
  <2>1. pc = "body" => ~Preview(req) BY <1>1 DEF ReceiveFrom
  <2>2. pc = "preview" => Preview(req) /\ Adapted(req) \in Parsed(req) BY <1>1 DEF ReceiveFrom
  <2> QED BY <1>6, <2>1, <2>2 DEF Halved
<1>8. Continued
  <2>1. pc \notin {"continue", "rest"} BY <1>1 DEF ReceiveFrom
  <2>2. ASSUME pc = "serve", Live(Adapted(req), Query)  PROVE FALSE
    <3>1. Adapted(req) \in Parsed(req) /\ msgs[Adapted(req)].reader BY <1>4, <2>2 DEF Live, Query
    <3>2. HasBody(req, Adapted(req)) BY <1>3, <3>1
    <3>3. OnTheWire(req) = Adapted(req)
      <4>1. req.method \in {"REQMOD", "RESPMOD"} BY <1>1, ExchangeAssumption DEF ExchangeAssumption, Request
      <4> QED BY <3>1, <4>1 DEF OnTheWire, Adapted
    <3> QED BY <1>1, <2>2, <3>1, <3>2, <3>3 DEF ReceiveFrom
  <2> QED BY <2>1, <2>2 DEF Continued
<1>9. Faithful
  <2>1. Fitting(resp) /\ resp.status = 500 BY <1>1, PlainFits
  <2> QED BY <2>1 DEF Faithful, Unmodified
<1> QED BY <1>5, <1>7, <1>8, <1>9, EchoedParts

-----------------------------------------------------------------------------
(* The delivery *)

\* Nothing was sent yet.
LEMMA FirstDelivering ==
    ASSUME Init
    PROVE  Delivering
<1>1. /\ sent = <<>> /\ net = <<>> /\ src = <<>> /\ edited = NoEdits /\ io = "none" /\ resp = ErrorResponse
      /\ pc \in {"preview", "body", "serve"}
  BY DEF Init, ReceiveFrom
<1>2. <<>> \in Seq(Token) OBVIOUS
<1>3. Announcing /\ Sourcing BY <1>1 DEF Announcing, Sourcing, EditCounts, NoEdits
<1>4. Travelling /\ Arriving BY <1>1 DEF Travelling, Arriving
<1> QED BY <1>1, <1>2, <1>3, <1>4 DEF Delivering

\* Every step of the handler, of its peers and of the closers leaves the delivery on course.
LEMMA StepDelivering ==
    ASSUME IndInv, IndInv', Echoed, Delivering, Next
    PROVE  Delivering'
<1>1. Announcing' /\ sent' \in Seq(Token) /\ net' \in Seq(Token) BY StepAnnouncing
<1>2. Sourcing' /\ Travelling' /\ Arriving' BY StepSourcing, StepTravelling, StepArriving
<1> QED BY <1>1, <1>2 DEF Delivering

\* Nothing changes when nothing happens.
LEMMA StutterDelivering ==
    ASSUME UNCHANGED vars
    PROVE  Echoed' = Echoed /\ Delivering' = Delivering
<1> USE DEF vars, reading, serving, writing, closing
<1>1. /\ ClientBody' = ClientBody /\ Unmodified' = Unmodified /\ Ops' = Ops /\ Place' = Place /\ Reached' = Reached
      /\ Committed' = Committed /\ Pending' = Pending /\ VerifyPlace' = VerifyPlace /\ Terminated' = Terminated
  BY DEF ClientBody, Unmodified, ClientEnded, Ops, Place, Reached, Committed, Pending, VerifyPlace, Terminated
<1>2. Unread' = Unread /\ Live(Adapted(req), Query)' = Live(Adapted(req), Query) BY <1>1 DEF Unread, Live, Query
<1>3. Echoed' = Echoed BY <1>1, <1>2 DEF Echoed
<1>4. ASSUME NEW d  PROVE Declared(d)' = Declared(d) /\ Drawn(d)' = Drawn(d) BY <1>1 DEF Declared, Drawn
<1>5. ASSUME NEW T, NEW m  PROVE Fine(T, m)' = Fine(T, m) /\ Sound(T)' = Sound(T)
  <2>1. PICK d : d = Payload(T) OBVIOUS
  <2>2. Declared(d)' = Declared(d) BY <1>4
  <2> QED BY <2>1, <2>2 DEF Fine, Sound
<1>6. ASSUME NEW T, NEW e, NEW d  PROVE Course(T, e, d)' = Course(T, e, d)
  <2>1. PICK p, b : p = Payload(T) /\ b = Payload(T) \o d OBVIOUS
  <2>2. Declared(p)' = Declared(p) /\ Drawn(b)' = Drawn(b) BY <1>4
  <2>3. Accounted(T, e, d)' = Accounted(T, e, d) BY <1>1, <2>1, <2>2 DEF Accounted
  <2>4. PICK m : m = DebtAt(Ops, e) OBVIOUS
  <2>5. Fine(T, m)' = Fine(T, m) BY <1>5
  <2>6. Passed(Ops, T, e)' = Passed(Ops, T, e) /\ Latest(Ops, T, e)' = Latest(Ops, T, e) BY <1>1 DEF Passed, Latest
  <2> QED BY <1>1, <2>3, <2>4, <2>5, <2>6 DEF Course
<1>7. OnCourse' = OnCourse
  <2>1. Aligned' = Aligned BY <1>1 DEF Aligned
  <2>2. PICK T, e, d : T = Committed /\ e = Reached /\ d = Pending OBVIOUS
  <2>3. Course(T, e, d)' = Course(T, e, d) BY <1>6
  <2> QED BY <1>1, <2>1, <2>2, <2>3 DEF OnCourse
<1>8. Lame' = Lame
  <2>1. PICK T : T = Committed OBVIOUS
  <2>2. \A m : Fine(T, m)' = Fine(T, m) BY <1>5
  <2> QED BY <1>1, <2>1, <2>2 DEF Lame
<1>9. Announcing' = Announcing /\ Travelling' = Travelling BY <1>7, <1>8 DEF Announcing, Travelling
<1>10. Sourcing' = Sourcing
  <2>1. PICK d : d = <<>> OBVIOUS
  <2>2. Drawn(d)' = Drawn(d) BY <1>4
  <2> QED BY <2>1, <2>2 DEF Sourcing
<1>11. Arriving' = Arriving
  <2>1. PICK T, m : T = sent /\ m = 0 OBVIOUS
  <2>2. Sound(T)' = Sound(T) BY <1>5
  <2> QED BY <1>1, <2>1, <2>2 DEF Arriving, Boundary
<1> QED BY <1>3, <1>9, <1>10, <1>11 DEF Delivering

\* The invariant of the delivery: at every point of the exchange what was received, what is in
\* the socket and in the buffer, and what is left of the source and of the operations add up to
\* the declared body, but for the bytes that its files gained, lost or had overwritten.
THEOREM DeliveryInvariance == Spec => [](Echoed /\ Delivering)
<1>1. Init => Echoed /\ Delivering BY FirstEchoed, FirstDelivering
<1>2. IndInv /\ IndInv' /\ (Echoed /\ Delivering) /\ [Next]_vars => (Echoed /\ Delivering)'
  <2> SUFFICES ASSUME IndInv, IndInv', Echoed, Delivering, [Next]_vars  PROVE Echoed' /\ Delivering' OBVIOUS
  <2>1. CASE Next BY <2>1, StepEchoed, StepDelivering
  <2>2. CASE UNCHANGED vars BY <2>2, StutterDelivering
  <2> QED BY <2>1, <2>2
<1> QED BY <1>1, <1>2, Invariance, PTL DEF Spec

\* What the client decodes is what the response declares, for every request, scenario, schedule of
\* the stream, size of the buffer and order of closing, and for any number of changes of its files:
\* every chunk is framed to its size; a body that is terminated has the declared length, and its
\* bytes unless a file was overwritten in place or both lost bytes and grew; and when the
\* connection is kept, the body is terminated and a response without an ICAP body of its own ends
\* with the token by which the client knows that it does.
THEOREM DeliveryTheorem == Spec => []DeliveredAsDeclared
<1>1. IndInv /\ (Echoed /\ Delivering) => DeliveredAsDeclared
  <2> SUFFICES ASSUME IndInv, Echoed, Delivering  PROVE DeliveredAsDeclared OBVIOUS
  <2>1. Sound(sent)
    <3>1. CASE pc \in {"write", "close", "next", "over"} BY <3>1 DEF Delivering, Arriving
    <3>2. CASE pc \notin {"write", "close", "next", "over"}
      <4>1. sent \in {<<>>, Announced} BY <3>2 DEF Delivering, Announcing, IndInv, Meeting
      <4> QED BY <4>1, SoundBefore
    <3> QED BY <3>1, <3>2
  <2>2. pc = "next" => wbuf = <<>> BY DEF IndInv, Buffering
  <2> QED BY <2>1, <2>2 DEF DeliveredAsDeclared, Sound, Delivering, Arriving, Terminated
<1> QED BY <1>1, Invariance, DeliveryInvariance, PTL

-----------------------------------------------------------------------------
(* The schedule that is chosen *)

\* Division is monotone.
LEMMA Quotients ==
    ASSUME NEW g \in Nat \ {0}, NEW m \in Nat, NEW r \in Nat
    PROVE  m \div g \in Nat /\ (m + r) \div g \in Nat /\ m \div g <= (m + r) \div g
<1>1. PICK h, s, k, t : h = m \div g /\ s = m % g /\ k = (m + r) \div g /\ t = (m + r) % g OBVIOUS
<1>2. h \in Nat /\ s \in 0..(g - 1) /\ m = g * h + s BY <1>1
<1>3. k \in Nat /\ t \in 0..(g - 1) /\ m + r = g * k + t BY <1>1
<1>4. ~(h >= k + 1)
  <2> SUFFICES ASSUME h >= k + 1  PROVE FALSE OBVIOUS
  <2>1. g * h >= g * (k + 1) /\ g * (k + 1) = g * k + g BY <1>2, <1>3
  <2>2. PICK a \in Nat, b \in Nat : a = g * h /\ b = g * k /\ a >= b + g BY <1>2, <1>3, <2>1
  <2> QED BY <1>2, <1>3, <2>2
<1> QED BY <1>1, <1>2, <1>3, <1>4

\* What is divided exactly.
LEMMA ExactQuotient ==
    ASSUME NEW g \in Nat \ {0}, NEW r \in Nat
    PROVE  (r * g) \div g = r
<1>1. PICK m \in Nat : m = r * g OBVIOUS
<1>2. PICK h, s : h = m \div g /\ s = m % g OBVIOUS
<1>3. h \in Nat /\ s \in 0..(g - 1) /\ m = g * h + s BY <1>2
<1>4. g * h + s = g * r BY <1>1, <1>3
<1>5. ~(h >= r + 1)
  <2> SUFFICES ASSUME h >= r + 1  PROVE FALSE OBVIOUS
  <2>1. g * h >= g * (r + 1) /\ g * (r + 1) = g * r + g BY <1>3
  <2>2. PICK a \in Nat, b \in Nat : a = g * h /\ b = g * r /\ a >= b + g BY <1>3, <2>1
  <2> QED BY <1>3, <1>4, <2>2
<1>6. ~(r >= h + 1)
  <2> SUFFICES ASSUME r >= h + 1  PROVE FALSE OBVIOUS
  <2>1. g * r >= g * (h + 1) /\ g * (h + 1) = g * h + g BY <1>3
  <2>2. PICK a \in Nat, b \in Nat : a = g * h /\ b = g * r /\ b >= a + g BY <1>3, <2>1
  <2> QED BY <1>3, <1>4, <2>2
<1> QED BY <1>1, <1>2, <1>3, <1>5, <1>6

\* A quotient is at least every number that goes into it.
LEMMA QuotientAtLeast ==
    ASSUME NEW d \in Nat, NEW e \in Nat \ {0}, NEW g \in Nat \ {0}, g <= d \div e
    PROVE  e <= d \div g
<1>1. PICK h, s, k, t : h = d \div e /\ s = d % e /\ k = d \div g /\ t = d % g OBVIOUS
<1>2. h \in Nat /\ s \in 0..(e - 1) /\ d = e * h + s BY <1>1
<1>3. k \in Nat /\ t \in 0..(g - 1) /\ d = g * k + t BY <1>1
<1>4. ~(e >= k + 1)
  <2> SUFFICES ASSUME e >= k + 1  PROVE FALSE OBVIOUS
  <2>1. g * e >= g * (k + 1) /\ g * (k + 1) = g * k + g BY <1>3
  <2>2. e * h >= e * g /\ e * g = g * e BY <1>1, <1>2
  <2>3. PICK a \in Nat, b \in Nat, c \in Nat : a = e * h /\ b = g * k /\ c = g * e /\ c >= b + g /\ a >= c
    BY <1>2, <1>3, <2>1, <2>2
  <2> QED BY <1>2, <1>3, <2>3
<1> QED BY <1>1, <1>3, <1>4

\* The chunks of a paced stream are in order, the last one comes at the end of the duration,
\* and between two of them lies at least the quotient of the duration by the gaps.
LEMMA OffsetSteps ==
    ASSUME NEW plan \in Plan, plan.duration > 0, NEW g \in Nat \ {0}, plan.count = g + 1
    PROVE  /\ \A i \in 0..(g - 1) : /\ ChunkOffset(plan, i) \in Nat /\ ChunkOffset(plan, i + 1) \in Nat
                                    /\ ChunkOffset(plan, i + 1) >= ChunkOffset(plan, i) + plan.duration \div g
           /\ ChunkOffset(plan, g) = plan.duration
<1>1. PICK d \in Nat \ {0} : d = plan.duration BY DEF Plan
<1>2. PICK q, r : q = d \div g /\ r = d % g OBVIOUS
<1>3. q \in Nat /\ r \in Nat /\ d = g * q + r BY <1>2
<1>4. plan.count # 1 /\ plan.count - 1 = g OBVIOUS
<1>5. ASSUME NEW i \in Nat  PROVE ChunkOffset(plan, i) = q * i + (r * i) \div g
  BY <1>1, <1>2, <1>4 DEF ChunkOffset
<1>6. ASSUME NEW i \in 0..(g - 1)
      PROVE  /\ ChunkOffset(plan, i) \in Nat /\ ChunkOffset(plan, i + 1) \in Nat
             /\ ChunkOffset(plan, i + 1) >= ChunkOffset(plan, i) + q
  <2>1. PICK m \in Nat : m = r * i /\ r * (i + 1) = m + r BY <1>3
  <2>2. m \div g \in Nat /\ (m + r) \div g \in Nat /\ m \div g <= (m + r) \div g BY <1>3, Quotients
  <2>3. q * (i + 1) = q * i + q /\ q * i \in Nat BY <1>3
  <2>4. ChunkOffset(plan, i) = q * i + m \div g /\ ChunkOffset(plan, i + 1) = q * (i + 1) + (m + r) \div g
    BY <1>5, <2>1
  <2>5. PICK u \in Nat, v \in Nat, w \in Nat : u = q * i /\ v = m \div g /\ w = (m + r) \div g /\ v <= w BY <2>2, <2>3
  <2>6. ChunkOffset(plan, i) = u + v /\ ChunkOffset(plan, i + 1) = (u + q) + w BY <2>3, <2>4, <2>5
  <2> QED BY <1>3, <2>5, <2>6
<1>7. ChunkOffset(plan, g) = d
  <2>1. (r * g) \div g = r BY <1>3, ExactQuotient
  <2>2. ChunkOffset(plan, g) = q * g + r BY <1>5, <2>1
  <2> QED BY <1>3, <2>2
<1> QED BY <1>1, <1>2, <1>6, <1>7

\* A stream that is paced both ways has no more chunks than its cadence has slots.
LEMMA SlotsBound ==
    ASSUME NEW o, o.duration \in Nat, o.every \in Nat, o.target \in Nat, o.chunks \in Nat, o.bytes \in Nat,
           o.duration > 0, o.every > 0
    PROVE  PlannedChunkCount(o) - 1 <= o.duration \div o.every
<1>1. PICK d \in Nat \ {0}, e \in Nat \ {0} : d = o.duration /\ e = o.every OBVIOUS
<1>2. PICK h \in Nat : h = d \div e BY <1>1
<1>3. MaxStreamChunks \in Nat \ {0} BY StreamPlanAssumption DEF StreamPlanAssumption
<1>4. CadenceSlots(d, e) \in Nat /\ CadenceSlots(d, e) <= h + 1 BY <1>2, <1>3 DEF CadenceSlots
<1>5. PICK c \in Nat : c = PlannedChunkCount(o) BY CountBounds
<1> DEFINE preferred == LeastOf(LeastOf(PreferredChunkCount(o), o.bytes), MaxStreamChunks)
<1>6. PICK s, p : s = CadenceSlots(d, e) /\ p = LeastOf(preferred, s) OBVIOUS
<1>7. c = 0 \/ c = 1 \/ c = p BY <1>1, <1>5, <1>6 DEF PlannedChunkCount
<1> HIDE DEF preferred
<1>9. c = p => c <= s
  <2>1. CASE p = s BY <1>4, <1>6, <2>1
  <2>2. CASE p = preferred /\ ~(s < preferred)
    <3> SUFFICES ASSUME c = p  PROVE c <= s OBVIOUS
    <3>1. PICK z \in Nat : z = s BY <1>4, <1>6
    <3>2. ~(z < c) BY <2>2, <3>1
    <3> QED BY <3>1, <3>2
  <2> QED BY <1>6, <2>1, <2>2 DEF LeastOf
<1>10. PICK z \in Nat : z = s /\ z <= h + 1 BY <1>4, <1>6
<1>11. c <= h + 1
  <2>1. CASE c = p BY <1>9, <1>10, <2>1
  <2>2. CASE c = 0 \/ c = 1 BY <2>2
  <2> QED BY <1>7, <2>1, <2>2
<1> QED BY <1>1, <1>2, <1>5, <1>11

\* Whatever a stream block draws from its ranges, the schedule cuts up exactly what is to be sent,
\* in chunks of a byte or more and within the limit of chunks; a chunk never comes sooner after
\* the one before it than the configured cadence, and with a duration the last one comes at its
\* end (stream_plan.go plannedChunkCount, ChunkSize and ChunkOffset).
THEOREM ScheduleTheorem ==
    ASSUME NEW c \in Controls, NEW size \in Nat, NEW o \in SelectBodyStreamPlanOptions(c, size), OptionsValid(o),
           NEW plan, plan = PlanBodyStream(o)
    PROVE  /\ plan.bytes <= size /\ plan.count <= MaxStreamChunks /\ (plan.count = 0 <=> plan.bytes = 0)
           /\ plan.count > 0 => BytesBefore(plan, 0) = 0 /\ BytesBefore(plan, plan.count) = plan.bytes
           /\ \A i \in 0..plan.count - 1 :
                 /\ ChunkSize(plan, i) \in Nat \ {0}
                 /\ BytesBefore(plan, i + 1) = BytesBefore(plan, i) + ChunkSize(plan, i)
           /\ \A i \in 0..plan.count - 2 : ChunkOffset(plan, i) + plan.every <= ChunkOffset(plan, i + 1)
           /\ plan.duration > 0 /\ plan.count > 0 => ChunkOffset(plan, plan.count - 1) = plan.duration
<1>1. /\ o.source = size /\ o.duration \in Nat /\ o.every \in Nat /\ o.target \in Nat
      /\ o.chunks \in Nat /\ o.bytes \in 0..size /\ o.mode \in Modes
  BY Optional
<1>2. o.bytes \in Nat /\ o.source \in Nat BY <1>1
<1>3. plan \in Plan BY <1>1, <1>2, Planned
<1>4. plan.bytes = o.bytes /\ plan.count = PlannedChunkCount(o) /\ plan.duration = o.duration /\ plan.every = o.every
  BY DEF PlanBodyStream
<1>5. PICK n \in Nat, b \in Nat, d \in Nat, e \in Nat :
          n = plan.count /\ b = plan.bytes /\ d = plan.duration /\ e = plan.every
  BY <1>3 DEF Plan
<1>6. n <= b /\ n <= MaxStreamChunks /\ (b > 0 => n > 0) /\ b <= size
  <2>1. /\ PlannedChunkCount(o) <= o.bytes /\ PlannedChunkCount(o) <= MaxStreamChunks
        /\ o.bytes > 0 => PlannedChunkCount(o) > 0
    BY <1>1, <1>2, CountBounds
  <2> QED BY <1>1, <1>4, <1>5, <2>1
<1>7. n > 0 => /\ BytesBefore(plan, 0) = 0 /\ BytesBefore(plan, n) = b
               /\ \A i \in 0..n - 1 : /\ ChunkSize(plan, i) \in Nat \ {0}
                                       /\ BytesBefore(plan, i + 1) = BytesBefore(plan, i) + ChunkSize(plan, i)
  BY <1>3, <1>5, <1>6, ChunkSums
<1>8. n = 0 => 0..n - 1 = {} /\ 0..n - 2 = {} OBVIOUS
<1>9. ASSUME NEW i \in 0..n - 2  PROVE ChunkOffset(plan, i) + e <= ChunkOffset(plan, i + 1)
  <2>1. CASE d = 0
    <3>1. ChunkOffset(plan, i) = i * e /\ ChunkOffset(plan, i + 1) = (i + 1) * e BY <1>5, <2>1 DEF ChunkOffset
    <3>2. (i + 1) * e = i * e + e /\ i * e \in Nat OBVIOUS
    <3>3. PICK u \in Nat : u = i * e BY <3>2
    <3> QED BY <3>1, <3>2, <3>3
  <2>2. CASE d > 0
    <3>1. PICK g \in Nat \ {0} : g = n - 1 /\ i \in 0..(g - 1) BY <1>9
    <3>2. /\ ChunkOffset(plan, i) \in Nat /\ ChunkOffset(plan, i + 1) \in Nat
          /\ ChunkOffset(plan, i + 1) >= ChunkOffset(plan, i) + d \div g
      <4>1. plan.count = g + 1 /\ plan.duration > 0 BY <1>5, <2>2, <3>1
      <4>2. \A j \in 0..(g - 1) : /\ ChunkOffset(plan, j) \in Nat /\ ChunkOffset(plan, j + 1) \in Nat
                                 /\ ChunkOffset(plan, j + 1) >= ChunkOffset(plan, j) + plan.duration \div g
        BY <1>3, <4>1, OffsetSteps
      <4> QED BY <1>5, <3>1, <4>2
    <3>3. d \div g \in Nat /\ e <= d \div g
      <4>1. d \div g \in Nat OBVIOUS
      <4>2. CASE e = 0 BY <4>1, <4>2
      <4>3. CASE e > 0
        <5>1. PlannedChunkCount(o) - 1 <= o.duration \div o.every BY <1>1, <1>2, <1>4, <1>5, <2>2, <4>3, SlotsBound
        <5>2. g <= d \div e BY <1>4, <1>5, <3>1, <5>1
        <5>3. e \in Nat \ {0} BY <4>3
        <5> QED BY <4>1, <5>2, <5>3, QuotientAtLeast
      <4> QED BY <4>2, <4>3
    <3>4. PICK x \in Nat, y \in Nat, z \in Nat :
              x = ChunkOffset(plan, i) /\ y = ChunkOffset(plan, i + 1) /\ z = d \div g /\ y >= x + z /\ e <= z
      BY <3>2, <3>3
    <3> QED BY <3>4
  <2> QED BY <2>1, <2>2
<1>10. d > 0 /\ n > 0 => ChunkOffset(plan, n - 1) = d
  <2> SUFFICES ASSUME d > 0, n > 0  PROVE ChunkOffset(plan, n - 1) = d OBVIOUS
  <2>1. CASE n = 1 BY <1>5, <2>1 DEF ChunkOffset
  <2>2. CASE n # 1
    <3>1. PICK g \in Nat \ {0} : g = n - 1 BY <2>2
    <3>2. plan.count = g + 1 /\ plan.duration > 0 BY <1>5, <3>1
    <3>3. ChunkOffset(plan, g) = plan.duration BY <1>3, <3>2, OffsetSteps
    <3> QED BY <1>5, <3>1, <3>3
  <2> QED BY <2>1, <2>2
<1>11. n = 0 <=> b = 0 BY <1>6
<1> HIDE DEF BytesBefore, ChunkSize, ChunkOffset
<1> QED BY <1>5, <1>6, <1>7, <1>8, <1>9, <1>10, <1>11
==============================================================================
