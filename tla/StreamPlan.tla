----------------------------- MODULE StreamPlan -----------------------------
(***************************************************************************)
(* How a streamed body is cut up: the options a scenario's stream block    *)
(* selects for one response (processor/stream_plan.go) and the delivery    *)
(* schedule made from them (pkg/icap/stream_plan.go).  A configured range  *)
(* is the set of values the random selector may return, empty when the     *)
(* setting is absent.  Sizes are bytes, times are ticks.                   *)
(***************************************************************************)
EXTENDS Integers, FiniteSets, FiniteSetsExt

CONSTANTS
    MaxStreamChunks,         \* maxStreamChunks
    DefaultStreamChunkSize,
    AutomaticCadence,        \* automaticStreamCadence
    MaxDuration              \* the largest time.Duration

ASSUME StreamPlanAssumption ==
    {MaxStreamChunks, DefaultStreamChunkSize, AutomaticCadence, MaxDuration} \subseteq Nat \ {0}

-----------------------------------------------------------------------------
(* Selecting the options *)

Chosen(range) == IF range = {} THEN {0} ELSE range

PercentOf(size, percent) == (size \div 100) * percent + ((size % 100) * percent) \div 100

Partial(mode) == mode \in {"fin", "term"}

UsesDirectStreamControls(c) ==
    c.direct \/ c.percents # {} \/ c.durations # {} \/ c.sizes # {} \/ c.chunks # 0 \/ c.everys # {} \/ c.mode # ""

\* "weighted" draws 0..99 against complete_percent.
LegacyFinishModes(c) ==
    CASE c.finish = "" -> {"complete"}
      [] c.finish = "weighted" -> (IF c.completePercent > 0 THEN {"complete"} ELSE {})
                                  \cup (IF c.completePercent < 100 THEN {"fin"} ELSE {})
      [] OTHER -> {c.finish}

\* The earlier of the stream's duration and the time the finish is set for.
LegacyDuration(c, mode, d, after) ==
    IF ~Partial(mode) \/ c.finTimes = {} THEN d ELSE IF d = 0 \/ after < d THEN after ELSE d

Options(mode, source, set, bytes, target, chunks, duration, every) ==
    [mode |-> IF mode = "" THEN "complete" ELSE mode, source |-> source, set |-> set,
     bytes |-> IF set THEN bytes ELSE source,
     target |-> target, chunks |-> chunks, duration |-> duration, every |-> every]

SelectDirectPlanOptions(c, size) ==
    {Options(c.mode, size, c.percents # {}, PercentOf(size, p), t, c.chunks, d, e) :
        p \in Chosen(c.percents), t \in Chosen(c.sizes), d \in Chosen(c.durations), e \in Chosen(c.everys)}

LegacyPlanOptions(c, size, mode, t, e, b, d, after) ==
    Options(mode, size, Partial(mode) /\ c.finBytes # {}, Min({b, size}), t, 0, LegacyDuration(c, mode, d, after), e)

SelectLegacyPlanOptions(c, size) ==
    {LegacyPlanOptions(c, size, mode, t, e, b, d, after) :
        mode \in LegacyFinishModes(c), t \in Chosen(c.legacySizes), e \in Chosen(c.legacyDelays),
        b \in Chosen(c.finBytes), d \in Chosen(c.legacyDurations), after \in Chosen(c.finTimes)}

SelectBodyStreamPlanOptions(c, size) ==
    IF UsesDirectStreamControls(c) THEN SelectDirectPlanOptions(c, size) ELSE SelectLegacyPlanOptions(c, size)

-----------------------------------------------------------------------------
(* The plan *)

CeilPositive(value, divisor) == value \div divisor + (IF value % divisor # 0 THEN 1 ELSE 0)

OptionsValid(o) ==
    /\ o.source >= 0 /\ o.duration >= 0 /\ o.every >= 0 /\ o.target >= 0 /\ o.chunks >= 0
    /\ ~(o.target > 0 /\ o.chunks > 0)
    /\ o.mode \in {"complete", "fin", "term"}
    /\ o.set => o.bytes \in 0..o.source
    /\ o.mode = "complete" /\ o.set => o.bytes = o.source

PreferredChunkCount(o) ==
    IF o.target > 0 THEN CeilPositive(o.bytes, o.target)
    ELSE IF o.chunks > 0 THEN o.chunks
    ELSE IF o.duration > 0 THEN CeilPositive(o.duration, AutomaticCadence) + 1
    ELSE CeilPositive(o.bytes, DefaultStreamChunkSize)

CadenceSlots(duration, every) ==
    IF duration \div every >= MaxStreamChunks - 1 THEN MaxStreamChunks ELSE duration \div every + 1

LeastOf(a, b) == IF b < a THEN b ELSE a

PlannedChunkCount(o) ==
    LET preferred == LeastOf(LeastOf(PreferredChunkCount(o), o.bytes), MaxStreamChunks)
        paced == IF o.duration > 0 /\ o.every > 0
                 THEN LeastOf(preferred, CadenceSlots(o.duration, o.every)) ELSE preferred
    IN  IF o.bytes = 0 THEN 0 ELSE IF paced < 1 THEN 1 ELSE paced

CadenceInRange(o) ==
    LET n == PlannedChunkCount(o) IN o.every = 0 \/ n <= 1 \/ o.every <= MaxDuration \div (n - 1)

PlanBodyStream(o) ==
    [mode |-> o.mode, source |-> o.source, bytes |-> o.bytes,
     duration |-> o.duration, every |-> o.every, count |-> PlannedChunkCount(o)]

\* index counts from 0.
ChunkSize(plan, index) ==
    plan.bytes \div plan.count + (IF index < plan.bytes % plan.count THEN 1 ELSE 0)

ChunkOffset(plan, index) ==
    IF plan.duration = 0 THEN index * plan.every
    ELSE IF plan.count = 1 THEN plan.duration
    ELSE LET gaps == plan.count - 1
         IN  (plan.duration \div gaps) * index + ((plan.duration % gaps) * index) \div gaps
=============================================================================
