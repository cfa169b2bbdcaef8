--------------------------- MODULE ScenarioWatcher ---------------------------
(***************************************************************************)
(* Hot reload (internal/storage/scenario_watcher.go) in front of the plain *)
(* registry: file system events, one debounce timer per path, the          *)
(* callbacks of timers that have fired (each a goroutine), manual reloads  *)
(* and Stop.  A reload reads and converts the file first and takes the     *)
(* registry's lock only to replace the list.                               *)
(***************************************************************************)
EXTENDS ScenarioFile

CONSTANTS
    Paths,           \* paths events may name
    FilePath,        \* the scenario file
    YamlPaths,       \* those with extension .yaml or .yml
    WatchDirectory,  \* watch the directory instead of the file
    Revisions,       \* contents the scenario file takes one after the other, the first one at the start
    Requests,        \* requests the registry is asked about
    MaxCalls         \* bound: changes of files and calls of TriggerReload

ASSUME WatcherAssumption ==
    /\ FilePath \in YamlPaths /\ YamlPaths \subseteq Paths
    /\ WatchDirectory \in BOOLEAN /\ MaxCalls \in Nat /\ Len(Revisions) > MaxCalls
    /\ Revisions \in Seq(ToSet(Revisions)) /\ \A file \in ToSet(Revisions) : IsFile(file)

VARIABLES
    disk,      \* the scenario file: its revision, 0 when it is missing
    latest,    \* the revision written last
    inotify,   \* "off", "on", "lost" (the watched file was replaced) or "closed"
    queue,     \* events the loop has not taken
    loop,      \* processEvents: "off", "select", "handle", "gone"
    ev,        \* the event being handled
    timers,    \* debounceTim: path -> index of a timer
    seqs,      \* debounceSeq
    cbs,       \* timers and reloads: [path, seq, st, next]
    ctxDone,   \* ctx is cancelled
    stop,      \* "no", "clear", "close", "wait", "done"
    active,    \* the registry's scenarios
    calls,     \* changes and manual reloads so far
    from,      \* history: the revision active came from
    version,   \* history: number of changes of the scenario file
    notified,  \* history: the newest version an event was queued for
    seen       \* history: the newest version a reload has read

watcher == <<inotify, queue, loop, ev, timers, seqs, ctxDone, stop>>
history == <<from, version, notified, seen>>
vars == <<disk, latest, watcher, cbs, active, calls, history>>

NoEvent == [path |-> FilePath, op |-> None]

\* loadScenariosFromData and the rest of Load
Load(file) ==
    LET loaded(conv) ==
            IF conv.ok /\ FileValid(conv.list) THEN [ok |-> TRUE, contents |-> LoadedContents(conv.list)]
            ELSE [ok |-> FALSE, contents |-> {}]
    IN  loaded(ConvertV2ToScenarios(file))

\* What Load makes of every content.
Each(op(_), q) == [n \in DOMAIN q |-> op(q[n])]
Loaded == Each(Load, Revisions)

Init ==
    /\ latest = 1 /\ Loaded[latest].ok
    /\ disk = latest /\ active = Loaded[latest].contents /\ from = latest
    /\ inotify = "off" /\ queue = <<>> /\ loop = "off" /\ ev = NoEvent
    /\ timers = <<>> /\ seqs = <<>> /\ cbs = <<>> /\ ctxDone = FALSE /\ stop = "no"
    /\ calls = 0 /\ version = 0 /\ notified = 0 /\ seen = 0

-----------------------------------------------------------------------------
(* The file system *)

Watches(path) == inotify = "on" /\ (WatchDirectory \/ path = FilePath)

\* A write in place, or a new file moved over the old one: the directory then reports a
\* create, and a watch on the file itself ends.  Other files are only written.
Edit ==
    /\ calls < MaxCalls /\ calls' = calls + 1
    /\ \E path \in Paths, op \in {"write", "create", "remove"} :
           /\ path # FilePath => op = "write"
           /\ latest' = IF path = FilePath /\ op # "remove" THEN latest + 1 ELSE latest
           /\ disk' = IF path # FilePath THEN disk ELSE IF op = "remove" THEN 0 ELSE latest'
           /\ version' = IF path = FilePath THEN version + 1 ELSE version
           /\ queue' = IF Watches(path) /\ (WatchDirectory \/ op = "write")
                       THEN Append(queue, [path |-> path, op |-> op]) ELSE queue
           /\ inotify' = IF inotify = "on" /\ ~WatchDirectory /\ path = FilePath /\ op # "write"
                         THEN "lost" ELSE inotify
           /\ notified' = IF Watches(path) /\ path = FilePath
                             /\ (op = "write" \/ (WatchDirectory /\ op = "create"))
                          THEN version' ELSE notified
    /\ UNCHANGED <<loop, ev, timers, seqs, cbs, ctxDone, stop, active, from, seen>>

-----------------------------------------------------------------------------
(* The event loop *)

Start ==
    /\ loop = "off" /\ inotify = "off" /\ (WatchDirectory \/ disk # 0)
    /\ inotify' = "on" /\ loop' = "select"
    /\ UNCHANGED <<disk, latest, queue, ev, timers, seqs, cbs, ctxDone, stop, active, calls, history>>

\* select takes any case that is ready.
TakeEvent ==
    /\ loop = "select" /\ queue # <<>> /\ inotify # "closed"
    /\ ev' = Head(queue) /\ queue' = Tail(queue) /\ loop' = "handle"
    /\ UNCHANGED <<disk, latest, inotify, timers, seqs, cbs, ctxDone, stop, active, calls, history>>

LoopEnds ==
    /\ loop = "select" /\ (ctxDone \/ inotify = "closed")
    /\ loop' = "gone"
    /\ UNCHANGED <<disk, latest, inotify, queue, ev, timers, seqs, cbs, ctxDone, stop, active, calls, history>>

IsRelevantEvent(e) ==
    /\ e.op \in {"write", "create"} /\ e.path \in YamlPaths
    /\ WatchDirectory \/ e.path = FilePath

With(f, x, v) == [y \in DOMAIN f \cup {x} |-> IF y = x THEN v ELSE f[y]]
Drop(f, x) == [y \in DOMAIN f \ {x} |-> f[y]]

Stopped(k) == [cbs EXCEPT ![k].st = IF @ = "armed" THEN "stopped" ELSE @]
CurrentSeq(path) == IF path \in DOMAIN seqs THEN seqs[path] ELSE 0

\* scheduleReload, under debounceMu
ScheduleReload(path) ==
    LET old == IF path \in DOMAIN timers THEN Stopped(timers[path]) ELSE cbs
        seq == CurrentSeq(path) + 1
    IN  /\ seqs' = With(seqs, path, seq)
        /\ timers' = With(timers, path, Len(cbs) + 1)
        /\ cbs' = Append(old, [path |-> path, seq |-> seq, st |-> "armed", next |-> 0])

HandleEvent ==
    /\ loop = "handle"
    /\ IF IsRelevantEvent(ev) THEN ScheduleReload(ev.path) ELSE UNCHANGED <<seqs, timers, cbs>>
    /\ loop' = "select" /\ ev' = NoEvent
    /\ UNCHANGED <<disk, latest, inotify, queue, ctxDone, stop, active, calls, history>>

-----------------------------------------------------------------------------
(* Timers and reloads *)

TimerFires(k) ==
    /\ cbs[k].st = "armed"
    /\ cbs' = [cbs EXCEPT ![k].st = "fired"]
    /\ UNCHANGED <<disk, latest, watcher, active, calls, history>>

\* Mutant: the entries are forgotten whether or not they are this timer's.
CallbackChecksAlwaysForgets(k) ==
    /\ cbs[k].st = "fired"
    /\ cbs' = [cbs EXCEPT ![k].st = IF CurrentSeq(cbs[k].path) = cbs[k].seq THEN "reload" ELSE "done"]
    /\ timers' = Drop(timers, cbs[k].path) /\ seqs' = Drop(seqs, cbs[k].path)
    /\ UNCHANGED <<disk, latest, inotify, queue, loop, ev, ctxDone, stop, active, calls, history>>

\* The callback goes on only if no newer event has taken over its path.
CallbackChecks(k) ==
    /\ cbs[k].st = "fired"
    /\ IF CurrentSeq(cbs[k].path) = cbs[k].seq
       THEN /\ cbs' = [cbs EXCEPT ![k].st = "reload"]
            /\ timers' = Drop(timers, cbs[k].path) /\ seqs' = Drop(seqs, cbs[k].path)
       ELSE /\ cbs' = [cbs EXCEPT ![k].st = "done"]
            /\ UNCHANGED <<timers, seqs>>
    /\ UNCHANGED <<disk, latest, inotify, queue, loop, ev, ctxDone, stop, active, calls, history>>

TriggerReload ==
    /\ calls < MaxCalls /\ calls' = calls + 1
    /\ cbs' = Append(cbs, [path |-> FilePath, seq |-> 0, st |-> "reload", next |-> 0])
    /\ UNCHANGED <<disk, latest, watcher, active, history>>

\* registry.Reload: read, convert and validate, with no lock held.
ReloadReads(k) ==
    /\ cbs[k].st = "reload"
    /\ cbs' = [cbs EXCEPT ![k].next = disk,
                 ![k].st = IF disk # 0 /\ Loaded[disk].ok THEN "compare" ELSE "done"]
    /\ seen' = version
    /\ UNCHANGED <<disk, latest, watcher, active, calls, from, version, notified>>

\* ValidateExactRouteTopology against a copy of the list
ReloadCompares(k) ==
    /\ cbs[k].st = "compare"
    /\ cbs' = [cbs EXCEPT ![k].st =
                 IF TopologyKept(active, Loaded[cbs[k].next].contents) THEN "apply" ELSE "done"]
    /\ UNCHANGED <<disk, latest, watcher, active, calls, history>>

ReloadApplies(k) ==
    /\ cbs[k].st = "apply"
    /\ active' = Loaded[cbs[k].next].contents /\ from' = cbs[k].next
    /\ cbs' = [cbs EXCEPT ![k].st = "done", ![k].next = 0]
    /\ UNCHANGED <<disk, latest, watcher, calls, version, notified, seen>>

-----------------------------------------------------------------------------
(* Stop *)

StopCancels ==
    /\ stop = "no" /\ stop' = "clear" /\ ctxDone' = TRUE
    /\ UNCHANGED <<disk, latest, inotify, queue, loop, ev, timers, seqs, cbs, active, calls, history>>

\* Mutant: the timers are dropped, their sequence numbers are not.
StopClearsTimersOnly ==
    /\ stop = "clear" /\ stop' = "close"
    /\ cbs' = [k \in DOMAIN cbs |-> IF \E p \in DOMAIN timers : timers[p] = k THEN Stopped(k)[k] ELSE cbs[k]]
    /\ timers' = <<>>
    /\ UNCHANGED <<disk, latest, inotify, queue, loop, ev, seqs, ctxDone, active, calls, history>>

\* All timers and sequence numbers, under debounceMu.
StopClears ==
    /\ stop = "clear" /\ stop' = "close"
    /\ cbs' = [k \in DOMAIN cbs |-> IF \E p \in DOMAIN timers : timers[p] = k THEN Stopped(k)[k] ELSE cbs[k]]
    /\ timers' = <<>> /\ seqs' = [p \in DOMAIN seqs \ DOMAIN timers |-> seqs[p]]
    /\ UNCHANGED <<disk, latest, inotify, queue, loop, ev, ctxDone, active, calls, history>>

StopCloses ==
    /\ stop = "close" /\ stop' = "wait" /\ inotify' = "closed"
    /\ UNCHANGED <<disk, latest, queue, loop, ev, timers, seqs, cbs, ctxDone, active, calls, history>>

StopWaits ==
    /\ stop = "wait" /\ loop \in {"off", "gone"} /\ stop' = "done"
    /\ UNCHANGED <<disk, latest, inotify, queue, loop, ev, timers, seqs, cbs, ctxDone, active, calls, history>>

-----------------------------------------------------------------------------
LoopStep == TakeEvent \/ LoopEnds \/ HandleEvent
Callback(k) == CallbackChecks(k) \/ ReloadReads(k) \/ ReloadCompares(k) \/ ReloadApplies(k)
StopStep == StopClears \/ StopCloses \/ StopWaits

Next ==
    \/ Edit \/ Start \/ TriggerReload \/ StopCancels
    \/ LoopStep \/ StopStep
    \/ \E k \in DOMAIN cbs : TimerFires(k) \/ Callback(k)

\* Goroutines that can run do, timers fire, and Stop is carried through once called.
Fairness ==
    /\ WF_vars(LoopStep) /\ WF_vars(StopStep)
    /\ \A k \in 1..MaxCalls :
           /\ WF_vars(k \in DOMAIN cbs /\ TimerFires(k))
           /\ WF_vars(k \in DOMAIN cbs /\ Callback(k))

Spec == Init /\ [][Next]_vars /\ Fairness

\* A declaration whose variants inherit as documented: the fields of a scenario or branch do
\* not reach a variant that uses a template.
Inherits(d) ==
    DOMAIN d.inline = {} \/ LET list == Value(d.responses, <<>>) IN \A i \in DOMAIN list : list[i].use = None

\* Files whose order the assigned priorities keep (the 1003rd entry would come after the
\* default scenario), with no scenario called default beside a file-wide template, which it
\* would displace, no variant that uses a template beside fields of its scenario or branch,
\* and no request whose body a rule cannot be evaluated on.
Regular(file) ==
    /\ Len(file.entries) <= BasePriority + 2
    /\ file.defaults.use # None => \A i \in DOMAIN file.entries : file.entries[i].name # DefaultName
    /\ \A entry \in ToSet(file.entries) : Inherits(entry) /\ \A branch \in ToSet(entry.branches) : Inherits(branch)
    /\ \A i \in DOMAIN file.entries, req \in Requests :
          BodyPatternVerdict(file.entries[i].when, req) # "error"
-----------------------------------------------------------------------------
(* Properties *)

\* Every entry of debounceTim has its sequence number and the other way round, belongs to a
\* timer of that path and number that was not stopped.
TypeOK ==
    /\ disk \in {0, latest} /\ stop \in {"no", "clear", "close", "wait", "done"}
    /\ Len(cbs) <= MaxCalls
    /\ DOMAIN timers = DOMAIN seqs
    /\ \A p \in DOMAIN timers :
           LET cb == cbs[timers[p]]
           IN  cb.path = p /\ cb.seq = seqs[p] /\ cb.st \in {"armed", "fired"}

\* The scenarios in force answer every request as the file they came from says, read
\* declaration by declaration: routing inherited or overridden per method, the first entry and
\* branch that applies, each response field from the most specific level that sets it, the
\* file-wide template behind all.  When nothing applies, the match fails only in a file with
\* a scenario called default; every other registry has the implicit default, which answers
\* 204 (scenario.go Load).  A file that is refused changes nothing.
AnswersFollowTheFile ==
    LET file == Revisions[from]
        Answered(req) ==
            LET s == FirstMatch(active, req)
                chosen == IF s.branches = <<>> THEN s ELSE s.branches[SelectBranch(s, req)]
            IN  IF chosen.variants = <<>> THEN {chosen.resp.fields}
                ELSE {chosen.variants[i].fields : i \in DOMAIN chosen.variants}
    IN  (\A i \in DOMAIN file.entries : file.entries[i].priority = 0) =>
            \A req \in Requests :
                Answered(req) = IF Unanswered(file, req) /\ \A i \in DOMAIN file.entries : file.entries[i].name # DefaultName
                                THEN {DefaultScenario.resp.fields} ELSE DeclaredAnswer(file, req)

\* No change that was reported is forgotten: debouncing may merge reloads, but one that reads
\* the file after the change comes, however timers, late callbacks and reused sequence
\* numbers fall, unless Stop is called.
ChangesAreRead ==
    \A v \in 1..MaxCalls : notified >= v ~> (seen >= v \/ stop # "no")
=============================================================================
