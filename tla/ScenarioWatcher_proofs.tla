----------------------- MODULE ScenarioWatcher_proofs -----------------------
(***************************************************************************)
(* Proofs about ScenarioWatcher: whatever files, events, timers and manual *)
(* reloads there are, the debounce maps agree with the timers, what is in  *)
(* force is one accepted revision of the file, a change that was reported  *)
(* always has somebody who will read it, and the scenarios in force answer *)
(* as the declarations of a regular file say.                              *)
(***************************************************************************)
EXTENDS ScenarioWatcher, FiniteSetTheorems, FunctionTheorems, SequenceTheorems, TLAPS

-----------------------------------------------------------------------------
(* The inductive invariant *)

CallbackStates == {"armed", "stopped", "fired", "reload", "compare", "apply", "done"}
CallbackRecord == [path : Paths, seq : Nat, st : CallbackStates, next : Nat]
EventRecord == [path : Paths, op : {"write", "create", "remove", None}]

Typed ==
    /\ cbs \in Seq(CallbackRecord) /\ queue \in Seq(EventRecord) /\ ev \in EventRecord
    /\ loop \in {"off", "select", "handle", "gone"} /\ inotify \in {"off", "on", "lost", "closed"}
    /\ stop \in {"no", "clear", "close", "wait", "done"} /\ ctxDone \in BOOLEAN
    /\ version \in Nat /\ notified \in 0..version /\ seen \in 0..version

\* debounceTim and debounceSeq: an entry is that of a live timer of its path.
Debounced ==
    /\ DOMAIN timers = DOMAIN seqs /\ DOMAIN timers \subseteq Paths
    /\ \A p \in DOMAIN timers :
          /\ timers[p] \in DOMAIN cbs /\ seqs[p] \in Nat
          /\ cbs[timers[p]].path = p /\ cbs[timers[p]].seq = seqs[p]
          /\ cbs[timers[p]].st \in {"armed", "fired"}

\* Every timer was set by one event, every event stems from one change.
Counted ==
    /\ calls \in 0..MaxCalls
    /\ Len(cbs) + Len(queue) + (IF loop = "handle" THEN 1 ELSE 0) <= calls
    /\ latest \in 1..calls + 1 /\ disk \in {0, latest}

\* The scenarios in force are those of one revision that was accepted as a whole.
InForce ==
    /\ from \in 1..latest /\ Loaded[from].ok /\ active = Loaded[from].contents
    /\ \A k \in DOMAIN cbs : cbs[k].st \in {"compare", "apply"} =>
          cbs[k].next \in 1..latest /\ Loaded[cbs[k].next].ok

\* The loop runs until Stop.
Running ==
    /\ ctxDone \/ inotify = "closed" \/ loop = "gone" => stop # "no"
    /\ inotify = "on" => loop # "off"

Reports(e) == e.path = FilePath /\ e.op \in {"write", "create"}

\* Somebody who will read the file: an event that is queued or being handled, the timer of
\* the file, or a reload that has begun.
Promised ==
    \/ loop \in {"select", "handle"} /\ \E i \in DOMAIN queue : Reports(queue[i])
    \/ loop = "handle" /\ Reports(ev)
    \/ FilePath \in DOMAIN timers
    \/ \E k \in DOMAIN cbs : cbs[k].st = "reload"

\* A change that was reported and not yet read will be, unless Stop is called.
NoChangeForgotten == notified > seen /\ stop = "no" => Promised

IndInv == Typed /\ Debounced /\ Counted /\ InForce /\ Running /\ NoChangeForgotten

-----------------------------------------------------------------------------
(* What the operators preserve *)

\* A callback is replaced; no other is.
LEMMA Marking ==
    ASSUME NEW q \in Seq(CallbackRecord), NEW k \in DOMAIN q, NEW x \in CallbackRecord
    PROVE  /\ [q EXCEPT ![k] = x] \in Seq(CallbackRecord) /\ Len([q EXCEPT ![k] = x]) = Len(q)
           /\ DOMAIN [q EXCEPT ![k] = x] = DOMAIN q /\ [q EXCEPT ![k] = x][k] = x
           /\ \A j \in DOMAIN q : j # k => [q EXCEPT ![k] = x][j] = q[j]
OBVIOUS

\* A new timer takes over its path; the one before is stopped unless it has fired.
LEMMA Scheduling ==
    ASSUME Typed, Debounced, NEW path \in Paths, ScheduleReload(path)
    PROVE  /\ cbs' \in Seq(CallbackRecord) /\ Len(cbs') = Len(cbs) + 1 /\ DOMAIN cbs' = 1..(Len(cbs) + 1)
           /\ LET cb == cbs'[Len(cbs) + 1]
              IN  cb.path = path /\ cb.seq = CurrentSeq(path) + 1 /\ cb.st = "armed"
           /\ \A j \in DOMAIN cbs :
                 /\ cbs'[j].path = cbs[j].path /\ cbs'[j].seq = cbs[j].seq /\ cbs'[j].next = cbs[j].next
                 /\ cbs'[j].st = cbs[j].st \/ (cbs'[j].st = "stopped" /\ path \in DOMAIN timers /\ j = timers[path])
                 /\ cbs[j].st \notin {"armed", "fired"} => cbs'[j].st = cbs[j].st
           /\ DOMAIN timers' = DOMAIN timers \cup {path} /\ DOMAIN seqs' = DOMAIN seqs \cup {path}
           /\ timers'[path] = Len(cbs) + 1 /\ seqs'[path] = CurrentSeq(path) + 1 /\ CurrentSeq(path) \in Nat
           /\ \A p \in DOMAIN timers : p # path => timers'[p] = timers[p] /\ seqs'[p] = seqs[p]
<1> DEFINE old == IF path \in DOMAIN timers THEN Stopped(timers[path]) ELSE cbs
           new == [path |-> path, seq |-> CurrentSeq(path) + 1, st |-> "armed", next |-> 0]
<1>1. /\ cbs \in Seq(CallbackRecord) /\ Len(cbs) \in Nat /\ DOMAIN cbs = 1..Len(cbs)
      /\ \A j \in DOMAIN cbs : cbs[j] \in CallbackRecord
  BY DEF Typed
<1>2. CurrentSeq(path) \in Nat  BY DEF CurrentSeq, Debounced
<1>3. new \in CallbackRecord /\ new.path = path /\ new.seq = CurrentSeq(path) + 1 /\ new.st = "armed"
  BY <1>2 DEF CallbackRecord, CallbackStates
<1>4. /\ old \in Seq(CallbackRecord) /\ Len(old) = Len(cbs)
      /\ \A j \in DOMAIN cbs :
            /\ old[j].path = cbs[j].path /\ old[j].seq = cbs[j].seq /\ old[j].next = cbs[j].next
            /\ old[j].st = cbs[j].st \/ (old[j].st = "stopped" /\ path \in DOMAIN timers /\ j = timers[path])
            /\ cbs[j].st \notin {"armed", "fired"} => old[j].st = cbs[j].st
  <2>1. CASE path \notin DOMAIN timers  BY <1>1, <2>1
  <2>2. CASE path \in DOMAIN timers
    <3>1. PICK k \in DOMAIN cbs : k = timers[path] /\ cbs[k].st \in {"armed", "fired"}
      BY <2>2 DEF Debounced
    <3>2. PICK s \in {"stopped", cbs[k].st} : old = [cbs EXCEPT ![k].st = s]
      BY <2>2, <3>1 DEF Stopped
    <3>3. s \in CallbackStates  BY <1>1, <3>1, <3>2 DEF CallbackStates
    <3>4. old = [cbs EXCEPT ![k] = [cbs[k] EXCEPT !.st = s]]  BY <3>2
    <3>5. ASSUME NEW x \in CallbackRecord
          PROVE  /\ [x EXCEPT !.st = s] \in CallbackRecord /\ [x EXCEPT !.st = s].path = x.path
                 /\ [x EXCEPT !.st = s].seq = x.seq /\ [x EXCEPT !.st = s].next = x.next
                 /\ [x EXCEPT !.st = s].st = s
      BY <3>3 DEF CallbackRecord
    <3>6. PICK y \in CallbackRecord :
             /\ y = [cbs[k] EXCEPT !.st = s] /\ y.path = cbs[k].path /\ y.seq = cbs[k].seq
             /\ y.next = cbs[k].next /\ y.st = s
      BY <1>1, <3>5
    <3>7. old = [cbs EXCEPT ![k] = y]  BY <3>4, <3>6
    <3> HIDE DEF old
    <3>8. old \in Seq(CallbackRecord) /\ Len(old) = Len(cbs) /\ old[k] = y
          /\ \A j \in DOMAIN cbs : j # k => old[j] = cbs[j]
      BY <1>1, <3>7
    <3> QED  BY <2>2, <3>1, <3>2, <3>6, <3>8
  <2> QED  BY <2>1, <2>2
<1>5. cbs' = Append(old, new)  BY DEF ScheduleReload
<1>6. timers' = With(timers, path, Len(cbs) + 1) /\ seqs' = With(seqs, path, CurrentSeq(path) + 1)
  BY DEF ScheduleReload
<1> HIDE DEF old, new
<1>7. /\ cbs' \in Seq(CallbackRecord) /\ Len(cbs') = Len(cbs) + 1 /\ DOMAIN cbs' = 1..(Len(cbs) + 1)
      /\ cbs'[Len(cbs) + 1] = new
      /\ \A j \in DOMAIN cbs : cbs'[j] = old[j]
  BY <1>1, <1>3, <1>4, <1>5
<1>8. /\ DOMAIN timers' = DOMAIN timers \cup {path} /\ DOMAIN seqs' = DOMAIN seqs \cup {path}
      /\ timers'[path] = Len(cbs) + 1 /\ seqs'[path] = CurrentSeq(path) + 1
      /\ \A p \in DOMAIN timers : p # path => timers'[p] = timers[p] /\ seqs'[p] = seqs[p]
  BY <1>6 DEF With, Debounced
<1> QED  BY <1>2, <1>3, <1>4, <1>7, <1>8

\* Stop forgets all timers; those that have not fired never will.
LEMMA Clearing ==
    ASSUME Typed, Debounced, StopClears
    PROVE  /\ cbs' \in Seq(CallbackRecord) /\ Len(cbs') = Len(cbs)
           /\ \A j \in DOMAIN cbs :
                 /\ cbs'[j].path = cbs[j].path /\ cbs'[j].seq = cbs[j].seq /\ cbs'[j].next = cbs[j].next
                 /\ cbs'[j].st \in {cbs[j].st, "stopped"}
           /\ DOMAIN timers' = {} /\ DOMAIN seqs' = {}
<1>1. /\ cbs \in Seq(CallbackRecord) /\ Len(cbs) \in Nat /\ DOMAIN cbs = 1..Len(cbs)
      /\ \A j \in DOMAIN cbs : cbs[j] \in CallbackRecord
  BY DEF Typed
<1>2. ASSUME NEW j \in DOMAIN cbs
      PROVE  /\ cbs'[j] \in CallbackRecord
             /\ cbs'[j].path = cbs[j].path /\ cbs'[j].seq = cbs[j].seq /\ cbs'[j].next = cbs[j].next
             /\ cbs'[j].st \in {cbs[j].st, "stopped"}
  <2>1. cbs'[j] \in {cbs[j], Stopped(j)[j]}  BY DEF StopClears
  <2>2. Stopped(j)[j] \in {cbs[j], [cbs[j] EXCEPT !.st = "stopped"]}
    <3>1. cbs[j] = [cbs[j] EXCEPT !.st = cbs[j].st]  BY <1>1 DEF CallbackRecord
    <3> QED  BY <1>1, <3>1 DEF Stopped
  <2>3. ASSUME NEW x \in CallbackRecord
        PROVE  /\ [x EXCEPT !.st = "stopped"] \in CallbackRecord /\ [x EXCEPT !.st = "stopped"].path = x.path
               /\ [x EXCEPT !.st = "stopped"].seq = x.seq /\ [x EXCEPT !.st = "stopped"].next = x.next
               /\ [x EXCEPT !.st = "stopped"].st = "stopped"
    BY DEF CallbackRecord, CallbackStates
  <2>4. PICK y : y = [cbs[j] EXCEPT !.st = "stopped"]  OBVIOUS
  <2>5. /\ y \in CallbackRecord /\ y.path = cbs[j].path /\ y.seq = cbs[j].seq /\ y.next = cbs[j].next
        /\ y.st = "stopped"
    BY <1>1, <2>3, <2>4
  <2> QED  BY <1>1, <2>1, <2>2, <2>4, <2>5
<1>3. cbs' = [j \in DOMAIN cbs |-> cbs'[j]]  BY DEF StopClears
<1>4. cbs' \in Seq(CallbackRecord) /\ Len(cbs') = Len(cbs)
  <2>1. \A f \in [1..Len(cbs) -> CallbackRecord] : f \in Seq(CallbackRecord) /\ Len(f) = Len(cbs)
    BY <1>1
  <2>2. cbs' \in [1..Len(cbs) -> CallbackRecord]  BY <1>1, <1>2, <1>3
  <2> QED  BY <2>1, <2>2
<1>5. DOMAIN timers' = {} /\ DOMAIN seqs' = {}
  <2>1. timers' = <<>> /\ seqs' = [p \in DOMAIN seqs \ DOMAIN timers |-> seqs[p]]
    BY DEF StopClears
  <2>2. DOMAIN seqs \ DOMAIN timers = {}  BY DEF Debounced
  <2> QED  BY <2>1, <2>2
<1> QED  BY <1>2, <1>4, <1>5

\* What a step of callback k does to it.
LEMMA CallbackSteps ==
    ASSUME Typed, Counted, NEW k \in DOMAIN cbs, TimerFires(k) \/ Callback(k)
    PROVE  /\ cbs' \in Seq(CallbackRecord) /\ Len(cbs') = Len(cbs) /\ DOMAIN cbs' = DOMAIN cbs
           /\ cbs'[k].path = cbs[k].path /\ cbs'[k].seq = cbs[k].seq
           /\ \A j \in DOMAIN cbs : j # k => cbs'[j] = cbs[j]
           /\ TimerFires(k) => cbs'[k].st = "fired"
           /\ CallbackChecks(k) =>
                 cbs'[k].st = IF CurrentSeq(cbs[k].path) = cbs[k].seq THEN "reload" ELSE "done"
           /\ ReloadReads(k) => cbs'[k].next = disk /\ cbs'[k].st = IF disk # 0 /\ Loaded[disk].ok THEN "compare" ELSE "done"
           /\ ReloadCompares(k) => cbs'[k].st \in {"apply", "done"} /\ cbs'[k].next = cbs[k].next
           /\ ReloadApplies(k) => cbs'[k].st = "done"
<1>0. /\ cbs \in Seq(CallbackRecord) /\ cbs[k] \in CallbackRecord
      /\ cbs[k].next \in Nat /\ cbs[k].st \in CallbackStates
  <2>1. cbs \in Seq(CallbackRecord) /\ cbs[k] \in CallbackRecord  BY DEF Typed
  <2> QED  BY <2>1 DEF CallbackRecord
<1>same. ASSUME NEW s \in CallbackStates
         PROVE  [cbs EXCEPT ![k].st = s] = [cbs EXCEPT ![k] = [cbs[k] EXCEPT !.st = s, !.next = cbs[k].next]]
  <2>1. [cbs[k] EXCEPT !.st = s] = [cbs[k] EXCEPT !.st = s, !.next = cbs[k].next]
    BY <1>0 DEF CallbackRecord
  <2> QED  BY <2>1
<1>both. ASSUME NEW s \in CallbackStates, NEW n \in Nat
         PROVE  /\ [cbs EXCEPT ![k].st = s, ![k].next = n] = [cbs EXCEPT ![k] = [cbs[k] EXCEPT !.st = s, !.next = n]]
                /\ [cbs EXCEPT ![k].next = n, ![k].st = s] = [cbs EXCEPT ![k] = [cbs[k] EXCEPT !.st = s, !.next = n]]
  <2>1. [cbs[k] EXCEPT !.st = s, !.next = n] = [cbs[k] EXCEPT !.next = n, !.st = s]
    BY <1>0 DEF CallbackRecord
  <2> QED  BY <1>0, <2>1
<1>mark. ASSUME NEW s \in CallbackStates, NEW n \in Nat,
                cbs' = [cbs EXCEPT ![k] = [cbs[k] EXCEPT !.st = s, !.next = n]]
         PROVE  /\ cbs' \in Seq(CallbackRecord) /\ Len(cbs') = Len(cbs) /\ DOMAIN cbs' = DOMAIN cbs
                /\ cbs'[k].path = cbs[k].path /\ cbs'[k].seq = cbs[k].seq
                /\ cbs'[k].st = s /\ cbs'[k].next = n
                /\ \A j \in DOMAIN cbs : j # k => cbs'[j] = cbs[j]
  <2>1. PICK x : x = [cbs[k] EXCEPT !.st = s, !.next = n]  OBVIOUS
  <2>2. x \in CallbackRecord /\ x.path = cbs[k].path /\ x.seq = cbs[k].seq /\ x.st = s /\ x.next = n
    BY <1>0, <2>1 DEF CallbackRecord
  <2>3. cbs' = [cbs EXCEPT ![k] = x]  BY <1>mark, <2>1
  <2> QED  BY <1>0, <2>2, <2>3, Marking
<1>1. CASE TimerFires(k)
  <2>1. PICK s \in CallbackStates : s = "fired"  BY DEF CallbackStates
  <2>2. PICK n \in Nat : n = cbs[k].next  BY <1>0
  <2>3. cbs[k].st = "armed" /\ cbs' = [cbs EXCEPT ![k].st = s]  BY <1>1, <2>1 DEF TimerFires
  <2>4. cbs' = [cbs EXCEPT ![k] = [cbs[k] EXCEPT !.st = s, !.next = n]]  BY <1>same, <2>2, <2>3
  <2>5. /\ cbs' \in Seq(CallbackRecord) /\ Len(cbs') = Len(cbs) /\ DOMAIN cbs' = DOMAIN cbs
        /\ cbs'[k].path = cbs[k].path /\ cbs'[k].seq = cbs[k].seq /\ cbs'[k].st = s /\ cbs'[k].next = n
        /\ \A j \in DOMAIN cbs : j # k => cbs'[j] = cbs[j]
    BY <1>mark, <2>1, <2>2, <2>4
  <2> QED
    BY <2>1, <2>2, <2>3, <2>5 DEF CallbackChecks, ReloadReads, ReloadCompares, ReloadApplies
<1>2. CASE CallbackChecks(k)
  <2>1. PICK s \in CallbackStates : s = IF CurrentSeq(cbs[k].path) = cbs[k].seq THEN "reload" ELSE "done"
    BY DEF CallbackStates
  <2>2. PICK n \in Nat : n = cbs[k].next  BY <1>0
  <2>3. cbs[k].st = "fired" /\ cbs' = [cbs EXCEPT ![k].st = s]
    BY <1>2, <2>1 DEF CallbackChecks
  <2>4. cbs' = [cbs EXCEPT ![k] = [cbs[k] EXCEPT !.st = s, !.next = n]]  BY <1>same, <2>2, <2>3
  <2>5. /\ cbs' \in Seq(CallbackRecord) /\ Len(cbs') = Len(cbs) /\ DOMAIN cbs' = DOMAIN cbs
        /\ cbs'[k].path = cbs[k].path /\ cbs'[k].seq = cbs[k].seq /\ cbs'[k].st = s /\ cbs'[k].next = n
        /\ \A j \in DOMAIN cbs : j # k => cbs'[j] = cbs[j]
    BY <1>mark, <2>1, <2>2, <2>4
  <2> QED  BY <2>1, <2>2, <2>3, <2>5 DEF TimerFires, ReloadReads, ReloadCompares, ReloadApplies
<1>3. CASE ReloadReads(k)
  <2>1. PICK s \in CallbackStates : s = IF disk # 0 /\ Loaded[disk].ok THEN "compare" ELSE "done"
    BY DEF CallbackStates
  <2>2. PICK n \in Nat : n = disk  BY DEF Counted
  <2>3. cbs[k].st = "reload" /\ cbs' = [cbs EXCEPT ![k].next = n, ![k].st = s]
    BY <1>3, <2>1, <2>2 DEF ReloadReads
  <2>4. cbs' = [cbs EXCEPT ![k] = [cbs[k] EXCEPT !.st = s, !.next = n]]
    BY <1>both, <2>3, Zenon
  <2>5. /\ cbs' \in Seq(CallbackRecord) /\ Len(cbs') = Len(cbs) /\ DOMAIN cbs' = DOMAIN cbs
        /\ cbs'[k].path = cbs[k].path /\ cbs'[k].seq = cbs[k].seq /\ cbs'[k].st = s /\ cbs'[k].next = n
        /\ \A j \in DOMAIN cbs : j # k => cbs'[j] = cbs[j]
    BY <1>mark, <2>1, <2>2, <2>4
  <2> QED
    BY <2>1, <2>2, <2>3, <2>5 DEF TimerFires, CallbackChecks, ReloadCompares, ReloadApplies
<1>4. CASE ReloadCompares(k)
  <2>1. PICK s \in CallbackStates : s = IF TopologyKept(active, Loaded[cbs[k].next].contents) THEN "apply" ELSE "done"
    BY DEF CallbackStates
  <2>2. PICK n \in Nat : n = cbs[k].next  BY <1>0
  <2>3. cbs[k].st = "compare" /\ cbs' = [cbs EXCEPT ![k].st = s]
    BY <1>4, <2>1 DEF ReloadCompares
  <2>4. cbs' = [cbs EXCEPT ![k] = [cbs[k] EXCEPT !.st = s, !.next = n]]  BY <1>same, <2>2, <2>3
  <2>5. /\ cbs' \in Seq(CallbackRecord) /\ Len(cbs') = Len(cbs) /\ DOMAIN cbs' = DOMAIN cbs
        /\ cbs'[k].path = cbs[k].path /\ cbs'[k].seq = cbs[k].seq /\ cbs'[k].st = s /\ cbs'[k].next = n
        /\ \A j \in DOMAIN cbs : j # k => cbs'[j] = cbs[j]
    BY <1>mark, <2>1, <2>2, <2>4
  <2> QED  BY <2>1, <2>2, <2>3, <2>5 DEF TimerFires, CallbackChecks, ReloadReads, ReloadApplies
<1>5. CASE ReloadApplies(k)
  <2>1. PICK s \in CallbackStates : s = "done"  BY DEF CallbackStates
  <2>2. PICK n \in Nat : n = 0  OBVIOUS
  <2>3. cbs[k].st = "apply" /\ cbs' = [cbs EXCEPT ![k].st = s, ![k].next = n]
    BY <1>5, <2>1, <2>2 DEF ReloadApplies
  <2>4. cbs' = [cbs EXCEPT ![k] = [cbs[k] EXCEPT !.st = s, !.next = n]]
    BY <1>both, <2>3, Zenon
  <2>5. /\ cbs' \in Seq(CallbackRecord) /\ Len(cbs') = Len(cbs) /\ DOMAIN cbs' = DOMAIN cbs
        /\ cbs'[k].path = cbs[k].path /\ cbs'[k].seq = cbs[k].seq /\ cbs'[k].st = s /\ cbs'[k].next = n
        /\ \A j \in DOMAIN cbs : j # k => cbs'[j] = cbs[j]
    BY <1>mark, <2>1, <2>2, <2>4
  <2> QED
    BY <2>1, <2>2, <2>3, <2>5 DEF TimerFires, CallbackChecks, ReloadReads, ReloadCompares
<1> QED  BY <1>1, <1>2, <1>3, <1>4, <1>5 DEF Callback

\* TriggerReload adds a callback of its own.
LEMMA Triggering ==
    ASSUME Typed, TriggerReload
    PROVE  /\ cbs' \in Seq(CallbackRecord) /\ Len(cbs') = Len(cbs) + 1 /\ DOMAIN cbs' = 1..(Len(cbs) + 1)
           /\ cbs'[Len(cbs) + 1].st = "reload" /\ \A j \in DOMAIN cbs : cbs'[j] = cbs[j]
<1> DEFINE new == [path |-> FilePath, seq |-> 0, st |-> "reload", next |-> 0]
<1>1. new \in CallbackRecord /\ new.st = "reload"
  BY WatcherAssumption DEF WatcherAssumption, CallbackRecord, CallbackStates
<1>2. cbs' = Append(cbs, new) /\ cbs \in Seq(CallbackRecord)  BY DEF TriggerReload, Typed
<1> HIDE DEF new
<1> QED  BY <1>1, <1>2

\* The state of the watcher.
LEMMA StepTyped ==
    ASSUME Typed, Debounced, Counted, Running, Next
    PROVE  Typed'
<1>1. ASSUME UNCHANGED <<cbs, queue, ev, loop, inotify, stop, ctxDone, version, notified,
                         seen>>
      PROVE  Typed'
  BY <1>1 DEF Typed
<1> USE DEF watcher, history
<1>2. CASE Edit
  <2>1. PICK path \in Paths, op \in {"write", "create", "remove"} :
             /\ version' = IF path = FilePath THEN version + 1 ELSE version
             /\ queue' = IF Watches(path) /\ (WatchDirectory \/ op = "write")
                         THEN Append(queue, [path |-> path, op |-> op]) ELSE queue
             /\ inotify' \in {"lost", inotify} /\ notified' \in {version', notified}
    BY <1>2 DEF Edit
  <2>2. UNCHANGED <<cbs, ev, loop, stop, ctxDone, seen>>  BY <1>2 DEF Edit
  <2>3. [path |-> path, op |-> op] \in EventRecord  BY DEF EventRecord
  <2>4. PICK e \in EventRecord : e = [path |-> path, op |-> op]  BY <2>3
  <2>5. queue' \in Seq(EventRecord)  BY <2>1, <2>4 DEF Typed
  <2>6. version' \in Nat /\ version <= version' /\ notified' \in 0..version' /\ seen' \in 0..version'
    BY <2>1, <2>2 DEF Typed
  <2> QED  BY <2>1, <2>2, <2>5, <2>6 DEF Typed
<1>3. CASE Start  BY <1>3 DEF Start, Typed
<1>4. CASE TriggerReload
  <2>1. cbs' \in Seq(CallbackRecord)  BY <1>4, Triggering
  <2> QED  BY <1>4, <2>1 DEF TriggerReload, Typed
<1>5. CASE StopCancels  BY <1>5 DEF StopCancels, Typed
<1>6. CASE TakeEvent  BY <1>6 DEF TakeEvent, Typed
<1>7. CASE LoopEnds  BY <1>7 DEF LoopEnds, Typed
<1>8. CASE HandleEvent
  <2>1. NoEvent \in EventRecord
    BY WatcherAssumption DEF WatcherAssumption, NoEvent, EventRecord
  <2>2. cbs' \in Seq(CallbackRecord)
    <3>1. ev.path \in Paths  BY DEF Typed, EventRecord
    <3>2. CASE IsRelevantEvent(ev)  BY <1>8, <3>1, <3>2, Scheduling DEF HandleEvent
    <3>3. CASE ~IsRelevantEvent(ev)  BY <1>8, <3>3 DEF HandleEvent, Typed
    <3> QED  BY <3>2, <3>3
  <2> QED  BY <1>8, <2>1, <2>2 DEF HandleEvent, Typed
<1>9. CASE StopClears
  <2>1. cbs' \in Seq(CallbackRecord)  BY <1>9, Clearing
  <2> QED  BY <1>9, <2>1 DEF StopClears, Typed
<1>10. CASE StopCloses  BY <1>10 DEF StopCloses, Typed
<1>11. CASE StopWaits  BY <1>11 DEF StopWaits, Typed
<1>12. ASSUME NEW k \in DOMAIN cbs, TimerFires(k)  PROVE Typed'
  <2>1. cbs' \in Seq(CallbackRecord)  BY <1>12, CallbackSteps DEF Callback
  <2> QED  BY <1>12, <2>1 DEF Typed, TimerFires
<1>13. ASSUME NEW k \in DOMAIN cbs, CallbackChecks(k)  PROVE Typed'
  <2>1. cbs' \in Seq(CallbackRecord)  BY <1>13, CallbackSteps DEF Callback
  <2> QED  BY <1>13, <2>1 DEF Typed, CallbackChecks
<1>14. ASSUME NEW k \in DOMAIN cbs, ReloadReads(k)  PROVE Typed'
  <2>1. cbs' \in Seq(CallbackRecord)  BY <1>14, CallbackSteps DEF Callback
  <2> QED  BY <1>14, <2>1 DEF Typed, ReloadReads
<1>15. ASSUME NEW k \in DOMAIN cbs, ReloadCompares(k)  PROVE Typed'
  <2>1. cbs' \in Seq(CallbackRecord)  BY <1>15, CallbackSteps DEF Callback
  <2> QED  BY <1>15, <2>1 DEF Typed, ReloadCompares
<1>16. ASSUME NEW k \in DOMAIN cbs, ReloadApplies(k)  PROVE Typed'
  <2>1. cbs' \in Seq(CallbackRecord)  BY <1>16, CallbackSteps DEF Callback
  <2> QED  BY <1>16, <2>1 DEF Typed, ReloadApplies
<1> QED
  BY <1>2, <1>3, <1>4, <1>5, <1>6, <1>7, <1>8, <1>9, <1>10, <1>11, <1>12, <1>13, <1>14,
     <1>15, <1>16
     DEF Next, LoopStep, StopStep, Callback

\* There are never more timers and reloads than calls.
LEMMA StepCounted ==
    ASSUME Typed, Debounced, Counted, Next
    PROVE  Counted'
<1>1. ASSUME UNCHANGED <<cbs, queue, loop, calls, latest, disk>>
      PROVE  Counted'
  BY <1>1 DEF Counted
<1> USE DEF watcher, history
<1>2. CASE Edit
  <2>1. PICK path \in Paths, op \in {"write", "create", "remove"} :
             /\ latest' = IF path = FilePath /\ op # "remove" THEN latest + 1 ELSE latest
             /\ disk' = IF path # FilePath THEN disk ELSE IF op = "remove" THEN 0 ELSE latest'
             /\ queue' = IF Watches(path) /\ (WatchDirectory \/ op = "write")
                         THEN Append(queue, [path |-> path, op |-> op]) ELSE queue
             /\ path # FilePath => op = "write"
    BY <1>2 DEF Edit
  <2>2. UNCHANGED <<cbs, loop>> /\ calls' = calls + 1 /\ calls < MaxCalls  BY <1>2 DEF Edit
  <2>3. Len(queue) \in Nat /\ Len(cbs) \in Nat /\ MaxCalls \in Nat
    BY WatcherAssumption DEF WatcherAssumption, Typed
  <2>4. Len(queue') \in {Len(queue), Len(queue) + 1}
    <3>1. \A e : Len(Append(queue, e)) = Len(queue) + 1  BY DEF Typed
    <3> QED  BY <2>1, <3>1
  <2>5. latest' \in 1..calls' + 1 /\ disk' \in {0, latest'}  BY <2>1, <2>2 DEF Counted
  <2> QED  BY <2>2, <2>3, <2>4, <2>5 DEF Counted
<1>3. CASE Start  BY <1>3 DEF Start, Counted
<1>4. CASE TriggerReload
  <2>1. Len(cbs') = Len(cbs) + 1  BY <1>4, Triggering
  <2>2. Len(queue) \in Nat /\ Len(cbs) \in Nat /\ MaxCalls \in Nat
    BY WatcherAssumption DEF WatcherAssumption, Typed
  <2> QED  BY <1>4, <2>1, <2>2 DEF TriggerReload, Counted
<1>5. CASE StopCancels  BY <1>1, <1>5 DEF StopCancels
<1>6. CASE TakeEvent
  <2>1. queue # <<>> /\ queue' = Tail(queue) /\ Len(queue') = Len(queue) - 1 /\ Len(queue) \in Nat /\ Len(cbs) \in Nat
    BY <1>6 DEF TakeEvent, Typed
  <2> QED  BY <1>6, <2>1 DEF TakeEvent, Counted
<1>7. CASE LoopEnds  BY <1>7 DEF LoopEnds, Counted
<1>8. CASE HandleEvent
  <2>1. Len(cbs') \in {Len(cbs), Len(cbs) + 1}
    <3>1. ev.path \in Paths  BY DEF Typed, EventRecord
    <3>2. CASE IsRelevantEvent(ev)  BY <1>8, <3>1, <3>2, Scheduling DEF HandleEvent
    <3>3. CASE ~IsRelevantEvent(ev)  BY <1>8, <3>3 DEF HandleEvent
    <3> QED  BY <3>2, <3>3
  <2>2. Len(queue) \in Nat /\ Len(cbs) \in Nat  BY DEF Typed
  <2> QED  BY <1>8, <2>1, <2>2 DEF HandleEvent, Counted
<1>9. CASE StopClears
  <2>1. Len(cbs') = Len(cbs)  BY <1>9, Clearing
  <2> QED  BY <1>9, <2>1 DEF StopClears, Counted
<1>10. CASE StopCloses  BY <1>1, <1>10 DEF StopCloses
<1>11. CASE StopWaits  BY <1>1, <1>11 DEF StopWaits
<1>12. ASSUME NEW k \in DOMAIN cbs, TimerFires(k)  PROVE Counted'
  <2>1. Len(cbs') = Len(cbs)  BY <1>12, CallbackSteps DEF Callback
  <2> QED  BY <1>12, <2>1 DEF Counted, TimerFires
<1>13. ASSUME NEW k \in DOMAIN cbs, CallbackChecks(k)  PROVE Counted'
  <2>1. Len(cbs') = Len(cbs)  BY <1>13, CallbackSteps DEF Callback
  <2> QED  BY <1>13, <2>1 DEF Counted, CallbackChecks
<1>14. ASSUME NEW k \in DOMAIN cbs, ReloadReads(k)  PROVE Counted'
  <2>1. Len(cbs') = Len(cbs)  BY <1>14, CallbackSteps DEF Callback
  <2> QED  BY <1>14, <2>1 DEF Counted, ReloadReads
<1>15. ASSUME NEW k \in DOMAIN cbs, ReloadCompares(k)  PROVE Counted'
  <2>1. Len(cbs') = Len(cbs)  BY <1>15, CallbackSteps DEF Callback
  <2> QED  BY <1>15, <2>1 DEF Counted, ReloadCompares
<1>16. ASSUME NEW k \in DOMAIN cbs, ReloadApplies(k)  PROVE Counted'
  <2>1. Len(cbs') = Len(cbs)  BY <1>16, CallbackSteps DEF Callback
  <2> QED  BY <1>16, <2>1 DEF Counted, ReloadApplies
<1> QED
  BY <1>2, <1>3, <1>4, <1>5, <1>6, <1>7, <1>8, <1>9, <1>10, <1>11, <1>12, <1>13, <1>14,
     <1>15, <1>16
     DEF Next, LoopStep, StopStep, Callback

\* The loop is there until Stop is called.
LEMMA StepRunning ==
    ASSUME Typed, Running, Next
    PROVE  Running'
<1>1. ASSUME UNCHANGED <<ctxDone, inotify, loop, stop>>
      PROVE  Running'
  BY <1>1 DEF Running
<1> USE DEF watcher, history
<1>2. CASE Edit  BY <1>2 DEF Edit, Running
<1>3. CASE Start  BY <1>3 DEF Start, Running, Typed
<1>4. CASE TriggerReload  BY <1>4 DEF TriggerReload, Running, Typed
<1>5. CASE StopCancels  BY <1>5 DEF StopCancels, Running, Typed
<1>6. CASE TakeEvent  BY <1>6 DEF TakeEvent, Running, Typed
<1>7. CASE LoopEnds  BY <1>7 DEF LoopEnds, Running, Typed
<1>8. CASE HandleEvent  BY <1>8 DEF HandleEvent, Running
<1>9. CASE StopClears  BY <1>9 DEF StopClears, Running, Typed
<1>10. CASE StopCloses  BY <1>10 DEF StopCloses, Running, Typed
<1>11. CASE StopWaits  BY <1>11 DEF StopWaits, Running, Typed
<1>12. ASSUME NEW k \in DOMAIN cbs, TimerFires(k)  PROVE Running'
  BY <1>12 DEF TimerFires, Running, Typed
<1>13. ASSUME NEW k \in DOMAIN cbs, CallbackChecks(k)  PROVE Running'
  BY <1>13 DEF CallbackChecks, Running, Typed
<1>14. ASSUME NEW k \in DOMAIN cbs, ReloadReads(k)  PROVE Running'
  BY <1>14 DEF ReloadReads, Running, Typed
<1>15. ASSUME NEW k \in DOMAIN cbs, ReloadCompares(k)  PROVE Running'
  BY <1>15 DEF ReloadCompares, Running, Typed
<1>16. ASSUME NEW k \in DOMAIN cbs, ReloadApplies(k)  PROVE Running'
  BY <1>16 DEF ReloadApplies, Running, Typed
<1> QED
  BY <1>2, <1>3, <1>4, <1>5, <1>6, <1>7, <1>8, <1>9, <1>10, <1>11, <1>12, <1>13, <1>14,
     <1>15, <1>16
     DEF Next, LoopStep, StopStep, Callback

\* The debounce maps only name timers that still count.
LEMMA StepDebounced ==
    ASSUME Typed, Counted, Debounced, Next
    PROVE  Debounced'
<1>1. ASSUME UNCHANGED <<cbs, timers, seqs>>
      PROVE  Debounced'
  BY <1>1 DEF Debounced
<1> USE DEF watcher, history
<1>2. CASE Edit  BY <1>1, <1>2 DEF Edit
<1>3. CASE Start  BY <1>1, <1>3 DEF Start
<1>4. CASE TriggerReload
  <2>1. UNCHANGED <<timers, seqs>>  BY <1>4 DEF TriggerReload
  <2>2. DOMAIN cbs \subseteq DOMAIN cbs' /\ \A j \in DOMAIN cbs : cbs'[j] = cbs[j]
    BY <1>4, Triggering DEF Typed
  <2> QED  BY <2>1, <2>2 DEF Debounced
<1>5. CASE StopCancels  BY <1>1, <1>5 DEF StopCancels
<1>6. CASE TakeEvent  BY <1>1, <1>6 DEF TakeEvent
<1>7. CASE LoopEnds  BY <1>1, <1>7 DEF LoopEnds
<1>8. CASE HandleEvent
  <2>1. PICK path \in Paths : path = ev.path  BY DEF Typed, EventRecord
  <2>2. CASE ~IsRelevantEvent(ev)  BY <1>8, <1>1, <2>2 DEF HandleEvent
  <2>3. CASE IsRelevantEvent(ev)
    <3>1. ScheduleReload(path)  BY <1>8, <2>1, <2>3 DEF HandleEvent
    <3>2. Len(cbs) \in Nat /\ DOMAIN cbs = 1..Len(cbs)  BY DEF Typed
    <3>3. DOMAIN cbs' = 1..(Len(cbs) + 1) /\ Len(cbs) + 1 \in DOMAIN cbs'
      <4>1. DOMAIN cbs' = 1..(Len(cbs) + 1)  BY <3>1, Scheduling
      <4> QED  BY <3>2, <4>1
    <3>new. /\ DOMAIN timers' = DOMAIN timers \cup {path} /\ DOMAIN seqs' = DOMAIN seqs \cup {path}
            /\ timers'[path] = Len(cbs) + 1 /\ seqs'[path] = CurrentSeq(path) + 1 /\ CurrentSeq(path) \in Nat
            /\ \A p \in DOMAIN timers : p # path => timers'[p] = timers[p] /\ seqs'[p] = seqs[p]
      BY <3>1, Scheduling
    <3>cb. /\ cbs'[Len(cbs) + 1].path = path /\ cbs'[Len(cbs) + 1].seq = CurrentSeq(path) + 1
           /\ cbs'[Len(cbs) + 1].st = "armed"
      BY <3>1, Scheduling
    <3>4. DOMAIN timers' = DOMAIN seqs' /\ DOMAIN timers' \subseteq Paths
      BY <3>new DEF Debounced
    <3>5. ASSUME NEW p \in DOMAIN timers'
          PROVE  /\ timers'[p] \in DOMAIN cbs' /\ seqs'[p] \in Nat
                 /\ cbs'[timers'[p]].path = p /\ cbs'[timers'[p]].seq = seqs'[p]
                 /\ cbs'[timers'[p]].st \in {"armed", "fired"}
      <4>1. CASE p = path  BY <3>3, <3>new, <3>cb, <4>1
      <4>2. CASE p # path
        <5>1. p \in DOMAIN timers /\ timers'[p] = timers[p] /\ seqs'[p] = seqs[p]
          BY <3>new, <4>2
        <5>2. PICK j \in DOMAIN cbs : /\ j = timers[p] /\ cbs[j].path = p /\ cbs[j].seq = seqs[p]
                                      /\ cbs[j].st \in {"armed", "fired"} /\ seqs[p] \in Nat
          BY <5>1 DEF Debounced
        <5>3. path \in DOMAIN timers => timers[path] # j  BY <4>2, <5>2 DEF Debounced
        <5>4. cbs'[j].path = p /\ cbs'[j].seq = seqs[p] /\ cbs'[j].st = cbs[j].st
          BY <3>1, <5>2, <5>3, Scheduling
        <5> QED  BY <3>2, <3>3, <5>1, <5>2, <5>4
      <4> QED  BY <4>1, <4>2
    <3> QED  BY <3>4, <3>5 DEF Debounced
  <2> QED  BY <2>2, <2>3
<1>9. CASE StopClears
  <2>1. DOMAIN timers' = {} /\ DOMAIN seqs' = {}  BY <1>9, Clearing
  <2> QED  BY <2>1 DEF Debounced
<1>10. CASE StopCloses  BY <1>1, <1>10 DEF StopCloses
<1>11. CASE StopWaits  BY <1>1, <1>11 DEF StopWaits
<1>12. ASSUME NEW k \in DOMAIN cbs, TimerFires(k)  PROVE Debounced'
  <2>1. /\ DOMAIN cbs' = DOMAIN cbs /\ cbs'[k].path = cbs[k].path /\ cbs'[k].seq = cbs[k].seq
        /\ \A j \in DOMAIN cbs : j # k => cbs'[j] = cbs[j]
    BY <1>12, CallbackSteps DEF Callback
  <2>2. UNCHANGED <<timers, seqs>> /\ cbs'[k].st = "fired"
    BY <1>12, CallbackSteps DEF TimerFires, Callback
  <2> QED  BY <2>1, <2>2 DEF Debounced
<1>13. ASSUME NEW k \in DOMAIN cbs, CallbackChecks(k)  PROVE Debounced'
  <2>1. /\ DOMAIN cbs' = DOMAIN cbs /\ cbs'[k].path = cbs[k].path /\ cbs'[k].seq = cbs[k].seq
        /\ \A j \in DOMAIN cbs : j # k => cbs'[j] = cbs[j]
    BY <1>13, CallbackSteps DEF Callback
  <2>2. CASE CurrentSeq(cbs[k].path) = cbs[k].seq
    <3>1. timers' = Drop(timers, cbs[k].path) /\ seqs' = Drop(seqs, cbs[k].path)
      BY <1>13, <2>2 DEF CallbackChecks
    <3>2. /\ DOMAIN timers' = DOMAIN timers \ {cbs[k].path} /\ DOMAIN seqs' = DOMAIN seqs \ {cbs[k].path}
          /\ \A p \in DOMAIN timers \ {cbs[k].path} : timers'[p] = timers[p] /\ seqs'[p] = seqs[p]
      BY <3>1 DEF Drop, Debounced
    <3>3. \A p \in DOMAIN timers \ {cbs[k].path} : timers[p] # k  BY DEF Debounced
    <3> QED  BY <2>1, <3>2, <3>3 DEF Debounced
  <2>3. CASE CurrentSeq(cbs[k].path) # cbs[k].seq
    <3>1. UNCHANGED <<timers, seqs>>  BY <1>13, <2>3 DEF CallbackChecks
    <3>2. \A p \in DOMAIN timers : timers[p] # k  BY <2>3 DEF Debounced, CurrentSeq
    <3> QED  BY <2>1, <3>1, <3>2 DEF Debounced
  <2> QED  BY <2>2, <2>3
<1>14. ASSUME NEW k \in DOMAIN cbs, ReloadReads(k)  PROVE Debounced'
  <2>1. /\ DOMAIN cbs' = DOMAIN cbs /\ cbs'[k].path = cbs[k].path /\ cbs'[k].seq = cbs[k].seq
        /\ \A j \in DOMAIN cbs : j # k => cbs'[j] = cbs[j]
    BY <1>14, CallbackSteps DEF Callback
  <2>2. UNCHANGED <<timers, seqs>> /\ cbs[k].st \notin {"armed", "fired"}
    BY <1>14, CallbackSteps DEF ReloadReads, Callback
  <2> QED  BY <2>1, <2>2 DEF Debounced
<1>15. ASSUME NEW k \in DOMAIN cbs, ReloadCompares(k)  PROVE Debounced'
  <2>1. /\ DOMAIN cbs' = DOMAIN cbs /\ cbs'[k].path = cbs[k].path /\ cbs'[k].seq = cbs[k].seq
        /\ \A j \in DOMAIN cbs : j # k => cbs'[j] = cbs[j]
    BY <1>15, CallbackSteps DEF Callback
  <2>2. UNCHANGED <<timers, seqs>> /\ cbs[k].st \notin {"armed", "fired"}
    BY <1>15, CallbackSteps DEF ReloadCompares, Callback
  <2> QED  BY <2>1, <2>2 DEF Debounced
<1>16. ASSUME NEW k \in DOMAIN cbs, ReloadApplies(k)  PROVE Debounced'
  <2>1. /\ DOMAIN cbs' = DOMAIN cbs /\ cbs'[k].path = cbs[k].path /\ cbs'[k].seq = cbs[k].seq
        /\ \A j \in DOMAIN cbs : j # k => cbs'[j] = cbs[j]
    BY <1>16, CallbackSteps DEF Callback
  <2>2. UNCHANGED <<timers, seqs>> /\ cbs[k].st \notin {"armed", "fired"}
    BY <1>16, CallbackSteps DEF ReloadApplies, Callback
  <2> QED  BY <2>1, <2>2 DEF Debounced
<1> QED
  BY <1>2, <1>3, <1>4, <1>5, <1>6, <1>7, <1>8, <1>9, <1>10, <1>11, <1>12, <1>13, <1>14,
     <1>15, <1>16
     DEF Next, LoopStep, StopStep, Callback

\* Only a revision that was accepted comes into force.
LEMMA StepInForce ==
    ASSUME Typed, Debounced, Counted, InForce, Next
    PROVE  InForce'
<1>1. ASSUME UNCHANGED <<from, latest, active, cbs>>
      PROVE  InForce'
  BY <1>1 DEF InForce
<1> USE DEF watcher, history
<1>2. CASE Edit
  <2>1. UNCHANGED <<from, active, cbs>> /\ latest \in Nat /\ latest' \in {latest, latest + 1}
    BY <1>2 DEF Edit, Counted
  <2>2. \A n \in 1..latest : n \in 1..latest'  BY <2>1
  <2> QED  BY <2>1, <2>2 DEF InForce
<1>3. CASE Start  BY <1>1, <1>3 DEF Start
<1>4. CASE TriggerReload
  <2>1. UNCHANGED <<from, latest, active>>  BY <1>4 DEF TriggerReload
  <2>2. /\ DOMAIN cbs' = 1..(Len(cbs) + 1) /\ cbs'[Len(cbs) + 1].st = "reload"
        /\ \A j \in DOMAIN cbs : cbs'[j] = cbs[j]
    BY <1>4, Triggering
  <2>3. Len(cbs) \in Nat /\ DOMAIN cbs = 1..Len(cbs)  BY DEF Typed
  <2>4. \A j \in DOMAIN cbs' : j \in DOMAIN cbs \/ cbs'[j].st = "reload"  BY <2>2, <2>3
  <2> QED  BY <2>1, <2>2, <2>4 DEF InForce
<1>5. CASE StopCancels  BY <1>1, <1>5 DEF StopCancels
<1>6. CASE TakeEvent  BY <1>1, <1>6 DEF TakeEvent
<1>7. CASE LoopEnds  BY <1>1, <1>7 DEF LoopEnds
<1>8. CASE HandleEvent
  <2>1. PICK path \in Paths : path = ev.path  BY DEF Typed, EventRecord
  <2>2. CASE ~IsRelevantEvent(ev)  BY <1>8, <1>1, <2>2 DEF HandleEvent
  <2>3. CASE IsRelevantEvent(ev)
    <3>1. ScheduleReload(path) /\ UNCHANGED <<from, latest, active>>
      BY <1>8, <2>1, <2>3 DEF HandleEvent
    <3>2. Len(cbs) \in Nat /\ DOMAIN cbs = 1..Len(cbs)  BY DEF Typed
    <3>3. DOMAIN cbs' = 1..(Len(cbs) + 1)  BY <3>1, Scheduling
    <3>4. cbs'[Len(cbs) + 1].st = "armed"  BY <3>1, Scheduling
    <3>5. \A j \in DOMAIN cbs : cbs'[j].next = cbs[j].next /\ cbs'[j].st \in {cbs[j].st, "stopped"}
      BY <3>1, Scheduling
    <3>6. \A j \in DOMAIN cbs' : j \in DOMAIN cbs \/ cbs'[j].st = "armed"  BY <3>2, <3>3, <3>4
    <3> QED  BY <3>1, <3>5, <3>6 DEF InForce
  <2> QED  BY <2>2, <2>3
<1>9. CASE StopClears
  <2>1. UNCHANGED <<from, latest, active>> /\ DOMAIN cbs' = DOMAIN cbs  BY <1>9 DEF StopClears
  <2>2. \A j \in DOMAIN cbs : cbs'[j].next = cbs[j].next /\ cbs'[j].st \in {cbs[j].st, "stopped"}
    BY <1>9, Clearing
  <2> QED  BY <2>1, <2>2 DEF InForce
<1>10. CASE StopCloses  BY <1>1, <1>10 DEF StopCloses
<1>11. CASE StopWaits  BY <1>1, <1>11 DEF StopWaits
<1>12. ASSUME NEW k \in DOMAIN cbs, TimerFires(k)  PROVE InForce'
  <2>1. /\ DOMAIN cbs' = DOMAIN cbs /\ \A j \in DOMAIN cbs : j # k => cbs'[j] = cbs[j]
        /\ cbs'[k].st \in {"fired"}
    BY <1>12, CallbackSteps DEF Callback
  <2>2. UNCHANGED <<from, latest, active>>  BY <1>12 DEF TimerFires
  <2> QED  BY <2>1, <2>2 DEF InForce
<1>13. ASSUME NEW k \in DOMAIN cbs, CallbackChecks(k)  PROVE InForce'
  <2>1. /\ DOMAIN cbs' = DOMAIN cbs /\ \A j \in DOMAIN cbs : j # k => cbs'[j] = cbs[j]
        /\ cbs'[k].st \in {"reload", "done"}
    BY <1>13, CallbackSteps DEF Callback
  <2>2. UNCHANGED <<from, latest, active>>  BY <1>13 DEF CallbackChecks
  <2> QED  BY <2>1, <2>2 DEF InForce
<1>14. ASSUME NEW k \in DOMAIN cbs, ReloadReads(k)  PROVE InForce'
  <2>1. /\ DOMAIN cbs' = DOMAIN cbs /\ \A j \in DOMAIN cbs : j # k => cbs'[j] = cbs[j]
        /\ cbs'[k].next = disk /\ cbs'[k].st = IF disk # 0 /\ Loaded[disk].ok THEN "compare" ELSE "done"
    BY <1>14, CallbackSteps DEF Callback
  <2>2. UNCHANGED <<from, latest, active>> /\ (disk # 0 => disk \in 1..latest)
    BY <1>14 DEF ReloadReads, Counted
  <2> QED  BY <2>1, <2>2 DEF InForce
<1>15. ASSUME NEW k \in DOMAIN cbs, ReloadCompares(k)  PROVE InForce'
  <2>1. /\ DOMAIN cbs' = DOMAIN cbs /\ \A j \in DOMAIN cbs : j # k => cbs'[j] = cbs[j]
        /\ cbs'[k].next = cbs[k].next
    BY <1>15, CallbackSteps DEF Callback
  <2>2. UNCHANGED <<from, latest, active>> /\ cbs[k].st = "compare"
    BY <1>15 DEF ReloadCompares
  <2> QED  BY <2>1, <2>2 DEF InForce
<1>16. ASSUME NEW k \in DOMAIN cbs, ReloadApplies(k)  PROVE InForce'
  <2>1. /\ DOMAIN cbs' = DOMAIN cbs /\ \A j \in DOMAIN cbs : j # k => cbs'[j] = cbs[j]
        /\ cbs'[k].st = "done"
    BY <1>16, CallbackSteps DEF Callback
  <2>2. /\ latest' = latest /\ from' = cbs[k].next /\ active' = Loaded[cbs[k].next].contents
        /\ cbs[k].st = "apply"
    BY <1>16 DEF ReloadApplies
  <2> QED  BY <2>1, <2>2 DEF InForce
<1> QED
  BY <1>2, <1>3, <1>4, <1>5, <1>6, <1>7, <1>8, <1>9, <1>10, <1>11, <1>12, <1>13, <1>14,
     <1>15, <1>16
     DEF Next, LoopStep, StopStep, Callback

\* A reported change passes from the queue to the loop, to a timer and to a reload.
LEMMA StepForgotten ==
    ASSUME Typed, Debounced, Counted, Running, NoChangeForgotten,
           Next
    PROVE  NoChangeForgotten'
<1>1. ASSUME UNCHANGED <<notified, seen, stop, loop, queue, ev, timers, cbs>>
      PROVE  NoChangeForgotten'
  BY <1>1 DEF NoChangeForgotten, Promised
<1> USE DEF watcher, history
<1>2. CASE Edit
  <2>1. PICK path \in Paths, op \in {"write", "create", "remove"} :
             /\ version' = IF path = FilePath THEN version + 1 ELSE version
             /\ queue' = IF Watches(path) /\ (WatchDirectory \/ op = "write")
                         THEN Append(queue, [path |-> path, op |-> op]) ELSE queue
             /\ notified' = IF Watches(path) /\ path = FilePath
                               /\ (op = "write" \/ (WatchDirectory /\ op = "create"))
                            THEN version' ELSE notified
    BY <1>2 DEF Edit
  <2>2. UNCHANGED <<seen, stop, loop, ev, timers, cbs>>  BY <1>2 DEF Edit
  <2>3. Len(queue) \in Nat /\ DOMAIN queue = 1..Len(queue) /\ queue \in Seq(EventRecord)
    BY DEF Typed
  <2>4. \A i \in DOMAIN queue : i \in DOMAIN queue' /\ queue'[i] = queue[i]  BY <2>1, <2>3
  <2>5. CASE notified' = notified  BY <2>2, <2>4, <2>5 DEF NoChangeForgotten, Promised
  <2>6. CASE notified' # notified
    <3>1. /\ queue' = Append(queue, [path |-> path, op |-> op]) /\ path = FilePath /\ op \in {"write", "create"}
          /\ inotify = "on"
      BY <2>1, <2>6 DEF Watches
    <3>2. Len(queue) + 1 \in DOMAIN queue' /\ Reports(queue'[Len(queue) + 1])
      BY <2>3, <3>1 DEF Reports
    <3>3. stop = "no" => loop \in {"select", "handle"}  BY <3>1 DEF Running, Typed
    <3> QED  BY <2>2, <3>2, <3>3 DEF NoChangeForgotten, Promised
  <2> QED  BY <2>5, <2>6
<1>3. CASE Start  BY <1>3 DEF Start, NoChangeForgotten, Promised
<1>4. CASE TriggerReload
  <2>1. Len(cbs) + 1 \in DOMAIN cbs' /\ cbs'[Len(cbs) + 1].st = "reload"
    BY <1>4, Triggering DEF Typed
  <2> QED  BY <2>1 DEF NoChangeForgotten, Promised
<1>5. CASE StopCancels  BY <1>5 DEF StopCancels, NoChangeForgotten
<1>6. CASE TakeEvent
  <2>1. /\ loop = "select" /\ loop' = "handle" /\ queue # <<>> /\ ev' = Head(queue) /\ queue' = Tail(queue)
        /\ UNCHANGED <<notified, seen, stop, timers, cbs>>
    BY <1>6 DEF TakeEvent
  <2>2. /\ Len(queue) \in Nat \ {0} /\ DOMAIN queue = 1..Len(queue) /\ ev' = queue[1]
        /\ DOMAIN queue' = 1..(Len(queue) - 1) /\ \A i \in 1..(Len(queue) - 1) : queue'[i] = queue[i + 1]
    BY <2>1 DEF Typed
  <2>3. ASSUME NEW i \in DOMAIN queue, Reports(queue[i])
        PROVE  Reports(ev') \/ \E j \in DOMAIN queue' : Reports(queue'[j])
    <3>1. CASE i = 1  BY <2>2, <2>3, <3>1
    <3>2. CASE i # 1
      <4>1. i - 1 \in DOMAIN queue' /\ queue'[i - 1] = queue[i]  BY <2>2, <3>2
      <4> QED  BY <2>3, <4>1
    <3> QED  BY <3>1, <3>2
  <2> QED  BY <2>1, <2>3 DEF NoChangeForgotten, Promised, Reports
<1>7. CASE LoopEnds  BY <1>7 DEF LoopEnds, NoChangeForgotten, Running
<1>8. CASE HandleEvent
  <2>1. PICK path \in Paths : path = ev.path  BY DEF Typed, EventRecord
  <2>2. /\ loop = "handle" /\ loop' = "select" /\ UNCHANGED <<notified, seen, stop, queue>>
    BY <1>8 DEF HandleEvent
  <2>3. Reports(ev) => IsRelevantEvent(ev)
    BY WatcherAssumption DEF WatcherAssumption, Reports, IsRelevantEvent
  <2>4. CASE ~IsRelevantEvent(ev)
    <3>1. UNCHANGED <<timers, cbs>>  BY <1>8, <2>4 DEF HandleEvent
    <3> QED  BY <2>2, <2>3, <2>4, <3>1 DEF NoChangeForgotten, Promised
  <2>5. CASE IsRelevantEvent(ev)
    <3>1. ScheduleReload(path)  BY <1>8, <2>1, <2>5 DEF HandleEvent
    <3>2. DOMAIN timers' = DOMAIN timers \cup {path}  BY <3>1, Scheduling
    <3>3. \A j \in DOMAIN cbs : cbs[j].st = "reload" => j \in DOMAIN cbs' /\ cbs'[j].st = "reload"
      <4>1. \A j \in DOMAIN cbs : cbs[j].st = "reload" => cbs'[j].st = "reload"
        BY <3>1, Scheduling
      <4>2. cbs \in Seq(CallbackRecord) /\ cbs' \in Seq(CallbackRecord) /\ Len(cbs') = Len(cbs) + 1
        BY <3>1, Scheduling DEF Typed
      <4>3. DOMAIN cbs \subseteq DOMAIN cbs'  BY <4>2
      <4> QED  BY <4>1, <4>3
    <3>4. Reports(ev) => path = FilePath  BY <2>1 DEF Reports
    <3> QED  BY <2>2, <3>2, <3>3, <3>4 DEF NoChangeForgotten, Promised
  <2> QED  BY <2>4, <2>5
<1>9. CASE StopClears  BY <1>9 DEF StopClears, NoChangeForgotten
<1>10. CASE StopCloses  BY <1>10 DEF StopCloses, NoChangeForgotten
<1>11. CASE StopWaits  BY <1>11 DEF StopWaits, NoChangeForgotten
<1>12. ASSUME NEW k \in DOMAIN cbs, TimerFires(k)  PROVE NoChangeForgotten'
  <2>1. /\ DOMAIN cbs' = DOMAIN cbs /\ \A j \in DOMAIN cbs : j # k => cbs'[j] = cbs[j]
    BY <1>12, CallbackSteps DEF Callback
  <2>2. UNCHANGED <<notified, seen, stop, loop, queue, ev, timers>> /\ cbs[k].st # "reload"
    BY <1>12 DEF TimerFires
  <2> QED  BY <2>1, <2>2 DEF NoChangeForgotten, Promised
<1>13. ASSUME NEW k \in DOMAIN cbs, CallbackChecks(k)  PROVE NoChangeForgotten'
  <2>1. /\ DOMAIN cbs' = DOMAIN cbs /\ \A j \in DOMAIN cbs : j # k => cbs'[j] = cbs[j]
        /\ cbs'[k].st = IF CurrentSeq(cbs[k].path) = cbs[k].seq THEN "reload" ELSE "done"
    BY <1>13, CallbackSteps DEF Callback
  <2>2. UNCHANGED <<notified, seen, stop, loop, queue, ev>> /\ cbs[k].st = "fired"
    BY <1>13 DEF CallbackChecks
  <2>3. CASE CurrentSeq(cbs[k].path) = cbs[k].seq
    BY <2>1, <2>3 DEF NoChangeForgotten, Promised
  <2>4. CASE CurrentSeq(cbs[k].path) # cbs[k].seq
    <3>1. timers' = timers  BY <1>13, <2>4 DEF CallbackChecks
    <3> QED  BY <2>1, <2>2, <3>1 DEF NoChangeForgotten, Promised
  <2> QED  BY <2>3, <2>4
<1>14. ASSUME NEW k \in DOMAIN cbs, ReloadReads(k)  PROVE NoChangeForgotten'
  <2>1. seen' = version /\ notified' = notified  BY <1>14 DEF ReloadReads
  <2>2. ~(notified' > seen')  BY <2>1 DEF Typed
  <2> QED  BY <2>2 DEF NoChangeForgotten
<1>15. ASSUME NEW k \in DOMAIN cbs, ReloadCompares(k)  PROVE NoChangeForgotten'
  <2>1. /\ DOMAIN cbs' = DOMAIN cbs /\ \A j \in DOMAIN cbs : j # k => cbs'[j] = cbs[j]
    BY <1>15, CallbackSteps DEF Callback
  <2>2. UNCHANGED <<notified, seen, stop, loop, queue, ev, timers>> /\ cbs[k].st # "reload"
    BY <1>15 DEF ReloadCompares
  <2> QED  BY <2>1, <2>2 DEF NoChangeForgotten, Promised
<1>16. ASSUME NEW k \in DOMAIN cbs, ReloadApplies(k)  PROVE NoChangeForgotten'
  <2>1. /\ DOMAIN cbs' = DOMAIN cbs /\ \A j \in DOMAIN cbs : j # k => cbs'[j] = cbs[j]
    BY <1>16, CallbackSteps DEF Callback
  <2>2. UNCHANGED <<notified, seen, stop, loop, queue, ev, timers>> /\ cbs[k].st # "reload"
    BY <1>16 DEF ReloadApplies
  <2> QED  BY <2>1, <2>2 DEF NoChangeForgotten, Promised
<1> QED
  BY <1>2, <1>3, <1>4, <1>5, <1>6, <1>7, <1>8, <1>9, <1>10, <1>11, <1>12, <1>13, <1>14,
     <1>15, <1>16
     DEF Next, LoopStep, StopStep, Callback

-----------------------------------------------------------------------------
(* The theorems *)

\* The invariant holds from the first load on.
THEOREM Invariance == Spec => []IndInv
<1>1. Init => IndInv
  <2> SUFFICES ASSUME Init  PROVE IndInv  OBVIOUS
  <2>1. cbs = <<>> /\ queue = <<>> /\ timers = <<>> /\ seqs = <<>>  BY DEF Init
  <2>2. Typed
    <3>1. NoEvent \in EventRecord
      BY WatcherAssumption DEF WatcherAssumption, NoEvent, EventRecord
    <3>2. cbs \in Seq(CallbackRecord)  BY <2>1
    <3>4. queue \in Seq(EventRecord)  BY <2>1
    <3>3. /\ loop = "off" /\ inotify = "off" /\ stop = "no" /\ version = 0 /\ notified = 0 /\ seen = 0
      BY DEF Init
    <3>5. ctxDone \in BOOLEAN /\ ev \in EventRecord  BY <3>1 DEF Init
    <3> QED  BY <3>2, <3>3, <3>4, <3>5 DEF Typed
  <2>3. Debounced  BY <2>1 DEF Debounced
  <2>4. Counted  BY <2>1, WatcherAssumption DEF Init, Counted, WatcherAssumption
  <2>5. InForce  BY <2>1 DEF Init, InForce
  <2>6. Running /\ NoChangeForgotten  BY DEF Init, Running, NoChangeForgotten
  <2> QED  BY <2>2, <2>3, <2>4, <2>5, <2>6 DEF IndInv
<1>2. IndInv /\ [Next]_vars => IndInv'
  <2> SUFFICES ASSUME IndInv, [Next]_vars  PROVE IndInv'  OBVIOUS
  <2>1. CASE Next
    BY <2>1, StepTyped, StepDebounced, StepCounted, StepInForce, StepRunning, StepForgotten
       DEF IndInv
  <2>2. CASE UNCHANGED vars
    <3> USE <2>2 DEF vars, watcher, history
    <3>1. Typed' /\ Debounced' /\ Counted'  BY DEF IndInv, Typed, Debounced, Counted
    <3>2. InForce' /\ Running' /\ NoChangeForgotten'
      BY DEF IndInv, InForce, Running, NoChangeForgotten, Promised
    <3> QED  BY <3>1, <3>2 DEF IndInv
  <2> QED  BY <2>1, <2>2
<1> QED  BY <1>1, <1>2, PTL DEF Spec

\* debounceTim and debounceSeq always name the same paths, each with the number of its one
\* live timer, although callbacks of replaced timers still run and numbers are used again.
THEOREM TypeCorrectness == Spec => []TypeOK
<1>1. IndInv => TypeOK
  <2> SUFFICES ASSUME IndInv  PROVE TypeOK  OBVIOUS
  <2>1. Len(cbs) <= MaxCalls
    <3>1. Len(cbs) \in Nat /\ Len(queue) \in Nat /\ MaxCalls \in Nat
      BY WatcherAssumption DEF WatcherAssumption, IndInv, Typed
    <3> QED  BY <3>1 DEF IndInv, Counted
  <2> QED  BY <2>1 DEF IndInv, Typed, Debounced, Counted, TypeOK
<1> QED  BY <1>1, Invariance, PTL

\* What is in force is always the whole of one revision that was accepted when it was read:
\* reloads that overlap, and read, compare and apply at different times, never mix revisions,
\* and a refused file changes nothing (Reload builds the list before it takes the lock).
THEOREM RevisionTheorem ==
    Spec => [](Loaded[from].ok /\ active = Loaded[from].contents /\ from \in 1..Len(Revisions))
<1>1. IndInv => Loaded[from].ok /\ active = Loaded[from].contents /\ from \in 1..Len(Revisions)
  <2> SUFFICES ASSUME IndInv
               PROVE  Loaded[from].ok /\ active = Loaded[from].contents /\ from \in 1..Len(Revisions)
    OBVIOUS
  <2>1. MaxCalls \in Nat /\ Len(Revisions) > MaxCalls
    BY WatcherAssumption DEF WatcherAssumption
  <2>2. from \in 1..latest /\ latest \in 1..calls + 1 /\ calls \in 0..MaxCalls
    BY DEF IndInv, InForce, Counted
  <2> QED  BY <2>1, <2>2 DEF IndInv, InForce
<1> QED  BY <1>1, Invariance, PTL

\* The safety half of ChangesAreRead: as long as Stop is not called, a change that was
\* reported and not read has somebody who will read it - the loop, a timer or a reload.
THEOREM PromiseTheorem == Spec => []NoChangeForgotten
<1>1. IndInv => NoChangeForgotten  BY DEF IndInv
<1> QED  BY <1>1, Invariance, PTL

-----------------------------------------------------------------------------
(* Least numbers *)

\* Induction up to m, for a set of numbers: if S had 0 and every successor but
\* not m, adding one would map the part of S below m into itself without 0,
\* injectively, which no finite set allows.
LEMMA UpTo ==
    ASSUME NEW m \in Nat, NEW S, 0 \in S, \A n \in Nat : n < m /\ n \in S => n + 1 \in S
    PROVE  m \in S
<1> DEFINE T == {n \in 0..m : n \in S}
<1> SUFFICES ASSUME m \notin S  PROVE FALSE  OBVIOUS
<1>1. IsFiniteSet(0..m)  BY FS_Interval
<1>2. IsFiniteSet(T) /\ 0 \in T  BY <1>1, FS_Subset
<1>3. IsFiniteSet(T \ {0}) /\ Cardinality(T \ {0}) = Cardinality(T) - 1 /\ Cardinality(T) \in Nat
  BY <1>2, FS_RemoveElement, FS_CardinalityType
<1>4. [n \in T |-> n + 1] \in Injection(T, T \ {0})
  <2>1. \A n \in T : n + 1 \in T \ {0}  OBVIOUS
  <2> QED  BY <2>1 DEF Injection, IsInjective
<1>5. Cardinality(T) <= Cardinality(T \ {0})  BY <1>3, <1>4, FS_Injection
<1> QED  BY <1>3, <1>5

\* A set of numbers that is not empty has a least element.
LEMMA Least ==
    ASSUME NEW S \in SUBSET Nat, S # {}
    PROVE  Min(S) \in S /\ \A n \in S : Min(S) <= n
<1> DEFINE L == {n \in Nat : \A k \in S : n <= k}
<1>1. ASSUME \A x \in S : \E y \in S : ~(x <= y)  PROVE FALSE
  <2>1. PICK m : m \in S  OBVIOUS
  <2>2. 0 \in L  OBVIOUS
  <2>3. ASSUME NEW n \in Nat, n \in L  PROVE n + 1 \in L
    <3>1. n \notin S  BY <1>1, <2>3
    <3> QED  BY <2>3, <3>1
  <2>4. m + 1 \in L
    <3> HIDE DEF L
    <3> QED  BY <2>1, <2>2, <2>3, UpTo
  <2> QED  BY <2>1, <2>4
<1> QED  BY <1>1 DEF Min

-----------------------------------------------------------------------------
(* Response fields, level by level *)

\* What a response may be, as its fields.
Answer(c) == IF c.variants = <<>> THEN {c.resp.fields} ELSE {c.variants[i].fields : i \in DOMAIN c.variants}

\* The parts of DeclaredResponses.
Status == [status |-> 204]
TemplateLevel(t, defaults) == IF t = None THEN <<>> ELSE <<defaults.templates[t].inline>>
OrUse(own, use, defaults) ==
    IF use # None THEN use ELSE IF \A i \in DOMAIN own : DOMAIN own[i] = {} THEN defaults.use ELSE None
One(own, use, defaults) ==
    Layered(own \o TemplateLevel(OrUse(own, use, defaults), defaults) \o <<defaults.fields, Status>>)
Variants(list, base, defaults) == {One(<<list[i].inline, base>>, list[i].use, defaults) : i \in DOMAIN list}

\* DeclaredResponses in these parts.
LEMMA DeclaredParts ==
    ASSUME NEW d, NEW defaults
    PROVE  DeclaredResponses(d, defaults) =
               IF d.responses # {} THEN Variants(Value(d.responses, <<>>), d.inline, defaults)
               ELSE IF HasTemplate(OrUse(<<d.inline>>, d.use, defaults), "weighted", defaults)
               THEN Variants(defaults.templates[OrUse(<<d.inline>>, d.use, defaults)].variants, <<>>, defaults)
               ELSE {One(<<d.inline>>, d.use, defaults)}
BY DEF DeclaredResponses, Variants, One, OrUse, TemplateLevel, Status

\* What is set by the first level is decided by it, the rest by the others.
LEMMA LayeredFront ==
    ASSUME NEW S, NEW q \in Seq(S), NEW x \in S
    PROVE  Layered(<<x>> \o q) = MergeInline(Layered(q), x)
<1> DEFINE p == <<x>> \o q
           P(f) == {i \in DOMAIN p : f \in DOMAIN p[i]}
           Q(f) == {i \in DOMAIN q : f \in DOMAIN q[i]}
<1>1. /\ Len(p) = Len(q) + 1 /\ DOMAIN p = 1..Len(q) + 1 /\ p[1] = x
      /\ DOMAIN q = 1..Len(q) /\ \A i \in 1..Len(q) : p[i + 1] = q[i]
  OBVIOUS
<1> HIDE DEF p
<1>2. UNION {DOMAIN p[i] : i \in DOMAIN p} = (UNION {DOMAIN q[i] : i \in DOMAIN q}) \cup DOMAIN x
  <2>1. ASSUME NEW f, NEW i \in DOMAIN p, f \in DOMAIN p[i]
        PROVE  f \in DOMAIN x \/ \E j \in DOMAIN q : f \in DOMAIN q[j]
    <3>1. CASE i = 1  BY <1>1, <2>1, <3>1
    <3>2. CASE i # 1
      <4>1. i - 1 \in 1..Len(q) /\ (i - 1) + 1 = i  BY <1>1, <3>2
      <4>2. p[i] = q[i - 1]  BY <1>1, <4>1
      <4> QED  BY <1>1, <2>1, <4>1, <4>2
    <3> QED  BY <3>1, <3>2
  <2>2. ASSUME NEW f, f \in DOMAIN x  PROVE \E i \in DOMAIN p : f \in DOMAIN p[i]
    BY <1>1, <2>2
  <2>3. ASSUME NEW f, NEW j \in DOMAIN q, f \in DOMAIN q[j]  PROVE \E i \in DOMAIN p : f \in DOMAIN p[i]
    <3>1. j + 1 \in DOMAIN p /\ p[j + 1] = q[j]  BY <1>1
    <3> QED  BY <2>3, <3>1
  <2> QED  BY <2>1, <2>2, <2>3, Zenon
<1>3. ASSUME NEW f \in DOMAIN x  PROVE p[Min(P(f))][f] = x[f]
  <2>1. P(f) \in SUBSET Nat /\ 1 \in P(f)  BY <1>1
  <2>2. Min(P(f)) \in P(f) /\ Min(P(f)) <= 1  BY <2>1, Least
  <2>3. Min(P(f)) = 1  BY <1>1, <2>2
  <2> QED  BY <1>1, <2>3
<1>4. ASSUME NEW f, f \notin DOMAIN x, NEW k \in DOMAIN q, f \in DOMAIN q[k]
      PROVE  p[Min(P(f))][f] = q[Min(Q(f))][f]
  <2> DEFINE a == Min(P(f))
             b == Min(Q(f))
  <2>1. Q(f) \in SUBSET Nat /\ k \in Q(f)  BY <1>1, <1>4
  <2>2. P(f) \in SUBSET Nat /\ k + 1 \in P(f)  BY <1>1, <1>4
  <2>3. a \in P(f) /\ \A n \in P(f) : a <= n  BY <2>2, Least
  <2>4. b \in Q(f) /\ \A n \in Q(f) : b <= n  BY <2>1, Least
  <2> HIDE DEF a, b
  <2>5. a # 1  BY <1>1, <1>4, <2>3
  <2>6. a - 1 \in 1..Len(q) /\ (a - 1) + 1 = a  BY <1>1, <2>3, <2>5
  <2>7. p[a] = q[a - 1]  BY <1>1, <2>6
  <2>8. a - 1 \in Q(f)  BY <1>1, <2>3, <2>6, <2>7
  <2>9. b <= a - 1  BY <2>4, <2>8
  <2>10. b \in 1..Len(q) /\ p[b + 1] = q[b] /\ b + 1 \in DOMAIN p  BY <1>1, <2>4
  <2>11. b + 1 \in P(f)  BY <2>4, <2>10
  <2>12. a <= b + 1  BY <2>3, <2>11
  <2>13. a = b + 1  BY <2>6, <2>9, <2>10, <2>12
  <2> QED  BY <2>10, <2>13 DEF a, b
<1> DEFINE D == UNION {DOMAIN q[i] : i \in DOMAIN q}
<1>5. Layered(p) = [f \in D \cup DOMAIN x |-> p[Min(P(f))][f]]  BY <1>2 DEF Layered
<1>6. Layered(q) = [f \in D |-> q[Min(Q(f))][f]]  BY DEF Layered
<1>7. ASSUME NEW f \in D \cup DOMAIN x
      PROVE  p[Min(P(f))][f] = IF f \in DOMAIN x THEN x[f] ELSE Layered(q)[f]
  <2>1. CASE f \in DOMAIN x  BY <1>3, <2>1
  <2>2. CASE f \notin DOMAIN x
    <3>1. PICK k \in DOMAIN q : f \in DOMAIN q[k]  BY <1>7, <2>2
    <3>2. Layered(q)[f] = q[Min(Q(f))][f]  BY <1>6, <3>1
    <3> QED  BY <1>4, <2>2, <3>1, <3>2
  <2> QED  BY <2>1, <2>2
<1>8. DOMAIN Layered(q) = D  BY <1>6
<1> HIDE DEF P, Q, D
<1>9. Layered(p) = [f \in D \cup DOMAIN x |-> IF f \in DOMAIN x THEN x[f] ELSE Layered(q)[f]]  BY <1>5, <1>7
<1> QED  BY <1>8, <1>9 DEF MergeInline, p

\* Merging is associative.
LEMMA MergeAssociates ==
    ASSUME NEW a, NEW b, NEW c
    PROVE  MergeInline(a, MergeInline(b, c)) = MergeInline(MergeInline(a, b), c)
BY DEF MergeInline

\* Nothing changes nothing.
LEMMA MergeNothing ==
    ASSUME NEW a, NEW b
    PROVE  /\ MergeInline(MergeInline(a, b), <<>>) = MergeInline(a, b)
           /\ \A c : DOMAIN c = {} => MergeInline(MergeInline(a, b), c) = MergeInline(a, b)
           /\ DOMAIN MergeInline(a, b) = DOMAIN a \cup DOMAIN b
<1>1. DOMAIN <<>> = {}  OBVIOUS
<1> QED  BY <1>1 DEF MergeInline

\* One level decides everything it sets.
LEMMA LayeredOne ==
    ASSUME NEW x
    PROVE  Layered(<<x>>) = [f \in DOMAIN x |-> x[f]]
<1>1. DOMAIN <<x>> = {1} /\ <<x>>[1] = x  OBVIOUS
<1>2. UNION {DOMAIN <<x>>[i] : i \in DOMAIN <<x>>} = DOMAIN x  BY <1>1
<1>3. ASSUME NEW f \in DOMAIN x  PROVE Min({i \in DOMAIN <<x>> : f \in DOMAIN <<x>>[i]}) = 1
  <2>1. {i \in DOMAIN <<x>> : f \in DOMAIN <<x>>[i]} = {1}  BY <1>1
  <2>2. Min({1}) = 1  BY Least
  <2> QED  BY <2>1, <2>2
<1> QED  BY <1>1, <1>2, <1>3 DEF Layered

\* Levels of fields, most specific first, below the file-wide fields and the status 204.
Bottom(defaults) == MergeInline(Status, defaults.fields)
\* Below the own levels: a template, if there is one, and the bottom.
Rest(t, defaults) ==
    IF t = None THEN Bottom(defaults) ELSE MergeInline(Bottom(defaults), defaults.templates[t].inline)

\* Two levels are one before the other.
LEMMA Pairs ==
    ASSUME NEW S, NEW a \in S, NEW b \in S
    PROVE  <<a, b>> = <<a>> \o <<b>> /\ <<a>> \in Seq(S) /\ <<b>> \in Seq(S) /\ <<a, b>> \in Seq(S)
<1>1. <<a, b>> \in Seq(S) /\ <<a>> \in Seq(S) /\ <<b>> \in Seq(S)  OBVIOUS
<1>2. <<a>> \o <<b>> \in Seq(S) /\ Len(<<a>> \o <<b>>) = 2  BY <1>1
<1>3. (<<a>> \o <<b>>)[1] = a /\ (<<a>> \o <<b>>)[2] = b  BY <1>1
<1>4. Len(<<a, b>>) = 2 /\ <<a, b>>[1] = a /\ <<a, b>>[2] = b  OBVIOUS
<1>5. ASSUME NEW i \in 1..2  PROVE <<a, b>>[i] = (<<a>> \o <<b>>)[i]
  <2>1. i = 1 \/ i = 2  OBVIOUS
  <2> QED  BY <1>3, <1>4, <2>1
<1>6. <<a, b>> = <<a>> \o <<b>>  BY <1>1, <1>2, <1>4, <1>5, SeqEqual
<1> QED  BY <1>1, <1>6

\* The file-wide fields over the status 204.
LEMMA LayeredBottom ==
    ASSUME NEW defaults
    PROVE  Layered(<<defaults.fields, Status>>) = Bottom(defaults)
<1>1. Layered(<<Status>>) = Status
  <2>1. Layered(<<Status>>) = [f \in DOMAIN Status |-> Status[f]]  BY LayeredOne
  <2> QED  BY <2>1 DEF Status
<1>2. PICK S : defaults.fields \in S /\ Status \in S
  <2>1. defaults.fields \in {defaults.fields, Status} /\ Status \in {defaults.fields, Status}  OBVIOUS
  <2> QED  BY <2>1
<1>3. <<defaults.fields, Status>> = <<defaults.fields>> \o <<Status>> /\ <<Status>> \in Seq(S)  BY <1>2, Pairs
<1>4. Layered(<<defaults.fields>> \o <<Status>>) = MergeInline(Layered(<<Status>>), defaults.fields)
  BY <1>2, <1>3, LayeredFront
<1> QED  BY <1>1, <1>3, <1>4 DEF Bottom

\* The levels beneath the own ones.
LEMMA LayeredRest ==
    ASSUME NEW t, NEW defaults
    PROVE  Layered(TemplateLevel(t, defaults) \o <<defaults.fields, Status>>) = Rest(t, defaults)
<1> DEFINE d == defaults.fields
           T == defaults.templates[t].inline
           S == {d, T, Status}
<1>1. <<d, Status>> \in Seq(S) /\ T \in S  BY Pairs
<1>2. CASE t = None
  <2>1. TemplateLevel(t, defaults) = <<>>  BY <1>2 DEF TemplateLevel
  <2> HIDE DEF S, d
  <2>2. <<>> \o <<d, Status>> = <<d, Status>>  BY <1>1, ConcatEmptySeq
  <2> QED  BY <1>2, <2>1, <2>2, LayeredBottom DEF Rest, d
<1>3. CASE t # None
  <2>1. TemplateLevel(t, defaults) = <<T>>  BY <1>3 DEF TemplateLevel
  <2> HIDE DEF S, d, T
  <2>2. Layered(<<T>> \o <<d, Status>>) = MergeInline(Layered(<<d, Status>>), T)  BY <1>1, LayeredFront
  <2> QED  BY <1>3, <2>1, <2>2, LayeredBottom DEF Rest, d, T
<1> QED  BY <1>2, <1>3

\* The own levels of one response are merged over the rest.
LEMMA Merged ==
    ASSUME NEW defaults, NEW t, NEW V, NEW own \in Seq(V), Len(own) \in {1, 2}
    PROVE  Layered(own \o TemplateLevel(t, defaults) \o <<defaults.fields, Status>>) =
               IF Len(own) = 1 THEN MergeInline(Rest(t, defaults), own[1])
               ELSE MergeInline(MergeInline(Rest(t, defaults), own[2]), own[1])
<1> DEFINE d == defaults.fields
           T == TemplateLevel(t, defaults)
           q == T \o <<d, Status>>
           S == V \cup {d, Status, defaults.templates[t].inline}
<1>1. d \in S /\ Status \in S /\ V \subseteq S /\ defaults.templates[t].inline \in S  OBVIOUS
<1> HIDE DEF S
<1>2. T \in Seq(S)
  <2>1. CASE t = None  BY <2>1 DEF TemplateLevel
  <2>2. CASE t # None
    <3>1. T = <<defaults.templates[t].inline>>  BY <2>2 DEF TemplateLevel
    <3> QED  BY <1>1, <3>1
  <2> QED  BY <2>1, <2>2
<1>3. <<d, Status>> \in Seq(S)  BY <1>1, Pairs
<1>4. Layered(q) = Rest(t, defaults)  BY LayeredRest
<1> HIDE DEF T, d
<1>5. q \in Seq(S)  BY <1>2, <1>3
<1>6. CASE Len(own) = 1
  <2> HIDE DEF q
  <2>0. DOMAIN own = 1..1 /\ own[1] \in V  BY <1>6
  <2>1. PICK x \in S : x = own[1]  BY <1>1, <2>0
  <2>2. <<x>> \in Seq(S) /\ own \in Seq(S) /\ own = <<x>>
    <3>1. <<x>> \in Seq(S) /\ own \in Seq(S) /\ Len(<<x>>) = 1 /\ <<x>>[1] = x  BY <1>1, <2>1
    <3> QED  BY <1>6, <2>1, <3>1, SeqEqual
  <2>3. (own \o T) \o <<d, Status>> = <<x>> \o q  BY <1>2, <1>3, <2>2, ConcatAssociative DEF q
  <2>4. Layered(<<x>> \o q) = MergeInline(Layered(q), x)  BY <1>5, LayeredFront
  <2>5. Layered((own \o T) \o <<d, Status>>) = MergeInline(Rest(t, defaults), own[1])  BY <1>4, <2>1, <2>3, <2>4
  <2> QED  BY <1>6, <2>5 DEF T, d
<1>7. CASE Len(own) = 2
  <2> HIDE DEF q
  <2>0. DOMAIN own = 1..2 /\ own[1] \in V /\ own[2] \in V  BY <1>7
  <2>1. PICK x \in S, y \in S : x = own[1] /\ y = own[2]  BY <1>1, <2>0
  <2>2. <<x>> \in Seq(S) /\ <<y>> \in Seq(S) /\ own = <<x>> \o <<y>>
    <3>1. <<x>> \in Seq(S) /\ <<y>> \in Seq(S) /\ own \in Seq(S)  BY <1>1, <2>1
    <3>2. <<x>> \o <<y>> \in Seq(S) /\ Len(<<x>> \o <<y>>) = 2  BY <3>1
    <3>3. (<<x>> \o <<y>>)[1] = x /\ (<<x>> \o <<y>>)[2] = y  BY <3>1
    <3>4. ASSUME NEW i \in 1..2  PROVE own[i] = (<<x>> \o <<y>>)[i]
      <4>1. i = 1 \/ i = 2  OBVIOUS
      <4> QED  BY <2>1, <3>3, <4>1
    <3> QED  BY <1>7, <3>1, <3>2, <3>4, SeqEqual
  <2>3. own \o T = <<x>> \o (<<y>> \o T) /\ <<y>> \o T \in Seq(S)  BY <1>2, <2>2, ConcatAssociative
  <2>4. (<<x>> \o (<<y>> \o T)) \o <<d, Status>> = <<x>> \o ((<<y>> \o T) \o <<d, Status>>)
    BY <1>3, <2>2, <2>3, ConcatAssociative
  <2>5. (<<y>> \o T) \o <<d, Status>> = <<y>> \o q  BY <1>2, <1>3, <2>2, ConcatAssociative DEF q
  <2>6. Layered(<<y>> \o q) = MergeInline(Layered(q), y) /\ <<y>> \o q \in Seq(S)  BY <1>5, <2>2, LayeredFront
  <2>7. Layered(<<x>> \o (<<y>> \o q)) = MergeInline(Layered(<<y>> \o q), x)  BY <2>6, LayeredFront
  <2>8. Layered((own \o T) \o <<d, Status>>) = MergeInline(MergeInline(Rest(t, defaults), own[2]), own[1])
    BY <1>4, <2>1, <2>3, <2>4, <2>5, <2>6, <2>7
  <2> QED  BY <1>7, <2>8 DEF T, d
<1> QED  BY <1>6, <1>7

\* One level of its own, or two.
LEMMA OneMerged ==
    ASSUME NEW defaults, NEW use, NEW V, NEW own \in Seq(V), Len(own) \in {1, 2}
    PROVE  LET t == OrUse(own, use, defaults)
           IN  One(own, use, defaults) = IF Len(own) = 1 THEN MergeInline(Rest(t, defaults), own[1])
                                         ELSE MergeInline(MergeInline(Rest(t, defaults), own[2]), own[1])
BY Merged DEF One

\* A single response that is accepted: its fields over those of its template, over the rest.
LEMMA SingleMerged ==
    ASSUME NEW inline, NEW use, NEW defaults, ResolveSingle(inline, use, defaults).ok
    PROVE  LET r == ResolveSingle(inline, use, defaults)
               t == TemplateFor(inline, use, defaults)
           IN  /\ r.variants = <<>>
               /\ r.resp.fields = IF t = None THEN MergeInline(Bottom(defaults), MergeInline(<<>>, inline))
                                  ELSE MergeInline(Bottom(defaults), MergeInline(defaults.templates[t].inline, inline))
<1> DEFINE t == TemplateFor(inline, use, defaults)
           fields(base) == InlineToTemplate(MergeInline(base, inline), defaults)
           good(b) == [ok |-> TRUE, resp |-> [fields |-> fields(b), name |-> t], variants |-> <<>>]
           base == IF t = None THEN <<>> ELSE defaults.templates[t].inline
<1>1. ResolveSingle(inline, use, defaults) \in {Failed, good(base)}
  BY DEF ResolveSingle
<1>2. Failed.ok = FALSE  BY DEF Failed
<1> HIDE DEF t, base
<1>3. ResolveSingle(inline, use, defaults) = good(base)  BY <1>1, <1>2
<1>4. fields(base) = MergeInline(Bottom(defaults), MergeInline(base, inline))
  BY DEF InlineToTemplate, Bottom, Status
<1> HIDE DEF fields
<1> QED  BY <1>3, <1>4 DEF base, t

\* A response of its own is what is declared.
LEMMA SingleDeclared ==
    ASSUME NEW inline, NEW use, NEW defaults, ResolveSingle(inline, use, defaults).ok
    PROVE  /\ ResolveSingle(inline, use, defaults).variants = <<>>
           /\ ResolveSingle(inline, use, defaults).resp.fields = One(<<inline>>, use, defaults)
<1> DEFINE t == TemplateFor(inline, use, defaults)
           T == defaults.templates[t].inline
<1>1. OrUse(<<inline>>, use, defaults) = t
  <2>1. (\A i \in DOMAIN <<inline>> : DOMAIN <<inline>>[i] = {}) <=> DOMAIN inline = {}  OBVIOUS
  <2> QED  BY <2>1 DEF OrUse, TemplateFor
<1>2. One(<<inline>>, use, defaults) =
          IF t = None THEN MergeInline(Bottom(defaults), inline)
          ELSE MergeInline(MergeInline(Bottom(defaults), T), inline)
  <2>1. One(<<inline>>, use, defaults) = MergeInline(Rest(OrUse(<<inline>>, use, defaults), defaults), inline)
    <3>1. PICK own : own = <<inline>>  OBVIOUS
    <3>2. own \in Seq({inline}) /\ Len(own) = 1 /\ own[1] = inline  BY <3>1
    <3> QED  BY <3>1, <3>2, OneMerged
  <2>2. One(<<inline>>, use, defaults) = MergeInline(Rest(t, defaults), inline)  BY <1>1, <2>1
  <2>3. Rest(t, defaults) = IF t = None THEN Bottom(defaults) ELSE MergeInline(Bottom(defaults), T)  BY DEF Rest
  <2> HIDE DEF t, T
  <2> QED  BY <2>2, <2>3
<1>3. MergeInline(Bottom(defaults), MergeInline(<<>>, inline)) = MergeInline(Bottom(defaults), inline)
  <2>1. MergeInline(Bottom(defaults), <<>>) = Bottom(defaults)  BY MergeNothing DEF Bottom
  <2> QED  BY <2>1, MergeAssociates
<1>4. MergeInline(Bottom(defaults), MergeInline(T, inline)) = MergeInline(MergeInline(Bottom(defaults), T), inline)
  BY MergeAssociates
<1> HIDE DEF t, T
<1>5. /\ ResolveSingle(inline, use, defaults).variants = <<>>
      /\ ResolveSingle(inline, use, defaults).resp.fields =
            IF t = None THEN MergeInline(Bottom(defaults), MergeInline(<<>>, inline))
            ELSE MergeInline(Bottom(defaults), MergeInline(T, inline))
  BY SingleMerged DEF t, T
<1> QED  BY <1>2, <1>3, <1>4, <1>5

\* A variant has the fields of the scenario or branch beneath its own, unless it uses a
\* template, where they are left out: then there must be none.
LEMMA VariantDeclared ==
    ASSUME NEW v, NEW base, NEW defaults, ResolveSingle(VariantInline(v, base), v.use, defaults).ok,
           DOMAIN base = {} \/ v.use = None
    PROVE  ResolveSingle(VariantInline(v, base), v.use, defaults).resp.fields
               = One(<<v.inline, base>>, v.use, defaults)
<1> DEFINE own == <<v.inline, base>>
<1>1. CASE v.use # None
  <2>1. VariantInline(v, base) = v.inline /\ DOMAIN base = {}  BY <1>1 DEF VariantInline
  <2>2. OrUse(own, v.use, defaults) = v.use /\ OrUse(<<v.inline>>, v.use, defaults) = v.use  BY <1>1 DEF OrUse
  <2>3. One(own, v.use, defaults) = MergeInline(MergeInline(Rest(v.use, defaults), base), v.inline)
    <3>1. PICK q : q = own  OBVIOUS
    <3>2. q \in Seq({v.inline, base}) /\ Len(q) = 2 /\ q[1] = v.inline /\ q[2] = base  BY <3>1
    <3>3. OrUse(q, v.use, defaults) = v.use  BY <2>2, <3>1
    <3>4. PICK V : q \in Seq(V)  BY <3>2
    <3>5. One(q, v.use, defaults) = MergeInline(MergeInline(Rest(v.use, defaults), q[2]), q[1])
      <4> HIDE DEF own
      <4> QED  BY <3>2, <3>3, <3>4, OneMerged
    <3> QED  BY <3>1, <3>2, <3>5
  <2>4. One(<<v.inline>>, v.use, defaults) = MergeInline(Rest(v.use, defaults), v.inline)
    <3>1. PICK q : q = <<v.inline>>  OBVIOUS
    <3>2. q \in Seq({v.inline}) /\ Len(q) = 1 /\ q[1] = v.inline  BY <3>1
    <3>3. OrUse(q, v.use, defaults) = v.use  BY <2>2, <3>1
    <3>4. One(q, v.use, defaults) = MergeInline(Rest(v.use, defaults), q[1])  BY <3>2, <3>3, OneMerged
    <3> QED  BY <3>1, <3>2, <3>4
  <2>5. MergeInline(Rest(v.use, defaults), base) = Rest(v.use, defaults)
    <3>1. Rest(v.use, defaults) = MergeInline(Bottom(defaults), defaults.templates[v.use].inline)  BY <1>1 DEF Rest
    <3>2. PICK x, y : x = Bottom(defaults) /\ y = defaults.templates[v.use].inline  OBVIOUS
    <3>3. MergeInline(MergeInline(x, y), base) = MergeInline(x, y)
      <4>1. DOMAIN base = {}  BY <2>1
      <4> HIDE DEF own
      <4> QED  BY ONLY <4>1, MergeNothing
    <3> QED  BY <3>1, <3>2, <3>3
  <2>6. ResolveSingle(v.inline, v.use, defaults).resp.fields = One(<<v.inline>>, v.use, defaults)
    BY <2>1, SingleDeclared
  <2> QED  BY <2>1, <2>3, <2>4, <2>5, <2>6
<1>2. CASE v.use = None
  <2> DEFINE m == MergeInline(base, v.inline)
             t == TemplateFor(m, v.use, defaults)
             T == defaults.templates[t].inline
             B == Bottom(defaults)
  <2>1. VariantInline(v, base) = m  BY <1>2 DEF VariantInline
  <2>2. DOMAIN m = DOMAIN base \cup DOMAIN v.inline  BY DEF MergeInline
  <2>3. OrUse(<<v.inline, base>>, v.use, defaults) = t
    <3>1. (\A i \in DOMAIN <<v.inline, base>> : DOMAIN <<v.inline, base>>[i] = {}) <=> DOMAIN m = {}
      <4> HIDE DEF m
      <4>1. DOMAIN <<v.inline, base>> = {1, 2}  OBVIOUS
      <4>2. <<v.inline, base>>[1] = v.inline /\ <<v.inline, base>>[2] = base  OBVIOUS
      <4> QED  BY <2>2, <4>1, <4>2
    <3> HIDE DEF m
    <3> QED  BY <3>1 DEF OrUse, TemplateFor
  <2>4. One(<<v.inline, base>>, v.use, defaults) =
            IF t = None THEN MergeInline(MergeInline(B, base), v.inline)
            ELSE MergeInline(MergeInline(MergeInline(B, T), base), v.inline)
    <3>1. PICK q : q = <<v.inline, base>>  OBVIOUS
    <3>2. q \in Seq({v.inline, base}) /\ Len(q) = 2 /\ q[1] = v.inline /\ q[2] = base  BY <3>1
    <3>3. One(q, v.use, defaults) = MergeInline(MergeInline(Rest(t, defaults), base), v.inline)
      <4> HIDE DEF t
      <4>1. OrUse(q, v.use, defaults) = t  BY <2>3, <3>1
      <4>2. PICK V : q \in Seq(V)  BY <3>2
      <4> QED  BY <3>2, <4>1, <4>2, OneMerged
    <3>4. Rest(t, defaults) = IF t = None THEN B ELSE MergeInline(B, T)  BY DEF Rest
    <3> HIDE DEF t, T, B
    <3> QED  BY <3>1, <3>3, <3>4
  <2>5. ResolveSingle(m, v.use, defaults).resp.fields =
            IF t = None THEN MergeInline(B, MergeInline(<<>>, m)) ELSE MergeInline(B, MergeInline(T, m))
    <3>1. ResolveSingle(m, v.use, defaults).ok  BY <2>1
    <3> HIDE DEF m
    <3> QED  BY <3>1, SingleMerged
  <2>6. MergeInline(B, MergeInline(<<>>, m)) = MergeInline(MergeInline(B, base), v.inline)
    <3>1. MergeInline(B, <<>>) = B  BY MergeNothing DEF Bottom
    <3>2. MergeInline(B, MergeInline(<<>>, m)) = MergeInline(MergeInline(B, <<>>), m)  BY MergeAssociates
    <3>3. MergeInline(B, m) = MergeInline(MergeInline(B, base), v.inline)  BY MergeAssociates
    <3> QED  BY <3>1, <3>2, <3>3
  <2>7. MergeInline(B, MergeInline(T, m)) = MergeInline(MergeInline(MergeInline(B, T), base), v.inline)
    <3>1. MergeInline(B, MergeInline(T, m)) = MergeInline(MergeInline(B, T), m)  BY MergeAssociates
    <3>2. MergeInline(MergeInline(B, T), m) = MergeInline(MergeInline(MergeInline(B, T), base), v.inline)
      BY MergeAssociates
    <3> QED  BY <3>1, <3>2
  <2> HIDE DEF m, t, T, B
  <2> QED  BY <2>1, <2>4, <2>5, <2>6, <2>7
<1> QED  BY <1>1, <1>2

\* A weighted list that is accepted has a variant for every declared one.
LEMMA WeightedDeclared ==
    ASSUME NEW list, NEW base, NEW baseName, NEW defaults, IsList(list),
           BuildWeightedList(list, base, baseName, defaults).ok,
           DOMAIN base = {} \/ \A i \in DOMAIN list : list[i].use = None
    PROVE  LET r == BuildWeightedList(list, base, baseName, defaults)
           IN  r.variants # <<>> /\ Answer(r) = Variants(list, base, defaults)
<1> DEFINE single(i) == ResolveSingle(VariantInline(list[i], base), list[i].use, defaults)
           all == [i \in DOMAIN list |-> single(i)]
           out == [i \in DOMAIN list |->
                      [weight |-> list[i].weight, fields |-> all[i].resp.fields,
                       name |-> IF list[i].use # None THEN list[i].use ELSE baseName]]
           r == BuildWeightedList(list, base, baseName, defaults)
<1>1. r = IF list # <<>> /\ WeightsValid([i \in DOMAIN list |-> list[i].weight]) /\ \A i \in DOMAIN list : all[i].ok
          THEN [ok |-> TRUE, resp |-> [fields |-> [status |-> 204], name |-> None], variants |-> out] ELSE Failed
  BY DEF BuildWeightedList
<1>2. r.ok /\ Failed.ok = FALSE  BY DEF Failed
<1> HIDE DEF r, all, out
<1>3. list # <<>> /\ (\A i \in DOMAIN list : all[i].ok) /\ r.variants = out  BY <1>1, <1>2
<1>4. \A i \in DOMAIN list : all[i] = single(i)  BY DEF all
<1>5. ASSUME NEW i \in DOMAIN list  PROVE out[i].fields = One(<<list[i].inline, base>>, list[i].use, defaults)
  <2>1. out[i].fields = all[i].resp.fields  BY DEF out
  <2>2. single(i).ok  BY <1>3, <1>4
  <2> QED  BY <1>4, <2>1, <2>2, VariantDeclared
<1>6. DOMAIN out = DOMAIN list  BY DEF out
<1>7. out # <<>>
  <2>1. list \in Seq(ToSet(list))  BY DEF IsList
  <2>2. 1 \in DOMAIN list  BY <1>3, <2>1
  <2>3. DOMAIN <<>> = {}  OBVIOUS
  <2> QED  BY <1>6, <2>2, <2>3
<1>8. {out[i].fields : i \in DOMAIN out} = Variants(list, base, defaults)
  BY <1>5, <1>6 DEF Variants
<1> QED  BY <1>3, <1>7, <1>8 DEF Answer, r

\* A declaration that is accepted gives the responses it declares.
LEMMA ResponseDeclared ==
    ASSUME NEW d, NEW defaults, ResolveResponse(d, defaults).ok, IsList(Value(d.responses, <<>>)),
           \A t \in DOMAIN defaults.templates : IsList(defaults.templates[t].variants), Inherits(d)
    PROVE  Answer(ResolveResponse(d, defaults)) = DeclaredResponses(d, defaults)
<1> DEFINE t == TemplateFor(d.inline, d.use, defaults)
           r == ResolveResponse(d, defaults)
<1>1. OrUse(<<d.inline>>, d.use, defaults) = t
  <2>1. (\A i \in DOMAIN <<d.inline>> : DOMAIN <<d.inline>>[i] = {}) <=> DOMAIN d.inline = {}  OBVIOUS
  <2> QED  BY <2>1 DEF OrUse, TemplateFor
<1>2. r.ok /\ Failed.ok = FALSE  BY DEF Failed
<1>3. r = IF d.responses = {}
          THEN IF ~HasTemplate(t, "weighted", defaults) THEN ResolveSingle(d.inline, d.use, defaults)
               ELSE IF DOMAIN d.inline # {} THEN Failed
               ELSE BuildWeightedList(defaults.templates[t].variants, <<>>, t, defaults)
          ELSE IF d.use # None THEN Failed
          ELSE BuildWeightedList(Value(d.responses, <<>>), d.inline, None, defaults)
  BY DEF ResolveResponse
<1> HIDE DEF r, t
<1>4. CASE d.responses # {}
  <2>1. r = BuildWeightedList(Value(d.responses, <<>>), d.inline, None, defaults)  BY <1>2, <1>3, <1>4
  <2>2. DeclaredResponses(d, defaults) = Variants(Value(d.responses, <<>>), d.inline, defaults)
    BY <1>4, DeclaredParts
  <2>3. Answer(r) = Variants(Value(d.responses, <<>>), d.inline, defaults)
    BY <1>2, <2>1, WeightedDeclared DEF Inherits
  <2> QED  BY <2>2, <2>3 DEF r
<1>5. CASE d.responses = {} /\ HasTemplate(t, "weighted", defaults)
  <2>1. r = BuildWeightedList(defaults.templates[t].variants, <<>>, t, defaults)  BY <1>2, <1>3, <1>5
  <2>2. DeclaredResponses(d, defaults) = Variants(defaults.templates[t].variants, <<>>, defaults)
    BY <1>1, <1>5, DeclaredParts
  <2>3. IsList(defaults.templates[t].variants)  BY <1>5 DEF HasTemplate
  <2>4. Answer(r) = Variants(defaults.templates[t].variants, <<>>, defaults)
    <3>1. PICK e : e = <<>>  OBVIOUS
    <3>2. DOMAIN e = {}  BY <3>1
    <3>3. Answer(r) = Variants(defaults.templates[t].variants, e, defaults)
      BY <1>2, <2>1, <2>3, <3>1, <3>2, WeightedDeclared
    <3> QED  BY <3>1, <3>3
  <2> QED  BY <2>2, <2>4 DEF r
<1>6. CASE d.responses = {} /\ ~HasTemplate(t, "weighted", defaults)
  <2>1. r = ResolveSingle(d.inline, d.use, defaults)  BY <1>3, <1>6
  <2>2. DeclaredResponses(d, defaults) = {One(<<d.inline>>, d.use, defaults)}  BY <1>1, <1>6, DeclaredParts
  <2>3. r.variants = <<>> /\ r.resp.fields = One(<<d.inline>>, d.use, defaults)  BY <1>2, <2>1, SingleDeclared
  <2> QED  BY <2>2, <2>3 DEF r, Answer
<1> QED  BY <1>4, <1>5, <1>6

-----------------------------------------------------------------------------
(* Routing *)

\* A request is for one of the methods and endpoints of s.
Located(s, req) ==
    /\ MethodMatches(s, req)
    /\ \/ EndpointsFor(s, req) = <<>>
       \/ {i \in DOMAIN EndpointsFor(s, req) : EndpointMatches(EndpointsFor(s, req)[i], req.path)} # {}

Reached(pairs, req) == \E pair \in pairs : pair[1] = req.method /\ EndpointMatches(pair[2], req.path)

\* Routes lead where they say.
LEMMA RoutesLocate ==
    ASSUME NEW s, NEW req, RouteDeclValid(s.routes)
    PROVE  Located(s, req) <=>
               /\ req.method \in DOMAIN s.routes
               /\ \E ep \in ToSet(s.routes[req.method]) : EndpointMatches(ep, req.path)
<1>1. HasRoutes(s)  BY DEF RouteDeclValid, HasRoutes
<1>2. MethodMatches(s, req) <=> req.method \in DOMAIN s.routes  BY <1>1 DEF MethodMatches
<1>3. CASE req.method \notin DOMAIN s.routes  BY <1>2, <1>3 DEF Located
<1>4. CASE req.method \in DOMAIN s.routes
  <2>1. EndpointsFor(s, req) = s.routes[req.method]  BY <1>1, <1>4 DEF EndpointsFor
  <2>2. s.routes[req.method] # <<>>  BY <1>4 DEF RouteDeclValid, RouteMapValid
  <2> QED  BY <1>2, <1>4, <2>1, <2>2 DEF Located, ToSet
<1> QED  BY <1>3, <1>4

\* Without routes, methods and endpoints combine freely.
LEMMA ListLocates ==
    ASSUME NEW s, NEW req, s.routes = <<>>, s.methods # {}, s.paths # <<>>
    PROVE  Located(s, req) <=>
               req.method \in s.methods /\ \E ep \in ToSet(s.paths) : EndpointMatches(ep, req.path)
<1>1. ~HasRoutes(s)
  <2>1. DOMAIN <<>> = {}  OBVIOUS
  <2> QED  BY <2>1 DEF HasRoutes
<1>2. EndpointsFor(s, req) = s.paths /\ (MethodMatches(s, req) <=> req.method \in s.methods)
  BY <1>1 DEF EndpointsFor, MethodMatches
<1> QED  BY <1>2 DEF Located, ToSet

\* A scenario with the routing of a resolved entry.
Follows(s, r) == s.routes = r.routes /\ s.methods = r.methods /\ s.paths = r.paths

\* The route map of a resolved entry is its own.
LEMMA RouteMapLocates ==
    ASSUME NEW s, NEW req, NEW R, RouteDeclValid(R), Follows(s, RoutingFromRouteMap(R))
    PROVE  Located(s, req) <=> req.method \in DOMAIN R /\ \E ep \in ToSet(R[req.method]) : EndpointMatches(ep, req.path)
<1>1. RoutingFromRouteMap(R).routes = R  BY DEF RoutingFromRouteMap
<1>2. s.routes = R  BY <1>1 DEF Follows
<1> QED  BY <1>2, RoutesLocate

\* The same for methods and endpoints.
LEMMA LegacyLocates ==
    ASSUME NEW s, NEW req, NEW M, NEW E, ValidateLegacyRouting(M, E).ok, Follows(s, ValidateLegacyRouting(M, E))
    PROVE  Located(s, req) <=> req.method \in M /\ \E ep \in ToSet(E) : EndpointMatches(ep, req.path)
<1>1. M # {} /\ E # <<>> /\ s.routes = <<>> /\ s.methods = M /\ s.paths = E
  BY DEF ValidateLegacyRouting, Follows
<1> QED  BY <1>1, ListLocates

\* A request reaches an entry exactly if one of the pairs of method and endpoint that the entry
\* declares or inherits is the request's.
LEMMA RoutingDeclared ==
    ASSUME NEW defaults, NEW entry, NEW s, NEW req,
           ResolveScenarioRouting(defaults, entry).ok, Follows(s, ResolveScenarioRouting(defaults, entry))
    PROVE  Located(s, req) <=> Reached(DeclaredPairs(defaults, entry), req)
<1> DEFINE r == ResolveScenarioRouting(defaults, entry)
           own == Value(entry.routes, <<>>)
           base == Value(defaults.routes, <<>>)
           method == Value(entry.method, {})
           endpoint == Value(entry.endpoint, <<>>)
           methods == IF method # {} THEN method ELSE Value(defaults.method, {}) \cup DOMAIN base
           endpoints(m) == IF endpoint # <<>> THEN endpoint
                           ELSE IF m \in DOMAIN base THEN base[m] ELSE Value(defaults.endpoint, <<>>)
           m0 == req.method
           at(E) == \E ep \in ToSet(E) : EndpointMatches(ep, req.path)
<1>0. Failed.ok = FALSE  BY DEF Failed
<1>1. RoutingDeclValid(defaults) /\ RoutingDeclValid(entry)
  BY <1>0 DEF ResolveScenarioRouting
<1>2. r = IF entry.routes # {} THEN RoutingFromRouteMap(own)
          ELSE IF defaults.routes # {} THEN ResolveFromDefaultRoutes(base, method, endpoint)
          ELSE ValidateLegacyRouting(IF method = {} THEN Value(defaults.method, {}) ELSE method,
                                     IF endpoint = <<>> THEN Value(defaults.endpoint, <<>>) ELSE endpoint)
  BY <1>1 DEF ResolveScenarioRouting
<1>3. DeclaredPairs(defaults, entry) =
          IF entry.routes # {} THEN UNION {{<<m, ep>> : ep \in ToSet(own[m])} : m \in DOMAIN own}
          ELSE UNION {{<<m, ep>> : ep \in ToSet(endpoints(m))} : m \in methods}
  BY DEF DeclaredPairs
<1> HIDE DEF r, own, base, method, endpoint
<1>4. CASE entry.routes # {}
  <2>1. RouteDeclValid(own)  BY <1>1, <1>4 DEF RoutingDeclValid, own
  <2>2. Located(s, req) <=> m0 \in DOMAIN own /\ at(own[m0])
    <3>1. Follows(s, RoutingFromRouteMap(own))  BY <1>2, <1>4 DEF r
    <3> QED  BY <2>1, <3>1, RouteMapLocates
  <2>3. Reached(DeclaredPairs(defaults, entry), req) <=> m0 \in DOMAIN own /\ at(own[m0])
    <3>1. DeclaredPairs(defaults, entry) = UNION {{<<m, ep>> : ep \in ToSet(own[m])} : m \in DOMAIN own}
      BY <1>3, <1>4
    <3>2. ASSUME NEW pair \in DeclaredPairs(defaults, entry), pair[1] = m0, EndpointMatches(pair[2], req.path)
          PROVE  m0 \in DOMAIN own /\ at(own[m0])
      <4>1. PICK m \in DOMAIN own : pair \in {<<m, ep>> : ep \in ToSet(own[m])}  BY <3>1, <3>2
      <4>2. PICK ep \in ToSet(own[m]) : pair = <<m, ep>>  BY <4>1
      <4>3. pair[1] = m /\ pair[2] = ep  BY <4>2
      <4> QED  BY <3>2, <4>2, <4>3
    <3>3. ASSUME m0 \in DOMAIN own, NEW ep \in ToSet(own[m0]), EndpointMatches(ep, req.path)
          PROVE  Reached(DeclaredPairs(defaults, entry), req)
      <4>1. <<m0, ep>> \in DeclaredPairs(defaults, entry)  BY <3>1, <3>3
      <4>2. <<m0, ep>>[1] = m0 /\ <<m0, ep>>[2] = ep  OBVIOUS
      <4> QED  BY <3>3, <4>1, <4>2 DEF Reached
    <3> QED  BY <3>2, <3>3 DEF Reached
  <2> QED  BY <2>2, <2>3
<1>5. CASE entry.routes = {}
  <2>1. Reached(DeclaredPairs(defaults, entry), req) <=> m0 \in methods /\ at(endpoints(m0))
    <3> HIDE DEF methods, endpoints
    <3>1. DeclaredPairs(defaults, entry) = UNION {{<<m, ep>> : ep \in ToSet(endpoints(m))} : m \in methods}
      BY <1>3, <1>5
    <3>2. ASSUME NEW pair \in DeclaredPairs(defaults, entry), pair[1] = m0, EndpointMatches(pair[2], req.path)
          PROVE  m0 \in methods /\ at(endpoints(m0))
      <4>1. PICK m \in methods : pair \in {<<m, ep>> : ep \in ToSet(endpoints(m))}  BY <3>1, <3>2
      <4>2. PICK ep \in ToSet(endpoints(m)) : pair = <<m, ep>>  BY <4>1
      <4>3. pair[1] = m /\ pair[2] = ep  BY <4>2
      <4> QED  BY <3>2, <4>2, <4>3
    <3>3. ASSUME m0 \in methods, NEW ep \in ToSet(endpoints(m0)), EndpointMatches(ep, req.path)
          PROVE  Reached(DeclaredPairs(defaults, entry), req)
      <4>1. <<m0, ep>> \in DeclaredPairs(defaults, entry)  BY <3>1, <3>3
      <4>2. <<m0, ep>>[1] = m0 /\ <<m0, ep>>[2] = ep  OBVIOUS
      <4> QED  BY <3>3, <4>1, <4>2 DEF Reached
    <3> QED  BY <3>2, <3>3 DEF Reached
  <2>2. DOMAIN <<>> = {}  OBVIOUS
  <2>3. CASE defaults.routes = {}
    <3>1. base = <<>>  BY <2>3 DEF base, Value
    <3>2. methods = (IF method = {} THEN Value(defaults.method, {}) ELSE method)
      BY <2>2, <3>1
    <3>3. endpoints(m0) = IF endpoint = <<>> THEN Value(defaults.endpoint, <<>>) ELSE endpoint
      BY <2>2, <3>1
    <3> HIDE DEF methods, endpoints
    <3>4. r = ValidateLegacyRouting(methods, endpoints(m0))  BY <1>2, <1>5, <2>3, <3>2, <3>3
    <3>5. Located(s, req) <=> m0 \in methods /\ at(endpoints(m0))  BY <3>4, LegacyLocates DEF r
    <3> QED  BY <2>1, <3>5
  <2>4. CASE defaults.routes # {}
    <3>1. /\ RouteDeclValid(base) /\ defaults.method = {} /\ defaults.endpoint = {}
          /\ Value(defaults.method, {}) = {} /\ Value(defaults.endpoint, <<>>) = <<>>
      BY <1>1, <2>4 DEF RoutingDeclValid, base, Value
    <3>2. r = ResolveFromDefaultRoutes(base, method, endpoint)  BY <1>2, <1>5, <2>4
    <3>3. CASE method = {} /\ endpoint = <<>>
      <4>1. r = RoutingFromRouteMap(base)  BY <3>2, <3>3 DEF ResolveFromDefaultRoutes
      <4>2. Located(s, req) <=> m0 \in DOMAIN base /\ at(base[m0])  BY <3>1, <4>1, RouteMapLocates DEF r
      <4>3. methods = DOMAIN base /\ (m0 \in DOMAIN base => endpoints(m0) = base[m0])  BY <3>1, <3>3
      <4> HIDE DEF methods, endpoints
      <4> QED  BY <2>1, <4>2, <4>3
    <3>4. CASE method # {} /\ endpoint # <<>>
      <4>1. r = ValidateLegacyRouting(method, endpoint)  BY <3>2, <3>4 DEF ResolveFromDefaultRoutes
      <4>2. Located(s, req) <=> m0 \in method /\ at(endpoint)  BY <4>1, LegacyLocates DEF r
      <4>3. methods = method /\ endpoints(m0) = endpoint  BY <3>4
      <4> HIDE DEF methods, endpoints
      <4> QED  BY <2>1, <4>2, <4>3
    <3>5. CASE method # {} /\ endpoint = <<>>
      <4> DEFINE R == [m \in method |-> base[m]]
      <4>1. r = IF method \subseteq DOMAIN base THEN RoutingFromRouteMap(R) ELSE Failed
        BY <3>2, <3>5 DEF ResolveFromDefaultRoutes
      <4>2. method \subseteq DOMAIN base /\ r = RoutingFromRouteMap(R)  BY <1>0, <4>1 DEF r
      <4>3. RouteDeclValid(R)  BY <3>1, <3>5, <4>2 DEF RouteDeclValid, RouteMapValid
      <4>4. DOMAIN R = method /\ (m0 \in method => R[m0] = base[m0])  OBVIOUS
      <4> HIDE DEF R
      <4>5. Located(s, req) <=> m0 \in DOMAIN R /\ at(R[m0])  BY <4>2, <4>3, RouteMapLocates DEF r
      <4>6. methods = method /\ (m0 \in method => endpoints(m0) = base[m0])  BY <3>5, <4>2
      <4> HIDE DEF methods, endpoints
      <4> QED  BY <2>1, <4>4, <4>5, <4>6
    <3>6. CASE method = {} /\ endpoint # <<>>
      <4> DEFINE R == [m \in DOMAIN base |-> endpoint]
      <4>1. r = IF RouteDeclValid(R) THEN RoutingFromRouteMap(R) ELSE Failed
        BY <3>2, <3>6 DEF ResolveFromDefaultRoutes
      <4>2. RouteDeclValid(R) /\ r = RoutingFromRouteMap(R)  BY <1>0, <4>1 DEF r
      <4>3. DOMAIN R = DOMAIN base /\ (m0 \in DOMAIN base => R[m0] = endpoint)  OBVIOUS
      <4> HIDE DEF R
      <4>4. Located(s, req) <=> m0 \in DOMAIN R /\ at(R[m0])  BY <4>2, RouteMapLocates DEF r
      <4>5. methods = DOMAIN base /\ endpoints(m0) = endpoint  BY <3>1, <3>6
      <4> HIDE DEF methods, endpoints
      <4> QED  BY <2>1, <4>3, <4>4, <4>5
    <3> QED  BY <3>3, <3>4, <3>5, <3>6
  <2> QED  BY <2>3, <2>4
<1> QED  BY <1>4, <1>5

-----------------------------------------------------------------------------
(* One entry *)

\* The verdict on a scenario whose body rule can be evaluated.
LEMMA VerdictOn ==
    ASSUME NEW s, NEW req, BodyPatternVerdict(s.rule, req) # "error"
    PROVE  MatchesScenario(s, req).res =
               IF /\ Located(s, req) /\ RulesMatch(s.rule, req) /\ BodyPatternVerdict(s.rule, req) = "yes"
                  /\ Accepts(s.rule.client, req.client) /\ Accepts(s.rule.cidr, req.client)
                  /\ (s.branches = <<>> \/ SelectBranch(s, req) > 0)
               THEN "yes" ELSE "no"
BY DEF MatchesScenario, Located

\* What becomes of an entry that is accepted, placed at n.
Placed(file, i, n) == [ConvertEntry(file, i).scenario EXCEPT !.order = n]

\* Its parts.
LEMMA EntryBuilt ==
    ASSUME NEW file, NEW i \in DOMAIN file.entries, NEW n, ConvertEntry(file, i).ok, IsFile(file)
    PROVE  LET e == file.entries[i]
               s == Placed(file, i, n)
           IN  /\ s.order = n /\ s.name = e.name /\ s.rule = e.when
               /\ s.priority = IF e.priority = 0 THEN BasePriority - (i - 1) ELSE e.priority
               /\ ResolveScenarioRouting(file.defaults, e).ok
               /\ Follows(s, ResolveScenarioRouting(file.defaults, e))
               /\ e.branches = <<>> =>
                     /\ s.branches = <<>> /\ ResolveResponse(e, file.defaults).ok
                     /\ Answer(s) = Answer(ResolveResponse(e, file.defaults))
               /\ e.branches # <<>> =>
                     /\ s.branches # <<>> /\ DOMAIN s.branches = DOMAIN e.branches
                     /\ \A b \in DOMAIN e.branches :
                           /\ s.branches[b].rule = e.branches[b].when
                           /\ ResolveResponse(e.branches[b], file.defaults).ok
                           /\ Answer(s.branches[b]) = Answer(ResolveResponse(e.branches[b], file.defaults))
<1> DEFINE e == file.entries[i]
           s == Placed(file, i, n)
           p == IF e.priority = 0 THEN BasePriority - (i - 1) ELSE e.priority
           routing == ResolveScenarioRouting(file.defaults, e)
           R == ResolveResponse(e, file.defaults)
           B == BuildBranches(e.branches, file.defaults)
<1>1. Failed.ok = FALSE  BY DEF Failed
<1>2. ASSUME NEW branches, NEW r, ConvertEntry(file, i) = Built(e.name, p, routing, e.when, branches, r)
      PROVE  /\ s.order = n /\ s.name = e.name /\ s.rule = e.when /\ s.priority = p /\ s.branches = branches
             /\ Follows(s, routing) /\ s.resp = r.resp /\ s.variants = r.variants
  <2> DEFINE c == [name |-> e.name, priority |-> p, order |-> 0, routes |-> routing.routes,
                   methods |-> routing.methods, paths |-> routing.paths, rule |-> e.when,
                   branches |-> branches, weights |-> Weights(r.variants), compiles |-> TRUE,
                   resp |-> r.resp, variants |-> r.variants]
  <2> HIDE DEF p, e, routing
  <2>1. ConvertEntry(file, i).scenario = c  BY <1>2 DEF Built
  <2>2. s = [c EXCEPT !.order = n]  BY <2>1 DEF Placed
  <2> HIDE DEF s
  <2> QED  BY <2>2 DEF Follows
<1>3. CASE e.branches = <<>>
  <2>1. ConvertEntry(file, i) = IF ~routing.ok \/ ~R.ok THEN Failed
                                ELSE Built(e.name, p, routing, e.when, <<>>, R)
    BY <1>3 DEF ConvertEntry
  <2> HIDE DEF e, p, routing, R, s
  <2>2. routing.ok /\ R.ok /\ ConvertEntry(file, i) = Built(e.name, p, routing, e.when, <<>>, R)
    BY <1>1, <2>1
  <2>3. /\ s.order = n /\ s.name = e.name /\ s.rule = e.when /\ s.priority = p /\ s.branches = <<>>
        /\ Follows(s, routing) /\ s.resp = R.resp /\ s.variants = R.variants
    BY <1>2, <2>2
  <2>4. Answer(s) = Answer(R)  BY <2>3 DEF Answer
  <2> QED  BY <1>3, <2>2, <2>3, <2>4 DEF e, p, routing, R, s
<1>4. CASE e.branches # <<>>
  <2>1. \/ ConvertEntry(file, i) = Failed
        \/ routing.ok /\ B.ok /\ ConvertEntry(file, i) = Built(e.name, p, routing, e.when, B.list, NoResponse)
    BY <1>4 DEF ConvertEntry
  <2> DEFINE r == [b \in DOMAIN e.branches |-> ResolveResponse(e.branches[b], file.defaults)]
  <2>2. B = IF \A b \in DOMAIN r : r[b].ok
            THEN [ok |-> TRUE, list |-> [b \in DOMAIN r |->
                     [rule |-> e.branches[b].when, weights |-> Weights(r[b].variants),
                      resp |-> r[b].resp, variants |-> r[b].variants]]]
            ELSE Failed
    BY DEF BuildBranches
  <2>3. e.branches \in Seq(ToSet(e.branches))
    <3>1. e \in ToSet(file.entries)  BY DEF ToSet
    <3> QED  BY <3>1 DEF IsFile, IsList
  <2> HIDE DEF e, p, routing, B, s
  <2>4. routing.ok /\ B.ok /\ ConvertEntry(file, i) = Built(e.name, p, routing, e.when, B.list, NoResponse)
    BY <1>1, <2>1
  <2>5. /\ s.order = n /\ s.name = e.name /\ s.rule = e.when /\ s.priority = p /\ s.branches = B.list
        /\ Follows(s, routing)
    BY <1>2, <2>4
  <2>6. DOMAIN r = DOMAIN e.branches /\ \A b \in DOMAIN e.branches : r[b] = ResolveResponse(e.branches[b], file.defaults)
    OBVIOUS
  <2> HIDE DEF r
  <2>7. /\ \A b \in DOMAIN r : r[b].ok
        /\ B.list = [b \in DOMAIN r |->
                     [rule |-> e.branches[b].when, weights |-> Weights(r[b].variants),
                      resp |-> r[b].resp, variants |-> r[b].variants]]
    BY <1>1, <2>2, <2>4
  <2>8. DOMAIN B.list = DOMAIN e.branches  BY <2>6, <2>7
  <2>9. B.list # <<>>
    <3>1. 1 \in DOMAIN e.branches  BY <1>4, <2>3
    <3>2. DOMAIN <<>> = {}  OBVIOUS
    <3> QED  BY <2>8, <3>1, <3>2
  <2>10. ASSUME NEW b \in DOMAIN e.branches
         PROVE  /\ B.list[b].rule = e.branches[b].when /\ ResolveResponse(e.branches[b], file.defaults).ok
                /\ Answer(B.list[b]) = Answer(ResolveResponse(e.branches[b], file.defaults))
    <3>1. /\ B.list[b].rule = e.branches[b].when
          /\ B.list[b].resp = r[b].resp /\ B.list[b].variants = r[b].variants
      BY <2>6, <2>7
    <3>2. Answer(B.list[b]) = Answer(r[b])  BY <3>1 DEF Answer
    <3> QED  BY <2>6, <2>7, <3>1, <3>2
  <2>11. /\ s.branches # <<>> /\ DOMAIN s.branches = DOMAIN e.branches
         /\ \A b \in DOMAIN e.branches :
               /\ s.branches[b].rule = e.branches[b].when /\ ResolveResponse(e.branches[b], file.defaults).ok
               /\ Answer(s.branches[b]) = Answer(ResolveResponse(e.branches[b], file.defaults))
    BY <2>5, <2>8, <2>9, <2>10
  <2> QED  BY <1>4, <2>4, <2>5, <2>11 DEF e, p, routing, s
<1> QED  BY <1>3, <1>4

\* The branches that apply.
Chosen(e, req) == {b \in DOMAIN e.branches : RulesMatch(e.branches[b].when, req)}

\* The branch that is selected is the first that applies.
LEMMA BranchSelected ==
    ASSUME NEW s, NEW e, NEW req, e.branches \in Seq(ToSet(e.branches)), DOMAIN s.branches = DOMAIN e.branches,
           \A b \in DOMAIN e.branches : s.branches[b].rule = e.branches[b].when
    PROVE  /\ SelectBranch(s, req) = IF Chosen(e, req) = {} THEN 0 ELSE Min(Chosen(e, req))
           /\ Chosen(e, req) # {} => Min(Chosen(e, req)) \in Chosen(e, req) /\ SelectBranch(s, req) > 0
           /\ Chosen(e, req) = {} => ~(SelectBranch(s, req) > 0)
<1>1. {b \in DOMAIN s.branches : RulesMatch(s.branches[b].rule, req)} = Chosen(e, req)  BY DEF Chosen
<1>2. SelectBranch(s, req) = IF Chosen(e, req) = {} THEN 0 ELSE Min(Chosen(e, req))  BY <1>1 DEF SelectBranch
<1>3. ASSUME Chosen(e, req) # {}  PROVE Min(Chosen(e, req)) \in Chosen(e, req) /\ Min(Chosen(e, req)) > 0
  <2>1. Chosen(e, req) \subseteq 1..Len(e.branches)  BY DEF Chosen
  <2>2. Chosen(e, req) \in SUBSET Nat  BY <2>1
  <2>3. Min(Chosen(e, req)) \in Chosen(e, req)  BY <1>3, <2>2, Least
  <2> QED  BY <2>1, <2>3
<1> QED  BY <1>2, <1>3

\* An entry matches exactly the requests it applies to.
LEMMA EntryMatches ==
    ASSUME NEW file, NEW i \in DOMAIN file.entries, NEW n, ConvertEntry(file, i).ok, IsFile(file),
           NEW req, BodyPatternVerdict(file.entries[i].when, req) # "error"
    PROVE  MatchesScenario(Placed(file, i, n), req).res = IF Applies(file, i, req) THEN "yes" ELSE "no"
<1> DEFINE e == file.entries[i]
           s == Placed(file, i, n)
           ruled == /\ RulesMatch(e.when, req) /\ BodyPatternVerdict(e.when, req) = "yes"
                    /\ Accepts(e.when.client, req.client) /\ Accepts(e.when.cidr, req.client)
<1>1. s.rule = e.when /\ ResolveScenarioRouting(file.defaults, e).ok /\ Follows(s, ResolveScenarioRouting(file.defaults, e))
  BY EntryBuilt
<1>2. e.branches \in Seq(ToSet(e.branches))
  <2>1. e \in ToSet(file.entries)  BY DEF ToSet
  <2> QED  BY <2>1 DEF IsFile, IsList
<1>3. Located(s, req) <=> Reached(DeclaredPairs(file.defaults, e), req)  BY <1>1, RoutingDeclared
<1>4. Applies(file, i, req) <=>
          Reached(DeclaredPairs(file.defaults, e), req) /\ ruled /\ (e.branches # <<>> => Chosen(e, req) # {})
  BY DEF Applies, Reached, Chosen
<1>5. (s.branches = <<>> \/ SelectBranch(s, req) > 0) <=> (e.branches # <<>> => Chosen(e, req) # {})
  <2>1. CASE e.branches = <<>>  BY <2>1, EntryBuilt
  <2>2. CASE e.branches # <<>>
    <3>1. s.branches # <<>> /\ DOMAIN s.branches = DOMAIN e.branches
          /\ \A b \in DOMAIN e.branches : s.branches[b].rule = e.branches[b].when
      BY <2>2, EntryBuilt
    <3> HIDE DEF s, e
    <3> QED  BY <1>2, <2>2, <3>1, BranchSelected
  <2> QED  BY <2>1, <2>2
<1> HIDE DEF s, e
<1>6. MatchesScenario(s, req).res =
          IF Located(s, req) /\ ruled /\ (s.branches = <<>> \/ SelectBranch(s, req) > 0) THEN "yes" ELSE "no"
  <2>1. BodyPatternVerdict(s.rule, req) # "error"  BY <1>1 DEF e
  <2> QED  BY <1>1, <2>1, VerdictOn
<1> HIDE DEF ruled
<1> QED  BY <1>3, <1>4, <1>5, <1>6 DEF s

\* What a scenario answers to a request that it matches, and what an entry declares for it.
Given(s, req) == Answer(IF s.branches = <<>> THEN s ELSE s.branches[SelectBranch(s, req)])
Promises(file, i, req) ==
    LET e == file.entries[i]
    IN  DeclaredResponses(IF e.branches = <<>> THEN e ELSE e.branches[Min(Chosen(e, req))], file.defaults)

\* An entry answers as it declares.
LEMMA EntryAnswers ==
    ASSUME NEW file, NEW i \in DOMAIN file.entries, NEW n, ConvertEntry(file, i).ok, IsFile(file), Regular(file),
           NEW req, Applies(file, i, req)
    PROVE  Given(Placed(file, i, n), req) = Promises(file, i, req)
<1> DEFINE e == file.entries[i]
           s == Placed(file, i, n)
           d == file.defaults
<1>1. e \in ToSet(file.entries)  BY DEF ToSet
<1>2. /\ e.branches \in Seq(ToSet(e.branches)) /\ IsList(Value(e.responses, <<>>))
      /\ \A b \in DOMAIN e.branches : IsList(Value(e.branches[b].responses, <<>>))
      /\ \A t \in DOMAIN d.templates : IsList(d.templates[t].variants)
  <2>1. IsList(e.branches) /\ IsList(Value(e.responses, <<>>))  BY <1>1 DEF IsFile
  <2>2. ASSUME NEW b \in DOMAIN e.branches  PROVE IsList(Value(e.branches[b].responses, <<>>))
    <3>1. e.branches[b] \in ToSet(e.branches)  BY DEF ToSet
    <3> QED  BY <1>1, <3>1 DEF IsFile
  <2>3. \A t \in DOMAIN d.templates : IsList(d.templates[t].variants)  BY DEF IsFile
  <2> QED  BY <2>1, <2>2, <2>3 DEF IsList
<1>0. Inherits(e) /\ \A b \in DOMAIN e.branches : Inherits(e.branches[b])
  <2>1. \A branch \in ToSet(e.branches) : Inherits(branch)  BY <1>1 DEF Regular
  <2> QED  BY <1>1, <2>1 DEF Regular, ToSet
<1>3. CASE e.branches = <<>>
  <2>1. s.branches = <<>> /\ ResolveResponse(e, d).ok /\ Answer(s) = Answer(ResolveResponse(e, d))
    BY <1>3, EntryBuilt
  <2>2. Answer(ResolveResponse(e, d)) = DeclaredResponses(e, d)
    <3> HIDE DEF e, d
    <3> QED  BY <1>0, <1>2, <2>1, ResponseDeclared
  <2> QED  BY <1>3, <2>1, <2>2 DEF Given, Promises
<1>4. CASE e.branches # <<>>
  <2>1. /\ s.branches # <<>> /\ DOMAIN s.branches = DOMAIN e.branches
        /\ \A b \in DOMAIN e.branches :
              /\ s.branches[b].rule = e.branches[b].when /\ ResolveResponse(e.branches[b], d).ok
              /\ Answer(s.branches[b]) = Answer(ResolveResponse(e.branches[b], d))
    BY <1>4, EntryBuilt
  <2>2. Chosen(e, req) # {}  BY <1>4 DEF Applies, Chosen
  <2> DEFINE b == Min(Chosen(e, req))
  <2>3. SelectBranch(s, req) = b /\ b \in Chosen(e, req)
    <3> HIDE DEF s, e
    <3> QED  BY <1>2, <2>1, <2>2, BranchSelected
  <2>4. b \in DOMAIN e.branches  BY <2>3 DEF Chosen
  <2> HIDE DEF b, s, e, d
  <2>5. Answer(s.branches[b]) = DeclaredResponses(e.branches[b], d)
    BY <1>0, <1>2, <2>1, <2>4, ResponseDeclared
  <2>6. Given(s, req) = Answer(s.branches[b])  BY <2>1, <2>3 DEF Given
  <2>7. Promises(file, i, req) = DeclaredResponses(e.branches[b], d)
    BY <1>4 DEF Promises, e, b, d
  <2> QED  BY <2>5, <2>6, <2>7 DEF s
<1> QED  BY <1>3, <1>4

-----------------------------------------------------------------------------
(* The first entry wins *)

Named(file) == \E i \in DOMAIN file.entries : file.entries[i].name = DefaultName

\* The scenario behind all entries: the file-wide template or the implicit default.
Behind(file) ==
    [(IF file.defaults.use # None THEN Fallback(file.defaults).scenario ELSE DefaultScenario)
        EXCEPT !.order = Len(file.entries)]

\* Conversion keeps the name.
LEMMA EntryNamed ==
    ASSUME NEW file, NEW i, ConvertEntry(file, i).ok
    PROVE  ConvertEntry(file, i).scenario.name = file.entries[i].name
<1> DEFINE e == file.entries[i]
           p == IF e.priority = 0 THEN BasePriority - (i - 1) ELSE e.priority
           r == ResolveScenarioRouting(file.defaults, e)
           b == BuildBranches(e.branches, file.defaults)
           a == ResolveResponse(e, file.defaults)
<1>1. \/ ConvertEntry(file, i) = Failed
      \/ ConvertEntry(file, i) = Built(e.name, p, r, e.when, b.list, NoResponse)
      \/ ConvertEntry(file, i) = Built(e.name, p, r, e.when, <<>>, a)
  <2> HIDE DEF p, r, b, a
  <2> QED  BY DEF ConvertEntry, p, r, b, a
<1> HIDE DEF p, r, b, a, e
<1>2. ConvertEntry(file, i) # Failed  BY DEF Failed
<1> QED  BY <1>1, <1>2 DEF Built, e

\* The parts of the scenario behind a file-wide template.
LEMMA FallbackBuilt ==
    ASSUME NEW defaults, Fallback(defaults).ok
    PROVE  LET r == ResolveResponse([inline |-> <<>>, use |-> defaults.use, responses |-> {}], defaults)
               s == Fallback(defaults).scenario
           IN  /\ r.ok
               /\ s = [name |-> DefaultName, priority |-> -1, order |-> 0, routes |-> <<>>,
                       methods |-> {}, paths |-> <<>>, rule |-> NoRule, branches |-> <<>>,
                       weights |-> Weights(r.variants), compiles |-> TRUE, resp |-> r.resp, variants |-> r.variants]
<1> DEFINE r == ResolveResponse([inline |-> <<>>, use |-> defaults.use, responses |-> {}], defaults)
           b == Built(DefaultName, -1, [routes |-> <<>>, methods |-> {}, paths |-> <<>>], NoRule, <<>>, r)
<1>1. Fallback(defaults) = IF ~r.ok THEN Failed ELSE b
  <2> HIDE DEF r, b
  <2> QED  BY DEF Fallback, r, b
<1>2. r.ok /\ Fallback(defaults) = b
  <2> HIDE DEF r, b
  <2> QED  BY <1>1 DEF Failed
<1> HIDE DEF r
<1> QED  BY <1>2 DEF Built, r

\* What stands behind all entries matches every request and answers as the defaults say.
LEMMA BehindAnswers ==
    ASSUME NEW file, IsFile(file), file.defaults.use # None => Fallback(file.defaults).ok, NEW req
    PROVE  LET s == Behind(file)
               d == file.defaults
           IN  /\ s.priority = -1 /\ s.order = Len(file.entries) /\ s.branches = <<>>
               /\ MatchesScenario(s, req).res = "yes"
               /\ Answer(s) = IF d.use # None
                              THEN DeclaredResponses([inline |-> <<>>, use |-> d.use, responses |-> {}], d)
                              ELSE {[status |-> 204]}
<1> DEFINE s == Behind(file)
           d == file.defaults
           u == [inline |-> <<>>, use |-> d.use, responses |-> {}]
           r == ResolveResponse(u, d)
<1>1. /\ s.priority = -1 /\ s.order = Len(file.entries) /\ s.branches = <<>>
      /\ s.routes = <<>> /\ s.methods = {} /\ s.paths = <<>> /\ s.rule = NoRule
      /\ d.use # None => r.ok /\ s.resp = r.resp /\ s.variants = r.variants
      /\ d.use = None => s.resp = [fields |-> [status |-> 204], name |-> None] /\ s.variants = <<>>
  <2>1. CASE d.use # None
    <3> DEFINE c == [name |-> DefaultName, priority |-> -1, order |-> 0, routes |-> <<>>,
                     methods |-> {}, paths |-> <<>>, rule |-> NoRule, branches |-> <<>>,
                     weights |-> Weights(r.variants), compiles |-> TRUE, resp |-> r.resp, variants |-> r.variants]
    <3>1. r.ok /\ Fallback(d).scenario = c  BY <2>1, FallbackBuilt
    <3>2. s = [c EXCEPT !.order = Len(file.entries)]
      <4> HIDE DEF c, r, u
      <4> QED  BY <2>1, <3>1 DEF Behind
    <3> HIDE DEF s, r, u, d
    <3> QED  BY <2>1, <3>1, <3>2
  <2>2. CASE d.use = None
    <3>1. s = [DefaultScenario EXCEPT !.order = Len(file.entries)]  BY <2>2 DEF Behind
    <3> HIDE DEF s, r, u, d
    <3> QED  BY <2>2, <3>1 DEF DefaultScenario
  <2> QED  BY <2>1, <2>2
<1> HIDE DEF s, r
<1>2. MatchesScenario(s, req).res = "yes"
  <2>1. /\ NoRule.headers = {} /\ NoRule.httpMethod = {} /\ NoRule.httpHeaders = {} /\ NoRule.httpURL = {}
        /\ NoRule.body = {} /\ NoRule.client = {} /\ NoRule.cidr = {}
    BY DEF NoRule
  <2>2. RulesMatch(s.rule, req) /\ Accepts(s.rule.client, req.client) /\ Accepts(s.rule.cidr, req.client)
    BY <1>1, <2>1 DEF RulesMatch, Accepts
  <2>3. BodyPatternVerdict(s.rule, req) = "yes"  BY <1>1, <2>1 DEF BodyPatternVerdict
  <2>4. Located(s, req)
    <3>1. ~HasRoutes(s)  BY <1>1 DEF HasRoutes
    <3> QED  BY <1>1, <3>1 DEF Located, MethodMatches, EndpointsFor
  <2> QED  BY <1>1, <2>2, <2>3, <2>4, VerdictOn
<1>3. Answer(s) = IF d.use # None THEN DeclaredResponses(u, d) ELSE {[status |-> 204]}
  <2>1. CASE d.use # None
    <3>1. Answer(s) = Answer(r)  BY <1>1, <2>1 DEF Answer
    <3>2. IsList(Value(u.responses, <<>>))
      <4>1. Value(u.responses, <<>>) = <<>>  BY DEF Value
      <4>2. <<>> \in Seq(ToSet(<<>>))  OBVIOUS
      <4> QED  BY <4>1, <4>2 DEF IsList
    <3>3. \A t \in DOMAIN d.templates : IsList(d.templates[t].variants)  BY DEF IsFile
    <3>4. r.ok /\ Inherits(u)  BY <1>1, <2>1 DEF Inherits
    <3>5. Answer(r) = DeclaredResponses(u, d)
      <4> HIDE DEF u, d
      <4> QED  BY <3>2, <3>3, <3>4, ResponseDeclared DEF r
    <3> QED  BY <2>1, <3>1, <3>5
  <2>2. CASE d.use = None
    <3>1. s.variants = <<>> /\ s.resp.fields = [status |-> 204]  BY <1>1, <2>2
    <3> QED  BY <2>2, <3>1 DEF Answer
  <2> QED  BY <2>1, <2>2
<1> QED  BY <1>1, <1>2, <1>3 DEF s

\* What Load makes of a file it accepts: its entries in their order, and one behind them
\* unless an entry is called default.
LEMMA Contents ==
    ASSUME NEW file, IsFile(file), Load(file).ok, file.defaults.use # None => ~Named(file)
    PROVE  /\ \A i \in DOMAIN file.entries : ConvertEntry(file, i).ok
           /\ file.defaults.use # None => Fallback(file.defaults).ok
           /\ Load(file).contents = {Placed(file, i, i - 1) : i \in DOMAIN file.entries}
                                       \cup (IF Named(file) THEN {} ELSE {Behind(file)})
<1> DEFINE n == Len(file.entries)
           q == [i \in DOMAIN file.entries |-> ConvertEntry(file, i)]
           f == Fallback(file.defaults)
           tail == IF file.defaults.use # None THEN <<f>> ELSE <<>>
           all == q \o tail
           conv == ConvertV2ToScenarios(file)
           list == [i \in DOMAIN all |-> all[i].scenario]
<1>1. file.entries \in Seq(ToSet(file.entries)) /\ n \in Nat /\ DOMAIN file.entries = 1..n
  BY DEF IsFile, IsList
<1>2. conv = IF DefaultsValid(file.defaults) /\ \A i \in DOMAIN all : all[i].ok
             THEN [ok |-> TRUE, list |-> list] ELSE Failed
  <2>1. (file.defaults.use # None /\ \A i \in DOMAIN file.entries : file.entries[i].name # DefaultName)
           <=> file.defaults.use # None
    BY DEF Named
  <2> HIDE DEF f
  <2> QED  BY <2>1 DEF ConvertV2ToScenarios, f
<1>3. Load(file) = IF conv.ok /\ FileValid(conv.list) THEN [ok |-> TRUE, contents |-> LoadedContents(conv.list)]
                   ELSE [ok |-> FALSE, contents |-> {}]
  <2> HIDE DEF conv
  <2> QED  BY DEF Load, conv
<1>4. (\A i \in DOMAIN all : all[i].ok) /\ Load(file).contents = LoadedContents(list)
  <2> HIDE DEF conv, all, list
  <2>1. conv.ok /\ Load(file).contents = LoadedContents(conv.list)  BY <1>3
  <2>2. DefaultsValid(file.defaults) /\ (\A i \in DOMAIN all : all[i].ok) /\ conv = [ok |-> TRUE, list |-> list]
    BY <1>2, <2>1 DEF Failed
  <2> QED  BY <2>1, <2>2
<1> DEFINE V == {ConvertEntry(file, i) : i \in 1..n} \cup {f}
<1>5. q \in Seq(V) /\ Len(q) = n /\ tail \in Seq(V) /\ Len(tail) = IF file.defaults.use # None THEN 1 ELSE 0
  <2>1. q \in [1..n -> V]  BY <1>1
  <2>2. tail \in Seq(V) /\ Len(tail) = IF file.defaults.use # None THEN 1 ELSE 0
    <3>1. f \in V  OBVIOUS
    <3> HIDE DEF V, f
    <3>2. <<f>> \in Seq(V) /\ Len(<<f>>) = 1 /\ <<>> \in Seq(V) /\ Len(<<>>) = 0  BY <3>1
    <3> QED  BY <3>2
  <2> HIDE DEF V, tail, q, n
  <2> QED  BY <1>1, <2>1, <2>2
<1>6. /\ DOMAIN all = 1..(n + Len(tail)) /\ Len(all) = n + Len(tail)
      /\ \A i \in 1..n : all[i] = ConvertEntry(file, i)
      /\ file.defaults.use # None => all[n + 1] = f
  <2>1. \A i \in 1..n : q[i] = ConvertEntry(file, i)  BY <1>1
  <2>2. file.defaults.use # None => tail[1] = f  OBVIOUS
  <2> HIDE DEF V, q, tail, n, f
  <2>3. /\ Len(all) = n + Len(tail) /\ DOMAIN all = 1..Len(all)
        /\ \A i \in 1..(n + Len(tail)) : all[i] = IF i <= n THEN q[i] ELSE tail[i - n]
    <3>1. q \in Seq(V) /\ tail \in Seq(V) /\ Len(q) = n /\ n \in Nat  BY <1>1, <1>5
    <3>2. all \in Seq(V) /\ Len(all) = n + Len(tail)  BY <3>1
    <3> QED  BY <3>1, <3>2
  <2>4. \A i \in 1..n : all[i] = q[i]  BY <1>1, <1>5, <2>3
  <2>5. file.defaults.use # None => all[n + 1] = tail[1]
    <3>1. file.defaults.use # None => n + 1 \in 1..(n + Len(tail)) /\ ~(n + 1 <= n) /\ (n + 1) - n = 1  BY <1>1, <1>5
    <3> QED  BY <2>3, <3>1
  <2> QED  BY <2>1, <2>2, <2>3, <2>4, <2>5
<1> HIDE DEF all, q, tail, V, conv, f, n
<1>7. /\ \A i \in DOMAIN file.entries : ConvertEntry(file, i).ok
      /\ file.defaults.use # None => f.ok
  <2>1. 1..n \subseteq DOMAIN all /\ (file.defaults.use # None => n + 1 \in DOMAIN all)  BY <1>1, <1>5, <1>6
  <2> QED  BY <1>1, <1>4, <1>6, <2>1
<1>8. /\ DOMAIN list = 1..(n + Len(tail)) /\ \A i \in 1..n : list[i] = ConvertEntry(file, i).scenario
      /\ file.defaults.use # None => list[n + 1] = f.scenario
  <2>1. 1..n \subseteq DOMAIN all /\ (file.defaults.use # None => n + 1 \in DOMAIN all)  BY <1>1, <1>5, <1>6
  <2> QED  BY <1>6, <2>1
<1>9. ASSUME NEW i \in 1..n  PROVE list[i].name = file.entries[i].name
  <2>1. ConvertEntry(file, i).ok /\ list[i] = ConvertEntry(file, i).scenario  BY <1>1, <1>7, <1>8
  <2> HIDE DEF list
  <2> QED  BY <2>1, EntryNamed
<1>10. file.defaults.use # None => f.scenario.name = DefaultName
  <2> SUFFICES ASSUME file.defaults.use # None  PROVE f.scenario.name = DefaultName  OBVIOUS
  <2> DEFINE r == ResolveResponse([inline |-> <<>>, use |-> file.defaults.use, responses |-> {}], file.defaults)
  <2>1. f.scenario = [name |-> DefaultName, priority |-> -1, order |-> 0, routes |-> <<>>,
                      methods |-> {}, paths |-> <<>>, rule |-> NoRule, branches |-> <<>>,
                      weights |-> Weights(r.variants), compiles |-> TRUE, resp |-> r.resp, variants |-> r.variants]
    BY <1>7, FallbackBuilt DEF f
  <2> QED  BY <2>1
<1>11. list \in Seq(ToSet(list)) /\ Len(list) = n + Len(tail)
  <2>1. list \in [1..(n + Len(tail)) -> ToSet(list)]  BY <1>8 DEF ToSet
  <2>2. n + Len(tail) \in Nat  BY <1>1, <1>5
  <2> HIDE DEF list
  <2> QED  BY <2>1, <2>2, <1>8
<1> HIDE DEF list
<1> DEFINE full == IF \E i \in DOMAIN list : list[i].name = DefaultName THEN list ELSE Append(list, DefaultScenario)
<1>12. LoadedContents(list) = {[full[i] EXCEPT !.order = i - 1] : i \in DOMAIN full}  BY DEF LoadedContents
<1>13. (\E i \in DOMAIN list : list[i].name = DefaultName) <=> (Named(file) \/ file.defaults.use # None)
  <2>1. ASSUME NEW i \in DOMAIN list, list[i].name = DefaultName  PROVE Named(file) \/ file.defaults.use # None
    <3>1. file.defaults.use = None => i \in 1..n  BY <1>1, <1>5, <1>8
    <3> QED  BY <1>1, <1>9, <2>1, <3>1 DEF Named
  <2>2. ASSUME Named(file)  PROVE \E i \in DOMAIN list : list[i].name = DefaultName
    <3>1. PICK i \in 1..n : file.entries[i].name = DefaultName  BY <1>1, <2>2 DEF Named
    <3>2. i \in DOMAIN list  BY <1>1, <1>5, <1>8
    <3> QED  BY <1>9, <3>1, <3>2
  <2>3. ASSUME file.defaults.use # None  PROVE \E i \in DOMAIN list : list[i].name = DefaultName
    <3>1. n + 1 \in DOMAIN list  BY <1>1, <1>5, <1>8, <2>3
    <3> QED  BY <1>8, <1>10, <2>3, <3>1
  <2> QED  BY <2>1, <2>2, <2>3
<1>14. /\ \A i \in 1..n : full[i] = ConvertEntry(file, i).scenario
       /\ DOMAIN full = IF Named(file) THEN 1..n ELSE 1..(n + 1)
       /\ ~Named(file) => full[n + 1] = IF file.defaults.use # None THEN f.scenario ELSE DefaultScenario
  <2>1. CASE Named(file)
    <3>1. full = list  BY <1>13, <2>1
    <3>2. Len(tail) = 0 /\ n + Len(tail) = n  BY <1>1, <1>5, <2>1
    <3> QED  BY <1>8, <2>1, <3>1, <3>2
  <2>2. CASE ~Named(file) /\ file.defaults.use # None
    <3>1. full = list  BY <1>13, <2>2
    <3>2. Len(tail) = 1  BY <1>5, <2>2
    <3> QED  BY <1>8, <2>2, <3>1, <3>2
  <2>3. CASE ~Named(file) /\ file.defaults.use = None
    <3>1. full = Append(list, DefaultScenario) /\ Len(list) = n /\ DOMAIN list = 1..n
      BY <1>1, <1>5, <1>8, <1>11, <1>13, <2>3
    <3>2. /\ \A i \in 1..n : full[i] = list[i]
          /\ DOMAIN full = 1..(n + 1) /\ full[n + 1] = DefaultScenario
      <4> HIDE DEF full
      <4> DEFINE W == ToSet(list) \cup {DefaultScenario}
      <4>1. list \in Seq(W)  BY <1>11
      <4>2. DefaultScenario \in W  OBVIOUS
      <4> HIDE DEF W
      <4> QED  BY <1>1, <3>1, <4>1, <4>2
    <3> QED  BY <1>8, <2>3, <3>2
  <2> QED  BY <2>1, <2>2, <2>3
<1> HIDE DEF full
<1>15. \A i \in 1..n : [full[i] EXCEPT !.order = i - 1] = Placed(file, i, i - 1)  BY <1>14 DEF Placed
<1>16. ~Named(file) => [full[n + 1] EXCEPT !.order = (n + 1) - 1] = Behind(file)
  <2>1. (n + 1) - 1 = n  BY <1>1
  <2>2. Behind(file) = [(IF file.defaults.use # None THEN f.scenario ELSE DefaultScenario) EXCEPT !.order = n]
    BY DEF Behind, f, n
  <2> QED  BY <1>14, <2>1, <2>2
<1>17. {[full[i] EXCEPT !.order = i - 1] : i \in DOMAIN full}
          = {Placed(file, i, i - 1) : i \in DOMAIN file.entries} \cup (IF Named(file) THEN {} ELSE {Behind(file)})
  <2> DEFINE G(i) == [full[i] EXCEPT !.order = i - 1]
             P(i) == Placed(file, i, i - 1)
  <2>1. \A i \in 1..n : G(i) = P(i)  BY <1>15
  <2>2. ~Named(file) => G(n + 1) = Behind(file)  BY <1>16
  <2> HIDE DEF G, P
  <2>3. {G(i) : i \in DOMAIN full} = {P(i) : i \in 1..n} \cup (IF Named(file) THEN {} ELSE {Behind(file)})
    <3>1. CASE Named(file)  BY <1>14, <2>1, <3>1
    <3>2. CASE ~Named(file)
      <4>1. \A i \in 1..(n + 1) : i \in 1..n \/ i = n + 1  BY <1>1
      <4>2. n + 1 \in 1..(n + 1) /\ 1..n \subseteq 1..(n + 1)  BY <1>1
      <4> HIDE DEF n
      <4> QED  BY <1>14, <2>1, <2>2, <3>2, <4>1, <4>2
    <3> QED  BY <3>1, <3>2
  <2> QED  BY <1>1, <2>3 DEF G, P
<1> QED  BY <1>4, <1>7, <1>12, <1>17 DEF f

\* A scenario that outranks all others that match is the one that is found.
LEMMA Winner ==
    ASSUME NEW contents, NEW req, NEW w \in contents, MatchesScenario(w, req).res # "no",
           \A s \in contents : s.priority \in Int /\ s.order \in Int,
           \A s \in contents \ {w} : MatchesScenario(s, req).res # "no" => ScenarioOutranks(w, s)
    PROVE  FirstMatch(contents, req) = w
<1> DEFINE hits == {s \in contents : MatchesScenario(s, req).res # "no"}
           Top(s) == \A t \in hits \ {s} : ScenarioOutranks(s, t)
           c == CHOOSE s \in hits : Top(s)
<1>1. w \in hits /\ Top(w)  OBVIOUS
<1>2. c \in hits /\ Top(c)
  <2> HIDE DEF hits, Top
  <2> QED  BY <1>1
<1>3. FirstMatch(contents, req) = c  BY <1>1 DEF FirstMatch
<1>4. ASSUME c # w  PROVE FALSE
  <2>1. ScenarioOutranks(w, c) /\ ScenarioOutranks(c, w)
    <3> HIDE DEF c
    <3> QED  BY <1>1, <1>2, <1>4
  <2>2. c \in contents  BY <1>2
  <2> HIDE DEF c
  <2> QED  BY <2>1, <2>2 DEF ScenarioOutranks
<1> QED  BY <1>3, <1>4

\* Priorities assigned by position make the first entry that applies the winner, and what is
\* behind all entries the loser, so that the registry answers as the file says.
LEMMA FirstEntryWins ==
    ASSUME NEW file, IsFile(file), Regular(file), Load(file).ok,
           \A i \in DOMAIN file.entries : file.entries[i].priority = 0, NEW req \in Requests
    PROVE  Given(FirstMatch(Load(file).contents, req), req) =
               IF Unanswered(file, req) /\ \A i \in DOMAIN file.entries : file.entries[i].name # DefaultName
               THEN {DefaultScenario.resp.fields} ELSE DeclaredAnswer(file, req)
<1> DEFINE n == Len(file.entries)
           C == Load(file).contents
           P(i) == Placed(file, i, i - 1)
           B == Behind(file)
           H == {i \in DOMAIN file.entries : Applies(file, i, req)}
           last == IF file.defaults.use # None
                   THEN DeclaredResponses([inline |-> <<>>, use |-> file.defaults.use, responses |-> {}], file.defaults)
                   ELSE {NoMatch}
           Silent == \A i \in DOMAIN file.entries : file.entries[i].name # DefaultName
<1>1. n \in Nat /\ DOMAIN file.entries = 1..n /\ n <= BasePriority + 2  BY DEF IsFile, IsList, Regular
<1>2. file.defaults.use # None => ~Named(file)  BY DEF Regular, Named
<1>3. /\ \A i \in DOMAIN file.entries : ConvertEntry(file, i).ok
      /\ file.defaults.use # None => Fallback(file.defaults).ok
      /\ C = {P(i) : i \in DOMAIN file.entries} \cup (IF Named(file) THEN {} ELSE {B})
  BY <1>2, Contents
<1>4. ASSUME NEW i \in 1..n
      PROVE  /\ P(i).order = i - 1 /\ P(i).priority = BasePriority - (i - 1)
             /\ MatchesScenario(P(i), req).res = IF i \in H THEN "yes" ELSE "no"
  <2>1. i \in DOMAIN file.entries /\ ConvertEntry(file, i).ok /\ file.entries[i].priority = 0  BY <1>1, <1>3
  <2>2. P(i).order = i - 1 /\ P(i).priority = BasePriority - (i - 1)  BY <2>1, EntryBuilt
  <2>3. BodyPatternVerdict(file.entries[i].when, req) # "error"  BY <2>1 DEF Regular
  <2>4. MatchesScenario(P(i), req).res = IF Applies(file, i, req) THEN "yes" ELSE "no"
    BY <2>1, <2>3, EntryMatches
  <2> QED  BY <2>1, <2>2, <2>4
<1>5. /\ B.priority = -1 /\ B.order = n /\ B.branches = <<>>
      /\ MatchesScenario(B, req).res = "yes"
      /\ Answer(B) = IF file.defaults.use # None THEN last ELSE {[status |-> 204]}
  BY <1>3, BehindAnswers
<1>6. DeclaredAnswer(file, req) = IF H # {} THEN Promises(file, Min(H), req) ELSE last
  BY DEF DeclaredAnswer, Promises, Chosen
<1>0. /\ Unanswered(file, req) <=> file.defaults.use = None /\ H = {}
      /\ Silent <=> ~Named(file)
      /\ DefaultScenario.resp.fields = [status |-> 204]
  BY DEF Unanswered, Named, DefaultScenario
<1> HIDE DEF P, B, C, n, last, Silent
<1> SUFFICES Given(FirstMatch(C, req), req) =
                 IF Unanswered(file, req) /\ Silent THEN {[status |-> 204]} ELSE DeclaredAnswer(file, req)
  BY <1>0 DEF C, Silent
<1>7. \A s \in C : (\E i \in 1..n : s = P(i)) \/ (s = B /\ ~Named(file))  BY <1>1, <1>3
<1>8. \A s \in C : s.priority \in Int /\ s.order \in Int
  <2>1. \A i \in 1..n : P(i).priority \in Int /\ P(i).order \in Int  BY <1>1, <1>4 DEF BasePriority
  <2>2. B.priority \in Int /\ B.order \in Int  BY <1>1, <1>5
  <2> QED  BY <1>7, <2>1, <2>2
<1>9. CASE H # {}
  <2> DEFINE m == Min(H)
  <2>1. m \in H /\ \A i \in H : m <= i
    <3>1. H \in SUBSET Nat  BY <1>1
    <3> HIDE DEF H
    <3> QED  BY <1>9, <3>1, Least
  <2>2. m \in 1..n /\ Applies(file, m, req) /\ ConvertEntry(file, m).ok  BY <1>1, <1>3, <2>1
  <2> HIDE DEF m, H
  <2>3. P(m) \in C /\ MatchesScenario(P(m), req).res # "no"  BY <1>1, <1>3, <1>4, <2>1, <2>2
  <2>4. ASSUME NEW s \in C \ {P(m)}, MatchesScenario(s, req).res # "no"  PROVE ScenarioOutranks(P(m), s)
    <3>1. P(m).order = m - 1 /\ P(m).priority = BasePriority - (m - 1)  BY <1>4, <2>2
    <3>2. CASE s = B
      BY <1>1, <1>5, <2>2, <3>1, <3>2 DEF ScenarioOutranks, BasePriority
    <3>3. ASSUME NEW i \in 1..n, s = P(i)  PROVE ScenarioOutranks(P(m), s)
      <4>1. i \in H /\ i # m  BY <1>4, <2>4, <3>3
      <4>2. m < i  BY <1>1, <2>1, <2>2, <4>1
      <4>3. P(i).priority = BasePriority - (i - 1)  BY <1>4
      <4> QED  BY <1>1, <2>2, <3>1, <3>3, <4>2, <4>3 DEF ScenarioOutranks, BasePriority
    <3> QED  BY <1>7, <3>2, <3>3
  <2>5. FirstMatch(C, req) = P(m)  BY <1>8, <2>3, <2>4, Winner
  <2>6. Given(P(m), req) = Promises(file, m, req)  BY <1>1, <2>2, EntryAnswers DEF P
  <2> QED  BY <1>0, <1>6, <1>9, <2>5, <2>6 DEF m
<1>10. CASE H = {}
  <2>1. \A i \in 1..n : MatchesScenario(P(i), req).res = "no"  BY <1>4, <1>10
  <2> HIDE DEF H
  <2>2. CASE ~Named(file)
    <3>1. B \in C  BY <1>3, <2>2
    <3>2. \A s \in C \ {B} : MatchesScenario(s, req).res = "no"  BY <1>7, <2>1
    <3>3. FirstMatch(C, req) = B  BY <1>5, <1>8, <3>1, <3>2, Winner
    <3>4. Given(B, req) = IF file.defaults.use # None THEN last ELSE {[status |-> 204]}  BY <1>5 DEF Given
    <3> QED  BY <1>0, <1>6, <1>10, <2>2, <3>3, <3>4
  <2>3. CASE Named(file)
    <3>1. \A s \in C : MatchesScenario(s, req).res = "no"  BY <1>7, <2>1, <2>3
    <3>2. FirstMatch(C, req) = Nobody  BY <3>1 DEF FirstMatch
    <3>3. Nobody.branches = <<>> /\ Nobody.variants = <<>> /\ Nobody.resp.fields = NoMatch
      BY DEF Nobody, DefaultScenario
    <3>4. Given(Nobody, req) = {NoMatch}
      <4>1. Given(Nobody, req) = Answer(Nobody)  BY <3>3 DEF Given
      <4> QED  BY <3>3, <4>1 DEF Answer
    <3>5. last = {NoMatch}  BY <1>2, <2>3 DEF last
    <3> QED  BY <1>0, <1>6, <1>10, <2>3, <3>2, <3>4, <3>5
  <2> QED  BY <2>2, <2>3
<1> QED  BY <1>9, <1>10

\* Whatever reloads overlap, the scenarios in force answer every request as the file they
\* came from says, for every regular file: conversion, inheritance of routing and response
\* fields, priorities by position and the walk of Match together are the documented reading
\* of the file entry by entry; what no entry and no template answers fails, or is a 204 where
\* the implicit default was added.
THEOREM AnswersTheorem == Spec => [](Regular(Revisions[from]) => AnswersFollowTheFile)
<1> DEFINE Accepted == Loaded[from].ok /\ active = Loaded[from].contents /\ from \in 1..Len(Revisions)
<1>1. Accepted => (Regular(Revisions[from]) => AnswersFollowTheFile)
  <2> SUFFICES ASSUME Accepted, Regular(Revisions[from])  PROVE AnswersFollowTheFile  OBVIOUS
  <2> DEFINE file == Revisions[from]
  <2>1. from \in DOMAIN Revisions /\ IsFile(file)
    <3>1. Revisions \in Seq(ToSet(Revisions)) /\ \A x \in ToSet(Revisions) : IsFile(x)
      BY WatcherAssumption DEF WatcherAssumption
    <3>2. from \in DOMAIN Revisions  BY <3>1
    <3>3. file \in ToSet(Revisions)  BY <3>2 DEF ToSet
    <3> QED  BY <3>1, <3>2, <3>3
  <2>2. Load(file).ok /\ active = Load(file).contents
    <3>1. Loaded[from] = Load(file)  BY <2>1 DEF Loaded, Each
    <3> QED  BY <3>1
  <2>3. (\A i \in DOMAIN file.entries : file.entries[i].priority = 0) =>
            \A req \in Requests :
                Given(FirstMatch(active, req), req) =
                    IF Unanswered(file, req) /\ \A i \in DOMAIN file.entries : file.entries[i].name # DefaultName
                    THEN {DefaultScenario.resp.fields} ELSE DeclaredAnswer(file, req)
    <3> HIDE DEF file
    <3> QED  BY <2>1, <2>2, FirstEntryWins DEF file
  <2> HIDE DEF file
  <2> QED  BY <2>3 DEF AnswersFollowTheFile, Given, Answer, file
<1> QED  BY <1>1, RevisionTheorem, PTL
=============================================================================
