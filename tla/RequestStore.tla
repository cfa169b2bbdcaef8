---------------------------- MODULE RequestStore ----------------------------
(***************************************************************************)
(* Recording of requests: StorageMiddleware (internal/middleware) with its *)
(* bounded queue and workers, and FileStorage (internal/storage) with its  *)
(* own queue, one writer, one rotation goroutine, the disk monitor, the    *)
(* maintenance calls (Flush, DeleteRequest(s), Clear) and Close.           *)
(*                                                                         *)
(* A record is one handled request; at[r] says where it is.  The two       *)
(* channels are sets of records: the workers reorder anyway.  Sections     *)
(* under jobsMu, rotationMu or a read lock of mu are single actions; the   *)
(* write lock of mu is a variable, since its holders wait inside.          *)
(***************************************************************************)
EXTENDS Integers, FiniteSets

CONSTANTS
    Records,      \* requests that may be recorded
    Workers,      \* StorageMiddlewareConfig.Workers
    QueueSize,    \* StorageMiddlewareConfig.QueueSize, capacity of m.jobs
    ChanCap,      \* capacity of fs.requestCh
    SignalCap,    \* capacity of fs.rotationSignal
    RotateAfter,  \* config.RotateAfter; 0 switches rotation by count off
    SizeLimited,  \* config.MaxFileSize > 0
    MaxFaults,    \* bound: file operations that fail
    MaxOps        \* bound: maintenance calls

ASSUME StoreAssumption ==
    /\ IsFiniteSet(Records) /\ SizeLimited \in BOOLEAN
    /\ {Workers, QueueSize, ChanCap, SignalCap, RotateAfter, MaxFaults, MaxOps} \subseteq Nat

VARIABLES
    at,          \* per record: where it is
    where,       \* per record on disk: name (counter) of its batch file
    jobsClosed,  \* m.stopped, set together with close(m.jobs)
    shutPc,      \* StorageMiddleware.Shutdown: "idle", "waiting", "returned"
    closed,      \* fs.closed
    mu,          \* holder of the write lock of fs.mu: "free", "flush", "delete", "clear"
    pending,     \* fs.pendingWrites
    ctxDone,     \* fs.ctx cancelled
    chanClosed,  \* close(fs.requestCh) done
    wpc,         \* asyncWriter: "select", "write", "signal", "done", "exited"
    needs,       \* needsRotation of the write in progress
    hpc,         \* rotationHandler: "select", "drain", "rotate", "exited"
    signals,     \* len(fs.rotationSignal)
    f,           \* the batch file state, under rotationMu (see below)
    mpc,         \* maintenance call: "idle", "drain", "signals", "work", "rewrite", "rename",
                 \* "glob", "remove"
    matched,     \* records the delete call is to remove
    scan,        \* delete: records read from the file it rewrites, and that file
    globbed,     \* clear: files still to be removed
    ops,         \* maintenance calls so far
    closePc,     \* Close: "idle", "cancel", "wait", "file", "returned"
    monitor,     \* DiskMonitor goroutine: "running", "stopped", "dead"
    lastErr      \* dynamic type stored in DiskMonitor.lastError: "none", "nil", "error"

mwVars     == <<jobsClosed, shutPc>>
lockVars   == <<closed, mu, pending, ctxDone, chanClosed>>
writerVars == <<wpc, needs>>
rotVars    == <<hpc, signals>>
maintVars  == <<mpc, matched, scan, globbed, ops>>
monVars    == <<monitor, lastErr>>
vars == <<at, where, mwVars, lockVars, writerVars, rotVars, f, maintVars, closePc, monVars>>

In(S) == {r \in Records : at[r] \in S}

\* Ways a record can end: on disk; not taken ("rejected" by a full queue,
\* "stopped" or "refused" after shutdown, "dropped" by a full channel); taken
\* and not stored ("skipped" for its size, its encoding or a full disk,
\* "failed" by an error of its own write, "poisoned" because the batch file had
\* become unusable before, "unlinked" in a file that has no name any more,
\* "clobbered" by the rewrite of its file); or removed on request.
Ended == {"disk", "rejected", "stopped", "refused", "dropped", "skipped", "failed",
          "poisoned", "unlinked", "clobbered", "deleted", "cleared"}
Places == Ended \cup {"new", "job", "worker", "checked", "ch", "writing"}

-----------------------------------------------------------------------------
(* The batch file: fd is currentFile ("nil", "open", or "closed" for a     *)
(* handle that was closed and kept), name and linked say which file it is  *)
(* and whether the directory still has it.  An operation yields the set of *)
(* its outcomes; faults counts the failures still allowed.                 *)

FileNames == 0..(2 * Cardinality(Records) + MaxFaults + 1)

Opened(s) == [s EXCEPT !.fd = "open", !.name = s.counter, !.linked = TRUE,
                       !.count = 0, !.exists = @ \cup {s.counter}]
Faulty(s) == [s EXCEPT !.faults = @ - 1]
Ok(s)  == [ok |-> TRUE, s |-> s]
Err(s) == [ok |-> FALSE, s |-> s]

\* os.OpenFile for the name of the current counter.
OpenFile(s) == {Ok(Opened(s))} \cup (IF s.faults > 0 THEN {Err(Faulty(s))} ELSE {})

\* ensureCurrentFileLocked
ensureCurrentFile(s) == IF s.fd = "nil" THEN OpenFile(s) ELSE {Ok(s)}

\* rotateFileLocked: close, count up, open.  Closing a closed handle is an
\* error; a failed open leaves the closed handle in currentFile.
rotateFileLocked(s) ==
    IF s.fd = "closed" THEN {Err(s)}
    ELSE OpenFile([s EXCEPT !.fd = IF @ = "open" THEN "closed" ELSE @, !.counter = @ + 1])

\* rotateForSizeIfNeededLocked: with a limit on the size, the file may be too
\* full for the record; Stat fails on a closed handle.
rotateForSize(s, empty) ==
    IF ~SizeLimited THEN {Ok(s)}
    ELSE IF s.fd = "closed" THEN {Err(s)}
    ELSE {Ok(s)} \cup (IF empty THEN {} ELSE rotateFileLocked(s))

-----------------------------------------------------------------------------
Init ==
    /\ at = [r \in Records |-> "new"] /\ where = [r \in Records |-> 0]
    /\ jobsClosed = FALSE /\ shutPc = "idle"
    /\ closed = FALSE /\ mu = "free" /\ pending = 0 /\ ctxDone = FALSE /\ chanClosed = FALSE
    /\ wpc = "select" /\ needs = FALSE /\ hpc = "select" /\ signals = 0
    /\ f = [fd |-> "open", name |-> 0, linked |-> TRUE, counter |-> 0, count |-> 0,
            exists |-> {0}, faults |-> MaxFaults]
    /\ mpc = "idle" /\ matched = {} /\ scan = [name |-> 0, read |-> {}] /\ globbed = {}
    /\ ops = 0 /\ closePc = "idle" /\ monitor = "running" /\ lastErr = "none"

-----------------------------------------------------------------------------
(* StorageMiddleware *)

\* trySendJob, called by the handler of a request once it has a response.
trySendJob(r) ==
    /\ at[r] = "new"
    /\ at' = [at EXCEPT ![r] = IF jobsClosed THEN "stopped"
                               ELSE IF Cardinality(In({"job"})) < QueueSize THEN "job"
                               ELSE "rejected"]
    /\ UNCHANGED <<where, mwVars, lockVars, writerVars, rotVars, f, maintVars, closePc, monVars>>

\* Mutant: the workers leave as soon as the middleware is stopped.
WorkerTakesUntilStopped(r) ==
    /\ at[r] = "job" /\ ~jobsClosed /\ Cardinality(In({"worker", "checked"})) < Workers
    /\ at' = [at EXCEPT ![r] = "worker"]
    /\ UNCHANGED <<where, mwVars, lockVars, writerVars, rotVars, f, maintVars, closePc, monVars>>

\* A worker takes the job, also after the channel was closed.
WorkerTakes(r) ==
    /\ at[r] = "job" /\ Cardinality(In({"worker", "checked"})) < Workers
    /\ at' = [at EXCEPT ![r] = "worker"]
    /\ UNCHANGED <<where, mwVars, lockVars, writerVars, rotVars, f, maintVars, closePc, monVars>>

\* SaveRequest, the check of closed without the lock.
SaveRequestCheck(r) ==
    /\ at[r] = "worker"
    /\ at' = [at EXCEPT ![r] = IF closed THEN "refused" ELSE "checked"]
    /\ UNCHANGED <<where, mwVars, lockVars, writerVars, rotVars, f, maintVars, closePc, monVars>>

\* Mutant: a record that does not fit stays counted as pending.
SaveRequestSendLeaks(r) ==
    /\ at[r] = "checked" /\ mu = "free"
    /\ IF closed THEN at' = [at EXCEPT ![r] = "refused"] /\ UNCHANGED pending
       ELSE /\ at' = [at EXCEPT ![r] = IF Cardinality(In({"ch"})) < ChanCap THEN "ch" ELSE "dropped"]
            /\ pending' = pending + 1
    /\ UNCHANGED <<where, mwVars, closed, mu, ctxDone, chanClosed, writerVars, rotVars, f,
                   maintVars, closePc, monVars>>

\* Mutant: the record is sent without the read lock.
SaveRequestSendUnlocked(r) ==
    /\ at[r] = "checked"
    /\ IF closed THEN at' = [at EXCEPT ![r] = "refused"] /\ UNCHANGED pending
       ELSE IF Cardinality(In({"ch"})) < ChanCap
       THEN at' = [at EXCEPT ![r] = "ch"] /\ pending' = pending + 1
       ELSE at' = [at EXCEPT ![r] = "dropped"] /\ UNCHANGED pending
    /\ UNCHANGED <<where, mwVars, closed, mu, ctxDone, chanClosed, writerVars, rotVars, f,
                   maintVars, closePc, monVars>>

\* SaveRequest under the read lock: the second check and the non-blocking send.
SaveRequestSend(r) ==
    /\ at[r] = "checked" /\ mu = "free"
    /\ IF closed THEN at' = [at EXCEPT ![r] = "refused"] /\ UNCHANGED pending
       ELSE IF Cardinality(In({"ch"})) < ChanCap
       THEN at' = [at EXCEPT ![r] = "ch"] /\ pending' = pending + 1
       ELSE at' = [at EXCEPT ![r] = "dropped"] /\ UNCHANGED pending
    /\ UNCHANGED <<where, mwVars, closed, mu, ctxDone, chanClosed, writerVars, rotVars, f,
                   maintVars, closePc, monVars>>

\* Shutdown, which Run defers and therefore calls after the store was closed.
ShutdownBegin ==
    /\ shutPc = "idle" /\ closePc = "returned"
    /\ jobsClosed' = TRUE /\ shutPc' = "waiting"
    /\ UNCHANGED <<at, where, lockVars, writerVars, rotVars, f, maintVars, closePc, monVars>>

\* The workers have left: the closed channel is empty and no job is in hand.
ShutdownReturn ==
    /\ shutPc = "waiting" /\ In({"job", "worker", "checked"}) = {}
    /\ shutPc' = "returned"
    /\ UNCHANGED <<at, where, jobsClosed, lockVars, writerVars, rotVars, f, maintVars, closePc, monVars>>

-----------------------------------------------------------------------------
(* asyncWriter *)

WriterTakes(r) ==
    /\ wpc = "select" /\ at[r] = "ch"
    /\ at' = [at EXCEPT ![r] = "writing"] /\ wpc' = "write"
    /\ UNCHANGED <<where, mwVars, lockVars, needs, rotVars, f, maintVars, closePc, monVars>>

\* Mutant: the writer leaves without draining the channel.
WriterExitsAtOnce ==
    /\ wpc = "select" /\ ctxDone
    /\ wpc' = "exited"
    /\ UNCHANGED <<at, where, mwVars, lockVars, needs, rotVars, f, maintVars, closePc, monVars>>

\* The context is cancelled and what was queued is written.
WriterExits ==
    /\ wpc = "select" /\ ctxDone /\ In({"ch"}) = {}
    /\ wpc' = "exited"
    /\ UNCHANGED <<at, where, mwVars, lockVars, needs, rotVars, f, maintVars, closePc, monVars>>

\* Not encodable, larger than a whole batch file, or no space on the disk.
WriterSkips(r) ==
    /\ wpc = "write" /\ at[r] = "writing"
    /\ at' = [at EXCEPT ![r] = "skipped"] /\ wpc' = "done"
    /\ UNCHANGED <<where, mwVars, lockVars, needs, rotVars, f, maintVars, closePc, monVars>>

\* How the record ends that could not be written to s.
Unwritten(s) == IF s.fd = "closed" /\ s.faults = f.faults THEN "poisoned" ELSE "failed"

\* writeEncodedRequestLocked, under rotationMu.
WriterWrites(r) ==
    /\ wpc = "write" /\ at[r] = "writing"
    /\ \E a \in ensureCurrentFile(f) :
       \E b \in (IF a.ok THEN rotateForSize(a.s, \A q \in In({"disk", "unlinked"}) : where[q] # a.s.name)
                         ELSE {a}) :
        \/ /\ b.ok /\ b.s.fd = "open"
           /\ f' = [b.s EXCEPT !.count = @ + 1]
           /\ at' = [at EXCEPT ![r] = IF b.s.linked THEN "disk" ELSE "unlinked"]
           /\ where' = [where EXCEPT ![r] = b.s.name]
           /\ needs' = (RotateAfter > 0 /\ f'.count >= RotateAfter)
           /\ wpc' = "signal"
        \/ /\ \/ b.ok /\ b.s.fd = "closed" /\ f' = b.s
              \/ b.ok /\ b.s.fd = "open" /\ b.s.faults > 0 /\ f' = Faulty(b.s)
              \/ ~b.ok /\ f' = b.s
           /\ at' = [at EXCEPT ![r] = Unwritten(f')]
           /\ wpc' = "done"
           /\ UNCHANGED <<where, needs>>
    /\ UNCHANGED <<mwVars, lockVars, rotVars, maintVars, closePc, monVars>>

\* Mutant: the signal is sent whether or not the channel has room.
WriterSignalsAlways ==
    /\ wpc = "signal"
    /\ signals' = IF needs THEN signals + 1 ELSE signals
    /\ needs' = FALSE /\ wpc' = "done"
    /\ UNCHANGED <<at, where, mwVars, lockVars, hpc, f, maintVars, closePc, monVars>>

\* signalRotationIfNeeded: a full signal channel only delays the rotation.
WriterSignals ==
    /\ wpc = "signal"
    /\ signals' = IF needs /\ signals < SignalCap THEN signals + 1 ELSE signals
    /\ needs' = FALSE /\ wpc' = "done"
    /\ UNCHANGED <<at, where, mwVars, lockVars, hpc, f, maintVars, closePc, monVars>>

WriterDone ==
    /\ wpc = "done"
    /\ pending' = pending - 1 /\ wpc' = "select"
    /\ UNCHANGED <<at, where, mwVars, closed, mu, ctxDone, chanClosed, needs, rotVars, f,
                   maintVars, closePc, monVars>>

-----------------------------------------------------------------------------
(* rotationHandler *)

RotationTakes ==
    /\ hpc = "select" /\ signals > 0
    /\ signals' = signals - 1 /\ hpc' = "drain"
    /\ UNCHANGED <<at, where, mwVars, lockVars, writerVars, f, maintVars, closePc, monVars>>

RotationDrains ==
    /\ hpc = "drain"
    /\ IF signals > 0 THEN signals' = signals - 1 /\ UNCHANGED hpc
                      ELSE hpc' = "rotate" /\ UNCHANGED signals
    /\ UNCHANGED <<at, where, mwVars, lockVars, writerVars, f, maintVars, closePc, monVars>>

RotationRotates ==
    /\ hpc = "rotate"
    /\ \E o \in rotateFileLocked(f) : f' = o.s
    /\ hpc' = "select"
    /\ UNCHANGED <<at, where, mwVars, lockVars, writerVars, signals, maintVars, closePc, monVars>>

RotationExits ==
    /\ hpc = "select" /\ ctxDone
    /\ hpc' = "exited"
    /\ UNCHANGED <<at, where, mwVars, lockVars, writerVars, signals, f, maintVars, closePc, monVars>>

-----------------------------------------------------------------------------
(* Flush, DeleteRequest, DeleteRequests and Clear, under the write lock *)

maintKeeps == <<mwVars, closed, pending, ctxDone, chanClosed, writerVars, hpc, closePc, monVars>>

MaintStart(op) ==
    /\ mpc = "idle" /\ mu = "free" /\ ~closed /\ ops < MaxOps
    /\ mu' = op /\ mpc' = "drain" /\ ops' = ops + 1
    /\ IF op = "delete" THEN matched' \in (SUBSET Records) \ {{}} ELSE UNCHANGED matched
    /\ UNCHANGED <<at, where, signals, f, scan, globbed, maintKeeps>>

\* The context of the call ends before all writes are done.
MaintGivesUp ==
    /\ mpc = "drain" /\ pending > 0
    /\ mu' = "free" /\ mpc' = "idle" /\ matched' = {}
    /\ UNCHANGED <<at, where, signals, f, scan, globbed, ops, maintKeeps>>

\* drainPendingWrites saw zero.  Flush syncs the file and is done.
MaintDrained ==
    /\ mpc = "drain" /\ pending = 0
    /\ IF mu = "flush" THEN mu' = "free" /\ mpc' = "idle" ELSE mpc' = "signals" /\ UNCHANGED mu
    /\ UNCHANGED <<at, where, signals, f, matched, scan, globbed, ops, maintKeeps>>

\* drainRotationSignals
MaintDropsSignals ==
    /\ mpc = "signals"
    /\ signals' = 0 /\ mpc' = "work"
    /\ UNCHANGED <<at, where, mu, f, matched, scan, globbed, ops, maintKeeps>>

\* A batch file with matching records has been read.
DeleteScans(g) ==
    /\ mpc = "work" /\ mu = "delete" /\ g \in f.exists
    /\ \E r \in matched : at[r] = "disk" /\ where[r] = g
    /\ scan' = [name |-> g, read |-> {r \in In({"disk"}) : where[r] = g}]
    /\ mpc' = "rewrite"
    /\ UNCHANGED <<at, where, mu, signals, f, matched, globbed, ops, maintKeeps>>

\* rewriteBatchFile: the current file is closed first if it is the one.  Stat
\* finds its name, but not that of a closed handle.
RewriteCloses ==
    /\ mpc = "rewrite"
    /\ f' = IF f.fd = "open" /\ f.name = scan.name THEN [f EXCEPT !.fd = "nil"] ELSE f
    /\ mpc' = "rename"
    /\ UNCHANGED <<at, where, mu, signals, matched, scan, globbed, ops, maintKeeps>>

\* The file with the remaining records replaces the old one; a record that had
\* come into the old one since it was read would be lost.
RewriteRenames ==
    /\ mpc = "rename"
    /\ at' = [r \in Records |->
                IF at[r] # "disk" \/ where[r] # scan.name THEN at[r]
                ELSE IF r \notin scan.read THEN "clobbered"
                ELSE IF r \in matched THEN "deleted" ELSE "disk"]
    /\ f' = IF f.fd = "open" /\ f.name = scan.name THEN [f EXCEPT !.linked = FALSE] ELSE f
    /\ mpc' = "work"
    /\ UNCHANGED <<where, mu, signals, matched, scan, globbed, ops, maintKeeps>>

\* The temporary file cannot be written or renamed: DeleteRequest returns the
\* error, DeleteRequests goes on with other files; this one stays as it was.
RewriteFails ==
    /\ mpc = "rename" /\ f.faults > 0
    /\ f' = Faulty(f)
    /\ matched' = matched \ scan.read /\ mpc' = "work"
    /\ UNCHANGED <<at, where, mu, signals, scan, globbed, ops, maintKeeps>>

DeleteReturns ==
    /\ mpc = "work" /\ mu = "delete"
    /\ \A r \in matched : at[r] # "disk" \/ where[r] \notin f.exists
    /\ mu' = "free" /\ mpc' = "idle" /\ matched' = {}
    /\ UNCHANGED <<at, where, signals, f, scan, globbed, ops, maintKeeps>>

\* Clear closes the current file, under rotationMu.
ClearCloses ==
    /\ mpc = "work" /\ mu = "clear"
    /\ f' = IF f.fd = "nil" THEN f ELSE [f EXCEPT !.fd = "nil", !.count = 0]
    /\ mpc' = "glob"
    /\ UNCHANGED <<at, where, mu, signals, matched, scan, globbed, ops, maintKeeps>>

ClearGlobs ==
    /\ mpc = "glob"
    /\ globbed' = f.exists /\ mpc' = "remove"
    /\ UNCHANGED <<at, where, mu, signals, f, matched, scan, ops, maintKeeps>>

\* os.Remove of one file; an open handle on it stays usable.
ClearRemoves(g) ==
    /\ mpc = "remove" /\ g \in globbed
    /\ globbed' = globbed \ {g}
    /\ at' = [r \in Records |-> IF at[r] = "disk" /\ where[r] = g THEN "cleared" ELSE at[r]]
    /\ f' = [f EXCEPT !.exists = @ \ {g},
                      !.linked = @ /\ ~(f.fd = "open" /\ f.name = g)]
    /\ UNCHANGED <<where, mu, signals, mpc, matched, scan, ops, maintKeeps>>

\* A file cannot be removed: Clear returns the error and keeps the counter.
ClearFails ==
    /\ mpc = "remove" /\ globbed # {} /\ f.faults > 0
    /\ f' = Faulty(f)
    /\ globbed' = {} /\ mu' = "free" /\ mpc' = "idle"
    /\ UNCHANGED <<at, where, signals, matched, scan, ops, maintKeeps>>

\* All files are gone: the counter starts again (without rotationMu).
ClearReturns ==
    /\ mpc = "remove" /\ globbed = {}
    /\ f' = [f EXCEPT !.counter = 0]
    /\ mu' = "free" /\ mpc' = "idle"
    /\ UNCHANGED <<at, where, signals, matched, scan, globbed, ops, maintKeeps>>

-----------------------------------------------------------------------------
(* FileStorage.Close *)

CloseClaims ==
    /\ closePc = "idle" /\ mu = "free"
    /\ closed' = TRUE /\ closePc' = "cancel"
    /\ UNCHANGED <<at, where, mwVars, mu, pending, ctxDone, chanClosed, writerVars, rotVars, f,
                   maintVars, monVars>>

\* Mutant: Close waits for goroutines it has not told to end.
CloseForgetsCancel ==
    /\ closePc = "cancel" /\ closePc' = "wait"
    /\ UNCHANGED <<at, where, mwVars, lockVars, writerVars, rotVars, f, maintVars, monVars>>

CloseCancels ==
    /\ closePc = "cancel"
    /\ ctxDone' = TRUE /\ closePc' = "wait"
    /\ UNCHANGED <<at, where, mwVars, closed, mu, pending, chanClosed, writerVars, rotVars, f,
                   maintVars, monVars>>

\* fs.wg.Wait and close(fs.requestCh)
CloseWaits ==
    /\ closePc = "wait" /\ wpc = "exited" /\ hpc = "exited"
    /\ chanClosed' = TRUE /\ closePc' = "file"
    /\ UNCHANGED <<at, where, mwVars, closed, mu, pending, ctxDone, writerVars, rotVars, f,
                   maintVars, monVars>>

\* The disk monitor is stopped and the current file closed; for a handle that
\* is closed already Close returns the error.
CloseFile ==
    /\ closePc = "file"
    /\ monitor' = IF monitor = "running" THEN "stopped" ELSE monitor
    /\ f' = IF f.fd = "open" THEN [f EXCEPT !.fd = "nil"] ELSE f
    /\ closePc' = "returned"
    /\ UNCHANGED <<at, where, mwVars, lockVars, writerVars, rotVars, maintVars, lastErr>>

-----------------------------------------------------------------------------
(* DiskMonitor.checkDiskSpace stores an error value or a nil *error in an  *)
(* atomic.Value, which panics when the dynamic type changes; monitorLoop   *)
(* recovers and ends.                                                      *)
MonitorChecks(result) ==
    /\ monitor = "running"
    /\ IF lastErr \in {"none", result} THEN lastErr' = result /\ UNCHANGED monitor
                                       ELSE monitor' = "dead" /\ UNCHANGED lastErr
    /\ UNCHANGED <<at, where, mwVars, lockVars, writerVars, rotVars, f, maintVars, closePc>>

-----------------------------------------------------------------------------
WorkerStep(r) == WorkerTakes(r) \/ SaveRequestCheck(r) \/ SaveRequestSend(r)
WriterStep == WriterExits \/ WriterSignals \/ WriterDone
                \/ \E r \in Records : WriterTakes(r) \/ WriterSkips(r) \/ WriterWrites(r)
RotationStep == RotationTakes \/ RotationDrains \/ RotationRotates \/ RotationExits
MaintStep == MaintGivesUp \/ MaintDrained \/ MaintDropsSignals \/ RewriteCloses
                \/ RewriteRenames \/ RewriteFails \/ DeleteReturns
                \/ ClearCloses \/ ClearGlobs \/ ClearFails \/ ClearReturns
                \/ \E g \in FileNames : DeleteScans(g) \/ ClearRemoves(g)
CloseStep == CloseCancels \/ CloseWaits \/ CloseFile \/ ShutdownReturn

Next ==
    \/ \E r \in Records : trySendJob(r) \/ WorkerStep(r)
    \/ WriterStep \/ RotationStep \/ MaintStep \/ CloseStep
    \/ \E op \in {"flush", "delete", "clear"} : MaintStart(op)
    \/ CloseClaims \/ ShutdownBegin
    \/ \E result \in {"nil", "error"} : MonitorChecks(result)

Spec == Init /\ [][Next]_vars

(* Goroutines that can run do run, a lock that becomes free is acquired    *)
(* sooner or later, and every maintenance call has a context that ends.    *)
Fairness ==
    /\ \A r \in Records : WF_vars(WorkerTakes(r)) /\ WF_vars(SaveRequestCheck(r))
                            /\ SF_vars(SaveRequestSend(r))
    /\ WF_vars(WriterStep) /\ WF_vars(RotationStep) /\ WF_vars(MaintStep) /\ WF_vars(CloseStep)

FairSpec == Spec /\ Fairness

-----------------------------------------------------------------------------
(* Properties *)

TypeOK ==
    /\ at \in [Records -> Places] /\ where \in [Records -> FileNames]
    /\ jobsClosed \in BOOLEAN /\ shutPc \in {"idle", "waiting", "returned"}
    /\ closed \in BOOLEAN /\ mu \in {"free", "flush", "delete", "clear"}
    /\ pending \in Nat /\ ctxDone \in BOOLEAN /\ chanClosed \in BOOLEAN
    /\ wpc \in {"select", "write", "signal", "done", "exited"} /\ needs \in BOOLEAN
    /\ hpc \in {"select", "drain", "rotate", "exited"} /\ signals \in 0..SignalCap
    /\ f \in [fd : {"nil", "open", "closed"}, name : FileNames, linked : BOOLEAN,
              counter : FileNames, count : Nat, exists : SUBSET FileNames, faults : 0..MaxFaults]
    /\ mpc \in {"idle", "drain", "signals", "work", "rewrite", "rename", "glob", "remove"}
    /\ matched \in SUBSET Records /\ globbed \in SUBSET FileNames
    /\ scan \in [name : FileNames, read : SUBSET Records] /\ ops \in 0..MaxOps
    /\ closePc \in {"idle", "cancel", "wait", "file", "returned"}
    /\ monitor \in {"running", "stopped", "dead"} /\ lastErr \in {"none", "nil", "error"}

\* pendingWrites counts the records that are queued or being written: Flush,
\* Delete and Clear, which wait for zero, neither hang nor go ahead too early.
PendingIsExact ==
    pending = Cardinality(In({"ch"})) + (IF wpc \in {"write", "signal", "done"} THEN 1 ELSE 0)

\* Once a maintenance call has seen no pending write nothing is written until
\* it lets go of the lock, and no new record enters the channel.
MaintenanceIsQuiet ==
    mpc \notin {"idle", "drain"} => wpc = "select" /\ In({"ch", "writing"}) = {}

\* Deleting rewrites a whole batch file and loses no record it was not asked
\* to delete, although the rotation goroutine runs beside it, because nothing
\* is written meanwhile.
DeleteLosesNothing == MaintenanceIsQuiet /\ In({"clobbered"}) = {}

\* Close loses nothing that SaveRequest has accepted: when the channel is
\* closed it is empty, the writer is gone, and nothing can be sent any more.
CloseDrainsQueue ==
    chanClosed => wpc = "exited" /\ pending = 0 /\ In({"ch", "writing"}) = {}

\* A record that entered the queue of the middleware is dealt with, whatever
\* maintenance, Close and Shutdown happen meanwhile.
QueuedRecordsEnd == \A r \in Records : at[r] = "job" ~> at[r] \in Ended

\* Close returns, and so does Shutdown after it.
ShutdownCompletes == (closed ~> closePc = "returned") /\ (jobsClosed ~> shutPc = "returned")

\* filesystem.go on rotateFile: "CRIT-008: Atomic rotation to prevent data
\* loss."  A record written without an error of its own is in a batch file
\* that the directory has.
RotationLosesNothing == In({"unlinked", "poisoned"}) = {}
=============================================================================
