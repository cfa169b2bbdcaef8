------------------------ MODULE RequestStore_proofs ------------------------
(***************************************************************************)
(* Proofs about RequestStore for any set of records, any queue sizes and   *)
(* any number of workers, failing file operations and maintenance calls.   *)
(* The checked invariants rest on three arguments: whoever holds the write *)
(* lock of mu keeps new records out of the channel, at most one record is  *)
(* in the hands of the writer and pendingWrites counts it, and every       *)
(* rotation of the batch file is paid for by a record that was written.    *)
(***************************************************************************)
EXTENDS RequestStore, FiniteSetTheorems, TLAPS

-----------------------------------------------------------------------------
(* The inductive invariant *)

FileStates == [fd : {"nil", "open", "closed"}, name : FileNames, linked : BOOLEAN,
               counter : FileNames, count : Nat, exists : SUBSET FileNames, faults : 0..MaxFaults]

\* A maintenance call runs exactly while the write lock is taken, which keeps
\* Close out.
Locking ==
    /\ mpc = "idle" <=> mu = "free"
    /\ closed => mpc = "idle"
    /\ closePc = "idle" => ~closed
    /\ closePc # "idle" => closed
    /\ ctxDone => closed

\* The writer has left only when nothing can be queued any more.
WriterLeft ==
    /\ wpc = "exited" => ctxDone /\ In({"ch"}) = {}
    /\ chanClosed => wpc = "exited"

\* The writer has at most one record in hand, and only between taking and writing it.
InHand ==
    /\ \A r \in Records : at[r] = "writing" => wpc = "write"
    /\ \A r, q \in Records : at[r] = "writing" /\ at[q] = "writing" => r = q
    /\ needs => wpc = "signal"

\* What a delete has read is what the file still holds when it is replaced.
ScanIsFresh ==
    mpc \in {"rewrite", "rename"} => scan.read = {r \in In({"disk"}) : where[r] = scan.name}

NotClobbered == In({"clobbered"}) = {}

\* Records the writer is done with.
Written == {"disk", "skipped", "failed", "poisoned", "unlinked", "clobbered", "deleted", "cleared"}

\* Rotations asked for and not yet made.
Due == signals + (IF hpc \in {"drain", "rotate"} THEN 1 ELSE 0) + (IF needs THEN 1 ELSE 0)

\* A record causes at most two rotations: one for its size before it is
\* written, one by count after it.
RotationsPaid == f.counter + Due <= 2 * Cardinality(In(Written))

IndInv == /\ TypeOK /\ Locking /\ WriterLeft /\ InHand /\ PendingIsExact
          /\ MaintenanceIsQuiet /\ ScanIsFresh /\ NotClobbered /\ RotationsPaid

-----------------------------------------------------------------------------
(* Where records are, and how many *)

\* The records in given places form a finite set.
LEMMA InFinite ==
    ASSUME NEW S
    PROVE  /\ IsFiniteSet(In(S)) /\ Cardinality(In(S)) \in Nat
           /\ Cardinality(In(S)) <= Cardinality(Records) /\ Cardinality(Records) \in Nat
<1>1. In(S) \subseteq Records  BY DEF In
<1> QED  BY <1>1, StoreAssumption, FS_Subset, FS_CardinalityType DEF StoreAssumption

\* A record that enters the places S is one more there.
LEMMA InMoveIn ==
    ASSUME NEW r \in Records, NEW v, NEW S, at \in [Records -> Places],
           at' = [at EXCEPT ![r] = v], at[r] \notin S, v \in S
    PROVE  In(S)' = In(S) \cup {r} /\ Cardinality(In(S)') = Cardinality(In(S)) + 1
<1>1. In(S)' = In(S) \cup {r}  BY DEF In
<1>2. r \notin In(S)  BY DEF In
<1> QED  BY <1>1, <1>2, InFinite, FS_AddElement

\* A record that leaves the places S is one less there.
LEMMA InMoveOut ==
    ASSUME NEW r \in Records, NEW v, NEW S, at \in [Records -> Places],
           at' = [at EXCEPT ![r] = v], at[r] \in S, v \notin S
    PROVE  In(S)' = In(S) \ {r} /\ Cardinality(In(S)') = Cardinality(In(S)) - 1
<1>1. In(S)' = In(S) \ {r}  BY DEF In
<1>2. r \in In(S)  BY DEF In
<1> QED  BY <1>1, <1>2, InFinite, FS_RemoveElement

\* A record that moves inside or outside of S leaves In(S) alone.
LEMMA InStays ==
    ASSUME NEW r \in Records, NEW v, NEW S, at \in [Records -> Places],
           at' = [at EXCEPT ![r] = v], at[r] \in S <=> v \in S
    PROVE  In(S)' = In(S)
BY DEF In

\* A file that is rewritten or removed changes records that are on disk only.
LEMMA InFilesChange ==
    ASSUME NEW S, at \in [Records -> Places], RewriteRenames \/ \E g \in FileNames : ClearRemoves(g),
           "disk" \in S <=> "deleted" \in S, "disk" \in S <=> "clobbered" \in S,
           "disk" \in S <=> "cleared" \in S
    PROVE  In(S)' = In(S)
<1>1. ASSUME NEW r \in Records  PROVE at'[r] \in S <=> at[r] \in S
  BY DEF RewriteRenames, ClearRemoves
<1> QED  BY <1>1 DEF In

-----------------------------------------------------------------------------
(* What the operations on the batch file yield *)

\* Opening a file gives it the name of the counter.
LEMMA OpenFileYields ==
    ASSUME NEW s \in FileStates, NEW o \in OpenFile(s)
    PROVE  o.s \in FileStates /\ o.s.counter = s.counter /\ o.ok \in BOOLEAN
<1>1. CASE o = Ok(Opened(s))  BY <1>1 DEF Ok, Opened, FileStates
<1>2. CASE s.faults > 0 /\ o = Err(Faulty(s))
  <2>1. s.faults - 1 \in 0..MaxFaults  BY <1>2, StoreAssumption DEF FileStates, StoreAssumption
  <2> QED  BY <1>2, <2>1 DEF Err, Faulty, FileStates
<1> QED  BY <1>1, <1>2 DEF OpenFile

\* A rotation counts up by at most one.
LEMMA RotateYields ==
    ASSUME NEW s \in FileStates, s.counter + 1 \in FileNames, NEW o \in rotateFileLocked(s)
    PROVE  o.s \in FileStates /\ o.s.counter \in {s.counter, s.counter + 1} /\ o.ok \in BOOLEAN
<1>1. CASE s.fd = "closed"
  <2>1. o = Err(s)  BY <1>1 DEF rotateFileLocked
  <2>2. o.s = s /\ o.ok = FALSE  BY <2>1 DEF Err
  <2> QED  BY <2>2
<1>2. CASE s.fd # "closed"
  <2> DEFINE t == [s EXCEPT !.fd = IF @ = "open" THEN "closed" ELSE @, !.counter = @ + 1]
  <2>1. t \in FileStates /\ t.counter = s.counter + 1  BY DEF FileStates
  <2>2. o \in OpenFile(t)  BY <1>2 DEF rotateFileLocked
  <2> HIDE DEF t
  <2> QED  BY <2>1, <2>2, OpenFileYields
<1> QED  BY <1>1, <1>2

\* Before a record is written the counter goes up by at most one.
LEMMA PrepareYields ==
    ASSUME NEW s \in FileStates, s.counter + 1 \in FileNames, NEW e \in BOOLEAN,
           NEW a \in ensureCurrentFile(s), NEW b \in (IF a.ok THEN rotateForSize(a.s, e) ELSE {a})
    PROVE  b.s \in FileStates /\ b.s.counter \in {s.counter, s.counter + 1} /\ b.ok \in BOOLEAN
<1>1. a.s \in FileStates /\ a.s.counter = s.counter /\ a.ok \in BOOLEAN
  <2>1. CASE a \in OpenFile(s)  BY <2>1, OpenFileYields
  <2>2. CASE a = Ok(s)
    <3>1. a.s = s /\ a.ok = TRUE  BY <2>2 DEF Ok
    <3> QED  BY <3>1
  <2> QED  BY <2>1, <2>2 DEF ensureCurrentFile
<1>2. CASE b = a  BY <1>1, <1>2
<1>3. CASE a.ok /\ (b = Ok(a.s) \/ b = Err(a.s))
  <2>1. b.s = a.s  BY <1>3 DEF Ok, Err
  <2>2. b.ok = TRUE \/ b.ok = FALSE  BY <1>3 DEF Ok, Err
  <2> QED  BY <1>1, <2>1, <2>2
<1>4. CASE b \in rotateFileLocked(a.s)  BY <1>1, <1>4, RotateYields
<1> QED  BY <1>2, <1>3, <1>4 DEF rotateForSize

\* The record that is written goes to a file or is lost.
LEMMA WriteMoves ==
    ASSUME NEW r \in Records, WriterWrites(r)
    PROVE  /\ wpc = "write" /\ at[r] = "writing"
           /\ \E v \in {"disk", "unlinked", "failed", "poisoned"} : at' = [at EXCEPT ![r] = v]
           /\ \/ wpc' = "signal"
              \/ wpc' = "done" /\ needs' = needs /\ where' = where
           /\ UNCHANGED <<mwVars, lockVars, rotVars, maintVars, closePc, monVars>>
BY DEF WriterWrites, Unwritten

\* The batch file after a write: at most one rotation, by size.
LEMMA WriteYields ==
    ASSUME f \in FileStates, where \in [Records -> FileNames], needs \in BOOLEAN,
           f.counter + 1 \in FileNames, NEW r \in Records, WriterWrites(r)
    PROVE  /\ f' \in FileStates /\ f'.counter \in {f.counter, f.counter + 1}
           /\ where' \in [Records -> FileNames] /\ needs' \in BOOLEAN
<1> DEFINE empty(a) == \A q \in In({"disk", "unlinked"}) : where[q] # a.s.name
<1>0. PICK a \in ensureCurrentFile(f) :
        \E b \in (IF a.ok THEN rotateForSize(a.s, empty(a)) ELSE {a}) :
        \/ /\ b.ok /\ f' = [b.s EXCEPT !.count = @ + 1]
           /\ where' = [where EXCEPT ![r] = b.s.name]
           /\ needs' = (RotateAfter > 0 /\ f'.count >= RotateAfter)
        \/ /\ f' = b.s \/ (b.s.faults > 0 /\ f' = Faulty(b.s))
           /\ UNCHANGED <<where, needs>>
  BY DEF WriterWrites
<1>1. PICK b \in (IF a.ok THEN rotateForSize(a.s, empty(a)) ELSE {a}) :
        \/ /\ b.ok /\ f' = [b.s EXCEPT !.count = @ + 1]
           /\ where' = [where EXCEPT ![r] = b.s.name]
           /\ needs' = (RotateAfter > 0 /\ f'.count >= RotateAfter)
        \/ /\ f' = b.s \/ (b.s.faults > 0 /\ f' = Faulty(b.s))
           /\ UNCHANGED <<where, needs>>
  BY <1>0
<1>2. empty(a) \in BOOLEAN  OBVIOUS
<1> HIDE DEF empty
<1>3. b.s \in FileStates /\ b.s.counter \in {f.counter, f.counter + 1}
  BY <1>2, PrepareYields
<1>4. CASE /\ f' = [b.s EXCEPT !.count = @ + 1] /\ where' = [where EXCEPT ![r] = b.s.name]
           /\ needs' = (RotateAfter > 0 /\ f'.count >= RotateAfter)
  <2>1. f' \in FileStates /\ f'.counter = b.s.counter  BY <1>3, <1>4 DEF FileStates
  <2>2. where' \in [Records -> FileNames]  BY <1>3, <1>4 DEF FileStates
  <2>3. needs' \in BOOLEAN  BY <1>4
  <2> QED  BY <1>3, <2>1, <2>2, <2>3
<1>5. CASE f' = b.s /\ UNCHANGED <<where, needs>>  BY <1>3, <1>5
<1>6. CASE b.s.faults > 0 /\ f' = Faulty(b.s) /\ UNCHANGED <<where, needs>>
  <2>1. b.s.faults - 1 \in 0..MaxFaults
    BY <1>3, <1>6, StoreAssumption DEF FileStates, StoreAssumption
  <2>2. f' \in FileStates /\ f'.counter = b.s.counter
    BY <1>3, <1>6, <2>1 DEF Faulty, FileStates
  <2> QED  BY <1>3, <1>6, <2>2
<1> QED  BY <1>1, <1>4, <1>5, <1>6

\* The counter is a natural number.
LEMMA CounterIsNatural == TypeOK => f.counter \in Nat
BY DEF TypeOK, FileNames

\* After a step there are no more records in S than records.
LEMMA InFinitePrime ==
    ASSUME NEW S
    PROVE  Cardinality(In(S)') <= Cardinality(Records)
<1>1. In(S)' \subseteq Records  BY DEF In
<1> QED  BY <1>1, StoreAssumption, FS_Subset DEF StoreAssumption

\* There is a first file name.
LEMMA ZeroIsAName == 0 \in FileNames
<1>1. Cardinality(Records) \in Nat /\ MaxFaults \in Nat
  BY StoreAssumption, FS_CardinalityType DEF StoreAssumption
<1> QED  BY <1>1 DEF FileNames

\* As long as a record can still pay for it there is a name for another file.
LEMMA RoomToRotate ==
    ASSUME TypeOK, RotationsPaid, f.counter + 1 <= 2 * Cardinality(Records)
    PROVE  f.counter + 1 \in FileNames
<1>1. Cardinality(Records) \in Nat /\ MaxFaults \in Nat
  BY InFinite, StoreAssumption DEF StoreAssumption
<1> QED  BY <1>1, CounterIsNatural DEF FileNames

\* The record that is being written pays for a rotation by size.
LEMMA RoomToWrite ==
    ASSUME TypeOK, RotationsPaid, NEW r \in Records, WriterWrites(r)
    PROVE  /\ Cardinality(In(Written)') = Cardinality(In(Written)) + 1
           /\ f.counter + 1 \in FileNames
<1>1. PICK v \in {"disk", "unlinked", "failed", "poisoned"} : at' = [at EXCEPT ![r] = v]
  BY WriteMoves
<1>2. at[r] = "writing"  BY WriteMoves
<1>3. Cardinality(In(Written)') = Cardinality(In(Written)) + 1
  BY <1>1, <1>2, InMoveIn DEF TypeOK, Written
<1>4. Cardinality(In(Written)') <= Cardinality(Records)  BY InFinitePrime
<1>5. f.counter <= 2 * Cardinality(In(Written))
  BY InFinite, CounterIsNatural DEF RotationsPaid, Due, TypeOK
<1>6. f.counter + 1 <= 2 * Cardinality(Records)
  BY <1>3, <1>4, <1>5, InFinite, CounterIsNatural
<1> QED  BY <1>3, <1>6, RoomToRotate

-----------------------------------------------------------------------------
(* Every step keeps each part *)

\* The lock and the order of Close are kept.
LEMMA LockingStep ==
    ASSUME TypeOK, Locking, Next
    PROVE  Locking'
<1>1. ASSUME UNCHANGED <<mpc, mu, closed, closePc, ctxDone>>
      PROVE  Locking'
  BY <1>1 DEF Locking
<1> USE DEF mwVars, lockVars, writerVars, rotVars, maintVars, monVars, maintKeeps
<1>2. ASSUME NEW r \in Records, trySendJob(r)  PROVE Locking'  BY <1>1, <1>2 DEF trySendJob
<1>3. ASSUME NEW r \in Records, WorkerTakes(r)  PROVE Locking'
  BY <1>1, <1>3 DEF WorkerTakes
<1>4. ASSUME NEW r \in Records, SaveRequestCheck(r)  PROVE Locking'
  BY <1>1, <1>4 DEF SaveRequestCheck
<1>5. ASSUME NEW r \in Records, SaveRequestSend(r)  PROVE Locking'
  BY <1>1, <1>5 DEF SaveRequestSend
<1>6. CASE ShutdownBegin  BY <1>1, <1>6 DEF ShutdownBegin
<1>7. CASE ShutdownReturn  BY <1>1, <1>7 DEF ShutdownReturn
<1>8. ASSUME NEW r \in Records, WriterTakes(r)  PROVE Locking'
  BY <1>1, <1>8 DEF WriterTakes
<1>9. ASSUME NEW r \in Records, WriterSkips(r)  PROVE Locking'
  BY <1>1, <1>9 DEF WriterSkips
<1>10. ASSUME NEW r \in Records, WriterWrites(r)  PROVE Locking'
  BY <1>1, <1>10 DEF WriterWrites
<1>11. CASE WriterExits  BY <1>1, <1>11 DEF WriterExits
<1>12. CASE WriterSignals  BY <1>1, <1>12 DEF WriterSignals
<1>13. CASE WriterDone  BY <1>1, <1>13 DEF WriterDone
<1>14. CASE RotationTakes  BY <1>1, <1>14 DEF RotationTakes
<1>15. CASE RotationDrains  BY <1>1, <1>15 DEF RotationDrains
<1>16. CASE RotationRotates  BY <1>1, <1>16 DEF RotationRotates
<1>17. CASE RotationExits  BY <1>1, <1>17 DEF RotationExits
<1>18. ASSUME NEW op \in {"flush", "delete", "clear"}, MaintStart(op)  PROVE Locking'
  BY <1>18 DEF MaintStart, TypeOK, Locking
<1>19. CASE MaintGivesUp  BY <1>19 DEF MaintGivesUp, TypeOK, Locking
<1>20. CASE MaintDrained  BY <1>20 DEF MaintDrained, TypeOK, Locking
<1>21. CASE MaintDropsSignals  BY <1>21 DEF MaintDropsSignals, TypeOK, Locking
<1>22. ASSUME NEW g \in FileNames, DeleteScans(g)  PROVE Locking'
  BY <1>22 DEF DeleteScans, TypeOK, Locking
<1>23. CASE RewriteCloses  BY <1>23 DEF RewriteCloses, TypeOK, Locking
<1>24. CASE RewriteRenames  BY <1>24 DEF RewriteRenames, TypeOK, Locking
<1>25. CASE RewriteFails  BY <1>25 DEF RewriteFails, TypeOK, Locking
<1>26. CASE DeleteReturns  BY <1>26 DEF DeleteReturns, TypeOK, Locking
<1>27. CASE ClearCloses  BY <1>27 DEF ClearCloses, TypeOK, Locking
<1>28. CASE ClearGlobs  BY <1>28 DEF ClearGlobs, TypeOK, Locking
<1>29. ASSUME NEW g \in FileNames, ClearRemoves(g)  PROVE Locking'
  BY <1>29 DEF ClearRemoves, TypeOK, Locking
<1>30. CASE ClearFails  BY <1>30 DEF ClearFails, TypeOK, Locking
<1>31. CASE ClearReturns  BY <1>31 DEF ClearReturns, TypeOK, Locking
<1>32. CASE CloseClaims  BY <1>32 DEF CloseClaims, TypeOK, Locking
<1>33. CASE CloseCancels  BY <1>33 DEF CloseCancels, TypeOK, Locking
<1>34. CASE CloseWaits  BY <1>34 DEF CloseWaits, TypeOK, Locking
<1>35. CASE CloseFile  BY <1>35 DEF CloseFile, TypeOK, Locking
<1>36. ASSUME NEW result \in {"nil", "error"}, MonitorChecks(result)  PROVE Locking'
  BY <1>1, <1>36 DEF MonitorChecks
<1> QED
  BY <1>2, <1>3, <1>4, <1>5, <1>6, <1>7, <1>8, <1>9, <1>10, <1>11, <1>12, <1>13, <1>14,
     <1>15, <1>16, <1>17, <1>18, <1>19, <1>20, <1>21, <1>22, <1>23, <1>24, <1>25, <1>26,
     <1>27, <1>28, <1>29, <1>30, <1>31, <1>32, <1>33, <1>34, <1>35, <1>36
     DEF Next, WorkerStep, WriterStep, RotationStep, MaintStep, CloseStep

\* The channel stays empty once the writer has left.
LEMMA WriterLeftStep ==
    ASSUME TypeOK, Locking, WriterLeft, Next
    PROVE  WriterLeft'
<1>1. ASSUME UNCHANGED <<at, wpc, ctxDone, chanClosed>>
      PROVE  WriterLeft'
  BY <1>1 DEF WriterLeft, In
<1> USE DEF mwVars, lockVars, writerVars, rotVars, maintVars, monVars, maintKeeps
<1>2. ASSUME NEW r \in Records, trySendJob(r)  PROVE WriterLeft'
  BY <1>2, InStays DEF trySendJob, TypeOK, WriterLeft
<1>3. ASSUME NEW r \in Records, WorkerTakes(r)  PROVE WriterLeft'
  BY <1>3, InStays DEF WorkerTakes, TypeOK, WriterLeft
<1>4. ASSUME NEW r \in Records, SaveRequestCheck(r)  PROVE WriterLeft'
  BY <1>4, InStays DEF SaveRequestCheck, TypeOK, WriterLeft
<1>5. ASSUME NEW r \in Records, SaveRequestSend(r)  PROVE WriterLeft'
  BY <1>5, InStays DEF SaveRequestSend, TypeOK, Locking, WriterLeft
<1>6. CASE ShutdownBegin  BY <1>1, <1>6 DEF ShutdownBegin
<1>7. CASE ShutdownReturn  BY <1>1, <1>7 DEF ShutdownReturn
<1>8. ASSUME NEW r \in Records, WriterTakes(r)  PROVE WriterLeft'
  BY <1>8 DEF WriterTakes, WriterLeft, In
<1>9. ASSUME NEW r \in Records, WriterSkips(r)  PROVE WriterLeft'
  BY <1>9 DEF WriterSkips, WriterLeft, In
<1>10. ASSUME NEW r \in Records, WriterWrites(r)  PROVE WriterLeft'
  BY <1>10 DEF WriterWrites, WriterLeft, In
<1>11. CASE WriterExits  BY <1>11 DEF WriterExits, WriterLeft, In
<1>12. CASE WriterSignals  BY <1>12 DEF WriterSignals, WriterLeft, In
<1>13. CASE WriterDone  BY <1>13 DEF WriterDone, WriterLeft, In
<1>14. CASE RotationTakes  BY <1>1, <1>14 DEF RotationTakes
<1>15. CASE RotationDrains  BY <1>1, <1>15 DEF RotationDrains
<1>16. CASE RotationRotates  BY <1>1, <1>16 DEF RotationRotates
<1>17. CASE RotationExits  BY <1>1, <1>17 DEF RotationExits
<1>18. ASSUME NEW op \in {"flush", "delete", "clear"}, MaintStart(op)  PROVE WriterLeft'
  BY <1>1, <1>18 DEF MaintStart
<1>19. CASE MaintGivesUp  BY <1>1, <1>19 DEF MaintGivesUp
<1>20. CASE MaintDrained  BY <1>1, <1>20 DEF MaintDrained
<1>21. CASE MaintDropsSignals  BY <1>1, <1>21 DEF MaintDropsSignals
<1>22. ASSUME NEW g \in FileNames, DeleteScans(g)  PROVE WriterLeft'
  BY <1>1, <1>22 DEF DeleteScans
<1>23. CASE RewriteCloses  BY <1>1, <1>23 DEF RewriteCloses
<1>24. CASE RewriteRenames
  <2>1. In({"ch"})' = In({"ch"})  BY <1>24, InFilesChange DEF TypeOK
  <2> QED  BY <1>24, <2>1 DEF RewriteRenames, WriterLeft
<1>25. CASE RewriteFails  BY <1>1, <1>25 DEF RewriteFails
<1>26. CASE DeleteReturns  BY <1>1, <1>26 DEF DeleteReturns
<1>27. CASE ClearCloses  BY <1>1, <1>27 DEF ClearCloses
<1>28. CASE ClearGlobs  BY <1>1, <1>28 DEF ClearGlobs
<1>29. ASSUME NEW g \in FileNames, ClearRemoves(g)  PROVE WriterLeft'
  <2>1. In({"ch"})' = In({"ch"})  BY <1>29, InFilesChange DEF TypeOK
  <2> QED  BY <1>29, <2>1 DEF ClearRemoves, WriterLeft
<1>30. CASE ClearFails  BY <1>1, <1>30 DEF ClearFails
<1>31. CASE ClearReturns  BY <1>1, <1>31 DEF ClearReturns
<1>32. CASE CloseClaims  BY <1>1, <1>32 DEF CloseClaims
<1>33. CASE CloseCancels  BY <1>33 DEF CloseCancels, WriterLeft, In
<1>34. CASE CloseWaits  BY <1>34 DEF CloseWaits, WriterLeft, In
<1>35. CASE CloseFile  BY <1>1, <1>35 DEF CloseFile
<1>36. ASSUME NEW result \in {"nil", "error"}, MonitorChecks(result)  PROVE WriterLeft'
  BY <1>1, <1>36 DEF MonitorChecks
<1> QED
  BY <1>2, <1>3, <1>4, <1>5, <1>6, <1>7, <1>8, <1>9, <1>10, <1>11, <1>12, <1>13, <1>14,
     <1>15, <1>16, <1>17, <1>18, <1>19, <1>20, <1>21, <1>22, <1>23, <1>24, <1>25, <1>26,
     <1>27, <1>28, <1>29, <1>30, <1>31, <1>32, <1>33, <1>34, <1>35, <1>36
     DEF Next, WorkerStep, WriterStep, RotationStep, MaintStep, CloseStep

\* The writer takes one record after the other.
LEMMA InHandStep ==
    ASSUME TypeOK, InHand, Next
    PROVE  InHand'
<1>1. ASSUME UNCHANGED <<at, wpc, needs>>
      PROVE  InHand'
  BY <1>1 DEF InHand
<1> USE DEF mwVars, lockVars, writerVars, rotVars, maintVars, monVars, maintKeeps
<1>2. ASSUME NEW r \in Records, trySendJob(r)  PROVE InHand'
  BY <1>2 DEF trySendJob, TypeOK, InHand
<1>3. ASSUME NEW r \in Records, WorkerTakes(r)  PROVE InHand'
  BY <1>3 DEF WorkerTakes, TypeOK, InHand
<1>4. ASSUME NEW r \in Records, SaveRequestCheck(r)  PROVE InHand'
  BY <1>4 DEF SaveRequestCheck, TypeOK, InHand
<1>5. ASSUME NEW r \in Records, SaveRequestSend(r)  PROVE InHand'
  BY <1>5 DEF SaveRequestSend, TypeOK, InHand
<1>6. CASE ShutdownBegin  BY <1>1, <1>6 DEF ShutdownBegin
<1>7. CASE ShutdownReturn  BY <1>1, <1>7 DEF ShutdownReturn
<1>8. ASSUME NEW r \in Records, WriterTakes(r)  PROVE InHand'
  BY <1>8 DEF WriterTakes, TypeOK, InHand
<1>9. ASSUME NEW r \in Records, WriterSkips(r)  PROVE InHand'
  BY <1>9 DEF WriterSkips, TypeOK, InHand
<1>10. ASSUME NEW r \in Records, WriterWrites(r)  PROVE InHand'
  <2>1. PICK v \in {"disk", "unlinked", "failed", "poisoned"} : at' = [at EXCEPT ![r] = v]
    BY <1>10, WriteMoves
  <2>2. at[r] = "writing" /\ wpc = "write"  BY <1>10, WriteMoves
  <2>3. \A q \in Records : at'[q] # "writing"  BY <2>1, <2>2 DEF TypeOK, InHand
  <2>4. needs' => wpc' = "signal"  BY <1>10, <2>2, WriteMoves DEF InHand
  <2> QED  BY <2>3, <2>4 DEF InHand
<1>11. CASE WriterExits  BY <1>11 DEF WriterExits, TypeOK, InHand
<1>12. CASE WriterSignals  BY <1>12 DEF WriterSignals, TypeOK, InHand
<1>13. CASE WriterDone  BY <1>13 DEF WriterDone, TypeOK, InHand
<1>14. CASE RotationTakes  BY <1>1, <1>14 DEF RotationTakes
<1>15. CASE RotationDrains  BY <1>1, <1>15 DEF RotationDrains
<1>16. CASE RotationRotates  BY <1>1, <1>16 DEF RotationRotates
<1>17. CASE RotationExits  BY <1>1, <1>17 DEF RotationExits
<1>18. ASSUME NEW op \in {"flush", "delete", "clear"}, MaintStart(op)  PROVE InHand'
  BY <1>1, <1>18 DEF MaintStart
<1>19. CASE MaintGivesUp  BY <1>1, <1>19 DEF MaintGivesUp
<1>20. CASE MaintDrained  BY <1>1, <1>20 DEF MaintDrained
<1>21. CASE MaintDropsSignals  BY <1>1, <1>21 DEF MaintDropsSignals
<1>22. ASSUME NEW g \in FileNames, DeleteScans(g)  PROVE InHand'
  BY <1>1, <1>22 DEF DeleteScans
<1>23. CASE RewriteCloses  BY <1>1, <1>23 DEF RewriteCloses
<1>24. CASE RewriteRenames  BY <1>24, <1>1 DEF RewriteRenames, TypeOK, InHand
<1>25. CASE RewriteFails  BY <1>1, <1>25 DEF RewriteFails
<1>26. CASE DeleteReturns  BY <1>1, <1>26 DEF DeleteReturns
<1>27. CASE ClearCloses  BY <1>1, <1>27 DEF ClearCloses
<1>28. CASE ClearGlobs  BY <1>1, <1>28 DEF ClearGlobs
<1>29. ASSUME NEW g \in FileNames, ClearRemoves(g)  PROVE InHand'
  BY <1>29 DEF ClearRemoves, TypeOK, InHand
<1>30. CASE ClearFails  BY <1>1, <1>30 DEF ClearFails
<1>31. CASE ClearReturns  BY <1>1, <1>31 DEF ClearReturns
<1>32. CASE CloseClaims  BY <1>1, <1>32 DEF CloseClaims
<1>33. CASE CloseCancels  BY <1>1, <1>33 DEF CloseCancels
<1>34. CASE CloseWaits  BY <1>1, <1>34 DEF CloseWaits
<1>35. CASE CloseFile  BY <1>1, <1>35 DEF CloseFile
<1>36. ASSUME NEW result \in {"nil", "error"}, MonitorChecks(result)  PROVE InHand'
  BY <1>1, <1>36 DEF MonitorChecks
<1> QED
  BY <1>2, <1>3, <1>4, <1>5, <1>6, <1>7, <1>8, <1>9, <1>10, <1>11, <1>12, <1>13, <1>14,
     <1>15, <1>16, <1>17, <1>18, <1>19, <1>20, <1>21, <1>22, <1>23, <1>24, <1>25, <1>26,
     <1>27, <1>28, <1>29, <1>30, <1>31, <1>32, <1>33, <1>34, <1>35, <1>36
     DEF Next, WorkerStep, WriterStep, RotationStep, MaintStep, CloseStep

\* pendingWrites is counted up and down with the records it stands for.
LEMMA PendingStep ==
    ASSUME TypeOK, PendingIsExact, Next
    PROVE  PendingIsExact'
<1>1. ASSUME UNCHANGED <<at, wpc, pending>>
      PROVE  PendingIsExact'
  BY <1>1 DEF PendingIsExact, In
<1> USE DEF mwVars, lockVars, writerVars, rotVars, maintVars, monVars, maintKeeps
<1>2. ASSUME NEW r \in Records, trySendJob(r)  PROVE PendingIsExact'
  <2>1. Cardinality(In({"ch"})') = Cardinality(In({"ch"}))
    BY <1>2, InStays DEF trySendJob, TypeOK
  <2> QED  BY <1>2, <2>1 DEF trySendJob, PendingIsExact
<1>3. ASSUME NEW r \in Records, WorkerTakes(r)  PROVE PendingIsExact'
  <2>1. Cardinality(In({"ch"})') = Cardinality(In({"ch"}))
    BY <1>3, InStays DEF WorkerTakes, TypeOK
  <2> QED  BY <1>3, <2>1 DEF WorkerTakes, PendingIsExact
<1>4. ASSUME NEW r \in Records, SaveRequestCheck(r)  PROVE PendingIsExact'
  <2>1. Cardinality(In({"ch"})') = Cardinality(In({"ch"}))
    BY <1>4, InStays DEF SaveRequestCheck, TypeOK
  <2> QED  BY <1>4, <2>1 DEF SaveRequestCheck, PendingIsExact
<1>5. ASSUME NEW r \in Records, SaveRequestSend(r)  PROVE PendingIsExact'
  <2>1. CASE pending' = pending + 1
    <3>1. Cardinality(In({"ch"})') = Cardinality(In({"ch"})) + 1
      BY <1>5, <2>1, InMoveIn DEF SaveRequestSend, TypeOK
    <3> QED  BY <1>5, <2>1, <3>1, InFinite DEF SaveRequestSend, PendingIsExact
  <2>2. CASE pending' = pending /\ \E v \in {"refused", "dropped"} : at' = [at EXCEPT ![r] = v]
    <3>1. PICK v \in {"refused", "dropped"} : at' = [at EXCEPT ![r] = v]  BY <2>2
    <3>2. at[r] = "checked" /\ wpc' = wpc  BY <1>5 DEF SaveRequestSend
    <3>3. In({"ch"})' = In({"ch"})  BY <3>1, <3>2, InStays DEF TypeOK
    <3> QED  BY <2>2, <3>2, <3>3 DEF PendingIsExact
  <2> QED  BY <1>5, <2>1, <2>2 DEF SaveRequestSend
<1>6. CASE ShutdownBegin  BY <1>1, <1>6 DEF ShutdownBegin
<1>7. CASE ShutdownReturn  BY <1>1, <1>7 DEF ShutdownReturn
<1>8. ASSUME NEW r \in Records, WriterTakes(r)  PROVE PendingIsExact'
  <2>1. /\ at[r] = "ch" /\ at' = [at EXCEPT ![r] = "writing"]
        /\ wpc = "select" /\ wpc' = "write" /\ pending' = pending
    BY <1>8 DEF WriterTakes
  <2>2. at[r] \in {"ch"} /\ "writing" \notin {"ch"} /\ at \in [Records -> Places]
    BY <2>1 DEF TypeOK
  <2>3. Cardinality(In({"ch"})') = Cardinality(In({"ch"})) - 1  BY <2>1, <2>2, InMoveOut
  <2> QED  BY <2>1, <2>3, InFinite DEF PendingIsExact
<1>9. ASSUME NEW r \in Records, WriterSkips(r)  PROVE PendingIsExact'
  <2>1. Cardinality(In({"ch"})') = Cardinality(In({"ch"}))
    BY <1>9, InStays DEF WriterSkips, TypeOK
  <2> QED  BY <1>9, <2>1 DEF WriterSkips, PendingIsExact
<1>10. ASSUME NEW r \in Records, WriterWrites(r)  PROVE PendingIsExact'
  <2>1. PICK v \in {"disk", "unlinked", "failed", "poisoned"} : at' = [at EXCEPT ![r] = v]
    BY <1>10, WriteMoves
  <2>2. /\ at[r] = "writing" /\ wpc = "write" /\ wpc' \in {"signal", "done"} /\ pending' = pending
    BY <1>10, WriteMoves
  <2>3. In({"ch"})' = In({"ch"})  BY <2>1, <2>2, InStays DEF TypeOK
  <2> QED  BY <2>2, <2>3 DEF PendingIsExact
<1>11. CASE WriterExits  BY <1>11, InFinite DEF WriterExits, PendingIsExact, In
<1>12. CASE WriterSignals  BY <1>12 DEF WriterSignals, PendingIsExact, In
<1>13. CASE WriterDone
  <2>1. In({"ch"})' = In({"ch"})  BY <1>13 DEF WriterDone, In
  <2> QED  BY <1>13, <2>1, InFinite DEF WriterDone, PendingIsExact
<1>14. CASE RotationTakes  BY <1>1, <1>14 DEF RotationTakes
<1>15. CASE RotationDrains  BY <1>1, <1>15 DEF RotationDrains
<1>16. CASE RotationRotates  BY <1>1, <1>16 DEF RotationRotates
<1>17. CASE RotationExits  BY <1>1, <1>17 DEF RotationExits
<1>18. ASSUME NEW op \in {"flush", "delete", "clear"}, MaintStart(op)  PROVE PendingIsExact'
  BY <1>1, <1>18 DEF MaintStart
<1>19. CASE MaintGivesUp  BY <1>1, <1>19 DEF MaintGivesUp
<1>20. CASE MaintDrained  BY <1>1, <1>20 DEF MaintDrained
<1>21. CASE MaintDropsSignals  BY <1>1, <1>21 DEF MaintDropsSignals
<1>22. ASSUME NEW g \in FileNames, DeleteScans(g)  PROVE PendingIsExact'
  BY <1>1, <1>22 DEF DeleteScans
<1>23. CASE RewriteCloses  BY <1>1, <1>23 DEF RewriteCloses
<1>24. CASE RewriteRenames
  <2>1. In({"ch"})' = In({"ch"})  BY <1>24, InFilesChange DEF TypeOK
  <2> QED  BY <1>24, <2>1 DEF RewriteRenames, PendingIsExact
<1>25. CASE RewriteFails  BY <1>1, <1>25 DEF RewriteFails
<1>26. CASE DeleteReturns  BY <1>1, <1>26 DEF DeleteReturns
<1>27. CASE ClearCloses  BY <1>1, <1>27 DEF ClearCloses
<1>28. CASE ClearGlobs  BY <1>1, <1>28 DEF ClearGlobs
<1>29. ASSUME NEW g \in FileNames, ClearRemoves(g)  PROVE PendingIsExact'
  <2>1. In({"ch"})' = In({"ch"})  BY <1>29, InFilesChange DEF TypeOK
  <2> QED  BY <1>29, <2>1 DEF ClearRemoves, PendingIsExact
<1>30. CASE ClearFails  BY <1>1, <1>30 DEF ClearFails
<1>31. CASE ClearReturns  BY <1>1, <1>31 DEF ClearReturns
<1>32. CASE CloseClaims  BY <1>1, <1>32 DEF CloseClaims
<1>33. CASE CloseCancels  BY <1>1, <1>33 DEF CloseCancels
<1>34. CASE CloseWaits  BY <1>1, <1>34 DEF CloseWaits
<1>35. CASE CloseFile  BY <1>1, <1>35 DEF CloseFile
<1>36. ASSUME NEW result \in {"nil", "error"}, MonitorChecks(result)  PROVE PendingIsExact'
  BY <1>1, <1>36 DEF MonitorChecks
<1> QED
  BY <1>2, <1>3, <1>4, <1>5, <1>6, <1>7, <1>8, <1>9, <1>10, <1>11, <1>12, <1>13, <1>14,
     <1>15, <1>16, <1>17, <1>18, <1>19, <1>20, <1>21, <1>22, <1>23, <1>24, <1>25, <1>26,
     <1>27, <1>28, <1>29, <1>30, <1>31, <1>32, <1>33, <1>34, <1>35, <1>36
     DEF Next, WorkerStep, WriterStep, RotationStep, MaintStep, CloseStep

\* While a maintenance call works nothing is written: it waited for zero pending
\* writes, and its lock keeps new records out.
LEMMA QuietStep ==
    ASSUME TypeOK, Locking, WriterLeft, InHand, PendingIsExact,
           MaintenanceIsQuiet, Next
    PROVE  MaintenanceIsQuiet'
<1>1. ASSUME UNCHANGED <<at, wpc, mpc>>
      PROVE  MaintenanceIsQuiet'
  BY <1>1 DEF MaintenanceIsQuiet, In
<1> USE DEF mwVars, lockVars, writerVars, rotVars, maintVars, monVars, maintKeeps
<1>2. ASSUME NEW r \in Records, trySendJob(r)  PROVE MaintenanceIsQuiet'
  <2>1. In({"ch", "writing"})' = In({"ch", "writing"})  BY <1>2, InStays DEF trySendJob, TypeOK
  <2> QED  BY <1>2, <2>1 DEF trySendJob, MaintenanceIsQuiet
<1>3. ASSUME NEW r \in Records, WorkerTakes(r)  PROVE MaintenanceIsQuiet'
  <2>1. In({"ch", "writing"})' = In({"ch", "writing"})
    BY <1>3, InStays DEF WorkerTakes, TypeOK
  <2> QED  BY <1>3, <2>1 DEF WorkerTakes, MaintenanceIsQuiet
<1>4. ASSUME NEW r \in Records, SaveRequestCheck(r)  PROVE MaintenanceIsQuiet'
  <2>1. In({"ch", "writing"})' = In({"ch", "writing"})
    BY <1>4, InStays DEF SaveRequestCheck, TypeOK
  <2> QED  BY <1>4, <2>1 DEF SaveRequestCheck, MaintenanceIsQuiet
<1>5. ASSUME NEW r \in Records, SaveRequestSend(r)  PROVE MaintenanceIsQuiet'
  BY <1>5 DEF SaveRequestSend, Locking, MaintenanceIsQuiet
<1>6. CASE ShutdownBegin  BY <1>1, <1>6 DEF ShutdownBegin
<1>7. CASE ShutdownReturn  BY <1>1, <1>7 DEF ShutdownReturn
<1>8. ASSUME NEW r \in Records, WriterTakes(r)  PROVE MaintenanceIsQuiet'
  BY <1>8 DEF WriterTakes, MaintenanceIsQuiet, In
<1>9. ASSUME NEW r \in Records, WriterSkips(r)  PROVE MaintenanceIsQuiet'
  BY <1>9 DEF WriterSkips, MaintenanceIsQuiet, In
<1>10. ASSUME NEW r \in Records, WriterWrites(r)  PROVE MaintenanceIsQuiet'
  BY <1>10, WriteMoves DEF WriterWrites, MaintenanceIsQuiet, In
<1>11. CASE WriterExits  BY <1>11 DEF WriterExits, MaintenanceIsQuiet, Locking
<1>12. CASE WriterSignals  BY <1>12 DEF WriterSignals, MaintenanceIsQuiet, In
<1>13. CASE WriterDone  BY <1>13 DEF WriterDone, MaintenanceIsQuiet, In
<1>14. CASE RotationTakes  BY <1>1, <1>14 DEF RotationTakes
<1>15. CASE RotationDrains  BY <1>1, <1>15 DEF RotationDrains
<1>16. CASE RotationRotates  BY <1>1, <1>16 DEF RotationRotates
<1>17. CASE RotationExits  BY <1>1, <1>17 DEF RotationExits
<1>18. ASSUME NEW op \in {"flush", "delete", "clear"}, MaintStart(op)  PROVE MaintenanceIsQuiet'
  BY <1>18 DEF MaintStart, MaintenanceIsQuiet
<1>19. CASE MaintGivesUp  BY <1>19 DEF MaintGivesUp, MaintenanceIsQuiet
<1>20. CASE MaintDrained
  <2>1. pending = 0 /\ mpc = "drain" /\ UNCHANGED <<at, wpc>>  BY <1>20 DEF MaintDrained
  <2>2. wpc \notin {"write", "signal", "done"} /\ Cardinality(In({"ch"})) = 0
    BY <2>1, InFinite DEF PendingIsExact
  <2>3. In({"ch"}) = {}  BY <2>2, InFinite, FS_EmptySet
  <2>4. wpc = "select"  BY <2>1, <2>2 DEF TypeOK, Locking, WriterLeft
  <2>5. In({"ch", "writing"}) = {}  BY <2>2, <2>3 DEF In, InHand
  <2> QED  BY <2>1, <2>4, <2>5 DEF MaintenanceIsQuiet, In
<1>21. CASE MaintDropsSignals  BY <1>21 DEF MaintDropsSignals, MaintenanceIsQuiet, In
<1>22. ASSUME NEW g \in FileNames, DeleteScans(g)  PROVE MaintenanceIsQuiet'
  BY <1>22 DEF DeleteScans, MaintenanceIsQuiet, In
<1>23. CASE RewriteCloses  BY <1>23 DEF RewriteCloses, MaintenanceIsQuiet, In
<1>24. CASE RewriteRenames
  <2>1. In({"ch", "writing"})' = In({"ch", "writing"})  BY <1>24, InFilesChange DEF TypeOK
  <2> QED  BY <1>24, <2>1 DEF RewriteRenames, MaintenanceIsQuiet
<1>25. CASE RewriteFails  BY <1>25 DEF RewriteFails, MaintenanceIsQuiet, In
<1>26. CASE DeleteReturns  BY <1>26 DEF DeleteReturns, MaintenanceIsQuiet, In
<1>27. CASE ClearCloses  BY <1>27 DEF ClearCloses, MaintenanceIsQuiet, In
<1>28. CASE ClearGlobs  BY <1>28 DEF ClearGlobs, MaintenanceIsQuiet, In
<1>29. ASSUME NEW g \in FileNames, ClearRemoves(g)  PROVE MaintenanceIsQuiet'
  <2>1. In({"ch", "writing"})' = In({"ch", "writing"})  BY <1>29, InFilesChange DEF TypeOK
  <2> QED  BY <1>29, <2>1 DEF ClearRemoves, MaintenanceIsQuiet
<1>30. CASE ClearFails  BY <1>30 DEF ClearFails, MaintenanceIsQuiet, In
<1>31. CASE ClearReturns  BY <1>31 DEF ClearReturns, MaintenanceIsQuiet, In
<1>32. CASE CloseClaims  BY <1>1, <1>32 DEF CloseClaims
<1>33. CASE CloseCancels  BY <1>1, <1>33 DEF CloseCancels
<1>34. CASE CloseWaits  BY <1>1, <1>34 DEF CloseWaits
<1>35. CASE CloseFile  BY <1>1, <1>35 DEF CloseFile
<1>36. ASSUME NEW result \in {"nil", "error"}, MonitorChecks(result)  PROVE MaintenanceIsQuiet'
  BY <1>1, <1>36 DEF MonitorChecks
<1> QED
  BY <1>2, <1>3, <1>4, <1>5, <1>6, <1>7, <1>8, <1>9, <1>10, <1>11, <1>12, <1>13, <1>14,
     <1>15, <1>16, <1>17, <1>18, <1>19, <1>20, <1>21, <1>22, <1>23, <1>24, <1>25, <1>26,
     <1>27, <1>28, <1>29, <1>30, <1>31, <1>32, <1>33, <1>34, <1>35, <1>36
     DEF Next, WorkerStep, WriterStep, RotationStep, MaintStep, CloseStep

\* What a delete has read stays current until the file is replaced.
LEMMA ScanStep ==
    ASSUME TypeOK, MaintenanceIsQuiet, ScanIsFresh, Next
    PROVE  ScanIsFresh'
<1>1. ASSUME UNCHANGED <<at, where, mpc, scan>>
      PROVE  ScanIsFresh'
  BY <1>1 DEF ScanIsFresh, In
<1> USE DEF mwVars, lockVars, writerVars, rotVars, maintVars, monVars, maintKeeps
<1>2. ASSUME NEW r \in Records, trySendJob(r)  PROVE ScanIsFresh'
  <2>1. In({"disk"})' = In({"disk"})  BY <1>2, InStays DEF trySendJob, TypeOK
  <2> QED  BY <1>2, <2>1 DEF trySendJob, ScanIsFresh
<1>3. ASSUME NEW r \in Records, WorkerTakes(r)  PROVE ScanIsFresh'
  <2>1. In({"disk"})' = In({"disk"})  BY <1>3, InStays DEF WorkerTakes, TypeOK
  <2> QED  BY <1>3, <2>1 DEF WorkerTakes, ScanIsFresh
<1>4. ASSUME NEW r \in Records, SaveRequestCheck(r)  PROVE ScanIsFresh'
  <2>1. In({"disk"})' = In({"disk"})  BY <1>4, InStays DEF SaveRequestCheck, TypeOK
  <2> QED  BY <1>4, <2>1 DEF SaveRequestCheck, ScanIsFresh
<1>5. ASSUME NEW r \in Records, SaveRequestSend(r)  PROVE ScanIsFresh'
  <2>1. PICK v \in {"refused", "ch", "dropped"} : at' = [at EXCEPT ![r] = v]
    BY <1>5 DEF SaveRequestSend
  <2>2. In({"disk"})' = In({"disk"})  BY <1>5, <2>1, InStays DEF SaveRequestSend, TypeOK
  <2> QED  BY <1>5, <2>2 DEF SaveRequestSend, ScanIsFresh
<1>6. CASE ShutdownBegin  BY <1>1, <1>6 DEF ShutdownBegin
<1>7. CASE ShutdownReturn  BY <1>1, <1>7 DEF ShutdownReturn
<1>8. ASSUME NEW r \in Records, WriterTakes(r)  PROVE ScanIsFresh'
  <2>1. In({"disk"})' = In({"disk"})  BY <1>8, InStays DEF WriterTakes, TypeOK
  <2> QED  BY <1>8, <2>1 DEF WriterTakes, ScanIsFresh
<1>9. ASSUME NEW r \in Records, WriterSkips(r)  PROVE ScanIsFresh'
  <2>1. In({"disk"})' = In({"disk"})  BY <1>9, InStays DEF WriterSkips, TypeOK
  <2> QED  BY <1>9, <2>1 DEF WriterSkips, ScanIsFresh
<1>10. ASSUME NEW r \in Records, WriterWrites(r)  PROVE ScanIsFresh'
  <2>1. wpc = "write" /\ mpc' = mpc  BY <1>10, WriteMoves
  <2>2. mpc' \in {"idle", "drain"}  BY <2>1 DEF MaintenanceIsQuiet
  <2> QED  BY <2>2 DEF ScanIsFresh
<1>11. CASE WriterExits  BY <1>1, <1>11 DEF WriterExits
<1>12. CASE WriterSignals  BY <1>1, <1>12 DEF WriterSignals
<1>13. CASE WriterDone  BY <1>1, <1>13 DEF WriterDone
<1>14. CASE RotationTakes  BY <1>1, <1>14 DEF RotationTakes
<1>15. CASE RotationDrains  BY <1>1, <1>15 DEF RotationDrains
<1>16. CASE RotationRotates  BY <1>1, <1>16 DEF RotationRotates
<1>17. CASE RotationExits  BY <1>1, <1>17 DEF RotationExits
<1>18. ASSUME NEW op \in {"flush", "delete", "clear"}, MaintStart(op)  PROVE ScanIsFresh'
  BY <1>18 DEF MaintStart, ScanIsFresh, In
<1>19. CASE MaintGivesUp  BY <1>19 DEF MaintGivesUp, ScanIsFresh, In
<1>20. CASE MaintDrained  BY <1>20 DEF MaintDrained, ScanIsFresh, In
<1>21. CASE MaintDropsSignals  BY <1>21 DEF MaintDropsSignals, ScanIsFresh, In
<1>22. ASSUME NEW g \in FileNames, DeleteScans(g)  PROVE ScanIsFresh'
  BY <1>22 DEF DeleteScans, ScanIsFresh, In
<1>23. CASE RewriteCloses  BY <1>23 DEF RewriteCloses, ScanIsFresh, In
<1>24. CASE RewriteRenames  BY <1>24 DEF RewriteRenames, ScanIsFresh, In
<1>25. CASE RewriteFails  BY <1>25 DEF RewriteFails, ScanIsFresh, In
<1>26. CASE DeleteReturns  BY <1>26 DEF DeleteReturns, ScanIsFresh, In
<1>27. CASE ClearCloses  BY <1>27 DEF ClearCloses, ScanIsFresh, In
<1>28. CASE ClearGlobs  BY <1>28 DEF ClearGlobs, ScanIsFresh, In
<1>29. ASSUME NEW g \in FileNames, ClearRemoves(g)  PROVE ScanIsFresh'
  BY <1>29 DEF ClearRemoves, ScanIsFresh, In
<1>30. CASE ClearFails  BY <1>30 DEF ClearFails, ScanIsFresh, In
<1>31. CASE ClearReturns  BY <1>31 DEF ClearReturns, ScanIsFresh, In
<1>32. CASE CloseClaims  BY <1>1, <1>32 DEF CloseClaims
<1>33. CASE CloseCancels  BY <1>1, <1>33 DEF CloseCancels
<1>34. CASE CloseWaits  BY <1>1, <1>34 DEF CloseWaits
<1>35. CASE CloseFile  BY <1>1, <1>35 DEF CloseFile
<1>36. ASSUME NEW result \in {"nil", "error"}, MonitorChecks(result)  PROVE ScanIsFresh'
  BY <1>1, <1>36 DEF MonitorChecks
<1> QED
  BY <1>2, <1>3, <1>4, <1>5, <1>6, <1>7, <1>8, <1>9, <1>10, <1>11, <1>12, <1>13, <1>14,
     <1>15, <1>16, <1>17, <1>18, <1>19, <1>20, <1>21, <1>22, <1>23, <1>24, <1>25, <1>26,
     <1>27, <1>28, <1>29, <1>30, <1>31, <1>32, <1>33, <1>34, <1>35, <1>36
     DEF Next, WorkerStep, WriterStep, RotationStep, MaintStep, CloseStep

\* No record is lost when a file is replaced.
LEMMA NotClobberedStep ==
    ASSUME TypeOK, ScanIsFresh, NotClobbered, Next
    PROVE  NotClobbered'
<1>1. ASSUME UNCHANGED <<at>>
      PROVE  NotClobbered'
  BY <1>1 DEF NotClobbered, In
<1> USE DEF mwVars, lockVars, writerVars, rotVars, maintVars, monVars, maintKeeps
<1>2. ASSUME NEW r \in Records, trySendJob(r)  PROVE NotClobbered'
  <2>1. In({"clobbered"})' = In({"clobbered"})  BY <1>2, InStays DEF trySendJob, TypeOK
  <2> QED  BY <2>1 DEF NotClobbered
<1>3. ASSUME NEW r \in Records, WorkerTakes(r)  PROVE NotClobbered'
  <2>1. In({"clobbered"})' = In({"clobbered"})  BY <1>3, InStays DEF WorkerTakes, TypeOK
  <2> QED  BY <2>1 DEF NotClobbered
<1>4. ASSUME NEW r \in Records, SaveRequestCheck(r)  PROVE NotClobbered'
  <2>1. In({"clobbered"})' = In({"clobbered"})  BY <1>4, InStays DEF SaveRequestCheck, TypeOK
  <2> QED  BY <2>1 DEF NotClobbered
<1>5. ASSUME NEW r \in Records, SaveRequestSend(r)  PROVE NotClobbered'
  <2>1. PICK v \in {"refused", "ch", "dropped"} : at' = [at EXCEPT ![r] = v]
    BY <1>5 DEF SaveRequestSend
  <2>2. In({"clobbered"})' = In({"clobbered"})
    BY <1>5, <2>1, InStays DEF SaveRequestSend, TypeOK
  <2> QED  BY <2>2 DEF NotClobbered
<1>6. CASE ShutdownBegin  BY <1>1, <1>6 DEF ShutdownBegin
<1>7. CASE ShutdownReturn  BY <1>1, <1>7 DEF ShutdownReturn
<1>8. ASSUME NEW r \in Records, WriterTakes(r)  PROVE NotClobbered'
  <2>1. In({"clobbered"})' = In({"clobbered"})  BY <1>8, InStays DEF WriterTakes, TypeOK
  <2> QED  BY <2>1 DEF NotClobbered
<1>9. ASSUME NEW r \in Records, WriterSkips(r)  PROVE NotClobbered'
  <2>1. In({"clobbered"})' = In({"clobbered"})  BY <1>9, InStays DEF WriterSkips, TypeOK
  <2> QED  BY <2>1 DEF NotClobbered
<1>10. ASSUME NEW r \in Records, WriterWrites(r)  PROVE NotClobbered'
  <2>1. PICK v \in {"disk", "unlinked", "failed", "poisoned"} : at' = [at EXCEPT ![r] = v]
    BY <1>10, WriteMoves
  <2>2. at[r] = "writing"  BY <1>10, WriteMoves
  <2>3. In({"clobbered"})' = In({"clobbered"})  BY <2>1, <2>2, InStays DEF TypeOK
  <2> QED  BY <2>3 DEF NotClobbered
<1>11. CASE WriterExits  BY <1>1, <1>11 DEF WriterExits
<1>12. CASE WriterSignals  BY <1>1, <1>12 DEF WriterSignals
<1>13. CASE WriterDone  BY <1>1, <1>13 DEF WriterDone
<1>14. CASE RotationTakes  BY <1>1, <1>14 DEF RotationTakes
<1>15. CASE RotationDrains  BY <1>1, <1>15 DEF RotationDrains
<1>16. CASE RotationRotates  BY <1>1, <1>16 DEF RotationRotates
<1>17. CASE RotationExits  BY <1>1, <1>17 DEF RotationExits
<1>18. ASSUME NEW op \in {"flush", "delete", "clear"}, MaintStart(op)  PROVE NotClobbered'
  BY <1>1, <1>18 DEF MaintStart
<1>19. CASE MaintGivesUp  BY <1>1, <1>19 DEF MaintGivesUp
<1>20. CASE MaintDrained  BY <1>1, <1>20 DEF MaintDrained
<1>21. CASE MaintDropsSignals  BY <1>1, <1>21 DEF MaintDropsSignals
<1>22. ASSUME NEW g \in FileNames, DeleteScans(g)  PROVE NotClobbered'
  BY <1>1, <1>22 DEF DeleteScans
<1>23. CASE RewriteCloses  BY <1>1, <1>23 DEF RewriteCloses
<1>24. CASE RewriteRenames
  <2>1. ASSUME NEW r \in Records  PROVE at'[r] # "clobbered"
    <3>1. at[r] # "clobbered"  BY DEF NotClobbered, In
    <3>2. at[r] = "disk" /\ where[r] = scan.name => r \in scan.read
      BY <1>24 DEF RewriteRenames, ScanIsFresh, In
    <3> QED  BY <1>24, <3>1, <3>2 DEF RewriteRenames
  <2> QED  BY <2>1 DEF NotClobbered, In
<1>25. CASE RewriteFails  BY <1>1, <1>25 DEF RewriteFails
<1>26. CASE DeleteReturns  BY <1>1, <1>26 DEF DeleteReturns
<1>27. CASE ClearCloses  BY <1>1, <1>27 DEF ClearCloses
<1>28. CASE ClearGlobs  BY <1>1, <1>28 DEF ClearGlobs
<1>29. ASSUME NEW g \in FileNames, ClearRemoves(g)  PROVE NotClobbered'
  BY <1>29 DEF ClearRemoves, NotClobbered, In
<1>30. CASE ClearFails  BY <1>1, <1>30 DEF ClearFails
<1>31. CASE ClearReturns  BY <1>1, <1>31 DEF ClearReturns
<1>32. CASE CloseClaims  BY <1>1, <1>32 DEF CloseClaims
<1>33. CASE CloseCancels  BY <1>1, <1>33 DEF CloseCancels
<1>34. CASE CloseWaits  BY <1>1, <1>34 DEF CloseWaits
<1>35. CASE CloseFile  BY <1>1, <1>35 DEF CloseFile
<1>36. ASSUME NEW result \in {"nil", "error"}, MonitorChecks(result)  PROVE NotClobbered'
  BY <1>1, <1>36 DEF MonitorChecks
<1> QED
  BY <1>2, <1>3, <1>4, <1>5, <1>6, <1>7, <1>8, <1>9, <1>10, <1>11, <1>12, <1>13, <1>14,
     <1>15, <1>16, <1>17, <1>18, <1>19, <1>20, <1>21, <1>22, <1>23, <1>24, <1>25, <1>26,
     <1>27, <1>28, <1>29, <1>30, <1>31, <1>32, <1>33, <1>34, <1>35, <1>36
     DEF Next, WorkerStep, WriterStep, RotationStep, MaintStep, CloseStep

\* Every rotation is paid for by a record that was written.
LEMMA RotationsStep ==
    ASSUME TypeOK, InHand, RotationsPaid, Next
    PROVE  RotationsPaid'
<1>1. ASSUME UNCHANGED <<at, f, signals, hpc, needs>>
      PROVE  RotationsPaid'
  BY <1>1 DEF RotationsPaid, Due, In
<1> USE DEF mwVars, lockVars, writerVars, rotVars, maintVars, monVars, maintKeeps
<1>2. ASSUME NEW r \in Records, trySendJob(r)  PROVE RotationsPaid'
  <2>1. PICK v \in {"stopped", "job", "rejected"} : at' = [at EXCEPT ![r] = v]
    BY <1>2 DEF trySendJob
  <2>2. at[r] = "new" /\ UNCHANGED <<f, signals, hpc, needs>>  BY <1>2 DEF trySendJob
  <2>3. In(Written)' = In(Written)  BY <2>1, <2>2, InStays DEF TypeOK, Written
  <2> QED  BY <2>2, <2>3 DEF RotationsPaid, Due
<1>3. ASSUME NEW r \in Records, WorkerTakes(r)  PROVE RotationsPaid'
  <2>1. In(Written)' = In(Written)  BY <1>3, InStays DEF WorkerTakes, TypeOK, Written
  <2> QED  BY <1>3, <2>1 DEF WorkerTakes, RotationsPaid, Due
<1>4. ASSUME NEW r \in Records, SaveRequestCheck(r)  PROVE RotationsPaid'
  <2>1. In(Written)' = In(Written)  BY <1>4, InStays DEF SaveRequestCheck, TypeOK, Written
  <2> QED  BY <1>4, <2>1 DEF SaveRequestCheck, RotationsPaid, Due
<1>5. ASSUME NEW r \in Records, SaveRequestSend(r)  PROVE RotationsPaid'
  <2>1. PICK v \in {"refused", "ch", "dropped"} : at' = [at EXCEPT ![r] = v]
    BY <1>5 DEF SaveRequestSend
  <2>2. at[r] = "checked" /\ UNCHANGED <<f, signals, hpc, needs>>  BY <1>5 DEF SaveRequestSend
  <2>3. In(Written)' = In(Written)  BY <2>1, <2>2, InStays DEF TypeOK, Written
  <2> QED  BY <2>2, <2>3 DEF RotationsPaid, Due
<1>6. CASE ShutdownBegin  BY <1>1, <1>6 DEF ShutdownBegin
<1>7. CASE ShutdownReturn  BY <1>1, <1>7 DEF ShutdownReturn
<1>8. ASSUME NEW r \in Records, WriterTakes(r)  PROVE RotationsPaid'
  <2>1. In(Written)' = In(Written)  BY <1>8, InStays DEF WriterTakes, TypeOK, Written
  <2> QED  BY <1>8, <2>1 DEF WriterTakes, RotationsPaid, Due
<1>9. ASSUME NEW r \in Records, WriterSkips(r)  PROVE RotationsPaid'
  <2>1. Cardinality(In(Written)') = Cardinality(In(Written)) + 1
    BY <1>9, InMoveIn DEF WriterSkips, TypeOK, Written
  <2>2. UNCHANGED <<f, signals, hpc, needs>>  BY <1>9 DEF WriterSkips
  <2> QED  BY <2>1, <2>2, InFinite, CounterIsNatural DEF RotationsPaid, Due, TypeOK
<1>10. ASSUME NEW r \in Records, WriterWrites(r)  PROVE RotationsPaid'
  <2>1. wpc = "write" /\ UNCHANGED <<signals, hpc>>  BY <1>10, WriteMoves
  <2>2. /\ Cardinality(In(Written)') = Cardinality(In(Written)) + 1
        /\ f.counter + 1 \in FileNames
    BY <1>10, RoomToWrite
  <2>3. f'.counter \in {f.counter, f.counter + 1} /\ f'.counter \in Nat
    BY <1>10, <2>2, WriteYields, CounterIsNatural DEF TypeOK, FileStates
  <2>4. ~needs  BY <2>1 DEF InHand
  <2> QED  BY <2>1, <2>2, <2>3, <2>4, InFinite, CounterIsNatural DEF RotationsPaid, Due, TypeOK
<1>11. CASE WriterExits  BY <1>1, <1>11 DEF WriterExits
<1>12. CASE WriterSignals
  <2>1. UNCHANGED <<at, f, hpc>> /\ ~needs'  BY <1>12 DEF WriterSignals
  <2>2. In(Written)' = In(Written)  BY <2>1 DEF In
  <2>3. signals \in Nat /\ signals' \in Nat /\ signals' <= signals + IF needs THEN 1 ELSE 0
    BY <1>12 DEF WriterSignals, TypeOK
  <2> QED  BY <2>1, <2>2, <2>3, InFinite, CounterIsNatural DEF RotationsPaid, Due
<1>13. CASE WriterDone  BY <1>1, <1>13 DEF WriterDone
<1>14. CASE RotationTakes  BY <1>14 DEF RotationTakes, RotationsPaid, Due, In, TypeOK
<1>15. CASE RotationDrains
  <2>1. UNCHANGED <<at, f, needs>> /\ hpc = "drain" /\ signals \in Nat
    BY <1>15 DEF RotationDrains, TypeOK
  <2>2. In(Written)' = In(Written)  BY <2>1 DEF In
  <2>3. signals > 0 => signals' = signals - 1 /\ hpc' = hpc  BY <1>15 DEF RotationDrains
  <2>4. ~(signals > 0) => signals' = signals /\ hpc' = "rotate"  BY <1>15 DEF RotationDrains
  <2> QED  BY <2>1, <2>2, <2>3, <2>4, InFinite, CounterIsNatural DEF RotationsPaid, Due
<1>16. CASE RotationRotates
  <2>1. hpc = "rotate" /\ hpc' = "select" /\ UNCHANGED <<at, signals, needs>>
    BY <1>16 DEF RotationRotates
  <2>2. In(Written)' = In(Written)  BY <2>1 DEF In
  <2>3. f.counter + 1 \in FileNames
    <3>1. f.counter + 1 <= 2 * Cardinality(Records)
      BY <2>1, InFinite, CounterIsNatural DEF RotationsPaid, Due, TypeOK
    <3> QED  BY <3>1, RoomToRotate
  <2>4. f'.counter \in {f.counter, f.counter + 1}
    BY <1>16, <2>3, RotateYields DEF RotationRotates, TypeOK, FileStates
  <2> QED  BY <2>1, <2>2, <2>4, InFinite, CounterIsNatural DEF RotationsPaid, Due, TypeOK
<1>17. CASE RotationExits  BY <1>17 DEF RotationExits, RotationsPaid, Due, In, TypeOK
<1>18. ASSUME NEW op \in {"flush", "delete", "clear"}, MaintStart(op)  PROVE RotationsPaid'
  BY <1>1, <1>18 DEF MaintStart
<1>19. CASE MaintGivesUp  BY <1>1, <1>19 DEF MaintGivesUp
<1>20. CASE MaintDrained  BY <1>1, <1>20 DEF MaintDrained
<1>21. CASE MaintDropsSignals
  <2>1. signals' = 0 /\ UNCHANGED <<at, f, hpc, needs>>  BY <1>21 DEF MaintDropsSignals
  <2>2. In(Written)' = In(Written)  BY <2>1 DEF In
  <2> QED  BY <2>1, <2>2, InFinite, CounterIsNatural DEF RotationsPaid, Due, TypeOK
<1>22. ASSUME NEW g \in FileNames, DeleteScans(g)  PROVE RotationsPaid'
  BY <1>1, <1>22 DEF DeleteScans
<1>23. CASE RewriteCloses
  <2>1. f'.counter = f.counter /\ UNCHANGED <<at, signals, hpc, needs>>
    BY <1>23 DEF RewriteCloses, Faulty, TypeOK
  <2> QED  BY <2>1 DEF RotationsPaid, Due, In
<1>24. CASE RewriteRenames
  <2>1. In(Written)' = In(Written)  BY <1>24, InFilesChange DEF TypeOK, Written
  <2>2. f'.counter = f.counter /\ UNCHANGED <<signals, hpc, needs>>
    BY <1>24 DEF RewriteRenames, TypeOK
  <2> QED  BY <2>1, <2>2 DEF RotationsPaid, Due
<1>25. CASE RewriteFails
  <2>1. f'.counter = f.counter /\ UNCHANGED <<at, signals, hpc, needs>>
    BY <1>25 DEF RewriteFails, Faulty, TypeOK
  <2> QED  BY <2>1 DEF RotationsPaid, Due, In
<1>26. CASE DeleteReturns  BY <1>1, <1>26 DEF DeleteReturns
<1>27. CASE ClearCloses
  <2>1. f'.counter = f.counter /\ UNCHANGED <<at, signals, hpc, needs>>
    BY <1>27 DEF ClearCloses, Faulty, TypeOK
  <2> QED  BY <2>1 DEF RotationsPaid, Due, In
<1>28. CASE ClearGlobs  BY <1>1, <1>28 DEF ClearGlobs
<1>29. ASSUME NEW g \in FileNames, ClearRemoves(g)  PROVE RotationsPaid'
  <2>1. In(Written)' = In(Written)  BY <1>29, InFilesChange DEF TypeOK, Written
  <2>2. f'.counter = f.counter /\ UNCHANGED <<signals, hpc, needs>>
    BY <1>29 DEF ClearRemoves, TypeOK
  <2> QED  BY <2>1, <2>2 DEF RotationsPaid, Due
<1>30. CASE ClearFails
  <2>1. f'.counter = f.counter /\ UNCHANGED <<at, signals, hpc, needs>>
    BY <1>30 DEF ClearFails, Faulty, TypeOK
  <2> QED  BY <2>1 DEF RotationsPaid, Due, In
<1>31. CASE ClearReturns
  <2>1. f'.counter = 0 /\ UNCHANGED <<at, signals, hpc, needs>>
    BY <1>31 DEF ClearReturns, TypeOK
  <2>2. In(Written)' = In(Written)  BY <2>1 DEF In
  <2> QED  BY <2>1, <2>2, InFinite, CounterIsNatural DEF RotationsPaid, Due, TypeOK
<1>32. CASE CloseClaims  BY <1>1, <1>32 DEF CloseClaims
<1>33. CASE CloseCancels  BY <1>1, <1>33 DEF CloseCancels
<1>34. CASE CloseWaits  BY <1>1, <1>34 DEF CloseWaits
<1>35. CASE CloseFile
  <2>1. f'.counter = f.counter /\ UNCHANGED <<at, signals, hpc, needs>>
    BY <1>35 DEF CloseFile, Faulty, TypeOK
  <2> QED  BY <2>1 DEF RotationsPaid, Due, In
<1>36. ASSUME NEW result \in {"nil", "error"}, MonitorChecks(result)  PROVE RotationsPaid'
  BY <1>1, <1>36 DEF MonitorChecks
<1> QED
  BY <1>2, <1>3, <1>4, <1>5, <1>6, <1>7, <1>8, <1>9, <1>10, <1>11, <1>12, <1>13, <1>14,
     <1>15, <1>16, <1>17, <1>18, <1>19, <1>20, <1>21, <1>22, <1>23, <1>24, <1>25, <1>26,
     <1>27, <1>28, <1>29, <1>30, <1>31, <1>32, <1>33, <1>34, <1>35, <1>36
     DEF Next, WorkerStep, WriterStep, RotationStep, MaintStep, CloseStep

-----------------------------------------------------------------------------
(* The types, in three parts *)

Stages ==
    /\ jobsClosed \in BOOLEAN /\ shutPc \in {"idle", "waiting", "returned"}
    /\ closed \in BOOLEAN /\ mu \in {"free", "flush", "delete", "clear"}
    /\ ctxDone \in BOOLEAN /\ chanClosed \in BOOLEAN
    /\ wpc \in {"select", "write", "signal", "done", "exited"}
    /\ hpc \in {"select", "drain", "rotate", "exited"}
    /\ mpc \in {"idle", "drain", "signals", "work", "rewrite", "rename", "glob", "remove"}
    /\ closePc \in {"idle", "cancel", "wait", "file", "returned"}
    /\ monitor \in {"running", "stopped", "dead"} /\ lastErr \in {"none", "nil", "error"}

Counts == pending \in Nat /\ signals \in 0..SignalCap /\ ops \in 0..MaxOps

Contents ==
    /\ at \in [Records -> Places] /\ where \in [Records -> FileNames] /\ needs \in BOOLEAN
    /\ f \in FileStates /\ matched \in SUBSET Records /\ globbed \in SUBSET FileNames
    /\ scan \in [name : FileNames, read : SUBSET Records]

LEMMA TypeParts == TypeOK <=> Stages /\ Counts /\ Contents
BY DEF TypeOK, Stages, Counts, Contents, FileStates

\* Every step keeps the types of the program counters and flags.
LEMMA StagesStep ==
    ASSUME Stages, Next
    PROVE  Stages'
<1>1. ASSUME UNCHANGED <<jobsClosed, shutPc, closed, mu, ctxDone, chanClosed, wpc, hpc, mpc,
                         closePc, monitor, lastErr>>
      PROVE  Stages'
  BY <1>1 DEF Stages
<1> USE DEF mwVars, lockVars, writerVars, rotVars, maintVars, monVars, maintKeeps
<1>2. ASSUME NEW r \in Records, trySendJob(r)  PROVE Stages'  BY <1>1, <1>2 DEF trySendJob
<1>3. ASSUME NEW r \in Records, WorkerTakes(r)  PROVE Stages'  BY <1>1, <1>3 DEF WorkerTakes
<1>4. ASSUME NEW r \in Records, SaveRequestCheck(r)  PROVE Stages'
  BY <1>1, <1>4 DEF SaveRequestCheck
<1>5. ASSUME NEW r \in Records, SaveRequestSend(r)  PROVE Stages'
  BY <1>1, <1>5 DEF SaveRequestSend
<1>6. CASE ShutdownBegin  BY <1>6 DEF ShutdownBegin, Stages
<1>7. CASE ShutdownReturn  BY <1>7 DEF ShutdownReturn, Stages
<1>8. ASSUME NEW r \in Records, WriterTakes(r)  PROVE Stages'
  BY <1>8 DEF WriterTakes, Stages
<1>9. ASSUME NEW r \in Records, WriterSkips(r)  PROVE Stages'
  BY <1>9 DEF WriterSkips, Stages
<1>10. ASSUME NEW r \in Records, WriterWrites(r)  PROVE Stages'
  BY <1>10, WriteMoves DEF WriterWrites, Stages
<1>11. CASE WriterExits  BY <1>11 DEF WriterExits, Stages
<1>12. CASE WriterSignals  BY <1>12 DEF WriterSignals, Stages
<1>13. CASE WriterDone  BY <1>13 DEF WriterDone, Stages
<1>14. CASE RotationTakes  BY <1>14 DEF RotationTakes, Stages
<1>15. CASE RotationDrains  BY <1>15 DEF RotationDrains, Stages
<1>16. CASE RotationRotates  BY <1>16 DEF RotationRotates, Stages
<1>17. CASE RotationExits  BY <1>17 DEF RotationExits, Stages
<1>18. ASSUME NEW op \in {"flush", "delete", "clear"}, MaintStart(op)  PROVE Stages'
  BY <1>18 DEF MaintStart, Stages
<1>19. CASE MaintGivesUp  BY <1>19 DEF MaintGivesUp, Stages
<1>20. CASE MaintDrained  BY <1>20 DEF MaintDrained, Stages
<1>21. CASE MaintDropsSignals  BY <1>21 DEF MaintDropsSignals, Stages
<1>22. ASSUME NEW g \in FileNames, DeleteScans(g)  PROVE Stages'
  BY <1>22 DEF DeleteScans, Stages
<1>23. CASE RewriteCloses  BY <1>23 DEF RewriteCloses, Stages
<1>24. CASE RewriteRenames  BY <1>24 DEF RewriteRenames, Stages
<1>25. CASE RewriteFails  BY <1>25 DEF RewriteFails, Stages
<1>26. CASE DeleteReturns  BY <1>26 DEF DeleteReturns, Stages
<1>27. CASE ClearCloses  BY <1>27 DEF ClearCloses, Stages
<1>28. CASE ClearGlobs  BY <1>28 DEF ClearGlobs, Stages
<1>29. ASSUME NEW g \in FileNames, ClearRemoves(g)  PROVE Stages'
  BY <1>29 DEF ClearRemoves, Stages
<1>30. CASE ClearFails  BY <1>30 DEF ClearFails, Stages
<1>31. CASE ClearReturns  BY <1>31 DEF ClearReturns, Stages
<1>32. CASE CloseClaims  BY <1>32 DEF CloseClaims, Stages
<1>33. CASE CloseCancels  BY <1>33 DEF CloseCancels, Stages
<1>34. CASE CloseWaits  BY <1>34 DEF CloseWaits, Stages
<1>35. CASE CloseFile  BY <1>35 DEF CloseFile, Stages
<1>36. ASSUME NEW result \in {"nil", "error"}, MonitorChecks(result)  PROVE Stages'
  BY <1>36 DEF MonitorChecks, Stages
<1> QED
  BY <1>2, <1>3, <1>4, <1>5, <1>6, <1>7, <1>8, <1>9, <1>10, <1>11, <1>12, <1>13, <1>14,
     <1>15, <1>16, <1>17, <1>18, <1>19, <1>20, <1>21, <1>22, <1>23, <1>24, <1>25, <1>26,
     <1>27, <1>28, <1>29, <1>30, <1>31, <1>32, <1>33, <1>34, <1>35, <1>36
     DEF Next, WorkerStep, WriterStep, RotationStep, MaintStep, CloseStep

\* Every step keeps the types of the counters.
LEMMA CountsStep ==
    ASSUME TypeOK, PendingIsExact, Next
    PROVE  Counts'
<1>1. ASSUME UNCHANGED <<pending, signals, ops>>
      PROVE  Counts'
  BY <1>1 DEF Counts, TypeOK
<1> USE DEF mwVars, lockVars, writerVars, rotVars, maintVars, monVars, maintKeeps
<1>2. ASSUME NEW r \in Records, trySendJob(r)  PROVE Counts'  BY <1>1, <1>2 DEF trySendJob
<1>3. ASSUME NEW r \in Records, WorkerTakes(r)  PROVE Counts'  BY <1>1, <1>3 DEF WorkerTakes
<1>4. ASSUME NEW r \in Records, SaveRequestCheck(r)  PROVE Counts'
  BY <1>1, <1>4 DEF SaveRequestCheck
<1>5. ASSUME NEW r \in Records, SaveRequestSend(r)  PROVE Counts'
  BY <1>5 DEF SaveRequestSend, Counts, TypeOK
<1>6. CASE ShutdownBegin  BY <1>1, <1>6 DEF ShutdownBegin
<1>7. CASE ShutdownReturn  BY <1>1, <1>7 DEF ShutdownReturn
<1>8. ASSUME NEW r \in Records, WriterTakes(r)  PROVE Counts'  BY <1>1, <1>8 DEF WriterTakes
<1>9. ASSUME NEW r \in Records, WriterSkips(r)  PROVE Counts'  BY <1>1, <1>9 DEF WriterSkips
<1>10. ASSUME NEW r \in Records, WriterWrites(r)  PROVE Counts'
  BY <1>10, <1>1, WriteMoves DEF WriterWrites
<1>11. CASE WriterExits  BY <1>1, <1>11 DEF WriterExits
<1>12. CASE WriterSignals
  BY <1>12, StoreAssumption DEF WriterSignals, Counts, TypeOK, StoreAssumption
<1>13. CASE WriterDone  BY <1>13, InFinite DEF WriterDone, Counts, TypeOK, PendingIsExact
<1>14. CASE RotationTakes
  BY <1>14, StoreAssumption DEF RotationTakes, Counts, TypeOK, StoreAssumption
<1>15. CASE RotationDrains
  BY <1>15, StoreAssumption DEF RotationDrains, Counts, TypeOK, StoreAssumption
<1>16. CASE RotationRotates  BY <1>1, <1>16 DEF RotationRotates
<1>17. CASE RotationExits  BY <1>1, <1>17 DEF RotationExits
<1>18. ASSUME NEW op \in {"flush", "delete", "clear"}, MaintStart(op)  PROVE Counts'
  BY <1>18, StoreAssumption DEF MaintStart, Counts, TypeOK, StoreAssumption
<1>19. CASE MaintGivesUp  BY <1>1, <1>19 DEF MaintGivesUp
<1>20. CASE MaintDrained  BY <1>1, <1>20 DEF MaintDrained
<1>21. CASE MaintDropsSignals
  BY <1>21, StoreAssumption DEF MaintDropsSignals, Counts, TypeOK, StoreAssumption
<1>22. ASSUME NEW g \in FileNames, DeleteScans(g)  PROVE Counts'
  BY <1>1, <1>22 DEF DeleteScans
<1>23. CASE RewriteCloses  BY <1>1, <1>23 DEF RewriteCloses
<1>24. CASE RewriteRenames  BY <1>1, <1>24 DEF RewriteRenames
<1>25. CASE RewriteFails  BY <1>1, <1>25 DEF RewriteFails
<1>26. CASE DeleteReturns  BY <1>1, <1>26 DEF DeleteReturns
<1>27. CASE ClearCloses  BY <1>1, <1>27 DEF ClearCloses
<1>28. CASE ClearGlobs  BY <1>1, <1>28 DEF ClearGlobs
<1>29. ASSUME NEW g \in FileNames, ClearRemoves(g)  PROVE Counts'
  BY <1>1, <1>29 DEF ClearRemoves
<1>30. CASE ClearFails  BY <1>1, <1>30 DEF ClearFails
<1>31. CASE ClearReturns  BY <1>1, <1>31 DEF ClearReturns
<1>32. CASE CloseClaims  BY <1>1, <1>32 DEF CloseClaims
<1>33. CASE CloseCancels  BY <1>1, <1>33 DEF CloseCancels
<1>34. CASE CloseWaits  BY <1>1, <1>34 DEF CloseWaits
<1>35. CASE CloseFile  BY <1>1, <1>35 DEF CloseFile
<1>36. ASSUME NEW result \in {"nil", "error"}, MonitorChecks(result)  PROVE Counts'
  BY <1>1, <1>36 DEF MonitorChecks
<1> QED
  BY <1>2, <1>3, <1>4, <1>5, <1>6, <1>7, <1>8, <1>9, <1>10, <1>11, <1>12, <1>13, <1>14,
     <1>15, <1>16, <1>17, <1>18, <1>19, <1>20, <1>21, <1>22, <1>23, <1>24, <1>25, <1>26,
     <1>27, <1>28, <1>29, <1>30, <1>31, <1>32, <1>33, <1>34, <1>35, <1>36
     DEF Next, WorkerStep, WriterStep, RotationStep, MaintStep, CloseStep

\* Every step keeps the types of the records' places and of the files.
LEMMA ContentsStep ==
    ASSUME TypeOK, InHand, RotationsPaid, Next
    PROVE  Contents'
<1>1. ASSUME UNCHANGED <<at, where, needs, f, matched, globbed, scan>>
      PROVE  Contents'
  BY <1>1 DEF Contents, TypeOK, FileStates
<1> USE DEF mwVars, lockVars, writerVars, rotVars, maintVars, monVars, maintKeeps
<1>2. ASSUME NEW r \in Records, trySendJob(r)  PROVE Contents'
  <2>1. PICK v \in {"stopped", "job", "rejected"} : at' = [at EXCEPT ![r] = v]
    BY <1>2 DEF trySendJob
  <2>2. v \in Places  BY DEF Places, Ended
  <2> QED  BY <1>2, <2>1, <2>2 DEF trySendJob, TypeOK, Contents, FileStates
<1>3. ASSUME NEW r \in Records, WorkerTakes(r)  PROVE Contents'
  <2>1. PICK v \in {"worker"} : at' = [at EXCEPT ![r] = v]  BY <1>3 DEF WorkerTakes
  <2>2. v \in Places  BY DEF Places, Ended
  <2> QED  BY <1>3, <2>1, <2>2 DEF WorkerTakes, TypeOK, Contents, FileStates
<1>4. ASSUME NEW r \in Records, SaveRequestCheck(r)  PROVE Contents'
  <2>1. PICK v \in {"refused", "checked"} : at' = [at EXCEPT ![r] = v]
    BY <1>4 DEF SaveRequestCheck
  <2>2. v \in Places  BY DEF Places, Ended
  <2> QED  BY <1>4, <2>1, <2>2 DEF SaveRequestCheck, TypeOK, Contents, FileStates
<1>5. ASSUME NEW r \in Records, SaveRequestSend(r)  PROVE Contents'
  <2>1. PICK v \in {"refused", "ch", "dropped"} : at' = [at EXCEPT ![r] = v]
    BY <1>5 DEF SaveRequestSend
  <2>2. v \in Places  BY DEF Places, Ended
  <2> QED  BY <1>5, <2>1, <2>2 DEF SaveRequestSend, TypeOK, Contents, FileStates
<1>6. CASE ShutdownBegin  BY <1>1, <1>6 DEF ShutdownBegin
<1>7. CASE ShutdownReturn  BY <1>1, <1>7 DEF ShutdownReturn
<1>8. ASSUME NEW r \in Records, WriterTakes(r)  PROVE Contents'
  <2>1. PICK v \in {"writing"} : at' = [at EXCEPT ![r] = v]  BY <1>8 DEF WriterTakes
  <2>2. v \in Places  BY DEF Places, Ended
  <2> QED  BY <1>8, <2>1, <2>2 DEF WriterTakes, TypeOK, Contents, FileStates
<1>9. ASSUME NEW r \in Records, WriterSkips(r)  PROVE Contents'
  <2>1. PICK v \in {"skipped"} : at' = [at EXCEPT ![r] = v]  BY <1>9 DEF WriterSkips
  <2>2. v \in Places  BY DEF Places, Ended
  <2> QED  BY <1>9, <2>1, <2>2 DEF WriterSkips, TypeOK, Contents, FileStates
<1>10. ASSUME NEW r \in Records, WriterWrites(r)  PROVE Contents'
  <2>1. PICK v \in {"disk", "unlinked", "failed", "poisoned"} : at' = [at EXCEPT ![r] = v]
    BY <1>10, WriteMoves
  <2>2. at' \in [Records -> Places]  BY <2>1 DEF TypeOK, Places, Ended
  <2>3. f.counter + 1 \in FileNames  BY <1>10, RoomToWrite
  <2>4. f' \in FileStates /\ where' \in [Records -> FileNames] /\ needs' \in BOOLEAN
    BY <1>10, <2>3, WriteYields DEF TypeOK, FileStates
  <2>5. UNCHANGED <<matched, globbed, scan>>  BY <1>10, WriteMoves
  <2> QED  BY <2>2, <2>4, <2>5 DEF Contents, TypeOK
<1>11. CASE WriterExits  BY <1>1, <1>11 DEF WriterExits
<1>12. CASE WriterSignals
  <2>1. needs' = FALSE /\ UNCHANGED <<at, where, f, matched, globbed, scan>>
    BY <1>12 DEF WriterSignals
  <2> QED  BY <2>1 DEF Contents, TypeOK, FileStates
<1>13. CASE WriterDone  BY <1>1, <1>13 DEF WriterDone
<1>14. CASE RotationTakes  BY <1>1, <1>14 DEF RotationTakes
<1>15. CASE RotationDrains  BY <1>1, <1>15 DEF RotationDrains
<1>16. CASE RotationRotates
  <2>1. f \in FileStates  BY DEF TypeOK, FileStates
  <2>2. f.counter + 1 <= 2 * Cardinality(Records)
    BY <1>16, InFinite, CounterIsNatural DEF RotationRotates, RotationsPaid, Due, TypeOK
  <2>3. f' \in FileStates  BY <1>16, <2>1, <2>2, RoomToRotate, RotateYields DEF RotationRotates
  <2> QED  BY <1>16, <2>3 DEF RotationRotates, Contents, TypeOK
<1>17. CASE RotationExits  BY <1>1, <1>17 DEF RotationExits
<1>18. ASSUME NEW op \in {"flush", "delete", "clear"}, MaintStart(op)  PROVE Contents'
  <2>1. matched' \in SUBSET Records /\ UNCHANGED <<at, where, needs, f, globbed, scan>>
    BY <1>18 DEF MaintStart, TypeOK
  <2> QED  BY <2>1 DEF Contents, TypeOK, FileStates
<1>19. CASE MaintGivesUp
  <2>1. matched' = {} /\ UNCHANGED <<at, where, needs, f, globbed, scan>>
    BY <1>19 DEF MaintGivesUp
  <2> QED  BY <2>1 DEF Contents, TypeOK, FileStates
<1>20. CASE MaintDrained  BY <1>1, <1>20 DEF MaintDrained
<1>21. CASE MaintDropsSignals  BY <1>1, <1>21 DEF MaintDropsSignals
<1>22. ASSUME NEW g \in FileNames, DeleteScans(g)  PROVE Contents'
  <2>1. scan' \in [name : FileNames, read : SUBSET Records]  BY <1>22 DEF DeleteScans, In
  <2>2. UNCHANGED <<at, where, needs, f, matched, globbed>>  BY <1>22 DEF DeleteScans
  <2> QED  BY <2>1, <2>2 DEF Contents, TypeOK, FileStates
<1>23. CASE RewriteCloses
  <2>1. f \in FileStates  BY DEF TypeOK, FileStates
  <2>2. f' \in FileStates  BY <1>23, <2>1 DEF RewriteCloses, FileStates
  <2> QED  BY <1>23, <2>2 DEF RewriteCloses, TypeOK, Contents
<1>24. CASE RewriteRenames
  <2>1. f \in FileStates  BY DEF TypeOK, FileStates
  <2>2. f' \in FileStates  BY <1>24, <2>1 DEF RewriteRenames, FileStates
  <2>3. at' \in [Records -> Places]  BY <1>24 DEF RewriteRenames, TypeOK, Places, Ended
  <2> QED  BY <1>24, <2>2, <2>3 DEF RewriteRenames, TypeOK, Contents
<1>25. CASE RewriteFails
  <2>1. f \in FileStates  BY DEF TypeOK, FileStates
  <2>2. f.faults - 1 \in 0..MaxFaults
    BY <1>25, <2>1, StoreAssumption DEF RewriteFails, FileStates, StoreAssumption
  <2>3. f' \in FileStates  BY <1>25, <2>1, <2>2 DEF RewriteFails, Faulty, FileStates
  <2> QED  BY <1>25, <2>3 DEF RewriteFails, TypeOK, Contents
<1>26. CASE DeleteReturns
  <2>1. matched' = {} /\ UNCHANGED <<at, where, needs, f, globbed, scan>>
    BY <1>26 DEF DeleteReturns
  <2> QED  BY <2>1 DEF Contents, TypeOK, FileStates
<1>27. CASE ClearCloses
  <2>1. f \in FileStates  BY DEF TypeOK, FileStates
  <2>2. f' \in FileStates  BY <1>27, <2>1 DEF ClearCloses, FileStates
  <2> QED  BY <1>27, <2>2 DEF ClearCloses, TypeOK, Contents
<1>28. CASE ClearGlobs  BY <1>28 DEF ClearGlobs, TypeOK, Contents, FileStates
<1>29. ASSUME NEW g \in FileNames, ClearRemoves(g)  PROVE Contents'
  <2>1. f \in FileStates  BY DEF TypeOK, FileStates
  <2>2. f' \in FileStates  BY <1>29, <2>1 DEF ClearRemoves, FileStates
  <2>3. at' \in [Records -> Places]  BY <1>29 DEF ClearRemoves, TypeOK, Places, Ended
  <2> QED  BY <1>29, <2>2, <2>3 DEF ClearRemoves, TypeOK, Contents
<1>30. CASE ClearFails
  <2>1. f \in FileStates  BY DEF TypeOK, FileStates
  <2>2. f.faults - 1 \in 0..MaxFaults
    BY <1>30, <2>1, StoreAssumption DEF ClearFails, FileStates, StoreAssumption
  <2>3. f' \in FileStates  BY <1>30, <2>1, <2>2 DEF ClearFails, Faulty, FileStates
  <2> QED  BY <1>30, <2>3 DEF ClearFails, TypeOK, Contents
<1>31. CASE ClearReturns
  <2>1. f \in FileStates  BY DEF TypeOK, FileStates
  <2>2. 0 \in FileNames  BY ZeroIsAName
  <2>3. f' \in FileStates  BY <1>31, <2>1, <2>2 DEF ClearReturns, FileStates
  <2> QED  BY <1>31, <2>3 DEF ClearReturns, TypeOK, Contents
<1>32. CASE CloseClaims  BY <1>1, <1>32 DEF CloseClaims
<1>33. CASE CloseCancels  BY <1>1, <1>33 DEF CloseCancels
<1>34. CASE CloseWaits  BY <1>1, <1>34 DEF CloseWaits
<1>35. CASE CloseFile
  <2>1. f \in FileStates  BY DEF TypeOK, FileStates
  <2>2. f' \in FileStates  BY <1>35, <2>1 DEF CloseFile, FileStates
  <2> QED  BY <1>35, <2>2 DEF CloseFile, TypeOK, Contents
<1>36. ASSUME NEW result \in {"nil", "error"}, MonitorChecks(result)  PROVE Contents'
  BY <1>1, <1>36 DEF MonitorChecks
<1> QED
  BY <1>2, <1>3, <1>4, <1>5, <1>6, <1>7, <1>8, <1>9, <1>10, <1>11, <1>12, <1>13, <1>14,
     <1>15, <1>16, <1>17, <1>18, <1>19, <1>20, <1>21, <1>22, <1>23, <1>24, <1>25, <1>26,
     <1>27, <1>28, <1>29, <1>30, <1>31, <1>32, <1>33, <1>34, <1>35, <1>36
     DEF Next, WorkerStep, WriterStep, RotationStep, MaintStep, CloseStep

\* Every step keeps the types.
LEMMA TypeStep ==
    ASSUME TypeOK, PendingIsExact, InHand, RotationsPaid, Next
    PROVE  TypeOK'
<1>1. Stages' /\ Counts' /\ Contents'  BY TypeParts, StagesStep, CountsStep, ContentsStep
<1> QED  BY <1>1 DEF TypeOK, Stages, Counts, Contents, FileStates

-----------------------------------------------------------------------------
(* The theorems *)

\* The inductive invariant holds in every reachable state.
THEOREM Invariance == Spec => []IndInv
<1>1. Init => IndInv
  <2> SUFFICES ASSUME Init  PROVE IndInv  OBVIOUS
  <2>1. \A S : "new" \notin S => In(S) = {}  BY DEF Init, In
  <2>2. 0 \in FileNames  BY ZeroIsAName
  <2>3. Stages  BY DEF Init, Stages
  <2>4. Counts  BY StoreAssumption DEF Init, Counts, StoreAssumption
  <2>5. Contents
    <3>1. f \in FileStates  BY <2>2, StoreAssumption DEF Init, FileStates, StoreAssumption
    <3> QED  BY <2>2, <3>1 DEF Init, Contents, Places
  <2>6. Locking /\ WriterLeft /\ InHand  BY DEF Init, Locking, WriterLeft, InHand
  <2>7. PendingIsExact
    <3>1. Cardinality(In({"ch"})) = 0  BY <2>1, FS_EmptySet
    <3> QED  BY <3>1 DEF Init, PendingIsExact
  <2>8. MaintenanceIsQuiet /\ ScanIsFresh  BY DEF Init, MaintenanceIsQuiet, ScanIsFresh
  <2>9. NotClobbered  BY <2>1 DEF NotClobbered
  <2>10. RotationsPaid
    <3>1. f.counter = 0 /\ Due = 0  BY DEF Init, Due
    <3> QED  BY <3>1, InFinite DEF RotationsPaid
  <2> QED
    BY <2>3, <2>4, <2>5, <2>6, <2>7, <2>8, <2>9, <2>10, TypeParts DEF IndInv
<1>2. IndInv /\ [Next]_vars => IndInv'
  <2>1. ASSUME IndInv, Next  PROVE IndInv'
    BY <2>1, TypeStep, LockingStep, WriterLeftStep, InHandStep, PendingStep, QuietStep, ScanStep,
       NotClobberedStep, RotationsStep
       DEF IndInv
  <2>2. ASSUME IndInv, UNCHANGED vars  PROVE IndInv'
    BY <2>2 DEF IndInv, TypeOK, Locking, WriterLeft, InHand, PendingIsExact, MaintenanceIsQuiet,
        ScanIsFresh, NotClobbered, RotationsPaid, Due, In, vars, mwVars, lockVars, writerVars,
        rotVars, maintVars, monVars
  <2> QED  BY <2>1, <2>2
<1> QED  BY <1>1, <1>2, PTL DEF Spec

\* The types of RequestStore; the number of a batch file stays within twice the
\* number of records.
THEOREM TypeCorrectness == Spec => []TypeOK
BY Invariance, PTL DEF IndInv

\* pendingWrites counts the records that are queued or being written, in every
\* interleaving of SaveRequest, the writer, maintenance and Close.
THEOREM PendingTheorem == Spec => []PendingIsExact
BY Invariance, PTL DEF IndInv

\* A delete loses no record that it was not asked to delete.
THEOREM DeleteTheorem == Spec => []DeleteLosesNothing
<1>1. IndInv => DeleteLosesNothing  BY DEF IndInv, NotClobbered, DeleteLosesNothing
<1> QED  BY <1>1, Invariance, PTL

\* When Close has closed the channel, all that was accepted has been written.
THEOREM CloseTheorem == Spec => []CloseDrainsQueue
<1>1. IndInv => CloseDrainsQueue
  <2> SUFFICES ASSUME IndInv, chanClosed  PROVE wpc = "exited" /\ pending = 0 /\ In({"ch", "writing"}) = {}
    BY DEF CloseDrainsQueue
  <2>1. wpc = "exited" /\ In({"ch"}) = {}  BY DEF IndInv, WriterLeft
  <2>2. pending = 0  BY <2>1, FS_EmptySet DEF IndInv, PendingIsExact
  <2>3. In({"ch", "writing"}) = {}  BY <2>1 DEF IndInv, InHand, In
  <2> QED  BY <2>1, <2>2, <2>3
<1> QED  BY <1>1, Invariance, PTL
=============================================================================
